-------------------------- MODULE QKDSessionProofs ---------------------------
(***************************************************************************)
(* The QKD game of two paired nodes, for any number of runs, submissions,  *)
(* calls and resets and any length of the lists.                           *)
(***************************************************************************)
EXTENDS QKDSession, FiniteSetTheorems, SequenceTheorems, TLAPS

-----------------------------------------------------------------------------
(* What holds of every interleaving. *)

\* A run that goes on has counts for the beginning of the list it runs over.
Fits(q) ==
    /\ q.pc \in {"idle"} \cup Polling => q.counts = <<>>
    /\ q.pc \in {"handshaking", "handshaken", "measuring"} => Len(q.counts) < Len(q.todo)
    /\ Len(q.counts) <= Len(q.todo)

RolesOK == role \in [Nodes -> {"INDEPENDENT", "LEADER", "FOLLOWER"}]
           /\ \A n \in Nodes : role[n] \in {"INDEPENDENT", Role(n)}
RunsOK == run \in [Runs -> Run] /\ \A r \in Runs : Fits(run[r])
FollowingOK == following \in Following /\ Len(following.requests) <= following.index
WaitsOK ==
    /\ cancel_event \in [Nodes -> BOOLEAN] /\ result_event \in BOOLEAN
    /\ wait \in [Waits -> Wait]
OrdersOK ==
    /\ question_order \in [Nodes -> Orders \cup {NoOrder}]
    /\ fetch \in [Fetches -> Fetch]
OthersOK ==
    /\ leading \in Leading /\ position \in [Nodes -> Positions]
    /\ reset \in [Resets -> Reset] /\ session \in Nat

IInv == RolesOK /\ RunsOK /\ FollowingOK /\ WaitsOK /\ OrdersOK /\ OthersOK

-----------------------------------------------------------------------------
LEMMA Lists ==
    ASSUME NEW list \in BasisLists
    PROVE  /\ list \in Seq(Bases) /\ Len(list) \in Nat
           /\ list # <<>> => Len(list) > 0
           /\ list = <<>> => Len(list) = 0
<1>1. list \in Seq(Bases)
  BY DEF BasisLists
<1>2. Len(list) \in Nat
  BY <1>1, LenProperties
<1>3. list = <<>> <=> Len(list) = 0
  BY <1>1, EmptySeq
<1> QED
  BY <1>1, <1>2, <1>3

LEMMA EmptyList == <<>> \in BasisLists
  BY DEF BasisLists

RunPcs == {"idle"} \cup Polling \cup Exchanging \cup Ended
Replies == {"none", "ok", "ready", "not ready", "400", "500", "503"}

LEMMA RunShape ==
    \E L, C, O, D :
        /\ Run = [pc: RunPcs, reply: Replies, excused: BOOLEAN, todo: L, counts: C, bases: L,
                  outcome: O, compared: D, session: Nat]
        /\ L = BasisLists /\ C = Seq(Count) /\ D = Seq(Request)
        /\ O = Seq([choice: Choices, count: Count])
  BY DEF Run, RunPcs, Replies

\* What a run holds.
LEMMA RunHolds ==
    ASSUME NEW q \in Run
    PROVE  /\ q.pc \in RunPcs /\ q.reply \in Replies /\ q.session \in Nat
           /\ q.todo \in BasisLists /\ q.bases \in BasisLists
           /\ q.counts \in Seq(Count) /\ q.compared \in Seq(Request)
           /\ q.outcome \in Seq([choice: Choices, count: Count])
<1>1. PICK L, C, O, D :
         /\ Run = [pc: RunPcs, reply: Replies, excused: BOOLEAN, todo: L, counts: C, bases: L,
                   outcome: O, compared: D, session: Nat]
         /\ L = BasisLists /\ C = Seq(Count) /\ D = Seq(Request)
         /\ O = Seq([choice: Choices, count: Count])
  BY RunShape
<1>2. /\ q.pc \in RunPcs /\ q.reply \in Replies /\ q.session \in Nat
      /\ q.todo \in L /\ q.bases \in L /\ q.counts \in C /\ q.compared \in D /\ q.outcome \in O
  <2>1. q \in [pc: RunPcs, reply: Replies, excused: BOOLEAN, todo: L, counts: C, bases: L,
                outcome: O, compared: D, session: Nat]
    BY <1>1
  <2> QED
    BY ONLY <2>1
<1>3. L = BasisLists /\ C = Seq(Count) /\ D = Seq(Request)
  BY <1>1
<1>4. O = Seq([choice: Choices, count: Count])
  BY <1>1
<1> QED
  BY ONLY <1>2, <1>3, <1>4, Zenon

\* A run goes on: nothing else about it changes, and nothing about the others.
LEMMA RunGoes ==
    ASSUME run \in [Runs -> Run], NEW r \in Runs, NEW pc \in RunPcs, NEW reply \in Replies,
           \/ run' = [run EXCEPT ![r].pc = pc, ![r].reply = reply]
           \/ run' = [run EXCEPT ![r].reply = reply, ![r].pc = pc]
           \/ run' = [run EXCEPT ![r].pc = pc] /\ reply = run[r].reply
    PROVE  /\ run' \in [Runs -> Run]
           /\ \A s \in Runs : s # r => run'[s] = run[s]
           /\ run'[r].pc = pc /\ run'[r].reply = reply
           /\ run'[r].excused = run[r].excused /\ run'[r].todo = run[r].todo
           /\ run'[r].counts = run[r].counts /\ run'[r].bases = run[r].bases
           /\ run'[r].outcome = run[r].outcome /\ run'[r].compared = run[r].compared
           /\ run'[r].session = run[r].session
<1>1. run' \in [Runs -> Run]
  <2>1. PICK L, C, O, D :
           /\ Run = [pc: RunPcs, reply: Replies, excused: BOOLEAN, todo: L, counts: C, bases: L,
                     outcome: O, compared: D, session: Nat]
           /\ L = BasisLists /\ C = Seq(Count) /\ D = Seq(Request)
           /\ O = Seq([choice: Choices, count: Count])
    BY RunShape
  <2>2. pc \in RunPcs /\ reply \in Replies
    BY <2>1 DEF RunPcs, Polling, Exchanging, Ended, Replies
  <2>3. Run = [pc: RunPcs, reply: Replies, excused: BOOLEAN, todo: L, counts: C, bases: L,
               outcome: O, compared: D, session: Nat]
    BY <2>1
  <2> QED
    BY <2>2, <2>3
<1>2. \A s \in Runs : s # r => run'[s] = run[s]
  OBVIOUS
<1>3. run'[r].pc = pc /\ run'[r].reply = reply /\ run'[r].excused = run[r].excused
  BY DEF Run
<1>4. run'[r].todo = run[r].todo /\ run'[r].counts = run[r].counts /\ run'[r].bases = run[r].bases
  BY DEF Run
<1>5. run'[r].outcome = run[r].outcome /\ run'[r].compared = run[r].compared /\ run'[r].session = run[r].session
  BY DEF Run
<1> QED
  BY <1>1, <1>2, <1>3, <1>4, <1>5

\* A submission goes to poll.
LEMMA RunSubmitted ==
    ASSUME run \in [Runs -> Run], NEW r \in Runs, NEW pc \in RunPcs, session \in Nat,
           run' = [run EXCEPT ![r].pc = pc, ![r].session = session]
    PROVE  /\ run' \in [Runs -> Run]
           /\ \A s \in Runs : s # r => run'[s] = run[s]
           /\ run'[r].pc = pc /\ run'[r].reply = run[r].reply
           /\ run'[r].excused = run[r].excused /\ run'[r].todo = run[r].todo
           /\ run'[r].counts = run[r].counts /\ run'[r].bases = run[r].bases
           /\ run'[r].outcome = run[r].outcome /\ run'[r].compared = run[r].compared
           /\ run'[r].session = session
<1>1. run' \in [Runs -> Run]
  <2>1. PICK L, C, O, D :
           /\ Run = [pc: RunPcs, reply: Replies, excused: BOOLEAN, todo: L, counts: C, bases: L,
                     outcome: O, compared: D, session: Nat]
           /\ L = BasisLists /\ C = Seq(Count) /\ D = Seq(Request)
           /\ O = Seq([choice: Choices, count: Count])
    BY RunShape
  <2>2. pc \in RunPcs /\ session \in Nat
    BY <2>1 DEF RunPcs, Polling, Exchanging, Ended, Replies
  <2>3. Run = [pc: RunPcs, reply: Replies, excused: BOOLEAN, todo: L, counts: C, bases: L,
               outcome: O, compared: D, session: Nat]
    BY <2>1
  <2> QED
    BY <2>2, <2>3
<1>2. \A s \in Runs : s # r => run'[s] = run[s]
  OBVIOUS
<1>3. run'[r].pc = pc /\ run'[r].reply = run[r].reply /\ run'[r].excused = run[r].excused
  BY DEF Run
<1>4. run'[r].todo = run[r].todo /\ run'[r].counts = run[r].counts /\ run'[r].bases = run[r].bases
  BY DEF Run
<1>5. run'[r].outcome = run[r].outcome /\ run'[r].compared = run[r].compared /\ run'[r].session = session
  BY DEF Run
<1> QED
  BY <1>1, <1>2, <1>3, <1>4, <1>5

\* A first 503 is excused.
LEMMA RunExcused ==
    ASSUME run \in [Runs -> Run], NEW r \in Runs, NEW pc \in RunPcs,
           run' = [run EXCEPT ![r].pc = pc, ![r].reply = "none", ![r].excused = TRUE]
    PROVE  /\ run' \in [Runs -> Run]
           /\ \A s \in Runs : s # r => run'[s] = run[s]
           /\ run'[r].pc = pc /\ run'[r].reply = "none"
           /\ run'[r].excused = TRUE /\ run'[r].todo = run[r].todo
           /\ run'[r].counts = run[r].counts /\ run'[r].bases = run[r].bases
           /\ run'[r].outcome = run[r].outcome /\ run'[r].compared = run[r].compared
           /\ run'[r].session = run[r].session
<1>1. run' \in [Runs -> Run]
  <2>1. PICK L, C, O, D :
           /\ Run = [pc: RunPcs, reply: Replies, excused: BOOLEAN, todo: L, counts: C, bases: L,
                     outcome: O, compared: D, session: Nat]
           /\ L = BasisLists /\ C = Seq(Count) /\ D = Seq(Request)
           /\ O = Seq([choice: Choices, count: Count])
    BY RunShape
  <2>2. pc \in RunPcs /\ "none" \in Replies
    BY <2>1 DEF RunPcs, Polling, Exchanging, Ended, Replies
  <2>3. Run = [pc: RunPcs, reply: Replies, excused: BOOLEAN, todo: L, counts: C, bases: L,
               outcome: O, compared: D, session: Nat]
    BY <2>1
  <2> QED
    BY <2>2, <2>3
<1>2. \A s \in Runs : s # r => run'[s] = run[s]
  OBVIOUS
<1>3. run'[r].pc = pc /\ run'[r].reply = "none" /\ run'[r].excused = TRUE
  BY DEF Run
<1>4. run'[r].todo = run[r].todo /\ run'[r].counts = run[r].counts /\ run'[r].bases = run[r].bases
  BY DEF Run
<1>5. run'[r].outcome = run[r].outcome /\ run'[r].compared = run[r].compared /\ run'[r].session = run[r].session
  BY DEF Run
<1> QED
  BY <1>1, <1>2, <1>3, <1>4, <1>5

\* A run has measured.
LEMMA RunMeasures ==
    ASSUME run \in [Runs -> Run], NEW r \in Runs, NEW counts \in Seq(Count),
           run' = [run EXCEPT ![r].pc = "measured", ![r].reply = "ok", ![r].counts = counts]
    PROVE  /\ run' \in [Runs -> Run]
           /\ \A s \in Runs : s # r => run'[s] = run[s]
           /\ run'[r].pc = "measured" /\ run'[r].reply = "ok"
           /\ run'[r].excused = run[r].excused /\ run'[r].todo = run[r].todo
           /\ run'[r].counts = counts /\ run'[r].bases = run[r].bases
           /\ run'[r].outcome = run[r].outcome /\ run'[r].compared = run[r].compared
           /\ run'[r].session = run[r].session
<1>1. run' \in [Runs -> Run]
  <2>1. PICK L, C, O, D :
           /\ Run = [pc: RunPcs, reply: Replies, excused: BOOLEAN, todo: L, counts: C, bases: L,
                     outcome: O, compared: D, session: Nat]
           /\ L = BasisLists /\ C = Seq(Count) /\ D = Seq(Request)
           /\ O = Seq([choice: Choices, count: Count])
    BY RunShape
  <2>2. "measured" \in RunPcs /\ "ok" \in Replies /\ counts \in C
    BY <2>1 DEF RunPcs, Polling, Exchanging, Ended, Replies
  <2>3. Run = [pc: RunPcs, reply: Replies, excused: BOOLEAN, todo: L, counts: C, bases: L,
               outcome: O, compared: D, session: Nat]
    BY <2>1
  <2> QED
    BY <2>2, <2>3
<1>2. \A s \in Runs : s # r => run'[s] = run[s]
  OBVIOUS
<1>3. run'[r].pc = "measured" /\ run'[r].reply = "ok" /\ run'[r].excused = run[r].excused
  BY DEF Run
<1>4. run'[r].todo = run[r].todo /\ run'[r].counts = counts /\ run'[r].bases = run[r].bases
  BY DEF Run
<1>5. run'[r].outcome = run[r].outcome /\ run'[r].compared = run[r].compared /\ run'[r].session = run[r].session
  BY DEF Run
<1> QED
  BY <1>1, <1>2, <1>3, <1>4, <1>5

\* A run has all its counts.
LEMMA RunCompares ==
    ASSUME run \in [Runs -> Run], NEW r \in Runs, NEW bases \in BasisLists,
           NEW outcome \in Seq([choice: Choices, count: Count]),
           run' = [run EXCEPT ![r].pc = "comparing", ![r].reply = "none", ![r].bases = bases,
                              ![r].outcome = outcome]
    PROVE  /\ run' \in [Runs -> Run]
           /\ \A s \in Runs : s # r => run'[s] = run[s]
           /\ run'[r].pc = "comparing" /\ run'[r].reply = "none"
           /\ run'[r].excused = run[r].excused /\ run'[r].todo = run[r].todo
           /\ run'[r].counts = run[r].counts /\ run'[r].bases = bases
           /\ run'[r].outcome = outcome /\ run'[r].compared = run[r].compared
           /\ run'[r].session = run[r].session
<1>1. run' \in [Runs -> Run]
  <2>1. PICK L, C, O, D :
           /\ Run = [pc: RunPcs, reply: Replies, excused: BOOLEAN, todo: L, counts: C, bases: L,
                     outcome: O, compared: D, session: Nat]
           /\ L = BasisLists /\ C = Seq(Count) /\ D = Seq(Request)
           /\ O = Seq([choice: Choices, count: Count])
    BY RunShape
  <2>2. "comparing" \in RunPcs /\ "none" \in Replies /\ bases \in L /\ outcome \in O
    BY <2>1 DEF RunPcs, Polling, Exchanging, Ended, Replies
  <2>3. Run = [pc: RunPcs, reply: Replies, excused: BOOLEAN, todo: L, counts: C, bases: L,
               outcome: O, compared: D, session: Nat]
    BY <2>1
  <2> QED
    BY <2>2, <2>3
<1>2. \A s \in Runs : s # r => run'[s] = run[s]
  OBVIOUS
<1>3. run'[r].pc = "comparing" /\ run'[r].reply = "none" /\ run'[r].excused = run[r].excused
  BY DEF Run
<1>4. run'[r].todo = run[r].todo /\ run'[r].counts = run[r].counts /\ run'[r].bases = bases
  BY DEF Run
<1>5. run'[r].outcome = outcome /\ run'[r].compared = run[r].compared /\ run'[r].session = run[r].session
  BY DEF Run
<1> QED
  BY <1>1, <1>2, <1>3, <1>4, <1>5

\* A run has the follower's bases.
LEMMA RunCompared ==
    ASSUME run \in [Runs -> Run], NEW r \in Runs, NEW compared \in Seq(Request),
           run' = [run EXCEPT ![r].pc = "compared", ![r].reply = "ok", ![r].compared = compared]
    PROVE  /\ run' \in [Runs -> Run]
           /\ \A s \in Runs : s # r => run'[s] = run[s]
           /\ run'[r].pc = "compared" /\ run'[r].reply = "ok"
           /\ run'[r].excused = run[r].excused /\ run'[r].todo = run[r].todo
           /\ run'[r].counts = run[r].counts /\ run'[r].bases = run[r].bases
           /\ run'[r].outcome = run[r].outcome /\ run'[r].compared = compared
           /\ run'[r].session = run[r].session
<1>1. run' \in [Runs -> Run]
  <2>1. PICK L, C, O, D :
           /\ Run = [pc: RunPcs, reply: Replies, excused: BOOLEAN, todo: L, counts: C, bases: L,
                     outcome: O, compared: D, session: Nat]
           /\ L = BasisLists /\ C = Seq(Count) /\ D = Seq(Request)
           /\ O = Seq([choice: Choices, count: Count])
    BY RunShape
  <2>2. "compared" \in RunPcs /\ "ok" \in Replies /\ compared \in D
    BY <2>1 DEF RunPcs, Polling, Exchanging, Ended, Replies
  <2>3. Run = [pc: RunPcs, reply: Replies, excused: BOOLEAN, todo: L, counts: C, bases: L,
               outcome: O, compared: D, session: Nat]
    BY <2>1
  <2> QED
    BY <2>2, <2>3
<1>2. \A s \in Runs : s # r => run'[s] = run[s]
  OBVIOUS
<1>3. run'[r].pc = "compared" /\ run'[r].reply = "ok" /\ run'[r].excused = run[r].excused
  BY DEF Run
<1>4. run'[r].todo = run[r].todo /\ run'[r].counts = run[r].counts /\ run'[r].bases = run[r].bases
  BY DEF Run
<1>5. run'[r].outcome = run[r].outcome /\ run'[r].compared = compared /\ run'[r].session = run[r].session
  BY DEF Run
<1> QED
  BY <1>1, <1>2, <1>3, <1>4, <1>5

-----------------------------------------------------------------------------
(* The runs of the leader. *)

LEMMA Frame ==
    ASSUME IInv
    PROVE  /\ UNCHANGED role => RolesOK'
           /\ UNCHANGED run => RunsOK'
           /\ UNCHANGED following => FollowingOK'
           /\ UNCHANGED <<cancel_event, result_event, wait>> => WaitsOK'
           /\ UNCHANGED <<question_order, fetch>> => OrdersOK'
           /\ UNCHANGED <<leading, position, reset, session>> => OthersOK'
  BY DEF IInv, RolesOK, RunsOK, FollowingOK, WaitsOK, OrdersOK,
     OthersOK

\* Steps of a run that neither count nor begin.
LEMMA RunStays ==
    ASSUME RunsOK, NEW r \in Runs, NEW pc \in RunPcs, NEW reply \in Replies,
           \/ run' = [run EXCEPT ![r].pc = pc, ![r].reply = reply]
           \/ run' = [run EXCEPT ![r].reply = reply, ![r].pc = pc]
           \/ run' = [run EXCEPT ![r].pc = pc] /\ reply = run[r].reply,
           \/ pc \in {"comparing", "measured", "compared", "submitting"} \cup Ended
           \/ run[r].pc \in {"idle"} \cup Polling /\ pc \in Polling
           \/ /\ run[r].pc \in {"handshaking", "handshaken", "measuring"}
              /\ pc \in {"handshaking", "handshaken", "measuring"}
           \/ pc = "handshaking" /\ Len(run[r].counts) < Len(run[r].todo)
    PROVE  RunsOK'
<1>1. /\ run' \in [Runs -> Run]
      /\ \A s \in Runs : s # r => run'[s] = run[s]
      /\ run'[r].pc = pc /\ run'[r].todo = run[r].todo
      /\ run'[r].counts = run[r].counts /\ run'[r].compared = run[r].compared
  BY RunGoes DEF RunsOK
<1>2. Fits(run[r])
  BY DEF RunsOK
<1>3. Fits(run'[r])
  BY <1>1, <1>2 DEF Fits, Polling, Exchanging, Ended
<1> QED
  BY <1>1, <1>3 DEF RunsOK

LEMMA Pcs ==
    /\ {"idle", "polling", "polled", "pausing", "handshaking", "handshaken", "measuring",
        "measured", "comparing", "compared", "submitting", "done", "failed", "conflict"} = RunPcs
    /\ Poll \in {"conflict", "polling", "failed"}
  BY DEF RunPcs, Polling, Exchanging, Ended, Poll

LEMMA BeginsFits ==
    ASSUME RunsOK, OthersOK, NEW r \in Runs, run[r].pc \in {"idle", "polled"},
           \/ run' = [run EXCEPT ![r] = Begin(@)]
           \/ run' = [run EXCEPT ![r] = [Begin(@) EXCEPT !.session = session]]
    PROVE  RunsOK'
<1>1. leading.basis_list \in BasisLists /\ session \in Nat
  BY DEF OthersOK, Leading
<1>2. PICK list \in BasisLists, pc \in {"comparing", "handshaking"} :
         /\ list = leading.basis_list /\ pc = IF list = <<>> THEN "comparing" ELSE "handshaking"
  BY <1>1
<1>3. PICK b, p : /\ b = [run[r] EXCEPT !.reply = "none", !.todo = list, !.pc = pc]
                  /\ p = b \/ p = [b EXCEPT !.session = session]
                  /\ run' = [run EXCEPT ![r] = p]
  <2>1. Begin(run[r]) = [run[r] EXCEPT !.reply = "none", !.todo = list, !.pc = pc]
    BY <1>2 DEF Begin
  <2>2. run \in [Runs -> Run]
    BY DEF RunsOK
  <2> QED
    BY <2>1, <2>2
<1>4. /\ run' \in [Runs -> Run]
      /\ \A s \in Runs : s # r => run'[s] = run[s]
      /\ run'[r].pc = pc /\ run'[r].todo = list
      /\ run'[r].counts = run[r].counts /\ run'[r].compared = run[r].compared
  <2>1. run \in [Runs -> Run] /\ run[r] \in Run /\ session \in Nat
    BY <1>1 DEF RunsOK
  <2>2. PICK L, C, O, D :
           /\ Run = [pc: RunPcs, reply: Replies, excused: BOOLEAN, todo: L, counts: C, bases: L,
                     outcome: O, compared: D, session: Nat]
           /\ L = BasisLists
    BY RunShape
  <2>3. pc \in RunPcs /\ "none" \in Replies /\ list \in L
    BY <2>2 DEF RunPcs, Polling, Exchanging, Ended, Replies
  <2>4. Run = [pc: RunPcs, reply: Replies, excused: BOOLEAN, todo: L, counts: C, bases: L,
               outcome: O, compared: D, session: Nat]
    BY <2>2
  <2>5. PICK q \in Run : q = run[r]
    BY <2>1
  <2>6. PICK s \in Nat : s = session
    BY <2>1
  <2>7. b = [q EXCEPT !.reply = "none", !.todo = list, !.pc = pc] /\ b \in Run
    BY <1>3, <2>3, <2>4, <2>5
  <2>8. p = b \/ p = [b EXCEPT !.session = s]
    BY <1>3, <2>6
  <2>9. p \in Run
    BY ONLY <2>4, <2>7, <2>8, <2>6
  <2>10. p.pc = pc /\ p.todo = list /\ p.counts = q.counts /\ p.compared = q.compared
    BY ONLY <2>4, <2>7, <2>8, <2>5
  <2> QED
    BY <1>3, <2>1, <2>5, <2>9, <2>10
<1>5. Fits(run[r]) /\ run[r].counts = <<>>
  BY DEF RunsOK, Fits, Polling
<1>6. Len(list) \in Nat /\ (pc = "handshaking" => Len(list) > 0)
  BY <1>2, Lists
<1>7. Fits(run'[r])
  BY <1>4, <1>5, <1>6, QKDAssumption DEF Fits, Polling
<1> QED
  BY <1>4, <1>7 DEF RunsOK

LEMMA PollingKeeps ==
    ASSUME IInv, NEW r \in Runs,
           SubmitBasisListLeader(r) \/ IsFollowerReady(r) \/ PollAnswered(r) \/ PauseOver(r) \/ QKD(r)
    PROVE  IInv'
<1>1. UNCHANGED <<role, cancel_event, result_event, following, question_order, position, wait,
                  fetch, reset, session>>
  BY DEF SubmitBasisListLeader, IsFollowerReady, PollAnswered, PauseOver, QKD, PollUnchanged
<1>2. leading' \in Leading
  BY QKDAssumption
     DEF IInv, OthersOK, Leading, SubmitBasisListLeader, IsFollowerReady, PollAnswered, PauseOver,
         QKD
<1>3. RunsOK /\ OthersOK /\ Fits(run[r]) /\ run[r] \in Run
  BY DEF IInv, RunsOK
<1>4. RunsOK'
  <2>1. CASE SubmitBasisListLeader(r)
    <3>1. run[r].pc = "idle" /\ run' = [run EXCEPT ![r].pc = Poll, ![r].session = session]
      BY <2>1 DEF SubmitBasisListLeader
    <3>2. /\ run' \in [Runs -> Run]
          /\ \A s \in Runs : s # r => run'[s] = run[s]
          /\ run'[r].pc = Poll
          /\ run'[r].counts = run[r].counts /\ run'[r].compared = run[r].compared
      BY <1>3, <3>1, Pcs, RunSubmitted DEF RunsOK, OthersOK
    <3>3. Fits(run'[r])
      BY <1>3, <3>1, <3>2, Pcs DEF Fits, Polling
    <3> QED
      BY <1>3, <3>2, <3>3 DEF RunsOK
  <2>2. CASE IsFollowerReady(r)
    <3>1. PICK reply \in Replies : run' = [run EXCEPT ![r].pc = "polled", ![r].reply = reply]
      BY <2>2 DEF IsFollowerReady, Replies
    <3>2. run[r].pc = "polling"
      BY <2>2 DEF IsFollowerReady
    <3> QED
      BY <1>3, <3>1, <3>2, Pcs, RunStays DEF Polling
  <2>3. CASE PollAnswered(r)
    <3>1. run[r].pc = "polled"
      BY <2>3 DEF PollAnswered
    <3>2. CASE run' = [run EXCEPT ![r].pc = Poll, ![r].reply = "none", ![r].excused = TRUE]
      <4>1. /\ run' \in [Runs -> Run]
            /\ \A s \in Runs : s # r => run'[s] = run[s]
            /\ run'[r].pc = Poll
            /\ run'[r].counts = run[r].counts /\ run'[r].compared = run[r].compared
        BY <1>3, <3>2, Pcs, RunExcused DEF RunsOK
      <4>2. Fits(run'[r])
        BY <1>3, <3>1, <4>1, Pcs DEF Fits, Polling
      <4> QED
        BY <1>3, <4>1, <4>2 DEF RunsOK
    <3>3. ASSUME NEW pc \in {"failed", "pausing"}, run' = [run EXCEPT ![r].pc = pc, ![r].reply = "none"]
          PROVE  RunsOK'
      BY <1>3, <3>1, <3>3, Pcs, RunStays DEF Polling, Ended, Replies
    <3>4. CASE run' = [run EXCEPT ![r] = Begin(@)]
      BY <1>3, <3>1, <3>4, BeginsFits
    <3> QED
      BY <2>3, <3>2, <3>3, <3>4 DEF PollAnswered
  <2>4. CASE PauseOver(r)
    <3>1. run[r].pc = "pausing" /\ run' = [run EXCEPT ![r].pc = Poll] /\ run[r].reply \in Replies
      BY <1>3, <2>4 DEF PauseOver, Run, Replies
    <3> QED
      BY <1>3, <3>1, Pcs, RunStays DEF Polling, Ended
  <2>5. CASE QKD(r)
    <3>1. run[r].pc = "idle" /\ run' = [run EXCEPT ![r] = [Begin(@) EXCEPT !.session = session]]
      BY <2>5 DEF QKD
    <3> QED
      BY <1>3, <3>1, BeginsFits
  <2> QED
    BY <2>1, <2>2, <2>3, <2>4, <2>5
<1> QED
  BY <1>1, <1>2, <1>4, Frame DEF IInv, OthersOK

-----------------------------------------------------------------------------
(* The exchange. *)

\* The choice a run is about to make is one of the list it runs over.
LEMMA BitIsAChoice ==
    ASSUME RunsOK, NEW r \in Runs, run[r].pc \in {"handshaking", "handshaken", "measuring"}
    PROVE  Bit(r) \in Choices /\ Bit(r) \in Positions
<1>1. run[r] \in Run /\ Len(run[r].counts) < Len(run[r].todo)
  BY DEF RunsOK, Fits
<1>2. Len(run[r].counts) \in Nat
  <2>1. run[r].counts \in Seq(Count)
    BY <1>1, RunHolds
  <2> QED
    BY <2>1, LenProperties
<1>3. Len(run[r].counts) + 1 \in Nat \ {0}
  BY <1>2
<1> QED
  BY <1>3 DEF Bit, Choices, Positions

LEMMA OutcomeIsASequence ==
    ASSUME OthersOK, NEW counts \in Seq(Count)
    PROVE  Outcome(counts) \in Seq([choice: Choices, count: Count])
<1>1. leading.bit_list \in Seq(Choices) /\ leading.basis_list \in BasisLists
  BY DEF OthersOK, Leading
<1>2. PICK a \in Nat, b \in Nat, c \in Nat :
         a = Len(counts) /\ b = Len(leading.bit_list) /\ c = Len(leading.basis_list)
  <2>1. Len(leading.basis_list) \in Nat
    BY <1>1, Lists
  <2> QED
    BY <1>1, <2>1
<1>3. PICK n \in 0..a : {j \in 1..a : j <= b /\ j <= c} = 1..n /\ n <= b
  <2>1. CASE a <= b /\ a <= c
    BY <2>1
  <2>2. CASE b <= a /\ b <= c
    BY <2>2
  <2>3. CASE c <= a /\ c <= b
    BY <2>3
  <2> QED
    BY <2>1, <2>2, <2>3
<1>4. Outcome(counts) = [i \in 1..n |-> [choice |-> leading.bit_list[i], count |-> counts[i]]]
  BY <1>2, <1>3 DEF Outcome
<1>5. \A i \in 1..n : leading.bit_list[i] \in Choices /\ counts[i] \in Count
  BY <1>1, <1>2, <1>3
<1>6. PICK S : S = [choice: Choices, count: Count]
  OBVIOUS
<1>7. Outcome(counts) \in [1..n -> S]
  BY <1>4, <1>5, <1>6
<1>8. n \in Nat
  BY <1>2, <1>3
<1>9. Outcome(counts) \in Seq(S)
  BY ONLY <1>7, <1>8, SeqDef
<1> QED
  BY <1>6, <1>9

LEMMA IndexesAreCounted ==
    ASSUME RunsOK, NEW r \in Runs
    PROVE  IsFiniteSet(IndexList(r)) /\ Cardinality(IndexList(r)) \in Nat
<1>1. run[r].compared \in Seq(Request)
  BY RunHolds DEF RunsOK
<1>2. PICK n \in Nat : n = Len(run[r].compared)
  BY <1>1
<1>3. IndexList(r) \subseteq 1..n /\ IsFiniteSet(1..n) /\ Cardinality(1..n) = n
  <2>1. DOMAIN run[r].compared = 1..n
    BY <1>1, <1>2, LenProperties
  <2>2. IndexList(r) \subseteq 1..n
    BY <2>1 DEF IndexList
  <2>3. 1 \in Int /\ n \in Int
    OBVIOUS
  <2>4. /\ IsFiniteSet(1..n)
        /\ Cardinality(1..n) = IF 1 > n THEN 0 ELSE n - 1 + 1
    BY <2>3, FS_Interval
  <2> QED
    BY <2>2, <2>4
<1>4. IsFiniteSet(IndexList(r)) /\ Cardinality(IndexList(r)) <= Cardinality(1..n)
  BY <1>3, FS_Subset
<1>5. Cardinality(IndexList(r)) \in Nat
  BY <1>4, FS_CardinalityType
<1> QED
  BY <1>4, <1>5

LEMMA WaitersGo ==
    ASSUME wait \in [Waits -> Wait]
    PROVE  /\ WaitersWoken \in [Waits -> Wait]
           /\ \A w \in Waits : /\ WaitersWoken[w].pc # "waiting"
                               /\ WaitersWoken[w].session = wait[w].session
                               /\ WaitersWoken[w].bits = wait[w].bits
                               /\ wait[w].pc # "waiting" => WaitersWoken[w].pc = wait[w].pc
                               /\ wait[w].pc = "waiting" => WaitersWoken[w].pc = "woken"
  BY DEF WaitersWoken, Wait

LEMMA SingleBitKeeps == ASSUME IInv, NEW r \in Runs, SingleBit(r) PROVE IInv'
<1>1. /\ UNCHANGED <<role, cancel_event, question_order, fetch, reset, session, leading,
                     result_event, wait>>
      /\ run[r].pc = "handshaking" /\ RunsOK /\ OthersOK /\ FollowingOK
  BY DEF SingleBit, ExchangeUnchanged, IInv
<1>2. RunsOK'
  <2>1. PICK reply \in Replies : run' = [run EXCEPT ![r].pc = "handshaken", ![r].reply = reply]
    BY DEF SingleBit, Replies
  <2> QED
    BY <1>1, <2>1, Pcs, RunStays
<1>3. CASE UNCHANGED <<following, position>>
  BY <1>1, <1>2, <1>3, Frame DEF IInv
<1>4. CASE /\ following.index + 1 <= Len(following.basis_list)
           /\ following' = [following EXCEPT !.index = following.index + 1, !.requests =
                 Append(@, [basis |-> following.basis_list[following.index + 1],
                            choice |-> Bit(r)])]
           /\ position' = [position EXCEPT !["follower"] = Bit(r)] \/ UNCHANGED position
  <2>1. /\ following.basis_list \in BasisLists
        /\ following.index \in Nat /\ following.requests \in Seq(Request)
        /\ following.n_matching_bits \in Nat \cup {-1}
        /\ Len(following.requests) <= following.index
    BY <1>1 DEF FollowingOK, Following
  <2>2. following.basis_list \in Seq(Bases) /\ Len(following.basis_list) \in Nat
    BY <2>1, Lists
  <2>3. PICK q \in Request :
           q = [basis |-> following.basis_list[following.index + 1], choice |-> Bit(r)]
    <3>1. following.basis_list[following.index + 1] \in Bases
      BY <1>4, <2>1, <2>2
    <3>2. Bit(r) \in Choices
      BY <1>1, BitIsAChoice
    <3> QED
      BY <3>1, <3>2 DEF Request
  <2>4. following' = [basis_list |-> following.basis_list, index |-> following.index + 1,
                      requests |-> Append(following.requests, q),
                      n_matching_bits |-> following.n_matching_bits]
    BY <1>1, <1>4, <2>3 DEF FollowingOK, Following
  <2>5. /\ following.index + 1 \in Nat
        /\ Append(following.requests, q) \in Seq(Request)
        /\ Len(Append(following.requests, q)) = Len(following.requests) + 1
    BY <1>4, <2>1, <2>2, QKDAssumption
  <2>6. FollowingOK'
    BY <1>4, <2>1, <2>4, <2>5 DEF FollowingOK, Following
  <2>7. OthersOK'
    BY <1>1, <1>4, BitIsAChoice DEF OthersOK, Nodes
  <2> QED
    BY <1>1, <1>2, <2>6, <2>7, Frame DEF IInv
<1> QED
  BY <1>3, <1>4 DEF SingleBit

LEMMA ChooseBitKeeps == ASSUME IInv, NEW r \in Runs, ChooseBit(r) PROVE IInv'
<1>1. /\ UNCHANGED <<role, cancel_event, question_order, fetch, reset, session, following,
                     result_event, wait>>
      /\ run[r].pc = "handshaken" /\ RunsOK /\ OthersOK
  BY DEF ChooseBit, ExchangeUnchanged, IInv
<1>2. RunsOK'
  <2>1. PICK pc \in {"failed", "measuring"} : run' = [run EXCEPT ![r].pc = pc, ![r].reply = "none"]
    BY DEF ChooseBit
  <2> QED
    BY <1>1, <2>1, Pcs, RunStays DEF Ended, Replies
<1>3. Bit(r) \in Choices /\ Bit(r) \in Positions
  BY <1>1, BitIsAChoice
<1>4. OthersOK'
  <2>1. ASSUME UNCHANGED leading PROVE leading' \in Leading
    BY <1>1, <2>1 DEF OthersOK
  <2>2. ASSUME leading' = [leading EXCEPT !.bit_list = Append(@, Bit(r))]
        PROVE  leading' \in Leading
    <3>1. leading.bit_list \in Seq(Choices)
      BY <1>1 DEF OthersOK, Leading
    <3>2. Append(leading.bit_list, Bit(r)) \in Seq(Choices)
      BY <1>3, <3>1, AppendProperties
    <3> QED
      BY <1>1, <2>2, <3>2 DEF OthersOK, Leading
  <2>3. leading' \in Leading
    BY <1>1, <2>1, <2>2 DEF ChooseBit, OthersOK
  <2>4. position' \in [Nodes -> Positions]
    BY <1>1, <1>3 DEF ChooseBit, OthersOK, Nodes
  <2> QED
    BY <1>1, <2>3, <2>4 DEF OthersOK
<1> QED
  BY <1>1, <1>2, <1>4, Frame DEF IInv

LEMMA MeasureKeeps == ASSUME IInv, NEW r \in Runs, MeasureCorrelation(r) PROVE IInv'
<1>1. /\ UNCHANGED <<role, cancel_event, question_order, fetch, reset, session, leading, following,
                     position, result_event, wait>>
      /\ RunsOK /\ OthersOK /\ run[r] \in Run /\ Fits(run[r])
  BY DEF MeasureCorrelation, ExchangeUnchanged, IInv, RunsOK
<1>2. position \in Count
  <2>1. position = [leader |-> position["leader"], follower |-> position["follower"]]
    BY <1>1 DEF OthersOK, Nodes
  <2> QED
    BY <1>1, <2>1 DEF OthersOK, Nodes, Count
<1>3. CASE run' = [run EXCEPT ![r].pc = "measured", ![r].reply = "ok",
                              ![r].counts = Append(@, position)]
  <2>1. PICK counts \in Seq(Count) : counts = Append(run[r].counts, position)
    <3>1. run[r].counts \in Seq(Count)
      BY <1>1, RunHolds
    <3> QED
      BY <1>2, <3>1, AppendProperties
  <2>2. run' = [run EXCEPT ![r].pc = "measured", ![r].reply = "ok", ![r].counts = counts]
    BY <1>1, <1>3, <2>1 DEF Run, RunsOK
  <2>3. /\ run' \in [Runs -> Run]
        /\ \A s \in Runs : s # r => run'[s] = run[s]
        /\ run'[r].pc = "measured" /\ run'[r].todo = run[r].todo /\ run'[r].counts = counts
    BY <1>1, <2>2, RunMeasures DEF RunsOK
  <2>4. Fits(run'[r])
    <3>1. Len(counts) = Len(run[r].counts) + 1 /\ Len(run[r].counts) \in Nat
      BY <1>1, <1>2, <2>1, RunHolds, AppendProperties, LenProperties
    <3>2. Len(run[r].counts) < Len(run[r].todo) /\ Len(run[r].todo) \in Nat
      BY <1>1, RunHolds, Lists DEF Fits, MeasureCorrelation
    <3> QED
      BY <2>3, <3>1, <3>2 DEF Fits, Polling
  <2>5. RunsOK'
    BY <1>1, <2>3, <2>4 DEF RunsOK
  <2> QED
    BY <1>1, <2>5, Frame DEF IInv
<1>4. CASE run' = [run EXCEPT ![r].pc = "measured", ![r].reply = "500"]
  <2>1. RunsOK'
    BY <1>1, <1>4, Pcs, RunStays DEF Replies
  <2> QED
    BY <1>1, <2>1, Frame DEF IInv
<1> QED
  BY <1>3, <1>4 DEF MeasureCorrelation

LEMMA CountReceivedKeeps == ASSUME IInv, NEW r \in Runs, CountReceived(r) PROVE IInv'
<1>1. /\ UNCHANGED <<role, cancel_event, question_order, fetch, reset, session, leading, following,
                     position, result_event, wait>>
      /\ RunsOK /\ OthersOK /\ run[r] \in Run /\ Fits(run[r])
  BY DEF CountReceived, ExchangeUnchanged, IInv, RunsOK
<1>2. CASE run' = [run EXCEPT ![r].pc = "failed", ![r].reply = "none"]
  BY <1>1, <1>2, Pcs, RunStays, Frame DEF IInv, Ended, Replies
<1>3. CASE /\ run' = [run EXCEPT ![r].pc = "handshaking", ![r].reply = "none"]
           /\ Len(run[r].counts) < Len(run[r].todo)
  BY <1>1, <1>3, Pcs, RunStays, Frame DEF IInv, Replies
<1>4. CASE run' = [run EXCEPT ![r].pc = "comparing", ![r].reply = "none",
                              ![r].bases = leading.basis_list,
                              ![r].outcome = Outcome(run[r].counts)]
  <2>1. /\ leading.basis_list \in BasisLists
        /\ Outcome(run[r].counts) \in Seq([choice: Choices, count: Count])
    BY <1>1, OutcomeIsASequence DEF OthersOK, Leading, Run
  <2>2. /\ run' \in [Runs -> Run]
        /\ \A s \in Runs : s # r => run'[s] = run[s]
        /\ run'[r].pc = "comparing" /\ run'[r].todo = run[r].todo
        /\ run'[r].counts = run[r].counts
    BY <1>1, <1>4, <2>1, RunCompares DEF RunsOK
  <2>3. Fits(run'[r])
    BY <1>1, <2>2 DEF Fits, Polling
  <2>4. RunsOK'
    BY <1>1, <2>2, <2>3 DEF RunsOK
  <2> QED
    BY <1>1, <2>4, Frame DEF IInv
<1> QED
  BY <1>2, <1>3, <1>4 DEF CountReceived, BitsLeft

LEMMA RequestBasisListKeeps == ASSUME IInv, NEW r \in Runs, RequestBasisList(r) PROVE IInv'
<1>1. /\ UNCHANGED <<role, cancel_event, question_order, fetch, reset, session, leading, position,
                     result_event, wait>>
      /\ RunsOK /\ FollowingOK /\ run[r] \in Run /\ Fits(run[r])
  BY DEF RequestBasisList, ExchangeUnchanged, IInv, RunsOK
<1>2. CASE run' = [run EXCEPT ![r].pc = "compared", ![r].reply = "400"] /\ UNCHANGED following
  BY <1>1, <1>2, Pcs, RunStays, Frame DEF IInv, Replies
<1>3. CASE /\ run' = [run EXCEPT ![r].pc = "compared", ![r].reply = "ok",
                                 ![r].compared = following.requests]
           /\ following' = [following EXCEPT !.requests = <<>>]
  <2>1. following.requests \in Seq(Request) /\ following.index \in Nat
    BY <1>1 DEF FollowingOK, Following
  <2>2. /\ run' \in [Runs -> Run]
        /\ \A s \in Runs : s # r => run'[s] = run[s]
        /\ run'[r].pc = "compared" /\ run'[r].todo = run[r].todo
        /\ run'[r].counts = run[r].counts
    BY <1>1, <1>3, <2>1, RunCompared DEF RunsOK
  <2>3. Fits(run'[r])
    BY <1>1, <2>1, <2>2 DEF Fits, Polling
  <2>4. RunsOK'
    BY <1>1, <2>2, <2>3 DEF RunsOK
  <2>5. FollowingOK'
    <3>1. /\ following \in Following /\ <<>> \in Seq(Request) /\ Len(<<>>) = 0
      BY <1>1 DEF FollowingOK
    <3>2. PICK E : E = Seq(Request) /\ <<>> \in E
      BY <3>1
    <3>3. following' \in Following
      BY ONLY <1>3, <3>1, <3>2 DEF Following
    <3>4. /\ following'.index = following.index /\ following'.requests = <<>>
          /\ following'.basis_list = following.basis_list
      BY <1>3, <3>1 DEF Following
    <3> QED
      BY <2>1, <3>1, <3>3, <3>4 DEF FollowingOK
  <2> QED
    BY <1>1, <2>4, <2>5, Frame DEF IInv
<1> QED
  BY <1>2, <1>3 DEF RequestBasisList

LEMMA BasisListReceivedKeeps == ASSUME IInv, NEW r \in Runs, BasisListReceived(r) PROVE IInv'
<1>1. /\ UNCHANGED <<role, cancel_event, question_order, fetch, reset, session, leading, following,
                     position, result_event, wait>>
      /\ RunsOK
  BY DEF BasisListReceived, ExchangeUnchanged, IInv
<1>2. PICK pc \in {"done", "submitting", "failed"} :
         run' = [run EXCEPT ![r].reply = "none", ![r].pc = pc]
  BY DEF BasisListReceived
<1> QED
  BY <1>1, <1>2, Pcs, RunStays, Frame DEF IInv, Ended, Replies

LEMMA SubmitResultKeeps == ASSUME IInv, NEW r \in Runs, SubmitResult(r) PROVE IInv'
<1>1. /\ UNCHANGED <<role, cancel_event, question_order, fetch, reset, session, leading, position>>
      /\ RunsOK /\ FollowingOK /\ WaitsOK /\ run[r].reply \in Replies
  BY DEF SubmitResult, ExchangeUnchanged, IInv, RunsOK, Run, Replies
<1>2. RunsOK'
  BY <1>1, Pcs, RunStays DEF SubmitResult, Ended
<1>3. FollowingOK'
  BY <1>1, IndexesAreCounted DEF SubmitResult, FollowingOK, Following
<1>4. WaitsOK'
  BY <1>1, WaitersGo DEF SubmitResult, WaitsOK
<1> QED
  BY <1>1, <1>2, <1>3, <1>4, Frame DEF IInv

-----------------------------------------------------------------------------
(* The follower's submissions. *)

LEMMA WaitingKeeps ==
    ASSUME IInv, NEW w \in Waits,
           SubmitBasisListFollower(w) \/ FollowerWaits(w) \/ FollowerResumes(w)
    PROVE  IInv'
<1>1. /\ UNCHANGED <<role, cancel_event, leading, question_order, position, run, fetch, reset,
                     session>>
      /\ WaitsOK /\ FollowingOK /\ session \in Nat
  BY DEF SubmitBasisListFollower, FollowerWaits, FollowerResumes, WaitUnchanged, IInv, OthersOK
<1>2. FollowingOK'
  <2>1. ASSUME UNCHANGED following PROVE FollowingOK'
    BY <1>1, <2>1 DEF FollowingOK
  <2>2. ASSUME NEW list \in BasisLists, following' = [following EXCEPT !.basis_list = list]
        PROVE  FollowingOK'
    <3>1. following \in Following /\ Len(following.requests) <= following.index
      BY <1>1 DEF FollowingOK
    <3>2. PICK L, E : /\ L = BasisLists /\ E = Seq(Request)
                      /\ Following = [basis_list: L, index: Nat, requests: E,
                                       n_matching_bits: Nat \cup {-1}]
      BY DEF Following
    <3>3. /\ following' \in [basis_list: L, index: Nat, requests: E,
                             n_matching_bits: Nat \cup {-1}]
          /\ following'.index = following.index /\ following'.requests = following.requests
          /\ following'.basis_list = list /\ following.index \in Nat
      <4>1. /\ following \in [basis_list: L, index: Nat, requests: E,
                              n_matching_bits: Nat \cup {-1}]
            /\ list \in L
        BY <3>1, <3>2
      <4> QED
        BY ONLY <2>2, <4>1
    <3> QED
      BY <3>1, <3>2, <3>3 DEF FollowingOK
  <2> QED
    BY <2>1, <2>2, QKDAssumption
       DEF SubmitBasisListFollower, FollowerWaits, FollowerResumes
<1>3. WaitsOK'
  <2>1. CASE SubmitBasisListFollower(w)
    <3>1. following.n_matching_bits \in Nat \cup {-1}
      BY <1>1 DEF FollowingOK, Following
    <3> QED
      <4>1. CASE /\ wait' = [wait EXCEPT ![w].pc = "spawned", ![w].session = session]
                 /\ UNCHANGED result_event
        BY <1>1, <4>1 DEF WaitsOK, Wait
      <4>2. CASE /\ wait' = [wait EXCEPT ![w] = [pc |-> "returned", session |-> session,
                                                bits |-> following.n_matching_bits]]
                 /\ result_event' = FALSE
        BY <1>1, <3>1, <4>2 DEF WaitsOK, Wait
      <4> QED
        BY <2>1, <4>1, <4>2 DEF SubmitBasisListFollower
  <2>2. CASE FollowerWaits(w)
    BY <1>1, <2>2 DEF FollowerWaits, WaitsOK, Wait, Nodes
  <2>3. CASE FollowerResumes(w)
    <3>1. following.n_matching_bits \in Nat \cup {-1}
      BY <1>1 DEF FollowingOK, Following
    <3> QED
      BY <1>1, <2>3, <3>1 DEF FollowerResumes, WaitsOK, Wait
  <2> QED
    BY <2>1, <2>2, <2>3
<1> QED
  BY <1>1, <1>2, <1>3, Frame DEF IInv

-----------------------------------------------------------------------------
(* The question order. *)

LEMMA OrderingKeeps ==
    ASSUME IInv, NEW f \in Fetches,
           (\E n \in Nodes : RequestQuestionOrder(f, n)) \/ FetchStep(f)
    PROVE  IInv'
<1>1. /\ UNCHANGED <<role, cancel_event, result_event, leading, following, position, run, wait,
                     reset, session>>
      /\ OrdersOK
  BY DEF RequestQuestionOrder, FetchStep, LeaderAnswersOrder, OrderFetched, FetchUnchanged, IInv
<1>2. OrdersOK'
  <2>1. ASSUME NEW n \in Nodes, RequestQuestionOrder(f, n) PROVE OrdersOK'
    BY <1>1, <2>1 DEF RequestQuestionOrder, OrdersOK, Fetch
  <2>2. CASE LeaderAnswersOrder(f)
    BY <1>1, <2>2 DEF LeaderAnswersOrder, OrdersOK, Fetch, Nodes
  <2>3. CASE OrderFetched(f)
    BY <1>1, <2>3 DEF OrderFetched, OrdersOK, Fetch, Nodes
  <2> QED
    BY <2>1, <2>2, <2>3 DEF FetchStep
<1> QED
  BY <1>1, <1>2, Frame DEF IInv

-----------------------------------------------------------------------------
(* Pairing and resets. *)

LEMMA PairKeeps == ASSUME IInv, Pair PROVE IInv'
<1>1. RolesOK'
  BY DEF Pair, IInv, RolesOK, Nodes, Role
<1>2. OthersOK'
  BY DEF Pair, IInv, OthersOK
<1> QED
  BY <1>1, <1>2, Frame DEF Pair, IInv

\* The follower's handler is woken before the event is cleared.
LEMMA LocalResetKeeps ==
    ASSUME IInv, NEW n \in Nodes, LocalReset(n), ResetUnchanged, reset' \in [Resets -> Reset]
    PROVE  IInv'
<1>1. /\ UNCHANGED <<result_event, position, run, fetch, session>>
      /\ RolesOK /\ FollowingOK /\ WaitsOK /\ OrdersOK /\ OthersOK
  BY DEF ResetUnchanged, IInv
<1>2. RolesOK'
  BY <1>1 DEF LocalReset, RolesOK
<1>3. OrdersOK'
  BY <1>1 DEF LocalReset, OrdersOK
<1>4. WaitsOK'
  <2>1. cancel_event' \in [Nodes -> BOOLEAN] /\ result_event' \in BOOLEAN
    BY <1>1 DEF LocalReset, WaitsOK
  <2>2. CASE n = "leader"
    BY <1>1, <2>1, <2>2 DEF LocalReset, WaitsOK, Nodes
  <2>3. CASE n = "follower"
    BY <1>1, <2>1, <2>3, WaitersGo DEF LocalReset, WaitsOK, Nodes
  <2> QED
    BY <2>2, <2>3 DEF Nodes
<1>5. FollowingOK'
  <2>1. CASE UNCHANGED following
    BY <1>1, <2>1 DEF FollowingOK
  <2>2. CASE following' = [basis_list |-> <<>>, index |-> 0, requests |-> <<>>,
                           n_matching_bits |-> -1]
    <3>1. 0 \in Nat /\ -1 \in Nat \cup {-1} /\ <<>> \in BasisLists /\ <<>> \in Seq(Request) /\ Len(<<>>) = 0
      BY EmptyList
    <3>2. following' \in Following
      BY <2>2, <3>1 DEF Following
    <3> QED
      BY <2>2, <3>1, <3>2 DEF FollowingOK
  <2> QED
    BY <2>1, <2>2 DEF LocalReset
<1>6. OthersOK'
  <2>1. <<>> \in Seq(Choices)
    OBVIOUS
  <2>2. leading' \in Leading
    <3>1. ASSUME UNCHANGED leading PROVE leading' \in Leading
      BY <1>1, <3>1 DEF OthersOK
    <3>2. ASSUME leading' = [basis_list |-> <<>>, bit_list |-> <<>>] PROVE leading' \in Leading
      BY <2>1, <3>2, EmptyList DEF Leading
    <3> QED
      BY <3>1, <3>2 DEF LocalReset
  <2> QED
    BY <1>1, <2>2 DEF OthersOK
<1> QED
  BY <1>1, <1>2, <1>3, <1>4, <1>5, <1>6, Frame DEF IInv

LEMMA ResettingKeeps ==
    ASSUME IInv, NEW x \in Resets,
           (\E n \in Nodes : ResetStart(x, n)) \/ ResetStep(x)
    PROVE  IInv'
<1>1. /\ UNCHANGED <<result_event, position, run, fetch, session>> /\ ResetUnchanged
      /\ WaitsOK /\ OthersOK
  BY DEF ResetStart, ResetStep, ProtocolCancelled, ProtocolCancelledClears, ResetFinish,
         ResetUnchanged, IInv
<1>2. reset' \in [Resets -> Reset]
  BY <1>1 DEF ResetStart, ResetStep, ProtocolCancelled, ProtocolCancelledClears, ResetFinish,
              OthersOK, Reset
<1>3. OthersOK' \/ ~UNCHANGED leading
  BY <1>1, <1>2 DEF OthersOK
<1>4. ASSUME NEW n \in Nodes, ResetStart(x, n) PROVE IInv'
  <2>1. CASE LocalReset(n)
    BY <1>1, <1>2, <2>1, <1>4, LocalResetKeeps
  <2>2. CASE UNCHANGED <<role, cancel_event, leading, following, question_order, wait>>
    BY <1>1, <1>3, <2>2, Frame DEF IInv
  <2> QED
    BY <1>4, <2>1, <2>2 DEF ResetStart
<1>5. CASE ProtocolCancelled(x)
  <2>1. WaitsOK'
    BY <1>1, <1>5, WaitersGo DEF ProtocolCancelled, WaitsOK, Peer, Nodes
  <2> QED
    BY <1>1, <1>3, <1>5, <2>1, Frame DEF IInv, ProtocolCancelled
<1>6. CASE ProtocolCancelledClears(x)
  <2>1. WaitsOK'
    BY <1>1, <1>6 DEF ProtocolCancelledClears, WaitsOK, Peer, Nodes
  <2> QED
    BY <1>1, <1>3, <1>6, <2>1, Frame DEF IInv, ProtocolCancelledClears
<1>7. CASE ResetFinish(x)
  <2>1. reset[x].node \in Nodes
    BY <1>1 DEF OthersOK, Reset
  <2> QED
    BY <1>1, <1>2, <1>7, <2>1, LocalResetKeeps DEF ResetFinish
<1> QED
  BY <1>4, <1>5, <1>6, <1>7 DEF ResetStep

LEMMA StreamKeeps == ASSUME IInv, NEW n \in Nodes, StreamClears(n) PROVE IInv'
<1>1. WaitsOK'
  BY DEF StreamClears, ResetUnchanged, IInv, WaitsOK, Nodes
<1> QED
  BY <1>1, Frame DEF StreamClears, ResetUnchanged, IInv

-----------------------------------------------------------------------------
LEMMA InitIInv == Init => IInv
<1> SUFFICES ASSUME Init PROVE IInv
  OBVIOUS
<1>1. RolesOK
  BY DEF Init, RolesOK
<1>2. RunsOK
  <2>1. /\ <<>> \in Seq(Count) /\ <<>> \in Seq(Request) /\ <<>> \in Seq([choice: Choices, count: Count])
        /\ Len(<<>>) = 0 /\ "idle" \in RunPcs /\ "none" \in Replies
    BY DEF RunPcs, Replies
  <2>2. run \in [Runs -> Run]
    <3>1. PICK L, C, O, D :
             /\ Run = [pc: RunPcs, reply: Replies, excused: BOOLEAN, todo: L, counts: C, bases: L,
                       outcome: O, compared: D, session: Nat]
             /\ <<>> \in L /\ <<>> \in C /\ <<>> \in D /\ <<>> \in O
      BY <2>1, EmptyList, RunShape
    <3> QED
      BY <2>1, <3>1 DEF Init
  <2>3. ASSUME NEW r \in Runs PROVE Fits(run[r])
    BY <2>1, QKDAssumption DEF Init, Fits
  <2> QED
    BY <2>2, <2>3 DEF RunsOK
<1>3. FollowingOK
  <2>1. 0 \in Nat /\ -1 \in Nat \cup {-1} /\ <<>> \in BasisLists /\ <<>> \in Seq(Request) /\ Len(<<>>) = 0
    BY EmptyList
  <2>2. following \in Following
    BY <2>1 DEF Following, Init
  <2> QED
    BY <2>1, <2>2 DEF Init, FollowingOK
<1>4. WaitsOK
  <2>1. -1 \in Nat \cup {-1} /\ 0 \in Nat
    BY QKDAssumption
  <2>2. wait \in [Waits -> Wait]
    BY <2>1 DEF Init, Wait
  <2>3. cancel_event \in [Nodes -> BOOLEAN] /\ result_event \in BOOLEAN
    BY DEF Init
  <2> QED
    BY <2>2, <2>3 DEF Init, WaitsOK
<1>5. OrdersOK
  BY DEF Init, OrdersOK, Fetch
<1>6. OthersOK
  <2>1. leading \in Leading
    <3>1. <<>> \in Seq(Choices) /\ DefaultList \in BasisLists
      BY QKDAssumption
    <3> QED
      BY <3>1 DEF Leading, Init
  <2> QED
    BY <2>1 DEF Init, OthersOK, Positions, NoChoice, Reset, Nodes
<1> QED
  BY <1>1, <1>2, <1>3, <1>4, <1>5, <1>6 DEF IInv

LEMMA NextIInv == IInv /\ [Next]_vars => IInv'
<1> SUFFICES ASSUME IInv, [Next]_vars PROVE IInv'
  OBVIOUS
<1>1. CASE Pair
  BY <1>1, PairKeeps
<1>2. ASSUME NEW r \in Runs, SubmitBasisListLeader(r) \/ QKD(r) \/ RunStep(r) PROVE IInv'
  BY <1>2, PollingKeeps, SingleBitKeeps, ChooseBitKeeps, MeasureKeeps, CountReceivedKeeps,
     RequestBasisListKeeps, BasisListReceivedKeeps, SubmitResultKeeps
     DEF RunStep
<1>3. ASSUME NEW w \in Waits, SubmitBasisListFollower(w) \/ WaitStep(w) PROVE IInv'
  BY <1>3, WaitingKeeps DEF WaitStep
<1>4. ASSUME NEW f \in Fetches, (\E n \in Nodes : RequestQuestionOrder(f, n)) \/ FetchStep(f)
      PROVE  IInv'
  BY <1>4, OrderingKeeps
<1>5. ASSUME NEW x \in Resets, (\E n \in Nodes : ResetStart(x, n)) \/ ResetStep(x) PROVE IInv'
  BY <1>5, ResettingKeeps
<1>6. ASSUME NEW n \in Nodes, StreamClears(n) PROVE IInv'
  BY <1>6, StreamKeeps
<1>7. CASE UNCHANGED vars
  BY <1>7, Frame DEF vars, IInv
<1> QED
  BY <1>1, <1>2, <1>3, <1>4, <1>5, <1>6, <1>7 DEF Next

\* Whatever submissions, runs, calls and resets overlap.
THEOREM InductiveInvariant == Spec => []IInv
  BY InitIInv, NextIInv, PTL DEF Spec

\* Every variable keeps its type.
THEOREM TypesHold == Spec => []TypeOK
<1>1. IInv => TypeOK
  BY DEF IInv, RolesOK, RunsOK, Fits, FollowingOK, WaitsOK, OrdersOK, OthersOK, TypeOK
<1> QED
  BY <1>1, InductiveInvariant, PTL

-----------------------------------------------------------------------------
(* What the follower has served and returns, whatever overlaps. *)

\* The follower has a list, and serves bits, only after its user has submitted in the
\* current session.
Served ==
    /\ role["follower"] # "INDEPENDENT" => session > 0
    /\ role["follower"] = "INDEPENDENT" => following.basis_list = <<>> /\ following.index = 0
    /\ following.basis_list # <<>> \/ following.index > 0 =>
         session > 0 /\ \E w \in Waits : wait[w].session = session
    /\ \A w \in Waits : wait[w].pc = "idle" => wait[w].session = 0
    /\ SubmittedOnce => following.index <= Len(following.basis_list)

Begun == \E x \in Resets : reset[x].pc # "idle"
Computes(r, bits) ==
    r \notin DirectRuns /\ run[r].pc = "done" /\ bits = Cardinality(IndexList(r))

\* What is stored has been computed by a run that is done, and events are raised, and
\* wake somebody, when something is stored or a reset has begun.
Computed ==
    /\ \A r \in Runs : run[r].pc = "submitting" => r \notin DirectRuns
    /\ following.n_matching_bits # -1 => \E r \in Runs : Computes(r, following.n_matching_bits)
    /\ following.n_matching_bits = -1 /\ ~Begun =>
         /\ ~result_event /\ \A n \in Nodes : ~cancel_event[n]
         /\ \A w \in Waits : wait[w].pc # "woken"
    /\ ResultsAreComputed

SInv == Served /\ Computed

\* No step ends a wait's session or a finished run, or takes a reset back.
LEMMA ServedStays ==
    ASSUME Served, UNCHANGED <<session, following.basis_list, following.index, role["follower"]>>,
           \A w \in Waits : /\ wait'[w].session = wait[w].session
                            /\ wait'[w].pc = "idle" => wait[w].pc = "idle"
    PROVE  Served'
<1>1. SubmittedOnce' <=> SubmittedOnce
  BY DEF SubmittedOnce
<1> QED
  BY <1>1 DEF Served

\* The runs that are done stay done, and resets that have begun stay begun.
Lasting ==
    /\ \A r \in Runs : run[r].pc = "done" => run'[r] = run[r]
    /\ \A r \in Runs : run'[r].pc = "submitting" => r \notin DirectRuns
    /\ Begun => Begun'

LEMMA ComputesLasts ==
    ASSUME Lasting, NEW r \in Runs, NEW bits, Computes(r, bits)
    PROVE  run'[r].pc = "done" /\ bits = Cardinality(IndexList(r)') /\ r \notin DirectRuns
<1>1. run'[r] = run[r]
  BY DEF Computes, Lasting
<1>2. IndexList(r)' = IndexList(r)
  BY <1>1 DEF IndexList
<1> QED
  BY <1>1, <1>2 DEF Computes

LEMMA ComputedStays ==
    ASSUME Computed, Lasting,
           \/ following'.n_matching_bits = following.n_matching_bits
           \/ following'.n_matching_bits = -1 /\ Begun'
           \/ \E r \in Runs : Computes(r, following.n_matching_bits)',
           following'.n_matching_bits = -1 /\ ~Begun' =>
             /\ result_event' => result_event
             /\ \A n \in Nodes : cancel_event'[n] => cancel_event[n]
             /\ \A w \in Waits : wait'[w].pc = "woken" =>
                  wait[w].pc = "woken" \/ result_event \/ \E n \in Nodes : cancel_event[n],
           following'.n_matching_bits = -1 /\ ~Begun' => following.n_matching_bits = -1,
           \A w \in Waits : wait'[w].pc = "returned" =>
             \/ wait[w].pc = "returned" /\ wait'[w].bits = wait[w].bits
             \/ wait[w].pc = "woken" /\ wait'[w].bits = following.n_matching_bits
             \/ following.n_matching_bits # -1 /\ wait'[w].bits = following.n_matching_bits
    PROVE  Computed'
<1>1. following'.n_matching_bits # -1 =>
          \E r \in Runs : Computes(r, following.n_matching_bits)'
  <2>1. SUFFICES ASSUME following'.n_matching_bits # -1,
                        following'.n_matching_bits = following.n_matching_bits
                 PROVE  \E r \in Runs : Computes(r, following.n_matching_bits)'
    OBVIOUS
  <2>2. PICK r \in Runs : Computes(r, following.n_matching_bits)
    BY <2>1 DEF Computed
  <2> QED
    BY <2>1, <2>2, ComputesLasts DEF Computes
<1>2. following'.n_matching_bits = -1 /\ ~Begun' =>
          /\ ~result_event' /\ \A n \in Nodes : ~cancel_event'[n]
          /\ \A w \in Waits : wait'[w].pc # "woken"
  BY DEF Computed, Lasting
<1>3. ASSUME NEW bits, \/ bits = -1 /\ Begun
                       \/ \E r \in Runs : Computes(r, bits)
      PROVE  \/ bits = -1 /\ Begun'
             \/ \E r \in Runs \ DirectRuns : run'[r].pc = "done" /\ bits = Cardinality(IndexList(r)')
  <2>1. CASE bits = -1 /\ Begun
    BY <2>1 DEF Lasting
  <2>2. CASE \E r \in Runs : Computes(r, bits)
    BY <2>2, ComputesLasts
  <2> QED
    BY <1>3, <2>1, <2>2
<1>4. ASSUME NEW w \in Waits, wait[w].pc = "returned"
      PROVE  \/ wait[w].bits = -1 /\ Begun
             \/ \E r \in Runs : Computes(r, wait[w].bits)
  BY <1>4 DEF Computed, ResultsAreComputed, Begun, Computes
<1>5. ASSUME NEW w \in Waits, wait[w].pc = "woken" \/ following.n_matching_bits # -1
      PROVE  \/ following.n_matching_bits = -1 /\ Begun
             \/ \E r \in Runs : Computes(r, following.n_matching_bits)
  BY <1>5 DEF Computed
<1>6. ASSUME NEW w \in Waits, wait'[w].pc = "returned"
      PROVE  \/ wait'[w].bits = -1 /\ Begun'
             \/ \E r \in Runs \ DirectRuns :
                   run'[r].pc = "done" /\ wait'[w].bits = Cardinality(IndexList(r)')
  <2>1. CASE wait[w].pc = "returned" /\ wait'[w].bits = wait[w].bits
    BY <1>3, <1>4, <2>1
  <2>2. CASE wait[w].pc = "woken" /\ wait'[w].bits = following.n_matching_bits
    BY <1>3, <1>5, <2>2
  <2>3. CASE following.n_matching_bits # -1 /\ wait'[w].bits = following.n_matching_bits
    BY <1>3, <1>5, <2>3
  <2> QED
    BY <1>6, <2>1, <2>2, <2>3
<1>7. ResultsAreComputed'
  BY <1>6 DEF ResultsAreComputed, Begun
<1> QED
  BY <1>1, <1>2, <1>7 DEF Computed, Lasting

\* A step that leaves the waits and events alone, and no run done, stores nothing.
LEMMA NothingReturned ==
    ASSUME Computed, Lasting, UNCHANGED <<wait, reset, result_event, cancel_event>>,
           following'.n_matching_bits = following.n_matching_bits
    PROVE  Computed'
<1>1. Begun' <=> Begun
  BY DEF Begun
<1> QED
  BY <1>1, ComputedStays

\* A run takes a step, and no run that is done.
LEMMA RunLasts ==
    ASSUME IInv, Computed, NEW r \in Runs, SubmitBasisListLeader(r) \/ QKD(r) \/ RunStep(r)
    PROVE  Lasting /\ UNCHANGED <<role, cancel_event, session, reset>>
<1>1. UNCHANGED <<role, cancel_event, session, reset>>
  BY DEF SubmitBasisListLeader, QKD, PollUnchanged, RunStep, IsFollowerReady, PollAnswered,
         PauseOver, SingleBit, ChooseBit, MeasureCorrelation, CountReceived, RequestBasisList,
         BasisListReceived, SubmitResult, ExchangeUnchanged
<1>2. run \in [Runs -> Run] /\ run[r] \in Run
  BY DEF IInv, RunsOK
<1>3. /\ run[r].pc # "done"
      /\ \A s \in Runs : s # r => run'[s] = run[s]
  <2>1. \E q : run' = [run EXCEPT ![r] = q]
    BY <1>2 DEF SubmitBasisListLeader, QKD, RunStep, IsFollowerReady, PollAnswered,
         PauseOver, SingleBit, ChooseBit, MeasureCorrelation, CountReceived, RequestBasisList,
         BasisListReceived, SubmitResult
  <2>2. run[r].pc # "done"
    BY DEF SubmitBasisListLeader, QKD, RunStep, IsFollowerReady, PollAnswered,
         PauseOver, SingleBit, ChooseBit, MeasureCorrelation, CountReceived, RequestBasisList,
         BasisListReceived, SubmitResult
  <2> QED
    BY <1>2, <2>1, <2>2
<1>4. run'[r].pc = "submitting" => r \notin DirectRuns
  <2>1. DOMAIN run[r] = {"pc", "reply", "excused", "todo", "counts", "bases", "outcome", "compared",
                         "session"}
    BY <1>2, RunShape
  <2>2. CASE SubmitBasisListLeader(r)
    BY <1>2, <2>2 DEF SubmitBasisListLeader
  <2>3. CASE QKD(r)
    <3>1. run' = [run EXCEPT ![r] = [Begin(run[r]) EXCEPT !.session = session]]
      BY <1>2, <2>3 DEF QKD
    <3>2. Begin(run[r]).pc # "submitting" /\ DOMAIN Begin(run[r]) = DOMAIN run[r]
      BY <2>1 DEF Begin
    <3> QED
      BY <1>2, <2>1, <3>1, <3>2
  <2>4. CASE PollAnswered(r)
    <3>1. Begin(run[r]).pc # "submitting"
      BY <2>1 DEF Begin
    <3>2. Poll # "submitting"
      BY Pcs
    <3> QED
      BY <1>2, <2>1, <2>4, <3>1, <3>2 DEF PollAnswered
  <2>5. CASE IsFollowerReady(r) \/ PauseOver(r)
    <3>1. Poll # "submitting"
      BY Pcs
    <3> QED
      BY <1>2, <2>1, <2>5, <3>1 DEF IsFollowerReady, PauseOver
  <2>6. CASE SingleBit(r) \/ ChooseBit(r) \/ SubmitResult(r)
    BY <1>2, <2>1, <2>6 DEF SingleBit, ChooseBit, SubmitResult
  <2>7. CASE MeasureCorrelation(r) \/ CountReceived(r) \/ RequestBasisList(r)
    BY <1>2, <2>1, <2>7 DEF MeasureCorrelation, CountReceived, RequestBasisList
  <2>8. CASE BasisListReceived(r)
    BY <1>2, <2>1, <2>8 DEF BasisListReceived
  <2> QED
    BY <2>2, <2>3, <2>4, <2>5, <2>6, <2>7, <2>8 DEF RunStep
<1> QED
  BY <1>1, <1>3, <1>4 DEF Lasting, Computed, Begun

LEMMA RunKeepsSInv ==
    ASSUME IInv, SInv, NEW r \in Runs, SubmitBasisListLeader(r) \/ QKD(r) \/ RunStep(r)
    PROVE  SInv'
<1>1. Lasting /\ UNCHANGED <<role, cancel_event, session, reset>>
  BY RunLasts DEF SInv
<1>2. following \in Following /\ wait \in [Waits -> Wait] /\ session \in Nat
  BY DEF IInv, FollowingOK, WaitsOK, OthersOK
<1>3. CASE SubmitResult(r)
  <2>1. /\ wait' = WaitersWoken /\ run[r].pc = "submitting"
        /\ following' = [following EXCEPT !.n_matching_bits = Cardinality(IndexList(r))]
        /\ run' = [run EXCEPT ![r].pc = "done"]
    BY <1>3 DEF SubmitResult
  <2>2. /\ following'.basis_list = following.basis_list /\ following'.index = following.index
        /\ following'.n_matching_bits = Cardinality(IndexList(r))
    BY <1>2, <2>1 DEF Following
  <2>3. IndexList(r)' = IndexList(r) /\ run'[r].pc = "done"
    <3>1. /\ run'[r].pc = "done" /\ run'[r].compared = run[r].compared
          /\ run'[r].bases = run[r].bases
      BY <2>1 DEF IInv, RunsOK, Run
    <3> QED
      BY <3>1 DEF IndexList
  <2>4. Computes(r, following.n_matching_bits)'
    BY <2>1, <2>2, <2>3 DEF SInv, Computed, Computes
  <2>5. Cardinality(IndexList(r)) \in Nat
    BY IndexesAreCounted DEF IInv
  <2>6. following'.n_matching_bits # -1
    BY <2>2, <2>5
  <2>7. Served'
    BY <1>1, <1>2, <2>1, <2>2, WaitersGo, ServedStays DEF SInv
  <2>8. \A w \in Waits : wait'[w].pc = "returned" =>
            wait[w].pc = "returned" /\ wait'[w].bits = wait[w].bits
    BY <1>2, <2>1, WaitersGo
  <2>9. Computed'
    BY <1>1, <2>4, <2>6, <2>8, ComputedStays DEF SInv
  <2> QED
    BY <2>7, <2>9 DEF SInv
<1>4. CASE ~SubmitResult(r)
  <2>1. /\ UNCHANGED <<wait, result_event>>
        /\ \/ following' = following
           \/ following' = [following EXCEPT !.requests = <<>>]
           \/ SingleBit(r) /\ following' # following
    BY <1>4 DEF SubmitBasisListLeader, QKD, PollUnchanged, RunStep, IsFollowerReady,
         PollAnswered, PauseOver, SingleBit, ChooseBit, MeasureCorrelation, CountReceived,
         RequestBasisList, BasisListReceived
  <2>2. CASE following' = following \/ following' = [following EXCEPT !.requests = <<>>]
    <3>1. /\ following'.basis_list = following.basis_list /\ following'.index = following.index
          /\ following'.n_matching_bits = following.n_matching_bits
      BY <1>2, <2>2 DEF Following
    <3> QED
      BY <1>1, <2>1, <3>1, ServedStays, NothingReturned DEF SInv
  <2>3. CASE SingleBit(r) /\ following' # following
    <3>1. PICK q : /\ following.index + 1 <= Len(following.basis_list)
                   /\ following' = [following EXCEPT !.index = following.index + 1, !.requests = q]
      BY <1>2, <2>3 DEF SingleBit, Following
    <3>2. /\ following'.basis_list = following.basis_list
          /\ following'.index = following.index + 1 /\ following.index \in Nat
          /\ following'.n_matching_bits = following.n_matching_bits
      BY <1>2, <3>1 DEF Following
    <3>3. following.basis_list # <<>>
      <4>1. following.basis_list \in BasisLists
        BY <1>2 DEF Following
      <4> QED
        BY <3>1, <3>2, <4>1, Lists
    <3>4. SubmittedOnce' <=> SubmittedOnce
      BY <2>1 DEF SubmittedOnce
    <3>5. Served'
      BY <1>1, <1>2, <2>1, <3>1, <3>2, <3>3, <3>4 DEF SInv, Served
    <3> QED
      BY <1>1, <2>1, <3>2, <3>5, NothingReturned DEF SInv
  <2> QED
    BY <2>1, <2>2, <2>3
<1> QED
  BY <1>3, <1>4

\* A second submission in a session is what may put a shorter list in place.
LEMMA WaitKeepsSInv ==
    ASSUME IInv, IInv', SInv, NEW w \in Waits, SubmitBasisListFollower(w) \/ WaitStep(w)
    PROVE  SInv'
<1>1. UNCHANGED <<role, cancel_event, run, reset, session>>
  BY DEF SubmitBasisListFollower, WaitStep, FollowerWaits, FollowerResumes, WaitUnchanged
<1>2. Lasting /\ Begun' = Begun
  BY <1>1 DEF SInv, Computed, Lasting, Begun
<1>3. /\ following \in Following /\ wait \in [Waits -> Wait] /\ session \in Nat
      /\ following' \in Following
  BY DEF IInv, FollowingOK, WaitsOK, OthersOK
<1>4. /\ following'.index = following.index
      /\ following'.n_matching_bits = following.n_matching_bits
  BY <1>3 DEF SubmitBasisListFollower, WaitStep, FollowerWaits, FollowerResumes, Following
<1>5. CASE SubmitBasisListFollower(w)
  <2>1. /\ wait[w].pc = "idle" /\ role["follower"] = "FOLLOWER"
        /\ session > 0 /\ wait[w].session = 0
    BY <1>5 DEF SubmitBasisListFollower, SInv, Served
  <2>2. /\ \A v \in Waits : v # w => wait'[v] = wait[v]
        /\ wait'[w].session = session /\ wait'[w].pc \in {"spawned", "returned"}
        /\ wait'[w].pc = "returned" => /\ following.n_matching_bits # -1
                                       /\ wait'[w].bits = following.n_matching_bits
        /\ result_event' => result_event
    BY <1>3, <1>5 DEF SubmitBasisListFollower, Wait
  <2>3. following'.index \in Nat /\ Len(following'.basis_list) \in Nat
    BY <1>3, Lists DEF Following
  <2>4. SubmittedOnce' => following'.index = 0
    <3>1. SUFFICES ASSUME following'.index > 0 PROVE ~SubmittedOnce'
      BY <2>3
    <3>2. PICK v \in Waits : wait[v].session = session
      BY <1>4, <3>1 DEF SInv, Served
    <3>3. v # w /\ wait'[v].session = wait'[w].session /\ wait'[v].session # 0
      BY <2>1, <2>2, <3>2
    <3> QED
      BY <3>3 DEF SubmittedOnce
  <2>5. Served'
    BY <1>1, <2>1, <2>2, <2>3, <2>4 DEF SInv, Served
  <2>6. Computed'
    BY <1>1, <1>2, <1>4, <2>2, ComputedStays DEF SInv
  <2> QED
    BY <2>5, <2>6 DEF SInv
<1>6. CASE WaitStep(w)
  <2>1. /\ \A v \in Waits : v # w => wait'[v] = wait[v]
        /\ wait'[w].session = wait[w].session /\ wait'[w].pc # "idle"
        /\ wait'[w].pc = "woken" => result_event \/ cancel_event["follower"]
        /\ wait'[w].pc = "returned" => /\ wait[w].pc = "woken"
                                       /\ wait'[w].bits = following.n_matching_bits
        /\ result_event' => result_event
    BY <1>3, <1>6 DEF WaitStep, FollowerWaits, FollowerResumes, Wait
  <2>2. following' = following
    BY <1>6 DEF WaitStep, FollowerWaits, FollowerResumes
  <2>3. Served'
    BY <1>1, <2>1, <2>2, ServedStays DEF SInv
  <2>4. Computed'
    BY <1>1, <1>2, <1>4, <2>1, ComputedStays DEF SInv, Nodes
  <2> QED
    BY <2>3, <2>4 DEF SInv
<1> QED
  BY <1>5, <1>6

\* The other steps touch no run, and no submission but to wake it.
LEMMA OthersKeepSInv ==
    ASSUME IInv, IInv', SInv,
           \/ Pair
           \/ \E f \in Fetches, n \in Nodes : RequestQuestionOrder(f, n)
           \/ \E f \in Fetches : FetchStep(f)
           \/ \E n \in Nodes : StreamClears(n)
           \/ UNCHANGED vars
    PROVE  SInv'
<1>1. /\ UNCHANGED <<result_event, following, run, wait, reset>>
      /\ \A n \in Nodes : cancel_event'[n] => cancel_event[n]
  BY DEF Pair, RequestQuestionOrder, FetchStep, LeaderAnswersOrder, OrderFetched, FetchUnchanged,
         StreamClears, ResetUnchanged, vars, IInv, WaitsOK
<1>2. Computed'
  <2>1. Lasting /\ Begun' = Begun
    BY <1>1 DEF SInv, Computed, Lasting, Begun
  <2> QED
    BY <1>1, <2>1, ComputedStays DEF SInv
<1>3. Served'
  <2>1. CASE Pair
    <3>1. /\ role["follower"] = "INDEPENDENT" /\ role'["follower"] = "FOLLOWER"
          /\ session' = session + 1 /\ session \in Nat
      BY <2>1 DEF Pair, Nodes, Role, IInv, OthersOK
    <3>2. following.basis_list = <<>> /\ following.index = 0
      BY <3>1 DEF SInv, Served
    <3> QED
      BY <1>1, <3>1, <3>2 DEF SInv, Served
  <2>2. CASE ~Pair
    <3>1. UNCHANGED <<role, session>>
      BY <2>2 DEF RequestQuestionOrder, FetchStep, LeaderAnswersOrder, OrderFetched,
                  FetchUnchanged, StreamClears, ResetUnchanged, vars
    <3> QED
      BY <1>1, <3>1, ServedStays DEF SInv
  <2> QED
    BY <2>1, <2>2
<1> QED
  BY <1>2, <1>3 DEF SInv

\* A reset may wake the follower's handler with nothing to return.
LEMMA ResetKeepsSInv ==
    ASSUME IInv, IInv', SInv, NEW x \in Resets,
           (\E n \in Nodes : ResetStart(x, n)) \/ ResetStep(x)
    PROVE  SInv'
<1>1. ResetUnchanged
  BY DEF ResetStart, ResetStep, ProtocolCancelled, ProtocolCancelledClears, ResetFinish
<1>2. /\ \A y \in Resets : y # x => reset'[y] = reset[y]
      /\ reset'[x].pc # "idle"
  BY DEF ResetStart, ResetStep, ProtocolCancelled, ProtocolCancelledClears, ResetFinish, IInv,
         OthersOK, Reset
<1>3. Lasting /\ Begun'
  <2>1. UNCHANGED run
    BY <1>1 DEF ResetUnchanged
  <2> QED
    BY <1>2, <2>1 DEF SInv, Computed, Lasting, Begun
<1>4. /\ wait' = wait \/ wait' = WaitersWoken
      /\ \/ UNCHANGED <<following, role>>
         \/ /\ UNCHANGED following /\ role'["follower"] = role["follower"]
         \/ /\ following' = [basis_list |-> <<>>, index |-> 0, requests |-> <<>>,
                             n_matching_bits |-> -1]
            /\ role'["follower"] = "INDEPENDENT"
  <2>1. ASSUME NEW n \in Nodes, LocalReset(n)
        PROVE  /\ wait' = wait \/ wait' = WaitersWoken
               /\ \/ UNCHANGED following /\ role'["follower"] = role["follower"]
                  \/ /\ following' = [basis_list |-> <<>>, index |-> 0, requests |-> <<>>,
                                      n_matching_bits |-> -1]
                     /\ role'["follower"] = "INDEPENDENT"
    BY <2>1 DEF LocalReset, IInv, RolesOK, Nodes
  <2>2. CASE ResetFinish(x)
    <3>1. reset[x].node \in Nodes
      BY DEF IInv, OthersOK, Reset
    <3> QED
      BY <2>1, <2>2, <3>1 DEF ResetFinish
  <2> QED
    BY <2>1, <2>2 DEF ResetStart, ResetStep, ProtocolCancelled, ProtocolCancelledClears
<1>5. wait \in [Waits -> Wait] /\ session' = session /\ session \in Nat
  BY <1>1 DEF IInv, WaitsOK, ResetUnchanged, OthersOK
<1>6. \A w \in Waits : /\ wait'[w].session = wait[w].session
                       /\ wait'[w].pc = "idle" => wait[w].pc = "idle"
                       /\ wait'[w].pc = "returned" => /\ wait[w].pc = "returned"
                                                     /\ wait'[w].bits = wait[w].bits
  BY <1>4, <1>5, WaitersGo
<1>7. Served'
  <2>1. CASE UNCHANGED following /\ role'["follower"] = role["follower"]
    BY <1>5, <1>6, <2>1, ServedStays DEF SInv
  <2>2. CASE /\ following' = [basis_list |-> <<>>, index |-> 0, requests |-> <<>>,
                              n_matching_bits |-> -1]
             /\ role'["follower"] = "INDEPENDENT"
    BY <1>5, <1>6, <2>2 DEF SInv, Served
  <2> QED
    BY <1>4, <2>1, <2>2
<1>8. Computed'
  <2>1. following'.n_matching_bits \in {following.n_matching_bits, -1}
    BY <1>4
  <2> QED
    BY <1>3, <1>6, <2>1, ComputedStays DEF SInv
<1> QED
  BY <1>7, <1>8 DEF SInv

LEMMA InitSInv == Init => SInv
<1> SUFFICES ASSUME Init PROVE SInv
  OBVIOUS
<1>1. /\ \A r \in Runs : run[r].pc = "idle"
      /\ \A w \in Waits : wait[w].pc = "idle" /\ wait[w].session = 0
      /\ following.basis_list = <<>> /\ following.index = 0 /\ following.n_matching_bits = -1
      /\ ~result_event /\ \A n \in Nodes : ~cancel_event[n] /\ role[n] = "INDEPENDENT"
  BY DEF Init
<1>2. Served
  BY <1>1 DEF Served, Nodes
<1>3. Computed
  BY <1>1 DEF Computed, ResultsAreComputed
<1> QED
  BY <1>2, <1>3 DEF SInv

LEMMA NextSInv == IInv /\ IInv' /\ SInv /\ [Next]_vars => SInv'
<1> SUFFICES ASSUME IInv, IInv', SInv, [Next]_vars PROVE SInv'
  OBVIOUS
<1>1. ASSUME NEW r \in Runs, SubmitBasisListLeader(r) \/ QKD(r) \/ RunStep(r) PROVE SInv'
  BY <1>1, RunKeepsSInv
<1>2. ASSUME NEW w \in Waits, SubmitBasisListFollower(w) \/ WaitStep(w) PROVE SInv'
  BY <1>2, WaitKeepsSInv
<1>3. ASSUME NEW x \in Resets, (\E n \in Nodes : ResetStart(x, n)) \/ ResetStep(x) PROVE SInv'
  BY <1>3, ResetKeepsSInv
<1> QED
  BY <1>1, <1>2, <1>3, OthersKeepSInv DEF Next

THEOREM ServedAndComputed == Spec => []SInv
  BY InitSInv, NextSInv, InductiveInvariant, PTL DEF Spec

\* A follower returns what a finished run has computed, and that nothing was computed only
\* after a reset, whatever submissions, runs and resets overlap.
THEOREM ResultsComputed == Spec => []ResultsAreComputed
<1>1. SInv => ResultsAreComputed
  BY DEF SInv, Computed
<1> QED
  BY <1>1, ServedAndComputed, PTL

\* The follower keeps no more requests than it has served and, unless its user submits
\* twice in a session, serves no more bits than its user has chosen bases, for lists of
\* any length.
THEOREM FollowerKeepsStep == Spec => []FollowerInStep
<1>1. IInv /\ SInv => FollowerInStep
  BY DEF IInv, FollowingOK, SInv, Served, FollowerInStep
<1> QED
  BY <1>1, InductiveInvariant, ServedAndComputed, PTL

-----------------------------------------------------------------------------
(* The orderly use.  What makes its properties inductive: resets and games keep   *)
(* apart, ...                                                                     *)

Ongoing(x) == reset[x].pc \in {"notifying", "sleeping", "notified"}

NobodyPlays ==
    /\ \A r \in Runs : run[r].pc \in {"idle"} \cup Ended
    /\ \A w \in Waits : wait[w].pc \in {"idle", "returned", "conflict"}
    /\ \A f \in Fetches : fetch[f].pc \in {"idle", "returned", "failed"}

Apart ==
    /\ (\E x \in Resets : Ongoing(x)) => NobodyPlays
    /\ \A n \in Nodes : cancel_event[n] =>
          \E x \in Resets : reset[x].pc = "sleeping" /\ Peer(reset[x].node) = n

\* ... runs and submissions are of the session they were begun in, and nodes are in
\* no role before the first one, ...
RunSession(r) ==
    /\ run[r].session <= session
    /\ run[r].pc = "idle" => run[r].session = 0
    /\ run[r].pc \in Polling \cup Exchanging =>
         /\ run[r].session = session
         /\ session # 0 => role["leader"] # "INDEPENDENT"
         /\ r \notin DirectRuns => session # 0
    /\ run[r].pc \in Polling \cup {"submitting"} => r \notin DirectRuns

WaitSession(w) ==
    /\ wait[w].session <= session
    /\ wait[w].pc = "idle" <=> wait[w].session = 0
    /\ wait[w].pc \in {"spawned", "waiting", "woken"} => wait[w].session = session

Sessions ==
    /\ \A n \in Nodes : role[n] # "INDEPENDENT" => session # 0
    /\ \A r \in Runs : RunSession(r)
    /\ \A w \in Waits : WaitSession(w)
    /\ OnceASession

\* ... an independent node has nothing left of the last session, ...
Clean ==
    /\ role["follower"] = "INDEPENDENT" =>
         following.basis_list = <<>> /\ following.requests = <<>> /\ following.n_matching_bits = -1
    /\ role["leader"] = "INDEPENDENT" =>
         leading.bit_list = <<>> /\ (session # 0 => leading.basis_list = <<>>)
    /\ \A n \in Nodes : role[n] = "INDEPENDENT" => question_order[n] = NoOrder

\* ... an order under way, and what the follower has, is the leader's, ...
OrdersAgree ==
    /\ \A f \in Fetches :
         /\ fetch[f].pc \in {"fetching", "fetched"} => role["follower"] = "FOLLOWER"
         /\ fetch[f].pc = "fetched" => /\ role["leader"] = "LEADER"
                                       /\ fetch[f].order \in Orders
                                       /\ question_order["leader"] = fetch[f].order
    /\ question_order["follower"] # NoOrder /\ (\A n \in Nodes : role[n] = Role(n)) =>
         question_order["leader"] = question_order["follower"]

\* ... the result stored is that of the session's run, its event is up for somebody,
\* and a submission's run has a submission to return it to, ...
Completed(r, bits) ==
    /\ run[r].pc = "done" /\ run[r].session = session
    /\ bits = Cardinality(IndexList(r))

Submitted == role["follower"] # "INDEPENDENT" /\ \E w \in Waits : wait[w].session = session

Awaited(r) ==
    r \notin DirectRuns
      /\ (run[r].pc \in Exchanging \/ (run[r].pc = "polled" /\ run[r].reply = "ready"))

Results ==
    /\ following.n_matching_bits # -1 => \E r \in Runs : Completed(r, following.n_matching_bits)
    /\ result_event => /\ following.n_matching_bits # -1
                       /\ \E w \in Waits : wait[w].pc \in {"spawned", "woken"}
    /\ \A w \in Waits : /\ wait[w].pc = "woken" => following.n_matching_bits # -1
                        /\ wait[w].pc # "conflict"
    /\ following.basis_list # <<>> => Submitted
    /\ \A r \in Runs : Awaited(r) => Submitted
    /\ ResultsAgree

\* ... and the two nodes' lists are those of the session's run, bit by bit.
Both(r, i) == [leader |-> <<r, i>>, follower |-> <<r, i>>]
Asked(r, n) ==
    Len(following.requests) = n /\ \A i \in 1..n : following.requests[i].choice = <<r, i>>
Chosen(r, n) == Len(leading.bit_list) = n /\ \A i \in 1..n : leading.bit_list[i] = <<r, i>>
Counted(r) == \A i \in 1..Len(run[r].counts) : run[r].counts[i] = Both(r, i)

Exchange(r) ==
    LET n == Len(run[r].counts) IN
    /\ run[r].pc = "handshaking" => Asked(r, n) /\ Chosen(r, n) /\ Counted(r)
    /\ run[r].pc = "handshaken" /\ run[r].reply = "ok" =>
         Asked(r, n + 1) /\ Chosen(r, n) /\ Counted(r) /\ position["follower"] = <<r, n + 1>>
    /\ run[r].pc = "measuring" =>
         Asked(r, n + 1) /\ Chosen(r, n + 1) /\ Counted(r) /\ position = Both(r, n + 1)
    /\ run[r].pc = "measured" /\ run[r].reply = "ok" => Asked(r, n) /\ Chosen(r, n) /\ Counted(r)
    /\ run[r].pc = "comparing" => Asked(r, Len(following.requests))

Kept(r) ==
    /\ run[r].pc \in {"comparing", "compared", "submitting", "done"} =>
         \A i \in DOMAIN run[r].outcome :
             run[r].outcome[i] = [choice |-> <<r, i>>, count |-> Both(r, i)]
    /\ (run[r].pc = "compared" /\ run[r].reply = "ok") \/ run[r].pc \in {"submitting", "done"} =>
         \A i \in DOMAIN run[r].compared : run[r].compared[i].choice = <<r, i>>
    /\ run[r].pc \in {"submitting", "done"} => IndexList(r) \subseteq DOMAIN run[r].outcome
    /\ run[r].pc \in {"idle"} \cup Polling => run[r].outcome = <<>>
    /\ run[r].pc \in {"idle"} \cup Polling \cup Exchanging /\ session = 0 =>
         /\ run[r].counts = <<>>
         /\ \/ run[r].pc \in {"idle", "handshaking"} \cup Polling
            \/ run[r].pc = "handshaken" /\ run[r].reply # "ok"

\* Nobody has exchanged anything in this session.
NotBegun == \A r \in Runs : run[r].session = session /\ session # 0 => run[r].pc \in Polling

Keys ==
    /\ \A r \in Runs : Exchange(r) /\ Kept(r)
    /\ NotBegun => following.requests = <<>> /\ leading.bit_list = <<>>

OInv == IInv /\ Apart /\ Sessions /\ Clean /\ OrdersAgree /\ Results /\ Keys

-----------------------------------------------------------------------------
(* A step of a run. *)

\* No reset is under way and nobody has been told of one.
Calm ==
    /\ \A x \in Resets : ~Ongoing(x)
    /\ \A n \in Nodes : ~cancel_event[n]

LEMMA PlayIsCalm ==
    ASSUME IInv, Apart, ~NobodyPlays \/ \A x \in Resets : reset[x].pc \in {"idle", "done"}
    PROVE  Calm
<1>1. \A x \in Resets : ~Ongoing(x)
  BY DEF Apart, Ongoing
<1> QED
  BY <1>1 DEF Apart, Ongoing, Calm

\* What r's step leaves alone, and what it makes true.
SharedKept ==
    /\ following'.requests = following.requests
    /\ leading'.bit_list = leading.bit_list
    /\ position' = position

RunDoes(r) ==
    /\ UNCHANGED <<role, cancel_event, question_order, fetch, reset, session>>
    /\ \A s \in Runs : s # r => run'[s] = run[s]
    /\ run[r].pc \notin Ended
    /\ run'[r].pc # "idle"
    /\ run'[r].session = session
    /\ run'[r].pc \in Polling => run[r].pc \in Polling \cup {"idle"}
    /\ RunSession(r)' /\ Exchange(r)' /\ Kept(r)'
    /\ Awaited(r)' => Submitted
    /\ following'.basis_list = following.basis_list
    /\ following'.requests \in {following.requests, <<>>} \/ role["follower"] # "INDEPENDENT"
    /\ leading' = leading \/ role["leader"] # "INDEPENDENT"
    /\ SharedKept \/ (session # 0 /\ run[r].pc \in Exchanging /\ run'[r].pc \notin Polling)

\* A run that is under way or in the poll is of this session.
LEMMA Under ==
    ASSUME IInv, Sessions, NEW r \in Runs
    PROVE  /\ run[r] \in Run /\ run[r].pc \in RunPcs /\ RunSession(r) /\ session \in Nat
           /\ run[r].pc \notin {"idle"} \cup Ended => run[r].session = session
           /\ run[r].counts \in Seq(Count) /\ Len(run[r].counts) \in Nat
<1>1. run[r] \in Run /\ RunSession(r) /\ session \in Nat
  BY DEF IInv, RunsOK, OthersOK, Sessions
<1>2. run[r].pc \in RunPcs /\ run[r].counts \in Seq(Count)
  BY <1>1, RunHolds
<1>3. Len(run[r].counts) \in Nat
  BY <1>2, LenProperties
<1> QED
  BY <1>1, <1>2, <1>3 DEF RunSession, RunPcs

\* r gets a new position and reply and nothing else.
Goes(r, pc, reply) ==
    /\ \A s \in Runs : s # r => run'[s] = run[s]
    /\ run'[r].pc = pc /\ run'[r].reply = reply
    /\ run'[r].counts = run[r].counts /\ run'[r].bases = run[r].bases
    /\ run'[r].outcome = run[r].outcome /\ run'[r].compared = run[r].compared
    /\ run'[r].session = run[r].session

LEMMA RunGoesOn ==
    ASSUME IInv, NEW r \in Runs, NEW pc \in RunPcs, NEW reply \in Replies,
           \/ run' = [run EXCEPT ![r].pc = pc, ![r].reply = reply]
           \/ run' = [run EXCEPT ![r].reply = reply, ![r].pc = pc]
           \/ run' = [run EXCEPT ![r].pc = pc] /\ reply = run[r].reply
           \/ run' = [run EXCEPT ![r].pc = pc, ![r].reply = reply, ![r].excused = TRUE] /\ reply = "none"
    PROVE  Goes(r, pc, reply)
<1>1. run \in [Runs -> Run]
  BY DEF IInv, RunsOK
<1>2. CASE run' = [run EXCEPT ![r].pc = pc, ![r].reply = reply, ![r].excused = TRUE] /\ reply = "none"
  BY <1>1, <1>2, RunExcused DEF Goes
<1> QED
  BY <1>1, <1>2, RunGoes DEF Goes

LEMMA CalmPoll ==
    ASSUME Calm
    PROVE  \E pc \in {"polling", "failed"} : Poll = pc /\ pc \in RunPcs
  BY Pcs DEF Poll, Calm, Nodes

\* A step of the polling that does not begin the exchange.
LEMMA PollingGoes ==
    ASSUME OInv, NEW r \in Runs, NEW pc \in {"polling", "polled", "pausing", "failed"},
           NEW reply \in Replies, Goes(r, pc, reply),
           run[r].pc \in Polling,
           reply = "ready" => following.basis_list # <<>> \/ pc # "polled",
           leading' = leading, PollUnchanged
    PROVE  RunDoes(r)
<1>1. /\ RunSession(r) /\ run[r].session = session /\ Fits(run[r])
  BY Under DEF OInv, IInv, RunsOK, Polling, Ended
<1>2. UNCHANGED <<role, cancel_event, question_order, fetch, reset, session, following, position>>
  BY DEF PollUnchanged
<1>3. RunSession(r)'
  BY <1>1, <1>2 DEF Goes, RunSession, Polling, Exchanging, Ended
<1>4. Exchange(r)'
  BY DEF Goes, Exchange
<1>5. Kept(r)'
  BY <1>1, <1>2 DEF Goes, OInv, Keys, Kept, Polling, Exchanging, Fits
<1>6. Awaited(r)' => Submitted
  BY DEF Goes, OInv, Results, Awaited, Polling, Exchanging
<1> QED
  BY <1>1, <1>2, <1>3, <1>4, <1>5, <1>6
     DEF Goes, RunDoes, SharedKept, Polling, Exchanging, Ended

LEMMA PauseOverDoes ==
    ASSUME OInv, Calm, NEW r \in Runs, PauseOver(r) PROVE RunDoes(r)
<1>1. /\ run[r].pc = "pausing" /\ run' = [run EXCEPT ![r].pc = Poll] /\ leading' = leading
      /\ PollUnchanged
  BY DEF PauseOver
<1>2. PICK pc \in {"polling", "failed"} : Poll = pc /\ pc \in RunPcs
  BY CalmPoll
<1>3. PICK reply \in Replies : reply = run[r].reply
  BY Under, RunHolds DEF OInv
<1>4. Goes(r, pc, reply)
  BY <1>1, <1>2, <1>3, RunGoesOn DEF OInv
<1> QED
  BY <1>1, <1>2, <1>3, <1>4, PollingGoes DEF Polling

LEMMA IsFollowerReadyDoes ==
    ASSUME OInv, NEW r \in Runs, IsFollowerReady(r) PROVE RunDoes(r)
<1>1. PICK reply \in {"503", "ready", "not ready"} :
         /\ run' = [run EXCEPT ![r].pc = "polled", ![r].reply = reply]
         /\ reply = "ready" => Len(following.basis_list) = BitLength
  BY DEF IsFollowerReady
<1>2. run[r].pc = "polling" /\ leading' = leading /\ PollUnchanged
  BY DEF IsFollowerReady
<1>3. Goes(r, "polled", reply) /\ reply \in Replies
  BY <1>1, Pcs, RunGoesOn DEF OInv, Replies
<1>4. Len(following.basis_list) = BitLength => following.basis_list # <<>>
  BY QKDAssumption
<1> QED
  BY <1>1, <1>2, <1>3, <1>4, PollingGoes DEF Polling

LEMMA SubmitBasisListLeaderDoes ==
    ASSUME OInv, Calm, NEW r \in Runs, SubmitBasisListLeader(r) PROVE RunDoes(r)
<1>1. /\ run[r].pc = "idle" /\ run' = [run EXCEPT ![r].pc = Poll, ![r].session = session]
      /\ r \notin DirectRuns /\ role["leader"] = "LEADER" /\ PollUnchanged
      /\ leading'.bit_list = leading.bit_list
  BY DEF SubmitBasisListLeader, OInv, IInv, OthersOK, Leading
<1>2. PICK pc \in {"polling", "failed"} : Poll = pc /\ pc \in RunPcs
  BY CalmPoll
<1>3. run \in [Runs -> Run] /\ session \in Nat /\ Fits(run[r])
  BY DEF OInv, IInv, RunsOK, OthersOK
<1>4. /\ \A s \in Runs : s # r => run'[s] = run[s]
      /\ run'[r].pc = pc /\ run'[r].counts = run[r].counts
      /\ run'[r].outcome = run[r].outcome /\ run'[r].session = session
      /\ run'[r].reply = run[r].reply
  BY <1>1, <1>2, <1>3, RunSubmitted
<1>5. UNCHANGED <<role, cancel_event, question_order, fetch, reset, session, following, position>>
  BY <1>1 DEF PollUnchanged
<1>6. RunSession(r)'
  BY <1>1, <1>3, <1>4, <1>5
     DEF OInv, Sessions, Nodes, RunSession, Polling, Exchanging, Ended
<1>7. Exchange(r)'
  BY <1>4 DEF Exchange
<1>8. session # 0
  BY <1>1 DEF OInv, Sessions, Nodes
<1>9. Kept(r)'
  BY <1>1, <1>3, <1>4, <1>5, <1>8 DEF OInv, Keys, Kept, Polling, Exchanging
<1> QED
  BY <1>1, <1>4, <1>5, <1>6, <1>7, <1>9
     DEF RunDoes, SharedKept, Awaited, Polling, Exchanging, Ended

\* The exchange begins with empty lists.
LEMMA Begins ==
    ASSUME OInv, NEW r \in Runs, run[r].pc \in {"idle", "polled"},
           \/ run' = [run EXCEPT ![r] = Begin(@)] /\ run[r].session = session
           \/ run' = [run EXCEPT ![r] = [Begin(@) EXCEPT !.session = session]]
    PROVE  /\ \A s \in Runs : s # r => run'[s] = run[s]
           /\ run'[r].pc = IF leading.basis_list = <<>> THEN "comparing" ELSE "handshaking"
           /\ run'[r].reply = "none" /\ run'[r].counts = <<>> /\ run'[r].outcome = <<>>
           /\ run'[r].session = session
<1>1. /\ run \in [Runs -> Run] /\ session \in Nat /\ Fits(run[r]) /\ Kept(r)
  BY DEF OInv, IInv, RunsOK, OthersOK, Keys
<1>2. PICK list, pc : /\ list = leading.basis_list
                      /\ pc = IF leading.basis_list = <<>> THEN "comparing" ELSE "handshaking"
  OBVIOUS
<1>3. PICK q \in Run : q = run[r]
  BY <1>1
<1>4. PICK b, p : /\ b = [q EXCEPT !.reply = "none", !.todo = list, !.pc = pc]
                  /\ \/ p = b /\ q.session = session
                     \/ p = [b EXCEPT !.session = session]
                  /\ run' = [run EXCEPT ![r] = p]
  <2>1. Begin(run[r]) = [q EXCEPT !.reply = "none", !.todo = list, !.pc = pc]
    BY <1>2, <1>3 DEF Begin
  <2> QED
    BY <1>1, <1>3, <2>1
<1>5. PICK L, C, O, D :
         Run = [pc: RunPcs, reply: Replies, excused: BOOLEAN, todo: L, counts: C, bases: L,
                outcome: O, compared: D, session: Nat]
  BY RunShape
<1>6. /\ b.pc = pc /\ b.reply = "none" /\ b.counts = q.counts /\ b.outcome = q.outcome
      /\ b.session = q.session /\ DOMAIN b = DOMAIN q
      /\ DOMAIN q = {"pc", "reply", "excused", "todo", "counts", "bases", "outcome", "compared",
                     "session"}
  BY ONLY <1>4, <1>5, q \in Run
<1>7. /\ p.pc = pc /\ p.reply = "none" /\ p.counts = q.counts /\ p.outcome = q.outcome
      /\ p.session = session
  BY ONLY <1>4, <1>6
<1>8. run[r].counts = <<>> /\ run[r].outcome = <<>>
  BY <1>1 DEF Fits, Kept, Polling
<1> QED
  BY <1>1, <1>2, <1>3, <1>4, <1>7, <1>8

LEMMA EmptyLists ==
    ASSUME OInv, OnceASession', NEW r \in Runs, run[r].pc \in {"idle", "polled"},
           run'[r].session = session, \A s \in Runs : s # r => run'[s] = run[s]
    PROVE  following.requests = <<>> /\ leading.bit_list = <<>>
<1>1. RunSession(r) /\ session \in Nat
  BY Under DEF OInv
<1>2. ASSUME NEW s \in Runs, run[s].session = session, session # 0
      PROVE  run[s].pc \in Polling
  <2>1. CASE s = r
    BY <1>1, <1>2, <2>1 DEF RunSession, Polling
  <2>2. CASE s # r
    BY <1>2, <2>2 DEF OnceASession
  <2> QED
    BY <2>1, <2>2
<1>3. NotBegun
  BY <1>2 DEF NotBegun
<1> QED
  BY <1>3 DEF OInv, Keys

LEMMA BeginsDoes ==
    ASSUME OInv, OnceASession', NEW r \in Runs, run[r].pc \in {"idle", "polled"},
           \/ /\ run' = [run EXCEPT ![r] = Begin(@)]
              /\ run[r].pc = "polled" /\ run[r].reply = "ready" /\ role["leader"] = "LEADER"
           \/ /\ run' = [run EXCEPT ![r] = [Begin(@) EXCEPT !.session = session]]
              /\ run[r].pc = "idle" /\ r \in DirectRuns /\ leading.basis_list # <<>>,
           leading' = leading, PollUnchanged
    PROVE  RunDoes(r)
<1>1. /\ RunSession(r) /\ (run[r].pc = "polled" => run[r].session = session)
  BY Under DEF OInv, Ended
<1>2. /\ \A s \in Runs : s # r => run'[s] = run[s]
      /\ run'[r].pc = IF leading.basis_list = <<>> THEN "comparing" ELSE "handshaking"
      /\ run'[r].reply = "none" /\ run'[r].counts = <<>> /\ run'[r].outcome = <<>>
      /\ run'[r].session = session
  BY <1>1, Begins
<1>3. following.requests = <<>> /\ leading.bit_list = <<>>
  BY <1>2, EmptyLists
<1>4. UNCHANGED <<role, cancel_event, question_order, fetch, reset, session, following, position>>
  BY DEF PollUnchanged
<1>5. session \in Nat /\ (session # 0 => role["leader"] # "INDEPENDENT")
               /\ (r \notin DirectRuns => session # 0)
  BY <1>1 DEF OInv, IInv, OthersOK, Clean, RunSession, Polling
<1>6. RunSession(r)'
  BY <1>1, <1>2, <1>4, <1>5 DEF RunSession, Polling, Exchanging
<1>7. Exchange(r)'
  <2>1. Asked(r, 0)' /\ Chosen(r, 0)' /\ Counted(r)'
    BY <1>2, <1>3, <1>4 DEF Asked, Chosen, Counted
  <2>2. Asked(r, Len(following.requests))'
    BY <1>3, <1>4 DEF Asked
  <2>3. Len(run'[r].counts) = 0
    BY <1>2
  <2> QED
    BY <1>2, <2>1, <2>2, <2>3 DEF Exchange
<1>8. Kept(r)'
  <2>1. DOMAIN run'[r].outcome = {}
    BY <1>2
  <2>2. session = 0 => leading.basis_list # <<>>
    BY <1>1 DEF RunSession, Polling
  <2> QED
    BY <1>2, <1>4, <2>1, <2>2 DEF Kept, Polling
<1>9. Awaited(r)' => Submitted
  BY DEF OInv, Results, Awaited
<1> QED
  BY <1>2, <1>4, <1>6, <1>7, <1>8, <1>9
     DEF RunDoes, SharedKept, Awaited, Polling, Exchanging, Ended

LEMMA PollAnsweredDoes ==
    ASSUME OInv, OnceASession', Calm, NEW r \in Runs, PollAnswered(r) PROVE RunDoes(r)
<1>1. run[r].pc = "polled" /\ leading' = leading /\ PollUnchanged
  BY DEF PollAnswered
<1>2. CASE run[r].reply = "ready" /\ role["leader"] = "LEADER" /\ run' = [run EXCEPT ![r] = Begin(@)]
  BY <1>1, <1>2, BeginsDoes
<1>3. ASSUME NEW pc \in {"polling", "failed", "pausing"}, Goes(r, pc, "none")
      PROVE  RunDoes(r)
  BY <1>1, <1>3, PollingGoes DEF Polling, Replies
<1>4. PICK poll \in {"polling", "failed"} : Poll = poll
  BY CalmPoll
<1>5. ASSUME run' = [run EXCEPT ![r].pc = Poll, ![r].reply = "none", ![r].excused = TRUE]
      PROVE  RunDoes(r)
  BY <1>3, <1>4, <1>5, Pcs, RunGoesOn DEF OInv, Replies
<1>6. ASSUME NEW pc \in {"failed", "pausing"}, run' = [run EXCEPT ![r].pc = pc, ![r].reply = "none"]
      PROVE  RunDoes(r)
  BY <1>3, <1>6, Pcs, RunGoesOn DEF OInv, Replies
<1> QED
  BY <1>2, <1>5, <1>6 DEF PollAnswered

LEMMA QKDDoes ==
    ASSUME OInv, OnceASession', NEW r \in Runs, QKD(r) PROVE RunDoes(r)
  BY BeginsDoes DEF QKD

-----------------------------------------------------------------------------
(* The exchange, bit by bit. *)

\* Without a session nothing is exchanged.
LEMMA InSession ==
    ASSUME OInv, NEW r \in Runs,
           \/ run[r].pc \in {"measuring", "measured", "comparing", "compared", "submitting"}
           \/ run[r].pc = "handshaken" /\ run[r].reply = "ok"
           \/ run[r].pc = "handshaking" /\ following.basis_list # <<>>
    PROVE  /\ session # 0 /\ run[r].pc \in Exchanging /\ run[r].session = session
           /\ role["leader"] # "INDEPENDENT"
<1>1. run[r].pc \in Exchanging /\ run[r].session = session /\ RunSession(r) /\ Kept(r)
  BY Under DEF OInv, Exchanging, Ended, Keys
<1>2. session # 0
  <2>1. CASE run[r].pc = "handshaking" /\ following.basis_list # <<>>
    <3>1. role["follower"] # "INDEPENDENT"
      BY <2>1 DEF OInv, Clean
    <3> QED
      BY <3>1 DEF OInv, Sessions, Nodes
  <2>2. CASE ~(run[r].pc = "handshaking" /\ following.basis_list # <<>>)
    BY <1>1, <2>2 DEF Kept, Polling
  <2> QED
    BY <2>1, <2>2
<1> QED
  BY <1>1, <1>2 DEF RunSession

LEMMA ExchangeFrame ==
    ASSUME OInv, NEW r \in Runs, NEW pc \in Exchanging \cup Ended, ExchangeUnchanged,
           \A s \in Runs : s # r => run'[s] = run[s],
           run[r].pc \in Exchanging, run'[r].pc = pc, run'[r].session = run[r].session,
           pc = "submitting" => r \notin DirectRuns,
           Exchange(r)', Kept(r)',
           following'.basis_list = following.basis_list,
           following'.requests \in {following.requests, <<>>} \/ role["follower"] # "INDEPENDENT",
           leading' = leading \/ role["leader"] # "INDEPENDENT",
           SharedKept \/ session # 0
    PROVE  RunDoes(r)
<1>1. RunSession(r) /\ run[r].session = session /\ session \in Nat
  BY Under DEF OInv, Exchanging, Ended
<1>2. UNCHANGED <<role, cancel_event, question_order, fetch, reset, session>>
  BY DEF ExchangeUnchanged
<1>3. RunSession(r)'
  BY <1>1, <1>2 DEF RunSession, Polling, Exchanging, Ended
<1>4. Awaited(r)' => Submitted
  BY <1>2 DEF OInv, Results, Awaited, Polling, Exchanging, Ended
<1>5. run[r].pc \notin Ended /\ pc # "idle" /\ pc \notin Polling
  BY DEF Polling, Exchanging, Ended
<1> QED
  BY <1>1, <1>2, <1>3, <1>4, <1>5 DEF RunDoes

\* A step of the exchange that changes r's position and reply only.
LEMMA ExchangeGoes ==
    ASSUME OInv, NEW r \in Runs, NEW pc, NEW reply,
           run[r].pc \in Exchanging, Goes(r, pc, reply), ExchangeUnchanged,
           \/ pc = "handshaken" /\ reply \in {"400", "500"} /\ run[r].pc = "handshaking"
           \/ pc = "failed"
           \/ pc = "measured" /\ reply = "500" /\ run[r].pc = "measuring"
           \/ pc = "compared" /\ reply = "400" /\ run[r].pc = "comparing",
           following' = following, leading' = leading, position' = position
    PROVE  RunDoes(r)
<1>1. Exchange(r)'
  BY DEF Goes, Exchange
<1>2. session' = session
  BY DEF ExchangeUnchanged
<1>3. Kept(r)'
  <2>1. Kept(r)
    BY DEF OInv, Keys
  <2> QED
    BY <1>2, <2>1 DEF Goes, Kept, Exchanging, Polling
<1>4. pc \in Exchanging \cup Ended
  BY DEF Exchanging, Ended
<1> QED
  BY <1>1, <1>3, <1>4, ExchangeFrame DEF Goes, SharedKept

\* One more request, choice or count.
LEMMA OneMore ==
    ASSUME NEW S, NEW s \in Seq(S), NEW e
    PROVE  /\ Len(Append(s, e)) = Len(s) + 1
           /\ \A i \in 1..Len(s) : Append(s, e)[i] = s[i]
           /\ Append(s, e)[Len(s) + 1] = e
  OBVIOUS

LEMMA SingleBitDoes ==
    ASSUME OInv, NEW r \in Runs, SingleBit(r) PROVE RunDoes(r)
<1>1. run[r].pc = "handshaking" /\ leading' = leading /\ ExchangeUnchanged
  BY DEF SingleBit
<1>2. run[r].pc \in Exchanging /\ {"400", "500", "ok"} \subseteq Replies /\ "handshaken" \in RunPcs
  BY <1>1, Pcs DEF Exchanging, Replies
<1>3. ASSUME NEW reply \in {"400", "500"}, following' = following, position' = position,
             run' = [run EXCEPT ![r].pc = "handshaken", ![r].reply = reply]
      PROVE  RunDoes(r)
  <2>1. Goes(r, "handshaken", reply)
    BY <1>2, <1>3, RunGoesOn DEF OInv
  <2> QED
    BY <1>1, <1>2, <1>3, <2>1, ExchangeGoes
<1>4. ASSUME following.index + 1 <= Len(following.basis_list),
             following' = [following EXCEPT !.index = following.index + 1, !.requests =
                 Append(following.requests, [basis |-> following.basis_list[following.index + 1],
                                             choice |-> Bit(r)])],
             NEW reply \in {"ok", "500"},
             run' = [run EXCEPT ![r].pc = "handshaken", ![r].reply = reply],
             reply = "ok" => position' = [position EXCEPT !["follower"] = Bit(r)]
      PROVE  RunDoes(r)
  <2>1. Goes(r, "handshaken", reply)
    BY <1>2, <1>4, RunGoesOn DEF OInv
  <2>2. following \in Following
    BY DEF OInv, IInv, FollowingOK
  <2>3. following.basis_list # <<>>
    BY <1>4, <2>2 DEF Following
  <2>4. session # 0 /\ role["follower"] # "INDEPENDENT"
    BY <1>1, <2>3, InSession DEF OInv, Clean
  <2>5. PICK e : /\ e.choice = Bit(r) /\ following'.requests = Append(following.requests, e)
                 /\ following'.basis_list = following.basis_list
    <3>1. PICK e : e = [basis |-> following.basis_list[following.index + 1], choice |-> Bit(r)]
      OBVIOUS
    <3>2. e.choice = Bit(r)
      BY <3>1
    <3>3. following' = [following EXCEPT !.index = following.index + 1,
                                         !.requests = Append(following.requests, e)]
      BY <1>4, <3>1
    <3>4. /\ following'.requests = Append(following.requests, e)
          /\ following'.basis_list = following.basis_list
      BY <2>2, <3>3 DEF Following
    <3> QED
      BY <3>2, <3>4
  <2>6. session' = session
    BY <1>1 DEF ExchangeUnchanged
  <2>7. Exchange(r)'
    <3>1. SUFFICES ASSUME reply = "ok"
                   PROVE  /\ Asked(r, Len(run[r].counts) + 1)' /\ Chosen(r, Len(run[r].counts))'
                          /\ Counted(r)' /\ position'["follower"] = <<r, Len(run[r].counts) + 1>>
      BY <2>1 DEF Goes, Exchange
    <3>2. Asked(r, Len(run[r].counts)) /\ Chosen(r, Len(run[r].counts)) /\ Counted(r)
      BY <1>1 DEF OInv, Keys, Exchange
    <3>3. Counted(r)' /\ Chosen(r, Len(run[r].counts))'
      BY <1>1, <2>1, <3>2 DEF Goes, Counted, Chosen
    <3>4. Asked(r, Len(run[r].counts) + 1)'
      <4>1. following.requests \in Seq(Request)
        BY <2>2 DEF Following
      <4>2. /\ Len(following'.requests) = Len(following.requests) + 1
            /\ \A k \in 1..Len(following.requests) :
                   following'.requests[k] = following.requests[k]
            /\ following'.requests[Len(following.requests) + 1] = e
        BY <2>5, <4>1, OneMore
      <4>3. PICK n \in Nat : n = Len(run[r].counts)
        BY Under DEF OInv
      <4>4. Len(following.requests) = n /\ \A k \in 1..n : following.requests[k].choice = <<r, k>>
        BY <3>2, <4>3 DEF Asked
      <4>5. run'[r].counts = run[r].counts /\ e.choice = <<r, n + 1>>
        BY <2>1, <2>5, <4>3 DEF Goes, Bit
      <4>6. ASSUME NEW k \in 1..(n + 1) PROVE following'.requests[k].choice = <<r, k>>
        <5>1. CASE k \in 1..n
          BY <4>2, <4>4, <5>1
        <5>2. CASE k = n + 1
          BY <4>2, <4>4, <4>5, <5>2
        <5> QED
          BY <4>3, <5>1, <5>2
      <4>7. Asked(r, n + 1)'
        BY <4>2, <4>4, <4>6 DEF Asked
      <4> QED
        BY <4>3, <4>5, <4>7
    <3>5. position'["follower"] = <<r, Len(run[r].counts) + 1>>
      BY <1>4, <3>1 DEF OInv, IInv, OthersOK, Nodes, Bit
    <3> QED
      BY <3>3, <3>4, <3>5
  <2>8. Kept(r)'
    BY <1>1, <2>1, <2>4, <2>6 DEF Goes, Kept, Polling
  <2> QED
    BY <1>1, <1>2, <2>1, <2>4, <2>5, <2>7, <2>8, ExchangeFrame DEF Goes, Exchanging
<1> QED
  BY <1>1, <1>3, <1>4 DEF SingleBit

LEMMA ChooseBitDoes ==
    ASSUME OInv, NEW r \in Runs, ChooseBit(r) PROVE RunDoes(r)
<1>1. run[r].pc = "handshaken" /\ following' = following /\ ExchangeUnchanged
  BY DEF ChooseBit
<1>2. run[r].pc \in Exchanging /\ "none" \in Replies /\ {"failed", "measuring"} \subseteq RunPcs
  BY <1>1, Pcs DEF Exchanging, Replies
<1>3. CASE run[r].reply # "ok"
  <2>1. /\ run' = [run EXCEPT ![r].pc = "failed", ![r].reply = "none"]
        /\ leading' = leading /\ position' = position
    BY <1>3 DEF ChooseBit
  <2>2. Goes(r, "failed", "none")
    BY <1>2, <2>1, RunGoesOn DEF OInv
  <2> QED
    BY <1>1, <1>2, <2>1, <2>2, ExchangeGoes
<1>4. CASE run[r].reply = "ok"
  <2>1. leading' = [leading EXCEPT !.bit_list = Append(leading.bit_list, Bit(r))]
    BY <1>4 DEF ChooseBit
  <2>2. PICK pc \in {"failed", "measuring"} :
           /\ run' = [run EXCEPT ![r].pc = pc, ![r].reply = "none"]
           /\ pc = "measuring" => position' = [position EXCEPT !["leader"] = Bit(r)]
    BY <1>4 DEF ChooseBit
  <2>3. Goes(r, pc, "none")
    BY <1>2, <2>2, RunGoesOn DEF OInv
  <2>4. session # 0 /\ role["leader"] # "INDEPENDENT" /\ session' = session
    BY <1>1, <1>4, InSession DEF ExchangeUnchanged
  <2>5. PICK n \in Nat : n = Len(run[r].counts)
    BY Under DEF OInv
  <2>6. Asked(r, n + 1) /\ Chosen(r, n) /\ Counted(r) /\ position["follower"] = <<r, n + 1>>
    BY <1>1, <1>4, <2>5 DEF OInv, Keys, Exchange
  <2>7. Exchange(r)'
    <3>1. SUFFICES ASSUME pc = "measuring"
                   PROVE  /\ Asked(r, n + 1)' /\ Chosen(r, n + 1)' /\ Counted(r)'
                          /\ position' = Both(r, n + 1)
      BY <2>3, <2>5 DEF Goes, Exchange
    <3>2. Asked(r, n + 1)' /\ Counted(r)'
      BY <1>1, <2>3, <2>6 DEF Goes, Asked, Counted
    <3>3. Chosen(r, n + 1)'
      <4>1. leading.bit_list \in Seq(Choices) /\ leading'.bit_list = Append(leading.bit_list, Bit(r))
        BY <2>1 DEF OInv, IInv, OthersOK, Leading
      <4>2. Bit(r) = <<r, n + 1>> /\ Len(leading.bit_list) = n
        BY <2>5, <2>6 DEF Bit, Chosen
      <4>3. /\ Len(leading'.bit_list) = n + 1 /\ leading'.bit_list[n + 1] = <<r, n + 1>>
            /\ \A k \in 1..n : leading'.bit_list[k] = leading.bit_list[k]
        BY <4>1, <4>2, OneMore
      <4> QED
        BY <2>6, <4>3 DEF Chosen
    <3>4. position' = Both(r, n + 1)
      <4>1. position \in [Nodes -> Positions] /\ position' = [position EXCEPT !["leader"] = <<r, n + 1>>]
        BY <2>2, <2>5, <3>1 DEF OInv, IInv, OthersOK, Bit
      <4> QED
        BY <2>6, <4>1 DEF Both, Nodes
    <3> QED
      BY <3>2, <3>3, <3>4
  <2>8. Kept(r)'
    BY <1>1, <2>3, <2>4 DEF Goes, Kept, Polling
  <2>9. pc \in Exchanging \cup Ended /\ pc # "submitting"
    BY DEF Exchanging, Ended
  <2> QED
    BY <1>1, <1>2, <2>3, <2>4, <2>7, <2>8, <2>9, ExchangeFrame DEF Goes
<1> QED
  BY <1>3, <1>4

LEMMA MeasureDoes ==
    ASSUME OInv, NEW r \in Runs, MeasureCorrelation(r) PROVE RunDoes(r)
<1>1. /\ run[r].pc = "measuring" /\ ExchangeUnchanged
      /\ leading' = leading /\ following' = following /\ position' = position
  BY DEF MeasureCorrelation
<1>2. run[r].pc \in Exchanging /\ "500" \in Replies /\ "measured" \in RunPcs
  BY <1>1, Pcs DEF Exchanging, Replies
<1>3. CASE run' = [run EXCEPT ![r].pc = "measured", ![r].reply = "500"]
  <2>1. Goes(r, "measured", "500")
    BY <1>2, <1>3, RunGoesOn DEF OInv
  <2> QED
    BY <1>1, <1>2, <2>1, ExchangeGoes
<1>4. CASE run' = [run EXCEPT ![r].pc = "measured", ![r].reply = "ok",
                              ![r].counts = Append(@, position)]
  <2>1. run \in [Runs -> Run] /\ run[r].counts \in Seq(Count) /\ position \in Count
    <3>1. position \in [Nodes -> Positions] /\ run \in [Runs -> Run]
      BY DEF OInv, IInv, OthersOK, RunsOK
    <3>2. position \in Count
      BY <3>1 DEF Count, Nodes
    <3> QED
      BY <3>1, <3>2, Under DEF OInv
  <2>2. PICK counts \in Seq(Count) :
           /\ counts = Append(run[r].counts, position)
           /\ run' = [run EXCEPT ![r].pc = "measured", ![r].reply = "ok", ![r].counts = counts]
    <3>1. Append(run[r].counts, position) \in Seq(Count)
      BY <2>1, AppendProperties
    <3>2. PICK counts \in Seq(Count) : counts = Append(run[r].counts, position)
      BY <3>1
    <3>3. run' = [run EXCEPT ![r].pc = "measured", ![r].reply = "ok", ![r].counts = counts]
      BY <1>4, <3>2
    <3> QED
      BY <3>2, <3>3
  <2>3. /\ \A s \in Runs : s # r => run'[s] = run[s]
        /\ run'[r].pc = "measured" /\ run'[r].reply = "ok" /\ run'[r].counts = counts
        /\ run'[r].outcome = run[r].outcome /\ run'[r].session = run[r].session
    BY <2>1, <2>2, RunMeasures
  <2>4. PICK n \in Nat : n = Len(run[r].counts)
    BY Under DEF OInv
  <2>5. Asked(r, n + 1) /\ Chosen(r, n + 1) /\ Counted(r) /\ position = Both(r, n + 1)
    BY <1>1, <2>4 DEF OInv, Keys, Exchange
  <2>6. /\ Len(counts) = n + 1 /\ counts[n + 1] = Both(r, n + 1)
        /\ \A k \in 1..n : counts[k] = run[r].counts[k]
    BY <2>1, <2>2, <2>4, <2>5, OneMore
  <2>7. Counted(r)'
    BY <2>3, <2>4, <2>5, <2>6 DEF Counted
  <2>8. Asked(r, n + 1)' /\ Chosen(r, n + 1)'
    BY <1>1, <2>5 DEF Asked, Chosen
  <2>9. Exchange(r)'
    BY <2>3, <2>6, <2>7, <2>8 DEF Exchange
  <2>10. session # 0 /\ session' = session
    BY <1>1, InSession DEF ExchangeUnchanged
  <2>11. Kept(r)'
    BY <2>3, <2>10 DEF Kept, Polling
  <2> QED
    BY <1>1, <1>2, <2>3, <2>9, <2>11, ExchangeFrame DEF SharedKept, Exchanging
<1> QED
  BY <1>3, <1>4 DEF MeasureCorrelation

LEMMA CountReceivedDoes ==
    ASSUME OInv, NEW r \in Runs, CountReceived(r) PROVE RunDoes(r)
<1>1. /\ run[r].pc = "measured" /\ ExchangeUnchanged
      /\ leading' = leading /\ following' = following /\ position' = position
  BY DEF CountReceived
<1>2. run[r].pc \in Exchanging /\ "none" \in Replies /\ {"failed", "handshaking"} \subseteq RunPcs
  BY <1>1, Pcs DEF Exchanging, Replies
<1>3. session # 0 /\ session' = session
  BY <1>1, InSession DEF ExchangeUnchanged
<1>4. PICK n \in Nat : n = Len(run[r].counts)
  BY Under DEF OInv
<1>5. run[r].reply = "ok" => Asked(r, n) /\ Chosen(r, n) /\ Counted(r)
  BY <1>1, <1>4 DEF OInv, Keys, Exchange
<1>6. CASE run' = [run EXCEPT ![r].pc = "failed", ![r].reply = "none"]
  <2>1. Goes(r, "failed", "none")
    BY <1>2, <1>6, RunGoesOn DEF OInv
  <2> QED
    BY <1>1, <1>2, <2>1, ExchangeGoes
<1>7. CASE /\ run[r].reply = "ok"
           /\ run' = [run EXCEPT ![r].pc = "handshaking", ![r].reply = "none"]
  <2>1. Goes(r, "handshaking", "none")
    BY <1>2, <1>7, RunGoesOn DEF OInv
  <2>2. Asked(r, n)' /\ Chosen(r, n)' /\ Counted(r)'
    BY <1>1, <1>5, <1>7, <2>1 DEF Goes, Asked, Chosen, Counted
  <2>3. Exchange(r)'
    BY <1>4, <2>1, <2>2 DEF Goes, Exchange
  <2>4. Kept(r)'
    BY <1>3, <2>1 DEF Goes, Kept, Polling
  <2> QED
    BY <1>1, <1>2, <2>1, <2>3, <2>4, ExchangeFrame DEF Goes, SharedKept, Exchanging
<1>8. CASE /\ run[r].reply = "ok"
           /\ run' = [run EXCEPT ![r].pc = "comparing", ![r].reply = "none",
                                 ![r].bases = leading.basis_list,
                                 ![r].outcome = Outcome(run[r].counts)]
  <2>1. run \in [Runs -> Run]
    BY DEF OInv, IInv, RunsOK
  <2>2. /\ \A s \in Runs : s # r => run'[s] = run[s]
        /\ run'[r].pc = "comparing" /\ run'[r].reply = "none"
        /\ run'[r].outcome = Outcome(run[r].counts) /\ run'[r].session = run[r].session
    <3>1. PICK q \in Run : q = run[r]
      BY <2>1
    <3>2. PICK L, O : L = leading.basis_list /\ O = Outcome(run[r].counts)
      OBVIOUS
    <3>3. PICK p : /\ p = [q EXCEPT !.pc = "comparing", !.reply = "none", !.bases = L, !.outcome = O]
                   /\ run' = [run EXCEPT ![r] = p]
      BY <1>8, <2>1, <3>1, <3>2
    <3>4. /\ p.pc = "comparing" /\ p.reply = "none" /\ p.outcome = O /\ p.session = q.session
      BY ONLY <3>3, q \in Run DEF Run
    <3> QED
      BY <2>1, <3>1, <3>2, <3>3, <3>4
  <2>3. PICK outcome : outcome = Outcome(run[r].counts)
    OBVIOUS
  <2>4. run'[r].outcome = outcome
    BY <2>2, <2>3
  <2>5. \A i \in DOMAIN outcome : outcome[i] = [choice |-> <<r, i>>, count |-> Both(r, i)]
    <3>1. DOMAIN outcome = {j \in 1..n : j <= Len(leading.bit_list) /\ j <= Len(leading.basis_list)}
      BY <1>4, <2>3 DEF Outcome
    <3>2. ASSUME NEW i \in DOMAIN outcome
          PROVE  outcome[i] = [choice |-> <<r, i>>, count |-> Both(r, i)]
      <4>1. i \in 1..n
        BY <3>1
      <4>2. outcome[i] = [choice |-> leading.bit_list[i], count |-> run[r].counts[i]]
        BY <1>4, <2>3, <3>1, <3>2 DEF Outcome
      <4>3. leading.bit_list[i] = <<r, i>> /\ run[r].counts[i] = Both(r, i)
        BY <1>4, <1>5, <1>8, <4>1 DEF Chosen, Counted
      <4> QED
        BY <4>2, <4>3
    <3> QED
      BY <3>2
  <2>6. Asked(r, Len(following.requests))'
    BY <1>1, <1>5, <1>8 DEF Asked
  <2>7. Exchange(r)'
    BY <2>2, <2>6 DEF Exchange
  <2>8. Kept(r)'
    BY <1>3, <2>2, <2>4, <2>5 DEF Kept, Polling
  <2> QED
    BY <1>1, <1>2, <2>2, <2>7, <2>8, ExchangeFrame DEF SharedKept, Exchanging
<1> QED
  BY <1>6, <1>7, <1>8 DEF CountReceived

LEMMA RequestBasisListDoes ==
    ASSUME OInv, NEW r \in Runs, RequestBasisList(r) PROVE RunDoes(r)
<1>1. /\ run[r].pc = "comparing" /\ ExchangeUnchanged
      /\ leading' = leading /\ position' = position
  BY DEF RequestBasisList
<1>2. run[r].pc \in Exchanging /\ "400" \in Replies /\ "compared" \in RunPcs
  BY <1>1, Pcs DEF Exchanging, Replies
<1>3. session # 0 /\ session' = session
  BY <1>1, InSession DEF ExchangeUnchanged
<1>4. CASE run' = [run EXCEPT ![r].pc = "compared", ![r].reply = "400"] /\ following' = following
  <2>1. Goes(r, "compared", "400")
    BY <1>2, <1>4, RunGoesOn DEF OInv
  <2> QED
    BY <1>1, <1>2, <1>4, <2>1, ExchangeGoes
<1>5. CASE /\ run' = [run EXCEPT ![r].pc = "compared", ![r].reply = "ok",
                                 ![r].compared = following.requests]
           /\ following' = [following EXCEPT !.requests = <<>>]
  <2>1. following \in Following /\ run \in [Runs -> Run] /\ Kept(r)
    BY DEF OInv, IInv, FollowingOK, RunsOK, Keys
  <2>2. PICK compared \in Seq(Request) :
           /\ compared = following.requests
           /\ run' = [run EXCEPT ![r].pc = "compared", ![r].reply = "ok",
                                 ![r].compared = compared]
    BY <1>5, <2>1 DEF Following
  <2>3. /\ \A s \in Runs : s # r => run'[s] = run[s]
        /\ run'[r].pc = "compared" /\ run'[r].compared = compared
        /\ run'[r].outcome = run[r].outcome /\ run'[r].session = run[r].session
    BY <2>1, <2>2, RunCompared
  <2>4. \A i \in DOMAIN compared : compared[i].choice = <<r, i>>
    BY <1>1, <2>2 DEF OInv, Keys, Exchange, Asked
  <2>5. Exchange(r)'
    BY <2>3 DEF Exchange
  <2>6. Kept(r)'
    BY <1>1, <1>3, <2>1, <2>3, <2>4 DEF Kept, Polling
  <2>7. following'.requests = <<>> /\ following'.basis_list = following.basis_list
    BY <1>5, <2>1 DEF Following
  <2> QED
    BY <1>1, <1>2, <1>3, <2>3, <2>5, <2>6, <2>7, ExchangeFrame DEF Exchanging
<1> QED
  BY <1>4, <1>5 DEF RequestBasisList

\* What a run that submits, or is done, has found.
LEMMA BasisListReceivedDoes ==
    ASSUME OInv, NEW r \in Runs, BasisListReceived(r) PROVE RunDoes(r)
<1>1. /\ run[r].pc = "compared" /\ ExchangeUnchanged
      /\ leading' = leading /\ following' = following /\ position' = position
  BY DEF BasisListReceived
<1>2. PICK pc \in {"done", "submitting", "failed"} :
         /\ run' = [run EXCEPT ![r].reply = "none", ![r].pc = pc]
         /\ pc # "failed" => run[r].reply = "ok" /\ IndexList(r) \subseteq DOMAIN run[r].outcome
         /\ pc = "submitting" => r \notin DirectRuns
  BY DEF BasisListReceived
<1>3. run[r].pc \in Exchanging /\ "none" \in Replies /\ pc \in RunPcs
  BY <1>1, Pcs DEF Exchanging, Replies
<1>4. Goes(r, pc, "none")
  BY <1>2, <1>3, RunGoesOn DEF OInv
<1>5. session # 0 /\ session' = session
  BY <1>1, InSession DEF ExchangeUnchanged
<1>6. Exchange(r)'
  BY <1>4 DEF Goes, Exchange
<1>7. IndexList(r)' = IndexList(r)
  BY <1>4 DEF Goes, IndexList
<1>8. Kept(r)'
  <2>1. Kept(r)
    BY DEF OInv, Keys
  <2> QED
    BY <1>1, <1>2, <1>4, <1>5, <1>7, <2>1 DEF Goes, Kept, Polling
<1>9. pc \in Exchanging \cup Ended
  BY DEF Exchanging, Ended
<1> QED
  BY <1>1, <1>2, <1>3, <1>4, <1>6, <1>8, <1>9, ExchangeFrame DEF Goes, SharedKept

LEMMA SubmitResultDoes ==
    ASSUME OInv, NEW r \in Runs, SubmitResult(r)
    PROVE  /\ RunDoes(r) /\ IndexList(r)' = IndexList(r) /\ run'[r].pc = "done"
           /\ following'.n_matching_bits = Cardinality(IndexList(r))
           /\ following'.requests = following.requests
<1>1. /\ run[r].pc = "submitting" /\ ExchangeUnchanged
      /\ leading' = leading /\ position' = position
      /\ following' = [following EXCEPT !.n_matching_bits = Cardinality(IndexList(r))]
      /\ run' = [run EXCEPT ![r].pc = "done"]
  BY DEF SubmitResult
<1>2. following \in Following /\ Kept(r)
  BY DEF OInv, IInv, FollowingOK, Keys
<1>3. /\ following'.requests = following.requests
      /\ following'.basis_list = following.basis_list
      /\ following'.n_matching_bits = Cardinality(IndexList(r))
  BY <1>1, <1>2 DEF Following
<1>4. run[r].pc \in Exchanging /\ "done" \in RunPcs
  BY <1>1, Pcs DEF Exchanging
<1>5. PICK reply \in Replies : reply = run[r].reply
  BY Under, RunHolds DEF OInv
<1>6. Goes(r, "done", reply)
  BY <1>1, <1>4, <1>5, RunGoesOn DEF OInv
<1>7. session # 0 /\ session' = session
  BY <1>1, InSession DEF ExchangeUnchanged
<1>8. Exchange(r)'
  BY <1>6 DEF Goes, Exchange
<1>9. IndexList(r)' = IndexList(r)
  BY <1>6 DEF Goes, IndexList
<1>10. Kept(r)'
  BY <1>1, <1>2, <1>6, <1>7, <1>9 DEF Goes, Kept, Polling
<1>11. RunDoes(r)
  BY <1>1, <1>3, <1>4, <1>6, <1>8, <1>10, ExchangeFrame DEF Goes, SharedKept, Ended
<1> QED
  BY <1>3, <1>6, <1>9, <1>11 DEF Goes

-----------------------------------------------------------------------------
(* What a step of a run keeps. *)

WaitsGoOn ==
    \A w \in Waits : /\ wait'[w].session = wait[w].session
                     /\ wait'[w].pc = wait[w].pc \/ (wait[w].pc = "waiting" /\ wait'[w].pc = "woken")

LEMMA RunDoesApart ==
    ASSUME OInv, Calm, NEW r \in Runs, RunDoes(r) PROVE Apart'
  BY DEF RunDoes, Calm, Apart, Ongoing

LEMMA RunDoesSessions ==
    ASSUME OInv, OnceASession', NEW r \in Runs, RunDoes(r), WaitsGoOn PROVE Sessions'
<1>1. UNCHANGED <<role, session>> /\ \A n \in Nodes : role'[n] # "INDEPENDENT" => session' # 0
  BY DEF RunDoes, OInv, Sessions
<1>2. ASSUME NEW s \in Runs PROVE RunSession(s)'
  <2>1. RunSession(s)
    BY DEF OInv, Sessions
  <2>2. CASE s = r
    BY <2>2 DEF RunDoes
  <2>3. CASE s # r
    BY <1>1, <2>1, <2>3 DEF RunDoes, RunSession
  <2> QED
    BY <2>2, <2>3
<1>3. ASSUME NEW w \in Waits PROVE WaitSession(w)'
  <2>1. WaitSession(w)
    BY DEF OInv, Sessions
  <2> QED
    BY <1>1, <2>1 DEF WaitsGoOn, WaitSession
<1> QED
  BY <1>1, <1>2, <1>3 DEF Sessions

LEMMA RunDoesClean ==
    ASSUME OInv, NEW r \in Runs, RunDoes(r),
           \/ following'.n_matching_bits = following.n_matching_bits
           \/ role["follower"] # "INDEPENDENT"
    PROVE  Clean'
<1>1. Clean /\ UNCHANGED <<role, session, question_order>>
  BY DEF OInv, RunDoes
<1>2. role["follower"] = "INDEPENDENT" =>
          /\ following'.basis_list = <<>> /\ following'.requests = <<>>
          /\ following'.n_matching_bits = -1
  BY <1>1 DEF RunDoes, Clean
<1>3. role["leader"] = "INDEPENDENT" => leading' = leading
  BY DEF RunDoes
<1> QED
  BY <1>1, <1>2, <1>3 DEF Clean

LEMMA RunDoesOrders ==
    ASSUME OInv, NEW r \in Runs, RunDoes(r) PROVE OrdersAgree'
  BY DEF OInv, OrdersAgree, RunDoes

LEMMA RunDoesKeys ==
    ASSUME OInv, NEW r \in Runs, RunDoes(r) PROVE Keys'
<1>1. UNCHANGED session /\ session \in Nat /\ run'[r].session = session
  BY DEF RunDoes, OInv, IInv, OthersOK
<1>2. ASSUME NEW s \in Runs, s # r PROVE Kept(s)'
  <2>1. Kept(s) /\ run'[s] = run[s]
    BY <1>2 DEF OInv, Keys, RunDoes
  <2> QED
    BY <1>1, <2>1 DEF Kept, IndexList
<1>3. ASSUME NEW s \in Runs, s # r PROVE Exchange(s)'
  <2>1. Exchange(s) /\ run'[s] = run[s]
    BY <1>3 DEF OInv, Keys, RunDoes
  <2>2. CASE SharedKept
    BY <2>1, <2>2 DEF SharedKept, Exchange, Asked, Chosen, Counted
  <2>3. CASE session # 0 /\ run[r].pc \in Exchanging
    <3>1. run[r].session = session
      BY <2>3, Under DEF OInv, Exchanging, Ended
    <3>2. run[s].pc \notin Exchanging
      <4>1. SUFFICES ASSUME run[s].pc \in Exchanging PROVE FALSE
        OBVIOUS
      <4>2. run[s].session = session
        BY <4>1, Under DEF OInv, Exchanging, Ended
      <4> QED
        BY <1>3, <2>3, <3>1, <4>2 DEF OInv, Sessions, OnceASession
    <3> QED
      BY <2>1, <3>2 DEF Exchange, Exchanging
  <2> QED
    BY <2>2, <2>3 DEF RunDoes
<1>4. NotBegun' => following'.requests = <<>> /\ leading'.bit_list = <<>>
  <2>1. SUFFICES ASSUME NotBegun'
                 PROVE  following'.requests = <<>> /\ leading'.bit_list = <<>>
    OBVIOUS
  <2>2. session # 0 => run'[r].pc \in Polling
    BY <1>1, <2>1 DEF NotBegun
  <2>3. SharedKept
    BY <2>2 DEF RunDoes
  <2>4. NotBegun
    <3>1. ASSUME NEW s \in Runs, run[s].session = session, session # 0
          PROVE  run[s].pc \in Polling
      <4>1. CASE s # r
        BY <1>1, <2>1, <3>1, <4>1 DEF RunDoes, NotBegun
      <4>2. CASE s = r
        BY <1>1, <2>2, <3>1, <4>2, Under DEF RunDoes, OInv, RunSession
      <4> QED
        BY <4>1, <4>2
    <3> QED
      BY <3>1 DEF NotBegun
  <2> QED
    BY <2>3, <2>4 DEF OInv, Keys, SharedKept
<1> QED
  BY <1>2, <1>3, <1>4 DEF RunDoes, Keys

\* The result of a run that is done stays its result.
LEMMA DoneStays ==
    ASSUME NEW r \in Runs, RunDoes(r), NEW s \in Runs, run[s].pc = "done"
    PROVE  run'[s] = run[s] /\ s # r /\ IndexList(s)' = IndexList(s)
<1>1. s # r /\ run'[s] = run[s]
  BY DEF RunDoes, Ended
<1> QED
  BY <1>1 DEF IndexList

LEMMA RunDoesResults ==
    ASSUME OInv, NEW r \in Runs, RunDoes(r), UNCHANGED <<result_event, wait>>,
           following'.n_matching_bits = following.n_matching_bits
    PROVE  Results'
<1>1. Results /\ UNCHANGED session /\ following'.basis_list = following.basis_list
  BY DEF OInv, RunDoes
<1>2. following'.n_matching_bits # -1 =>
          \E s \in Runs : Completed(s, following.n_matching_bits)'
  <2>1. SUFFICES ASSUME following.n_matching_bits # -1
                 PROVE  \E s \in Runs : Completed(s, following.n_matching_bits)'
    OBVIOUS
  <2>2. PICK s \in Runs : Completed(s, following.n_matching_bits)
    BY <1>1, <2>1 DEF Results
  <2> QED
    BY <1>1, <2>2, DoneStays DEF Completed
<1>3. ASSUME NEW w \in Waits, wait[w].pc = "returned"
      PROVE  \E s \in Runs : /\ run'[s].pc = "done" /\ run'[s].session = wait[w].session
                            /\ wait[w].bits = Cardinality(IndexList(s)')
  <2>1. PICK s \in Runs : /\ run[s].pc = "done" /\ run[s].session = wait[w].session
                          /\ wait[w].bits = Cardinality(IndexList(s))
    BY <1>1, <1>3 DEF Results, ResultsAgree
  <2> QED
    BY <2>1, DoneStays
<1>4. ResultsAgree'
  BY <1>3 DEF ResultsAgree
<1>5. ASSUME NEW s \in Runs, Awaited(s)' PROVE Submitted'
  <2>1. CASE s = r
    BY <1>1, <1>5, <2>1 DEF RunDoes, Submitted
  <2>2. CASE s # r
    BY <1>1, <1>5, <2>2 DEF RunDoes, Awaited, Results, Submitted
  <2> QED
    BY <2>1, <2>2
<1>6. following'.basis_list # <<>> => Submitted'
  BY <1>1 DEF RunDoes, Results, Submitted
<1> QED
  BY <1>1, <1>2, <1>4, <1>5, <1>6 DEF Results

\* The submission of the session still waits when its run submits the result.
LEMMA SomebodyWaits ==
    ASSUME OInv, NEW r \in Runs, run[r].pc = "submitting"
    PROVE  \E w \in Waits : wait[w].pc \in {"spawned", "waiting", "woken"}
<1>1. RunSession(r) /\ session # 0 /\ run[r].session = session
  BY InSession DEF OInv, Sessions
<1>2. Submitted
  BY <1>1 DEF OInv, Results, Awaited, RunSession, Exchanging
<1>3. PICK w \in Waits : wait[w].session = session
  BY <1>2 DEF Submitted
<1>4. wait[w].pc \in {"idle", "spawned", "waiting", "woken", "returned", "conflict"}
  BY DEF OInv, IInv, WaitsOK, Wait
<1>5. wait[w].pc # "idle" /\ wait[w].pc # "conflict"
  BY <1>1, <1>3 DEF OInv, Sessions, WaitSession, Results
<1>6. wait[w].pc # "returned"
  <2>1. SUFFICES ASSUME wait[w].pc = "returned" PROVE FALSE
    OBVIOUS
  <2>2. PICK s \in Runs : run[s].pc = "done" /\ run[s].session = session
    BY <1>3, <2>1 DEF OInv, Results, ResultsAgree
  <2>3. s = r
    BY <1>1, <2>2 DEF OInv, Sessions, OnceASession
  <2> QED
    BY <2>2, <2>3
<1> QED
  BY <1>4, <1>5, <1>6

LEMMA SubmitResultResults ==
    ASSUME OInv, NEW r \in Runs, SubmitResult(r) PROVE WaitsGoOn /\ Results'
<1>1. /\ RunDoes(r) /\ IndexList(r)' = IndexList(r) /\ run'[r].pc = "done"
      /\ following'.n_matching_bits = Cardinality(IndexList(r))
  BY SubmitResultDoes
<1>2. run[r].pc = "submitting" /\ wait' = WaitersWoken /\ result_event' = TRUE
  BY DEF SubmitResult
<1>3. wait \in [Waits -> Wait] /\ RunsOK
  BY DEF OInv, IInv, WaitsOK
<1>4. /\ WaitsGoOn
      /\ \A w \in Waits : /\ wait'[w].pc # "waiting" /\ wait'[w].bits = wait[w].bits
                          /\ wait'[w].pc = IF wait[w].pc = "waiting" THEN "woken" ELSE wait[w].pc
  BY <1>2, <1>3, WaitersGo DEF WaitsGoOn
<1>5. Results /\ UNCHANGED session /\ following'.basis_list = following.basis_list
  BY <1>1 DEF OInv, RunDoes
<1>6. following'.n_matching_bits # -1
  BY <1>1, <1>3, IndexesAreCounted, QKDAssumption
<1>7. Completed(r, following.n_matching_bits)'
  BY <1>1, <1>5 DEF Completed, RunDoes
<1>8. \E w \in Waits : wait'[w].pc \in {"spawned", "woken"}
  BY <1>2, <1>4, SomebodyWaits
<1>9. \A w \in Waits : wait'[w].pc # "conflict"
  BY <1>4, <1>5 DEF Results
<1>10. (following'.basis_list # <<>> => Submitted') /\ (Submitted => Submitted')
  BY <1>1, <1>4, <1>5 DEF Results, RunDoes, WaitsGoOn, Submitted
<1>11. ASSUME NEW s \in Runs, Awaited(s)' PROVE Submitted'
  <2>1. CASE s = r
    BY <1>1, <1>10, <1>11, <2>1 DEF RunDoes
  <2>2. CASE s # r
    BY <1>1, <1>5, <1>10, <1>11, <2>2 DEF RunDoes, Awaited, Results
  <2> QED
    BY <2>1, <2>2
<1>12. ASSUME NEW w \in Waits, wait'[w].pc = "returned"
       PROVE  \E s \in Runs : /\ run'[s].pc = "done" /\ run'[s].session = wait'[w].session
                             /\ wait'[w].bits = Cardinality(IndexList(s)')
  <2>1. wait[w].pc = "returned" /\ wait'[w].session = wait[w].session /\ wait'[w].bits = wait[w].bits
    BY <1>4, <1>12 DEF WaitsGoOn
  <2>2. PICK s \in Runs : /\ run[s].pc = "done" /\ run[s].session = wait[w].session
                          /\ wait[w].bits = Cardinality(IndexList(s))
    BY <1>5, <2>1 DEF Results, ResultsAgree
  <2> QED
    BY <1>1, <2>1, <2>2, DoneStays
<1>13. ResultsAgree'
  BY <1>12 DEF ResultsAgree
<1> QED
  BY <1>4, <1>5, <1>6, <1>7, <1>8, <1>9, <1>10, <1>11, <1>13 DEF Results

LEMMA RunKeeps ==
    ASSUME OInv, OnceASession', IInv', NEW r \in Runs,
           SubmitBasisListLeader(r) \/ QKD(r) \/ RunStep(r),
           Playing' # Playing => \A x \in Resets : reset[x].pc \in {"idle", "done"}
    PROVE  OInv'
<1>1. Calm
  <2>1. CASE SubmitBasisListLeader(r) \/ QKD(r)
    <3>1. run[r].pc = "idle" /\ run'[r].pc # "idle"
      <4>1. CASE SubmitBasisListLeader(r)
        <5>1. run \in [Runs -> Run] /\ session \in Nat
          BY DEF OInv, IInv, RunsOK, OthersOK
        <5>2. PICK pc \in RunPcs : pc = Poll /\ pc # "idle"
          BY Pcs
        <5>3. run' = [run EXCEPT ![r].pc = pc, ![r].session = session]
          BY <4>1, <5>2 DEF SubmitBasisListLeader
        <5>4. run'[r].pc = pc
          BY <5>1, <5>3, RunSubmitted
        <5> QED
          BY <4>1, <5>2, <5>4 DEF SubmitBasisListLeader
      <4>2. CASE QKD(r)
        BY <4>2, QKDDoes DEF QKD, RunDoes
      <4> QED
        BY <2>1, <4>1, <4>2
    <3>2. Playing' # Playing
      BY <3>1 DEF Playing
    <3> QED
      BY <3>2, PlayIsCalm DEF OInv
  <2>2. CASE RunStep(r)
    <3>1. run[r].pc \in Polling \cup Exchanging
      BY <2>2 DEF RunStep, IsFollowerReady, PollAnswered, PauseOver, SingleBit, ChooseBit,
                  MeasureCorrelation, CountReceived, RequestBasisList, BasisListReceived,
                  SubmitResult, Polling, Exchanging
    <3>2. ~NobodyPlays
      BY <3>1 DEF NobodyPlays, Polling, Exchanging, Ended
    <3> QED
      BY <3>2, PlayIsCalm DEF OInv
  <2> QED
    BY <2>1, <2>2
<1>2. CASE SubmitResult(r)
  <2>1. /\ RunDoes(r) /\ run[r].pc = "submitting" /\ run[r].pc \in Exchanging
    BY <1>2, SubmitResultDoes DEF SubmitResult, Exchanging
  <2>2. WaitsGoOn /\ Results'
    BY <1>2, SubmitResultResults
  <2>3. role["follower"] # "INDEPENDENT"
    <3>1. RunSession(r)
      BY DEF OInv, Sessions
    <3>2. Awaited(r)
      BY <2>1, <3>1 DEF Awaited, RunSession
    <3> QED
      BY <3>2 DEF OInv, Results, Submitted
  <2> QED
    BY <1>1, <2>1, <2>2, <2>3, RunDoesApart, RunDoesSessions, RunDoesClean, RunDoesOrders,
       RunDoesKeys DEF OInv
<1>3. CASE ~SubmitResult(r)
  <2>1. RunDoes(r)
    BY <1>1, <1>3, SubmitBasisListLeaderDoes, QKDDoes, IsFollowerReadyDoes, PollAnsweredDoes,
       PauseOverDoes, SingleBitDoes, ChooseBitDoes, MeasureDoes, CountReceivedDoes,
       RequestBasisListDoes, BasisListReceivedDoes
       DEF RunStep
  <2>2. UNCHANGED <<result_event, wait>> /\ following'.n_matching_bits = following.n_matching_bits
    <3>1. following \in Following
      BY DEF OInv, IInv, FollowingOK
    <3>2. CASE SingleBit(r)
      BY <3>1, <3>2 DEF SingleBit, Following
    <3>3. CASE RequestBasisList(r)
      BY <3>1, <3>3 DEF RequestBasisList, Following
    <3>4. CASE ~SingleBit(r) /\ ~RequestBasisList(r)
      BY <1>3, <3>4 DEF RunStep, SubmitBasisListLeader, QKD, IsFollowerReady, PollAnswered,
         PauseOver, PollUnchanged, ChooseBit, MeasureCorrelation, CountReceived, BasisListReceived
    <3> QED
      BY <3>2, <3>3, <3>4
  <2>3. WaitsGoOn
    BY <2>2 DEF WaitsGoOn
  <2> QED
    BY <1>1, <2>1, <2>2, <2>3, RunDoesApart, RunDoesSessions, RunDoesClean, RunDoesOrders,
       RunDoesKeys, RunDoesResults DEF OInv
<1> QED
  BY <1>2, <1>3

-----------------------------------------------------------------------------
(* A step of a submission of the follower. *)

\* The parts of the invariant that only the lists, the runs and the session are in.
LEMMA KeysUnchanged ==
    ASSUME OInv, UNCHANGED <<run, session, position>>, leading'.bit_list = leading.bit_list,
           following'.requests = following.requests
    PROVE  Keys'
<1>1. ASSUME NEW r \in Runs PROVE Exchange(r)' /\ Kept(r)'
  <2>1. Exchange(r) /\ Kept(r) /\ IndexList(r)' = IndexList(r)
    BY DEF OInv, Keys, IndexList
  <2> QED
    BY <2>1 DEF Exchange, Kept, Asked, Chosen, Counted
<1>2. NotBegun' = NotBegun
  BY DEF NotBegun
<1> QED
  BY <1>1, <1>2 DEF OInv, Keys

LEMMA ResultsKept ==
    ASSUME OInv, UNCHANGED run, NEW w \in Waits, wait[w].pc = "returned"
    PROVE  \E r \in Runs : /\ run'[r].pc = "done" /\ run'[r].session = wait[w].session
                          /\ wait[w].bits = Cardinality(IndexList(r)')
<1>1. PICK r \in Runs : /\ run[r].pc = "done" /\ run[r].session = wait[w].session
                        /\ wait[w].bits = Cardinality(IndexList(r))
  BY DEF OInv, Results, ResultsAgree
<1>2. IndexList(r)' = IndexList(r)
  BY DEF IndexList
<1> QED
  BY <1>1, <1>2

\* What a submission's step does: a result that is returned is the one that is stored.
WaitDoes(w) ==
    /\ \A v \in Waits : v # w => wait'[v] = wait[v]
    /\ wait'[w].session = session
    /\ \/ wait'[w].pc \in {"spawned", "waiting"} /\ result_event' = result_event /\ ~result_event
       \/ /\ wait[w].pc # "idle"
          /\ wait'[w].pc = "woken" /\ result_event' = result_event
          /\ following.n_matching_bits # -1
       \/ /\ wait'[w].pc = "returned" /\ wait'[w].bits = following.n_matching_bits
          /\ following.n_matching_bits # -1 /\ result_event' = FALSE
    /\ following'.n_matching_bits = following.n_matching_bits
    /\ following'.requests = following.requests
    /\ \/ following'.basis_list = following.basis_list
       \/ role["follower"] # "INDEPENDENT"
    /\ session # 0
    /\ WaitUnchanged

LEMMA SubmitBasisListFollowerDoes ==
    ASSUME OInv, NEW w \in Waits, SubmitBasisListFollower(w) PROVE WaitDoes(w)
<1>1. following \in Following /\ wait \in [Waits -> Wait] /\ session \in Nat
  BY DEF OInv, IInv, FollowingOK, WaitsOK, OthersOK
<1>2. PICK list \in ChosenLists : following' = [following EXCEPT !.basis_list = list]
  BY DEF SubmitBasisListFollower
<1>3. list \in BasisLists
  BY <1>2, QKDAssumption
<1>4. /\ following'.basis_list = list /\ following'.requests = following.requests
      /\ following'.n_matching_bits = following.n_matching_bits
  BY <1>1, <1>2, <1>3 DEF Following
<1>5. role["follower"] # "INDEPENDENT" /\ session # 0 /\ WaitUnchanged
  BY DEF SubmitBasisListFollower, OInv, Sessions, Nodes
<1>6. CASE /\ following.n_matching_bits = -1 /\ UNCHANGED result_event
           /\ wait' = [wait EXCEPT ![w].pc = "spawned", ![w].session = session]
  <2>1. /\ \A v \in Waits : v # w => wait'[v] = wait[v]
        /\ wait'[w].session = session /\ wait'[w].pc = "spawned"
    BY <1>1, <1>6 DEF Wait
  <2>2. ~result_event
    BY <1>6 DEF OInv, Results
  <2> QED
    BY <1>4, <1>5, <1>6, <2>1, <2>2 DEF WaitDoes
<1>7. CASE /\ following.n_matching_bits # -1 /\ result_event' = FALSE
           /\ wait' = [wait EXCEPT ![w] = [pc |-> "returned", session |-> session,
                                          bits |-> following.n_matching_bits]]
  <2>1. /\ \A v \in Waits : v # w => wait'[v] = wait[v]
        /\ wait'[w].session = session /\ wait'[w].pc = "returned"
        /\ wait'[w].bits = following.n_matching_bits
    BY <1>1, <1>7
  <2> QED
    BY <1>4, <1>5, <1>7, <2>1 DEF WaitDoes
<1> QED
  BY <1>6, <1>7 DEF SubmitBasisListFollower

LEMMA WaitStepDoes ==
    ASSUME OInv, Calm, NEW w \in Waits, WaitStep(w) PROVE WaitDoes(w)
<1>1. wait \in [Waits -> Wait] /\ WaitSession(w) /\ Results /\ session \in Nat
  BY DEF OInv, IInv, WaitsOK, Sessions, OthersOK
<1>2. following' = following /\ WaitUnchanged /\ ~cancel_event["follower"]
  BY DEF WaitStep, FollowerWaits, FollowerResumes, Calm, Nodes
<1>3. wait[w].session = session /\ session # 0
  BY <1>1 DEF WaitStep, FollowerWaits, FollowerResumes, WaitSession
<1>4. CASE FollowerWaits(w)
  <2>1. PICK pc \in {"woken", "waiting"} :
           /\ wait' = [wait EXCEPT ![w].pc = pc]
           /\ pc = "woken" <=> result_event
    BY <1>2, <1>4 DEF FollowerWaits
  <2>2. /\ \A v \in Waits : v # w => wait'[v] = wait[v]
        /\ wait'[w].session = session /\ wait'[w].pc = pc
    BY <1>1, <1>3, <2>1 DEF Wait
  <2>3. result_event' = result_event /\ wait[w].pc = "spawned"
    BY <1>4 DEF FollowerWaits
  <2>4. result_event => following.n_matching_bits # -1
    BY <1>1 DEF Results
  <2> QED
    BY <1>2, <1>3, <2>1, <2>2, <2>3, <2>4 DEF WaitDoes
<1>5. CASE FollowerResumes(w)
  <2>1. /\ wait' = [wait EXCEPT ![w].pc = "returned", ![w].bits = following.n_matching_bits]
        /\ result_event' = FALSE /\ wait[w].pc = "woken"
    BY <1>2, <1>5 DEF FollowerResumes
  <2>2. /\ \A v \in Waits : v # w => wait'[v] = wait[v]
        /\ wait'[w].session = session /\ wait'[w].pc = "returned"
        /\ wait'[w].bits = following.n_matching_bits
    BY <1>1, <1>3, <2>1 DEF Wait
  <2>3. following.n_matching_bits # -1
    BY <1>1, <2>1 DEF Results
  <2> QED
    BY <1>2, <1>3, <2>1, <2>2, <2>3 DEF WaitDoes
<1> QED
  BY <1>4, <1>5 DEF WaitStep

LEMMA WaitDoesKeeps ==
    ASSUME OInv, Calm, IInv', OnceASession', NEW w \in Waits, WaitDoes(w) PROVE OInv'
<1>1. UNCHANGED <<role, cancel_event, leading, question_order, position, run, fetch, reset, session>>
  BY DEF WaitDoes, WaitUnchanged
<1>2. Apart'
  BY <1>1 DEF Calm, Apart, Ongoing
<1>3. Sessions'
  <2>1. ASSUME NEW v \in Waits PROVE WaitSession(v)'
    <3>1. WaitSession(v) /\ session \in Nat
      BY DEF OInv, IInv, Sessions, OthersOK
    <3>2. CASE v = w
      BY <1>1, <3>1, <3>2 DEF WaitDoes, WaitSession
    <3>3. CASE v # w
      BY <1>1, <3>1, <3>3 DEF WaitDoes, WaitSession
    <3> QED
      BY <3>2, <3>3
  <2>2. ASSUME NEW r \in Runs PROVE RunSession(r)'
    BY <1>1 DEF OInv, Sessions, RunSession
  <2> QED
    BY <1>1, <2>1, <2>2 DEF OInv, Sessions
<1>4. Clean'
  BY <1>1 DEF OInv, Clean, WaitDoes
<1>5. OrdersAgree'
  BY <1>1 DEF OInv, OrdersAgree
<1>6. Keys'
  BY <1>1, KeysUnchanged DEF WaitDoes
<1>7. Results'
  <2>1. ASSUME following.n_matching_bits # -1
        PROVE  \E r \in Runs : /\ Completed(r, following.n_matching_bits)'
                              /\ run'[r].pc = "done" /\ run'[r].session = session
                              /\ following.n_matching_bits = Cardinality(IndexList(r)')
    <3>1. PICK r \in Runs : Completed(r, following.n_matching_bits)
      BY <2>1 DEF OInv, Results
    <3>2. IndexList(r)' = IndexList(r)
      BY <1>1 DEF IndexList
    <3> QED
      BY <1>1, <3>1, <3>2 DEF Completed, WaitDoes
  <2>2. ResultsAgree'
    <3>1. ASSUME NEW v \in Waits, wait'[v].pc = "returned"
          PROVE  \E r \in Runs : /\ run'[r].pc = "done" /\ run'[r].session = wait'[v].session
                                /\ wait'[v].bits = Cardinality(IndexList(r)')
      <4>1. CASE v = w
        BY <2>1, <3>1, <4>1 DEF WaitDoes
      <4>2. CASE v # w
        BY <1>1, <3>1, <4>2, ResultsKept DEF WaitDoes
      <4> QED
        BY <4>1, <4>2
    <3> QED
      BY <3>1 DEF ResultsAgree
  <2>3. following'.n_matching_bits # -1 =>
            \E r \in Runs : Completed(r, following.n_matching_bits)'
    BY <2>1 DEF WaitDoes
  <2>4. result_event' => /\ following'.n_matching_bits # -1
                         /\ \E v \in Waits : wait'[v].pc \in {"spawned", "woken"}
    BY DEF OInv, Results, WaitDoes
  <2>5. \A v \in Waits : /\ wait'[v].pc = "woken" => following'.n_matching_bits # -1
                         /\ wait'[v].pc # "conflict"
    BY DEF OInv, Results, WaitDoes
  <2>6. (following'.basis_list # <<>> => Submitted') /\ (Submitted => Submitted')
    BY <1>1 DEF OInv, Results, WaitDoes, Submitted
  <2>7. \A r \in Runs : Awaited(r)' => Submitted'
    BY <1>1, <2>6 DEF OInv, Results, Awaited
  <2> QED
    BY <1>1, <2>2, <2>3, <2>4, <2>5, <2>6, <2>7 DEF Results
<1> QED
  BY <1>2, <1>3, <1>4, <1>5, <1>6, <1>7 DEF OInv

LEMMA WaitKeeps ==
    ASSUME OInv, IInv', OnceASession', NEW w \in Waits,
           SubmitBasisListFollower(w) \/ WaitStep(w),
           Playing' # Playing => \A x \in Resets : reset[x].pc \in {"idle", "done"}
    PROVE  OInv'
<1>1. CASE SubmitBasisListFollower(w)
  <2>1. wait[w].pc = "idle" /\ wait'[w].pc # "idle" /\ WaitDoes(w)
    BY <1>1, SubmitBasisListFollowerDoes DEF SubmitBasisListFollower, WaitDoes
  <2>2. Playing' # Playing
    BY <2>1 DEF Playing
  <2>3. Calm
    BY <2>2, PlayIsCalm DEF OInv
  <2> QED
    BY <2>1, <2>3, WaitDoesKeeps
<1>2. CASE WaitStep(w)
  <2>1. ~NobodyPlays
    BY <1>2 DEF NobodyPlays, WaitStep, FollowerWaits, FollowerResumes
  <2>2. Calm
    BY <2>1, PlayIsCalm DEF OInv
  <2> QED
    BY <1>2, <2>2, WaitStepDoes, WaitDoesKeeps
<1> QED
  BY <1>1, <1>2

-----------------------------------------------------------------------------
(* The question order. *)

LEMMA FetchKeeps ==
    ASSUME OInv, IInv', NEW f \in Fetches,
           (\E n \in Nodes : RequestQuestionOrder(f, n)) \/ FetchStep(f),
           Playing' # Playing => \A x \in Resets : reset[x].pc \in {"idle", "done"}
    PROVE  OInv'
<1>1. /\ UNCHANGED <<role, cancel_event, result_event, leading, following, position, run, wait,
                     reset, session>>
      /\ fetch \in [Fetches -> Fetch]
      /\ question_order \in [Nodes -> Orders \cup {NoOrder}]
  BY DEF RequestQuestionOrder, FetchStep, LeaderAnswersOrder, OrderFetched, FetchUnchanged,
         OInv, IInv, OrdersOK
<1>2. Calm
  <2>1. CASE fetch[f].pc = "idle"
    <3>1. fetch'[f].pc # "idle"
      BY <1>1, <2>1
         DEF RequestQuestionOrder, FetchStep, LeaderAnswersOrder, OrderFetched, Fetch
    <3>2. Playing' # Playing
      BY <2>1, <3>1 DEF Playing
    <3> QED
      BY <3>2, PlayIsCalm DEF OInv
  <2>2. CASE fetch[f].pc # "idle"
    <3>1. ~NobodyPlays
      BY <2>2 DEF NobodyPlays, RequestQuestionOrder, FetchStep, LeaderAnswersOrder, OrderFetched
    <3> QED
      BY <3>1, PlayIsCalm DEF OInv
  <2> QED
    BY <2>1, <2>2
<1>3. Apart'
  BY <1>1, <1>2 DEF Calm, Apart, Ongoing
<1>4. Sessions'
  BY <1>1 DEF OInv, Sessions, RunSession, WaitSession, OnceASession, SubmittedOnce
<1>5. Keys'
  BY <1>1, KeysUnchanged
<1>6. Results'
  <2>1. \A r \in Runs : IndexList(r)' = IndexList(r)
    BY <1>1 DEF IndexList
  <2> QED
    BY <1>1, <2>1 DEF OInv, Results, Submitted, Completed, Awaited, ResultsAgree
<1>7. OrdersAgree /\ Clean
  BY DEF OInv
<1>8. CASE RequestQuestionOrder(f, "follower")
  <2>1. /\ question_order' = question_order /\ role["follower"] = "FOLLOWER"
        /\ \A g \in Fetches : g # f => fetch'[g] = fetch[g]
        /\ fetch'[f].pc \in {"fetching", "returned"}
    BY <1>1, <1>8 DEF RequestQuestionOrder, OInv, IInv, RolesOK, Role, Nodes, Fetch
  <2>2. OrdersAgree'
    BY <1>1, <1>7, <2>1 DEF OrdersAgree
  <2> QED
    BY <1>1, <1>3, <1>4, <1>5, <1>6, <1>7, <2>1, <2>2 DEF OInv, Clean
<1>9. ASSUME role["leader"] = "LEADER", NEW o \in Orders, LeadersOrder(o),
             question_order' = [question_order EXCEPT !["leader"] = o],
             fetch' = [fetch EXCEPT ![f] = [pc |-> "fetched", order |-> o]]
                => fetch[f].pc = "fetching",
             \/ fetch' = [fetch EXCEPT ![f] = [pc |-> "fetched", order |-> o]]
             \/ fetch' = [fetch EXCEPT ![f] = [pc |-> "returned", order |-> o]]
      PROVE  OInv'
  <2>1. /\ question_order'["leader"] = o
        /\ question_order'["follower"] = question_order["follower"]
        /\ \A g \in Fetches : g # f => fetch'[g] = fetch[g]
        /\ fetch'[f].order = o /\ fetch'[f].pc \in {"fetched", "returned"}
        /\ fetch'[f].pc = "fetched" => fetch[f].pc = "fetching"
    BY <1>1, <1>9 DEF Nodes
  <2>2. o # NoOrder /\ (question_order["leader"] # NoOrder => question_order["leader"] = o)
    BY <1>9, QKDAssumption DEF LeadersOrder
  <2>3. Clean'
    BY <1>1, <1>7, <1>9, <2>1 DEF Clean, Nodes
  <2>4. ASSUME NEW g \in Fetches
        PROVE  /\ fetch'[g].pc \in {"fetching", "fetched"} => role'["follower"] = "FOLLOWER"
               /\ fetch'[g].pc = "fetched" =>
                     /\ role'["leader"] = "LEADER"
                     /\ fetch'[g].order \in Orders
                     /\ question_order'["leader"] = fetch'[g].order
    BY <1>1, <1>7, <1>9, <2>1, <2>2, QKDAssumption DEF OrdersAgree
  <2>5. question_order'["follower"] # NoOrder /\ (\A n \in Nodes : role'[n] = Role(n)) =>
            question_order'["leader"] = question_order'["follower"]
    BY <1>1, <1>7, <2>1, <2>2 DEF OrdersAgree
  <2>6. OrdersAgree'
    BY <2>4, <2>5 DEF OrdersAgree
  <2> QED
    BY <1>3, <1>4, <1>5, <1>6, <2>3, <2>6 DEF OInv
<1>10. CASE RequestQuestionOrder(f, "leader")
  <2>1. role["leader"] = "LEADER"
    BY <1>10 DEF RequestQuestionOrder, OInv, IInv, RolesOK, Role, Nodes
  <2>2. PICK o \in Orders :
           /\ LeadersOrder(o)
           /\ question_order' = [question_order EXCEPT !["leader"] = o]
           /\ fetch' = [fetch EXCEPT ![f] = [pc |-> "returned", order |-> o]]
    BY <1>10 DEF RequestQuestionOrder
  <2>3. fetch'[f].pc = "returned"
    BY <1>1, <2>2
  <2> QED
    BY <1>1, <1>9, <2>1, <2>2, <2>3
<1>11. CASE LeaderAnswersOrder(f)
  <2>1. CASE role["leader"] = "INDEPENDENT"
    <3>1. /\ question_order' = question_order
          /\ \A g \in Fetches : g # f => fetch'[g] = fetch[g]
          /\ fetch'[f].pc = "failed"
      BY <1>1, <1>11, <2>1 DEF LeaderAnswersOrder, Fetch
    <3>2. OrdersAgree'
      BY <1>1, <1>7, <3>1 DEF OrdersAgree
    <3> QED
      BY <1>1, <1>3, <1>4, <1>5, <1>6, <1>7, <3>1, <3>2 DEF OInv, Clean
  <2>2. CASE role["leader"] # "INDEPENDENT"
    <3>1. role["leader"] = "LEADER" /\ fetch[f].pc = "fetching"
      BY <1>11, <2>2 DEF LeaderAnswersOrder
    <3>2. PICK o \in Orders :
             /\ LeadersOrder(o)
             /\ question_order' = [question_order EXCEPT !["leader"] = o]
             /\ fetch' = [fetch EXCEPT ![f] = [pc |-> "fetched", order |-> o]]
      BY <1>11, <2>2 DEF LeaderAnswersOrder
    <3> QED
      BY <1>9, <3>1, <3>2
  <2> QED
    BY <2>1, <2>2
<1>12. CASE OrderFetched(f)
  <2>1. /\ fetch[f].pc = "fetched" /\ fetch[f].order \in Orders
        /\ role["follower"] = "FOLLOWER" /\ question_order["leader"] = fetch[f].order
    BY <1>7, <1>12 DEF OrdersAgree, OrderFetched
  <2>2. /\ question_order'["leader"] = question_order["leader"]
        /\ question_order'["follower"] = fetch[f].order
        /\ \A g \in Fetches : g # f => fetch'[g] = fetch[g]
        /\ fetch'[f].pc = "returned"
    BY <1>1, <1>12 DEF OrderFetched, Nodes, Fetch
  <2>3. OrdersAgree'
    BY <1>1, <1>7, <2>1, <2>2 DEF OrdersAgree
  <2>4. Clean'
    BY <1>1, <1>7, <2>1, <2>2 DEF Clean, Nodes
  <2> QED
    BY <1>3, <1>4, <1>5, <1>6, <2>3, <2>4 DEF OInv
<1> QED
  BY <1>8, <1>10, <1>11, <1>12 DEF FetchStep, Nodes

-----------------------------------------------------------------------------
(* Pairing and resets, while nobody plays. *)

LEMMA NobodyWaits ==
    ASSUME OInv, NobodyPlays
    PROVE  wait \in [Waits -> Wait] /\ WaitersWoken = wait /\ ~result_event
<1>1. wait \in [Waits -> Wait]
  BY DEF OInv, IInv, WaitsOK
<1>2. \A w \in Waits : wait[w].pc \notin {"waiting", "spawned", "woken"}
  BY DEF NobodyPlays
<1>3. WaitersWoken = wait
  BY <1>1, <1>2 DEF WaitersWoken
<1> QED
  BY <1>1, <1>2, <1>3 DEF OInv, Results

\* What is left of the invariant when neither the runs nor the submissions change.
QuietDoes ==
    /\ UNCHANGED <<run, wait, fetch, position, result_event>>
    /\ session' \in {session, session + 1}
    /\ \A n \in Nodes : role'[n] # "INDEPENDENT" => session' # 0
    /\ question_order'["follower"] # NoOrder /\ (\A n \in Nodes : role'[n] = Role(n)) =>
           question_order'["leader"] = question_order'["follower"]
    /\ \/ following' = following /\ session' = session
       \/ /\ following'.n_matching_bits = -1
          /\ following'.basis_list = <<>> /\ following'.requests = <<>>
    /\ leading'.bit_list = <<>> \/ (leading' = leading /\ session' = session)

\* What is left of the invariant when neither the runs nor the submissions change.
LEMMA QuietKeeps ==
    ASSUME OInv, IInv', NobodyPlays, Apart', Clean', QuietDoes
    PROVE  OInv'
<1> USE DEF QuietDoes
<1>1. /\ session \in Nat /\ session' \in Nat /\ session <= session' /\ RunsOK
      /\ \A r \in Runs : run[r].pc \notin Polling \cup Exchanging
  BY DEF OInv, IInv, OthersOK, NobodyPlays, Polling, Exchanging, Ended
<1>2. Sessions'
  <2>1. ASSUME NEW r \in Runs PROVE RunSession(r)'
    <3>1. RunSession(r)
      BY DEF OInv, Sessions
    <3>2. run[r].session \in Nat
      BY <1>1, RunHolds DEF RunsOK
    <3> QED
      BY <1>1, <3>1, <3>2 DEF RunSession, Polling
  <2>2. ASSUME NEW w \in Waits PROVE WaitSession(w)'
    <3>1. WaitSession(w) /\ wait[w].pc \notin {"spawned", "waiting", "woken"}
      BY DEF OInv, Sessions, NobodyPlays
    <3>2. wait[w].session \in Nat
      BY NobodyWaits DEF Wait
    <3> QED
      BY <1>1, <3>1, <3>2 DEF WaitSession
  <2>3. OnceASession'
    BY DEF OInv, Sessions, OnceASession, SubmittedOnce
  <2> QED
    BY <2>1, <2>2, <2>3 DEF Sessions
<1>3. OrdersAgree'
  BY DEF OrdersAgree, NobodyPlays
<1>4. \A r \in Runs : IndexList(r)' = IndexList(r)
  BY DEF IndexList
<1>5. Results'
  <2>1. ASSUME following'.n_matching_bits # -1
        PROVE  \E r \in Runs : Completed(r, following.n_matching_bits)'
    BY <1>4, <2>1 DEF OInv, Results, Completed
  <2>2. ~result_event' /\ \A w \in Waits : wait'[w].pc \notin {"woken", "conflict"}
    BY NobodyWaits DEF OInv, Results, NobodyPlays
  <2>3. following'.basis_list # <<>> => Submitted'
    BY DEF OInv, Results, Submitted, Clean
  <2>4. \A r \in Runs : ~Awaited(r)'
    BY <1>1 DEF Awaited, Polling
  <2>5. ResultsAgree'
    BY <1>4 DEF OInv, Results, ResultsAgree
  <2> QED
    BY <2>1, <2>2, <2>3, <2>4, <2>5 DEF Results
<1>6. Keys'
  <2>1. ASSUME NEW r \in Runs PROVE Exchange(r)' /\ Kept(r)'
    <3>1. /\ Kept(r) /\ Fits(run[r]) /\ IndexList(r)' = IndexList(r)
          /\ run[r].pc \notin Polling \cup Exchanging
      BY <1>1, <1>4 DEF OInv, Keys, RunsOK
    <3>2. Exchange(r)'
      BY <3>1 DEF Exchange, Exchanging
    <3>3. Kept(r)'
      BY <3>1 DEF Kept, Fits, Exchanging
    <3> QED
      BY <3>2, <3>3
  <2>2. ASSUME NotBegun' PROVE following'.requests = <<>> /\ leading'.bit_list = <<>>
    <3>1. session' = session => NotBegun
      BY <2>2 DEF NotBegun
    <3> QED
      BY <3>1 DEF OInv, Keys
  <2> QED
    BY <2>1, <2>2 DEF Keys
<1> QED
  BY <1>2, <1>3, <1>5, <1>6 DEF OInv

LEMMA LocalResetQuiet ==
    ASSUME OInv, IInv', NobodyPlays, Apart', NEW n \in Nodes, LocalReset(n), ResetUnchanged
    PROVE  OInv'
<1>1. /\ role'[n] = "INDEPENDENT" /\ question_order'[n] = NoOrder
      /\ \A m \in Nodes : m # n => role'[m] = role[m] /\ question_order'[m] = question_order[m]
  BY DEF LocalReset, OInv, IInv, RolesOK, OrdersOK
<1>2. /\ wait' = wait
      /\ n = "leader" => /\ following' = following
                         /\ leading' = [basis_list |-> <<>>, bit_list |-> <<>>]
      /\ n = "follower" => /\ leading' = leading
                           /\ following' = [basis_list |-> <<>>, index |-> 0, requests |-> <<>>,
                                            n_matching_bits |-> -1]
  BY NobodyWaits DEF LocalReset
<1>3. Clean'
  BY <1>1, <1>2 DEF OInv, Clean, Nodes, ResetUnchanged
<1>4. ~\A m \in Nodes : role'[m] = Role(m)
  BY <1>1 DEF Role
<1>5. \A m \in Nodes : role'[m] # "INDEPENDENT" => session' # 0
  BY <1>1 DEF OInv, Sessions, ResetUnchanged
<1>6. QuietDoes
  BY <1>2, <1>4, <1>5 DEF ResetUnchanged, Nodes, QuietDoes
<1> QED
  BY <1>3, <1>6, QuietKeeps

LEMMA SignalQuiet ==
    ASSUME OInv, IInv', NobodyPlays, Apart', ResetUnchanged,
           UNCHANGED <<role, leading, following, question_order, wait>>
    PROVE  OInv'
<1>1. Clean' /\ \A m \in Nodes : role'[m] # "INDEPENDENT" => session' # 0
  BY DEF OInv, Clean, Sessions, ResetUnchanged
<1>2. question_order'["follower"] # NoOrder /\ (\A n \in Nodes : role'[n] = Role(n)) =>
          question_order'["leader"] = question_order'["follower"]
  BY DEF OInv, OrdersAgree
<1>3. QuietDoes
  BY <1>1, <1>2 DEF ResetUnchanged, QuietDoes
<1> QED
  BY <1>1, <1>3, QuietKeeps

LEMMA PairQuiet == ASSUME OInv, IInv', Pair, Settled PROVE OInv'
<1>1. NobodyPlays /\ \A x \in Resets : ~Ongoing(x)
  BY DEF Settled, NobodyPlays, Ongoing
<1>2. /\ following.requests = <<>> /\ following.basis_list = <<>> /\ following.n_matching_bits = -1
      /\ leading.bit_list = <<>> /\ \A n \in Nodes : question_order[n] = NoOrder
  BY DEF Pair, OInv, Clean, Nodes
<1>3. Apart'
  BY <1>1 DEF OInv, Apart, Pair, Ongoing
<1>4. session \in Nat /\ session' = session + 1 /\ session' # 0
  BY DEF OInv, IInv, OthersOK, Pair
<1>5. Clean'
  BY <1>2 DEF Clean, Pair, Role, Nodes
<1>6. QuietDoes
  BY <1>2, <1>4 DEF Pair, Nodes, QuietDoes
<1> QED
  BY <1>1, <1>3, <1>5, <1>6, QuietKeeps

LEMMA ResetKeeps ==
    ASSUME OInv, IInv', NEW x \in Resets, (\E n \in Nodes : ResetStart(x, n)) \/ ResetStep(x),
           Resetting' # Resetting => Settled
    PROVE  OInv'
<1>1. reset \in [Resets -> Reset] /\ cancel_event \in [Nodes -> BOOLEAN] /\ Apart
  BY DEF OInv, IInv, OthersOK, WaitsOK
<1>2. reset[x].node \in Nodes /\ Peer(reset[x].node) \in Nodes
  BY <1>1 DEF Reset, Peer, Nodes
<1>3. ASSUME NEW n \in Nodes, ResetStart(x, n) PROVE OInv'
  <2>1. /\ \A y \in Resets : y # x => reset'[y] = reset[y]
        /\ reset[x].pc = "idle" /\ reset'[x].pc # "idle"
    BY <1>1, <1>3 DEF ResetStart
  <2>2. Settled
    BY <2>1 DEF Resetting
  <2>3. NobodyPlays /\ NobodyPlays' /\ \A m \in Nodes : ~cancel_event[m]
    BY <1>1, <1>3, <2>2, NobodyWaits
       DEF Settled, NobodyPlays, Apart, ResetStart, ResetUnchanged, LocalReset
  <2>4. Apart'
    BY <1>1, <1>3, <2>3 DEF Apart, ResetStart, LocalReset
  <2> QED
    BY <1>3, <2>3, <2>4, LocalResetQuiet, SignalQuiet DEF ResetStart
<1>4. ASSUME ResetStep(x)
      PROVE  /\ NobodyPlays
             /\ \A y \in Resets : y # x => reset'[y] = reset[y]
             /\ reset'[x].node = reset[x].node
  <2>1. Ongoing(x)
    BY <1>4 DEF ResetStep, ProtocolCancelled, ProtocolCancelledClears, ResetFinish, Ongoing
  <2> QED
    BY <1>1, <1>4, <2>1 DEF Apart, ResetStep, ProtocolCancelled, ProtocolCancelledClears,
       ResetFinish, Reset
<1>5. CASE ProtocolCancelled(x)
  <2>1. /\ NobodyPlays /\ wait' = wait /\ reset[x].pc = "notifying" /\ reset'[x].pc = "sleeping"
        /\ \A n \in Nodes : n # Peer(reset[x].node) => cancel_event'[n] = cancel_event[n]
    BY <1>1, <1>4, <1>5, NobodyWaits DEF ProtocolCancelled, ResetStep, Reset
  <2>2. NobodyPlays'
    BY <1>5, <2>1 DEF NobodyPlays, ProtocolCancelled, ResetUnchanged
  <2>3. Apart'
    <3>1. ASSUME NEW n \in Nodes, cancel_event'[n]
          PROVE  \E y \in Resets : reset'[y].pc = "sleeping" /\ Peer(reset'[y].node) = n
      <4>1. CASE n = Peer(reset[x].node)
        BY <1>4, <1>5, <2>1, <4>1 DEF ResetStep
      <4>2. CASE n # Peer(reset[x].node)
        <5>1. PICK y \in Resets : reset[y].pc = "sleeping" /\ Peer(reset[y].node) = n
          BY <1>1, <2>1, <3>1, <4>2 DEF Apart
        <5> QED
          BY <1>4, <1>5, <2>1, <5>1 DEF ResetStep
      <4> QED
        BY <4>1, <4>2
    <3> QED
      BY <2>2, <3>1 DEF Apart
  <2> QED
    BY <1>5, <2>1, <2>3, SignalQuiet DEF ProtocolCancelled
<1>6. CASE ProtocolCancelledClears(x)
  <2>1. /\ NobodyPlays /\ ~cancel_event'[Peer(reset[x].node)]
        /\ \A n \in Nodes : n # Peer(reset[x].node) => cancel_event'[n] = cancel_event[n]
    BY <1>1, <1>2, <1>4, <1>6 DEF ProtocolCancelledClears, ResetStep
  <2>2. NobodyPlays'
    BY <1>6, <2>1 DEF NobodyPlays, ProtocolCancelledClears, ResetUnchanged
  <2>3. Apart'
    <3>1. ASSUME NEW n \in Nodes, cancel_event'[n]
          PROVE  \E y \in Resets : reset'[y].pc = "sleeping" /\ Peer(reset'[y].node) = n
      <4>1. PICK y \in Resets : reset[y].pc = "sleeping" /\ Peer(reset[y].node) = n
        BY <1>1, <2>1, <3>1 DEF Apart
      <4>2. y # x
        BY <2>1, <3>1, <4>1
      <4> QED
        BY <1>4, <1>6, <4>1, <4>2 DEF ResetStep
    <3> QED
      BY <2>2, <3>1 DEF Apart
  <2> QED
    BY <1>6, <2>1, <2>3, SignalQuiet DEF ProtocolCancelledClears
<1>7. CASE ResetFinish(x)
  <2>1. PICK m \in Nodes : m = reset[x].node
    BY <1>2
  <2>2. /\ NobodyPlays /\ LocalReset(m) /\ ResetUnchanged /\ reset[x].pc # "sleeping"
        /\ ~cancel_event'[m]
        /\ \A n \in Nodes : n # m => cancel_event'[n] = cancel_event[n]
    BY <1>1, <1>4, <1>7, <2>1 DEF ResetFinish, ResetStep, LocalReset
  <2>3. NobodyPlays'
    BY <2>2, NobodyWaits DEF NobodyPlays, LocalReset, ResetUnchanged
  <2>4. Apart'
    <3>1. ASSUME NEW n \in Nodes, cancel_event'[n]
          PROVE  \E y \in Resets : reset'[y].pc = "sleeping" /\ Peer(reset'[y].node) = n
      <4>1. PICK y \in Resets : reset[y].pc = "sleeping" /\ Peer(reset[y].node) = n
        BY <1>1, <2>2, <3>1 DEF Apart
      <4> QED
        BY <1>4, <1>7, <2>2, <4>1 DEF ResetStep
    <3> QED
      BY <2>3, <3>1 DEF Apart
  <2> QED
    BY <2>2, <2>4, LocalResetQuiet
<1> QED
  BY <1>3, <1>5, <1>6, <1>7 DEF ResetStep

LEMMA StreamQuiet == ASSUME OInv, IInv', NEW n \in Nodes, StreamClears(n) PROVE OInv'
<1>1. PICK x \in Resets : reset[x].pc = "sleeping"
  BY DEF StreamClears, OInv, Apart
<1>2. NobodyPlays
  BY <1>1 DEF OInv, Apart, Ongoing
<1>3. NobodyPlays'
  BY <1>2 DEF NobodyPlays, StreamClears, ResetUnchanged
<1>4. \A m \in Nodes : cancel_event'[m] => cancel_event[m]
  BY DEF StreamClears, OInv, IInv, WaitsOK
<1>5. Apart'
  BY <1>3, <1>4 DEF OInv, Apart, StreamClears
<1> QED
  BY <1>2, <1>5, SignalQuiet DEF StreamClears

-----------------------------------------------------------------------------
LEMMA InitOInv == Init => OInv
<1> SUFFICES ASSUME Init PROVE OInv
  OBVIOUS
<1>1. IInv
  BY InitIInv
<1>2. /\ \A r \in Runs : /\ run[r].pc = "idle" /\ run[r].session = 0 /\ run[r].counts = <<>>
                         /\ run[r].outcome = <<>>
      /\ \A w \in Waits : wait[w].pc = "idle" /\ wait[w].session = 0
      /\ \A f \in Fetches : fetch[f].pc = "idle"
      /\ \A x \in Resets : reset[x].pc = "idle"
      /\ \A n \in Nodes : role[n] = "INDEPENDENT" /\ ~cancel_event[n] /\ question_order[n] = NoOrder
      /\ following.basis_list = <<>> /\ following.requests = <<>> /\ following.n_matching_bits = -1
      /\ leading.bit_list = <<>> /\ session = 0 /\ ~result_event
  BY DEF Init
<1>3. Apart
  BY <1>2 DEF Apart, Ongoing
<1>4. Sessions
  BY <1>2 DEF Sessions, RunSession, WaitSession, OnceASession, SubmittedOnce, Polling, Exchanging
<1>5. Clean
  BY <1>2 DEF Clean, Nodes
<1>6. OrdersAgree
  BY <1>2 DEF OrdersAgree, Nodes
<1>7. Results
  BY <1>2 DEF Results, Awaited, Exchanging, ResultsAgree
<1>8. Keys
  BY <1>2 DEF Keys, Exchange, Kept, Polling
<1> QED
  BY <1>1, <1>3, <1>4, <1>5, <1>6, <1>7, <1>8 DEF OInv

LEMMA StandsStill == ASSUME OInv, UNCHANGED vars PROVE OInv'
<1>1. IInv' /\ Apart' /\ Sessions' /\ Clean' /\ OrdersAgree'
  <2>1. [Next]_vars
    OBVIOUS
  <2> QED
    BY <2>1, NextIInv
       DEF vars, OInv, Apart, Ongoing, NobodyPlays, Sessions, RunSession, WaitSession,
           OnceASession, SubmittedOnce, Clean, OrdersAgree
<1>2. Keys'
  BY KeysUnchanged DEF vars
<1>3. Results'
  <2>1. \A r \in Runs : IndexList(r)' = IndexList(r)
    BY DEF IndexList, vars
  <2> QED
    BY <2>1 DEF vars, OInv, Results, Submitted, Completed, Awaited, ResultsAgree
<1> QED
  BY <1>1, <1>2, <1>3 DEF OInv

LEMMA NextOInv == OInv /\ [OrderlyNext]_vars => OInv'
<1> SUFFICES ASSUME OInv, [OrderlyNext]_vars PROVE OInv'
  OBVIOUS
<1>1. CASE UNCHANGED vars
  BY <1>1, StandsStill
<1>2. CASE OrderlyNext
  <2>1. /\ Next /\ OnceASession' /\ (session' # session => Settled)
        /\ Resetting' # Resetting => Settled
        /\ Playing' # Playing => \A x \in Resets : reset[x].pc \in {"idle", "done"}
    BY <1>2 DEF OrderlyNext, SettledNext
  <2>2. IInv'
    BY <2>1, NextIInv DEF OInv
  <2>3. CASE Pair
    <3>1. session' # session
      BY <2>3 DEF Pair, OInv, IInv, OthersOK
    <3> QED
      BY <2>1, <2>2, <2>3, <3>1, PairQuiet
  <2>4. ASSUME NEW r \in Runs, SubmitBasisListLeader(r) \/ QKD(r) \/ RunStep(r) PROVE OInv'
    BY <2>1, <2>2, <2>4, RunKeeps
  <2>5. ASSUME NEW w \in Waits, SubmitBasisListFollower(w) \/ WaitStep(w) PROVE OInv'
    BY <2>1, <2>2, <2>5, WaitKeeps
  <2>6. ASSUME NEW f \in Fetches, (\E n \in Nodes : RequestQuestionOrder(f, n)) \/ FetchStep(f)
        PROVE  OInv'
    BY <2>1, <2>2, <2>6, FetchKeeps
  <2>7. ASSUME NEW x \in Resets, (\E n \in Nodes : ResetStart(x, n)) \/ ResetStep(x) PROVE OInv'
    BY <2>1, <2>2, <2>7, ResetKeeps
  <2>8. ASSUME NEW n \in Nodes, StreamClears(n) PROVE OInv'
    BY <2>2, <2>8, StreamQuiet
  <2> QED
    BY <2>1, <2>3, <2>4, <2>5, <2>6, <2>7, <2>8 DEF Next
<1> QED
  BY <1>1, <1>2

\* What an orderly game keeps, whatever of it overlaps.
THEOREM OrderlyInvariant == OrderlySpec => []OInv
  BY InitOInv, NextOInv, PTL DEF OrderlySpec

\* The key is shared: every bit the leader computes comes from the choice of its own
\* position and from a count that was taken with this choice and the follower's.
THEOREM KeysAreShared == OrderlySpec => []KeysAgree
<1>1. OInv => KeysAgree
  <2> SUFFICES ASSUME OInv, NEW r \in Runs, run[r].pc \in {"submitting", "done"},
                      NEW i \in IndexList(r)
               PROVE  LET bit == run[r].outcome[i] IN
                      /\ bit.choice = <<r, i>>
                      /\ bit.count.leader = bit.choice
                      /\ bit.count.follower = run[r].compared[i].choice
    BY DEF KeysAgree
  <2>1. Kept(r)
    BY DEF OInv, Keys
  <2>2. i \in DOMAIN run[r].outcome /\ i \in DOMAIN run[r].compared
    BY <2>1 DEF Kept, IndexList
  <2>3. /\ run[r].outcome[i] = [choice |-> <<r, i>>, count |-> Both(r, i)]
        /\ run[r].compared[i].choice = <<r, i>>
    BY <2>1, <2>2 DEF Kept
  <2> QED
    BY <2>3 DEF Both
<1> QED
  BY <1>1, OrderlyInvariant, PTL

\* A follower that returns a result returns that of a run of its own session which
\* the leader has completed.
THEOREM ResultsAreTheSessions == OrderlySpec => []ResultsAgree
<1>1. OInv => ResultsAgree
  BY DEF OInv, Results
<1> QED
  BY <1>1, OrderlyInvariant, PTL

\* In a session both users are asked the same questions.
THEOREM QuestionsAreTheSame == OrderlySpec => []SameQuestions
<1>1. OInv => SameQuestions
  BY DEF OInv, OrdersAgree, SameQuestions, Nodes
<1> QED
  BY <1>1, OrderlyInvariant, PTL

=============================================================================
