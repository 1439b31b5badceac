--------------------------- MODULE MCQKDSession -----------------------------
(***************************************************************************)
(* QKDSession for TLC.  Runs, submissions, fetches and resets are model    *)
(* values.                                                                 *)
(***************************************************************************)
EXTENDS QKDSession

\* The lists of two users who may agree on the first bit or not.
SameLength == {<<"HV", "DA">>, <<"DA", "DA">>}

\* As long as the follower's node waits for, longer, and empty.
AnyLength == {<<"HV">>, <<"DA", "HV">>, <<>>}

\* The leader's default list is longer than what the follower's node waits for.
LongDefault == <<"DA", "HV">>

=============================================================================
