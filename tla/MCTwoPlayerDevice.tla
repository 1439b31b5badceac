------------------------- MODULE MCTwoPlayerDevice ---------------------------
(***************************************************************************)
(* TwoPlayerDevice for TLC.  The runs are interchangeable.                 *)
(***************************************************************************)
EXTENDS TwoPlayerDevice, TLC

Symmetry == Permutations(Users)

=============================================================================
