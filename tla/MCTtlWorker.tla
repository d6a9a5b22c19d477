---------------------------- MODULE MCTtlWorker ----------------------------
(***************************************************************************)
(* Instances of TtlWorker for TLC: two of the three spaces, two keys.      *)
(***************************************************************************)
EXTENDS TtlWorker, TLC

MCTwoSpaces == <<"rtpe_calls", "kam_dialogs">>
MCOneSpace == <<"rtpe_calls">>
Symmetry == Permutations(Keys) \cup Permutations(Cleaners)
=============================================================================
