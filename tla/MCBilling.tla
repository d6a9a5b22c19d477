----------------------------- MODULE MCBilling -----------------------------
(***************************************************************************)
(* Instances of Billing for TLC.  A minute has 2 seconds, a dialog 1       *)
(* second of grace; a tariff costs 6 a minute and 1 to connect, or 6 a     *)
(* minute, or 8 for the whole call, which is what a new subscriber has.    *)
(***************************************************************************)
EXTENDS Billing, TLC

MCDests == {<<1, 2>>}
MCPrefix == {<<1>>}
MCDefault == {DefaultPrefix}
MCTariffs == {[rate |-> 6, fee |-> 1]}
MCCheapAndFree == {[rate |-> 6, fee |-> 0], [rate |-> 0, fee |-> 8]}
Symmetry == Permutations(Fibers) \cup Permutations(Calls)
=============================================================================
