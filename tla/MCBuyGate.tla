------------------------------ MODULE MCBuyGate ------------------------------
(***************************************************************************)
(* Constants for model checking BuyGate.                                   *)
(***************************************************************************)
EXTENDS BuyGate, TLC

CONSTANTS m1, m2, m3, b1, b2, b3   \* three mints, three buy tasks

\* The mints, and the names of the tasks, are interchangeable.
Symmetry == Permutations(Mints) \cup Permutations(Buys)
=============================================================================
