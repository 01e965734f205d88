---------------------------- MODULE MCTxConfirm -----------------------------
(***************************************************************************)
(* Constants for model checking TxConfirm.                                 *)
(***************************************************************************)
EXTENDS TxConfirmSettlement, TLC

CONSTANTS m1, m2, s1, s2   \* two mints and two sell tasks

\* Every order is for the first mint.
SoldFirst == [s \in Sells |-> m1]

\* A shard for each blockhash: a buy shares one with some of the sells.
ByHash == [g \in Sigs |-> g.bh]

\* The sell tasks of one mint are interchangeable.
Symmetry == Permutations(Sells)
=============================================================================
