--------------------------- MODULE MCTokenManager ---------------------------
(***************************************************************************)
(* Constants for model checking TokenManager.                              *)
(***************************************************************************)
EXTENDS TokenManagerPosition

CONSTANTS m1, m2   \* two mints

\* Both mints hash to the same shard of a map: the guards held across an await
\* then block the writers of the other mint as well.
OneShard == [m \in Mints |-> 0]

\* Every mint has a shard of its own.
OwnShard == [m \in Mints |-> IF m = m1 THEN 0 ELSE 1]
=============================================================================
