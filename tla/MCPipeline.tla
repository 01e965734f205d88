----------------------------- MODULE MCPipeline -----------------------------
(***************************************************************************)
(* Constants for model checking Pipeline.                                  *)
(***************************************************************************)
EXTENDS Pipeline, TLC

CONSTANT t1   \* a thread of the decode pool

\* Every channel holds one message, so each of them is full at times.
OneEach == [c \in Channels |-> 1]
=============================================================================
