------------------------ MODULE TokenManagerPosition ------------------------
(***************************************************************************)
(* TokenManager implements Position.  The balance in metas is the holding, *)
(* the sell channel the orders; an order is given when it enters the       *)
(* channel, although its amount was read when the worker left its loop.    *)
(***************************************************************************)
EXTENDS TokenManager

\* Seen from outside, a sell task is running until it has zeroed the balance
\* and settled until it has dropped the meta.
Phase(pc) ==
  CASE pc = "none"                -> "none"
    [] pc \in {"trying", "deduct"} -> "running"
    [] pc \in {"forget", "drop"}   -> "settled"
    [] pc \in {"purge", "done"}    -> "closed"

Sale == [w \in Wids |-> [phase  |-> Phase(seller[w].pc),
                         mint   |-> seller[w].mint,
                         amount |-> seller[w].amount]]

P == INSTANCE Position WITH holding <- metas, orders <- sellQ, sale <- Sale

\* The read of a balance and the send of its order, with any number of awaits,
\* blocked writers and other sell tasks in between, are as good as one step; an
\* order is taken up once, by one task, and settled before it is forgotten
\* (token_manager.rs:145-152 and 172-182, main.rs:339-348 and 415-418).
ImplementsPosition == P!Spec
=============================================================================
