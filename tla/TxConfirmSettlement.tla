------------------------ MODULE TxConfirmSettlement -------------------------
(***************************************************************************)
(* TxConfirm implements Settlement.  The wallet's accounts are those of    *)
(* the chain; a task has reported, or settled its order, from the moment   *)
(* it acts on what the watcher has told it.                                *)
(***************************************************************************)
EXTENDS TxConfirm

\* Seen from the manager, a buy task is pending until it has read the amount,
\* and a sell task sells until it has heard of a success.
Stage(pc) ==
  CASE pc \in {"telling", "starting", "done"} -> "reported"
    [] pc = "gone"                            -> "gone"
    [] OTHER                                  -> "pending"

SalePhase(pc) ==
  CASE pc = "idle"                  -> "none"
    [] pc \in {"confirmed", "done"} -> "sold"
    [] pc = "panicked"              -> "failed"
    [] OTHER                        -> "selling"

Stages  == [m \in Mints |-> Stage(task[m].pc)]
Reports == [m \in Mints |-> task[m].qty]
Sales   == [s \in Sells |-> SalePhase(task[s].pc)]

S == INSTANCE Settlement WITH account <- tokens, stage <- Stages, report <- Reports,
                              sale <- Sales, watching <- watcher.pc # "dead"

\* Whatever the cluster, the wallet stream and the retries do, the outcomes that
\* reach the manager are those of one purchase and one sale on the chain: no buy
\* is filled once its task has ended, no sell task ends before the account is
\* empty, and what is sold is the reported amount (main.rs:305-333 and 353-421).
ImplementsSettlement == S!Spec
=============================================================================
