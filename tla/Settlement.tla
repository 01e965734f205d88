----------------------------- MODULE Settlement -----------------------------
(***************************************************************************)
(* What the buy and sell tasks promise about their transactions, without   *)
(* signatures, blockhashes, the pending map, its watch channels, permits,  *)
(* retries, and messages that are lost, late or repeated: a mint is bought *)
(* at most once and only while its buy task runs, the manager is told what *)
(* the chain has credited, exactly that amount is sold, and a sell task    *)
(* ends when nothing is left.  TxConfirmSettlement shows how TxConfirm     *)
(* implements it.                                                          *)
(***************************************************************************)
EXTENDS Naturals

CONSTANTS Mints,     \* token mints, one buy each
          Sells,     \* sell orders
          SoldMint,  \* Sells -> the mint of the order
          Qtys,      \* amounts a buy can bring
          Bare,      \* can the answer to a transaction be illegible
          None

VARIABLES
  account,   \* the wallet's token account of each mint, None if there is none
  bought,    \* what the buy of each mint has brought
  stage,     \* has the buy task of the mint reported, or ended without a word
  report,    \* the amount it has told the manager, None for an unknown one
  sale,      \* what has become of each sell order
  watching   \* is anybody listening to the wallet stream

vars == <<account, bought, stage, report, sale, watching>>

Init ==
  /\ account = [m \in Mints |-> None]
  /\ bought = [m \in Mints |-> 0]
  /\ stage = [m \in Mints |-> "pending"]
  /\ report = [m \in Mints |-> None]
  /\ sale = [s \in Sells |-> "none"]
  /\ watching = TRUE

\* The chain credits the buy.  Nothing is bought behind a task that has ended.
Fill(m, q) ==
  /\ stage[m] = "pending"
  /\ account[m] = None /\ bought[m] = 0
  /\ account' = [account EXCEPT ![m] = q]
  /\ bought' = [bought EXCEPT ![m] = q]
  /\ UNCHANGED <<stage, report, sale, watching>>

\* The report is what was bought, unless the answer could not be read or the
\* watcher has died before it recorded the amount.
Report(m, r) ==
  /\ stage[m] = "pending"
  /\ \/ r = bought[m]
     \/ r = 0 /\ ~watching
     \/ r = None /\ Bare
  /\ stage' = [stage EXCEPT ![m] = "reported"]
  /\ report' = [report EXCEPT ![m] = r]
  /\ UNCHANGED <<account, bought, sale, watching>>

\* Tokens are left behind only when the answer could not be read.
GiveUp(m) ==
  /\ stage[m] = "pending"
  /\ bought[m] = 0 \/ Bare
  /\ stage' = [stage EXCEPT ![m] = "gone"]
  /\ UNCHANGED <<account, bought, report, sale, watching>>

Order(s) ==
  /\ sale[s] = "none"
  /\ stage[SoldMint[s]] = "reported"
  /\ report[SoldMint[s]] \notin {None, 0}
  /\ sale' = [sale EXCEPT ![s] = "selling"]
  /\ UNCHANGED <<account, bought, stage, report, watching>>

\* The chain executes an order: the account held the reported amount, and is closed.
Empty(m) ==
  /\ account[m] # None /\ account[m] = report[m]
  /\ \E s \in Sells : SoldMint[s] = m /\ sale[s] # "none"
  /\ account' = [account EXCEPT ![m] = None]
  /\ UNCHANGED <<bought, stage, report, sale, watching>>

\* An order is settled once nothing is left of the position.
Settle(s) ==
  /\ sale[s] = "selling"
  /\ account[SoldMint[s]] = None
  /\ sale' = [sale EXCEPT ![s] = "sold"]
  /\ UNCHANGED <<account, bought, stage, report, watching>>

Fail(s) ==
  /\ sale[s] = "selling"
  /\ sale' = [sale EXCEPT ![s] = "failed"]
  /\ UNCHANGED <<account, bought, stage, report, watching>>

StopWatching ==
  /\ watching' = FALSE
  /\ UNCHANGED <<account, bought, stage, report, sale>>

\* Most steps of the tasks change nothing here.
Next ==
  \/ UNCHANGED vars
  \/ \E m \in Mints : GiveUp(m) \/ Empty(m)
  \/ \E m \in Mints, q \in Qtys : Fill(m, q)
  \/ \E m \in Mints : \E r \in {bought[m], 0, None} : Report(m, r)
  \/ \E s \in Sells : Order(s) \/ Settle(s) \/ Fail(s)
  \/ StopWatching

Spec == Init /\ [][Next]_vars
=============================================================================
