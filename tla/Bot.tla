--------------------------------- MODULE Bot ---------------------------------
(***************************************************************************)
(* The manager and the chain together: TokenManager, whose buy and sell    *)
(* tasks here get their answers from Settlement and from nowhere else.  A  *)
(* task's answer is one step of both (main.rs:308-333 and 401-416), so is  *)
(* the start of a sell task (main.rs:339-349); between these the two go    *)
(* their own ways.  TxConfirm implements Settlement.                       *)
(***************************************************************************)
EXTENDS TokenManager

CONSTANT Bare   \* can the answer to a transaction be illegible

VARIABLES
  account,   \* the wallet's token account of each mint, None if there is none
  bought,    \* what the buy of each mint has brought
  stage,     \* has the buy task of the mint reported, or ended without a word
  report,    \* the amount it has told the manager, None for an unknown one
  sale,      \* what has become of each sell order
  watching   \* is anybody listening to the wallet stream

chain == <<account, bought, stage, report, sale, watching>>

\* Settlement has one buy of each mint.  A buy whose watcher is dead reports the
\* zero that it has itself inserted into pending (main.rs:299).
ASSUME BotAssumption == CreatesPerMint = 1 /\ 0 \in Qtys /\ Bare \in BOOLEAN

\* The task of an order is known by the worker that gave it and by its mint.
Sells    == Wids \X Mints
SoldMint == [s \in Sells |-> s[2]]
SaleOf(w) == <<w, seller[w].mint>>

C == INSTANCE Settlement

BotInit == Init /\ C!Init

-----------------------------------------------------------------------------
(***************************************************************************)
(* Steps of both                                                           *)
(***************************************************************************)
BuyAnswered(b) ==
  LET m == buyer[b].mint IN
  \/ \E q \in Qtys : BuyConfirmed(b, q) /\ C!Report(m, q)
  \/ BuyConfirmedBlind(b) /\ C!Report(m, None)
  \/ BuyAbandoned(b) /\ C!GiveUp(m)

OrderTaken ==
  /\ TakeOrder
  /\ LET o == Head(sellQ) IN C!Order(<<o.from, o.mint>>)

SellAnswered_timeout(w) ==    \* mutant: unwrap_or(true), no answer is taken for a success
  SellConfirmed(w) /\ UNCHANGED chain

SellAnswered(w) == SellConfirmed(w) /\ C!Settle(SaleOf(w))

(***************************************************************************)
(* Steps of one of them                                                    *)
(***************************************************************************)
ManagerStep ==
  \/ \E m \in Mints : TakeCreate(m)
  \/ VetCreate \/ RegisterMeta \/ SpawnBuy
  \/ \E m \in Mints, cap \in Caps : TakeTrade(m, cap)
  \/ RouteInsert \/ RouteSend \/ RouteSendError \/ RouteEvict
  \/ \E w \in Wids : WorkerStep(w) \/ SellTail(w)
  \/ \E b \in Buys : BuyTail(b)

\* A buy is executed after its task has sent it.  A sell task that fails has
\* panicked (main.rs:353): it never answers.
ChainStep ==
  \/ \E b \in Buys, q \in Qtys : buyer[b].pc = "wait" /\ C!Fill(buyer[b].mint, q)
  \/ \E m \in Mints : C!Empty(m)
  \/ \E s \in Sells : C!Fail(s)
  \/ C!StopWatching

BotNext ==
  \/ \E b \in Buys : BuyAnswered(b)
  \/ OrderTaken
  \/ \E w \in Wids : SellAnswered(w)
  \/ ManagerStep /\ UNCHANGED chain
  \/ ChainStep /\ UNCHANGED vars

BotSpec == BotInit /\ [][BotNext]_<<vars, chain>>

-----------------------------------------------------------------------------
(***************************************************************************)
(* Properties                                                              *)
(***************************************************************************)
\* What a sell task relies on when it signs (main.rs:359-366), and Settlement
\* when it takes an order: the buy of the mint has reported, the order is for that
\* amount, and nobody else uses its name.  So the manager's orders are never
\* refused, and they are for what the account holds if it still holds anything.
OrdersAreAccepted ==
  \A i \in 1..Len(sellQ) :
    LET o == sellQ[i] IN
    /\ sale[<<o.from, o.mint>>] = "none"
    /\ stage[o.mint] = "reported" /\ report[o.mint] = o.amount
    /\ account[o.mint] \in {None, o.amount}

\* The buy task of m has told the manager all it knows.
Told(m) == \E b \in Buys : buyer[b].mint = m /\ buyer[b].pc \in {"ensure", "insert", "done"}

\* The manager was not told what was bought: the update had no meta, or the
\* watcher has died before it recorded the amount.
Misled(m) ==
  \/ Bare /\ (stage[m] = "gone" \/ report[m] = None)
  \/ ~watching /\ report[m] = 0

Tokens(m) == account[m] \notin {None, 0}

\* What the wallet holds and the manager was told of, the manager holds, to the
\* token: deduct_balance, clear_after_sell and created.remove of any number of sell
\* tasks (main.rs:415-420) come only when the account is gone.
TokensAreKnown ==
  \A m \in Mints : Tokens(m) /\ Told(m) => metas[m] = account[m] \/ Misled(m)

\* Tokens in the wallet have somebody in the bot who is going to sell them, from the
\* moment the chain credits them: the buy task that has not told the manager yet,
\* a worker, an order, a sell task (which counts even after its panic).  The
\* exceptions are the manager that was misled, and the lost position: a worker of
\* the mint has left with nothing to sell.
TokensAreWatched ==
  \A m \in Mints : Tokens(m) =>
    \/ \E b \in Buys : buyer[b].mint = m /\ buyer[b].pc \in {"wait", "mark", "balance"}
    \/ Watched(m) \/ GaveUp(m, {"broke", "idle"})
    \/ Misled(m)
=============================================================================
