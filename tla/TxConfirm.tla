----------------------------- MODULE TxConfirm ------------------------------
(***************************************************************************)
(* How a buy or a sell task learns what became of its transaction: the     *)
(* pending map, its watch channels and the confirmation watcher            *)
(* (monitoring/transaction_verifier.rs), the bodies of the two tasks that  *)
(* main.rs spawns, and the semaphore tx_sem they share.  The cluster and   *)
(* the wallet stream are modelled from how the code uses them: a sent      *)
(* transaction may be lost, lands at most once for a signature, and its    *)
(* update may be lost, late, out of order or repeated.                     *)
(*                                                                         *)
(* A buy task is named by its mint, a sell task by a member of Sells.  A   *)
(* signature is determined by the message it signs: the retries of a sell  *)
(* task, and the other sell tasks of the mint, share a signature as long   *)
(* as the blockhash is the same.                                           *)
(***************************************************************************)
EXTENDS Naturals, FiniteSets

CONSTANTS
  Mints,           \* the mints that are bought, one buy task each
  Sells,           \* the sell tasks (see TokenManager for why a mint has several)
  SoldMint,        \* Sells -> the mint of the order
  Qtys,            \* amounts a buy can bring
  Permits,         \* permits of tx_sem (128 in main.rs)
  PendingShard,    \* Sigs -> the shard of the pending map
  Hashes,          \* bound: number of blockhashes told apart
  AttemptMax,      \* largest value of `attempt` (255, a u8)
  OverflowChecks,  \* built with overflow checks (the dev profile)
  Lossy,           \* can an update of the wallet stream be lost
  Bare,            \* can an update come without its meta
  Malformed,       \* can a log be one that the watcher panics on
  None

ASSUME ConfirmAssumption ==
  /\ Mints \cap Sells = {}
  /\ SoldMint \in [Sells -> Mints]
  /\ Qtys \subseteq Nat \ {0}
  /\ Permits \in Nat \ {0}
  /\ Hashes \in Nat \ {0, 1}
  /\ AttemptMax \in Nat
  /\ {OverflowChecks, Lossy, Bare, Malformed} \subseteq BOOLEAN
  /\ None \notin Mints \cup Sells \cup [owner : Mints \cup Sells, qty : Nat]

VARIABLES
  bh,       \* the value of the blockhash watch channel
  permits,  \* permits left in tx_sem
  task,     \* the buy and sell tasks
  pending,  \* PendingTxMap: signature -> ConfirmationState
  watcher,  \* confirm_wallet_transaction
  sent,     \* transactions the cluster has received and not executed
  landed,   \* signatures that have been executed
  wire,     \* updates on their way to the watcher
  lost,     \* history: the buys whose update was lost while their task waited for it
  tokens,   \* chain: the wallet's token account of each mint, None if there is none
  bought    \* chain: what the buy of each mint brought

vars == <<bh, permits, task, pending, watcher, sent, landed, wire, lost, tokens,
          bought>>
chain == <<sent, landed, wire, lost, tokens, bought>>

-----------------------------------------------------------------------------
(***************************************************************************)
(* Types                                                                   *)
(***************************************************************************)
Tasks  == Mints \cup Sells
Sigs   == [kind : {"buy"}, mint : Mints, bh : {0}]
            \cup [kind : {"sell"}, mint : Mints, bh : 0 .. Hashes - 1]
\* meta.err: none, the custom code 3012 (the token account does not exist), or
\* anything else.
Status == {"ok", "3012", "err"}
Update == [sig : Sigs, status : Status, qty : Nat]
Entry  == [owner : Tasks, qty : Nat]
TaskPc == {"idle", "acquire", "build", "send", "wait", "confirmed", "telling",
           "starting", "unconfirmed", "done", "gone", "panicked"}
Task   == [pc : TaskPc, sig : Sigs \cup {None}, attempt : 0 .. AttemptMax,
           note : {"none", "Successed", "Failed"}, qty : Nat \cup {None}]
WatchPc == {"recv", "lookup", "notified", "remove", "dead"}

BuySig(m)  == [kind |-> "buy", mint |-> m, bh |-> 0]
SellSig(s) == [kind |-> "sell", mint |-> SoldMint[s], bh |-> bh]

TypeOK ==
  /\ bh \in 0 .. Hashes - 1
  /\ permits \in 0 .. Permits
  /\ task \in [Tasks -> Task]
  /\ pending \in [Sigs -> Entry \cup {None}]
  /\ watcher \in [pc : WatchPc, update : Update \cup {None}]
  /\ sent \in SUBSET Sigs /\ landed \in SUBSET Sigs
  /\ wire \in SUBSET Update /\ lost \in SUBSET Mints
  /\ tokens \in [Mints -> Nat \cup {None}] /\ bought \in [Mints -> Nat]

Init ==
  /\ bh = 0
  /\ permits = Permits
  /\ task = [t \in Tasks |->
               [pc |-> IF t \in Mints THEN "acquire" ELSE "idle", sig |-> None,
                attempt |-> 0, note |-> "none", qty |-> None]]
  /\ pending = [g \in Sigs |-> None]
  /\ watcher = [pc |-> "recv", update |-> None]
  /\ sent = {} /\ landed = {} /\ wire = {} /\ lost = {}
  /\ tokens = [m \in Mints |-> None]
  /\ bought = [m \in Mints |-> 0]

-----------------------------------------------------------------------------
(***************************************************************************)
(* The pending map and its watch channels                                  *)
(***************************************************************************)
\* The watcher keeps the shard of the entry write-locked from get_mut until it has
\* recorded the amounts or dropped the guard.  A reader needs this lock to be free.
Unlocked_never(g) == TRUE    \* mutant: the guard is dropped before the notification

Unlocked(g) ==
  watcher.pc = "notified" => PendingShard[watcher.update.sig] # PendingShard[g]

\* A buy task keeps its read guard while it gives the amount to the manager
\* (main.rs:310-325); get_mut, insert and remove wait for it.
Guards(m) == task[m].pc = "telling"

ReadLocked(g) ==
  \E m \in Mints : Guards(m) /\ PendingShard[task[m].sig] = PendingShard[g]

Writable(g) == Unlocked(g) /\ ~ReadLocked(g)

\* The Sender of t's channel lives in the entry that t inserted; the channel is
\* closed once that entry has been removed or overwritten.
Open(t) == pending[task[t].sig] # None /\ pending[task[t].sig].owner = t

\* insert(sig, ..) with a new channel, by a task that goes on to send.
InsertPending(t, g, attempt) ==
  /\ Writable(g)
  /\ pending' = [pending EXCEPT ![g] = [owner |-> t, qty |->
                   IF t \in Mints THEN 0 ELSE task[t].qty]]
  /\ task' = [task EXCEPT ![t].pc = "send", ![t].sig = g, ![t].note = "none",
                          ![t].attempt = attempt]

\* A task waits for a permit of tx_sem and keeps it until it returns.
Acquire(t) ==
  /\ task[t].pc = "acquire"
  /\ permits > 0
  /\ permits' = permits - 1
  /\ task' = [task EXCEPT ![t].pc = "build"]
  /\ UNCHANGED <<bh, pending, watcher, chain>>

Return_keep(t, pc) ==    \* mutant: the permit is forgotten
  /\ task' = [task EXCEPT ![t].pc = pc, ![t].note = "none",
                          ![t].sig = None, ![t].attempt = 0]
  /\ UNCHANGED permits

\* What the task knew is gone with it, except for the amount, which is others' by now.
Return(t, pc) ==
  /\ task' = [task EXCEPT ![t].pc = pc, ![t].note = "none",
                          ![t].sig = None, ![t].attempt = 0]
  /\ permits' = permits + 1

-----------------------------------------------------------------------------
(***************************************************************************)
(* The buy task of mint m                                                  *)
(***************************************************************************)
\* The free balance has become too low, or the transaction cannot be built.
BuyGivesUp(m) ==
  /\ task[m].pc = "build"
  /\ Return(m, "gone")
  /\ UNCHANGED <<bh, pending, watcher, chain>>

BuyInserts(m) ==
  /\ task[m].pc = "build"
  /\ InsertPending(m, BuySig(m), 0)
  /\ UNCHANGED <<bh, permits, watcher, chain>>

\* An error of send_transaction is ignored: the entry stays, the task waits.
BuySends(m) ==
  /\ task[m].pc = "send"
  /\ task' = [task EXCEPT ![m].pc = "wait"]
  /\ sent' \in {sent, sent \cup {task[m].sig}}
  /\ UNCHANGED <<bh, permits, pending, watcher, landed, wire, lost, tokens, bought>>

\* rx.changed(): Failed makes the loop go round, Successed ends it.
BuyHears(m) ==
  /\ task[m].pc = "wait"
  /\ task[m].note # "none"
  /\ task' = [task EXCEPT ![m].note = "none",
                ![m].pc = IF task[m].note = "Successed" THEN "confirmed" ELSE @]
  /\ UNCHANGED <<bh, permits, pending, watcher, chain>>

BuyHangsUp_timeout(m) ==    \* mutant: the buy task waits 25 seconds, as the sell task does
  /\ task[m].pc = "wait"
  /\ task[m].note = "none"
  /\ Return(m, "gone")
  /\ UNCHANGED <<bh, pending, watcher, chain>>

\* The Sender is gone: changed() fails and the task ends without a word.
BuyHangsUp(m) ==
  /\ task[m].pc = "wait"
  /\ task[m].note = "none" /\ ~Open(m)
  /\ Return(m, "gone")
  /\ UNCHANGED <<bh, pending, watcher, chain>>

\* pending.get(&sig): the amount goes to the manager; a missing entry leaves the
\* balance unknown (None).
BuyReads(m) ==
  LET e == pending[task[m].sig] IN
  /\ task[m].pc = "confirmed"
  /\ Unlocked(task[m].sig)
  /\ task' = [task EXCEPT ![m].pc = IF e = None THEN "starting" ELSE "telling",
                          ![m].qty = IF e = None THEN None ELSE e.qty]
  /\ UNCHANGED <<bh, permits, pending, watcher, chain>>

\* created.get_mut and update_balance are done, the guard is dropped.  What the task
\* does in the manager is the buy task of TokenManager; it may have to wait there
\* for a shard of created or of metas.
BuyTells(m) ==
  /\ task[m].pc = "telling"
  /\ task' = [task EXCEPT ![m].pc = "starting"]
  /\ UNCHANGED <<bh, permits, pending, watcher, chain>>

\* The same for ensure_worker; then the task ends.
BuyEnsures(m) ==
  /\ task[m].pc = "starting"
  /\ Return(m, "done")
  /\ UNCHANGED <<bh, pending, watcher, chain>>

InManager(t) == task[t].pc \in {"telling", "starting"}

\* The manager has the report, from the moment when it may act on it.
Reported(m) == InManager(m) \/ task[m].pc = "done"

-----------------------------------------------------------------------------
(***************************************************************************)
(* The sell task s                                                         *)
(***************************************************************************)
\* A worker has ordered the sale of what the buy of the mint reported.
SellStarts(s) ==
  LET q == task[SoldMint[s]].qty IN
  /\ task[s].pc = "idle"
  /\ Reported(SoldMint[s])
  /\ q # None /\ q # 0
  /\ task' = [task EXCEPT ![s].pc = "acquire", ![s].qty = q]
  /\ UNCHANGED <<bh, permits, pending, watcher, chain>>

\* attempt += 1, on a u8: wraps, or panics when overflow is checked.
Overflows(s) == OverflowChecks /\ task[s].attempt = AttemptMax
NextAttempt(s) == (task[s].attempt + 1) % (AttemptMax + 1)

SellPanics(s) ==
  /\ task[s].pc = "build"
  /\ Overflows(s)
  /\ Return(s, "panicked")
  /\ UNCHANGED <<bh, pending, watcher, chain>>

\* The blockhash is read again for every attempt.
SellInserts(s) ==
  /\ task[s].pc = "build"
  /\ ~Overflows(s)
  /\ InsertPending(s, SellSig(s), NextAttempt(s))
  /\ UNCHANGED <<bh, permits, watcher, chain>>

SellBuildFails(s) ==
  /\ task[s].pc = "build"
  /\ ~Overflows(s)
  /\ task' = [task EXCEPT ![s].attempt = NextAttempt(s)]
  /\ UNCHANGED <<bh, permits, pending, watcher, chain>>

\* A signature that has been executed is not executed again.
SellSends(s) ==
  /\ task[s].pc = "send"
  /\ task' = [task EXCEPT ![s].pc = "wait"]
  /\ sent' = sent \cup ({task[s].sig} \ landed)
  /\ UNCHANGED <<bh, permits, pending, watcher, landed, wire, lost, tokens, bought>>

\* Accepted by the RPC node and lost on the way to a leader.
SellSendsInVain(s) ==
  /\ task[s].pc = "send"
  /\ task' = [task EXCEPT ![s].pc = "wait"]
  /\ UNCHANGED <<bh, permits, pending, watcher, chain>>

\* The RPC call fails, possibly after the node has forwarded the transaction:
\* the entry is removed, whoever has inserted it, and the loop goes round.
SellSendFails(s) ==
  LET g == task[s].sig IN
  /\ task[s].pc = "send"
  /\ Writable(g)
  /\ sent' \in {sent, sent \cup ({g} \ landed)}
  /\ pending' = [pending EXCEPT ![g] = None]
  /\ task' = [task EXCEPT ![s].pc = "build", ![s].note = "none"]
  /\ UNCHANGED <<bh, permits, watcher, landed, wire, lost, tokens, bought>>

SellHears(s) ==
  /\ task[s].pc = "wait"
  /\ task[s].note # "none"
  /\ task' = [task EXCEPT ![s].note = "none",
                ![s].pc = IF task[s].note = "Successed" THEN "confirmed"
                          ELSE "unconfirmed"]
  /\ UNCHANGED <<bh, permits, pending, watcher, chain>>

SellHangsUp(s) ==
  /\ task[s].pc = "wait"
  /\ task[s].note = "none" /\ ~Open(s)
  /\ task' = [task EXCEPT ![s].pc = "unconfirmed"]
  /\ UNCHANGED <<bh, permits, pending, watcher, chain>>

\* 25 seconds.  The timer is looked at after the channel, so a notification that
\* is there when the task runs wins.
SellTimesOut_true(s) ==    \* mutant: unwrap_or(true)
  /\ task[s].pc = "wait"
  /\ task[s].note = "none"
  /\ task' = [task EXCEPT ![s].pc = "confirmed"]
  /\ UNCHANGED <<bh, permits, pending, watcher, chain>>

SellTimesOut_never(s) ==    \* mutant: a wait without timeout, as in the buy task
  /\ FALSE
  /\ UNCHANGED vars

SellTimesOut(s) ==
  /\ task[s].pc = "wait"
  /\ task[s].note = "none"
  /\ task' = [task EXCEPT ![s].pc = "unconfirmed"]
  /\ UNCHANGED <<bh, permits, pending, watcher, chain>>

SellRemoves_release(s) ==    \* mutant: the permit belongs to the attempt
  /\ task[s].pc = "unconfirmed"
  /\ Writable(task[s].sig)
  /\ pending' = [pending EXCEPT ![task[s].sig] = None]
  /\ task' = [task EXCEPT ![s].pc = "build", ![s].note = "none"]
  /\ permits' = permits + 1
  /\ UNCHANGED <<bh, watcher, chain>>

SellRemoves(s) ==
  /\ task[s].pc = "unconfirmed"
  /\ Writable(task[s].sig)
  /\ pending' = [pending EXCEPT ![task[s].sig] = None]
  /\ task' = [task EXCEPT ![s].pc = "build", ![s].note = "none"]
  /\ UNCHANGED <<bh, permits, watcher, chain>>

\* deduct_balance, clear_after_sell and created.remove are done (main.rs:415-421).
\* What the task does in the manager is the sell task of TokenManager; it may have to
\* wait there for a shard of metas or of created, with its permit.  The entry stays
\* in the map.
SellEnds(s) ==
  /\ task[s].pc = "confirmed"
  /\ Return(s, "done")
  /\ UNCHANGED <<bh, pending, watcher, chain>>

-----------------------------------------------------------------------------
(***************************************************************************)
(* The watcher                                                             *)
(***************************************************************************)
\* wallet_rx.recv(): an update leaves the stream, unless it is going to be delivered
\* once more.
Receive(u) ==
  /\ watcher.pc = "recv"
  /\ u \in wire
  /\ wire' \in {wire, wire \ {u}}
  /\ watcher' = [pc |-> "lookup", update |-> u]
  /\ UNCHANGED <<bh, permits, task, pending, sent, landed, lost, tokens, bought>>

\* pending.get_mut(&sig).  The watcher's thread waits here for a buy task's guard of
\* the shard, and whatever comes after the update waits with it.
LooksUp(u) ==
  /\ watcher.pc = "lookup"
  /\ watcher.update = u
  /\ ~ReadLocked(u.sig)
  /\ UNCHANGED <<bh, permits, chain>>

\* No entry: the update is dropped, its post balance with it.
WatchIgnores ==
  LET u == watcher.update IN
  /\ LooksUp(u)
  /\ pending[u.sig] = None
  /\ watcher' = [pc |-> "recv", update |-> None]
  /\ UNCHANGED <<task, pending>>

\* Without meta the entry is removed after its guard has been dropped.
WatchBare ==
  LET u == watcher.update IN
  /\ Bare
  /\ LooksUp(u)
  /\ pending[u.sig] # None
  /\ watcher' = [pc |-> "remove", update |-> u]
  /\ UNCHANGED <<task, pending>>

\* Code 3012 counts as a success.
Verdict(status) == IF status = "err" THEN "Failed" ELSE "Successed"

\* Store the post balance (BuyGate), notify.  The entry stays locked.
WatchNotifies ==
  LET u == watcher.update IN
  /\ LooksUp(u)
  /\ pending[u.sig] # None
  /\ LET o == pending[u.sig].owner IN
       task' = IF task[o].sig = u.sig /\ task[o].pc \in {"send", "wait"}
               THEN [task EXCEPT ![o].note = Verdict(u.status)]
               ELSE task
  /\ watcher' = [pc |-> "notified", update |-> u]
  /\ UNCHANGED pending

\* Success: the amounts of the Trade event, if the logs hold one, then unlock.
WatchRecords_sum ==    \* mutant: adds up the amounts of the Trade events
  LET u == watcher.update IN
  /\ watcher.pc = "notified"
  /\ Verdict(u.status) = "Successed"
  /\ pending' = IF u.status = "ok"
                THEN [pending EXCEPT ![u.sig].qty = @ + u.qty]
                ELSE pending
  /\ watcher' = [pc |-> "recv", update |-> None]
  /\ UNCHANGED <<bh, permits, task, chain>>

WatchRecords_remove ==    \* mutant: a finished entry does not stay in the map
  /\ watcher.pc = "notified"
  /\ Verdict(watcher.update.status) = "Successed"
  /\ pending' = [pending EXCEPT ![watcher.update.sig] = None]
  /\ watcher' = [pc |-> "recv", update |-> None]
  /\ UNCHANGED <<bh, permits, task, chain>>

WatchRecords ==
  LET u == watcher.update IN
  /\ watcher.pc = "notified"
  /\ Verdict(u.status) = "Successed"
  /\ pending' = IF u.status = "ok"
                THEN [pending EXCEPT ![u.sig].qty = u.qty]
                ELSE pending
  /\ watcher' = [pc |-> "recv", update |-> None]
  /\ UNCHANGED <<bh, permits, task, chain>>

\* "Program data: " that is not base64 (decoder.rs:99): the guard is released, and
\* nobody receives updates any more.
WatchPanics ==
  /\ Malformed
  /\ watcher.pc = "notified"
  /\ Verdict(watcher.update.status) = "Successed"
  /\ watcher' = [pc |-> "dead", update |-> None]
  /\ UNCHANGED <<bh, permits, task, pending, chain>>

\* Failure: drop(conf) ...
WatchUnlocks ==
  /\ watcher.pc = "notified"
  /\ Verdict(watcher.update.status) = "Failed"
  /\ watcher' = [watcher EXCEPT !.pc = "remove"]
  /\ UNCHANGED <<bh, permits, task, pending, chain>>

\* ... and remove(&sig), which removes what is there by then.
WatchRemoves ==
  /\ watcher.pc = "remove"
  /\ ~ReadLocked(watcher.update.sig)
  /\ pending' = [pending EXCEPT ![watcher.update.sig] = None]
  /\ watcher' = [pc |-> "recv", update |-> None]
  /\ UNCHANGED <<bh, permits, task, chain>>

-----------------------------------------------------------------------------
(***************************************************************************)
(* The cluster and the wallet stream (external)                            *)
(***************************************************************************)
(***************************************************************************)
(* The two transactions of wallet.rs and what their instructions do to the *)
(* token account of the mint.  A transaction is executed as a whole or not *)
(* at all.                                                                 *)
(***************************************************************************)
buy_transaction  == <<"budget", "create", "buy">>

sell_transaction == <<"budget", "sell", "close">>

Holding(n)  == [status |-> "ok", holds |-> n]
Error(code) == [status |-> code, holds |-> None]

\* create is not idempotent; a sell without account fails with 3012; an account
\* is closed only when it is empty.
Instruction(i, before, qty) ==
  LET n == before.holds IN
  IF before.status # "ok" THEN before
  ELSE CASE i = "budget" -> before
         [] i = "create" -> IF n = None THEN Holding(0) ELSE Error("err")
         [] i = "buy"    -> IF n = None THEN Error("3012") ELSE Holding(n + qty)
         [] i = "sell"   -> IF n = None THEN Error("3012")
                            ELSE IF n < qty THEN Error("err") ELSE Holding(n - qty)
         [] i = "close"  -> IF n = 0 THEN Holding(None) ELSE Error("err")

Outcome(tx, m, qty) ==
  LET first  == Instruction(tx[1], Holding(tokens[m]), qty)
      second == Instruction(tx[2], first, qty)
  IN Instruction(tx[3], second, qty)

Executed(g, status, qty) ==
  /\ g \in sent
  /\ sent' = sent \ {g}
  /\ landed' = landed \cup {g}
  /\ wire' = wire \cup {[sig |-> g, status |-> status, qty |-> qty]}
  /\ UNCHANGED <<bh, permits, task, pending, watcher, lost>>

Runs(g, tx, qty) ==
  LET r == Outcome(tx, g.mint, qty)
      ok == r.status = "ok"
  IN /\ Executed(g, r.status, IF ok THEN qty ELSE 0)
     /\ tokens' = IF ok THEN [tokens EXCEPT ![g.mint] = r.holds] ELSE tokens
     /\ bought' = IF ok /\ g.kind = "buy" THEN [bought EXCEPT ![g.mint] = qty] ELSE bought

\* A buy does what its instructions do, or the bonding curve refuses it.
LandBuy(m) ==
  \/ \E q \in Qtys : Runs(BuySig(m), buy_transaction, q)
  \/ /\ \E code \in {"3012", "err"} : Executed(BuySig(m), code, 0)
     /\ UNCHANGED <<tokens, bought>>

\* What the bot sells of mint m: all its sell orders are for the same amount.
Offered(m) == task[m].qty

LandSell(g) ==
  /\ g.kind = "sell"
  /\ Runs(g, sell_transaction, Offered(g.mint))

\* Any other error of a sell (a completed bonding curve, an account that is taken).
SellRejected(g) ==
  /\ g.kind = "sell"
  /\ Executed(g, "err", 0)
  /\ UNCHANGED <<tokens, bought>>

LoseUpdate(u) ==
  /\ Lossy
  /\ u \in wire
  /\ wire' = wire \ {u}
  /\ lost' = lost \cup {m \in Mints : /\ u.sig = BuySig(m)
                                     /\ task[m].pc = "wait" /\ task[m].note # "Successed"}
  /\ UNCHANGED <<bh, permits, task, pending, watcher, sent, landed, tokens,
                 bought>>

\* A new blockhash expires the oldest one.  Bound: its index is used again, once
\* no task and no update refers to it; what the map still holds under it is the
\* entry of a task that has ended.
NewBlockhash ==
  LET next == (bh + 1) % Hashes
      Old(g) == g.kind = "sell" /\ g.bh = next
  IN /\ \A s \in Sells : task[s].pc \in {"send", "wait", "unconfirmed"} =>
                           ~Old(task[s].sig)
     /\ \A u \in wire : ~Old(u.sig)
     /\ watcher.pc \in {"lookup", "notified", "remove"} => ~Old(watcher.update.sig)
     /\ bh' = next
     /\ pending' = [g \in Sigs |-> IF Old(g) THEN None ELSE pending[g]]
     /\ sent' = {g \in sent : ~Old(g)}
     /\ landed' = {g \in landed : ~Old(g)}
     /\ UNCHANGED <<permits, task, watcher, wire, lost, tokens, bought>>

-----------------------------------------------------------------------------
BuyStep(m) ==
  \/ Acquire(m) \/ BuyGivesUp(m) \/ BuyInserts(m) \/ BuySends(m)
  \/ BuyHears(m) \/ BuyHangsUp(m) \/ BuyReads(m) \/ BuyTells(m)
  \/ BuyEnsures(m)

SellStep(s) ==
  \/ Acquire(s) \/ SellPanics(s) \/ SellInserts(s) \/ SellBuildFails(s)
  \/ SellSends(s) \/ SellSendsInVain(s) \/ SellSendFails(s)
  \/ SellHears(s) \/ SellHangsUp(s) \/ SellTimesOut(s) \/ SellRemoves(s)
  \/ SellEnds(s)

WatchGoesOn ==
  \/ WatchIgnores \/ WatchBare \/ WatchNotifies
  \/ WatchRecords \/ WatchPanics \/ WatchUnlocks \/ WatchRemoves

Cluster ==
  \/ \E m \in Mints : LandBuy(m)
  \/ \E g \in Sigs : LandSell(g) \/ SellRejected(g)
  \/ \E u \in wire : LoseUpdate(u)
  \/ NewBlockhash

Next ==
  \/ \E m \in Mints : BuyStep(m)
  \/ \E s \in Sells : SellStarts(s) \/ SellStep(s)
  \/ \E u \in wire : Receive(u)
  \/ WatchGoesOn
  \/ Cluster

Spec == Init /\ [][Next]_vars

\* The runtime runs every task that can move, tx_sem is a fair (FIFO)
\* semaphore, and RPC calls return.  So do the calls of the manager, unless it is in
\* the circular wait (TokenManager).  A sell that the cluster has received is
\* executed, what is on the wire arrives, and blockhashes advance.
Fairness ==
  /\ \A m \in Mints : WF_vars(BuyStep(m)) /\ SF_vars(Acquire(m))
  /\ \A s \in Sells : WF_vars(SellStep(s)) /\ SF_vars(Acquire(s))
  /\ \A g \in Sigs : WF_vars(LandSell(g))
  /\ WF_vars(\E u \in wire : Receive(u))
  /\ WF_vars(WatchGoesOn)
  /\ WF_vars(NewBlockhash)

\* The updates that are on the wire or in the hands of the watcher.
Updates ==
  wire \cup (IF watcher.pc \in {"lookup", "notified", "remove"} THEN {watcher.update} ELSE {})

\* An answer to what s has sent is still to come.
Answerable(s) ==
  LET g == task[s].sig IN
  /\ Open(s)
  /\ g \in sent \/ \E u \in Updates : u.sig = g

\* The network may misbehave for any time, but not for ever.  A calm step is not
\* an RPC failure, a lost or rejected sell, a lost, bare or repeated update,
\* or a timeout that is faster than an answer that is on its way.
Calm ==
  /\ \A s \in Sells :
       /\ ~SellBuildFails(s) /\ ~SellSendFails(s)
       /\ SellSendsInVain(s) => task[s].sig \in sent \cup landed
       /\ SellTimesOut(s) => ~Answerable(s)
  /\ \A g \in Sigs : ~SellRejected(g)
  /\ ~WatchBare
  /\ \A u \in wire : /\ LoseUpdate(u) => pending[u.sig] = None
                     /\ Receive(u) => u \notin wire'

FairSpec == Spec /\ Fairness /\ <>[][Calm]_vars

\* The same, when the network has been calm from the start.
CalmSpec == Init /\ [][Next /\ Calm]_vars /\ Fairness

-----------------------------------------------------------------------------
(***************************************************************************)
(* Properties                                                              *)
(***************************************************************************)
\* The amount a buy task hands to the manager is the amount the chain credited,
\* although the watcher notifies the task before it has recorded the amount
\* (transaction_verifier.rs:123-135): the task's pending.get has to wait for the
\* watcher's guard.  Only a watcher that has panicked while it held the guard
\* leaves the task with the zero of its own insert.
BuyLearnsChain ==
  \A m \in Mints : Reported(m) /\ task[m].qty # None
                     => \/ task[m].qty = bought[m]
                        \/ task[m].qty = 0 /\ watcher.pc = "dead"

\* A buy that is told of its success finds its entry (main.rs:310): nothing but
\* an update without meta can have removed it.
ConfirmedFindsEntry ==
  \A m \in Mints : task[m].pc = "confirmed" => Open(m) \/ Bare

\* A sell that is confirmed leaves no token account behind on the chain, whichever task's
\* attempt did it, and whether the answer was a success or code 3012.  The
\* manager's "solde totalement liquidé" (token_manager.rs:76) rests on it.
SellDoneMeansLiquidated ==
  \A s \in Sells : task[s].pc \in {"confirmed", "done"} => tokens[SoldMint[s]] = None

\* Every running sell task asks for exactly what is left, which close_account
\* needs (wallet.rs:144), or there is nothing left because another has sold it.
OrderFitsAccount ==
  \A s \in Sells : task[s].pc # "idle" =>
    tokens[SoldMint[s]] \in {None, task[s].qty}

-----------------------------------------------------------------------------
(***************************************************************************)
(* Halts                                                                   *)
(***************************************************************************)
\* What the tasks and the watcher need for a step of their own: no failure of the
\* network, and not the return from the manager, which is TokenManager's to show.
BuyCanMove(m) ==
  \/ task[m].pc = "acquire" /\ permits > 0
  \/ task[m].pc = "build" /\ Writable(BuySig(m))
  \/ task[m].pc = "send"
  \/ task[m].pc = "wait" /\ (task[m].note # "none" \/ ~Open(m))
  \/ task[m].pc = "confirmed" /\ Unlocked(task[m].sig)

SellCanMove(s) ==
  \/ task[s].pc = "acquire" /\ permits > 0
  \/ task[s].pc = "build" /\ (Overflows(s) \/ Writable(SellSig(s)))
  \/ task[s].pc \in {"send", "wait"}
  \/ task[s].pc = "unconfirmed" /\ Writable(task[s].sig)

\* The watcher's thread waits for a guard, and does not receive meanwhile.
WatchParked ==
  /\ watcher.pc \in {"lookup", "remove"}
  /\ ReadLocked(watcher.update.sig)

WatchCanMove ==
  \/ watcher.pc = "recv" /\ wire # {}
  \/ watcher.pc \in {"lookup", "remove"} /\ ~WatchParked
  \/ watcher.pc = "notified"

Halted ==
  /\ \A m \in Mints : ~BuyCanMove(m)
  /\ \A s \in Sells : ~SellCanMove(s)
  /\ ~WatchCanMove

\* The buy task of m has no answer: its transaction was not executed, or the stream
\* has lost its update, or nobody receives updates any more, or the update is where
\* the watcher cannot get at it, because it is parked behind a guard.
Unanswered(m) ==
  /\ task[m].pc = "wait" /\ task[m].note = "none"
  /\ \/ BuySig(m) \notin landed
     \/ m \in lost \/ watcher.pc = "dead"
     \/ WatchParked /\ \E u \in Updates : u.sig = BuySig(m)

\* t has to wait for a buy task that keeps its guard while it is in the manager.
BehindGuard(t) ==
  \/ task[t].pc = "build" /\ ReadLocked(IF t \in Mints THEN BuySig(t) ELSE SellSig(t))
  \/ task[t].pc = "unconfirmed" /\ ReadLocked(task[t].sig)

\* A sell task is in the manager after its sale has been confirmed.
Clears(t) == t \in Sells /\ task[t].pc = "confirmed"

Waits(t) ==
  \/ t \in Mints /\ Unanswered(t)
  \/ InManager(t) \/ Clears(t)
  \/ BehindGuard(t)

\* The pending map, the watch channels and tx_sem never hold each other up by
\* themselves.  When nobody can move, then buy tasks wait for an answer that does not
\* come, since they have no timeout (main.rs:308); buy or sell tasks are held up in the
\* manager, the buy task with its guard (main.rs:310-325, 415-421), and others behind
\* that guard; and whoever waits for a permit of tx_sem does so because all of them
\* are with such tasks.  No sell task waits for an answer.
HaltsOnlyOutside ==
  Halted =>
    /\ \A t \in Tasks : \/ task[t].pc \in {"idle", "acquire", "done", "gone", "panicked"}
                        \/ Waits(t)
    /\ (\E t \in Tasks : task[t].pc = "acquire")
         => Cardinality({t \in Tasks : Waits(t)}) = Permits

-----------------------------------------------------------------------------
\* main.rs:337 "ORDRE DE VENTE – retry loop jusqu'à Successed": a sell task goes
\* on until the sale is confirmed, whatever was lost, late or rejected on the way.
SellEventuallyEnds ==
  \A s \in Sells : task[s].pc = "acquire" ~> task[s].pc = "done"

\* That is so for the only sell task of a mint, unless lost buys keep all the
\* permits of tx_sem for ever.
Starved(s) ==
  /\ task[s].pc = "acquire" /\ permits = 0
  /\ Cardinality({m \in Mints : task[m].pc = "wait"}) = Permits

SellEndsOrStarves ==
  \A s \in Sells : task[s].pc = "acquire" ~> task[s].pc = "done" \/ []Starved(s)
=============================================================================
