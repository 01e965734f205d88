------------------------------- MODULE BuyGate -------------------------------
(***************************************************************************)
(* What the bot spends: the create branch of the main loop, which decides  *)
(* on a buy, and the test of wallet_balance that the buy task makes before *)
(* it sends.  No buy reserves what it is going to spend; the balance that  *)
(* is tested is the one of the last update that the watcher has stored.    *)
(*                                                                         *)
(* The update of a transaction reaches the watcher at any time after it    *)
(* has been executed, before or after those of later transactions, once,   *)
(* several times or never, and at times without its meta.                  *)
(***************************************************************************)
EXTENDS Integers, Sequences, FiniteSets

CONSTANTS
  Mints,
  Buys,       \* bound: names of the buy tasks
  Permits,    \* permits of tx_sem that the sell tasks leave to the buys
  MinFree,    \* MIN_FREE_BALANCE_SOL, 0.5 SOL
  Needed,     \* what the test takes for the cost of a buy, 0.001 SOL
  Cost,       \* the highest cost of a buy, 0.1 SOL and the slippage
  Fee,        \* the cost of a transaction that fails
  Deposit,    \* the balance at the start
  Proceeds,   \* what a sale brings
  MaxFailed,  \* bound: number of failed sells
  None

ASSUME GateAssumption ==
  /\ Permits \in Nat \ {0}
  /\ {MinFree, Needed, Cost, Fee, Deposit, Proceeds, MaxFailed} \subseteq Nat
  /\ Fee <= Cost
  /\ IsFiniteSet(Buys)
  /\ None \notin Buys \cup Mints

VARIABLES
  created,   \* keys of the map created
  loop,      \* the main loop: idle, or waiting for is_wallet_new with a mint
  buy,       \* the buy tasks
  permits,   \* permits left in tx_sem
  storedAt,  \* wallet_balance is the balance after this transaction (0: the first one read)
  chain,     \* chain: the executed transactions of the wallet
  failed,    \* chain: number of failed sells
  misled,    \* history: has a bare update ended a buy, or an older balance replaced a newer
  peak       \* history: most buys, the tested one included, that a passed test did not see

vars == <<created, loop, buy, permits, storedAt, chain, failed, misled, peak>>

-----------------------------------------------------------------------------
BuyPc  == {"none", "acquire", "sent", "landed", "told", "gone", "held", "sold", "purged"}

\* ok: the pending entry holds a success; at: the place of the transaction in chain.
Buy    == [pc : BuyPc, mint : Mints \cup {None}, ok : BOOLEAN, at : Nat]
Update == [of : Buys \cup {None}, post : Nat]

\* The balance of the wallet after the i-th transaction.
Balance(i) == IF i = 0 THEN Deposit ELSE chain[i].post
funds  == Balance(Len(chain))
stored == Balance(storedAt)

\* The buys that have passed the test and still hold their permit.
InFlight == {b \in Buys : buy[b].pc \in {"sent", "landed", "told"}}

\* The buys whose cost the i-th balance does not show: sent, or executed later.
Unseen(i) == {b \in Buys : buy[b].pc = "sent" \/ buy[b].at > i}

TypeOK ==
  /\ created \subseteq Mints
  /\ loop \in Mints \cup {None}
  /\ buy \in [Buys -> Buy]
  /\ permits \in 0 .. Permits
  /\ chain \in Seq(Update) /\ storedAt \in 0 .. Len(chain)
  /\ failed \in 0 .. MaxFailed
  /\ misled \in BOOLEAN /\ peak \in Nat

Init ==
  /\ created = {} /\ loop = None
  /\ buy = [b \in Buys |-> [pc |-> "none", mint |-> None, ok |-> FALSE, at |-> 0]]
  /\ permits = Permits
  /\ chain = <<>> /\ storedAt = 0
  /\ failed = 0
  /\ misled = FALSE /\ peak = 0

-----------------------------------------------------------------------------
(***************************************************************************)
(* The create branch                                                       *)
(***************************************************************************)
wallet  == <<storedAt, chain, failed>>
history == <<misled, peak>>

\* The developer's buy, in units of 0.1 SOL.
should_buy(sol) == sol \in 5 .. 40

\* The number of signatures of the developer's wallet; an error is none.
is_wallet_new(signatures) == signatures \in 1 .. 14

ReceiveCreate_blind(m, sol) ==    \* mutant: the map is not looked at
  /\ loop = None
  /\ should_buy(sol)
  /\ loop' = m
  /\ UNCHANGED <<created, buy, permits, wallet, history>>

ReceiveCreate(m, sol) ==
  /\ loop = None
  /\ m \notin created
  /\ should_buy(sol)
  /\ loop' = m
  /\ UNCHANGED <<created, buy, permits, wallet, history>>

Refuse(signatures) ==
  /\ loop # None
  /\ ~is_wallet_new(signatures) \/ stored < MinFree
  /\ loop' = None
  /\ UNCHANGED <<created, buy, permits, wallet, history>>

Spawn(signatures, b) ==
  /\ loop # None /\ buy[b].pc = "none"
  /\ is_wallet_new(signatures) /\ stored >= MinFree
  /\ created' = created \cup {loop}
  /\ buy' = [buy EXCEPT ![b].pc = "acquire", ![b].mint = loop]
  /\ loop' = None
  /\ UNCHANGED <<permits, wallet, history>>

-----------------------------------------------------------------------------
(***************************************************************************)
(* The buy task                                                            *)
(***************************************************************************)
Moves(b, pc) == buy' = [buy EXCEPT ![b].pc = pc]

Affordable_needed == stored >= Needed    \* mutant: nothing is kept free

Affordable == stored >= Needed + MinFree

\* The permit is returned at once, when the balance has become too low or the
\* transaction cannot be built.
GiveUp(b) ==
  /\ buy[b].pc = "acquire" /\ permits > 0
  /\ Moves(b, "gone")
  /\ UNCHANGED <<created, loop, permits, wallet, history>>

Passes(b) ==
  /\ buy[b].pc = "acquire" /\ permits > 0
  /\ Affordable
  /\ Moves(b, "sent")
  /\ peak' = IF Cardinality(Unseen(storedAt)) + 1 > peak
              THEN Cardinality(Unseen(storedAt)) + 1 ELSE peak
  /\ UNCHANGED <<created, loop, wallet, misled>>

Send_free(b) ==    \* mutant: the permit is dropped when the transaction is sent
  Passes(b) /\ UNCHANGED permits

Send(b) ==
  /\ Passes(b)
  /\ permits' = permits - 1

\* The task hears of its transaction, or of the end of its entry, and returns; when
\* it has heard of no success the mint stays in created.
Finish(b) ==
  /\ buy[b].pc = "told"
  /\ Moves(b, IF buy[b].ok THEN "held" ELSE "gone")
  /\ permits' = permits + 1
  /\ UNCHANGED <<created, loop, wallet, history>>

-----------------------------------------------------------------------------
(***************************************************************************)
(* The cluster (external)                                                  *)
(***************************************************************************)
Executes(of, post) ==
  /\ post >= 0
  /\ chain' = Append(chain, [of |-> of, post |-> post])
  /\ UNCHANGED <<created, loop, permits, storedAt, history>>

Land(b, ok) ==
  /\ buy[b].pc = "sent"
  /\ buy' = [buy EXCEPT ![b].pc = "landed", ![b].ok = ok, ![b].at = Len(chain) + 1]
  /\ Executes(b, funds - (IF ok THEN Cost ELSE Fee))
  /\ UNCHANGED failed

SellFails(b) ==
  /\ buy[b].pc = "held"
  /\ failed < MaxFailed
  /\ failed' = failed + 1
  /\ Executes(None, funds - Fee)
  /\ UNCHANGED buy

Sale(b) ==
  /\ buy[b].pc = "held"
  /\ Moves(b, "sold")
  /\ Executes(None, funds + Proceeds)
  /\ UNCHANGED failed

\* A sell task has heard of the sale.  Every sell task of the mint does this, a late
\* one perhaps when the mint has been bought again.
Purge(b) ==
  /\ buy[b].pc \in {"sold", "purged"}
  /\ Moves(b, "purged")
  /\ created' = created \ {buy[b].mint}
  /\ UNCHANGED <<loop, permits, wallet, history>>

-----------------------------------------------------------------------------
(***************************************************************************)
(* The watcher                                                             *)
(***************************************************************************)
\* The entry of a buy goes when it fails or when an update has no meta, and stays
\* after a success; that of a sell may be there or not.
HasEntry(b) == b # None => buy[b].pc = "landed" \/ buy[b].ok

Told(b) == IF b # None /\ buy[b].pc = "landed" THEN [buy EXCEPT ![b].pc = "told"] ELSE buy

Store_after(i) ==    \* mutant: the balance is not stored for a buy
  /\ storedAt' = IF chain[i].of = None THEN i ELSE storedAt
  /\ buy' = Told(chain[i].of)
  /\ misled' = (misled \/ storedAt' < storedAt)

\* The balance is stored before the task is notified.
Store(i) ==
  /\ storedAt' = i
  /\ buy' = Told(chain[i].of)
  /\ misled' = (misled \/ storedAt' < storedAt)

Watch(i) ==
  /\ HasEntry(chain[i].of)
  /\ Store(i)
  /\ UNCHANGED <<created, loop, permits, chain, failed, peak>>

\* Without meta: nothing is stored and the entry is removed, whose Sender the task waits
\* for.
WatchBare(i) ==
  LET b == chain[i].of IN
    /\ b # None /\ HasEntry(b)
    /\ buy' = [Told(b) EXCEPT ![b].ok = FALSE]
    /\ misled' = (misled \/ buy[b].pc = "landed")
    /\ UNCHANGED <<created, loop, permits, wallet, peak>>

-----------------------------------------------------------------------------
Next ==
  \/ \E m \in Mints, sol \in {4, 5, 40, 41} : ReceiveCreate(m, sol)
  \/ \E n \in {0, 14, 15} : Refuse(n) \/ \E b \in Buys : Spawn(n, b)
  \/ \E b \in Buys :
       \/ GiveUp(b) \/ Send(b) \/ Finish(b)
       \/ Land(b, TRUE) \/ Land(b, FALSE)
       \/ SellFails(b) \/ Sale(b) \/ Purge(b)
  \/ \E i \in 1 .. Len(chain) : Watch(i) \/ WatchBare(i)

Spec == Init /\ [][Next]_vars

-----------------------------------------------------------------------------
(***************************************************************************)
(* Properties                                                              *)
(***************************************************************************)
\* main.rs:278-282: the test of each buy counts on 0.001 SOL and the buys do not
\* see each other, so nothing keeps 0.5 SOL free.  What holds, in whatever order the
\* updates come and whatever they lack, is that the wallet goes below the tested amount
\* by no more than the real cost of the buys that the balance of one passed test did
\* not show, itself included, and the fees of the failed sells.
OverdraftIsBounded ==
  peak > 0 => funds + peak * Cost + failed * Fee >= MinFree + Needed

\* Those buys are no more than the permits of tx_sem, because a buy keeps its permit
\* until its own balance has been stored (transaction_verifier.rs:108, before the
\* notification at 123) - unless an update without meta has returned the permit, or an
\* older balance has replaced a newer one: then nothing bounds their number.
UnseenHoldPermits == ~misled => peak <= Permits

\* Two buys hold a mint at a time only if a third one of it has been sold before: created
\* is read before the RPC of is_wallet_new and written after it (main.rs:245-263), buys
\* give up or fail, and a late sell task removes the mint of a later buy (main.rs:420).
BoughtOnce ==
  \A b, c \in Buys :
    /\ b # c
    /\ buy[b].mint = buy[c].mint /\ buy[b].mint # None
    /\ "purged" \notin {buy[b].pc, buy[c].pc}
    => \E d \in Buys : buy[d].mint = buy[b].mint /\ buy[d].pc = "purged"
=============================================================================
