--------------------------- MODULE TxConfirmProofs ---------------------------
(***************************************************************************)
(* Proofs about TxConfirm for every number of mints, sell tasks, permits   *)
(* and blockhashes, with and without losses, bare and malformed updates.   *)
(***************************************************************************)
EXTENDS TxConfirm, FiniteSetTheorems, TLAPS

(***************************************************************************)
(* The invariant                                                           *)
(***************************************************************************)
\* The manager has been given an amount that a worker can order to sell.
Sold(m) == Reported(m) /\ task[m].qty \in Nat \ {0, None}

\* The buy task of m has been told of a success and has not read the amount.
Told(m) == task[m].note = "Successed" \/ task[m].pc = "confirmed"

\* Some update of its transaction has reached the buy task of m.
Heard(m) == task[m].note # "none" \/ task[m].pc \in {"confirmed", "telling", "starting", "done"}

Locked(g) == watcher.pc = "notified" /\ watcher.update.sig = g

\* A buy is sent and executed once, after its entry has been inserted.
BuyLandsOnce(m) ==
  LET g == BuySig(m) IN
  /\ task[m].pc \in {"send", "wait", "confirmed", "telling", "starting"} => task[m].sig = g
  /\ g \in sent \cup landed => task[m].pc \notin {"acquire", "build", "send"}
  /\ ~(g \in sent /\ g \in landed)
  /\ Heard(m) => g \in landed

\* What the chain has done to the account of m.
Account(m) ==
  /\ BuySig(m) \notin landed => tokens[m] = None /\ bought[m] = 0
  /\ tokens[m] \in {None, bought[m]}

\* The entry of a buy holds zero until the amount has been recorded.
BuyEntry(m) ==
  LET e == pending[BuySig(m)] IN
  /\ e # None => e.owner = m /\ e.qty \in {0, bought[m]}
  /\ Told(m) => e # None \/ Bare
  /\ Told(m) /\ e # None /\ watcher.pc # "dead" /\ ~Locked(BuySig(m))
       => e.qty = bought[m]

BuyReport(m) ==
  Reported(m) /\ task[m].qty # None
    => task[m].qty = bought[m] \/ (task[m].qty = 0 /\ watcher.pc = "dead")

BuyOK(m) == BuyLandsOnce(m) /\ Account(m) /\ BuyEntry(m) /\ BuyReport(m)

SellOK(s) ==
  /\ task[s].pc \in {"send", "wait", "confirmed", "unconfirmed"} =>
       task[s].sig \in Sigs /\ task[s].sig.kind = "sell" /\ task[s].sig.mint = SoldMint[s]
  /\ task[s].pc # "idle" => Sold(SoldMint[s]) /\ task[s].qty = task[SoldMint[s]].qty
  /\ task[s].note # "none" => task[s].pc # "idle"
  /\ task[s].note = "Successed" \/ task[s].pc \in {"confirmed", "done"} =>
       tokens[SoldMint[s]] = None

\* An update says what its execution has done.
UpdateOK(u) ==
  LET m == u.sig.mint IN
  /\ u.sig.kind = "buy" =>
       /\ u.sig \in landed
       /\ IF u.status = "ok" THEN u.qty = bought[m] ELSE bought[m] = 0
       /\ Told(m) => u.status # "err"
  /\ u.sig.kind = "sell" => Sold(m) /\ (u.status # "err" => tokens[m] = None)

\* A buy is executed once, so its updates agree.
SameStatus ==
  \A u, v \in Updates : u.sig = v.sig /\ u.sig.kind = "buy" => u.status = v.status

SentOK == \A g \in sent : g.kind = "sell" => Sold(g.mint)

WatchOK ==
  /\ watcher.pc \in {"lookup", "notified", "remove"} => watcher.update \in Update
  /\ watcher.pc = "notified" => pending[watcher.update.sig] # None
  /\ watcher.pc = "remove" => Bare \/ watcher.update.status = "err"

Linked ==
  /\ \A m \in Mints : BuyOK(m)
  /\ \A s \in Sells : SellOK(s)
  /\ \A u \in Updates : UpdateOK(u)
  /\ SameStatus /\ SentOK /\ WatchOK

\* The tasks that have a permit.
HoldingPc == {"build", "send", "wait", "confirmed", "telling", "starting",
              "unconfirmed"}

Holders == {t \in Tasks : task[t].pc \in HoldingPc}

PermitsOK ==
  /\ IsFiniteSet(Holders)
  /\ permits \in Nat
  /\ Cardinality(Holders) + permits = Permits

Inv == TypeOK /\ PermitsOK /\ Linked

(***************************************************************************)
(* Facts about the types                                                   *)
(***************************************************************************)
LEMMA TaskNames ==
  /\ Mints \subseteq Tasks /\ Sells \subseteq Tasks
  /\ \A m \in Mints : m \notin Sells
  /\ \A s \in Sells : SoldMint[s] \in Mints
  BY ConfirmAssumption DEF Tasks

LEMMA SigKinds ==
  /\ \A m \in Mints : BuySig(m) \in Sigs /\ BuySig(m).kind = "buy" /\ BuySig(m).mint = m
  /\ \A g \in Sigs : g.mint \in Mints /\ g.kind \in {"buy", "sell"}
                       /\ (g.kind = "buy" => g = BuySig(g.mint))
<1>1. \A m \in Mints : BuySig(m) \in Sigs /\ BuySig(m).kind = "buy" /\ BuySig(m).mint = m
  BY DEF BuySig, Sigs
<1>2. ASSUME NEW g \in Sigs
      PROVE  g.mint \in Mints /\ g.kind \in {"buy", "sell"}
               /\ (g.kind = "buy" => g = BuySig(g.mint))
  <2>1. CASE g \in [kind : {"buy"}, mint : Mints, bh : {0}]
    BY <2>1 DEF BuySig
  <2>2. CASE g \in [kind : {"sell"}, mint : Mints, bh : 0 .. Hashes - 1]
    BY <2>2
  <2> QED
    BY <2>1, <2>2 DEF Sigs
<1> QED
  BY <1>1, <1>2

LEMMA Remainder ==
  ASSUME NEW a \in Nat, NEW b \in Nat \ {0}
  PROVE  a % b \in 0 .. b - 1
  OBVIOUS

LEMMA SellSigTyped ==
  ASSUME TypeOK, NEW s \in Sells
  PROVE  SellSig(s) \in Sigs /\ SellSig(s).kind = "sell" /\ SellSig(s).mint = SoldMint[s]
  BY TaskNames DEF TypeOK, SellSig, Sigs

LEMMA UpdatesTyped ==
  ASSUME TypeOK, WatchOK
  PROVE  \A u \in Updates : u \in Update /\ u.sig \in Sigs /\ u.status \in Status /\ u.qty \in Nat
  BY DEF TypeOK, WatchOK, Updates, Update

LEMMA LockedSig ==
  ASSUME Inv, watcher.pc = "notified"
  PROVE  watcher.update \in Update /\ watcher.update.sig \in Sigs
  BY DEF Inv, Linked, WatchOK, Update

(***************************************************************************)
(* The two transactions                                                    *)
(***************************************************************************)
LEMMA BuyOutcome ==
  ASSUME TypeOK, NEW m \in Mints, NEW q \in Nat
  PROVE  LET r == Outcome(buy_transaction, m, q) IN
         /\ r.status \in Status
         /\ r.status = "ok" => r.holds = q /\ tokens[m] = None
<1> DEFINE n == tokens[m]
           first == Instruction("budget", Holding(n), q)
           second == Instruction("create", first, q)
           third == Instruction("buy", second, q)
<1>1. first = Holding(n) /\ Holding(n).status = "ok" /\ Holding(n).holds = n
  BY DEF Instruction, Holding
<1>2. second = IF n = None THEN Holding(0) ELSE Error("err")
  BY <1>1 DEF Instruction
<1>3. third = IF n = None THEN (IF 0 = None THEN Error("3012") ELSE Holding(0 + q))
              ELSE Error("err")
  <2>1. CASE n = None
    <3>1. second.status = "ok" /\ second.holds = 0
      BY <1>2, <2>1 DEF Holding
    <3> HIDE DEF second
    <3> QED
      BY <2>1, <3>1 DEF Instruction
  <2>2. CASE n # None
    <3>1. second = Error("err") /\ second.status = "err"
      BY <1>2, <2>2 DEF Error
    <3> HIDE DEF second
    <3> QED
      BY <2>2, <3>1 DEF Instruction
  <2> QED
    BY <2>1, <2>2
<1>4. Outcome(buy_transaction, m, q) = third
  BY DEF Outcome, buy_transaction
<1>5. third.status \in Status /\ (third.status = "ok" => third.holds = q /\ n = None)
  BY <1>3 DEF Holding, Error, Status
<1> HIDE DEF third
<1> QED
  BY <1>4, <1>5

LEMMA SellOutcome ==
  ASSUME TypeOK, NEW m \in Mints, NEW q \in Nat
  PROVE  LET r == Outcome(sell_transaction, m, q) IN
         /\ r.status \in Status
         /\ r.status = "ok" => r.holds = None
         /\ r.status = "3012" => tokens[m] = None
<1> DEFINE n == tokens[m]
           first == Instruction("budget", Holding(n), q)
           second == Instruction("sell", first, q)
           third == Instruction("close", second, q)
<1>1. first = Holding(n) /\ Holding(n).status = "ok" /\ Holding(n).holds = n
  BY DEF Instruction, Holding
<1>2. second = IF n = None THEN Error("3012")
               ELSE IF n < q THEN Error("err") ELSE Holding(n - q)
  BY <1>1 DEF Instruction
<1>3. third = IF n = None THEN Error("3012")
              ELSE IF n < q THEN Error("err")
              ELSE IF n - q = 0 THEN Holding(None) ELSE Error("err")
  <2>1. CASE n = None \/ n < q
    <3>1. second.status # "ok" /\ second = IF n = None THEN Error("3012") ELSE Error("err")
      BY <1>2, <2>1 DEF Error
    <3> HIDE DEF second
    <3> QED
      BY <2>1, <3>1 DEF Instruction
  <2>2. CASE n # None /\ ~(n < q)
    <3>1. second.status = "ok" /\ second.holds = n - q
      BY <1>2, <2>2 DEF Holding
    <3> HIDE DEF second
    <3> QED
      BY <2>2, <3>1 DEF Instruction
  <2> QED
    BY <2>1, <2>2
<1>4. Outcome(sell_transaction, m, q) = third
  BY DEF Outcome, sell_transaction
<1>5. /\ third.status \in Status
      /\ third.status = "ok" => third.holds = None
      /\ third.status = "3012" => n = None
  BY <1>3 DEF Holding, Error, Status
<1> HIDE DEF third
<1> QED
  BY <1>4, <1>5

(***************************************************************************)
(* The initial states, and what a step leaves alone                        *)
(***************************************************************************)
LEMMA InitHolds == Init => Inv
<1> SUFFICES ASSUME Init PROVE Inv
  OBVIOUS
<1>1. TypeOK
  BY ConfirmAssumption DEF Init, TypeOK, Tasks, Task, TaskPc, WatchPc
<1>2. \A m \in Mints : BuyOK(m)
  BY TaskNames, SigKinds
  DEF Init, BuyOK, BuyLandsOnce, Heard, Account, BuyEntry, Told, BuyReport, Reported, InManager
<1>3. \A s \in Sells : SellOK(s)
  BY TaskNames DEF Init, SellOK
<1>4. Updates = {}
  BY DEF Init, Updates
<1>5. SentOK /\ WatchOK
  BY DEF Init, SentOK, WatchOK
<1>6. PermitsOK
  <2>1. Holders = {}
    BY DEF Init, Holders, HoldingPc, Tasks
  <2> QED
    BY <2>1, FS_EmptySet, ConfirmAssumption DEF Init, PermitsOK
<1> QED
  BY <1>1, <1>2, <1>3, <1>4, <1>5, <1>6 DEF Inv, Linked, SameStatus

\* A buy that no part of the step is about.
LEMMA BuyKept ==
  ASSUME NEW m \in Mints, BuyOK(m), task'[m] = task[m],
         BuySig(m) \in sent' => BuySig(m) \in sent,
         BuySig(m) \in landed' <=> BuySig(m) \in landed,
         pending'[BuySig(m)] = pending[BuySig(m)], UNCHANGED watcher,
         tokens'[m] \in {tokens[m], None}, bought'[m] = bought[m]
  PROVE  BuyOK(m)'
<1>1. BuyLandsOnce(m)'
  BY DEF BuyOK, BuyLandsOnce, Heard, BuySig
<1>2. Account(m)'
  BY DEF BuyOK, Account, BuySig
<1>3. BuyEntry(m)'
  BY DEF BuyOK, BuyEntry, Told, Locked, BuySig
<1>4. BuyReport(m)'
  BY DEF BuyOK, BuyReport, Reported, InManager
<1> QED
  BY <1>1, <1>2, <1>3, <1>4 DEF BuyOK

\* A sell task that no part of the step is about; its account may be closed.
LEMMA SellKept ==
  ASSUME NEW s \in Sells, SellOK(s), task'[s] = task[s],
         Sold(SoldMint[s]) => Sold(SoldMint[s])'
                                /\ task'[SoldMint[s]].qty = task[SoldMint[s]].qty,
         tokens[SoldMint[s]] = None => tokens'[SoldMint[s]] = None
  PROVE  SellOK(s)'
  BY DEF SellOK

\* An update whose mint has not been told meanwhile.
LEMMA UpdateKept ==
  ASSUME NEW u, UpdateOK(u), u.sig \in landed => u.sig \in landed',
         u.sig.kind = "buy" => bought'[u.sig.mint] = bought[u.sig.mint]
                                 /\ (Told(u.sig.mint)' => Told(u.sig.mint)),
         u.sig.kind = "sell" => (Sold(u.sig.mint) => Sold(u.sig.mint)')
           /\ (tokens[u.sig.mint] = None => tokens'[u.sig.mint] = None)
  PROVE  UpdateOK(u)'
  BY DEF UpdateOK

(***************************************************************************)
(* The steps of the sell tasks                                             *)
(***************************************************************************)
LEMMA SellTaskStep ==
  ASSUME Inv, NEW s \in Sells, SellOK(s)',
         UNCHANGED <<watcher, landed, wire, lost, tokens, bought>>,
         \A t \in Tasks \ {s} : task'[t] = task[t],
         \A g \in sent' \ sent : g \in Sigs /\ g.kind = "sell" /\ Sold(g.mint),
         \A m \in Mints : pending'[BuySig(m)] = pending[BuySig(m)],
         watcher.pc = "notified" => pending'[watcher.update.sig] = pending[watcher.update.sig]
  PROVE  Linked'
<1> USE DEF Inv, Linked
<1>0. \A m \in Mints : task'[m] = task[m]
  BY TaskNames
<1>1. \A m \in Mints : BuyOK(m)'
  <2> SUFFICES ASSUME NEW m \in Mints PROVE BuyOK(m)'
    OBVIOUS
  <2>1. BuySig(m) \in sent' => BuySig(m) \in sent
    BY SigKinds
  <2> QED
    BY <1>0, <2>1, BuyKept
<1>2. \A x \in Sells : SellOK(x)'
  <2> SUFFICES ASSUME NEW x \in Sells, x # s PROVE SellOK(x)'
    OBVIOUS
  <2> QED
    BY <1>0, TaskNames, SellKept DEF Sold, Reported, InManager
<1>3. Updates' = Updates
  BY DEF Updates
<1>4. \A u \in Updates : UpdateOK(u)'
  <2> SUFFICES ASSUME NEW u \in Updates PROVE UpdateOK(u)'
    OBVIOUS
  <2>1. u.sig.mint \in Mints
    BY UpdatesTyped, SigKinds
  <2>2. (Told(u.sig.mint)' <=> Told(u.sig.mint)) /\ (Sold(u.sig.mint)' <=> Sold(u.sig.mint))
    BY <1>0, <2>1 DEF Told, Sold, Reported, InManager
  <2> QED
    BY <2>2, UpdateKept
<1>5. SameStatus'
  BY <1>3 DEF SameStatus
<1>6. SentOK'
  <2> SUFFICES ASSUME NEW g \in sent', g.kind = "sell" PROVE Sold(g.mint)'
    BY DEF SentOK
  <2>1. Sold(g.mint)
    BY DEF SentOK
  <2>2. g.mint \in Mints
    <3>1. CASE g \in sent
      BY <3>1, SigKinds DEF TypeOK
    <3>2. CASE g \notin sent
      BY <3>2, SigKinds
    <3> QED
      BY <3>1, <3>2
  <2> QED
    BY <1>0, <2>1, <2>2 DEF Sold, Reported, InManager
<1>7. WatchOK'
  BY DEF WatchOK
<1> QED
  BY <1>1, <1>2, <1>3, <1>4, <1>5, <1>6, <1>7

\* What a sell task does to itself: TypeOK and SellOK of the task.
LEMMA SellTaskTyped ==
  ASSUME TypeOK, NEW s \in Sells, NEW k \in Task,
         UNCHANGED <<bh, watcher, landed, wire, lost, tokens, bought>>,
         task' = [task EXCEPT ![s] = k],
         permits' \in 0 .. Permits, sent' \in SUBSET Sigs,
         pending' \in [Sigs -> Entry \cup {None}]
  PROVE  TypeOK' /\ task'[s] = k /\ \A t \in Tasks \ {s} : task'[t] = task[t]
  BY TaskNames DEF TypeOK

\* A task that has started keeps its order.
LEMMA SellGoesOn ==
  ASSUME Inv, NEW s \in Sells, NEW k \in Task, task[s].pc # "idle",
         UNCHANGED <<bh, watcher, landed, wire, lost, tokens, bought>>,
         task' = [task EXCEPT ![s] = k], k.pc # "idle", k.qty = task[s].qty,
         k.pc \in {"send", "wait", "confirmed", "unconfirmed"} =>
           k.sig \in Sigs /\ k.sig.kind = "sell" /\ k.sig.mint = SoldMint[s],
         k.note = "Successed" \/ k.pc \in {"confirmed", "done"} =>
           tokens[SoldMint[s]] = None,
         permits' \in 0 .. Permits,
         sent' \in SUBSET Sigs,
         \A g \in sent' \ sent : g.kind = "sell" /\ g.mint = SoldMint[s],
         pending' \in [Sigs -> Entry \cup {None}],
         \A m \in Mints : pending'[BuySig(m)] = pending[BuySig(m)],
         watcher.pc = "notified" => pending'[watcher.update.sig] = pending[watcher.update.sig]
  PROVE  TypeOK' /\ Linked'
<1>1. TypeOK' /\ task'[s] = k /\ \A t \in Tasks \ {s} : task'[t] = task[t]
  BY SellTaskTyped DEF Inv
<1>2. Sold(SoldMint[s]) /\ task[s].qty = task[SoldMint[s]].qty
  BY DEF Inv, Linked, SellOK
<1>3. SellOK(s)'
  BY <1>1, <1>2, TaskNames DEF SellOK, Sold, Reported, InManager
<1>4. \A g \in sent' \ sent : g \in Sigs /\ g.kind = "sell" /\ Sold(g.mint)
  BY <1>2
<1> QED
  BY <1>1, <1>3, <1>4, SellTaskStep DEF Inv

\* The record that EXCEPT makes of a task.
LEMMA TaskFields ==
  ASSUME TypeOK, NEW t \in Tasks
  PROVE  task[t] \in Task /\ task \in [Tasks -> Task]
  BY DEF TypeOK

\* What is left of a task that has returned.
LEMMA Returned ==
  ASSUME TypeOK, NEW t \in Tasks, NEW pc \in TaskPc, Return(t, pc)
  PROVE  \E k \in Task : /\ k.pc = pc /\ k.note = "none" /\ k.qty = task[t].qty
                         /\ task' = [task EXCEPT ![t] = k]
<1> DEFINE k == [task[t] EXCEPT !.pc = pc, !.note = "none", !.sig = None, !.attempt = 0]
<1>1. task \in [Tasks -> Task] /\ task[t] \in Task
  BY TaskFields
<1>2. k \in Task /\ k.pc = pc /\ k.note = "none" /\ k.qty = task[t].qty
  <2>1. 0 \in 0 .. AttemptMax
    BY ConfirmAssumption
  <2> QED
    BY <1>1, <2>1 DEF Task
<1>3. task' = [task EXCEPT ![t] = k]
  BY <1>1 DEF Return
<1> HIDE DEF k
<1> QED
  BY <1>2, <1>3

LEMMA NextAttemptTyped ==
  ASSUME TypeOK, NEW s \in Sells
  PROVE  NextAttempt(s) \in 0 .. AttemptMax
<1>1. task[s].attempt \in 0 .. AttemptMax /\ AttemptMax \in Nat
  BY TaskNames, TaskFields, ConfirmAssumption DEF Task
<1>2. (task[s].attempt + 1) % (AttemptMax + 1) \in 0 .. (AttemptMax + 1) - 1
  <2>1. task[s].attempt + 1 \in Nat /\ AttemptMax + 1 \in Nat \ {0}
    BY <1>1
  <2> QED
    BY <2>1, Remainder
<1> QED
  BY <1>1, <1>2 DEF NextAttempt

LEMMA PermitsTyped ==
  ASSUME PermitsOK'
  PROVE  permits' \in 0 .. Permits
<1>1. Cardinality(Holders') \in Nat
  BY FS_CardinalityType DEF PermitsOK
<1> QED
  BY <1>1, ConfirmAssumption DEF PermitsOK

LEMMA SellSteps ==
  ASSUME Inv, PermitsOK', NEW s \in Sells, SellStarts(s) \/ SellStep(s)
  PROVE  TypeOK' /\ Linked'
<1> USE DEF Inv
<1> DEFINE old == task[s]
           g == task[s].sig
<1>0. old \in Task /\ task \in [Tasks -> Task] /\ s \in Tasks /\ SoldMint[s] \in Mints
  BY TaskNames, TaskFields
<1>1. SellOK(s) /\ TypeOK
  BY DEF Linked
<1>2. /\ permits' \in 0 .. Permits /\ sent \in SUBSET Sigs
      /\ pending \in [Sigs -> Entry \cup {None}]
  BY PermitsTyped DEF TypeOK
<1>3. CASE SellStarts(s)
  <2> DEFINE k == [old EXCEPT !.pc = "acquire", !.qty = task[SoldMint[s]].qty]
  <2>1. task' = [task EXCEPT ![s] = k] /\ k \in Task
    BY <1>0, <1>3, TaskNames, TaskFields DEF SellStarts, Task, TaskPc
  <2>2. TypeOK' /\ task'[s] = k /\ \A t \in Tasks \ {s} : task'[t] = task[t]
    <3> HIDE DEF k
    <3> QED
      BY <1>2, <1>3, <2>1, SellTaskTyped DEF SellStarts, chain
  <2>3. SellOK(s)'
    <3>1. /\ k.pc = "acquire" /\ k.note = old.note /\ k.qty = task[SoldMint[s]].qty
      BY <1>0 DEF Task
    <3>2. old.note = "none"
      BY <1>0, <1>1, <1>3 DEF SellStarts, SellOK
    <3>3. Sold(SoldMint[s])' /\ task'[SoldMint[s]] = task[SoldMint[s]]
      <4>1. SoldMint[s] \in Tasks /\ SoldMint[s] # s
        BY TaskNames
      <4>2. task[SoldMint[s]].qty \in Nat \cup {None}
        BY <4>1, TaskFields DEF Task
      <4> QED
        BY <1>3, <2>2, <4>1, <4>2 DEF SellStarts, Sold, Reported, InManager
    <3> HIDE DEF k
    <3> QED
      BY <2>2, <3>1, <3>2, <3>3 DEF SellOK
  <2> QED
    BY <1>3, <2>2, <2>3, SellTaskStep DEF SellStarts, chain
<1>4. ASSUME task[s].pc # "idle", NEW k \in Task, task' = [task EXCEPT ![s] = k],
             UNCHANGED <<bh, pending, watcher, chain>>,
             k.pc # "idle", k.qty = old.qty,
             k.pc \in {"send", "wait", "confirmed", "unconfirmed"} =>
               k.sig = g /\ old.pc \in {"send", "wait", "confirmed", "unconfirmed"},
             k.note = "Successed" \/ k.pc \in {"confirmed", "done"} =>
               old.note = "Successed" \/ old.pc \in {"confirmed", "done"}
      PROVE  TypeOK' /\ Linked'
  <2>1. /\ k.pc \in {"send", "wait", "confirmed", "unconfirmed"} =>
             k.sig \in Sigs /\ k.sig.kind = "sell" /\ k.sig.mint = SoldMint[s]
        /\ k.note = "Successed" \/ k.pc \in {"confirmed", "done"} =>
             tokens[SoldMint[s]] = None
    BY <1>1, <1>4 DEF SellOK
  <2> QED
    BY <1>2, <1>4, <2>1, SellGoesOn DEF chain
<1>5. CASE Acquire(s)
  <2> DEFINE k == [old EXCEPT !.pc = "build"]
  <2>1. /\ task' = [task EXCEPT ![s] = k] /\ k \in Task /\ k.pc = "build"
        /\ k.qty = old.qty /\ k.note = old.note
    BY <1>0, <1>5 DEF Acquire, Task, TaskPc
  <2> HIDE DEF k
  <2> QED
    BY <1>4, <1>5, <2>1 DEF Acquire
<1>6. CASE SellPanics(s) \/ SellEnds(s)
  <2> DEFINE pc == IF SellEnds(s) THEN "done" ELSE "panicked"
  <2>0. Return(s, pc) /\ pc \in TaskPc
    BY <1>6 DEF SellPanics, SellEnds, TaskPc
  <2>1. PICK k \in Task : /\ k.pc = pc /\ k.note = "none" /\ k.qty = old.qty
                         /\ task' = [task EXCEPT ![s] = k]
    BY <1>0, <2>0, Returned
  <2>3. (SellEnds(s) => old.pc = "confirmed") /\ old.pc # "idle"
    BY <1>6 DEF SellPanics, SellEnds
  <2>2. UNCHANGED <<bh, pending, watcher, chain>>
    BY <1>6 DEF SellPanics, SellEnds
  <2> QED
    BY <1>4, <2>1, <2>2, <2>3
<1>7. CASE SellBuildFails(s)
  <2> DEFINE k == [old EXCEPT !.attempt = NextAttempt(s)]
  <2>1. NextAttempt(s) \in 0 .. AttemptMax
    BY NextAttemptTyped
  <2>2. /\ task' = [task EXCEPT ![s] = k] /\ k \in Task /\ k.pc = "build"
        /\ k.qty = old.qty /\ k.note = old.note
    BY <1>0, <1>7, <2>1 DEF SellBuildFails, Task, TaskPc
  <2> HIDE DEF k
  <2> QED
    BY <1>4, <1>7, <2>2 DEF SellBuildFails
<1>8. CASE SellHears(s) \/ SellHangsUp(s) \/ SellTimesOut(s)
  <2> DEFINE pc == IF SellHears(s) /\ old.note = "Successed" THEN "confirmed"
                   ELSE "unconfirmed"
             k == [old EXCEPT !.note = "none", !.pc = pc]
  <2>1. /\ k \in Task /\ k.pc = pc /\ k.note = "none" /\ k.qty = old.qty
        /\ k.sig = g /\ old.pc = "wait"
    BY <1>0, <1>8 DEF SellHears, SellHangsUp, SellTimesOut, Task, TaskPc
  <2>2. task' = [task EXCEPT ![s] = k]
    <3>1. CASE SellHears(s)
      BY <1>0, <3>1 DEF SellHears, Task
    <3>2. CASE ~SellHears(s)
      <4>1. old.note = "none" /\ pc = "unconfirmed"
        BY <1>8, <3>2 DEF SellHangsUp, SellTimesOut
      <4>2. k = [old EXCEPT !.pc = "unconfirmed"]
        BY <1>0, <4>1 DEF Task
      <4> HIDE DEF k
      <4> QED
        BY <1>0, <1>8, <3>2, <4>2 DEF SellHangsUp, SellTimesOut
    <3> QED
      BY <3>1, <3>2
  <2>3. UNCHANGED <<bh, pending, watcher, chain>>
    BY <1>8 DEF SellHears, SellHangsUp, SellTimesOut
  <2> HIDE DEF k
  <2> QED
    BY <1>4, <2>1, <2>2, <2>3
<1>9. CASE SellInserts(s)
  <2> DEFINE new == SellSig(s)
             k == [old EXCEPT !.pc = "send", !.sig = new, !.note = "none",
                              !.attempt = NextAttempt(s)]
             e == [owner |-> s, qty |-> old.qty]
  <2>1. NextAttempt(s) \in 0 .. AttemptMax
    BY NextAttemptTyped
  <2>2. new \in Sigs /\ new.kind = "sell" /\ new.mint = SoldMint[s]
    BY <1>1, SellSigTyped
  <2>3. /\ k \in Task /\ k.pc = "send" /\ k.note = "none" /\ k.qty = old.qty
        /\ k.sig = new
    BY <1>0, <2>1, <2>2 DEF Task, TaskPc
  <2>4. task' = [task EXCEPT ![s] = k] /\ old.pc = "build"
    BY <1>0, <1>9 DEF SellInserts, InsertPending, Task
  <2>5. e \in Entry
    <3>1. old.qty \in Nat
      BY <1>1, <2>4 DEF SellOK, Sold, Reported, InManager
    <3> QED
      BY <1>0, <3>1 DEF Entry
  <2>6. pending' = [pending EXCEPT ![new] = e]
    BY <1>9, TaskNames DEF SellInserts, InsertPending
  <2>7. /\ pending' \in [Sigs -> Entry \cup {None}]
        /\ \A m \in Mints : pending'[BuySig(m)] = pending[BuySig(m)]
        /\ watcher.pc = "notified" =>
             pending'[watcher.update.sig] = pending[watcher.update.sig]
    BY <1>2, <1>9, <2>2, <2>5, <2>6, SigKinds, LockedSig
    DEF SellInserts, InsertPending, Writable, Unlocked
  <2>8. UNCHANGED <<bh, watcher, chain>>
    BY <1>9 DEF SellInserts
  <2> HIDE DEF k
  <2> QED
    BY <1>2, <2>2, <2>3, <2>4, <2>7, <2>8, SellGoesOn DEF chain
<1>10. CASE SellSends(s) \/ SellSendsInVain(s)
  <2> DEFINE k == [old EXCEPT !.pc = "wait"]
  <2>1. /\ k \in Task /\ k.pc = "wait" /\ k.note = old.note /\ k.qty = old.qty
        /\ k.sig = g /\ old.pc = "send"
    BY <1>0, <1>10 DEF SellSends, SellSendsInVain, Task, TaskPc
  <2>2. task' = [task EXCEPT ![s] = k]
    BY <1>10 DEF SellSends, SellSendsInVain
  <2>3. /\ g \in Sigs /\ g.kind = "sell" /\ g.mint = SoldMint[s]
        /\ old.note = "Successed" => tokens[SoldMint[s]] = None
    BY <1>1, <2>1 DEF SellOK
  <2>4. sent' \in SUBSET Sigs /\ \A h \in sent' \ sent : h = g
    BY <1>2, <1>10, <2>3 DEF SellSends, SellSendsInVain, chain
  <2>5. UNCHANGED <<bh, pending, watcher, landed, wire, lost, tokens, bought>>
    BY <1>10 DEF SellSends, SellSendsInVain, chain
  <2> HIDE DEF k
  <2> QED
    BY <1>2, <2>1, <2>2, <2>3, <2>4, <2>5, SellGoesOn
<1>11. CASE SellSendFails(s) \/ SellRemoves(s)
  <2> DEFINE k == [old EXCEPT !.pc = "build", !.note = "none"]
  <2>1. /\ k \in Task /\ k.pc = "build" /\ k.note = "none" /\ k.qty = old.qty
        /\ old.pc \in {"send", "unconfirmed"}
    BY <1>0, <1>11 DEF SellSendFails, SellRemoves, Task, TaskPc
  <2>2. task' = [task EXCEPT ![s] = k]
    BY <1>0, <1>11 DEF SellSendFails, SellRemoves, Task
  <2>3. g \in Sigs /\ g.kind = "sell" /\ g.mint = SoldMint[s]
    BY <1>1, <2>1 DEF SellOK
  <2>4. sent' \in SUBSET Sigs /\ \A h \in sent' \ sent : h = g
    BY <1>2, <1>11, <2>3 DEF SellSendFails, SellRemoves, chain
  <2>5. pending' = [pending EXCEPT ![g] = None]
    BY <1>11 DEF SellSendFails, SellRemoves
  <2>6. /\ pending' \in [Sigs -> Entry \cup {None}]
        /\ \A m \in Mints : pending'[BuySig(m)] = pending[BuySig(m)]
        /\ watcher.pc = "notified" =>
             pending'[watcher.update.sig] = pending[watcher.update.sig]
    BY <1>2, <1>11, <2>3, <2>5, SigKinds, LockedSig
    DEF SellSendFails, SellRemoves, Writable, Unlocked
  <2>7. UNCHANGED <<bh, watcher, landed, wire, lost, tokens, bought>>
    BY <1>11 DEF SellSendFails, SellRemoves, chain
  <2> HIDE DEF k
  <2> QED
    BY <1>2, <2>1, <2>2, <2>3, <2>4, <2>6, <2>7, SellGoesOn
<1> QED
  BY <1>3, <1>5, <1>6, <1>7, <1>8, <1>9, <1>10, <1>11 DEF SellStep

(***************************************************************************)
(* The steps of the buy tasks                                              *)
(***************************************************************************)
LEMMA BuyTaskStep ==
  ASSUME Inv, NEW m \in Mints, BuyOK(m)',
         Reported(m) => Reported(m)' /\ task'[m].qty = task[m].qty,
         UNCHANGED <<watcher, landed, wire, lost, tokens, bought>>,
         \A t \in Tasks \ {m} : task'[t] = task[t],
         Told(m)' => Told(m),
         \A g \in sent' \ sent : g = BuySig(m),
         \A x \in Mints \ {m} : pending'[BuySig(x)] = pending[BuySig(x)],
         watcher.pc = "notified" => pending'[watcher.update.sig] = pending[watcher.update.sig]
  PROVE  Linked'
<1> USE DEF Inv, Linked
<1>0. /\ \A x \in Mints \ {m} : task'[x] = task[x]
      /\ \A x \in Mints : /\ Told(x)' => Told(x)
                          /\ Sold(x) => Sold(x)' /\ task'[x].qty = task[x].qty
      /\ \A s \in Sells : task'[s] = task[s]
  BY TaskNames DEF Told, Sold, Reported, InManager
<1>1. \A x \in Mints : BuyOK(x)'
  <2> SUFFICES ASSUME NEW x \in Mints, x # m PROVE BuyOK(x)'
    OBVIOUS
  <2>1. BuySig(x) \in sent' => BuySig(x) \in sent
    <3>1. BuySig(x) # BuySig(m)
      BY SigKinds
    <3> QED
      BY <3>1
  <2> QED
    BY <1>0, <2>1, BuyKept
<1>2. \A s \in Sells : SellOK(s)'
  <2> SUFFICES ASSUME NEW s \in Sells PROVE SellOK(s)'
    OBVIOUS
  <2> QED
    BY <1>0, TaskNames, SellKept
<1>3. Updates' = Updates
  BY DEF Updates
<1>4. \A u \in Updates : UpdateOK(u)'
  <2> SUFFICES ASSUME NEW u \in Updates PROVE UpdateOK(u)'
    OBVIOUS
  <2>1. u.sig.mint \in Mints
    BY UpdatesTyped, SigKinds
  <2> QED
    BY <1>0, <2>1, UpdateKept
<1>5. SameStatus'
  BY <1>3 DEF SameStatus
<1>6. SentOK'
  <2> SUFFICES ASSUME NEW g \in sent', g.kind = "sell" PROVE Sold(g.mint)'
    BY DEF SentOK
  <2>1. g \in sent /\ g \in Sigs
    BY SigKinds DEF TypeOK
  <2> QED
    BY <1>0, <2>1, SigKinds DEF SentOK
<1>7. WatchOK'
  BY DEF WatchOK
<1> QED
  BY <1>1, <1>2, <1>3, <1>4, <1>5, <1>6, <1>7

LEMMA BuyTaskTyped ==
  ASSUME TypeOK, PermitsOK', NEW m \in Mints, NEW k \in Task,
         UNCHANGED <<bh, watcher, landed, wire, lost, tokens, bought>>,
         task' = [task EXCEPT ![m] = k],
         sent' \in SUBSET Sigs,
         pending' \in [Sigs -> Entry \cup {None}]
  PROVE  TypeOK' /\ task'[m] = k /\ \A t \in Tasks \ {m} : task'[t] = task[t]
  BY TaskNames, PermitsTyped DEF TypeOK

LEMMA BuySteps ==
  ASSUME Inv, PermitsOK', NEW m \in Mints, BuyStep(m)
  PROVE  TypeOK' /\ Linked'
<1> USE DEF Inv
<1> DEFINE old == task[m]
           g == BuySig(m)
<1>0. old \in Task /\ task \in [Tasks -> Task] /\ m \in Tasks /\ m \notin Sells
  BY TaskNames, TaskFields
<1>1. BuyOK(m) /\ TypeOK
  BY DEF Linked
<1>2. /\ sent \in SUBSET Sigs /\ pending \in [Sigs -> Entry \cup {None}]
      /\ g \in Sigs
  BY SigKinds DEF TypeOK
\* The steps that change the task only.
<1>3. ASSUME NEW k \in Task, task' = [task EXCEPT ![m] = k],
             Reported(m) => k.pc \in {"telling", "starting", "done"} /\ k.qty = old.qty,
             UNCHANGED <<bh, pending, watcher, chain>>,
             k.pc # "send",
             k.pc \in {"wait", "confirmed", "telling", "starting"} =>
               k.sig = old.sig /\ old.pc \in {"wait", "confirmed", "telling"},
             k.pc \in {"acquire", "build"} => old.pc \in {"acquire", "build"},
             k.note # "none" => old.note # "none",
             k.note = "Successed" \/ k.pc = "confirmed" => Told(m),
             k.pc \in {"confirmed", "telling", "starting", "done"} => Heard(m),
             k.pc \in {"telling", "starting", "done"} /\ k.qty # None =>
               k.qty = bought[m] \/ (k.qty = 0 /\ watcher.pc = "dead")
      PROVE  TypeOK' /\ Linked'
  <2>1. TypeOK' /\ task'[m] = k /\ \A t \in Tasks \ {m} : task'[t] = task[t]
    BY <1>2, <1>3, BuyTaskTyped DEF chain
  <2>2. BuyLandsOnce(m)'
    BY <1>1, <1>3, <2>1 DEF BuyOK, BuyLandsOnce, Heard, BuySig, chain
  <2>3. Account(m)'
    BY <1>1, <1>3 DEF BuyOK, Account, BuySig, chain
  <2>4. Told(m)' => Told(m)
    BY <1>3, <2>1 DEF Told
  <2>5. BuyEntry(m)'
    BY <1>1, <1>3, <2>4 DEF BuyOK, BuyEntry, Locked, BuySig, chain
  <2>6. BuyReport(m)'
    BY <1>3, <2>1 DEF BuyReport, Reported, InManager, chain
  <2> QED
    BY <1>3, <2>1, <2>2, <2>3, <2>4, <2>5, <2>6, BuyTaskStep DEF BuyOK, Reported, InManager, chain
<1>4. CASE Acquire(m)
  <2> DEFINE k == [old EXCEPT !.pc = "build"]
  <2>1. /\ task' = [task EXCEPT ![m] = k] /\ k \in Task /\ k.pc = "build"
        /\ k.note = old.note /\ old.pc = "acquire"
    BY <1>0, <1>4 DEF Acquire, Task, TaskPc
  <2> HIDE DEF k
  <2> QED
    BY <1>3, <1>4, <2>1 DEF Acquire, Told, Reported, InManager
<1>5. CASE BuyGivesUp(m) \/ BuyHangsUp(m)
  <2>0. Return(m, "gone") /\ "gone" \in TaskPc /\ ~Reported(m)
    BY <1>5 DEF BuyGivesUp, BuyHangsUp, Reported, InManager, TaskPc
  <2>1. PICK k \in Task : /\ k.pc = "gone" /\ k.note = "none"
                         /\ task' = [task EXCEPT ![m] = k]
    BY <1>0, <2>0, Returned
  <2>2. UNCHANGED <<bh, pending, watcher, chain>>
    BY <1>5 DEF BuyGivesUp, BuyHangsUp
  <2> QED
    BY <1>3, <2>0, <2>1, <2>2
<1>6. CASE BuyHears(m)
  <2> DEFINE pc == IF old.note = "Successed" THEN "confirmed" ELSE old.pc
             k == [old EXCEPT !.note = "none", !.pc = pc]
  <2>1. /\ k \in Task /\ k.pc = pc /\ k.note = "none" /\ k.sig = old.sig
        /\ old.pc = "wait" /\ old.note # "none"
        /\ task' = [task EXCEPT ![m] = k]
    BY <1>0, <1>6 DEF BuyHears, Task, TaskPc
  <2>2. pc = "confirmed" => Told(m) /\ Heard(m)
    BY <2>1 DEF Told, Heard
  <2> HIDE DEF k
  <2> QED
    BY <1>3, <1>6, <2>1, <2>2 DEF BuyHears, Reported, InManager
<1>7. CASE BuyReads(m)
  <2> DEFINE e == pending[g]
             q == IF e = None THEN None ELSE e.qty
             k == [old EXCEPT !.pc = IF e = None THEN "starting" ELSE "telling", !.qty = q]
  <2>1. old.sig = g /\ old.pc = "confirmed" /\ Told(m) /\ Heard(m)
    BY <1>1, <1>7 DEF BuyReads, BuyOK, BuyLandsOnce, Told, Heard
  <2>2. q \in Nat \cup {None}
    BY <1>2 DEF Entry
  <2>3. /\ k \in Task /\ k.pc \in {"telling", "starting"} /\ k.qty = q /\ k.note = old.note
        /\ k.sig = old.sig
    BY <1>0, <2>2 DEF Task, TaskPc
  <2>4. task' = [task EXCEPT ![m] = k]
    BY <1>0, <1>7, <2>1 DEF BuyReads
  <2>5. q # None => q = bought[m] \/ (q = 0 /\ watcher.pc = "dead")
    <3>1. ~Locked(g)
      BY <1>7, <2>1 DEF BuyReads, Unlocked, Locked
    <3> QED
      BY <1>1, <2>1, <3>1 DEF BuyOK, BuyEntry
  <2> HIDE DEF k, q
  <2> QED
    BY <1>3, <1>7, <2>1, <2>3, <2>4, <2>5 DEF BuyReads, Told, Reported, InManager
<1>8. CASE BuyInserts(m)
  <2> DEFINE k == [old EXCEPT !.pc = "send", !.sig = g, !.note = "none", !.attempt = 0]
             e == [owner |-> m, qty |-> 0]
  <2>1. /\ k \in Task /\ k.pc = "send" /\ k.sig = g /\ k.note = "none"
        /\ old.pc = "build"
    <3>1. 0 \in 0 .. AttemptMax
      BY ConfirmAssumption
    <3>2. k \in Task
      BY <1>0, <1>2, <3>1 DEF Task, TaskPc
    <3>3. k.pc = "send" /\ k.sig = g /\ k.note = "none"
      BY <1>0 DEF Task
    <3> QED
      BY <1>8, <3>2, <3>3 DEF BuyInserts
  <2>2. task' = [task EXCEPT ![m] = k]
    BY <1>0, <1>8 DEF BuyInserts, InsertPending, Task
  <2>3. pending' = [pending EXCEPT ![g] = e] /\ e \in Entry
    BY <1>0, <1>8 DEF BuyInserts, InsertPending, Entry
  <2>4. /\ pending' \in [Sigs -> Entry \cup {None}] /\ pending'[g] = e
        /\ \A x \in Mints \ {m} : pending'[BuySig(x)] = pending[BuySig(x)]
        /\ watcher.pc = "notified" =>
             pending'[watcher.update.sig] = pending[watcher.update.sig]
    BY <1>2, <1>8, <2>3, SigKinds, LockedSig DEF BuyInserts, InsertPending, Writable, Unlocked
  <2>5. UNCHANGED <<bh, watcher, sent, landed, wire, lost, tokens, bought>>
    BY <1>8 DEF BuyInserts, chain
  <2>6. TypeOK' /\ task'[m] = k /\ \A t \in Tasks \ {m} : task'[t] = task[t]
    <3> HIDE DEF k
    <3> QED
      BY <1>2, <2>1, <2>2, <2>4, <2>5, BuyTaskTyped
  <2>7. g \notin sent /\ g \notin landed
    BY <1>1, <2>1 DEF BuyOK, BuyLandsOnce
  <2> HIDE DEF k
  <2>8. BuyLandsOnce(m)'
    BY <2>1, <2>5, <2>6, <2>7 DEF BuyLandsOnce, Heard, BuySig
  <2>9. Account(m)'
    BY <1>1, <2>5 DEF BuyOK, Account, BuySig
  <2>10. ~Told(m)'
    BY <2>1, <2>6 DEF Told
  <2>11. BuyEntry(m)'
    BY <2>4, <2>10 DEF BuyEntry, BuySig
  <2>12. BuyReport(m)'
    BY <2>1, <2>6 DEF BuyReport, Reported, InManager
  <2> QED
    BY <2>1, <2>4, <2>5, <2>6, <2>8, <2>9, <2>10, <2>11, <2>12, BuyTaskStep
    DEF BuyOK, Reported, InManager
<1>9. CASE BuySends(m)
  <2> DEFINE k == [old EXCEPT !.pc = "wait"]
  <2>1. /\ k \in Task /\ k.pc = "wait" /\ k.sig = old.sig /\ k.note = old.note
        /\ old.pc = "send" /\ old.sig = g /\ task' = [task EXCEPT ![m] = k]
    BY <1>0, <1>1, <1>9 DEF BuySends, BuyOK, BuyLandsOnce, Task, TaskPc
  <2>2. sent' \in {sent, sent \cup {g}} /\ sent' \in SUBSET Sigs
    BY <1>2, <1>9, <2>1 DEF BuySends
  <2>3. UNCHANGED <<bh, pending, watcher, landed, wire, lost, tokens, bought>>
    BY <1>9 DEF BuySends
  <2>4. TypeOK' /\ task'[m] = k /\ \A t \in Tasks \ {m} : task'[t] = task[t]
    <3> HIDE DEF k
    <3> QED
      BY <1>2, <2>1, <2>2, <2>3, BuyTaskTyped
  <2>5. g \notin landed
    BY <1>1, <2>1 DEF BuyOK, BuyLandsOnce
  <2> HIDE DEF k
  <2>6. BuyLandsOnce(m)'
    BY <1>1, <2>1, <2>3, <2>4, <2>5 DEF BuyOK, BuyLandsOnce, Heard, BuySig
  <2>7. Account(m)'
    BY <1>1, <2>3 DEF BuyOK, Account, BuySig
  <2>8. Told(m)' => Told(m)
    BY <2>1, <2>4 DEF Told
  <2>9. BuyEntry(m)'
    BY <1>1, <2>3, <2>8 DEF BuyOK, BuyEntry, Locked, BuySig
  <2>10. BuyReport(m)'
    BY <2>1, <2>4 DEF BuyReport, Reported, InManager
  <2> QED
    BY <2>1, <2>2, <2>3, <2>4, <2>6, <2>7, <2>8, <2>9, <2>10, BuyTaskStep
    DEF BuyOK, Reported, InManager
<1>10. CASE BuyTells(m)
  <2> DEFINE k == [old EXCEPT !.pc = "starting"]
  <2>1. /\ k \in Task /\ k.pc = "starting" /\ k.note = old.note /\ k.qty = old.qty
        /\ k.sig = old.sig /\ old.pc = "telling" /\ task' = [task EXCEPT ![m] = k]
    BY <1>0, <1>10 DEF BuyTells, Task, TaskPc
  <2>2. Heard(m)
    BY <2>1 DEF Heard
  <2>3. old.qty # None => old.qty = bought[m] \/ (old.qty = 0 /\ watcher.pc = "dead")
    BY <1>1, <2>1 DEF BuyOK, BuyReport, Reported, InManager
  <2> HIDE DEF k
  <2> QED
    BY <1>3, <1>10, <2>1, <2>2, <2>3 DEF BuyTells, Told
<1>11. CASE BuyEnsures(m)
  <2>0. Return(m, "done") /\ "done" \in TaskPc /\ old.pc = "starting"
    BY <1>11 DEF BuyEnsures, TaskPc
  <2>1. PICK k \in Task : /\ k.pc = "done" /\ k.note = "none" /\ k.qty = old.qty
                         /\ task' = [task EXCEPT ![m] = k]
    BY <1>0, <2>0, Returned
  <2>2. Heard(m)
    BY <2>0 DEF Heard
  <2>3. old.qty # None => old.qty = bought[m] \/ (old.qty = 0 /\ watcher.pc = "dead")
    BY <1>1, <2>0 DEF BuyOK, BuyReport, Reported, InManager
  <2> QED
    BY <1>3, <1>11, <2>0, <2>1, <2>2, <2>3 DEF BuyEnsures
<1> QED
  BY <1>4, <1>5, <1>6, <1>7, <1>8, <1>9, <1>10, <1>11 DEF BuyStep

(***************************************************************************)
(* The steps of the watcher                                                *)
(***************************************************************************)
\* The watcher goes on, whatever it does to the entries.
LEMMA WatchStep ==
  ASSUME Inv, TypeOK', WatchOK', Updates' \subseteq Updates,
         UNCHANGED <<task, sent, landed, tokens, bought>>,
         watcher.pc = "dead" => watcher'.pc = "dead",
         \A m \in Mints : BuyEntry(m)'
  PROVE  Linked'
<1> USE DEF Inv, Linked
<1>1. \A m \in Mints : BuyOK(m)'
  <2> SUFFICES ASSUME NEW m \in Mints PROVE BuyOK(m)'
    OBVIOUS
  <2>1. BuyLandsOnce(m)' /\ Account(m)'
    BY DEF BuyOK, BuyLandsOnce, Heard, Account, BuySig
  <2>2. BuyReport(m)'
    BY DEF BuyOK, BuyReport, Reported, InManager
  <2> QED
    BY <2>1, <2>2 DEF BuyOK
<1>2. \A s \in Sells : SellOK(s)'
  BY DEF SellOK, Sold, Reported, InManager
<1>3. \A u \in Updates' : UpdateOK(u)'
  BY DEF UpdateOK, Told, Sold, Reported, InManager
<1>4. SameStatus' /\ SentOK'
  BY DEF SameStatus, SentOK, Sold, Reported, InManager
<1> QED
  BY <1>1, <1>2, <1>3, <1>4

\* The map is as it was and no entry is unlocked.
LEMMA EntryKept ==
  ASSUME NEW m \in Mints, BuyOK(m), pending' = pending, UNCHANGED <<task, bought>>,
         watcher'.pc # "dead" => watcher.pc # "dead" /\ (Locked(BuySig(m)) => Locked(BuySig(m))')
  PROVE  BuyEntry(m)'
  BY DEF BuyOK, BuyEntry, Told, BuySig

LEMMA LosesUpdate ==
  ASSUME Inv, NEW u, LoseUpdate(u)
  PROVE  TypeOK' /\ Linked'
<1> USE DEF Inv, Linked
<1>1. /\ wire' \subseteq wire /\ lost' \in SUBSET Mints
      /\ UNCHANGED <<bh, permits, task, pending, watcher, sent, landed, tokens, bought>>
  BY DEF LoseUpdate, TypeOK
<1>2. TypeOK' /\ WatchOK' /\ Updates' \subseteq Updates
  BY <1>1 DEF TypeOK, WatchOK, Updates
<1>3. \A m \in Mints : BuyEntry(m)'
  BY <1>1, EntryKept DEF Locked, BuySig
<1> QED
  BY <1>1, <1>2, <1>3, WatchStep

LEMMA ReceiveStep ==
  ASSUME Inv, NEW u \in wire, Receive(u)
  PROVE  TypeOK' /\ Linked'
<1> USE DEF Inv, Linked
<1>1. /\ watcher.pc = "recv" /\ wire' \subseteq wire /\ u \in Update
      /\ watcher' = [pc |-> "lookup", update |-> u]
      /\ UNCHANGED <<bh, permits, task, pending, sent, landed, lost, tokens, bought>>
  BY DEF Receive, TypeOK
<1>2. TypeOK'
  BY <1>1 DEF TypeOK, WatchPc
<1>3. WatchOK' /\ Updates' \subseteq Updates
  BY <1>1 DEF WatchOK, Updates
<1>4. \A m \in Mints : BuyEntry(m)'
  BY <1>1, EntryKept DEF Locked
<1> QED
  BY <1>1, <1>2, <1>3, <1>4, WatchStep

\* No entry, or no meta.
LEMMA WatchLooksStep ==
  ASSUME Inv, WatchIgnores \/ WatchBare
  PROVE  TypeOK' /\ Linked'
<1> USE DEF Inv, Linked
<1> DEFINE u == watcher.update
<1>1. /\ watcher.pc = "lookup" /\ u \in Update
      /\ \/ watcher' = [pc |-> "recv", update |-> None]
         \/ watcher' = [pc |-> "remove", update |-> u] /\ Bare
      /\ UNCHANGED <<bh, permits, task, pending, chain>>
  BY DEF WatchIgnores, WatchBare, LooksUp, WatchOK
<1>2. TypeOK'
  BY <1>1 DEF TypeOK, WatchPc, chain
<1>3. WatchOK' /\ Updates' \subseteq Updates
  BY <1>1 DEF WatchOK, Updates, chain
<1>4. \A m \in Mints : BuyEntry(m)'
  BY <1>1, EntryKept DEF Locked, chain
<1> QED
  BY <1>1, <1>2, <1>3, <1>4, WatchStep DEF chain

LEMMA WatchRecordsStep ==
  ASSUME Inv, WatchRecords
  PROVE  TypeOK' /\ Linked'
<1> USE DEF Inv, Linked
<1> DEFINE u == watcher.update
           g == u.sig
           e == [pending[g] EXCEPT !.qty = u.qty]
<1>1. /\ watcher.pc = "notified" /\ u \in Update /\ g \in Sigs /\ u \in Updates
      /\ u.qty \in Nat /\ u.status \in Status /\ u.status # "err"
      /\ watcher' = [pc |-> "recv", update |-> None]
      /\ UNCHANGED <<bh, permits, task, chain>>
  BY LockedSig, UpdatesTyped DEF WatchRecords, Verdict, Updates
<1>2. /\ pending[g] \in Entry /\ e \in Entry /\ e.qty = u.qty
      /\ e.owner = pending[g].owner /\ e # None
  <2>1. pending[g] \in Entry
    BY <1>1 DEF TypeOK, WatchOK
  <2>2. e \in Entry /\ e.qty = u.qty /\ e.owner = pending[g].owner
    BY <1>1, <2>1 DEF Entry
  <2>3. None \notin Entry
    BY ConfirmAssumption DEF Entry, Tasks
  <2> QED
    BY <2>1, <2>2, <2>3
<1>3. pending' = IF u.status = "ok" THEN [pending EXCEPT ![g] = e] ELSE pending
  BY <1>1 DEF WatchRecords
<1>4. TypeOK'
  <2>1. pending' \in [Sigs -> Entry \cup {None}]
    <3> HIDE DEF e
    <3> QED
      BY <1>1, <1>2, <1>3 DEF TypeOK
  <2> QED
    BY <1>1, <2>1 DEF TypeOK, WatchPc, chain
<1>5. WatchOK' /\ Updates' \subseteq Updates
  BY <1>1 DEF WatchOK, Updates, chain
<1>6. \A m \in Mints : BuyEntry(m)'
  <2> SUFFICES ASSUME NEW m \in Mints PROVE BuyEntry(m)'
    OBVIOUS
  <2>0. BuySig(m)' = BuySig(m) /\ BuySig(m) \in Sigs /\ ~Locked(BuySig(m))'
    BY <1>1, SigKinds DEF BuySig, Locked
  <2>1. CASE g # BuySig(m)
    <3>1. pending'[BuySig(m)] = pending[BuySig(m)] /\ ~Locked(BuySig(m))
      <4> HIDE DEF e
      <4> QED
        BY <1>1, <1>3, <2>0, <2>1 DEF TypeOK, Locked
    <3> QED
      BY <1>1, <2>0, <3>1 DEF BuyOK, BuyEntry, Told, chain
  <2>2. CASE g = BuySig(m) /\ u.status = "ok"
    <3>1. u.qty = bought[m]
      BY <1>1, <2>2, SigKinds DEF UpdateOK
    <3>2. pending'[BuySig(m)] = e
      <4> HIDE DEF e
      <4> QED
        BY <1>3, <2>0, <2>2 DEF TypeOK
    <3>3. pending[g].owner = m
      BY <1>2, <2>2, ConfirmAssumption DEF BuyOK, BuyEntry, WatchOK, Entry, Tasks
    <3> QED
      <4> HIDE DEF e
      <4> QED
        BY <1>1, <1>2, <2>0, <3>1, <3>2, <3>3 DEF BuyEntry, chain
  <2>3. CASE g = BuySig(m) /\ u.status # "ok"
    <3>1. bought[m] = 0
      BY <1>1, <2>3, SigKinds DEF UpdateOK
    <3>2. pending' = pending
      BY <1>3, <2>3
    <3> QED
      BY <1>1, <2>0, <3>1, <3>2 DEF BuyOK, BuyEntry, Told, chain
  <2> QED
    BY <2>1, <2>2, <2>3
<1> QED
  BY <1>1, <1>4, <1>5, <1>6, WatchStep DEF chain

LEMMA WatchLeavesStep ==
  ASSUME Inv, WatchPanics \/ WatchUnlocks
  PROVE  TypeOK' /\ Linked'
<1> USE DEF Inv, Linked
<1> DEFINE u == watcher.update
<1>1. /\ watcher.pc = "notified" /\ u \in Update /\ u \in Updates
      /\ UNCHANGED <<bh, permits, task, pending, chain>>
      /\ \/ watcher' = [pc |-> "dead", update |-> None]
         \/ watcher' = [watcher EXCEPT !.pc = "remove"] /\ Verdict(u.status) = "Failed"
  BY LockedSig DEF WatchPanics, WatchUnlocks, Updates
<1>2. CASE watcher' = [pc |-> "dead", update |-> None]
  <2>1. TypeOK'
    BY <1>1, <1>2 DEF TypeOK, WatchPc, chain
  <2>2. WatchOK' /\ Updates' \subseteq Updates
    BY <1>1, <1>2 DEF WatchOK, Updates, chain
  <2>3. \A m \in Mints : BuyEntry(m)'
    BY <1>1, <1>2, EntryKept DEF chain
  <2> QED
    BY <1>1, <1>2, <2>1, <2>2, <2>3, WatchStep DEF chain
<1>3. CASE watcher' = [watcher EXCEPT !.pc = "remove"] /\ Verdict(u.status) = "Failed"
  <2>1. u.status = "err" /\ watcher'.pc = "remove" /\ watcher'.update = u
    BY <1>3 DEF Verdict, TypeOK
  <2>2. TypeOK'
    BY <1>1, <1>3 DEF TypeOK, WatchPc, chain
  <2>3. WatchOK' /\ Updates' \subseteq Updates
    BY <1>1, <2>1 DEF WatchOK, Updates, chain
  <2>4. \A m \in Mints : BuyEntry(m)'
    <3> SUFFICES ASSUME NEW m \in Mints PROVE BuyEntry(m)'
      OBVIOUS
    <3>1. CASE u.sig # BuySig(m)
      BY <1>1, <2>1, <3>1, EntryKept DEF Locked, chain
    <3>2. CASE u.sig = BuySig(m)
      <4>1. bought[m] = 0
        BY <1>1, <2>1, <3>2, SigKinds DEF UpdateOK
      <4> QED
        BY <1>1, <4>1 DEF BuyOK, BuyEntry, Told, BuySig, chain
    <3> QED
      BY <3>1, <3>2
  <2> QED
    BY <1>1, <2>1, <2>2, <2>3, <2>4, WatchStep DEF chain
<1> QED
  BY <1>1, <1>2, <1>3

LEMMA WatchRemovesStep ==
  ASSUME Inv, WatchRemoves
  PROVE  TypeOK' /\ Linked'
<1> USE DEF Inv, Linked
<1> DEFINE u == watcher.update
<1>1. /\ watcher.pc = "remove" /\ u \in Update /\ u \in Updates /\ u.sig \in Sigs
      /\ Bare \/ u.status = "err"
      /\ watcher' = [pc |-> "recv", update |-> None]
      /\ pending' = [pending EXCEPT ![u.sig] = None]
      /\ UNCHANGED <<bh, permits, task, chain>>
  BY UpdatesTyped DEF WatchRemoves, WatchOK, Updates, Update
<1>2. TypeOK'
  BY <1>1 DEF TypeOK, WatchPc, chain
<1>3. WatchOK' /\ Updates' \subseteq Updates
  BY <1>1 DEF WatchOK, Updates, chain
<1>4. \A m \in Mints : BuyEntry(m)'
  <2> SUFFICES ASSUME NEW m \in Mints PROVE BuyEntry(m)'
    OBVIOUS
  <2>0. BuySig(m)' = BuySig(m) /\ BuySig(m) \in Sigs /\ ~Locked(BuySig(m))
    BY <1>1, SigKinds DEF BuySig, Locked
  <2>1. CASE u.sig # BuySig(m)
    <3>1. pending'[BuySig(m)] = pending[BuySig(m)]
      BY <1>1, <2>0, <2>1 DEF TypeOK
    <3> QED
      BY <1>1, <2>0, <3>1 DEF BuyOK, BuyEntry, Told, chain
  <2>2. CASE u.sig = BuySig(m)
    <3>1. pending'[BuySig(m)] = None
      BY <1>1, <2>0, <2>2 DEF TypeOK
    <3>2. Told(m) => Bare
      BY <1>1, <2>2, SigKinds DEF UpdateOK
    <3> QED
      BY <1>1, <2>0, <3>1, <3>2 DEF BuyEntry, Told, chain
  <2> QED
    BY <2>1, <2>2
<1> QED
  BY <1>1, <1>2, <1>3, <1>4, WatchStep DEF chain

LEMMA WatchNotifiesStep ==
  ASSUME Inv, WatchNotifies
  PROVE  TypeOK' /\ Linked'
<1> USE DEF Inv, Linked
<1> DEFINE u == watcher.update
           o == pending[u.sig].owner
           hears == task[o].sig = u.sig /\ task[o].pc \in {"send", "wait"}
           k == [task[o] EXCEPT !.note = Verdict(u.status)]
<1>1. /\ watcher.pc = "lookup" /\ wire' = wire /\ u \in Update /\ u.sig \in Sigs
      /\ u \in Updates /\ UpdateOK(u) /\ u.status \in Status
      /\ pending[u.sig] # None /\ pending[u.sig] \in Entry /\ o \in Tasks
      /\ watcher' = [pc |-> "notified", update |-> u]
      /\ task' = (IF hears THEN [task EXCEPT ![o].note = Verdict(u.status)] ELSE task)
      /\ UNCHANGED <<bh, permits, pending, sent, landed, lost, tokens, bought>>
  BY UpdatesTyped DEF WatchNotifies, LooksUp, WatchOK, TypeOK, Updates, Entry, chain
<1>2. k \in Task /\ k.pc = task[o].pc /\ k.sig = task[o].sig /\ k.qty = task[o].qty
        /\ k.note = Verdict(u.status) /\ k.note \in {"Successed", "Failed"}
  BY <1>1, TaskFields DEF Task, Verdict
<1>3. /\ \A t \in Tasks : t # o \/ ~hears => task'[t] = task[t]
      /\ hears => task'[o] = k
      /\ task' \in [Tasks -> Task]
  BY <1>1, <1>2, TaskFields
<1> HIDE DEF k, u
<1>4. TypeOK'
  BY <1>1, <1>3 DEF TypeOK, WatchPc
<1>5. WatchOK' /\ Updates' \subseteq Updates
  BY <1>1 DEF WatchOK, Updates
<1>6. \A t \in Tasks : task'[t].pc = task[t].pc /\ task'[t].sig = task[t].sig
                         /\ task'[t].qty = task[t].qty
  BY <1>2, <1>3
<1>7. \A m \in Mints : Sold(m)' <=> Sold(m)
  BY <1>6, TaskNames DEF Sold, Reported, InManager
\* A buy task that hears of a success has an entry, and it is its own update.
<1>8. \A m \in Mints : hears /\ m = o => u.sig = BuySig(m)
  BY <1>1 DEF BuyOK, BuyLandsOnce
<1>9. \A m \in Mints : task'[m] = task[m] \/ (hears /\ m = o /\ task'[m] = k)
  BY <1>3, TaskNames
<1>10. \A m \in Mints : BuyOK(m)'
  <2> SUFFICES ASSUME NEW m \in Mints PROVE BuyOK(m)'
    OBVIOUS
  <2>0. BuySig(m)' = BuySig(m) /\ ~Locked(BuySig(m)) /\ m \in Tasks
    BY <1>1, TaskNames DEF BuySig, Locked
  <2>1. Account(m)'
    BY <1>1, <2>0 DEF BuyOK, Account
  <2>2. BuyReport(m)'
    BY <1>1, <1>6, <2>0 DEF BuyOK, BuyReport, Reported, InManager
  <2>3. CASE task'[m] = task[m]
    <3>1. BuyLandsOnce(m)'
      BY <1>1, <2>0, <2>3 DEF BuyOK, BuyLandsOnce, Heard
    <3>2. BuyEntry(m)'
      BY <1>1, <2>0, <2>3 DEF BuyOK, BuyEntry, Told
    <3> QED
      BY <2>1, <2>2, <3>1, <3>2 DEF BuyOK
  <2>4. CASE hears /\ m = o /\ task'[m] = k
    <3>1. u.sig = BuySig(m) /\ BuySig(m) \in landed
      BY <1>1, <1>8, <2>4, SigKinds DEF UpdateOK
    <3>2. BuyLandsOnce(m)'
      BY <1>1, <1>2, <2>0, <2>4, <3>1 DEF BuyOK, BuyLandsOnce
    <3>3. Locked(BuySig(m))' /\ pending'[BuySig(m)] # None
      BY <1>1, <2>0, <3>1 DEF Locked
    <3>4. BuyEntry(m)'
      BY <1>1, <2>0, <3>3 DEF BuyOK, BuyEntry
    <3> QED
      BY <2>1, <2>2, <3>2, <3>4 DEF BuyOK
  <2> QED
    BY <1>9, <2>3, <2>4
<1>11. \A s \in Sells : SellOK(s)'
  <2> SUFFICES ASSUME NEW s \in Sells PROVE SellOK(s)'
    OBVIOUS
  <2>0. s \in Tasks /\ SoldMint[s] \in Mints /\ SoldMint[s] \in Tasks /\ SellOK(s)
    BY TaskNames
  <2>1. /\ task'[s].pc \in {"send", "wait", "confirmed", "unconfirmed"} =>
             task'[s].sig \in Sigs /\ task'[s].sig.kind = "sell"
               /\ task'[s].sig.mint = SoldMint[s]
        /\ task'[s].pc # "idle" => Sold(SoldMint[s])'
                                     /\ task'[s].qty = task'[SoldMint[s]].qty
        /\ task'[s].pc \in {"confirmed", "done"} => tokens[SoldMint[s]] = None
    BY <1>6, <1>7, <2>0 DEF SellOK
  <2>2. /\ task'[s].note # "none" => task'[s].pc # "idle"
        /\ task'[s].note = "Successed" => tokens[SoldMint[s]] = None
    <3>1. CASE task'[s] = task[s]
      BY <2>0, <3>1 DEF SellOK
    <3>2. CASE hears /\ s = o
      <4>1. u.sig.kind = "sell" /\ u.sig.mint = SoldMint[s]
        BY <2>0, <3>2 DEF SellOK
      <4>2. u.status # "err" => tokens[SoldMint[s]] = None
        BY <1>1, <4>1 DEF UpdateOK
      <4>3. task'[s].note = Verdict(u.status) /\ task'[s].pc \in {"send", "wait"}
        BY <1>2, <1>3, <3>2
      <4> QED
        BY <4>2, <4>3 DEF Verdict
    <3> QED
      BY <1>3, <2>0, <3>1, <3>2
  <2> QED
    BY <1>1, <2>1, <2>2 DEF SellOK
<1>12. \A v \in Updates : UpdateOK(v)'
  <2> SUFFICES ASSUME NEW v \in Updates PROVE UpdateOK(v)'
    OBVIOUS
  <2>1. v.sig \in Sigs /\ v.sig.mint \in Mints /\ UpdateOK(v)
    BY UpdatesTyped, SigKinds
  <2>2. v.sig.kind = "buy" /\ Told(v.sig.mint)' => v.status # "err"
    <3> SUFFICES ASSUME v.sig.kind = "buy", Told(v.sig.mint)' PROVE v.status # "err"
      OBVIOUS
    <3>1. CASE task'[v.sig.mint] = task[v.sig.mint]
      BY <2>1, <3>1 DEF UpdateOK, Told
    <3>2. CASE hears /\ v.sig.mint = o /\ task'[v.sig.mint] = k
      <4>1. u.sig = v.sig
        BY <1>8, <2>1, <3>2, SigKinds
      <4>2. u.status = v.status
        BY <1>1, <4>1 DEF SameStatus
      <4>3. Verdict(u.status) = "Successed"
        BY <1>2, <3>2 DEF Told
      <4> QED
        BY <4>2, <4>3 DEF Verdict
    <3> QED
      BY <1>9, <2>1, <3>1, <3>2
  <2> QED
    BY <1>1, <1>7, <2>1, <2>2 DEF UpdateOK
<1>13. SameStatus'
  BY <1>5 DEF SameStatus
<1>14. SentOK'
  BY <1>1, <1>7, SigKinds DEF SentOK, TypeOK
<1> QED
  BY <1>4, <1>5, <1>10, <1>11, <1>12, <1>13, <1>14

(***************************************************************************)
(* The steps of the cluster                                                *)
(***************************************************************************)
\* A buy is executed, with what it brings or without effect.
LEMMA LandBuyStep ==
  ASSUME Inv, NEW m \in Mints, LandBuy(m)
  PROVE  TypeOK' /\ Linked'
<1> USE DEF Inv, Linked
<1> DEFINE g == BuySig(m)
<1>1. PICK status \in Status, qty \in Nat :
        /\ Executed(g, status, qty)
        /\ \/ status = "ok" /\ tokens' = [tokens EXCEPT ![m] = qty]
                            /\ bought' = [bought EXCEPT ![m] = qty]
           \/ status # "ok" /\ UNCHANGED <<tokens, bought>>
  <2>1. CASE \E q \in Qtys : Runs(g, buy_transaction, q)
    <3>1. PICK q \in Qtys : Runs(g, buy_transaction, q)
      BY <2>1
    <3> DEFINE r == Outcome(buy_transaction, m, q)
    <3>2. q \in Nat
      BY ConfirmAssumption
    <3>3. r.status \in Status /\ (r.status = "ok" => r.holds = q)
      BY <3>2, BuyOutcome
    <3>4. g.mint = m /\ g.kind = "buy"
      BY SigKinds
    <3> HIDE DEF g
    <3>5. /\ Executed(g, r.status, IF r.status = "ok" THEN q ELSE 0)
          /\ tokens' = IF r.status = "ok" THEN [tokens EXCEPT ![m] = r.holds] ELSE tokens
          /\ bought' = IF r.status = "ok" THEN [bought EXCEPT ![m] = q] ELSE bought
      BY <3>1, <3>4 DEF Runs
    <3> HIDE DEF r
    <3>6. CASE r.status = "ok"
      BY <3>2, <3>3, <3>5, <3>6
    <3>7. CASE r.status # "ok"
      BY <3>3, <3>5, <3>7
    <3> QED
      BY <3>6, <3>7
  <2>2. CASE \E code \in {"3012", "err"} : Executed(g, code, 0) /\ UNCHANGED <<tokens, bought>>
    BY <2>2 DEF Status
  <2> QED
    BY <2>1, <2>2 DEF LandBuy
<1> DEFINE new == [sig |-> g, status |-> status, qty |-> qty]
<1>2. /\ g \in sent /\ sent' = sent \ {g} /\ landed' = landed \cup {g}
      /\ wire' = wire \cup {new}
      /\ UNCHANGED <<bh, permits, task, pending, watcher, lost>>
  BY <1>1 DEF Executed
<1>3. g \in Sigs /\ g.kind = "buy" /\ g.mint = m /\ g' = g
  BY SigKinds DEF BuySig
<1>4. /\ g \notin landed /\ ~Heard(m) /\ ~Told(m) /\ ~Sold(m)
      /\ tokens[m] = None /\ bought[m] = 0
      /\ task[m].pc \notin {"acquire", "build", "send"} /\ ~Reported(m)
  BY <1>2 DEF BuyOK, BuyLandsOnce, Account, Heard, Told, Sold, Reported, InManager
<1> HIDE DEF g
<1>5. new \in Update /\ new.sig = g /\ new.status = status /\ new.qty = qty
  BY <1>3 DEF Update
<1>6. TypeOK'
  <2>1. tokens' \in [Mints -> Nat \cup {None}] /\ bought' \in [Mints -> Nat]
    BY <1>1 DEF TypeOK
  <2> HIDE DEF new
  <2> QED
    BY <1>2, <1>3, <1>5, <2>1 DEF TypeOK
<1> HIDE DEF new
<1>7. /\ bought'[m] \in Nat /\ tokens'[m] \in {None, bought'[m]}
      /\ IF status = "ok" THEN qty = bought'[m] ELSE bought'[m] = 0
      /\ \A x \in Mints \ {m} : tokens'[x] = tokens[x] /\ bought'[x] = bought[x]
  BY <1>1, <1>4 DEF TypeOK
<1>8. \A x \in Mints : BuyOK(x)'
  <2> SUFFICES ASSUME NEW x \in Mints PROVE BuyOK(x)'
    OBVIOUS
  <2>1. CASE x # m
    <3>1. BuySig(x) # g /\ BuySig(x)' = BuySig(x)
      BY <1>3, <2>1, SigKinds DEF BuySig
    <3> QED
      BY <1>2, <1>7, <2>1, <3>1, BuyKept
  <2>2. CASE x = m
    <3>0. BuySig(m)' = g /\ BuySig(m) = g
      BY <1>3 DEF g
    <3>1. BuyLandsOnce(m)'
      BY <1>2, <1>4, <3>0 DEF BuyOK, BuyLandsOnce, Heard
    <3>2. Account(m)'
      BY <1>2, <1>7, <3>0 DEF Account
    <3>3. BuyEntry(m)'
      BY <1>2, <1>4, <3>0 DEF BuyOK, BuyEntry, Told
    <3>4. BuyReport(m)'
      BY <1>2, <1>4 DEF BuyReport, Reported, InManager
    <3> QED
      BY <2>2, <3>1, <3>2, <3>3, <3>4 DEF BuyOK
  <2> QED
    BY <2>1, <2>2
<1>9. \A s \in Sells : SellOK(s)'
  <2> SUFFICES ASSUME NEW s \in Sells PROVE SellOK(s)'
    OBVIOUS
  <2>1. CASE SoldMint[s] = m
    BY <1>2, <1>4, <2>1 DEF SellOK
  <2>2. CASE SoldMint[s] # m
    BY <1>2, <1>7, <2>2, TaskNames, SellKept DEF Sold, Reported, InManager
  <2> QED
    BY <2>1, <2>2
<1>10. Updates' = Updates \cup {new}
  BY <1>2 DEF Updates
<1>11. \A v \in Updates : v.sig # g
  BY <1>3, <1>4 DEF UpdateOK
<1>12. \A v \in Updates : UpdateOK(v)'
  <2> SUFFICES ASSUME NEW v \in Updates PROVE UpdateOK(v)'
    OBVIOUS
  <2>1. v.sig \in Sigs /\ v.sig.mint \in Mints /\ UpdateOK(v)
    BY UpdatesTyped, SigKinds
  <2>2. v.sig.mint # m
    <3>1. CASE v.sig.kind = "buy"
      BY <1>11, <2>1, <3>1, SigKinds DEF g
    <3>2. CASE v.sig.kind = "sell"
      BY <1>4, <2>1, <3>2 DEF UpdateOK
    <3> QED
      BY <2>1, <3>1, <3>2, SigKinds
  <2> QED
    BY <1>2, <1>7, <2>1, <2>2, UpdateKept DEF Told, Sold, Reported, InManager
<1>13. UpdateOK(new)'
  BY <1>2, <1>3, <1>4, <1>5, <1>7 DEF UpdateOK, Told
<1>14. SameStatus'
  BY <1>5, <1>10, <1>11 DEF SameStatus
<1>15. SentOK' /\ WatchOK'
  BY <1>2 DEF SentOK, WatchOK, Sold, Reported, InManager
<1> QED
  BY <1>6, <1>8, <1>9, <1>10, <1>12, <1>13, <1>14, <1>15

\* A sell closes the account, finds none, or has no effect.
LEMMA LandSellStep ==
  ASSUME Inv, NEW g \in Sigs, LandSell(g) \/ SellRejected(g)
  PROVE  TypeOK' /\ Linked'
<1> USE DEF Inv, Linked
<1> DEFINE m == g.mint
<1>0. g.kind = "sell" /\ g \in sent /\ m \in Mints /\ Sold(m) /\ task[m].qty \in Nat
  <2>1. g.kind = "sell" /\ g \in sent
    BY DEF LandSell, SellRejected, Runs, Executed
  <2> QED
    BY <2>1, SigKinds DEF SentOK, Sold, Reported, InManager
<1>1. PICK status \in Status, qty \in Nat :
        /\ Executed(g, status, qty) /\ UNCHANGED bought
        /\ \/ status = "ok" /\ tokens' = [tokens EXCEPT ![m] = None]
           \/ status # "ok" /\ UNCHANGED tokens /\ (status = "3012" => tokens[m] = None)
  <2>1. CASE LandSell(g)
    <3> DEFINE q == task[m].qty
               r == Outcome(sell_transaction, m, q)
    <3>1. r.status \in Status /\ (r.status = "ok" => r.holds = None)
            /\ (r.status = "3012" => tokens[m] = None)
      BY <1>0, SellOutcome
    <3>2. /\ Executed(g, r.status, IF r.status = "ok" THEN q ELSE 0)
          /\ tokens' = IF r.status = "ok" THEN [tokens EXCEPT ![m] = r.holds] ELSE tokens
          /\ bought' = bought
      BY <1>0, <2>1 DEF LandSell, Runs, Offered
    <3> HIDE DEF r
    <3>3. CASE r.status = "ok"
      BY <1>0, <3>1, <3>2, <3>3
    <3>4. CASE r.status # "ok"
      BY <3>1, <3>2, <3>4
    <3> QED
      BY <3>3, <3>4
  <2>2. CASE SellRejected(g)
    BY <2>2 DEF SellRejected, Status
  <2> QED
    BY <2>1, <2>2
<1> DEFINE new == [sig |-> g, status |-> status, qty |-> qty]
<1>2. /\ sent' = sent \ {g} /\ landed' = landed \cup {g}
      /\ wire' = wire \cup {new}
      /\ UNCHANGED <<bh, permits, task, pending, watcher, lost>>
  BY <1>1 DEF Executed
<1>3. new \in Update /\ new.sig = g /\ new.status = status
  BY DEF Update
<1>4. TypeOK'
  <2>1. tokens' \in [Mints -> Nat \cup {None}] /\ bought' \in [Mints -> Nat]
    BY <1>1 DEF TypeOK
  <2> HIDE DEF new
  <2> QED
    BY <1>2, <1>3, <2>1 DEF TypeOK
<1> HIDE DEF new
<1>5. /\ \A x \in Mints : tokens'[x] \in {tokens[x], None}
      /\ status # "err" => tokens'[m] = None
  BY <1>0, <1>1 DEF TypeOK, Status
<1>6. \A x \in Mints : BuyOK(x)'
  <2> SUFFICES ASSUME NEW x \in Mints PROVE BuyOK(x)'
    OBVIOUS
  <2>1. BuySig(x) # g
    BY <1>0, SigKinds
  <2> QED
    BY <1>1, <1>2, <1>5, <2>1, BuyKept
<1>7. \A s \in Sells : SellOK(s)'
  <2> SUFFICES ASSUME NEW s \in Sells PROVE SellOK(s)'
    OBVIOUS
  <2> QED
    BY <1>2, <1>5, TaskNames, SellKept DEF Sold, Reported, InManager
<1>8. Updates' = Updates \cup {new}
  BY <1>2 DEF Updates
<1>9. \A v \in Updates : UpdateOK(v)'
  <2> SUFFICES ASSUME NEW v \in Updates PROVE UpdateOK(v)'
    OBVIOUS
  <2>1. v.sig \in Sigs /\ v.sig.mint \in Mints /\ UpdateOK(v)
    BY UpdatesTyped, SigKinds
  <2>2. tokens[v.sig.mint] = None => tokens'[v.sig.mint] = None
    BY <1>5, <2>1
  <2> QED
    BY <1>1, <1>2, <2>1, <2>2, UpdateKept DEF Told, Sold, Reported, InManager
<1>10. UpdateOK(new)'
  BY <1>0, <1>2, <1>3, <1>5 DEF UpdateOK, Sold, Reported, InManager
<1>11. SameStatus'
  BY <1>0, <1>3, <1>8 DEF SameStatus
<1>12. SentOK' /\ WatchOK'
  BY <1>2 DEF SentOK, WatchOK, Sold, Reported, InManager
<1> QED
  BY <1>4, <1>6, <1>7, <1>8, <1>9, <1>10, <1>11, <1>12

LEMMA NewBlockhashStep ==
  ASSUME Inv, NewBlockhash
  PROVE  TypeOK' /\ Linked'
<1> USE DEF Inv, Linked
<1> DEFINE next == (bh + 1) % Hashes
           Old(g) == g.kind = "sell" /\ g.bh = next
<1>1. /\ bh' = next
      /\ watcher.pc \in {"lookup", "notified", "remove"} => ~Old(watcher.update.sig)
      /\ pending' = [g \in Sigs |-> IF Old(g) THEN None ELSE pending[g]]
      /\ sent' = {g \in sent : ~Old(g)} /\ landed' = {g \in landed : ~Old(g)}
      /\ UNCHANGED <<permits, task, watcher, wire, lost, tokens, bought>>
  BY DEF NewBlockhash
<1>2. next \in 0 .. Hashes - 1
  <2>1. bh + 1 \in Nat /\ Hashes \in Nat \ {0}
    BY ConfirmAssumption DEF TypeOK
  <2> QED
    BY <2>1, Remainder
<1> HIDE DEF next
<1>3. TypeOK'
  BY <1>1, <1>2 DEF TypeOK
<1>4. \A m \in Mints : BuyOK(m)'
  <2> SUFFICES ASSUME NEW m \in Mints PROVE BuyOK(m)'
    OBVIOUS
  <2>1. BuySig(m) \in Sigs /\ ~Old(BuySig(m))
    BY SigKinds
  <2> QED
    BY <1>1, <2>1, BuyKept
<1>5. \A s \in Sells : SellOK(s)'
  BY <1>1 DEF SellOK, Sold, Reported, InManager
<1>6. Updates' = Updates
  BY <1>1 DEF Updates
<1>7. \A u \in Updates : UpdateOK(u)'
  BY <1>1 DEF UpdateOK, Told, Sold, Reported, InManager
<1>8. SameStatus' /\ SentOK'
  BY <1>1, <1>6 DEF SameStatus, SentOK, Sold, Reported, InManager
<1>9. WatchOK'
  BY <1>1, LockedSig DEF WatchOK
<1> QED
  BY <1>3, <1>4, <1>5, <1>6, <1>7, <1>8, <1>9

(***************************************************************************)
(* The permits                                                             *)
(***************************************************************************)
LEMMA SameHolders ==
  ASSUME PermitsOK, permits' = permits,
         \A t \in Tasks : task'[t].pc \in HoldingPc <=> task[t].pc \in HoldingPc
  PROVE  PermitsOK'
<1>1. Holders' = Holders
  BY DEF Holders, HoldingPc
<1> QED
  BY <1>1 DEF PermitsOK

LEMMA Acquires ==
  ASSUME Inv, NEW t \in Tasks, Acquire(t)
  PROVE  PermitsOK'
<1>1. t \notin Holders /\ Holders' = Holders \cup {t}
  BY TaskFields DEF Inv, Acquire, Holders, HoldingPc
<1>2. IsFiniteSet(Holders') /\ Cardinality(Holders') = Cardinality(Holders) + 1
        /\ Cardinality(Holders) \in Nat
  BY <1>1, FS_AddElement, FS_CardinalityType DEF Inv, PermitsOK
<1> QED
  BY <1>2, ConfirmAssumption DEF Inv, PermitsOK, Acquire

LEMMA Returns ==
  ASSUME Inv, NEW t \in Tasks, task[t].pc \in HoldingPc,
         permits' = permits + 1, task'[t].pc \notin HoldingPc,
         \A x \in Tasks \ {t} : task'[x].pc = task[x].pc
  PROVE  PermitsOK'
<1>1. t \in Holders /\ Holders' = Holders \ {t}
  BY DEF Holders, HoldingPc
<1>2. IsFiniteSet(Holders') /\ Cardinality(Holders') = Cardinality(Holders) - 1
        /\ Cardinality(Holders) \in Nat
  BY <1>1, FS_RemoveElement, FS_CardinalityType DEF Inv, PermitsOK
<1> QED
  BY <1>2, ConfirmAssumption DEF Inv, PermitsOK

LEMMA PermitsNext ==
  ASSUME Inv, [Next]_vars
  PROVE  PermitsOK'
<1>0. task \in [Tasks -> Task] /\ PermitsOK
  BY DEF Inv, TypeOK
<1>1. ASSUME NEW t \in Tasks, Acquire(t)
      PROVE  PermitsOK'
  BY <1>1, Acquires
<1>2. ASSUME NEW t \in Tasks, NEW pc \in TaskPc \ HoldingPc, Return(t, pc),
             task[t].pc \in HoldingPc
      PROVE  PermitsOK'
  BY <1>0, <1>2, Returns DEF Return
<1>3. ASSUME NEW m \in Mints, BuyStep(m)
      PROVE  PermitsOK'
  <2>0. m \in Tasks
    BY TaskNames
  <2>1. CASE Acquire(m)
    BY <1>1, <2>0, <2>1
  <2>2. CASE BuyGivesUp(m) \/ BuyHangsUp(m)
    BY <1>2, <2>0, <2>2 DEF BuyGivesUp, BuyHangsUp, TaskPc, HoldingPc
  <2>3. CASE BuyInserts(m)
    BY <1>0, <2>0, <2>3, SameHolders DEF BuyInserts, InsertPending, HoldingPc
  <2>4. CASE BuySends(m)
    BY <1>0, <2>0, <2>4, SameHolders DEF BuySends, HoldingPc
  <2>5. CASE BuyHears(m)
    BY <1>0, <2>0, <2>5, SameHolders DEF BuyHears, HoldingPc
  <2>6. CASE BuyReads(m)
    BY <1>0, <2>0, <2>6, SameHolders DEF BuyReads, HoldingPc
  <2>7. CASE BuyTells(m)
    BY <1>0, <2>0, <2>7, SameHolders DEF BuyTells, HoldingPc
  <2>8. CASE BuyEnsures(m)
    BY <1>2, <2>0, <2>8 DEF BuyEnsures, TaskPc, HoldingPc
  <2> QED
    BY <1>3, <2>1, <2>2, <2>3, <2>4, <2>5, <2>6, <2>7, <2>8 DEF BuyStep
<1>4. ASSUME NEW s \in Sells, SellStarts(s) \/ SellStep(s)
      PROVE  PermitsOK'
  <2>0. s \in Tasks
    BY TaskNames
  <2>1. CASE Acquire(s)
    BY <1>1, <2>0, <2>1
  <2>2. CASE SellPanics(s) \/ SellEnds(s)
    BY <1>2, <2>0, <2>2 DEF SellPanics, SellEnds, TaskPc, HoldingPc
  <2>3. CASE SellStarts(s)
    BY <1>0, <2>0, <2>3, SameHolders DEF SellStarts, HoldingPc
  <2>4. CASE SellInserts(s)
    BY <1>0, <2>0, <2>4, SameHolders DEF SellInserts, InsertPending, HoldingPc
  <2>5. CASE SellBuildFails(s)
    BY <1>0, <2>0, <2>5, SameHolders DEF SellBuildFails, HoldingPc
  <2>6. ASSUME NEW pc \in HoldingPc, task[s].pc \in HoldingPc, permits' = permits,
               task'[s].pc = pc, \A t \in Tasks \ {s} : task'[t].pc = task[t].pc
        PROVE  PermitsOK'
    BY <1>0, <2>6, SameHolders
  <2>7. CASE SellSends(s) \/ SellSendsInVain(s)
    <3>1. /\ task'[s].pc = "wait" /\ task[s].pc = "send" /\ permits' = permits
          /\ \A t \in Tasks \ {s} : task'[t].pc = task[t].pc
      <4>1. CASE SellSends(s)
        BY <1>0, <2>0, <4>1 DEF SellSends
      <4>2. CASE SellSendsInVain(s)
        BY <1>0, <2>0, <4>2 DEF SellSendsInVain
      <4> QED
        BY <2>7, <4>1, <4>2
    <3> QED
      BY <2>6, <3>1 DEF HoldingPc
  <2>8. CASE SellSendFails(s) \/ SellRemoves(s)
    <3>1. /\ task'[s].pc = "build" /\ task[s].pc \in {"send", "unconfirmed"}
          /\ permits' = permits
          /\ \A t \in Tasks \ {s} : task'[t].pc = task[t].pc
      <4>1. CASE SellSendFails(s)
        BY <1>0, <2>0, <4>1 DEF SellSendFails
      <4>2. CASE SellRemoves(s)
        BY <1>0, <2>0, <4>2 DEF SellRemoves
      <4> QED
        BY <2>8, <4>1, <4>2
    <3> QED
      BY <2>6, <3>1 DEF HoldingPc
  <2>9. CASE SellHears(s)
    <3>1. /\ task'[s].pc \in {"confirmed", "unconfirmed"} /\ task[s].pc = "wait"
          /\ permits' = permits
          /\ \A t \in Tasks \ {s} : task'[t].pc = task[t].pc
      BY <1>0, <2>0, <2>9 DEF SellHears
    <3> QED
      BY <2>6, <3>1 DEF HoldingPc
  <2>10. CASE SellHangsUp(s) \/ SellTimesOut(s)
    <3>1. /\ task'[s].pc = "unconfirmed" /\ task[s].pc = "wait" /\ permits' = permits
          /\ \A t \in Tasks \ {s} : task'[t].pc = task[t].pc
      <4>1. CASE SellHangsUp(s)
        BY <1>0, <2>0, <4>1 DEF SellHangsUp
      <4>2. CASE SellTimesOut(s)
        BY <1>0, <2>0, <4>2 DEF SellTimesOut
      <4> QED
        BY <2>10, <4>1, <4>2
    <3> QED
      BY <2>6, <3>1 DEF HoldingPc
  <2> QED
    BY <1>4, <2>1, <2>2, <2>3, <2>4, <2>5, <2>7, <2>8, <2>9, <2>10 DEF SellStep
<1>5. ASSUME NEW u \in wire, Receive(u)
      PROVE  PermitsOK'
  BY <1>0, <1>5, SameHolders DEF Receive
<1>6. CASE WatchGoesOn
  <2>1. CASE WatchNotifies
    <3>1. permits' = permits /\ \A t \in Tasks : task'[t].pc = task[t].pc
      BY <1>0, <2>1 DEF WatchNotifies, LooksUp
    <3> QED
      BY <1>0, <3>1, SameHolders
  <2>2. CASE ~WatchNotifies
    BY <1>0, <1>6, <2>2, SameHolders
    DEF WatchGoesOn, WatchIgnores, WatchBare, LooksUp, WatchRecords, WatchPanics, WatchUnlocks,
        WatchRemoves
  <2> QED
    BY <2>1, <2>2
<1>7. CASE Cluster
  BY <1>0, <1>7, SameHolders
  DEF Cluster, LandBuy, LandSell, SellRejected, LoseUpdate, NewBlockhash, Runs, Executed
<1>8. CASE UNCHANGED vars
  BY <1>0, <1>8, SameHolders DEF vars
<1> QED
  BY <1>3, <1>4, <1>5, <1>6, <1>7, <1>8 DEF Next

(***************************************************************************)
(* What a step of a task leaves alone                                      *)
(***************************************************************************)
\* What a step of sell task s leaves alone, and what it sends.
LEMMA SellView ==
  ASSUME Inv, NEW s \in Sells, SellStarts(s) \/ SellStep(s)
  PROVE  /\ UNCHANGED <<watcher, landed, wire, lost, tokens, bought>>
         /\ \A t \in Tasks \ {s} : task'[t] = task[t]
         /\ task'[s].pc # "idle"
         /\ \A h \in sent' \ sent : /\ h.kind = "sell" /\ h.mint = SoldMint[s]
         /\ \A m \in Mints : pending'[BuySig(m)] = pending[BuySig(m)]
<1> DEFINE g == task[s].sig
<1>0. /\ task \in [Tasks -> Task] /\ s \in Tasks /\ SellOK(s)
      /\ pending \in [Sigs -> Entry \cup {None}]
      /\ \A m \in Mints : BuySig(m) \in Sigs /\ BuySig(m).kind = "buy"
  BY TaskNames, SigKinds DEF Inv, TypeOK, Linked
<1>1. UNCHANGED <<watcher, landed, wire, lost, tokens, bought>>
  BY DEF SellStep, SellStarts, Acquire, SellPanics, SellInserts, SellBuildFails,
     SellSends, SellSendsInVain, SellSendFails, SellHears, SellHangsUp, SellTimesOut,
     SellRemoves, SellEnds, chain
<1>2. CASE SellStarts(s) \/ Acquire(s) \/ SellBuildFails(s)
  <2>1. UNCHANGED <<sent, pending>>
    BY <1>2 DEF SellStarts, Acquire, SellBuildFails, chain
  <2>2. task'[s].pc # "idle" /\ \A t \in Tasks \ {s} : task'[t] = task[t]
    BY <1>0, <1>2 DEF SellStarts, Acquire, SellBuildFails, Task
  <2> QED
    BY <1>1, <2>1, <2>2
<1>3. CASE SellPanics(s) \/ SellEnds(s)
  <2>1. UNCHANGED <<sent, pending>>
    BY <1>3 DEF SellPanics, SellEnds, chain
  <2>2. task'[s].pc # "idle" /\ \A t \in Tasks \ {s} : task'[t] = task[t]
    BY <1>0, <1>3 DEF SellPanics, SellEnds, Return, Task
  <2> QED
    BY <1>1, <2>1, <2>2
<1>4. CASE SellHears(s) \/ SellHangsUp(s) \/ SellTimesOut(s)
  <2>1. UNCHANGED <<sent, pending>>
    BY <1>4 DEF SellHears, SellHangsUp, SellTimesOut, chain
  <2>2. task'[s].pc # "idle" /\ \A t \in Tasks \ {s} : task'[t] = task[t]
    BY <1>0, <1>4 DEF SellHears, SellHangsUp, SellTimesOut, Task
  <2> QED
    BY <1>1, <2>1, <2>2
<1>5. CASE SellInserts(s)
  <2>1. SellSig(s) \in Sigs /\ SellSig(s).kind = "sell"
    BY SellSigTyped DEF Inv
  <2>2. UNCHANGED sent /\ \A m \in Mints : pending'[BuySig(m)] = pending[BuySig(m)]
    BY <1>0, <1>5, <2>1 DEF SellInserts, InsertPending, chain
  <2>3. task'[s].pc # "idle" /\ \A t \in Tasks \ {s} : task'[t] = task[t]
    BY <1>0, <1>5 DEF SellInserts, InsertPending, Task
  <2> QED
    BY <1>1, <2>2, <2>3
<1>6. CASE SellSends(s) \/ SellSendsInVain(s)
  <2>1. g.kind = "sell" /\ g.mint = SoldMint[s] /\ UNCHANGED pending
    BY <1>0, <1>6 DEF SellSends, SellSendsInVain, SellOK
  <2>2. \A h \in sent' \ sent : h = g
    BY <1>6 DEF SellSends, SellSendsInVain, chain
  <2>3. task'[s].pc # "idle" /\ \A t \in Tasks \ {s} : task'[t] = task[t]
    BY <1>0, <1>6 DEF SellSends, SellSendsInVain, Task
  <2> QED
    BY <1>1, <2>1, <2>2, <2>3
<1>7. CASE SellSendFails(s) \/ SellRemoves(s)
  <2>1. g \in Sigs /\ g.kind = "sell" /\ g.mint = SoldMint[s]
    BY <1>0, <1>7 DEF SellSendFails, SellRemoves, SellOK
  <2>2. \A h \in sent' \ sent : h = g
    BY <1>7 DEF SellSendFails, SellRemoves, chain
  <2>3. task'[s].pc # "idle" /\ \A t \in Tasks \ {s} : task'[t] = task[t]
    BY <1>0, <1>7 DEF SellSendFails, SellRemoves, Task
  <2>4. pending' = [pending EXCEPT ![g] = None]
    BY <1>7 DEF SellSendFails, SellRemoves
  <2>5. \A m \in Mints : pending'[BuySig(m)] = pending[BuySig(m)]
    BY <1>0, <2>1, <2>4
  <2> QED
    BY <1>1, <2>1, <2>2, <2>3, <2>5
<1> QED
  BY <1>2, <1>3, <1>4, <1>5, <1>6, <1>7 DEF SellStep

\* What a step of the buy task of m leaves alone, and what it sends.
LEMMA BuyView ==
  ASSUME Inv, NEW m \in Mints, BuyStep(m)
  PROVE  /\ UNCHANGED <<watcher, landed, wire, lost, tokens, bought>>
         /\ \A t \in Tasks \ {m} : task'[t] = task[t]
         /\ \A h \in sent' \ sent : h = BuySig(m) /\ task[m].pc = "send"
         /\ \A x \in Mints : /\ pending'[BuySig(x)] = None => pending[BuySig(x)] = None
                             /\ x # m => pending'[BuySig(x)] = pending[BuySig(x)]
<1> DEFINE g == BuySig(m)
<1>0. /\ task \in [Tasks -> Task] /\ m \in Tasks /\ BuyLandsOnce(m)
      /\ pending \in [Sigs -> Entry \cup {None}] /\ g \in Sigs
  BY TaskNames, SigKinds DEF Inv, TypeOK, Linked, BuyOK
<1>1. UNCHANGED <<watcher, landed, wire, lost, tokens, bought>>
  BY DEF BuyStep, Acquire, BuyGivesUp, BuyInserts, BuySends, BuyHears, BuyHangsUp,
     BuyReads, BuyTells, BuyEnsures, chain
<1>2. \A t \in Tasks \ {m} : task'[t] = task[t]
  BY <1>0 DEF BuyStep, Acquire, BuyGivesUp, BuyInserts, InsertPending, BuySends,
     BuyHears, BuyHangsUp, BuyReads, BuyTells, BuyEnsures, Return
<1>3. CASE BuySends(m)
  <2>1. task[m].pc = "send" /\ task[m].sig = g /\ UNCHANGED pending
    BY <1>0, <1>3 DEF BuySends, BuyLandsOnce
  <2> QED
    BY <1>1, <1>2, <1>3, <2>1 DEF BuySends
<1>4. CASE BuyInserts(m)
  <2>1. UNCHANGED sent /\ pending' = [pending EXCEPT ![g] = [owner |-> m, qty |-> 0]]
    BY <1>4 DEF BuyInserts, InsertPending, chain
  <2>2. [owner |-> m, qty |-> 0] # None
    BY <1>0, ConfirmAssumption DEF Tasks
  <2> QED
    BY <1>0, <1>1, <1>2, <2>1, <2>2, SigKinds
<1>5. CASE ~BuySends(m) /\ ~BuyInserts(m)
  <2>1. UNCHANGED <<sent, pending>>
    BY <1>5 DEF BuyStep, Acquire, BuyGivesUp, BuyHears, BuyHangsUp, BuyReads, BuyTells,
       BuyEnsures, chain
  <2> QED
    BY <1>1, <1>2, <2>1
<1> QED
  BY <1>3, <1>4, <1>5

(***************************************************************************)
(* The theorems                                                            *)
(***************************************************************************)
LEMMA UnchangedStep ==
  ASSUME Inv, UNCHANGED vars
  PROVE  TypeOK' /\ Linked'
<1>1. TypeOK' /\ WatchOK' /\ Updates' = Updates
  BY DEF Inv, Linked, TypeOK, WatchOK, Updates, vars, chain
<1>2. \A m \in Mints : BuyEntry(m)'
  BY EntryKept DEF Inv, Linked, Locked, BuySig, vars, chain
<1> QED
  BY <1>1, <1>2, WatchStep DEF vars, chain

LEMMA Inductive == Spec => []Inv
<1>1. Inv /\ [Next]_vars => Inv'
  <2> SUFFICES ASSUME Inv, [Next]_vars PROVE Inv'
    OBVIOUS
  <2>1. PermitsOK'
    BY PermitsNext
  <2>2. ASSUME NEW u \in wire, Receive(u) PROVE TypeOK' /\ Linked'
    BY <2>2, ReceiveStep
  <2>3. ASSUME WatchGoesOn PROVE TypeOK' /\ Linked'
    BY <2>3, WatchLooksStep, WatchNotifiesStep, WatchRecordsStep, WatchLeavesStep,
       WatchRemovesStep DEF WatchGoesOn
  <2>4. ASSUME Cluster PROVE TypeOK' /\ Linked'
    BY <2>4, LandBuyStep, LandSellStep, LosesUpdate, NewBlockhashStep DEF Cluster
  <2>5. TypeOK' /\ Linked'
    BY <2>1, <2>2, <2>3, <2>4, BuySteps, SellSteps, UnchangedStep DEF Next
  <2> QED
    BY <2>1, <2>5 DEF Inv
<1> QED
  BY <1>1, InitHolds, PTL DEF Spec

\* The variables of the confirmation keep their types; in particular tx_sem is given
\* back exactly as often as it is taken, on every way out of the two tasks.
THEOREM TypeCorrect == Spec => []TypeOK
<1>1. Inv => TypeOK
  BY DEF Inv
<1> QED
  BY <1>1, Inductive, PTL

\* The amount that a buy task reads is the one the chain has credited, although
\* it is notified before the amount is recorded (transaction_verifier.rs:123-135).
THEOREM BuyReadsTheAmount == Spec => []BuyLearnsChain
<1>1. Inv => BuyLearnsChain
  BY DEF Inv, Linked, BuyOK, BuyReport, Reported, InManager, BuyLearnsChain
<1> QED
  BY <1>1, Inductive, PTL

\* A buy that is told of its success finds its entry (main.rs:310), unless updates
\* come without meta.
THEOREM EntryIsThere == Spec => []ConfirmedFindsEntry
<1>1. Inv => ConfirmedFindsEntry
  <2> SUFFICES ASSUME Inv, NEW m \in Mints, task[m].pc = "confirmed", ~Bare
               PROVE  Open(m)
    BY DEF ConfirmedFindsEntry
  <2>1. task[m].sig = BuySig(m) /\ Told(m) /\ BuyEntry(m)
    BY DEF Inv, Linked, BuyOK, BuyLandsOnce, Told
  <2> QED
    BY <2>1 DEF BuyEntry, Open
<1> QED
  BY <1>1, Inductive, PTL

\* A sell task that takes its sale for confirmed (main.rs:415) is right, whichever
\* of the attempts of whichever of the mint's sell tasks was executed.
THEOREM LiquidatedOnChain == Spec => []SellDoneMeansLiquidated
<1>1. Inv => SellDoneMeansLiquidated
  BY DEF Inv, Linked, SellOK, SellDoneMeansLiquidated
<1> QED
  BY <1>1, Inductive, PTL

\* The amount that a sell task asks for is what the account holds, if there is
\* an account (wallet.rs:144).
THEOREM OrdersFit == Spec => []OrderFitsAccount
<1>1. Inv => OrderFitsAccount
  <2> SUFFICES ASSUME Inv, NEW s \in Sells, task[s].pc # "idle"
               PROVE  tokens[SoldMint[s]] \in {None, task[s].qty}
    BY DEF OrderFitsAccount
  <2> DEFINE m == SoldMint[s]
  <2>1. m \in Mints /\ Sold(m) /\ task[s].qty = task[m].qty
    BY TaskNames DEF Inv, Linked, SellOK
  <2>2. tokens[m] \in {None, bought[m]}
    BY <2>1 DEF Inv, Linked, BuyOK, Account
  <2>3. task[m].qty # None => task[m].qty = bought[m]
    BY <2>1 DEF Inv, Linked, BuyOK, BuyReport, Sold, Reported, InManager
  <2> QED
    BY <2>1, <2>2, <2>3 DEF Sold, Reported, InManager
<1> QED
  BY <1>1, Inductive, PTL
(***************************************************************************)
(* The halts                                                               *)
(*                                                                         *)
(* What Inv does not say: the answer to a buy that was executed does not   *)
(* get lost between the wire and the task.  The watcher is done with an    *)
(* update only when the task has been told of a success, the entry is gone *)
(* or the watcher itself is.                                               *)
(***************************************************************************)
AwaitsAnswer(m) ==
  /\ BuySig(m) \in landed /\ pending[BuySig(m)] # None
  /\ task[m].pc = "wait" /\ task[m].note # "Successed"

Coming(m) == \E u \in Updates : u.sig = BuySig(m)

\* The task is told before the watcher goes on to record the amounts.
SuccessNoted(m) ==
  Locked(BuySig(m)) /\ watcher.update.status # "err" /\ task[m].pc = "wait"
    => task[m].note = "Successed"

AnswerOK(m) ==
  /\ task[m].pc # "unconfirmed"
  /\ AwaitsAnswer(m) => m \in lost \/ watcher.pc = "dead" \/ Coming(m)
  /\ SuccessNoted(m)

Answers == \A m \in Mints : AnswerOK(m)

LEMMA InitAnswers == Init => Answers
<1> SUFFICES ASSUME Init, NEW m \in Mints PROVE AnswerOK(m)
  BY DEF Answers
<1>1. task[m].pc = "acquire"
  BY TaskNames DEF Init
<1> QED
  BY <1>1 DEF AnswerOK, AwaitsAnswer, SuccessNoted, Locked

\* A buy task that no part of the step is about.
LEMMA AnswerKept ==
  ASSUME NEW m \in Mints, AnswerOK(m), task'[m] = task[m], UNCHANGED watcher,
         BuySig(m) \in landed' => BuySig(m) \in landed,
         pending'[BuySig(m)] = None \/ pending'[BuySig(m)] = pending[BuySig(m)],
         wire \subseteq wire', lost \subseteq lost'
  PROVE  AnswerOK(m)'
<1>1. BuySig(m)' = BuySig(m)
  BY DEF BuySig
<1>2. AwaitsAnswer(m)' => AwaitsAnswer(m)
  BY <1>1 DEF AwaitsAnswer
<1>3. Coming(m) => Coming(m)'
  BY <1>1 DEF Coming, Updates
<1>4. SuccessNoted(m)'
  BY <1>1 DEF AnswerOK, SuccessNoted, Locked
<1> QED
  BY <1>2, <1>3, <1>4 DEF AnswerOK

LEMMA BuyAnswers ==
  ASSUME Inv, Answers, NEW m \in Mints, BuyStep(m)
  PROVE  Answers'
<1> DEFINE g == BuySig(m)
<1>0. /\ task \in [Tasks -> Task] /\ m \in Tasks /\ BuyOK(m) /\ AnswerOK(m)
      /\ g' = g /\ g.kind = "buy"
  BY TaskNames, SigKinds DEF Inv, TypeOK, Linked, Answers, BuySig
<1>1. UNCHANGED <<watcher, landed, wire, lost>>
  BY BuyView
<1>2. ASSUME NEW x \in Mints \ {m} PROVE AnswerOK(x)'
  <2>1. task'[x] = task[x] /\ pending'[BuySig(x)] = pending[BuySig(x)]
    BY BuyView, TaskNames
  <2> QED
    BY <1>1, <2>1, AnswerKept DEF Answers
<1> SUFFICES AnswerOK(m)'
  BY <1>2 DEF Answers
<1>3. ASSUME task'[m].pc \notin {"wait", "unconfirmed"} PROVE AnswerOK(m)'
  BY <1>3 DEF AnswerOK, AwaitsAnswer, SuccessNoted, Locked
<1>4. CASE BuySends(m)
  <2>1. task[m].pc = "send" /\ task'[m].pc = "wait"
    BY <1>0, <1>4 DEF BuySends, Task
  <2>2. g \notin landed
    BY <1>0, <2>1 DEF BuyOK, BuyLandsOnce
  <2>3. ~Locked(g)
    <3>1. ASSUME Locked(g) PROVE watcher.update \in Updates
      BY <3>1 DEF Locked, Updates
    <3> QED
      BY <1>0, <2>2, <3>1 DEF Inv, Linked, UpdateOK, Locked
  <2> QED
    BY <1>0, <1>1, <2>1, <2>2, <2>3 DEF AnswerOK, AwaitsAnswer, SuccessNoted, Locked
<1>5. CASE BuyHears(m)
  <2>1. /\ task[m].pc = "wait" /\ task'[m].note = "none" /\ UNCHANGED pending
        /\ task'[m].pc = IF task[m].note = "Successed" THEN "confirmed" ELSE "wait"
    BY <1>0, <1>5 DEF BuyHears, Task
  <2>2. CASE task[m].note = "Successed"
    BY <1>3, <2>1, <2>2
  <2>3. CASE task[m].note # "Successed"
    <3>1. AwaitsAnswer(m)' => AwaitsAnswer(m)
      BY <1>0, <1>1, <2>1, <2>3 DEF AwaitsAnswer
    <3>2. Coming(m)' <=> Coming(m)
      BY <1>0, <1>1 DEF Coming, Updates
    <3>3. SuccessNoted(m)'
      BY <1>0, <1>1, <2>1, <2>3 DEF AnswerOK, SuccessNoted, Locked
    <3> QED
      BY <1>0, <1>1, <2>1, <3>1, <3>2, <3>3 DEF AnswerOK
  <2> QED
    BY <2>2, <2>3
<1>6. CASE ~BuySends(m) /\ ~BuyHears(m)
  <2>1. task'[m].pc \notin {"wait", "unconfirmed"}
    BY <1>0, <1>6 DEF BuyStep, Acquire, BuyGivesUp, BuyInserts, InsertPending, BuyHangsUp,
       BuyReads, BuyTells, BuyEnsures, Return, Task
  <2> QED
    BY <1>3, <2>1
<1> QED
  BY <1>4, <1>5, <1>6

LEMMA SellAnswers ==
  ASSUME Inv, Answers, NEW s \in Sells, SellStarts(s) \/ SellStep(s)
  PROVE  Answers'
<1> SUFFICES ASSUME NEW m \in Mints PROVE AnswerOK(m)'
  BY DEF Answers
<1>1. task'[m] = task[m] /\ pending'[BuySig(m)] = pending[BuySig(m)]
  BY SellView, TaskNames
<1>2. UNCHANGED <<watcher, landed, wire, lost>>
  BY SellView
<1> QED
  BY <1>1, <1>2, AnswerKept DEF Answers

\* The watcher takes an update from the wire and has it.
LEMMA ReceiveAnswers ==
  ASSUME Inv, Answers, NEW u \in wire, Receive(u)
  PROVE  Answers'
<1> SUFFICES ASSUME NEW m \in Mints PROVE AnswerOK(m)'
  BY DEF Answers
<1>1. /\ watcher.pc = "recv" /\ watcher' = [pc |-> "lookup", update |-> u]
      /\ wire' \in {wire, wire \ {u}} /\ UNCHANGED <<task, pending, landed, lost>>
      /\ BuySig(m)' = BuySig(m) /\ AnswerOK(m)
  BY DEF Receive, Answers, BuySig
<1>2. Updates \subseteq Updates'
  BY <1>1 DEF Updates
<1>3. (AwaitsAnswer(m)' <=> AwaitsAnswer(m)) /\ (Coming(m) => Coming(m)')
  BY <1>1, <1>2 DEF AwaitsAnswer, Coming
<1> QED
  BY <1>1, <1>3 DEF AnswerOK, SuccessNoted, Locked

\* The watcher notifies the owner of the entry.
LEMMA NotifyAnswers ==
  ASSUME Inv, Answers, WatchNotifies, NEW m \in Mints
  PROVE  AnswerOK(m)'
<1> DEFINE g == BuySig(m)
           u == watcher.update
           o == pending[u.sig].owner
           hears == task[o].sig = u.sig /\ task[o].pc \in {"send", "wait"}
<1>0. /\ watcher.pc = "lookup" /\ UNCHANGED <<pending, landed, wire, lost>> /\ g' = g
      /\ g \in Sigs /\ AnswerOK(m) /\ m \in Tasks /\ BuyOK(m) /\ task \in [Tasks -> Task]
      /\ watcher' = [pc |-> "notified", update |-> u] /\ pending[u.sig] # None
      /\ task' = IF hears THEN [task EXCEPT ![o].note = Verdict(u.status)] ELSE task
  BY TaskNames, SigKinds
  DEF WatchNotifies, LooksUp, Inv, TypeOK, Linked, Answers, BuySig, chain
<1>1. Updates' = Updates /\ u \in Updates
  BY <1>0 DEF Updates
<1> HIDE DEF u
<1>2. task'[m].pc = task[m].pc
  BY <1>0 DEF Task
<1>3. CASE u.sig = g
  <2>1. Coming(m)'
    BY <1>0, <1>1, <1>3 DEF Coming
  <2>2. SuccessNoted(m)'
    <3> SUFFICES ASSUME task[m].pc = "wait", u.status # "err"
                 PROVE  task'[m].note = "Successed"
      BY <1>0, <1>2 DEF SuccessNoted, Locked
    <3>1. o = m /\ hears
      BY <1>0, <1>3 DEF BuyOK, BuyEntry, BuyLandsOnce
    <3> HIDE DEF o, hears
    <3>2. task' = [task EXCEPT ![m].note = "Successed"]
      BY <1>0, <3>1 DEF Verdict
    <3> QED
      BY <1>0, <3>2 DEF Task
  <2> QED
    BY <1>0, <1>2, <2>1, <2>2 DEF AnswerOK
<1>4. CASE u.sig # g
  <2>1. AwaitsAnswer(m)' => AwaitsAnswer(m)
    <3>1. task'[m] = task[m] \/ (hears /\ o = m)
      BY <1>0
    <3>2. task[m].pc = "wait" => task[m].sig = g
      BY <1>0 DEF BuyOK, BuyLandsOnce
    <3>3. task[m].pc = "wait" => task'[m] = task[m]
      BY <1>4, <3>1, <3>2
    <3> QED
      BY <1>0, <1>2, <3>3 DEF AwaitsAnswer
  <2>2. Coming(m) => Coming(m)'
    BY <1>0, <1>1 DEF Coming
  <2>3. SuccessNoted(m)'
    BY <1>0, <1>4 DEF SuccessNoted, Locked
  <2> QED
    BY <1>0, <1>2, <2>1, <2>2, <2>3 DEF AnswerOK
<1> QED
  BY <1>3, <1>4

\* The watcher goes on with the update that it has.
LEMMA WatchAnswers ==
  ASSUME Inv, Answers, WatchGoesOn
  PROVE  Answers'
<1> SUFFICES ASSUME NEW m \in Mints, ~WatchNotifies PROVE AnswerOK(m)'
  BY NotifyAnswers DEF Answers
<1> DEFINE g == BuySig(m)
           u == watcher.update
<1>0. /\ watcher.pc \in {"lookup", "notified", "remove"} /\ UNCHANGED <<task, landed, wire, lost>>
      /\ g' = g /\ g \in Sigs /\ AnswerOK(m)
      /\ pending \in [Sigs -> Entry \cup {None}] /\ u.sig \in Sigs
      /\ Updates = wire \cup {u}
  <2>1. /\ watcher.pc \in {"lookup", "notified", "remove"}
        /\ UNCHANGED <<task, landed, wire, lost>>
    BY DEF WatchGoesOn, WatchIgnores, WatchBare, LooksUp, WatchRecords, WatchPanics,
       WatchUnlocks, WatchRemoves, chain
  <2> QED
    BY <2>1, SigKinds, UpdatesTyped
    DEF Inv, TypeOK, Linked, Answers, BuySig, Updates
<1>1. CASE WatchPanics
  <2>1. watcher'.pc = "dead"
    BY <1>1 DEF WatchPanics
  <2> QED
    BY <1>0, <2>1 DEF AnswerOK, SuccessNoted, Locked
\* The watcher keeps the update.
<1>2. CASE WatchUnlocks \/ WatchBare
  <2>1. watcher'.pc = "remove" /\ watcher'.update = u /\ UNCHANGED pending
    BY <1>2 DEF WatchUnlocks, WatchBare, Inv, TypeOK
  <2>2. Coming(m)' <=> Coming(m)
    BY <1>0, <2>1 DEF Coming, Updates
  <2>3. AwaitsAnswer(m)' <=> AwaitsAnswer(m)
    BY <1>0, <2>1 DEF AwaitsAnswer
  <2> QED
    BY <1>0, <2>1, <2>2, <2>3 DEF AnswerOK, SuccessNoted, Locked
\* The update leaves, the others stay where they are.
<1>3. ASSUME watcher'.pc = "recv", u.sig = g => ~AwaitsAnswer(m)',
             AwaitsAnswer(m)' => AwaitsAnswer(m)
      PROVE  AnswerOK(m)'
  <2>1. Updates' = wire
    BY <1>0, <1>3 DEF Updates
  <2>2. Coming(m) /\ u.sig # g => Coming(m)'
    BY <1>0, <2>1 DEF Coming
  <2> QED
    BY <1>0, <1>3, <2>2 DEF AnswerOK, SuccessNoted, Locked
<1>4. CASE WatchRecords
  <2>1. /\ watcher'.pc = "recv" /\ watcher.pc = "notified" /\ u.status # "err"
        /\ pending' = IF u.status = "ok" THEN [pending EXCEPT ![u.sig].qty = u.qty] ELSE pending
    BY <1>4 DEF WatchRecords, Verdict
  <2>2. pending'[g] # None => pending[g] # None
    <3>1. pending[u.sig] # None
      BY <2>1 DEF Inv, Linked, WatchOK
    <3> QED
      BY <1>0, <2>1, <3>1
  <2>3. AwaitsAnswer(m)' => AwaitsAnswer(m)
    BY <1>0, <2>2 DEF AwaitsAnswer
  <2>4. u.sig = g => ~AwaitsAnswer(m)
    BY <1>0, <2>1 DEF AnswerOK, SuccessNoted, Locked, AwaitsAnswer
  <2> QED
    BY <1>3, <2>1, <2>3, <2>4
<1>5. CASE WatchRemoves
  <2>1. watcher'.pc = "recv" /\ pending' = [pending EXCEPT ![u.sig] = None]
    BY <1>5 DEF WatchRemoves
  <2>2. pending'[g] = IF u.sig = g THEN None ELSE pending[g]
    BY <1>0, <2>1
  <2>3. /\ AwaitsAnswer(m)' => AwaitsAnswer(m)
        /\ u.sig = g => ~AwaitsAnswer(m)'
    BY <1>0, <2>2 DEF AwaitsAnswer
  <2> QED
    BY <1>3, <2>1, <2>3
<1>6. CASE WatchIgnores
  <2>1. watcher'.pc = "recv" /\ UNCHANGED pending /\ pending[u.sig] = None
    BY <1>6 DEF WatchIgnores
  <2>2. /\ AwaitsAnswer(m)' => AwaitsAnswer(m)
        /\ u.sig = g => ~AwaitsAnswer(m)'
    BY <1>0, <2>1 DEF AwaitsAnswer
  <2> QED
    BY <1>3, <2>1, <2>2
<1> QED
  BY <1>1, <1>2, <1>4, <1>5, <1>6 DEF WatchGoesOn

\* What is executed is answered.
LEMMA ClusterAnswers ==
  ASSUME Inv, Answers, Cluster
  PROVE  Answers'
<1> SUFFICES ASSUME NEW m \in Mints PROVE AnswerOK(m)'
  BY DEF Answers
<1>0. UNCHANGED <<task, watcher>> /\ BuySig(m)' = BuySig(m) /\ AnswerOK(m)
  BY DEF Cluster, LandBuy, LandSell, SellRejected, LoseUpdate, NewBlockhash, Runs, Executed,
     Answers, BuySig
<1>1. ASSUME NEW g \in Sigs, NEW status, NEW qty, Executed(g, status, qty)
      PROVE  AnswerOK(m)'
  <2>1. /\ landed' = landed \cup {g} /\ UNCHANGED <<pending, lost>>
        /\ wire' = wire \cup {[sig |-> g, status |-> status, qty |-> qty]}
    BY <1>1 DEF Executed
  <2>2. CASE g = BuySig(m)
    <3> DEFINE new == [sig |-> g, status |-> status, qty |-> qty]
    <3>1. Coming(m)'
      <4>1. new.sig = BuySig(m)' /\ new \in Updates'
        BY <1>0, <2>1, <2>2 DEF Updates
      <4> QED
        BY <4>1 DEF Coming
    <3> QED
      BY <1>0, <3>1 DEF AnswerOK, SuccessNoted, Locked
  <2>3. CASE g # BuySig(m)
    BY <1>0, <2>1, <2>3, AnswerKept
  <2> QED
    BY <2>2, <2>3
<1>2. ASSUME NEW x \in Mints, LandBuy(x) PROVE AnswerOK(m)'
  <2>1. PICK status, qty : Executed(BuySig(x), status, qty)
    BY <1>2 DEF LandBuy, Runs
  <2> QED
    BY <1>1, <2>1, SigKinds
<1>3. ASSUME NEW g \in Sigs, LandSell(g) \/ SellRejected(g) PROVE AnswerOK(m)'
  <2>1. PICK status, qty : Executed(g, status, qty)
    BY <1>3 DEF LandSell, SellRejected, Runs
  <2> QED
    BY <1>1, <2>1
\* A buy that waits for an update of its own is lost with it.
<1>4. ASSUME NEW u \in wire, LoseUpdate(u) PROVE AnswerOK(m)'
  <2>1. /\ wire' = wire \ {u} /\ UNCHANGED <<pending, landed>> /\ lost \subseteq lost'
        /\ u.sig = BuySig(m) /\ AwaitsAnswer(m) => m \in lost'
    BY <1>4 DEF LoseUpdate, AwaitsAnswer
  <2>2. AwaitsAnswer(m)' <=> AwaitsAnswer(m)
    BY <1>0, <2>1 DEF AwaitsAnswer
  <2>3. Coming(m) /\ u.sig # BuySig(m) => Coming(m)'
    BY <1>0, <2>1 DEF Coming, Updates
  <2> QED
    BY <1>0, <2>1, <2>2, <2>3 DEF AnswerOK, SuccessNoted, Locked
<1>5. CASE NewBlockhash
  <2>1. BuySig(m) \in Sigs /\ BuySig(m).kind = "buy"
    BY SigKinds
  <2>2. /\ BuySig(m) \in landed' => BuySig(m) \in landed
        /\ pending'[BuySig(m)] = pending[BuySig(m)] /\ UNCHANGED <<wire, lost>>
    BY <1>5, <2>1 DEF NewBlockhash
  <2> QED
    BY <1>0, <2>2, AnswerKept
<1> QED
  BY <1>2, <1>3, <1>4, <1>5 DEF Cluster

LEMMA AnswersStep == Inv /\ Answers /\ [Next]_vars => Answers'
<1> SUFFICES ASSUME Inv, Answers, [Next]_vars PROVE Answers'
  OBVIOUS
<1>1. CASE UNCHANGED vars
  BY <1>1, AnswerKept DEF vars, chain, Answers
<1> QED
  BY <1>1, BuyAnswers, SellAnswers, ReceiveAnswers, WatchAnswers, ClusterAnswers DEF Next

\* When nobody can move, every task that has started and has not ended waits.
LEMMA HaltedWaits ==
  ASSUME Inv, Answers, Halted, NEW t \in Tasks,
         task[t].pc \notin {"idle", "acquire", "done", "gone", "panicked"}
  PROVE  Waits(t)
<1>0. task[t] \in Task /\ watcher.pc \in WatchPc
  BY TaskFields DEF Inv, TypeOK
\* The watcher has nothing to do, or its thread waits for a guard.
<1>1. /\ watcher.pc # "notified"
      /\ watcher.pc = "dead" \/ Updates = {} \/ WatchParked
  <2>1. ~WatchCanMove
    BY DEF Halted
  <2>2. CASE watcher.pc \in {"recv", "dead"}
    BY <2>1, <2>2 DEF WatchCanMove, Updates
  <2>3. CASE watcher.pc \in {"lookup", "remove"}
    BY <2>1, <2>3 DEF WatchCanMove
  <2> QED
    BY <1>0, <2>1, <2>2, <2>3 DEF WatchPc, WatchCanMove
<1>2. \A g : Unlocked(g) /\ (~Writable(g) => ReadLocked(g))
  BY <1>1 DEF Unlocked, Writable
<1>3. CASE t \in Mints
  <2>0. ~BuyCanMove(t) /\ AnswerOK(t) /\ BuyOK(t)
    BY <1>3 DEF Halted, Answers, Inv, Linked
  <2>1. task[t].pc \in {"build", "wait", "telling", "starting"}
    BY <1>0, <1>2, <2>0 DEF BuyCanMove, AnswerOK, Task, TaskPc
  <2>2. CASE task[t].pc = "build"
    BY <1>2, <1>3, <2>0, <2>2 DEF BuyCanMove, Waits, BehindGuard
  <2>3. CASE task[t].pc = "wait"
    <3>1. task[t].note = "none" /\ Open(t) /\ task[t].sig = BuySig(t)
      BY <2>0, <2>3 DEF BuyCanMove, BuyOK, BuyLandsOnce
    <3>2. BuySig(t) \in landed => t \in lost \/ watcher.pc = "dead" \/ Coming(t)
      BY <2>0, <2>3, <3>1 DEF AnswerOK, AwaitsAnswer, Open
    <3>3. Coming(t) /\ watcher.pc # "dead" => WatchParked
      BY <1>1 DEF Coming
    <3>4. Unanswered(t)
      BY <2>3, <3>1, <3>2, <3>3 DEF Unanswered, Coming
    <3> QED
      BY <1>3, <3>4 DEF Waits
  <2>4. CASE InManager(t)
    BY <2>4 DEF Waits
  <2> QED
    BY <2>1, <2>2, <2>3, <2>4 DEF InManager
<1>4. CASE t \in Sells
  <2>0. ~SellCanMove(t) /\ t \notin Mints
    BY <1>4, TaskNames DEF Halted
  <2>1. task[t].pc \in {"build", "unconfirmed", "confirmed", "telling", "starting"}
    BY <1>0, <2>0 DEF SellCanMove, Task, TaskPc
  <2>2. CASE task[t].pc = "build"
    BY <1>2, <2>0, <2>2 DEF SellCanMove, Waits, BehindGuard
  <2>3. CASE task[t].pc = "unconfirmed"
    BY <1>2, <2>0, <2>3 DEF SellCanMove, Waits, BehindGuard
  <2>4. CASE InManager(t) \/ task[t].pc = "confirmed"
    BY <1>4, <2>4 DEF Waits, Clears
  <2> QED
    BY <2>1, <2>2, <2>3, <2>4 DEF InManager
<1> QED
  BY <1>3, <1>4 DEF Tasks

\* The pending map, its watch channels and tx_sem never hold each other up by
\* themselves (main.rs:308-325, 415-421, transaction_verifier.rs:92-140).  When nobody can
\* move, everybody waits for an answer that does not come, for the manager, or for a
\* buy task that is in the manager with its guard, and permits are missing only
\* because all of them are with such tasks.
THEOREM NoHaltOfItsOwn == Spec => []HaltsOnlyOutside
<1>1. Inv /\ Answers => HaltsOnlyOutside
  <2> SUFFICES ASSUME Inv, Answers, Halted
               PROVE  /\ \A t \in Tasks :
                           \/ task[t].pc \in {"idle", "acquire", "done", "gone", "panicked"}
                           \/ Waits(t)
                      /\ (\E t \in Tasks : task[t].pc = "acquire")
                           => Cardinality({t \in Tasks : Waits(t)}) = Permits
    BY DEF HaltsOnlyOutside
  <2>1. ASSUME NEW t \in Tasks, task[t].pc = "acquire"
        PROVE  Cardinality({x \in Tasks : Waits(x)}) = Permits
    <3>1. permits = 0
      BY <2>1, ConfirmAssumption
      DEF Halted, BuyCanMove, SellCanMove, Tasks, Inv, TypeOK
    <3>2. \A x \in Tasks : Waits(x) <=> task[x].pc \in HoldingPc
      <4> SUFFICES ASSUME NEW x \in Tasks PROVE Waits(x) <=> task[x].pc \in HoldingPc
        OBVIOUS
      <4>1. Waits(x) => task[x].pc \in HoldingPc
        BY DEF Waits, Unanswered, BehindGuard, InManager, Clears, HoldingPc
      <4>2. task[x].pc \in HoldingPc => Waits(x)
        BY HaltedWaits DEF HoldingPc
      <4> QED
        BY <4>1, <4>2
    <3>3. {x \in Tasks : Waits(x)} = Holders
      BY <3>2 DEF Holders
    <3>4. Cardinality(Holders) \in Nat /\ Cardinality(Holders) + permits = Permits
      BY FS_CardinalityType DEF Inv, PermitsOK
    <3> QED
      BY <3>1, <3>3, <3>4
  <2> QED
    BY <2>1, HaltedWaits
<1> QED
  BY <1>1, Inductive, InitAnswers, AnswersStep, PTL DEF Spec
=============================================================================
