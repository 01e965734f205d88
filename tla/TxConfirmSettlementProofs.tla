--------------------- MODULE TxConfirmSettlementProofs ---------------------
(***************************************************************************)
(* TxConfirm implements Settlement, for every number of mints, sell tasks, *)
(* permits and blockhashes, with and without losses, bare and malformed    *)
(* updates.                                                                *)
(***************************************************************************)
EXTENDS TxConfirmSettlement, TxConfirmProofs

(***************************************************************************)
(* What Inv does not say: the end of a buy task means that its transaction *)
(* is not on its way any more.  A buy that is on its way has its entry, so *)
(* that its task does not hang up; and an entry goes away only after the   *)
(* transaction has failed, or with a bare update.                          *)
(***************************************************************************)
BuyEnds(m) ==
  LET g == BuySig(m) IN
  /\ task[m].pc = "send" \/ g \in sent => pending[g] # None
  /\ g \in sent => task[m].pc = "wait"
  /\ task[m].pc = "wait" /\ pending[g] = None /\ ~Bare => bought[m] = 0

\* A sell that is on its way was ordered.
SellsOrdered ==
  \A g \in sent : g.kind = "sell" =>
    \E s \in Sells : SoldMint[s] = g.mint /\ task[s].pc # "idle"

Ended == (\A m \in Mints : BuyEnds(m)) /\ SellsOrdered

\* A buy that no part of the step is about.
LEMMA EndsKept ==
  ASSUME NEW m \in Mints, BuyEnds(m), BuySig(m) \in sent' => BuySig(m) \in sent,
         pending'[BuySig(m)] = None => pending[BuySig(m)] = None,
         bought'[m] = bought[m], task'[m].pc = task[m].pc
  PROVE  BuyEnds(m)'
  BY DEF BuyEnds, BuySig

\* The orders of the sells that stay on their way.
LEMMA OrderedKept ==
  ASSUME SellsOrdered, \A g \in sent' : g.kind = "sell" => g \in sent,
         \A s \in Sells : task[s].pc # "idle" => task'[s].pc # "idle"
  PROVE  SellsOrdered'
  BY DEF SellsOrdered

LEMMA InitEnded == Init => Ended
<1> SUFFICES ASSUME Init PROVE Ended
  OBVIOUS
<1>1. sent = {} /\ \A m \in Mints : task[m].pc = "acquire"
  BY TaskNames DEF Init
<1> QED
  BY <1>1 DEF Ended, BuyEnds, SellsOrdered

LEMMA SellEnded ==
  ASSUME Inv, Ended, NEW s \in Sells, SellStarts(s) \/ SellStep(s)
  PROVE  Ended'
<1>1. ASSUME NEW m \in Mints PROVE BuyEnds(m)'
  <2>1. m \in Tasks \ {s} /\ BuySig(m).kind = "buy"
    BY TaskNames, SigKinds
  <2>2. task'[m] = task[m] /\ (BuySig(m) \in sent' => BuySig(m) \in sent)
    BY <2>1, SellView
  <2> QED
    BY <2>2, SellView, EndsKept DEF Ended
<1>2. SellsOrdered'
  <2>1. task'[s].pc # "idle" /\ \A x \in Sells \ {s} : task'[x] = task[x]
    BY SellView, TaskNames
  <2>2. \A h \in sent' : h \in sent \/ h.mint = SoldMint[s]
    BY SellView
  <2> QED
    BY <2>1, <2>2 DEF Ended, SellsOrdered
<1> QED
  BY <1>1, <1>2 DEF Ended

LEMMA BuyEnded ==
  ASSUME Inv, Ended, NEW m \in Mints, BuyStep(m)
  PROVE  Ended'
<1> DEFINE g == BuySig(m)
<1>0. /\ task \in [Tasks -> Task] /\ m \in Tasks /\ BuyOK(m) /\ BuyEnds(m)
      /\ pending \in [Sigs -> Entry \cup {None}] /\ g \in Sigs
  BY TaskNames, SigKinds DEF Inv, TypeOK, Linked, Ended
<1>1. ASSUME NEW x \in Mints \ {m} PROVE BuyEnds(x)'
  <2>1. x \in Tasks \ {m} /\ BuySig(x) # g
    BY TaskNames, SigKinds
  <2>2. /\ task'[x] = task[x] /\ (BuySig(x) \in sent' => BuySig(x) \in sent)
        /\ pending'[BuySig(x)] = None => pending[BuySig(x)] = None
        /\ bought' = bought
    BY <2>1, BuyView
  <2> QED
    BY <2>2, EndsKept DEF Ended
<1>2. SellsOrdered'
  <2>1. \A s \in Sells : task'[s] = task[s]
    BY BuyView, TaskNames
  <2>2. \A h \in sent' : h.kind = "sell" => h \in sent
    BY BuyView, SigKinds
  <2> QED
    BY <2>1, <2>2, OrderedKept DEF Ended
<1>3. Heard(m) => g \notin sent
  BY <1>0 DEF BuyOK, BuyLandsOnce
<1>4. ASSUME UNCHANGED <<sent, pending, bought>>, g \notin sent,
             task'[m].pc \notin {"send", "wait"}
      PROVE  BuyEnds(m)'
  BY <1>4 DEF BuyEnds, BuySig
<1>5. CASE Acquire(m) \/ BuyGivesUp(m)
  <2>1. task'[m].pc \in {"build", "gone"} /\ UNCHANGED <<sent, pending, bought>>
    BY <1>0, <1>5 DEF Acquire, BuyGivesUp, Return, Task, chain
  <2>2. g \notin sent
    BY <1>0, <1>5 DEF Acquire, BuyGivesUp, BuyOK, BuyLandsOnce
  <2> QED
    BY <1>1, <1>2, <1>4, <2>1, <2>2 DEF Ended
<1>6. CASE BuyInserts(m)
  <2>1. /\ task'[m].pc = "send" /\ UNCHANGED sent
        /\ pending' = [pending EXCEPT ![g] = [owner |-> m, qty |-> 0]]
    BY <1>0, <1>6 DEF BuyInserts, InsertPending, Task, chain
  <2>2. pending'[g] # None
    BY <1>0, <2>1, ConfirmAssumption DEF Tasks
  <2>3. g \notin sent
    BY <1>0, <1>6 DEF BuyInserts, BuyOK, BuyLandsOnce
  <2>4. BuyEnds(m)'
    BY <2>1, <2>2, <2>3 DEF BuyEnds, BuySig
  <2> QED
    BY <1>1, <1>2, <2>4 DEF Ended
<1>7. CASE BuySends(m)
  <2>1. /\ task'[m].pc = "wait" /\ UNCHANGED pending /\ pending[g] # None
    BY <1>0, <1>7 DEF BuySends, Task, BuyEnds
  <2>2. BuyEnds(m)'
    BY <2>1 DEF BuyEnds, BuySig
  <2> QED
    BY <1>1, <1>2, <2>2 DEF Ended
<1>8. CASE BuyHears(m)
  <2>1. Heard(m) /\ UNCHANGED <<sent, pending, bought>> /\ task[m].pc = "wait"
    BY <1>8 DEF BuyHears, Heard, chain
  <2>2. task'[m].pc = "confirmed" \/ task'[m].pc = task[m].pc
    BY <1>0, <1>8 DEF BuyHears, Task
  <2>3. BuyEnds(m)'
    BY <1>0, <1>3, <1>4, <2>1, <2>2, EndsKept
  <2> QED
    BY <1>1, <1>2, <2>3 DEF Ended
<1>9. CASE BuyHangsUp(m)
  <2>1. task'[m].pc = "gone" /\ UNCHANGED <<sent, pending, bought>>
    BY <1>0, <1>9 DEF BuyHangsUp, Return, Task, chain
  <2>2. pending[g] = None
    BY <1>0, <1>9 DEF BuyHangsUp, Open, BuyOK, BuyLandsOnce, BuyEntry
  <2>3. g \notin sent
    BY <1>0, <2>2 DEF BuyEnds
  <2> QED
    BY <1>1, <1>2, <1>4, <2>1, <2>3 DEF Ended
<1>10. CASE BuyReads(m) \/ BuyTells(m) \/ BuyEnsures(m)
  <2>1. /\ task'[m].pc \in {"telling", "starting", "done"} /\ Heard(m)
        /\ UNCHANGED <<sent, pending, bought>>
    BY <1>0, <1>10 DEF BuyReads, BuyTells, BuyEnsures, Return, Task, chain, Heard
  <2> QED
    BY <1>1, <1>2, <1>3, <1>4, <2>1 DEF Ended
<1> QED
  BY <1>5, <1>6, <1>7, <1>8, <1>9, <1>10 DEF BuyStep

\* The watcher, and the cluster, leave the tasks where they are.
LEMMA WatchView ==
  ASSUME Inv, (\E u \in wire : Receive(u)) \/ WatchGoesOn
  PROVE  /\ UNCHANGED <<sent, landed, tokens, bought>>
         /\ \A t \in Tasks : task'[t].pc = task[t].pc /\ task'[t].qty = task[t].qty
         /\ watcher.pc = "dead" => watcher'.pc = "dead"
<1>0. task \in [Tasks -> Task]
  BY DEF Inv, TypeOK
<1>1. UNCHANGED <<sent, landed, tokens, bought>>
  BY DEF Receive, WatchGoesOn, WatchIgnores, WatchBare, WatchNotifies, LooksUp,
     WatchRecords, WatchPanics, WatchUnlocks, WatchRemoves, chain
<1>2. \A t \in Tasks : task'[t].pc = task[t].pc /\ task'[t].qty = task[t].qty
  <2>1. CASE WatchNotifies
    BY <1>0, <2>1 DEF WatchNotifies, Task
  <2>2. CASE UNCHANGED task
    BY <2>2
  <2> QED
    BY <2>1, <2>2 DEF Receive, WatchGoesOn, WatchIgnores, WatchBare,
       WatchRecords, WatchPanics, WatchUnlocks, WatchRemoves
<1>3. watcher.pc # "dead"
  BY DEF Receive, WatchGoesOn, WatchIgnores, WatchBare, WatchNotifies, LooksUp,
     WatchRecords, WatchPanics, WatchUnlocks, WatchRemoves
<1> QED
  BY <1>1, <1>2, <1>3

\* The watcher removes the entry of a buy after its execution, and without an
\* update that is bare after its failure.
LEMMA WatchEnded ==
  ASSUME Inv, Ended, (\E u \in wire : Receive(u)) \/ WatchGoesOn
  PROVE  Ended'
<1>0. UNCHANGED <<sent, landed, bought>> /\ \A t \in Tasks : task'[t].pc = task[t].pc
  BY WatchView
<1>1. SellsOrdered'
  BY <1>0, TaskNames, OrderedKept DEF Ended
<1>2. ASSUME \A m \in Mints : pending'[BuySig(m)] = None => pending[BuySig(m)] = None
      PROVE  Ended'
  <2>1. \A m \in Mints : BuyEnds(m)'
    BY <1>0, <1>2, TaskNames, EndsKept DEF Ended
  <2> QED
    BY <1>1, <2>1 DEF Ended
<1>3. CASE UNCHANGED pending
  BY <1>2, <1>3
<1>4. CASE WatchRecords
  <2> DEFINE u == watcher.update
             e == [pending[u.sig] EXCEPT !.qty = u.qty]
  <2>1. u \in Update /\ u.sig \in Sigs /\ pending \in [Sigs -> Entry \cup {None}]
    BY <1>4, LockedSig DEF WatchRecords, Inv, TypeOK
  <2>2. pending[u.sig] # None
    BY <1>4 DEF WatchRecords, Inv, Linked, WatchOK
  <2>3. pending' = pending \/ pending' = [pending EXCEPT ![u.sig] = e]
    BY <1>4 DEF WatchRecords
  <2>4. \A g \in Sigs : pending'[g] = None => g = u.sig \/ pending[g] = None
    <3> HIDE DEF e
    <3> QED
      BY <2>1, <2>3
  <2>5. pending'[u.sig] # None
    <3>1. e # None
      <4>1. pending[u.sig] \in Entry /\ u.qty \in Nat
        BY <2>1, <2>2 DEF Update
      <4>2. e \in Entry
        BY <4>1 DEF Entry
      <4> QED
        BY <4>2, ConfirmAssumption DEF Entry, Tasks
    <3> HIDE DEF e
    <3> QED
      BY <2>1, <2>2, <2>3, <3>1
  <2> QED
    BY <1>2, <2>4, <2>5, SigKinds
<1>5. CASE WatchRemoves
  <2> DEFINE u == watcher.update
  <2>1. /\ watcher.pc = "remove" /\ u \in Updates /\ u.sig \in Sigs
        /\ Bare \/ u.status = "err"
        /\ pending' = [pending EXCEPT ![u.sig] = None]
        /\ pending \in [Sigs -> Entry \cup {None}]
    BY <1>5 DEF WatchRemoves, Updates, Inv, Linked, WatchOK, Update, TypeOK
  <2>2. ASSUME NEW m \in Mints PROVE BuyEnds(m)'
    <3>1. m \in Tasks /\ BuySig(m) \in Sigs /\ BuySig(m)' = BuySig(m)
      BY TaskNames, SigKinds DEF BuySig
    <3>2. CASE u.sig # BuySig(m)
      BY <1>0, <2>1, <3>1, <3>2, EndsKept DEF Ended
    <3>3. CASE u.sig = BuySig(m)
      <4>1. BuySig(m) \in landed /\ (u.status = "err" => bought[m] = 0)
        BY <2>1, <3>3, SigKinds DEF Inv, Linked, UpdateOK
      <4>2. BuySig(m) \notin sent /\ task[m].pc # "send"
        BY <4>1 DEF Inv, Linked, BuyOK, BuyLandsOnce
      <4> QED
        BY <1>0, <2>1, <3>1, <4>1, <4>2 DEF BuyEnds
    <3> QED
      BY <3>2, <3>3
  <2> QED
    BY <1>1, <2>2 DEF Ended
<1> QED
  BY <1>3, <1>4, <1>5 DEF Receive, WatchIgnores, WatchBare, WatchNotifies,
     WatchGoesOn, WatchPanics, WatchUnlocks

\* An execution takes its transaction off the way; new entries are not made.
LEMMA ClusterEnded ==
  ASSUME Inv, Ended, Cluster
  PROVE  Ended'
<1>0. /\ pending \in [Sigs -> Entry \cup {None}] /\ UNCHANGED task
      /\ sent' \subseteq sent
      /\ \A m \in Mints : pending'[BuySig(m)] = pending[BuySig(m)]
  <2>1. CASE NewBlockhash
    <3>1. \A m \in Mints : BuySig(m) \in Sigs /\ BuySig(m).kind = "buy"
      BY SigKinds
    <3> QED
      BY <2>1, <3>1 DEF NewBlockhash, Inv, TypeOK
  <2>2. CASE ~NewBlockhash
    BY <2>2 DEF Cluster, LandBuy, LandSell, SellRejected, LoseUpdate, Runs, Executed,
       Inv, TypeOK
  <2> QED
    BY <2>1, <2>2
<1>1. SellsOrdered'
  BY <1>0, OrderedKept DEF Ended
<1>2. ASSUME NEW m \in Mints PROVE BuyEnds(m)'
  <2>1. CASE bought'[m] = bought[m]
    BY <1>0, <2>1, EndsKept DEF Ended
  <2>2. CASE bought'[m] # bought[m]
    <3>1. BuySig(m) \in sent
      <4>1. PICK x \in Mints : LandBuy(x)
        BY <2>2 DEF Cluster, LandSell, SellRejected, LoseUpdate, NewBlockhash, Runs
      <4>2. PICK q \in Qtys : Runs(BuySig(x), buy_transaction, q)
        BY <2>2, <4>1 DEF LandBuy
      <4>3. BuySig(x) \in sent /\ BuySig(x).mint = x
        BY <4>2, SigKinds DEF Runs, Executed
      <4>4. x = m
        BY <2>2, <4>2, <4>3 DEF Runs, Inv, TypeOK
      <4> QED
        BY <4>3, <4>4
    <3>2. pending[BuySig(m)] # None /\ task[m].pc = "wait"
      BY <3>1 DEF Ended, BuyEnds
    <3> QED
      BY <1>0, <3>2 DEF BuyEnds, BuySig
  <2> QED
    BY <2>1, <2>2
<1> QED
  BY <1>1, <1>2 DEF Ended

LEMMA EndedStep == Inv /\ Ended /\ [Next]_vars => Ended'
<1> SUFFICES ASSUME Inv, Ended, [Next]_vars PROVE Ended'
  OBVIOUS
<1>1. CASE UNCHANGED vars
  BY <1>1 DEF vars, chain, Ended, BuyEnds, BuySig, SellsOrdered
<1> QED
  BY <1>1, BuyEnded, SellEnded, WatchEnded, ClusterEnded DEF Next

-----------------------------------------------------------------------------
(***************************************************************************)
(* The refinement: each step of TxConfirm is a step of Settlement or       *)
(* leaves the mapped variables alone.                                      *)
(***************************************************************************)
mapped == <<tokens, bought, Stages, Reports, Sales, watcher.pc # "dead">>

LEMMA InitMaps == Init => S!Init
<1> SUFFICES ASSUME Init PROVE S!Init
  OBVIOUS
<1>1. \A m \in Mints : task[m].pc = "acquire" /\ task[m].qty = None
  BY TaskNames DEF Init
<1>2. \A s \in Sells : task[s].pc = "idle"
  BY TaskNames DEF Init
<1>3. Stages = [m \in Mints |-> "pending"]
  BY <1>1 DEF Stages, Stage
<1>4. Reports = [m \in Mints |-> None]
  BY <1>1 DEF Reports
<1>5. Sales = [s \in Sells |-> "none"]
  BY <1>2 DEF Sales, SalePhase
<1> QED
  BY <1>3, <1>4, <1>5 DEF Init, S!Init

\* The mapped variables of a step that moves one task.
LEMMA StagesMove ==
  ASSUME Inv, NEW m \in Mints, \A t \in Tasks \ {m} : task'[t] = task[t]
  PROVE  /\ Stages' = [Stages EXCEPT ![m] = Stage(task'[m].pc)]
         /\ Reports' = [Reports EXCEPT ![m] = task'[m].qty]
         /\ Sales' = Sales
<1>1. \A x \in Mints \ {m} : task'[x] = task[x]
  BY TaskNames
<1>2. \A s \in Sells : task'[s] = task[s]
  BY TaskNames
<1>3. Stages' = [Stages EXCEPT ![m] = Stage(task'[m].pc)]
  BY <1>1 DEF Stages
<1>4. Reports' = [Reports EXCEPT ![m] = task'[m].qty]
  BY <1>1 DEF Reports
<1>5. Sales' = Sales
  BY <1>2 DEF Sales
<1> QED
  BY <1>3, <1>4, <1>5

LEMMA SalesMove ==
  ASSUME Inv, NEW s \in Sells, \A t \in Tasks \ {s} : task'[t] = task[t]
  PROVE  /\ Sales' = [Sales EXCEPT ![s] = SalePhase(task'[s].pc)]
         /\ UNCHANGED <<Stages, Reports>>
<1>1. \A x \in Sells \ {s} : task'[x] = task[x]
  BY TaskNames
<1>2. \A m \in Mints : task'[m] = task[m]
  BY TaskNames
<1>3. Sales' = [Sales EXCEPT ![s] = SalePhase(task'[s].pc)]
  BY <1>1 DEF Sales
<1>4. UNCHANGED <<Stages, Reports>>
  BY <1>2 DEF Stages, Reports
<1> QED
  BY <1>3, <1>4

\* A step in which the tasks stay where they are.
LEMMA TasksStay ==
  ASSUME \A t \in Tasks : task'[t].pc = task[t].pc /\ task'[t].qty = task[t].qty
  PROVE  UNCHANGED <<Stages, Reports, Sales>>
  BY TaskNames DEF Stages, Reports, Sales

LEMMA BuyMaps ==
  ASSUME Inv, Ended, NEW m \in Mints, BuyStep(m)
  PROVE  S!Next \/ UNCHANGED mapped
<1> DEFINE g == BuySig(m)
<1>0. /\ task \in [Tasks -> Task] /\ m \in Tasks /\ BuyOK(m) /\ BuyEnds(m)
      /\ pending \in [Sigs -> Entry \cup {None}] /\ g \in Sigs
      /\ UNCHANGED <<watcher, tokens, bought>>
  BY TaskNames, SigKinds, BuyView DEF Inv, TypeOK, Linked, Ended
<1>1. /\ Stages' = [Stages EXCEPT ![m] = Stage(task'[m].pc)]
      /\ Reports' = [Reports EXCEPT ![m] = task'[m].qty]
      /\ Sales' = Sales
  BY BuyView, StagesMove
<1>2. Stages[m] = Stage(task[m].pc) /\ Reports[m] = task[m].qty
  BY DEF Stages, Reports
<1>3. ASSUME Stage(task'[m].pc) = Stage(task[m].pc), task'[m].qty = task[m].qty
      PROVE  UNCHANGED mapped
  <2>1. Stages' = Stages /\ Reports' = Reports
    BY <1>1, <1>2, <1>3 DEF Stages, Reports
  <2> QED
    BY <1>0, <1>1, <2>1 DEF mapped
<1>4. ASSUME task'[m].pc = "gone", task'[m].qty = task[m].qty,
             Stage(task[m].pc) = "pending", bought[m] = 0 \/ Bare
      PROVE  S!GiveUp(m)
  <2>1. Stages' = [Stages EXCEPT ![m] = "gone"]
    BY <1>1, <1>4 DEF Stage
  <2>2. Reports' = Reports
    BY <1>1, <1>2, <1>4 DEF Reports
  <2> QED
    BY <1>0, <1>1, <1>2, <1>4, <2>1, <2>2 DEF S!GiveUp
<1>5. CASE Acquire(m) \/ BuyInserts(m) \/ BuySends(m)
  <2>1. /\ task[m].pc \in {"acquire", "build", "send"} /\ task'[m].qty = task[m].qty
        /\ task'[m].pc \in {"build", "send", "wait"}
    BY <1>0, <1>5 DEF Acquire, BuyInserts, InsertPending, BuySends, Task
  <2>2. Stage(task'[m].pc) = Stage(task[m].pc)
    BY <2>1 DEF Stage
  <2> QED
    BY <1>3, <2>1, <2>2
<1>6. CASE BuyHears(m)
  <2>1. /\ task[m].pc = "wait" /\ task'[m].qty = task[m].qty
        /\ task'[m].pc \in {"wait", "confirmed"}
    BY <1>0, <1>6 DEF BuyHears, Task
  <2>2. Stage(task'[m].pc) = Stage(task[m].pc)
    BY <2>1 DEF Stage
  <2> QED
    BY <1>3, <2>1, <2>2
<1>7. CASE BuyGivesUp(m)
  <2>1. task[m].pc = "build" /\ task'[m].pc = "gone" /\ task'[m].qty = task[m].qty
    BY <1>0, <1>7 DEF BuyGivesUp, Return, Task
  <2>2. bought[m] = 0
    BY <1>0, <2>1 DEF BuyOK, BuyLandsOnce, Account
  <2> QED
    BY <1>4, <2>1, <2>2 DEF Stage, S!Next
<1>8. CASE BuyHangsUp(m)
  <2>1. task[m].pc = "wait" /\ task'[m].pc = "gone" /\ task'[m].qty = task[m].qty
    BY <1>0, <1>8 DEF BuyHangsUp, Return, Task
  <2>2. pending[g] = None
    BY <1>0, <1>8 DEF BuyHangsUp, Open, BuyOK, BuyLandsOnce, BuyEntry
  <2>3. bought[m] = 0 \/ Bare
    BY <1>0, <2>1, <2>2 DEF BuyEnds
  <2> QED
    BY <1>4, <2>1, <2>3 DEF Stage, S!Next
<1>9. CASE BuyReads(m)
  <2> DEFINE e == pending[g]
             r == IF e = None THEN None ELSE e.qty
  <2>1. task[m].pc = "confirmed" /\ task[m].sig = g /\ Told(m)
    BY <1>0, <1>9 DEF BuyReads, BuyOK, BuyLandsOnce, Told
  <2>2. task'[m].pc \in {"telling", "starting"} /\ task'[m].qty = r
    BY <1>0, <1>9, <2>1 DEF BuyReads, Task
  <2>3. ~Locked(g)
    BY <1>9, <2>1 DEF BuyReads, Unlocked, Locked
  <2>4. r = bought[m] \/ (r = 0 /\ watcher.pc = "dead") \/ (r = None /\ Bare)
    BY <1>0, <2>1, <2>3 DEF BuyOK, BuyEntry
  <2> HIDE DEF r
  <2>5. Stages[m] = "pending" /\ Stages' = [Stages EXCEPT ![m] = "reported"]
    BY <1>1, <1>2, <2>1, <2>2 DEF Stage
  <2>6. Reports' = [Reports EXCEPT ![m] = r]
    BY <1>1, <2>2
  <2>7. S!Report(m, r)
    BY <1>0, <1>1, <2>4, <2>5, <2>6 DEF S!Report
  <2> QED
    BY <2>4, <2>7 DEF S!Next
<1>10. CASE BuyTells(m) \/ BuyEnsures(m)
  <2>1. /\ task[m].pc \in {"telling", "starting"} /\ task'[m].qty = task[m].qty
        /\ task'[m].pc \in {"starting", "done"}
    BY <1>0, <1>10 DEF BuyTells, BuyEnsures, Return, Task
  <2>2. Stage(task'[m].pc) = Stage(task[m].pc)
    BY <2>1 DEF Stage
  <2> QED
    BY <1>3, <2>1, <2>2
<1> QED
  BY <1>5, <1>6, <1>7, <1>8, <1>9, <1>10 DEF BuyStep

LEMMA SellMaps ==
  ASSUME Inv, NEW s \in Sells, SellStarts(s) \/ SellStep(s)
  PROVE  S!Next \/ UNCHANGED mapped
<1> DEFINE m == SoldMint[s]
<1>0. /\ task \in [Tasks -> Task] /\ s \in Tasks /\ SellOK(s) /\ m \in Mints
      /\ UNCHANGED <<watcher, tokens, bought>>
  BY TaskNames, SellView DEF Inv, TypeOK, Linked
<1>1. /\ Sales' = [Sales EXCEPT ![s] = SalePhase(task'[s].pc)]
      /\ UNCHANGED <<Stages, Reports>>
  BY SellView, SalesMove
<1>2. Sales[s] = SalePhase(task[s].pc)
  BY DEF Sales
<1>3. ASSUME SalePhase(task'[s].pc) = SalePhase(task[s].pc) PROVE UNCHANGED mapped
  <2>1. Sales' = Sales
    BY <1>1, <1>2, <1>3 DEF Sales
  <2> QED
    BY <1>0, <1>1, <2>1 DEF mapped
<1>4. ASSUME task[s].pc \in {"acquire", "build", "send", "wait", "unconfirmed"},
             task'[s].pc \in {"acquire", "build", "send", "wait", "unconfirmed"}
      PROVE  UNCHANGED mapped
  BY <1>3, <1>4 DEF SalePhase
<1>5. CASE SellStarts(s)
  <2>1. task[s].pc = "idle" /\ task'[s].pc = "acquire"
    BY <1>0, <1>5 DEF SellStarts, Task
  <2>2. Sales[s] = "none" /\ Sales' = [Sales EXCEPT ![s] = "selling"]
    BY <1>1, <1>2, <2>1 DEF SalePhase
  <2>3. Stages[m] = "reported" /\ Reports[m] \notin {None, 0}
    BY <1>0, <1>5 DEF SellStarts, Reported, InManager, Stages, Stage, Reports
  <2>4. S!Order(s)
    BY <1>0, <1>1, <2>2, <2>3 DEF S!Order
  <2> QED
    BY <2>4 DEF S!Next
<1>6. CASE SellHears(s)
  <2>1. CASE task[s].note = "Successed"
    <3>1. task[s].pc = "wait" /\ task'[s].pc = "confirmed" /\ tokens[m] = None
      BY <1>0, <1>6, <2>1 DEF SellHears, Task, SellOK
    <3>2. Sales[s] = "selling" /\ Sales' = [Sales EXCEPT ![s] = "sold"]
      BY <1>1, <1>2, <3>1 DEF SalePhase
    <3>3. S!Settle(s)
      BY <1>0, <1>1, <3>1, <3>2 DEF S!Settle
    <3> QED
      BY <3>3 DEF S!Next
  <2>2. CASE task[s].note # "Successed"
    <3>1. task[s].pc = "wait" /\ task'[s].pc = "unconfirmed"
      BY <1>0, <1>6, <2>2 DEF SellHears, Task
    <3> QED
      BY <1>4, <3>1
  <2> QED
    BY <2>1, <2>2
<1>7. CASE SellPanics(s)
  <2>1. task[s].pc = "build" /\ task'[s].pc = "panicked"
    BY <1>0, <1>7 DEF SellPanics, Return, Task
  <2>2. Sales[s] = "selling" /\ Sales' = [Sales EXCEPT ![s] = "failed"]
    BY <1>1, <1>2, <2>1 DEF SalePhase
  <2>3. S!Fail(s)
    BY <1>0, <1>1, <2>2 DEF S!Fail
  <2> QED
    BY <2>3 DEF S!Next
<1>8. CASE SellEnds(s)
  <2>1. task[s].pc = "confirmed" /\ task'[s].pc = "done"
    BY <1>0, <1>8 DEF SellEnds, Return, Task
  <2> QED
    BY <1>3, <2>1 DEF SalePhase
<1>9. CASE Acquire(s) \/ SellInserts(s) \/ SellBuildFails(s)
  <2>1. /\ task[s].pc \in {"acquire", "build"} /\ task'[s].pc \in {"build", "send"}
    BY <1>0, <1>9 DEF Acquire, SellInserts, InsertPending, SellBuildFails, Task
  <2> QED
    BY <1>4, <2>1
<1>10. CASE SellSends(s) \/ SellSendsInVain(s) \/ SellHangsUp(s) \/ SellTimesOut(s)
  <2>1. /\ task[s].pc \in {"send", "wait"} /\ task'[s].pc \in {"wait", "unconfirmed"}
    BY <1>0, <1>10 DEF SellSends, SellSendsInVain, SellHangsUp, SellTimesOut, Task
  <2> QED
    BY <1>4, <2>1
<1>11. CASE SellSendFails(s) \/ SellRemoves(s)
  <2>1. /\ task[s].pc \in {"send", "unconfirmed"} /\ task'[s].pc = "build"
    BY <1>0, <1>11 DEF SellSendFails, SellRemoves, Task
  <2> QED
    BY <1>4, <2>1
<1> QED
  BY <1>5, <1>6, <1>7, <1>8, <1>9, <1>10, <1>11 DEF SellStep

LEMMA WatchMaps ==
  ASSUME Inv, (\E u \in wire : Receive(u)) \/ WatchGoesOn
  PROVE  S!Next \/ UNCHANGED mapped
<1>1. UNCHANGED <<tokens, bought, Stages, Reports, Sales>>
  BY WatchView, TasksStay
<1>2. watcher.pc = "dead" => watcher'.pc = "dead"
  BY WatchView
<1>3. CASE watcher'.pc = "dead"
  <2>1. S!StopWatching
    BY <1>1, <1>3 DEF S!StopWatching
  <2> QED
    BY <2>1 DEF S!Next
<1>4. CASE watcher'.pc # "dead"
  BY <1>1, <1>2, <1>4 DEF mapped
<1> QED
  BY <1>3, <1>4

\* A buy is filled before its task has ended; a sell takes what was reported.
LEMMA ClusterMaps ==
  ASSUME Inv, Ended, Cluster
  PROVE  S!Next \/ UNCHANGED mapped
<1>0. UNCHANGED <<task, watcher>> /\ UNCHANGED <<Stages, Reports, Sales>>
  <2>1. UNCHANGED <<task, watcher>>
    BY DEF Cluster, LandBuy, LandSell, SellRejected, LoseUpdate, NewBlockhash, Runs,
       Executed
  <2> QED
    BY <2>1, TasksStay
<1>1. CASE UNCHANGED <<tokens, bought>>
  BY <1>0, <1>1 DEF mapped
<1>2. ASSUME NEW m \in Mints, LandBuy(m), ~UNCHANGED <<tokens, bought>>
      PROVE  S!Next
  <2>1. PICK q \in Qtys : Runs(BuySig(m), buy_transaction, q)
    BY <1>2 DEF LandBuy
  <2> DEFINE r == Outcome(buy_transaction, m, q)
  <2>2. q \in Nat
    BY ConfirmAssumption
  <2>3. r.status = "ok" => r.holds = q /\ tokens[m] = None
    BY <2>2, BuyOutcome DEF Inv
  <2>4. BuySig(m).mint = m /\ BuySig(m).kind = "buy" /\ BuySig(m) \in sent
    BY <2>1, SigKinds DEF Runs, Executed
  <2>5. /\ tokens' = IF r.status = "ok" THEN [tokens EXCEPT ![m] = r.holds] ELSE tokens
        /\ bought' = IF r.status = "ok" THEN [bought EXCEPT ![m] = q] ELSE bought
    BY <2>1, <2>4 DEF Runs
  <2> HIDE DEF r
  <2>6. /\ tokens[m] = None
        /\ tokens' = [tokens EXCEPT ![m] = q] /\ bought' = [bought EXCEPT ![m] = q]
    BY <1>2, <2>3, <2>5
  <2>7. bought[m] = 0
    BY <2>4 DEF Inv, Linked, BuyOK, BuyLandsOnce, Account
  <2>8. Stages[m] = "pending"
    BY <2>4 DEF Ended, BuyEnds, Stages, Stage
  <2>9. S!Fill(m, q)
    BY <1>0, <2>6, <2>7, <2>8 DEF S!Fill
  <2> QED
    BY <2>9 DEF S!Next
<1>3. ASSUME NEW g \in Sigs, LandSell(g), ~UNCHANGED <<tokens, bought>>
      PROVE  S!Next
  <2> DEFINE m == g.mint
             q == task[m].qty
             r == Outcome(sell_transaction, m, q)
  <2>1. g.kind = "sell" /\ g \in sent /\ m \in Mints
    BY <1>3, SigKinds DEF LandSell, Runs, Executed
  <2>2. Sold(m) /\ q \in Nat
    BY <2>1 DEF Inv, Linked, SentOK, Sold
  <2>3. r.status = "ok" => r.holds = None
    BY <2>1, <2>2, SellOutcome DEF Inv
  <2>4. /\ tokens' = IF r.status = "ok" THEN [tokens EXCEPT ![m] = r.holds] ELSE tokens
        /\ bought' = bought
    BY <1>3, <2>1 DEF LandSell, Runs, Offered
  <2> HIDE DEF r
  <2>5. tokens' = [tokens EXCEPT ![m] = None] /\ tokens' # tokens
    BY <1>3, <2>3, <2>4
  <2>6. tokens[m] # None
    BY <2>1, <2>5 DEF Inv, TypeOK
  <2>7. tokens[m] = Reports[m]
    <3>1. tokens[m] = bought[m] /\ BuyReport(m)
      BY <2>1, <2>6 DEF Inv, Linked, BuyOK, Account
    <3> QED
      BY <2>1, <2>2, <3>1 DEF BuyReport, Sold, Reported, InManager, Reports
  <2>8. \E s \in Sells : SoldMint[s] = m /\ Sales[s] # "none"
    <3>1. PICK s \in Sells : SoldMint[s] = m /\ task[s].pc # "idle"
      BY <2>1 DEF Ended, SellsOrdered
    <3>2. Sales[s] # "none"
      BY <3>1 DEF Sales, SalePhase
    <3> QED
      BY <3>1, <3>2
  <2>9. S!Empty(m)
    BY <1>0, <2>4, <2>5, <2>6, <2>7, <2>8 DEF S!Empty
  <2> HIDE DEF m
  <2> QED
    BY <2>1, <2>9 DEF S!Next
<1> QED
  BY <1>1, <1>2, <1>3 DEF Cluster, SellRejected, LoseUpdate, NewBlockhash

LEMMA StepMaps == Inv /\ Ended /\ [Next]_vars => [S!Next]_mapped
<1> SUFFICES ASSUME Inv, Ended, [Next]_vars PROVE S!Next \/ UNCHANGED mapped
  OBVIOUS
<1>1. CASE UNCHANGED vars
  BY <1>1 DEF vars, chain, mapped, Stages, Reports, Sales
<1> QED
  BY <1>1, BuyMaps, SellMaps, WatchMaps, ClusterMaps DEF Next

\* Behind the signatures, the pending map, the watcher and the retries there is one
\* purchase and one sale: what the manager is told is what happens on the chain,
\* and nothing happens there once the task that caused it has ended.
THEOREM Implementation == Spec => ImplementsSettlement
<1>1. Init => Inv /\ Ended
  BY InitHolds, InitEnded
<1>2. Spec => []Inv
  BY Inductive
<1>3. Inv /\ Ended /\ [Next]_vars => Ended'
  BY EndedStep
<1> QED
  BY <1>1, <1>2, <1>3, InitMaps, StepMaps, PTL
  DEF Spec, ImplementsSettlement, S!Spec, S!vars, mapped
=============================================================================
