------------------------------ MODULE BotProofs ------------------------------
(***************************************************************************)
(* The manager and the chain agree, for every number of mints, workers and *)
(* buys, all channel lengths, every sharding, with and without illegible   *)
(* answers.  Every step of Bot is one of TokenManager, so what has been    *)
(* proved of the manager holds; Agreed relates its state to the chain's.   *)
(***************************************************************************)
EXTENDS Bot, TokenManagerPositionProofs

Manager == Typed /\ OfferIsCurrent /\ HoldingInv /\ GivenOnce /\ WatchInv

(***************************************************************************)
(* The two states, compared.                                               *)
(***************************************************************************)
ChainTyped ==
  /\ account \in [Mints -> Nat \cup {None}]
  /\ bought \in [Mints -> Nat]
  /\ stage \in [Mints -> {"pending", "reported", "gone"}]
  /\ report \in [Mints -> Nat \cup {None}]
  /\ sale \in [Sells -> {"none", "selling", "sold", "failed"}]

\* b is the buy task of m.
BuyOf(b, m) == buyer[b].pc # "unborn" /\ buyer[b].mint = m

\* A mint has one buy task, which the main loop spawns after it has registered the
\* mint and while nobody sells it.
OneBuy ==
  /\ \A m \in Mints, b, c \in Buys : BuyOf(b, m) /\ BuyOf(c, m) => b = c
  /\ \A m \in Mints, b \in Buys : BuyOf(b, m) => seen[m] > 0
  /\ main.pc \in {"vet", "register", "spawn"} =>
       seen[main.mint] > 0 /\ \A b \in Buys : ~BuyOf(b, main.mint)
  /\ main.pc = "spawn" => metas[main.mint] # None

\* What the task has got to is what Settlement says of it.
BuyLinked(b, m) ==
  /\ buyer[b].pc = "wait" => stage[m] = "pending"
  /\ buyer[b].pc \in {"mark", "balance"} =>
       stage[m] = "reported" /\ report[m] = buyer[b].qty
  /\ buyer[b].pc \in {"ensure", "insert", "done"} =>
       /\ stage[m] = "reported"
       /\ report[m] # buyer[b].qty => report[m] = None /\ buyer[b].qty = 0
  /\ buyer[b].pc = "gone" => stage[m] = "gone" /\ buyer[b].qty = 0

BuysLinked == \A m \in Mints, b \in Buys : BuyOf(b, m) => BuyLinked(b, m)

\* The account holds what was bought, or nothing; a report is the truth or misleads.
AccountOK(m) ==
  /\ account[m] \in {None, bought[m]}
  /\ stage[m] = "reported" => report[m] = bought[m] \/ Misled(m)
  /\ stage[m] = "gone" => bought[m] = 0 \/ Bare
  /\ (\A b \in Buys : ~BuyOf(b, m)) => stage[m] = "pending" /\ account[m] = None

\* A sale has a sell task, and one that has been settled has left nothing behind.
Cleared(w) == seller[w].pc \in {"deduct", "forget", "drop", "purge", "done"}

Sold(m) == account[m] = None /\ stage[m] # "pending"

SalesOK ==
  /\ \A w \in Wids, m \in Mints :
       sale[<<w, m>>] # "none" => seller[w].pc # "none" /\ seller[w].mint = m
  /\ \A w \in Wids : Cleared(w) => Sold(seller[w].mint)

\* A mint without a meta has been sold, and a balance that was told is in its meta.
Recorded ==
  \A m \in Mints, b \in Buys : BuyOf(b, m) =>
    /\ metas[m] = None => Sold(m)
    /\ buyer[b].pc \in {"ensure", "insert", "done"} /\ buyer[b].qty # 0
         => metas[m] = buyer[b].qty \/ Sold(m)

Agreed ==
  /\ ChainTyped /\ OneBuy /\ BuysLinked
  /\ \A m \in Mints : AccountOK(m)
  /\ SalesOK /\ Recorded

(***************************************************************************)
(* The manager's steps, and what it has proved of them.                    *)
(***************************************************************************)
LEMMA StepsOfManager == BotNext => [Next]_vars
  BY DEF BotNext, BuyAnswered, BuyAnswer, OrderTaken, SellAnswered, ManagerStep, Next, MainStep,
     SellStep

LEMMA ManagerHolds == BotSpec => []Manager
<1>1. BotInit => Manager
  BY InitTyped, OfferInit, HoldingInit, GivenInit, WatchInit DEF BotInit, Manager
<1>2. Manager /\ [Next]_vars => Manager'
  BY StepTyped, OfferStep, HoldingStep, GivenStep, WatchStep DEF Manager
<1>3. [BotNext]_<<vars, chain>> => [Next]_vars
  BY StepsOfManager
<1> QED
  BY <1>1, <1>2, <1>3, PTL DEF BotSpec

LEMMA SaleNames ==
  ASSUME NEW w \in Wids, NEW m \in Mints
  PROVE  <<w, m>> \in Sells /\ SoldMint[<<w, m>>] = m
  BY DEF Sells, SoldMint

LEMMA InitAgreed == BotInit => Agreed
<1> SUFFICES ASSUME BotInit PROVE Agreed
  OBVIOUS
<1>1. \A b \in Buys, m \in Mints : ~BuyOf(b, m)
  BY DEF BotInit, Init, BuyOf
<1>2. ChainTyped
  BY DEF BotInit, C!Init, ChainTyped
<1>3. OneBuy /\ BuysLinked /\ Recorded
  BY <1>1 DEF OneBuy, BuysLinked, Recorded, BotInit, Init, Idle
<1>4. \A m \in Mints : AccountOK(m)
  BY <1>1 DEF AccountOK, BotInit, C!Init
<1>5. SalesOK
  BY SaleNames DEF SalesOK, Cleared, BotInit, Init, C!Init
<1> QED
  BY <1>2, <1>3, <1>4, <1>5 DEF Agreed

\* Whoever sells m has had a report of m.
LEMMA SellersBought ==
  ASSUME Manager, NEW w \in Wids, seller[w].pc # "none"
  PROVE  \E b \in Buys : BuyOf(b, seller[w].mint) /\ buyer[b].pc # "wait"
  BY DEF Manager, HoldingInv, SellersBacked, Backed, Bought, NothingReported, BuyOf

\* What is left alone by the steps that are of the manager alone.
LEMMA ChainFrame ==
  ASSUME Agreed, UNCHANGED chain
  PROVE  ChainTyped' /\ \A m \in Mints : Sold(m) <=> Sold(m)'
  BY DEF Agreed, chain, ChainTyped, Sold

\* A step that starts no buy and tells nothing.
LEMMA QuietStep ==
  ASSUME Agreed, UNCHANGED <<buyer, metas, seen, chain>>,
         main'.pc \in {"vet", "register", "spawn"} =>
           /\ main.pc \in {"vet", "register", "spawn"} /\ main'.mint = main.mint
           /\ main'.pc = "spawn" => main.pc = "spawn",
         \A w \in Wids : /\ seller'[w].mint = seller[w].mint
                         /\ seller[w].pc # "none" => seller'[w].pc # "none"
                         /\ Cleared(w)' => Cleared(w)
  PROVE  Agreed'
<1>1. UNCHANGED <<account, bought, stage, report, sale, watching>>
  BY DEF chain
<1>2. \A b, m : BuyOf(b, m)' <=> BuyOf(b, m)
  BY DEF BuyOf
<1>3. OneBuy'
  BY <1>2 DEF Agreed, OneBuy
<1>4. BuysLinked' /\ Recorded'
  BY <1>1, <1>2 DEF Agreed, BuysLinked, BuyLinked, Recorded, Sold
<1>5. \A m \in Mints : AccountOK(m)'
  BY <1>1, <1>2 DEF Agreed, AccountOK, Misled
<1>6. SalesOK'
  BY <1>1 DEF Agreed, SalesOK, Sold
<1> QED
  BY <1>3, <1>4, <1>5, <1>6, ChainFrame DEF Agreed

\* The loop begins to handle a Create: the only one of its mint.
LEMMA CreateStep ==
  ASSUME Manager, Agreed, NEW m \in Mints, TakeCreate(m), UNCHANGED chain
  PROVE  Agreed'
<1>1. UNCHANGED <<account, bought, stage, report, sale, watching, buyer, metas, seller>>
  BY DEF chain, TakeCreate
<1>2. /\ main'.pc = "vet" /\ main'.mint = m
      /\ seen[m] = 0 /\ seen' = [seen EXCEPT ![m] = 1] /\ seen \in [Mints -> Nat]
  <2>1. CreatesPerMint = 1 /\ seen \in [Mints -> Nat] /\ main \in MainTask
    BY BotAssumption DEF BotAssumption, Manager, Typed, MainOK, BoundsOK
  <2>2. seen[m] < 1 /\ seen' = [seen EXCEPT ![m] = seen[m] + 1]
    BY <2>1 DEF TakeCreate
  <2>3. main' = [main EXCEPT !.pc = "vet", !.mint = m]
    BY DEF TakeCreate
  <2>4. seen[m] = 0
    BY <2>1, <2>2
  <2> QED
    BY <2>1, <2>2, <2>3, <2>4 DEF MainTask
<1>3. \A b, n : BuyOf(b, n)' <=> BuyOf(b, n)
  BY <1>1 DEF BuyOf
<1>4. \A b \in Buys : ~BuyOf(b, m)
  BY <1>2 DEF Agreed, OneBuy
<1>5. OneBuy'
  BY <1>2, <1>3, <1>4 DEF Agreed, OneBuy
<1>6. BuysLinked' /\ Recorded'
  BY <1>1, <1>3 DEF Agreed, BuysLinked, BuyLinked, Recorded, Sold
<1>7. \A n \in Mints : AccountOK(n)'
  BY <1>1, <1>3 DEF Agreed, AccountOK, Misled
<1>8. SalesOK'
  BY <1>1 DEF Agreed, SalesOK, Cleared, Sold
<1> QED
  BY <1>5, <1>6, <1>7, <1>8, ChainFrame DEF Agreed

LEMMA RegisterStep ==
  ASSUME Manager, Agreed, RegisterMeta, UNCHANGED chain
  PROVE  Agreed'
<1> DEFINE m == main.mint
<1>1. UNCHANGED <<account, bought, stage, report, sale, watching, buyer, seen, seller>>
  BY DEF chain, RegisterMeta
<1>2. /\ main.pc = "register" /\ main'.pc = "spawn" /\ main'.mint = m /\ m \in Mints
      /\ metas' = [metas EXCEPT ![m] = 0] /\ metas \in [Mints -> Nat \cup {None}]
  BY DEF RegisterMeta, Manager, Typed, MainOK, MainTask, MapsOK
<1>3. \A b, n : BuyOf(b, n)' <=> BuyOf(b, n)
  BY <1>1 DEF BuyOf
<1>4. \A b \in Buys : ~BuyOf(b, m)
  BY <1>2 DEF Agreed, OneBuy
<1>5. OneBuy'
  <2>1. metas'[m] # None
    BY <1>2, ManagerAssumption DEF ManagerAssumption
  <2> QED
    BY <1>1, <1>2, <1>3, <1>4, <2>1 DEF Agreed, OneBuy
<1>6. Recorded'
  <2> SUFFICES ASSUME NEW n \in Mints, NEW b \in Buys, BuyOf(b, n)
               PROVE  /\ metas'[n] = None => Sold(n)
                      /\ buyer[b].pc \in {"ensure", "insert", "done"} /\ buyer[b].qty # 0
                           => metas'[n] = buyer[b].qty \/ Sold(n)
    BY <1>1, <1>3 DEF Recorded, Sold
  <2>1. n # m /\ metas'[n] = metas[n]
    BY <1>2, <1>4
  <2> QED
    BY <2>1 DEF Agreed, Recorded
<1>7. BuysLinked'
  BY <1>1, <1>3 DEF Agreed, BuysLinked, BuyLinked
<1>8. \A n \in Mints : AccountOK(n)'
  BY <1>1, <1>3 DEF Agreed, AccountOK, Misled
<1>9. SalesOK'
  BY <1>1 DEF Agreed, SalesOK, Cleared, Sold
<1> QED
  BY <1>5, <1>6, <1>7, <1>8, <1>9, ChainFrame DEF Agreed

LEMMA SpawnStep ==
  ASSUME Manager, Agreed, SpawnBuy, UNCHANGED chain
  PROVE  Agreed'
<1> DEFINE m == main.mint
<1>1. UNCHANGED <<account, bought, stage, report, sale, watching, metas, seen, seller>>
  BY DEF chain, SpawnBuy
<1>2. PICK b \in Buys : FreshBuy(b) /\ buyer' = [buyer EXCEPT ![b].pc = "wait", ![b].mint = m]
  BY DEF SpawnBuy
<1>3. /\ main.pc = "spawn" /\ main'.pc = "select" /\ m \in Mints
      /\ buyer[b].pc = "unborn"
      /\ buyer'[b].pc = "wait" /\ buyer'[b].mint = m
      /\ \A c \in Buys : c # b => buyer'[c] = buyer[c]
  BY <1>2 DEF SpawnBuy, FreshBuy, Idle, Manager, Typed, MainOK, BuyersOK, BuyerTask
<1>4. \A c \in Buys, n \in Mints : BuyOf(c, n)' <=> BuyOf(c, n) \/ (c = b /\ n = m)
  BY <1>3 DEF BuyOf
<1>5. (\A c \in Buys : ~BuyOf(c, m)) /\ seen[m] > 0 /\ metas[m] # None
  BY <1>3 DEF Agreed, OneBuy
<1>6. OneBuy'
  BY <1>1, <1>3, <1>4, <1>5 DEF Agreed, OneBuy
<1>7. BuysLinked'
  <2> SUFFICES ASSUME NEW n \in Mints, NEW c \in Buys, BuyOf(c, n)'
               PROVE  BuyLinked(c, n)'
    BY DEF BuysLinked
  <2>1. CASE c = b /\ n = m
    BY <1>1, <1>3, <1>5, <2>1 DEF Agreed, AccountOK, BuyLinked
  <2>2. CASE c # b
    BY <1>1, <1>3, <1>4, <2>2 DEF Agreed, BuysLinked, BuyLinked
  <2> QED
    BY <1>3, <2>1, <2>2 DEF BuyOf
<1>8. Recorded'
  <2> SUFFICES ASSUME NEW n \in Mints, NEW c \in Buys, BuyOf(c, n)'
               PROVE  /\ metas[n] = None => Sold(n)
                      /\ buyer'[c].pc \in {"ensure", "insert", "done"} /\ buyer'[c].qty # 0
                           => metas[n] = buyer'[c].qty \/ Sold(n)
    BY <1>1 DEF Recorded, Sold
  <2>1. CASE c = b
    BY <1>3, <1>5, <2>1 DEF BuyOf
  <2>2. CASE c # b
    BY <1>3, <1>4, <2>2 DEF Agreed, Recorded
  <2> QED
    BY <2>1, <2>2
<1>9. \A n \in Mints : AccountOK(n)'
  BY <1>1, <1>4 DEF Agreed, AccountOK, Misled
<1>10. SalesOK'
  BY <1>1 DEF Agreed, SalesOK, Cleared, Sold
<1> QED
  BY <1>6, <1>7, <1>8, <1>9, <1>10, ChainFrame DEF Agreed

\* The buy task goes on, after its answer.
LEMMA TailStep ==
  ASSUME Manager, Agreed, NEW b \in Buys, BuyTail(b), UNCHANGED chain
  PROVE  Agreed'
<1> DEFINE m == buyer[b].mint
           told == {"ensure", "insert", "done"}
<1>1. UNCHANGED <<account, bought, stage, report, sale, watching, main, seen, seller>>
  BY DEF chain, BuyTail, BuyMark, UpdateBalance, BuyEnsure, BuyInsert
<1>2. /\ buyer[b].pc \in {"mark", "balance", "ensure", "insert"}
      /\ buyer'[b].pc \in {"balance", "ensure", "insert", "done"}
      /\ buyer[b].pc = "mark" => buyer'[b].pc = "balance"
      /\ buyer[b].pc \in {"ensure", "insert"} => buyer'[b].pc \in told
      /\ buyer[b].pc = "balance" => UpdateBalance(b)
      /\ buyer'[b].mint = m /\ buyer'[b].qty = buyer[b].qty /\ m \in Mints
      /\ \A c \in Buys : c # b => buyer'[c] = buyer[c]
  BY DEF BuyTail, BuyMark, UpdateBalance, BuyEnsure, BuyInsert, Manager, Typed, BuyersOK,
     BuyerTask
<1>3. BuyOf(b, m) /\ \A c \in Buys : \A n : BuyOf(c, n)' <=> BuyOf(c, n)
  BY <1>2 DEF BuyOf
<1>4. BuyLinked(b, m) /\ (metas[m] = None => Sold(m))
  BY <1>2, <1>3 DEF Agreed, BuysLinked, Recorded
<1>5. /\ \A n \in Mints : n # m => metas'[n] = metas[n]
      /\ metas[m] = None => metas'[m] = None
      /\ buyer[b].pc # "balance" => metas' = metas
      /\ buyer[b].pc = "balance" /\ metas[m] # None => metas'[m] = buyer[b].qty
      /\ metas'[m] = None => metas[m] = None
  <2>1. metas \in [Mints -> Nat \cup {None}] /\ buyer[b].qty \in Nat
    BY DEF Manager, Typed, MapsOK, BuyersOK, BuyerTask
  <2>2. CASE UpdateBalance(b)
    <3>1. /\ buyer[b].pc = "balance"
          /\ metas' = [metas EXCEPT ![m] = IF metas[m] = None THEN metas[m] ELSE buyer[b].qty]
      BY <2>2 DEF UpdateBalance
    <3>2. metas'[m] = IF metas[m] = None THEN metas[m] ELSE buyer[b].qty
      BY <1>2, <2>1, <3>1
    <3>3. buyer[b].qty # None
      BY <2>1, ManagerAssumption DEF ManagerAssumption
    <3> QED
      BY <1>2, <2>1, <3>1, <3>2, <3>3
  <2>3. CASE ~UpdateBalance(b)
    <3>1. metas' = metas
      BY <2>3 DEF BuyTail, BuyMark, BuyEnsure, BuyInsert
    <3> QED
      BY <1>2, <2>3, <3>1
  <2> QED
    BY <2>2, <2>3
<1>6. OneBuy'
  <2>1. main.pc = "spawn" => main.mint \in Mints /\ main.mint # m
    BY <1>3 DEF Agreed, OneBuy, Manager, Typed, MainOK
  <2> QED
    BY <1>1, <1>3, <1>5, <2>1 DEF Agreed, OneBuy
<1>7. BuysLinked'
  <2> SUFFICES ASSUME NEW n \in Mints, NEW c \in Buys, BuyOf(c, n)
               PROVE  BuyLinked(c, n)'
    BY <1>3 DEF BuysLinked
  <2>1. CASE c = b
    <3>1. n = m /\ buyer[c].pc \in {"mark", "balance", "ensure", "insert"}
      BY <1>2, <2>1 DEF BuyOf
    <3> QED
      BY <1>1, <1>2, <1>4, <2>1, <3>1 DEF BuyLinked
  <2>2. CASE c # b
    BY <1>1, <1>2, <2>2 DEF Agreed, BuysLinked, BuyLinked
  <2> QED
    BY <2>1, <2>2
<1>8. Recorded'
  <2> SUFFICES ASSUME NEW n \in Mints, NEW c \in Buys, BuyOf(c, n)
               PROVE  /\ metas'[n] = None => Sold(n)
                      /\ buyer'[c].pc \in told /\ buyer'[c].qty # 0
                           => metas'[n] = buyer'[c].qty \/ Sold(n)
    BY <1>1, <1>3 DEF Recorded, Sold
  <2>1. CASE c = b
    <3>1. n = m
      BY <2>1 DEF BuyOf
    <3>2. CASE buyer[b].pc = "balance"
      BY <1>2, <1>4, <1>5, <2>1, <3>1, <3>2
    <3>3. CASE buyer[b].pc # "balance"
      BY <1>2, <1>3, <1>4, <1>5, <2>1, <3>1, <3>3 DEF Agreed, Recorded
    <3> QED
      BY <3>2, <3>3
  <2>2. CASE c # b
    <3>1. n # m
      BY <1>2, <1>3, <2>2 DEF Agreed, OneBuy
    <3> QED
      BY <1>2, <1>5, <2>2, <3>1 DEF Agreed, Recorded
  <2> QED
    BY <2>1, <2>2
<1>9. \A n \in Mints : AccountOK(n)'
  BY <1>1, <1>3 DEF Agreed, AccountOK, Misled
<1>10. SalesOK'
  BY <1>1 DEF Agreed, SalesOK, Cleared, Sold
<1> QED
  BY <1>6, <1>7, <1>8, <1>9, <1>10, ChainFrame DEF Agreed

\* A sell task clears the maps: its mint has been sold, and has a buy task.
LEMMA ClearStep ==
  ASSUME Manager, Agreed, NEW w \in Wids, DeductBalance(w) \/ DropMeta(w), UNCHANGED chain
  PROVE  Agreed'
<1> DEFINE m == seller[w].mint
<1>1. UNCHANGED <<account, bought, stage, report, sale, watching, main, seen, buyer>>
  BY DEF chain, DeductBalance, DropMeta
<1>2. /\ Cleared(w) /\ Cleared(w)' /\ seller'[w].mint = m /\ seller'[w].pc # "none"
      /\ seller[w].pc # "none" /\ m \in Mints
      /\ \A v \in Wids : v # w => seller'[v] = seller[v]
  BY DEF DeductBalance, DropMeta, Manager, Typed, SellersOK, SellerTask, Cleared
<1>3. \A n \in Mints : n # m => metas'[n] = metas[n]
  BY DEF DeductBalance, DropMeta, Manager, Typed, MapsOK
<1>4. Sold(m) /\ \E b \in Buys : BuyOf(b, m)
  BY <1>2, SellersBought DEF Agreed, SalesOK
<1>5. \A b, n : BuyOf(b, n)' <=> BuyOf(b, n)
  BY <1>1 DEF BuyOf
<1>6. OneBuy'
  <2>1. main.pc = "spawn" => main.mint \in Mints /\ main.mint # m
    BY <1>4 DEF Agreed, OneBuy, Manager, Typed, MainOK
  <2> QED
    BY <1>1, <1>3, <1>5, <2>1 DEF Agreed, OneBuy
<1>7. BuysLinked'
  BY <1>1, <1>5 DEF Agreed, BuysLinked, BuyLinked
<1>8. Recorded'
  BY <1>1, <1>3, <1>4, <1>5 DEF Agreed, Recorded, Sold
<1>9. \A n \in Mints : AccountOK(n)'
  BY <1>1, <1>5 DEF Agreed, AccountOK, Misled
<1>10. SalesOK'
  BY <1>1, <1>2 DEF Agreed, SalesOK, Cleared, Sold
<1> QED
  BY <1>6, <1>7, <1>8, <1>9, <1>10, ChainFrame DEF Agreed

\* The buy task gets its answer, which is the outcome of its buy.
LEMMA AnswerStep ==
  ASSUME Manager, Agreed, NEW b \in Buys, BuyAnswered(b), NEW m \in Mints, buyer[b].mint = m
  PROVE  Agreed'
<1>1. /\ UNCHANGED <<account, bought, sale, watching, main, seen, seller, metas>>
      /\ buyer[b].pc = "wait" /\ m \in Mints /\ BuyOf(b, m)
      /\ buyer'[b].mint = m /\ buyer[b].qty = 0
      /\ \A c \in Buys : c # b => buyer'[c] = buyer[c]
      /\ \A n \in Mints : n # m => stage'[n] = stage[n] /\ report'[n] = report[n]
  <2>1. buyer[b].pc = "wait" /\ m \in Mints /\ BuyOf(b, m) /\ buyer[b].qty = 0
    BY DEF BuyAnswered, BuyConfirmed, BuyConfirmedBlind, BuyAbandoned, BuyOf,
       Manager, Typed, BuyersOK, HoldingInv, NothingReported
  <2>2. /\ UNCHANGED <<account, bought, sale, watching, main, seen, seller, metas>>
        /\ \A n \in Mints : n # m => stage'[n] = stage[n] /\ report'[n] = report[n]
    BY <2>1 DEF BuyAnswered, BuyConfirmed, BuyConfirmedBlind, BuyAbandoned, C!Report,
       C!GiveUp, Agreed, ChainTyped
  <2>3. buyer'[b].mint = m /\ \A c \in Buys : c # b => buyer'[c] = buyer[c]
    BY DEF BuyAnswered, BuyConfirmed, BuyConfirmedBlind, BuyAbandoned,
       Manager, Typed, BuyersOK, BuyerTask
  <2> QED
    BY <2>1, <2>2, <2>3
<1>2. buyer'[b].pc # "unborn" /\ stage[m] = "pending" /\ stage'[m] # "pending"
      /\ BuyLinked(b, m)' /\ AccountOK(m)' /\ ChainTyped'
      /\ (buyer'[b].pc \in {"ensure", "insert", "done"} => buyer'[b].qty = 0)
  <2>0. /\ ChainTyped /\ AccountOK(m) /\ buyer \in [Buys -> BuyerTask]
        /\ BuyOf(b, m)
    BY <1>1 DEF Agreed, Manager, Typed, BuyersOK
  <2>1. ASSUME NEW q \in Qtys, BuyConfirmed(b, q), C!Report(m, q)
        PROVE  <1>2
    <3>1. /\ buyer'[b].pc = "mark" /\ buyer'[b].qty = q /\ q \in Nat /\ q # None
          /\ buyer'[b].mint = m
      BY <1>1, <2>0, <2>1, ManagerAssumption DEF BuyConfirmed, BuyerTask, ManagerAssumption
    <3>2. /\ stage[m] = "pending" /\ stage'[m] = "reported" /\ report'[m] = q
          /\ q = bought[m] \/ (q = 0 /\ ~watching)
      BY <1>1, <2>0, <2>1, <3>1 DEF C!Report, ChainTyped
    <3>3. ChainTyped'
      BY <1>1, <2>0, <2>1, <3>1 DEF C!Report, ChainTyped
    <3>4. AccountOK(m)'
      BY <1>1, <2>0, <3>1, <3>2 DEF AccountOK, Misled, BuyOf
    <3> QED
      BY <3>1, <3>2, <3>3, <3>4 DEF BuyLinked
  <2>2. ASSUME BuyConfirmedBlind(b), C!Report(m, None)
        PROVE  <1>2
    <3>1. buyer'[b].pc = "ensure" /\ buyer'[b].qty = 0 /\ buyer'[b].mint = m
      BY <1>1, <2>0, <2>2 DEF BuyConfirmedBlind, BuyerTask
    <3>2. bought[m] # None /\ None # 0
      BY <1>1, <2>0, ManagerAssumption DEF ChainTyped, ManagerAssumption
    <3>3. stage[m] = "pending" /\ stage'[m] = "reported" /\ report'[m] = None /\ Bare
      BY <1>1, <2>0, <2>2, <3>2 DEF C!Report, ChainTyped
    <3>4. ChainTyped'
      BY <1>1, <2>0, <2>2 DEF C!Report, ChainTyped
    <3>5. AccountOK(m)'
      BY <1>1, <2>0, <3>1, <3>3 DEF AccountOK, Misled, BuyOf
    <3> QED
      BY <3>1, <3>3, <3>4, <3>5 DEF BuyLinked
  <2>3. ASSUME BuyAbandoned(b), C!GiveUp(m)
        PROVE  <1>2
    <3>1. buyer'[b].pc = "gone" /\ buyer'[b].qty = 0 /\ buyer'[b].mint = m
      BY <1>1, <2>0, <2>3 DEF BuyAbandoned, BuyerTask
    <3>2. /\ stage[m] = "pending" /\ stage'[m] = "gone" /\ report' = report
          /\ bought[m] = 0 \/ Bare
      BY <1>1, <2>0, <2>3 DEF C!GiveUp, ChainTyped
    <3>3. ChainTyped'
      BY <1>1, <2>0, <2>3 DEF C!GiveUp, ChainTyped
    <3>4. AccountOK(m)'
      BY <1>1, <2>0, <3>1, <3>2 DEF AccountOK, Misled, BuyOf
    <3> QED
      BY <3>1, <3>2, <3>3, <3>4 DEF BuyLinked
  <2> QED
    BY <2>1, <2>2, <2>3 DEF BuyAnswered
<1>3. \A c \in Buys, n \in Mints : BuyOf(c, n)' <=> BuyOf(c, n)
  BY <1>1, <1>2 DEF BuyOf
<1>4. \A c \in Buys, n \in Mints : c # b /\ BuyOf(c, n) => n # m
  BY <1>1 DEF Agreed, OneBuy
<1>5. OneBuy'
  <2>1. main.pc \in {"vet", "register", "spawn"} => main.mint \in Mints
    BY DEF Manager, Typed, MainOK
  <2> QED
    BY <1>1, <1>3, <2>1 DEF Agreed, OneBuy
<1>6. BuysLinked'
  <2> SUFFICES ASSUME NEW n \in Mints, NEW c \in Buys, BuyOf(c, n)
               PROVE  BuyLinked(c, n)'
    BY <1>3 DEF BuysLinked
  <2>1. CASE c = b
    BY <1>1, <1>2, <2>1 DEF BuyOf
  <2>2. CASE c # b
    <3>1. n # m /\ BuyLinked(c, n)
      BY <1>4, <2>2 DEF Agreed, BuysLinked
    <3> QED
      BY <1>1, <2>2, <3>1 DEF BuyLinked
  <2> QED
    BY <2>1, <2>2
<1>7. \A n \in Mints : Sold(n) => Sold(n)'
  BY <1>1, <1>2 DEF Sold
<1>8. Recorded'
  <2> SUFFICES ASSUME NEW n \in Mints, NEW c \in Buys, BuyOf(c, n)
               PROVE  /\ metas[n] = None => Sold(n)
                      /\ buyer'[c].pc \in {"ensure", "insert", "done"} /\ buyer'[c].qty # 0
                           => metas[n] = buyer'[c].qty \/ Sold(n)
    BY <1>1, <1>3, <1>7 DEF Recorded
  <2>1. CASE c = b
    BY <1>2, <2>1 DEF Agreed, Recorded
  <2>2. CASE c # b
    BY <1>1, <2>2 DEF Agreed, Recorded
  <2> QED
    BY <2>1, <2>2
<1>9. \A n \in Mints : AccountOK(n)'
  <2> SUFFICES ASSUME NEW n \in Mints, n # m PROVE AccountOK(n)'
    BY <1>2
  <2>1. AccountOK(n)
    BY DEF Agreed
  <2> QED
    BY <1>1, <1>3, <2>1 DEF AccountOK, Misled
<1>10. SalesOK'
  BY <1>1, <1>7 DEF Agreed, SalesOK, Cleared, Manager, Typed, SellersOK
<1> QED
  BY <1>2, <1>5, <1>6, <1>8, <1>9, <1>10 DEF Agreed

\* A sell task starts, under a name that nobody has used.
LEMMA TakenStep ==
  ASSUME Manager, Agreed, OrderTaken
  PROVE  Agreed'
<1> DEFINE o == Head(sellQ)
           w == o.from
           m == o.mint
<1>1. /\ UNCHANGED <<account, bought, stage, report, watching, main, seen, buyer, metas>>
      /\ sellQ # <<>>
  BY DEF OrderTaken, TakeOrder, C!Order
<1>2. w \in Wids /\ m \in Mints /\ seller[w].pc = "none"
  <2>1. o = sellQ[1] /\ 1 \in 1..Len(sellQ) /\ sellQ \in Seq(Order)
    BY <1>1 DEF Manager, Typed, QueueOK
  <2>2. o \in Order
    BY <2>1
  <2> QED
    BY <2>1, <2>2 DEF Order, Manager, GivenOnce, QueuedHaveSold
<1>3. /\ seller'[w].pc = "trying" /\ seller'[w].mint = m
      /\ \A v \in Wids : v # w => seller'[v] = seller[v]
  BY <1>2 DEF OrderTaken, TakeOrder, Manager, Typed, SellersOK
<1>4. /\ sale' = [sale EXCEPT ![<<w, m>>] = "selling"]
      /\ <<w, m>> \in Sells
  BY <1>2, SaleNames DEF OrderTaken, C!Order
<1>5. ChainTyped'
  BY <1>1, <1>4 DEF Agreed, ChainTyped
<1>6. SalesOK'
  <2>1. ASSUME NEW v \in Wids, NEW n \in Mints, sale'[<<v, n>>] # "none"
        PROVE  seller'[v].pc # "none" /\ seller'[v].mint = n
    <3>1. CASE v = w /\ n = m
      BY <1>3, <3>1
    <3>2. CASE ~(v = w /\ n = m)
      <4>1. sale'[<<v, n>>] = sale[<<v, n>>]
        BY <1>4, <2>1, <3>2, SaleNames DEF Agreed, ChainTyped
      <4>2. seller[v].pc # "none" /\ seller[v].mint = n
        BY <2>1, <4>1 DEF Agreed, SalesOK
      <4> QED
        BY <1>2, <1>3, <4>2
    <3> QED
      BY <3>1, <3>2
  <2>2. ASSUME NEW v \in Wids, Cleared(v)' PROVE Sold(seller[v].mint)'
    <3>1. v # w /\ seller'[v] = seller[v]
      BY <1>3, <2>2 DEF Cleared
    <3> QED
      BY <1>1, <2>2, <3>1 DEF Agreed, SalesOK, Cleared, Sold
  <2> QED
    BY <2>1, <2>2 DEF SalesOK
<1>7. \A b, n : BuyOf(b, n)' <=> BuyOf(b, n)
  BY <1>1 DEF BuyOf
<1>8. OneBuy' /\ BuysLinked' /\ Recorded'
  BY <1>1, <1>7 DEF Agreed, OneBuy, BuysLinked, BuyLinked, Recorded, Sold
<1>9. \A n \in Mints : AccountOK(n)'
  BY <1>1, <1>7 DEF Agreed, AccountOK, Misled
<1> QED
  BY <1>5, <1>6, <1>8, <1>9 DEF Agreed

\* A sell task hears of a success: its account is gone for good.
LEMMA SettledStep ==
  ASSUME Manager, Agreed, NEW w \in Wids, SellAnswered(w)
  PROVE  Agreed'
<1> DEFINE m == seller[w].mint
<1>1. UNCHANGED <<account, bought, stage, report, watching, main, seen, buyer, metas>>
  BY DEF SellAnswered, SellConfirmed, C!Settle
<1>2. /\ seller[w].pc = "trying" /\ m \in Mints
      /\ seller'[w].mint = m /\ seller'[w].pc = "deduct"
      /\ \A v \in Wids : v # w => seller'[v] = seller[v]
  BY DEF SellAnswered, SellConfirmed, Manager, Typed, SellersOK, SellerTask
<1>3. /\ sale' = [sale EXCEPT ![<<w, m>>] = "sold"]
      /\ <<w, m>> \in Sells /\ sale[<<w, m>>] = "selling"
      /\ account[m] = None
  BY <1>2, SaleNames DEF SellAnswered, SaleOf, C!Settle
<1>4. Sold(m)
  <2>1. PICK b \in Buys : BuyOf(b, m) /\ buyer[b].pc # "wait"
    BY <1>2, SellersBought
  <2>2. BuyLinked(b, m) /\ buyer[b].pc \in BuyerPc
    BY <1>2, <2>1 DEF Agreed, BuysLinked, Manager, Typed, BuyersOK, BuyerTask
  <2> QED
    BY <1>3, <2>1, <2>2 DEF BuyLinked, BuyOf, BuyerPc, Sold
<1>5. ChainTyped'
  BY <1>1, <1>3 DEF Agreed, ChainTyped
<1>6. SalesOK'
  <2>1. ASSUME NEW v \in Wids, NEW n \in Mints, sale'[<<v, n>>] # "none"
        PROVE  seller'[v].pc # "none" /\ seller'[v].mint = n
    <3>1. sale[<<v, n>>] # "none"
      BY <1>3, <2>1, SaleNames DEF Agreed, ChainTyped
    <3> QED
      BY <1>2, <3>1 DEF Agreed, SalesOK
  <2>2. ASSUME NEW v \in Wids, Cleared(v)' PROVE Sold(seller[v].mint)'
    BY <1>1, <1>2, <1>4, <2>2 DEF Agreed, SalesOK, Cleared, Sold
  <2> QED
    BY <2>1, <2>2 DEF SalesOK
<1>7. \A b, n : BuyOf(b, n)' <=> BuyOf(b, n)
  BY <1>1 DEF BuyOf
<1>8. OneBuy' /\ BuysLinked' /\ Recorded'
  BY <1>1, <1>7 DEF Agreed, OneBuy, BuysLinked, BuyLinked, Recorded, Sold
<1>9. \A n \in Mints : AccountOK(n)'
  BY <1>1, <1>7 DEF Agreed, AccountOK, Misled
<1> QED
  BY <1>5, <1>6, <1>8, <1>9 DEF Agreed

\* The chain moves: what is sold stays sold.
LEMMA ChainMoves ==
  ASSUME Manager, Agreed, ChainStep, UNCHANGED vars
  PROVE  Agreed'
<1>1. UNCHANGED <<main, seen, buyer, seller, metas>>
  BY DEF vars
<1>2. /\ UNCHANGED <<stage, report>>
      /\ watching' => watching
  BY DEF ChainStep, C!Fill, C!Empty, C!Fail, C!StopWatching
<1>3. ChainTyped' /\ \A m \in Mints : Sold(m) => Sold(m)'
  <2>0. ChainTyped
    BY DEF Agreed
  <2>1. ASSUME NEW b \in Buys, NEW q \in Qtys, buyer[b].pc = "wait", C!Fill(buyer[b].mint, q)
        PROVE  ChainTyped' /\ \A m \in Mints : Sold(m) => Sold(m)'
    <3>1. q \in Nat
      BY ManagerAssumption DEF ManagerAssumption
    <3> QED
      BY <2>0, <2>1, <3>1 DEF C!Fill, ChainTyped, Sold
  <2>2. ASSUME NEW n \in Mints, C!Empty(n)
        PROVE  ChainTyped' /\ \A m \in Mints : Sold(m) => Sold(m)'
    BY <2>0, <2>2 DEF C!Empty, ChainTyped, Sold
  <2>3. ASSUME (\E s \in Sells : C!Fail(s)) \/ C!StopWatching
        PROVE  ChainTyped' /\ \A m \in Mints : Sold(m) => Sold(m)'
    BY <2>0, <2>3 DEF C!Fail, C!StopWatching, ChainTyped, Sold
  <2> QED
    BY <2>1, <2>2, <2>3 DEF ChainStep
<1>4. \A b, n : BuyOf(b, n)' <=> BuyOf(b, n)
  BY <1>1 DEF BuyOf
<1>5. OneBuy' /\ BuysLinked'
  BY <1>1, <1>2, <1>4 DEF Agreed, OneBuy, BuysLinked, BuyLinked
<1>6. Recorded'
  BY <1>1, <1>3, <1>4 DEF Agreed, Recorded
<1>7. SalesOK'
  <2>1. \A s \in Sells : sale'[s] # "none" => sale[s] # "none"
    BY DEF ChainStep, C!Fill, C!Empty, C!Fail, C!StopWatching, Agreed, ChainTyped
  <2>2. \A w \in Wids, m \in Mints : sale'[<<w, m>>] # "none" => sale[<<w, m>>] # "none"
    BY <2>1, SaleNames
  <2>3. \A w \in Wids : Cleared(w) => seller[w].mint \in Mints
    BY DEF Cleared, Manager, Typed, SellersOK
  <2> QED
    BY <1>1, <1>3, <2>2, <2>3 DEF Agreed, SalesOK, Cleared
<1>8. ASSUME NEW m \in Mints PROVE AccountOK(m)'
  <2>0. AccountOK(m) /\ ChainTyped
    BY DEF Agreed
  <2>1. CASE UNCHANGED <<account, bought>>
    BY <1>2, <1>4, <2>0, <2>1 DEF AccountOK, Misled
  <2>2. ASSUME NEW b \in Buys, NEW q \in Qtys, buyer[b].pc = "wait", C!Fill(buyer[b].mint, q)
        PROVE  AccountOK(m)'
    <3>1. CASE m = buyer[b].mint
      <4>1. BuyOf(b, m) /\ stage[m] = "pending"
        BY <2>2, <3>1 DEF BuyOf, C!Fill
      <4>2. account'[m] = q /\ bought'[m] = q
        BY <2>0, <2>2, <3>1 DEF C!Fill, ChainTyped
      <4> QED
        BY <1>2, <1>4, <4>1, <4>2 DEF AccountOK
    <3>2. CASE m # buyer[b].mint
      <4>1. account'[m] = account[m] /\ bought'[m] = bought[m]
        BY <2>0, <2>2, <3>2 DEF C!Fill, ChainTyped
      <4> QED
        BY <1>2, <1>4, <2>0, <4>1 DEF AccountOK, Misled
    <3> QED
      BY <3>1, <3>2
  <2>3. ASSUME NEW n \in Mints, C!Empty(n) PROVE AccountOK(m)'
    <3>1. bought' = bought /\ account'[m] \in {None, account[m]}
      BY <2>0, <2>3 DEF C!Empty, ChainTyped
    <3> QED
      BY <1>2, <1>4, <2>0, <3>1 DEF AccountOK, Misled
  <2> QED
    BY <2>1, <2>2, <2>3 DEF ChainStep, C!Fail, C!StopWatching
<1> QED
  BY <1>3, <1>5, <1>6, <1>7, <1>8 DEF Agreed

LEMMA AloneStep ==
  ASSUME Manager, Agreed, ManagerStep, UNCHANGED chain
  PROVE  Agreed'
<1>1. ASSUME VetCreate PROVE Agreed'
  <2>1. UNCHANGED <<buyer, metas, seen, seller>>
    BY <1>1 DEF VetCreate
  <2>2. main.pc = "vet" /\ (main' = Idle \/ (main'.pc = "register" /\ main'.mint = main.mint))
    BY <1>1 DEF VetCreate, Manager, Typed, MainOK, MainTask
  <2> QED
    BY <2>1, <2>2, QuietStep DEF Idle, Cleared
<1>2. ASSUME NEW m \in Mints, NEW cap \in Caps, TakeTrade(m, cap) PROVE Agreed'
  <2>1. UNCHANGED <<buyer, metas, seen, seller>> /\ main'.pc \in {"send", "insert"}
    BY <1>2 DEF TakeTrade
  <2> QED
    BY <2>1, QuietStep DEF Cleared
<1>3. ASSUME RouteInsert \/ RouteSend \/ RouteSendError \/ RouteEvict PROVE Agreed'
  <2>1. UNCHANGED <<buyer, metas, seen, seller>>
    BY <1>3 DEF RouteInsert, RouteSend, RouteSendError, RouteEvict
  <2>2. main'.pc \in {"send", "evict", "select"}
    <3>0. main \in MainTask
      BY DEF Manager, Typed, MainOK
    <3>1. RouteInsert => main'.pc = "send"
      BY <3>0 DEF RouteInsert, MainTask
    <3>2. RouteSendError => main'.pc = "evict"
      BY <3>0 DEF RouteSendError, MainTask
    <3>3. RouteSend \/ RouteEvict => main'.pc = "select"
      BY DEF RouteSend, RouteEvict, Idle
    <3> QED
      BY <1>3, <3>1, <3>2, <3>3
  <2> QED
    BY <2>1, <2>2, QuietStep DEF Cleared
<1>4. ASSUME NEW w \in Wids, WorkerStep(w) PROVE Agreed'
  <2>1. UNCHANGED <<buyer, metas, seen, seller, main>>
    BY <1>4 DEF WorkerStep, WorkerTrade, WorkerInactive, WorkerClosed, WorkerOffer
  <2> QED
    BY <2>1, QuietStep DEF Cleared
<1>5. ASSUME NEW w \in Wids, ForgetWorker(w) \/ PurgeCreated(w) PROVE Agreed'
  <2>1. UNCHANGED <<buyer, metas, seen, main>>
    BY <1>5 DEF ForgetWorker, PurgeCreated
  <2>2. \A v \in Wids : /\ seller'[v].mint = seller[v].mint
                        /\ seller[v].pc # "none" => seller'[v].pc # "none"
                        /\ Cleared(v)' => Cleared(v)
    BY <1>5 DEF ForgetWorker, PurgeCreated, Manager, Typed, SellersOK, SellerTask, Cleared
  <2> QED
    BY <2>1, <2>2, QuietStep
<1> QED
  BY <1>1, <1>2, <1>3, <1>4, <1>5, CreateStep, RegisterStep, SpawnStep, TailStep, ClearStep
  DEF ManagerStep, SellTail

LEMMA AgreedStep == Manager /\ Agreed /\ [BotNext]_<<vars, chain>> => Agreed'
<1> SUFFICES ASSUME Manager, Agreed, [BotNext]_<<vars, chain>> PROVE Agreed'
  OBVIOUS
<1>1. CASE UNCHANGED <<vars, chain>>
  BY <1>1, QuietStep DEF vars, Cleared
<1>2. ASSUME NEW b \in Buys, BuyAnswered(b) PROVE Agreed'
  <2>1. buyer[b].mint \in Mints
    BY <1>2 DEF BuyAnswered, BuyConfirmed, BuyConfirmedBlind, BuyAbandoned, Manager, Typed,
       BuyersOK
  <2> QED
    BY <1>2, <2>1, AnswerStep
<1> QED
  BY <1>1, <1>2, TakenStep, SettledStep, AloneStep, ChainMoves DEF BotNext

LEMMA AgreedHolds == BotSpec => [](Manager /\ Agreed)
<1>1. BotInit => Agreed
  BY InitAgreed
<1>2. Manager /\ Agreed /\ [BotNext]_<<vars, chain>> => Agreed'
  BY AgreedStep
<1> QED
  BY <1>1, <1>2, ManagerHolds, PTL DEF BotSpec

-----------------------------------------------------------------------------
(***************************************************************************)
(* The properties                                                          *)
(***************************************************************************)
\* An amount that was told of m is what Settlement reports of m.
LEMMA ReportedAmount ==
  ASSUME Manager, Agreed, NEW m \in Mints, NEW q \in Nat, q # 0, Bought(m, q)
  PROVE  stage[m] = "reported" /\ report[m] = q /\ account[m] \in {None, q}
<1>1. PICK b \in Buys : buyer[b].mint = m /\ buyer[b].qty = q
  BY DEF Bought
<1>2. buyer[b].pc \notin {"unborn", "wait"} /\ buyer[b].pc \in BuyerPc
  BY <1>1 DEF Manager, HoldingInv, NothingReported, Typed, BuyersOK, BuyerTask
<1>3. BuyLinked(b, m)
  BY <1>1, <1>2 DEF Agreed, BuysLinked, BuyOf
<1>4. stage[m] = "reported" /\ report[m] = q
  BY <1>1, <1>2, <1>3 DEF BuyLinked, BuyerPc
<1>5. q # None
  BY ManagerAssumption DEF ManagerAssumption
<1>6. account[m] \in {None, q}
  BY <1>4, <1>5 DEF Agreed, AccountOK, Misled
<1> QED
  BY <1>4, <1>6

LEMMA AcceptedHolds == Manager /\ Agreed => OrdersAreAccepted
<1> SUFFICES ASSUME Manager, Agreed, NEW i \in 1..Len(sellQ)
             PROVE  LET o == sellQ[i] IN
                    /\ sale[<<o.from, o.mint>>] = "none"
                    /\ stage[o.mint] = "reported" /\ report[o.mint] = o.amount
                    /\ account[o.mint] \in {None, o.amount}
  BY DEF OrdersAreAccepted
<1> DEFINE o == sellQ[i]
<1>1. o \in Order
  BY DEF Manager, Typed, QueueOK
<1>2. o.from \in Wids /\ o.mint \in Mints /\ seller[o.from].pc = "none"
  BY <1>1 DEF Order, Manager, GivenOnce, QueuedHaveSold
<1>3. sale[<<o.from, o.mint>>] = "none"
  BY <1>2 DEF Agreed, SalesOK
<1>4. o.amount \in Nat /\ o.amount # 0 /\ Bought(o.mint, o.amount)
  BY DEF Manager, HoldingInv, QueueBacked, Backed
<1> HIDE DEF o
<1>5. /\ stage[o.mint] = "reported" /\ report[o.mint] = o.amount
      /\ account[o.mint] \in {None, o.amount}
  BY <1>2, <1>4, ReportedAmount
<1> QED
  BY <1>3, <1>5 DEF o

LEMMA KnownHolds == Manager /\ Agreed => TokensAreKnown
<1> SUFFICES ASSUME Manager, Agreed, NEW m \in Mints, Tokens(m), Told(m)
             PROVE  metas[m] = account[m] \/ Misled(m)
  BY DEF TokensAreKnown
<1>1. PICK b \in Buys : buyer[b].mint = m /\ buyer[b].pc \in {"ensure", "insert", "done"}
  BY DEF Told
<1>2. BuyOf(b, m) /\ BuyLinked(b, m)
  BY <1>1 DEF Agreed, BuysLinked, BuyOf
<1>3. account[m] = bought[m] /\ account[m] # 0 /\ ~Sold(m)
  BY DEF Tokens, Agreed, AccountOK, Sold
<1>4. CASE ~Misled(m)
  <2>1. report[m] = bought[m] /\ report[m] \in Nat
    BY <1>1, <1>2, <1>4 DEF BuyLinked, Agreed, AccountOK, ChainTyped
  <2>2. buyer[b].qty = account[m]
    BY <1>1, <1>2, <1>3, <2>1, ManagerAssumption DEF BuyLinked, ManagerAssumption
  <2> QED
    BY <1>1, <1>2, <1>3, <2>2 DEF Agreed, Recorded
<1> QED
  BY <1>4

LEMMA WatchedHolds == Manager /\ Agreed => TokensAreWatched
<1> SUFFICES ASSUME Manager, Agreed, NEW m \in Mints, Tokens(m), ~Misled(m)
             PROVE  \/ \E b \in Buys : /\ buyer[b].mint = m
                                       /\ buyer[b].pc \in {"wait", "mark", "balance"}
                    \/ Watched(m) \/ GaveUp(m, {"broke", "idle"})
  BY DEF TokensAreWatched
<1>1. PICK b \in Buys : BuyOf(b, m) /\ BuyLinked(b, m)
  BY DEF Tokens, Agreed, AccountOK, BuysLinked
<1>2. buyer[b].mint = m /\ buyer[b].pc \in BuyerPc \ {"unborn"}
  BY <1>1 DEF BuyOf, Manager, Typed, BuyersOK, BuyerTask
<1>3. buyer[b].pc # "gone"
  BY <1>1 DEF BuyLinked, Tokens, Agreed, AccountOK, Misled
<1>4. CASE buyer[b].pc \in {"ensure", "insert", "done"}
  <2>1. Told(m)
    BY <1>2, <1>4 DEF Told
  <2>2. metas[m] = account[m]
    BY <2>1, KnownHolds DEF TokensAreKnown
  <2>3. Held(m)
    BY <2>2 DEF Held, Tokens
  <2>4. ~Clearing(m)
    BY DEF Clearing, Agreed, SalesOK, Cleared, Sold, Tokens
  <2> QED
    BY <2>3, <2>4 DEF Manager, WatchInv, UnwatchedOnlyAfterBroke
<1> QED
  BY <1>2, <1>3, <1>4 DEF BuyerPc

\* The orders of the manager are those that a sell task and Settlement rely on:
\* of a reported buy, for its amount, each under a name of its own (main.rs:339-366).
THEOREM NoneIsRefused == BotSpec => []OrdersAreAccepted
  BY AgreedHolds, AcceptedHolds, PTL

\* The manager forgets a position, or its balance, only when the account is gone,
\* however many sell tasks clear the maps (main.rs:415-420).
THEOREM TheManagerKnows == BotSpec => []TokensAreKnown
  BY AgreedHolds, KnownHolds, PTL

\* From the purchase to the sale on the chain somebody in the bot is in charge of the
\* tokens, unless the manager was misled or a worker left with nothing to sell.
THEOREM SomebodySells == BotSpec => []TokensAreWatched
  BY AgreedHolds, WatchedHolds, PTL
=============================================================================
