---------------------------- MODULE BuyGateProofs ----------------------------
(***************************************************************************)
(* Proofs about BuyGate for every number of mints, buys and permits, and   *)
(* every cost, fee, balance and proceeds.                                  *)
(***************************************************************************)
EXTENDS BuyGate, FiniteSetTheorems, TLAPS

(***************************************************************************)
(* The invariant                                                           *)
(***************************************************************************)
Sent     == {b \in Buys : buy[b].pc = "sent"}
After(i) == {b \in Buys : buy[b].at > i}    \* the buys executed after the i-th transaction

CostOf(S) == Cost * Cardinality(S)
Fees      == Fee * failed

\* A buy holds a permit while it is past the test.
PermitsOK == Cardinality(InFlight) + permits = Permits

\* A buy is in the chain once, at its place, after it has been sent.
ChainOK ==
  /\ \A b \in Buys : buy[b].at <= Len(chain)
  /\ \A b \in Buys : buy[b].pc \in {"none", "acquire", "sent"} => buy[b].at = 0
  /\ \A i \in 1 .. Len(chain) : chain[i].of # None => buy[chain[i].of].at = i

\* What the tested balance does not show has not been told.
ToldOK == ~misled => \A b \in Buys : buy[b].at > storedAt => buy[b].pc = "landed"

\* No balance the wallet ever had is above the present one by more than the cost of the
\* buys executed since and the fees.
NotFarAbove ==
  \A i \in 0 .. Len(chain) : Balance(i) <= funds + CostOf(After(i)) + Fees

\* OverdraftIsBounded, with what the buys that have been sent will still cost.
OverdraftStaysBounded ==
  peak > 0 => funds + Cost * peak + Fees >= MinFree + Needed + CostOf(Sent)

Bounds ==
  /\ PermitsOK /\ ChainOK /\ ToldOK
  /\ NotFarAbove /\ OverdraftStaysBounded
  /\ UnseenHoldPermits

\* A mint that has been bought stays in created until it has been sold, and what is in
\* created is not bought.
CreatedOK ==
  /\ loop \notin created
  /\ \A b \in Buys : buy[b].pc = "none" => buy[b].mint = None
  /\ \A b \in Buys :
       buy[b].mint # None /\ buy[b].pc # "purged" =>
         \/ buy[b].mint \in created
         \/ \E d \in Buys : buy[d].mint = buy[b].mint /\ buy[d].pc = "purged"
  /\ BoughtOnce

(***************************************************************************)
(* Sets of buys and what they cost                                         *)
(***************************************************************************)
LEMMA TimesNext ==
  ASSUME NEW a \in Nat, NEW n \in Nat
  PROVE  a * (n + 1) = a * n + a /\ a * n \in Nat
  OBVIOUS

LEMMA TimesMonotone ==
  ASSUME NEW a \in Nat, NEW n \in Nat, NEW k \in Nat, n <= k
  PROVE  a * n <= a * k
  OBVIOUS

LEMMA TimesSum ==
  ASSUME NEW a \in Nat, NEW n \in Nat, NEW k \in Nat
  PROVE  a * (n + k) = a * n + a * k
  OBVIOUS

LEMMA Constants ==
  /\ Cost \in Nat /\ Fee \in Nat /\ MinFree \in Nat /\ Needed \in Nat /\ Deposit \in Nat
  /\ Proceeds \in Nat /\ MaxFailed \in Nat /\ Permits \in Nat /\ Fee <= Cost
  BY GateAssumption

LEMMA Sized ==
  ASSUME NEW S, S \subseteq Buys
  PROVE  IsFiniteSet(S) /\ Cardinality(S) \in Nat /\ CostOf(S) \in Nat
<1>1. IsFiniteSet(S)
  BY FS_Subset, GateAssumption
<1>2. Cardinality(S) \in Nat
  BY <1>1, FS_CardinalityType
<1> QED
  BY <1>1, <1>2, Constants, TimesNext DEF CostOf

LEMMA OneMore ==
  ASSUME NEW S, S \subseteq Buys, NEW b \in Buys, b \notin S
  PROVE  /\ Cardinality(S \cup {b}) = Cardinality(S) + 1
         /\ CostOf(S \cup {b}) = CostOf(S) + Cost
<1>1. Cardinality(S \cup {b}) = Cardinality(S) + 1
  BY Sized, FS_AddElement
<1> QED
  BY <1>1, Sized, Constants, TimesNext DEF CostOf

LEMMA OneLess ==
  ASSUME NEW S, S \subseteq Buys, NEW b \in S
  PROVE  /\ Cardinality(S \ {b}) = Cardinality(S) - 1
         /\ CostOf(S) = CostOf(S \ {b}) + Cost
<1>1. S \ {b} \subseteq Buys /\ b \in Buys /\ b \notin S \ {b} /\ (S \ {b}) \cup {b} = S
  OBVIOUS
<1>2. Cardinality(S) = Cardinality(S \ {b}) + 1 /\ CostOf(S) = CostOf(S \ {b}) + Cost
  BY <1>1, OneMore
<1> QED
  BY <1>1, <1>2, Sized

LEMMA SetsOfBuys ==
  /\ Sent \subseteq Buys /\ InFlight \subseteq Buys /\ Sent \subseteq InFlight
  /\ \A i : After(i) \subseteq Buys /\ Unseen(i) = Sent \cup After(i)
  BY DEF Sent, InFlight, After, Unseen

\* The tested balance does not show what has been sent and what has been executed since.
LEMMA UnseenCost ==
  ASSUME ChainOK, NEW i \in Nat
  PROVE  /\ Cardinality(Unseen(i)) = Cardinality(Sent) + Cardinality(After(i))
         /\ CostOf(Unseen(i)) = CostOf(Sent) + CostOf(After(i))
<1>1. Sent \cap After(i) = {}
  BY DEF ChainOK, Sent, After
<1>2. /\ IsFiniteSet(Sent) /\ Cardinality(Sent) \in Nat
      /\ IsFiniteSet(After(i)) /\ Cardinality(After(i)) \in Nat
  BY SetsOfBuys, Sized
<1>3. Cardinality(Sent \cap After(i)) = 0
  BY <1>1, FS_EmptySet
<1>4. Cardinality(Sent \cup After(i))
        = Cardinality(Sent) + Cardinality(After(i)) - Cardinality(Sent \cap After(i))
  BY <1>2, FS_Union
<1>5. Cardinality(Unseen(i)) = Cardinality(Sent) + Cardinality(After(i))
  <2>1. Unseen(i) = Sent \cup After(i)
    BY DEF Unseen, Sent, After
  <2> QED
    BY <1>2, <1>3, <1>4, <2>1
<1> QED
  BY <1>2, <1>5, Constants, TimesSum DEF CostOf

(***************************************************************************)
(* Types                                                                   *)
(***************************************************************************)
LEMMA BalanceTyped ==
  ASSUME TypeOK
  PROVE  /\ Len(chain) \in Nat /\ storedAt \in 0 .. Len(chain)
         /\ \A i \in 0 .. Len(chain) : Balance(i) \in Nat
         /\ funds \in Nat /\ stored \in Nat
         /\ failed \in Nat /\ peak \in Nat /\ permits \in Nat /\ Fees \in Nat
         /\ buy \in [Buys -> Buy]
         /\ \A b \in Buys : buy[b].at \in Nat
<1>1. chain \in Seq(Update) /\ storedAt \in 0 .. Len(chain) /\ Len(chain) \in Nat
  BY DEF TypeOK
<1>2. ASSUME NEW i \in 0 .. Len(chain) PROVE Balance(i) \in Nat
  <2>1. CASE i = 0
    BY <2>1, Constants DEF Balance
  <2>2. CASE i # 0
    <3>1. chain[i] \in Update
      BY <1>1, <2>2
    <3> QED
      BY <2>2, <3>1 DEF Balance, Update
  <2> QED
    BY <2>1, <2>2
<1>3. failed \in Nat /\ Fees \in Nat
  BY Constants, TimesNext DEF TypeOK, Fees
<1>4. buy \in [Buys -> Buy] /\ \A b \in Buys : buy[b].at \in Nat
  BY DEF TypeOK, Buy
<1> QED
  BY <1>1, <1>2, <1>3, <1>4, Constants DEF TypeOK, funds, stored

\* A transaction is executed: the balances before it stay what they were.
LEMMA Executed ==
  ASSUME TypeOK, NEW of \in Buys \cup {None}, NEW post \in Int, Executes(of, post)
  PROVE  /\ post \in Nat
         /\ chain' \in Seq(Update) /\ Len(chain') = Len(chain) + 1
         /\ \A i \in 1 .. Len(chain) : chain'[i] = chain[i]
         /\ chain'[Len(chain) + 1] = [of |-> of, post |-> post]
         /\ \A i \in 0 .. Len(chain) : Balance(i)' = Balance(i)
         /\ funds' = post
<1>1. post \in Nat /\ chain' = Append(chain, [of |-> of, post |-> post])
  BY DEF Executes
<1>2. [of |-> of, post |-> post] \in Update /\ chain \in Seq(Update)
  BY <1>1 DEF Update, TypeOK
<1>3. /\ chain' \in Seq(Update) /\ Len(chain') = Len(chain) + 1 /\ Len(chain) \in Nat
      /\ \A i \in 1 .. Len(chain) : chain'[i] = chain[i]
      /\ chain'[Len(chain) + 1] = [of |-> of, post |-> post]
  BY <1>1, <1>2
<1>4. \A i \in 0 .. Len(chain) : Balance(i)' = Balance(i)
  BY <1>3 DEF Balance
<1>5. funds' = post
  BY <1>3 DEF funds, Balance
<1> QED
  BY <1>1, <1>3, <1>4, <1>5

LEMMA ToldTyped ==
  ASSUME TypeOK, NEW b \in Buys \cup {None}
  PROVE  Told(b) \in [Buys -> Buy]
  BY DEF Told, TypeOK, Buy, BuyPc

LEMMA UpdateTyped ==
  ASSUME TypeOK, NEW i \in 1 .. Len(chain)
  PROVE  chain[i].of \in Buys \cup {None} /\ i \in 0 .. Len(chain)
<1>1. chain[i] \in Update
  BY DEF TypeOK
<1> QED
  BY <1>1 DEF Update

LEMMA InitTyped == Init => TypeOK
<1> SUFFICES ASSUME Init PROVE TypeOK
  OBVIOUS
<1>1. buy \in [Buys -> Buy]
  BY DEF Init, Buy, BuyPc
<1>2. chain \in Seq(Update) /\ storedAt \in 0 .. Len(chain)
  BY DEF Init
<1>3. permits \in 0 .. Permits /\ failed \in 0 .. MaxFailed /\ peak \in Nat
  BY Constants DEF Init
<1>4. created \subseteq Mints /\ loop \in Mints \cup {None} /\ misled \in BOOLEAN
  BY Zenon DEF Init
<1> QED
  BY <1>1, <1>2, <1>3, <1>4, Zenon DEF TypeOK

LEMMA NextTyped ==
  ASSUME TypeOK, PermitsOK, [Next]_vars
  PROVE  TypeOK'
<1> USE GateAssumption
<1>1. ASSUME NEW m \in Mints, NEW sol, ReceiveCreate(m, sol)
      PROVE  TypeOK'
  BY <1>1 DEF ReceiveCreate, wallet, history, TypeOK
<1>2. ASSUME NEW n, Refuse(n)
      PROVE  TypeOK'
  BY <1>2 DEF Refuse, wallet, history, TypeOK
<1>3. ASSUME NEW n, NEW b \in Buys, Spawn(n, b)
      PROVE  TypeOK'
  BY <1>3 DEF Spawn, wallet, history, TypeOK, Buy, BuyPc
<1>4. ASSUME NEW b \in Buys, GiveUp(b)
      PROVE  TypeOK'
  BY <1>4 DEF GiveUp, Moves, wallet, history, TypeOK, Buy, BuyPc
<1>5. ASSUME NEW b \in Buys, Send(b)
      PROVE  TypeOK'
  <2>1. buy' \in [Buys -> Buy]
    BY <1>5 DEF Send, Passes, Moves, TypeOK, Buy, BuyPc
  <2>2. peak' \in Nat
    <3>1. Cardinality(Unseen(storedAt)) \in Nat
      BY Sized DEF Unseen
    <3> QED
      BY <1>5, <3>1 DEF Send, Passes, TypeOK
  <2>3. permits' \in 0 .. Permits
    BY <1>5 DEF Send, Passes, TypeOK
  <2> QED
    BY <1>5, <2>1, <2>2, <2>3 DEF Send, Passes, wallet, TypeOK
<1>6. ASSUME NEW b \in Buys, Finish(b)
      PROVE  TypeOK'
  <2>1. buy' \in [Buys -> Buy]
    BY <1>6 DEF Finish, Moves, TypeOK, Buy, BuyPc
  <2>2. b \in InFlight
    BY <1>6 DEF Finish, InFlight
  <2>3. Cardinality(InFlight) \in Nat /\ Cardinality(InFlight \ {b}) \in Nat
        /\ Cardinality(InFlight \ {b}) = Cardinality(InFlight) - 1
    BY <2>2, SetsOfBuys, Sized, OneLess
  <2>4. permits' \in 0 .. Permits
    BY <1>6, <2>3 DEF Finish, PermitsOK, TypeOK
  <2> QED
    BY <1>6, <2>1, <2>4 DEF Finish, wallet, history, TypeOK
<1>7. ASSUME NEW of \in Buys \cup {None}, NEW post \in Int, Executes(of, post),
             buy' \in [Buys -> Buy], failed' \in 0 .. MaxFailed
      PROVE  TypeOK'
  <2>1. chain' \in Seq(Update) /\ Len(chain') = Len(chain) + 1 /\ Len(chain) \in Nat
    BY <1>7, Executed, BalanceTyped
  <2>2. storedAt' \in 0 .. Len(chain')
    BY <1>7, <2>1 DEF Executes, TypeOK
  <2> QED
    BY <1>7, <2>1, <2>2 DEF Executes, history, TypeOK
<1>8. ASSUME NEW b \in Buys, NEW ok \in BOOLEAN, Land(b, ok)
      PROVE  TypeOK'
  <2>1. buy' \in [Buys -> Buy]
    <3>1. Len(chain) + 1 \in Nat
      BY BalanceTyped
    <3> QED
      <4>1. [buy[b] EXCEPT !.pc = "landed", !.ok = ok, !.at = Len(chain) + 1] \in Buy
        BY <3>1 DEF TypeOK, Buy, BuyPc
      <4>2. buy' = [buy EXCEPT ![b] =
                      [buy[b] EXCEPT !.pc = "landed", !.ok = ok, !.at = Len(chain) + 1]]
        BY <1>8 DEF Land, TypeOK, Buy
      <4> QED
        BY <4>1, <4>2 DEF TypeOK
  <2>2. failed' \in 0 .. MaxFailed
    BY <1>8 DEF Land, TypeOK
  <2>3. funds - (IF ok THEN Cost ELSE Fee) \in Int
    BY BalanceTyped, Constants
  <2> QED
    BY <1>7, <1>8, <2>1, <2>2, <2>3 DEF Land
<1>9. ASSUME NEW b \in Buys, SellFails(b) \/ Sale(b)
      PROVE  TypeOK'
  <2>1. buy' \in [Buys -> Buy]
    <3>1. CASE SellFails(b)
      BY <3>1 DEF SellFails, TypeOK
    <3>2. CASE Sale(b)
      BY <3>2 DEF Sale, Moves, TypeOK, Buy, BuyPc
    <3> QED
      BY <1>9, <3>1, <3>2
  <2>2. failed' \in 0 .. MaxFailed
    BY <1>9, Constants DEF SellFails, Sale, TypeOK
  <2>3. funds - Fee \in Int /\ funds + Proceeds \in Int
    BY BalanceTyped, Constants
  <2> QED
    BY <1>7, <1>9, <2>1, <2>2, <2>3 DEF SellFails, Sale
<1>10. ASSUME NEW b \in Buys, Purge(b)
       PROVE  TypeOK'
  BY <1>10 DEF Purge, Moves, wallet, history, TypeOK, Buy, BuyPc
<1>11. ASSUME NEW i \in 1 .. Len(chain), Watch(i)
       PROVE  TypeOK'
  <2>1. buy' \in [Buys -> Buy]
    BY <1>11, UpdateTyped, ToldTyped DEF Watch, Store
  <2>2. storedAt' \in 0 .. Len(chain) /\ misled' \in BOOLEAN
    BY <1>11, UpdateTyped, Zenon DEF Watch, Store, TypeOK
  <2> QED
    BY <1>11, <2>1, <2>2 DEF Watch, TypeOK
<1>12. ASSUME NEW i \in 1 .. Len(chain), WatchBare(i)
       PROVE  TypeOK'
  <2>1. chain[i].of \in Buys /\ Told(chain[i].of) \in [Buys -> Buy]
    BY <1>12, UpdateTyped, ToldTyped DEF WatchBare
  <2>2. buy' \in [Buys -> Buy]
    BY <1>12, <2>1 DEF WatchBare, Buy
  <2>3. misled' \in BOOLEAN
    BY <1>12, Zenon DEF WatchBare, TypeOK
  <2> QED
    BY <1>12, <2>2, <2>3 DEF WatchBare, wallet, TypeOK
<1>13. CASE UNCHANGED vars
  BY <1>13 DEF vars, TypeOK
<1> QED
  BY <1>1, <1>2, <1>3, <1>4, <1>5, <1>6, <1>8, <1>9, <1>10, <1>11, <1>12, <1>13
  DEF Next

(***************************************************************************)
(* The bounds                                                              *)
(***************************************************************************)
LEMMA InitBounds == Init => Bounds /\ CreatedOK
<1> SUFFICES ASSUME Init PROVE Bounds /\ CreatedOK
  OBVIOUS
<1>0. TypeOK
  BY InitTyped
<1>1. InFlight = {} /\ Cardinality({}) = 0
  BY FS_EmptySet DEF Init, InFlight
<1>2. PermitsOK
  BY <1>1, Constants DEF Init, PermitsOK
<1>3. Len(chain) = 0 /\ storedAt = 0 /\ failed = 0 /\ peak = 0 /\ misled = FALSE
  BY DEF Init
<1>4. \A b \in Buys : buy[b].pc = "none" /\ buy[b].at = 0 /\ buy[b].mint = None
  BY DEF Init
<1>5. ChainOK /\ ToldOK
  BY <1>3, <1>4 DEF ChainOK, ToldOK
<1>6. NotFarAbove
  <2>1. CostOf(After(0)) \in Nat /\ Fees \in Nat /\ funds = Balance(0) /\ funds \in Nat
    BY <1>0, <1>3, SetsOfBuys, Sized, BalanceTyped DEF funds
  <2>2. Balance(0) <= funds + CostOf(After(0)) + Fees
    BY <2>1
  <2> QED
    BY <1>3, <2>2 DEF NotFarAbove
<1>7. OverdraftStaysBounded /\ UnseenHoldPermits
  BY <1>3, Constants DEF OverdraftStaysBounded, UnseenHoldPermits
<1>8. CreatedOK
  BY <1>4, GateAssumption DEF Init, CreatedOK, BoughtOnce
<1> QED
  BY <1>2, <1>5, <1>6, <1>7, <1>8 DEF Bounds

\* Neither a transaction nor an update: a buy that is not past the test, or not any more.
LEMMA QuietStep ==
  ASSUME TypeOK, Bounds, UNCHANGED <<permits, wallet, history>>,
         \A b \in Buys :
           /\ buy'[b].at = buy[b].at
           /\ \A pc \in {"sent", "landed", "told"} : buy'[b].pc = pc <=> buy[b].pc = pc
           /\ buy'[b].pc \in {"none", "acquire"} => buy[b].pc \in {"none", "acquire"}
  PROVE  Bounds'
<1>1. /\ UNCHANGED <<permits, storedAt, chain, failed, misled, peak>>
      /\ InFlight' = InFlight /\ Sent' = Sent /\ \A i : After(i)' = After(i)
  BY DEF wallet, history, InFlight, Sent, After
<1>2. funds' = funds /\ Fees' = Fees /\ \A i : Balance(i)' = Balance(i)
  BY <1>1 DEF funds, Fees, Balance
<1>3. PermitsOK' /\ OverdraftStaysBounded' /\ UnseenHoldPermits'
  BY <1>1, <1>2 DEF Bounds, PermitsOK, OverdraftStaysBounded, UnseenHoldPermits, CostOf
<1>4. NotFarAbove'
  <2>1. \A i \in 0 .. Len(chain) : Balance(i)' <= funds' + CostOf(After(i)') + Fees'
    BY <1>1, <1>2 DEF Bounds, NotFarAbove
  <2> QED
    BY <1>1, <2>1 DEF NotFarAbove, CostOf
<1>5. ChainOK'
  <2>1. \A b \in Buys : buy'[b].at <= Len(chain')
    BY <1>1 DEF Bounds, ChainOK
  <2>2. \A b \in Buys : buy'[b].pc \in {"none", "acquire", "sent"} => buy'[b].at = 0
    BY DEF Bounds, ChainOK
  <2>3. \A i \in 1 .. Len(chain') : chain'[i].of # None => buy'[chain'[i].of].at = i
    BY <1>1, UpdateTyped DEF Bounds, ChainOK
  <2> QED
    BY <2>1, <2>2, <2>3 DEF ChainOK
<1>6. ToldOK'
  BY <1>1 DEF Bounds, ToldOK
<1> QED
  BY <1>3, <1>4, <1>5, <1>6 DEF Bounds

\* The test has been passed: one buy more is in flight, and what it does not see is
\* counted by the peak.
LEMMA SendStep ==
  ASSUME TypeOK, Bounds, NEW b \in Buys, Send(b)
  PROVE  Bounds'
<1> USE DEF Bounds
<1>1. /\ buy[b].pc = "acquire" /\ permits > 0 /\ stored >= Needed + MinFree
      /\ permits' = permits - 1
      /\ UNCHANGED <<storedAt, chain, failed, misled>>
      /\ buy' = [buy EXCEPT ![b].pc = "sent"]
  BY DEF Send, Passes, Moves, Affordable, wallet
<1>2. /\ b \notin InFlight /\ b \notin Sent
      /\ InFlight' = InFlight \cup {b} /\ Sent' = Sent \cup {b}
      /\ \A i : After(i)' = After(i)
  BY <1>1, BalanceTyped DEF InFlight, Sent, After
<1>3. /\ Cardinality(InFlight') = Cardinality(InFlight) + 1
      /\ CostOf(Sent') = CostOf(Sent) + Cost
      /\ Cardinality(InFlight) \in Nat /\ CostOf(Sent) \in Nat
  BY <1>2, SetsOfBuys, OneMore, Sized
<1>4. funds' = funds /\ Fees' = Fees /\ \A i : Balance(i)' = Balance(i)
  BY <1>1 DEF funds, Fees, Balance
<1> DEFINE n == Cardinality(Unseen(storedAt))
<1>5. n \in Nat /\ peak' \in Nat /\ n + 1 <= peak'
  <2>1. n \in Nat
    BY SetsOfBuys, Sized DEF Unseen
  <2> QED
    BY <2>1, BalanceTyped DEF Send, Passes
<1>6. PermitsOK'
  BY <1>1, <1>3, BalanceTyped, Constants DEF PermitsOK
<1>7. ChainOK'
  <2>1. \A c \in Buys : buy'[c].at = buy[c].at
    BY <1>1, BalanceTyped
  <2>2. \A c \in Buys :
          buy'[c].pc \in {"none", "acquire", "sent"}
            => buy[c].pc \in {"none", "acquire", "sent"}
    BY <1>1, BalanceTyped
  <2>3. \A i \in 1 .. Len(chain') : chain'[i].of # None => buy'[chain'[i].of].at = i
    BY <1>1, <2>1, UpdateTyped DEF ChainOK
  <2> QED
    BY <1>1, <2>1, <2>2, <2>3 DEF ChainOK
<1>8. ToldOK'
  <2> SUFFICES ASSUME ~misled, NEW c \in Buys, buy'[c].at > storedAt
               PROVE  buy'[c].pc = "landed"
    BY <1>1 DEF ToldOK
  <2>1. buy[c].at > storedAt /\ buy[c].pc = "landed"
    BY <1>1, BalanceTyped DEF ToldOK
  <2> QED
    BY <1>1, <2>1, BalanceTyped
<1>9. NotFarAbove'
  <2>1. \A i \in 0 .. Len(chain) : Balance(i)' <= funds' + CostOf(After(i)') + Fees'
    BY <1>2, <1>4 DEF NotFarAbove
  <2> QED
    BY <1>1, <2>1 DEF NotFarAbove, CostOf
<1>10. OverdraftStaysBounded'
  <2>1. storedAt \in Nat /\ storedAt \in 0 .. Len(chain)
    BY BalanceTyped
  <2>2. /\ CostOf(Unseen(storedAt)) = CostOf(Sent) + CostOf(After(storedAt))
        /\ CostOf(After(storedAt)) \in Nat
    BY <2>1, UnseenCost, SetsOfBuys, Sized
  <2>3. stored <= funds + CostOf(After(storedAt)) + Fees
    BY <2>1 DEF NotFarAbove, stored
  <2>4. Cost * peak' >= CostOf(Unseen(storedAt)) + Cost /\ Cost * peak' \in Nat
    <3>1. Cost * (n + 1) = Cost * n + Cost /\ Cost * n \in Nat
      BY <1>5, Constants, TimesNext
    <3>2. Cost * (n + 1) <= Cost * peak' /\ Cost * peak' \in Nat
      <4>1. n + 1 \in Nat /\ Cost \in Nat
        BY <1>5, Constants
      <4> HIDE DEF n
      <4> QED
        BY <1>5, <4>1, TimesMonotone, TimesNext
    <3> QED
      BY <3>1, <3>2 DEF CostOf
  <2>5. funds + Cost * peak' + Fees >= MinFree + Needed + (CostOf(Sent) + Cost)
    <3>1. stored >= Needed + MinFree
      BY <1>1
    <3>2. funds \in Nat /\ stored \in Nat /\ Fees \in Nat
      BY BalanceTyped
    <3> DEFINE q == Cost * peak'
    <3>3. q \in Nat /\ q >= CostOf(Sent) + CostOf(After(storedAt)) + Cost
      BY <1>3, <2>2, <2>4, Constants
    <3> HIDE DEF q
    <3>4. funds + q + Fees >= MinFree + Needed + (CostOf(Sent) + Cost)
      BY <1>3, <2>2, <2>3, <3>1, <3>2, <3>3, Constants
    <3> QED
      BY <3>4 DEF q
  <2> QED
    BY <1>3, <1>4, <2>5 DEF OverdraftStaysBounded
<1>11. UnseenHoldPermits'
  <2> SUFFICES ASSUME ~misled PROVE peak' <= Permits
    BY <1>1 DEF UnseenHoldPermits
  <2>1. Unseen(storedAt) \subseteq InFlight
    BY DEF ToldOK, Unseen, InFlight
  <2>2. n <= Cardinality(InFlight)
    BY <2>1, SetsOfBuys, Sized, FS_Subset
  <2>3. n + 1 <= Permits
    <3>1. permits \in Nat /\ permits > 0 /\ Cardinality(InFlight) + permits = Permits
      BY <1>1, BalanceTyped DEF PermitsOK
    <3> HIDE DEF n
    <3> QED
      BY <1>3, <1>5, <2>2, <3>1
  <2>4. peak <= Permits
    BY DEF UnseenHoldPermits
  <2> QED
    BY <2>3, <2>4 DEF Send, Passes
<1> QED
  BY <1>6, <1>7, <1>8, <1>9, <1>10, <1>11

\* The buy returns: its permit is free again.
LEMMA FinishStep ==
  ASSUME TypeOK, Bounds, NEW b \in Buys, Finish(b)
  PROVE  Bounds'
<1> USE DEF Bounds
<1>1. /\ buy[b].pc = "told" /\ permits' = permits + 1
      /\ UNCHANGED <<storedAt, chain, failed, misled, peak>>
      /\ \E pc \in {"held", "gone"} : buy' = [buy EXCEPT ![b].pc = pc]
  BY DEF Finish, Moves, wallet, history
<1>2. /\ \A c \in Buys : buy'[c].at = buy[c].at
      /\ \A c \in Buys \ {b} : buy'[c].pc = buy[c].pc
      /\ buy'[b].pc \in {"held", "gone"}
  BY <1>1, BalanceTyped
<1>3. b \in InFlight /\ InFlight' = InFlight \ {b} /\ Sent' = Sent
      /\ \A i : After(i)' = After(i)
  BY <1>1, <1>2 DEF InFlight, Sent, After
<1>4. funds' = funds /\ Fees' = Fees /\ \A i : Balance(i)' = Balance(i)
  BY <1>1 DEF funds, Fees, Balance
<1>5. PermitsOK'
  <2>1. /\ Cardinality(InFlight') = Cardinality(InFlight) - 1
        /\ Cardinality(InFlight) \in Nat
    BY <1>3, SetsOfBuys, Sized, OneLess
  <2>2. permits \in Nat /\ permits' = permits + 1
    BY <1>1, BalanceTyped
  <2> QED
    BY <2>1, <2>2 DEF PermitsOK
<1>6. ChainOK'
  <2>1. \A c \in Buys :
          buy'[c].pc \in {"none", "acquire", "sent"}
            => buy[c].pc \in {"none", "acquire", "sent"}
    BY <1>1, <1>2
  <2>2. \A i \in 1 .. Len(chain') : chain'[i].of # None => buy'[chain'[i].of].at = i
    BY <1>1, <1>2, UpdateTyped DEF ChainOK
  <2> QED
    BY <1>1, <1>2, <2>1, <2>2 DEF ChainOK
<1>7. ToldOK'
  BY <1>1, <1>2 DEF ToldOK
<1>8. NotFarAbove'
  <2>1. \A i \in 0 .. Len(chain) : Balance(i)' <= funds' + CostOf(After(i)') + Fees'
    BY <1>3, <1>4 DEF NotFarAbove
  <2> QED
    BY <1>1, <2>1 DEF NotFarAbove, CostOf
<1>9. OverdraftStaysBounded' /\ UnseenHoldPermits'
  BY <1>1, <1>3, <1>4 DEF OverdraftStaysBounded, UnseenHoldPermits, CostOf
<1> QED
  BY <1>5, <1>6, <1>7, <1>8, <1>9

(***************************************************************************)
(* The steps of the cluster                                                *)
(***************************************************************************)
LEMMA BalancesAfter ==
  ASSUME TypeOK, NotFarAbove, NEW of \in Buys \cup {None}, NEW post \in Int,
         Executes(of, post), Fees' \in Nat,
         \A i \in 0 .. Len(chain) :
           funds + CostOf(After(i)) + Fees <= post + CostOf(After(i)') + Fees'
  PROVE  NotFarAbove'
<1>1. /\ post \in Nat /\ Len(chain') = Len(chain) + 1 /\ Len(chain) \in Nat
      /\ \A i \in 0 .. Len(chain) : Balance(i)' = Balance(i)
      /\ funds' = post
  BY Executed, BalanceTyped
<1>2. \A i \in Nat : CostOf(After(i)') \in Nat /\ CostOf(After(i)) \in Nat
  BY Sized DEF After
<1>3. ASSUME NEW i \in 0 .. Len(chain')
      PROVE  Balance(i)' <= funds' + CostOf(After(i)') + Fees'
  <2>1. CASE i \in 0 .. Len(chain)
    <3>1. Balance(i) <= funds + CostOf(After(i)) + Fees
      BY <2>1 DEF NotFarAbove
    <3>2. Balance(i) \in Nat /\ funds \in Nat /\ Fees \in Nat
      BY <2>1, BalanceTyped
    <3>3. CostOf(After(i)') \in Nat /\ CostOf(After(i)) \in Nat
      BY <1>1, <1>2, <2>1
    <3>4. funds + CostOf(After(i)) + Fees <= post + CostOf(After(i)') + Fees'
      BY <2>1
    <3> QED
      BY <1>1, <2>1, <3>1, <3>2, <3>3, <3>4
  <2>2. CASE i = Len(chain) + 1
    <3>1. Balance(i)' = funds'
      BY <1>1, <2>2 DEF funds
    <3>2. CostOf(After(i)') \in Nat
      BY <1>1, <1>2, <2>2
    <3> QED
      BY <1>1, <3>1, <3>2
  <2> QED
    BY <1>1, <2>1, <2>2
<1> QED
  BY <1>3 DEF NotFarAbove, CostOf

LEMMA LandStep ==
  ASSUME TypeOK, Bounds, NEW b \in Buys, NEW ok \in BOOLEAN, Land(b, ok)
  PROVE  Bounds'
<1> USE DEF Bounds
<1> DEFINE c == IF ok THEN Cost ELSE Fee
           post == funds - c
<1>1. /\ buy[b].pc = "sent" /\ buy[b].at = 0 /\ Executes(b, post)
      /\ buy' = [buy EXCEPT ![b].pc = "landed", ![b].ok = ok, ![b].at = Len(chain) + 1]
      /\ UNCHANGED <<storedAt, permits, failed, misled, peak>>
  BY DEF Land, Executes, history, ChainOK
<1>2. /\ buy'[b].pc = "landed" /\ buy'[b].at = Len(chain) + 1
      /\ \A d \in Buys \ {b} : buy'[d] = buy[d]
  BY <1>1, BalanceTyped DEF Buy
<1>3. c \in Nat /\ c <= Cost /\ post \in Int /\ funds \in Nat /\ Fees \in Nat
      /\ Len(chain) \in Nat
  BY BalanceTyped, Constants
<1>4. /\ post \in Nat /\ Len(chain') = Len(chain) + 1 /\ funds' = post /\ Fees' = Fees
      /\ \A i \in 1 .. Len(chain) : chain'[i] = chain[i]
      /\ chain'[Len(chain) + 1] = [of |-> b, post |-> post]
  BY <1>1, <1>3, Executed DEF Fees
<1>5. b \in Sent /\ InFlight' = InFlight /\ Sent' = Sent \ {b}
  BY <1>1, <1>2 DEF InFlight, Sent
<1>6. PermitsOK' /\ UnseenHoldPermits'
  BY <1>1, <1>5 DEF PermitsOK, UnseenHoldPermits
<1>7. ChainOK'
  <2>1. \A d \in Buys : buy'[d].at <= Len(chain')
    BY <1>2, <1>3, <1>4, BalanceTyped DEF ChainOK
  <2>2. \A d \in Buys : buy'[d].pc \in {"none", "acquire", "sent"} => buy'[d].at = 0
    BY <1>2 DEF ChainOK
  <2>3. ASSUME NEW i \in 1 .. Len(chain'), chain'[i].of # None
        PROVE  buy'[chain'[i].of].at = i
    <3>1. CASE i \in 1 .. Len(chain)
      <4>1. chain'[i] = chain[i] /\ chain[i].of \in Buys /\ buy[chain[i].of].at = i
        BY <1>4, <2>3, <3>1, UpdateTyped DEF ChainOK
      <4>2. chain[i].of # b
        BY <1>1, <3>1, <4>1
      <4> QED
        BY <1>2, <4>1, <4>2
    <3>2. CASE i = Len(chain) + 1
      BY <1>2, <1>4, <3>2
    <3> QED
      BY <1>3, <1>4, <3>1, <3>2
  <2> QED
    BY <2>1, <2>2, <2>3 DEF ChainOK
<1>8. ToldOK'
  BY <1>1, <1>2 DEF ToldOK
<1>9. NotFarAbove'
  <2>1. ASSUME NEW i \in 0 .. Len(chain)
        PROVE  funds + CostOf(After(i)) + Fees <= post + CostOf(After(i)') + Fees'
    <3>1. b \notin After(i) /\ After(i)' = After(i) \cup {b} /\ After(i) \subseteq Buys
      <4>1. Len(chain) + 1 > i /\ ~(0 > i)
        BY <1>3
      <4>2. \A d \in Buys : buy'[d].at > i <=> d = b \/ buy[d].at > i
        BY <1>2, <4>1
      <4> QED
        BY <1>1, <4>1, <4>2 DEF After
    <3>2. CostOf(After(i)') = CostOf(After(i)) + Cost /\ CostOf(After(i)) \in Nat
      BY <3>1, OneMore, Sized
    <3> HIDE DEF c
    <3> QED
      BY <1>3, <1>4, <3>2, Constants
  <2>2. Fees' \in Nat /\ b \in Buys \cup {None}
    BY <1>3, <1>4
  <2> QED
    BY <1>1, <1>3, <2>1, <2>2, BalancesAfter
<1>10. OverdraftStaysBounded'
  <2>1. CostOf(Sent) = CostOf(Sent') + Cost /\ CostOf(Sent') \in Nat
    BY <1>5, SetsOfBuys, OneLess, Sized
  <2> DEFINE q == Cost * peak
  <2>2. q \in Nat
    BY BalanceTyped, Constants, TimesNext
  <2>3. peak > 0 => funds + q + Fees >= MinFree + Needed + CostOf(Sent)
    BY DEF OverdraftStaysBounded
  <2> HIDE DEF q, c
  <2>4. peak > 0 => post + q + Fees >= MinFree + Needed + CostOf(Sent')
    BY <1>3, <2>1, <2>2, <2>3, Constants
  <2> QED
    BY <1>1, <1>4, <2>4 DEF OverdraftStaysBounded, CostOf, q
<1> QED
  BY <1>6, <1>7, <1>8, <1>9, <1>10

\* A transaction of a sell task, which the entries of the buys do not notice.
LEMMA SellStep ==
  ASSUME TypeOK, Bounds, NEW b \in Buys, SellFails(b) \/ Sale(b)
  PROVE  Bounds'
<1> USE DEF Bounds
<1>1. PICK post \in Int :
        /\ Executes(None, post)
        /\ funds + Fees <= post + Fees' /\ Fees' \in Nat
  <2>1. funds \in Nat /\ Fees \in Nat
    BY BalanceTyped
  <2>2. CASE SellFails(b)
    <3>1. Executes(None, funds - Fee) /\ failed' = failed + 1
      BY <2>2 DEF SellFails
    <3>2. Fees' = Fees + Fee
      BY <3>1, BalanceTyped, Constants, TimesNext DEF Fees
    <3> QED
      BY <2>1, <3>1, <3>2, Constants
  <2>3. CASE Sale(b)
    <3>1. Executes(None, funds + Proceeds) /\ Fees' = Fees
      BY <2>3 DEF Sale, Fees
    <3> QED
      BY <2>1, <3>1, Constants
  <2> QED
    BY <2>2, <2>3
<1>2. /\ UNCHANGED <<storedAt, permits, misled, peak>>
      /\ \A d \in Buys : buy'[d].at = buy[d].at
      /\ \A d \in Buys \ {b} : buy'[d].pc = buy[d].pc
      /\ buy[b].pc = "held" /\ buy'[b].pc \in {"held", "sold"}
  <2>1. CASE SellFails(b)
    BY <2>1 DEF SellFails, Executes, history
  <2>2. CASE Sale(b)
    BY <2>2, BalanceTyped DEF Sale, Moves, Executes, history, Buy
  <2> QED
    BY <2>1, <2>2
<1>3. /\ post \in Nat /\ Len(chain') = Len(chain) + 1 /\ funds' = post
      /\ \A i \in 1 .. Len(chain) : chain'[i] = chain[i]
      /\ chain'[Len(chain) + 1] = [of |-> None, post |-> post]
      /\ Len(chain) \in Nat /\ funds \in Nat /\ Fees \in Nat
  BY <1>1, Executed, BalanceTyped
<1>4. InFlight' = InFlight /\ Sent' = Sent /\ \A i : After(i)' = After(i)
  BY <1>2 DEF InFlight, Sent, After
<1>5. PermitsOK' /\ UnseenHoldPermits'
  BY <1>2, <1>4 DEF PermitsOK, UnseenHoldPermits
<1>6. ChainOK'
  <2>1. \A d \in Buys : buy'[d].at <= Len(chain')
    BY <1>2, <1>3, BalanceTyped DEF ChainOK
  <2>2. \A d \in Buys : buy'[d].pc \in {"none", "acquire", "sent"} => buy'[d].at = 0
    BY <1>2 DEF ChainOK
  <2>3. ASSUME NEW i \in 1 .. Len(chain'), chain'[i].of # None
        PROVE  buy'[chain'[i].of].at = i
    <3>1. i \in 1 .. Len(chain)
      BY <1>3, <2>3
    <3> QED
      BY <1>2, <1>3, <2>3, <3>1, UpdateTyped DEF ChainOK
  <2> QED
    BY <2>1, <2>2, <2>3 DEF ChainOK
<1>7. ToldOK'
  BY <1>2 DEF ToldOK
<1>8. NotFarAbove'
  <2>1. ASSUME NEW i \in 0 .. Len(chain)
        PROVE  funds + CostOf(After(i)) + Fees <= post + CostOf(After(i)') + Fees'
    <3>1. CostOf(After(i)') = CostOf(After(i)) /\ CostOf(After(i)) \in Nat
      BY <1>4, SetsOfBuys, Sized DEF CostOf, After
    <3> QED
      BY <1>1, <1>3, <3>1
  <2> QED
    BY <1>1, <2>1, BalancesAfter
<1>9. OverdraftStaysBounded'
  <2> DEFINE q == Cost * peak
  <2>1. q \in Nat /\ CostOf(Sent) \in Nat
    BY BalanceTyped, SetsOfBuys, Sized, Constants, TimesNext
  <2>2. peak > 0 => funds + q + Fees >= MinFree + Needed + CostOf(Sent)
    BY DEF OverdraftStaysBounded
  <2> HIDE DEF q
  <2>3. peak > 0 => post + q + Fees' >= MinFree + Needed + CostOf(Sent)
    BY <1>1, <1>3, <2>1, <2>2, Constants
  <2> QED
    BY <1>2, <1>3, <1>4, <2>3 DEF OverdraftStaysBounded, CostOf, q
<1> QED
  BY <1>5, <1>6, <1>7, <1>8, <1>9

(***************************************************************************)
(* The steps of the watcher                                                *)
(***************************************************************************)
\* A buy is told, or its entry is removed.
LEMMA ToldChanges ==
  ASSUME TypeOK, Bounds, NEW i \in 1 .. Len(chain), Watch(i) \/ WatchBare(i)
  PROVE  /\ UNCHANGED <<created, loop, permits, chain, failed, peak>>
         /\ \A d \in Buys : buy'[d].at = buy[d].at /\ buy'[d].mint = buy[d].mint
         /\ \A d \in Buys :
              IF d = chain[i].of /\ buy[d].pc = "landed"
              THEN buy'[d].pc = "told" ELSE buy'[d].pc = buy[d].pc
<1>1. chain[i].of \in Buys \cup {None} /\ buy \in [Buys -> Buy] /\ None \notin Buys
  BY UpdateTyped, BalanceTyped, GateAssumption
<1>2. CASE Watch(i)
  BY <1>1, <1>2 DEF Watch, Store, Told, Buy
<1>3. CASE WatchBare(i)
  BY <1>1, <1>3 DEF WatchBare, Told, Buy, wallet
<1> QED
  BY <1>2, <1>3

LEMMA WatcherStep ==
  ASSUME TypeOK, Bounds, NEW i \in 1 .. Len(chain), Watch(i) \/ WatchBare(i)
  PROVE  Bounds'
<1> USE DEF Bounds
<1>1. /\ UNCHANGED <<permits, chain, failed, peak>>
      /\ \A d \in Buys : buy'[d].at = buy[d].at
      /\ \A d \in Buys :
           IF d = chain[i].of /\ buy[d].pc = "landed"
           THEN buy'[d].pc = "told" ELSE buy'[d].pc = buy[d].pc
  BY ToldChanges
<1>2. InFlight' = InFlight /\ Sent' = Sent /\ \A j : After(j)' = After(j)
  BY <1>1 DEF InFlight, Sent, After
<1>3. funds' = funds /\ Fees' = Fees /\ \A j : Balance(j)' = Balance(j)
  BY <1>1 DEF funds, Fees, Balance
<1>4. PermitsOK' /\ OverdraftStaysBounded'
  BY <1>1, <1>2, <1>3 DEF PermitsOK, OverdraftStaysBounded, CostOf
<1>5. ChainOK'
  <2>1. \A j \in 1 .. Len(chain') : chain'[j].of # None => buy'[chain'[j].of].at = j
    BY <1>1, UpdateTyped DEF ChainOK
  <2> QED
    BY <1>1, <2>1 DEF ChainOK
<1>6. NotFarAbove'
  <2>1. \A j \in 0 .. Len(chain) : Balance(j)' <= funds' + CostOf(After(j)') + Fees'
    BY <1>2, <1>3 DEF NotFarAbove
  <2> QED
    BY <1>1, <2>1 DEF NotFarAbove, CostOf
<1>7. misled => misled'
  BY DEF Watch, Store, WatchBare
<1>8. UnseenHoldPermits'
  BY <1>1, <1>7 DEF UnseenHoldPermits
<1>9. ToldOK'
  <2> SUFFICES ASSUME ~misled', NEW d \in Buys, buy'[d].at > storedAt'
               PROVE  buy'[d].pc = "landed"
    BY DEF ToldOK
  <2>1. ~misled /\ storedAt \in Nat /\ i \in Nat /\ buy[d].at \in Nat
        /\ buy'[d].at = buy[d].at
    BY <1>1, <1>7, BalanceTyped
  <2>2. d = chain[i].of => buy[d].at = i
    BY GateAssumption DEF ChainOK
  <2>3. CASE Watch(i)
    <3>0. storedAt' = i /\ ~(storedAt' < storedAt)
      BY <2>3, Zenon DEF Watch, Store
    <3>1. storedAt' = i /\ i >= storedAt
      BY <2>1, <3>0
    <3>2. d # chain[i].of /\ buy[d].pc = "landed"
      BY <2>1, <2>2, <3>1 DEF ToldOK
    <3> QED
      BY <1>1, <3>2
  <2>4. CASE WatchBare(i)
    <3>1. storedAt' = storedAt /\ buy[chain[i].of].pc # "landed"
      BY <2>4 DEF WatchBare, wallet
    <3> QED
      BY <1>1, <2>1, <3>1 DEF ToldOK
  <2> QED
    BY <2>3, <2>4
<1> QED
  BY <1>4, <1>5, <1>6, <1>8, <1>9

LEMMA BoundsNext ==
  ASSUME TypeOK, Bounds, [Next]_vars
  PROVE  Bounds'
<1>1. ASSUME NEW m \in Mints, NEW sol, ReceiveCreate(m, sol)
      PROVE  Bounds'
  BY <1>1, QuietStep DEF ReceiveCreate
<1>2. ASSUME NEW n, Refuse(n)
      PROVE  Bounds'
  BY <1>2, QuietStep DEF Refuse
<1>3. ASSUME NEW n, NEW b \in Buys, Spawn(n, b)
      PROVE  Bounds'
  BY <1>3, QuietStep, BalanceTyped DEF Spawn, Buy
<1>4. ASSUME NEW b \in Buys, GiveUp(b) \/ Purge(b)
      PROVE  Bounds'
  <2>1. UNCHANGED <<permits, wallet, history>>
    BY <1>4 DEF GiveUp, Purge
  <2>2. \A c \in Buys :
          /\ buy'[c].at = buy[c].at
          /\ \A pc \in {"sent", "landed", "told"} : buy'[c].pc = pc <=> buy[c].pc = pc
          /\ buy'[c].pc \in {"none", "acquire"} => buy[c].pc \in {"none", "acquire"}
    <3>1. buy \in [Buys -> Buy]
      BY BalanceTyped
    <3>2. CASE GiveUp(b)
      BY <3>1, <3>2 DEF GiveUp, Moves, Buy
    <3>3. CASE Purge(b)
      BY <3>1, <3>3 DEF Purge, Moves, Buy
    <3> QED
      BY <1>4, <3>2, <3>3
  <2> QED
    BY <2>1, <2>2, QuietStep
<1>5. CASE UNCHANGED vars
  BY <1>5, QuietStep DEF vars, wallet, history
<1> QED
  BY <1>1, <1>2, <1>3, <1>4, <1>5, SendStep, FinishStep, LandStep, SellStep, WatcherStep
  DEF Next

(***************************************************************************)
(* The map of bought mints                                                 *)
(***************************************************************************)
\* A buy goes on, with its mint, and is purged for good.
LEMMA GoesOn ==
  ASSUME CreatedOK, created' = created, loop' \notin created,
         \A b \in Buys :
           /\ buy'[b].mint = buy[b].mint
           /\ buy'[b].pc = "none" => buy[b].pc = "none"
           /\ buy[b].pc = "purged" <=> buy'[b].pc = "purged"
  PROVE  CreatedOK'
<1>1. BoughtOnce'
  BY DEF CreatedOK, BoughtOnce
<1>2. \A b \in Buys :
        buy'[b].mint # None /\ buy'[b].pc # "purged" =>
          \/ buy'[b].mint \in created'
          \/ \E d \in Buys : buy'[d].mint = buy'[b].mint /\ buy'[d].pc = "purged"
  BY DEF CreatedOK
<1> QED
  BY <1>1, <1>2 DEF CreatedOK

LEMMA CreatedNext ==
  ASSUME TypeOK, Bounds, CreatedOK, [Next]_vars
  PROVE  CreatedOK'
<1>0. None \notin created /\ None \notin Mints /\ buy \in [Buys -> Buy]
  BY GateAssumption DEF TypeOK
<1>1. ASSUME NEW m \in Mints, NEW sol, ReceiveCreate(m, sol)
      PROVE  CreatedOK'
  BY <1>1, GoesOn DEF ReceiveCreate
<1>2. ASSUME NEW n, Refuse(n)
      PROVE  CreatedOK'
  BY <1>0, <1>2, GoesOn DEF Refuse
<1>3. ASSUME NEW n, NEW b \in Buys, Spawn(n, b)
      PROVE  CreatedOK'
  <2>1. /\ loop \notin created /\ created' = created \cup {loop}
        /\ loop' = None /\ loop # None /\ buy[b].pc = "none" /\ buy[b].mint = None
        /\ buy'[b].mint = loop /\ buy'[b].pc = "acquire"
        /\ \A c \in Buys \ {b} : buy'[c] = buy[c]
    BY <1>0, <1>3 DEF Spawn, CreatedOK, Buy
  <2>2. \A d \in Buys : buy[d].pc = "purged" => buy'[d] = buy[d]
    BY <2>1
  <2>3. \A c \in Buys \ {b} :
          buy[c].mint = loop /\ buy[c].pc # "purged" =>
            \E d \in Buys : buy[d].mint = loop /\ buy[d].pc = "purged"
    BY <2>1 DEF CreatedOK
  <2>4. BoughtOnce'
    <3> SUFFICES ASSUME NEW c \in Buys, NEW e \in Buys, c # e,
                        buy'[c].mint = buy'[e].mint, buy'[c].mint # None,
                        "purged" \notin {buy'[c].pc, buy'[e].pc}
                 PROVE  \E d \in Buys : buy'[d].mint = buy'[c].mint /\ buy'[d].pc = "purged"
      BY DEF BoughtOnce
    <3>1. \E d \in Buys : buy[d].mint = buy'[c].mint /\ buy[d].pc = "purged"
      <4>1. CASE b \in {c, e}
        BY <2>1, <2>3, <4>1
      <4>2. CASE b \notin {c, e}
        BY <2>1, <4>2 DEF CreatedOK, BoughtOnce
      <4> QED
        BY <4>1, <4>2
    <3> QED
      BY <2>2, <3>1
  <2>5. \A c \in Buys :
          buy'[c].mint # None /\ buy'[c].pc # "purged" =>
            \/ buy'[c].mint \in created'
            \/ \E d \in Buys : buy'[d].mint = buy'[c].mint /\ buy'[d].pc = "purged"
    <3> SUFFICES ASSUME NEW c \in Buys, c # b, buy[c].mint # None, buy[c].pc # "purged"
                 PROVE  \/ buy[c].mint \in created'
                        \/ \E d \in Buys :
                             buy'[d].mint = buy[c].mint /\ buy'[d].pc = "purged"
      BY <2>1
    <3> QED
      BY <2>1, <2>2 DEF CreatedOK
  <2>6. loop' \notin created' /\ \A c \in Buys : buy'[c].pc = "none" => buy'[c].mint = None
    BY <1>0, <2>1 DEF CreatedOK
  <2> QED
    BY <2>4, <2>5, <2>6 DEF CreatedOK
<1>4. ASSUME NEW b \in Buys, GiveUp(b) \/ Send(b) \/ Finish(b) \/ Sale(b)
      PROVE  CreatedOK'
  <2>1. created' = created /\ loop' = loop
    BY <1>4 DEF GiveUp, Send, Passes, Finish, Sale, Executes
  <2>2. \A c \in Buys :
          /\ buy'[c].mint = buy[c].mint
          /\ buy'[c].pc = "none" => buy[c].pc = "none"
          /\ buy[c].pc = "purged" <=> buy'[c].pc = "purged"
    BY <1>0, <1>4 DEF GiveUp, Send, Passes, Finish, Sale, Moves, Buy
  <2> QED
    BY <2>1, <2>2, GoesOn DEF CreatedOK
<1>5. ASSUME NEW b \in Buys, NEW ok \in BOOLEAN, Land(b, ok)
      PROVE  CreatedOK'
  <2>1. \A c \in Buys :
          /\ buy'[c].mint = buy[c].mint
          /\ buy'[c].pc = "none" => buy[c].pc = "none"
          /\ buy[c].pc = "purged" <=> buy'[c].pc = "purged"
    BY <1>0, <1>5 DEF Land, Buy
  <2> QED
    BY <1>5, <2>1, GoesOn DEF Land, Executes, CreatedOK
<1>6. ASSUME NEW b \in Buys, Purge(b)
      PROVE  CreatedOK'
  <2>1. /\ buy'[b].pc = "purged" /\ loop' = loop
        /\ buy[b].pc \in {"sold", "purged"}
        /\ created' = created \ {buy[b].mint}
        /\ \A c \in Buys : buy'[c].mint = buy[c].mint
        /\ \A c \in Buys \ {b} : buy'[c].pc = buy[c].pc
    BY <1>0, <1>6 DEF Purge, Moves, Buy
  <2>2. \A d \in Buys : buy[d].pc = "purged" => buy'[d].pc = "purged"
    BY <2>1
  <2>3. \A c \in Buys :
          buy'[c].mint # None /\ buy'[c].pc # "purged" =>
            \/ buy'[c].mint \in created'
            \/ \E d \in Buys : buy'[d].mint = buy'[c].mint /\ buy'[d].pc = "purged"
    <3> SUFFICES ASSUME NEW c \in Buys, buy[c].mint # None, buy[c].pc # "purged"
                 PROVE  \/ buy[c].mint \in created'
                        \/ \E d \in Buys :
                             buy'[d].mint = buy[c].mint /\ buy'[d].pc = "purged"
      BY <2>1, <2>2
    <3>1. CASE buy[c].mint = buy[b].mint
      BY <2>1, <3>1
    <3>2. CASE buy[c].mint # buy[b].mint
      BY <2>1, <2>2, <3>2 DEF CreatedOK
    <3> QED
      BY <3>1, <3>2
  <2>4. BoughtOnce'
    <3> SUFFICES ASSUME NEW c \in Buys, NEW e \in Buys, c # e,
                        buy'[c].mint = buy'[e].mint, buy'[c].mint # None,
                        "purged" \notin {buy'[c].pc, buy'[e].pc}
                 PROVE  \E d \in Buys : buy'[d].mint = buy'[c].mint /\ buy'[d].pc = "purged"
      BY DEF BoughtOnce
    <3>1. "purged" \notin {buy[c].pc, buy[e].pc}
      BY <2>2
    <3>2. PICK d \in Buys : buy[d].mint = buy[c].mint /\ buy[d].pc = "purged"
      BY <2>1, <3>1 DEF CreatedOK, BoughtOnce
    <3> QED
      BY <2>1, <2>2, <3>2
  <2>5. loop' \notin created' /\ \A c \in Buys : buy'[c].pc = "none" => buy'[c].mint = None
    BY <2>1 DEF CreatedOK
  <2> QED
    BY <2>3, <2>4, <2>5 DEF CreatedOK
<1>7. CASE buy' = buy /\ created' = created /\ loop' = loop
  BY <1>7, GoesOn DEF CreatedOK
<1>8. ASSUME NEW i \in 1 .. Len(chain), Watch(i) \/ WatchBare(i)
      PROVE  CreatedOK'
  <2>1. created' = created /\ loop' = loop
    BY <1>8, ToldChanges
  <2>2. \A c \in Buys :
          /\ buy'[c].mint = buy[c].mint
          /\ buy'[c].pc = "none" => buy[c].pc = "none"
          /\ buy[c].pc = "purged" <=> buy'[c].pc = "purged"
    BY <1>8, ToldChanges
  <2> QED
    BY <2>1, <2>2, GoesOn DEF CreatedOK
<1>9. ASSUME NEW b \in Buys, SellFails(b)
      PROVE  CreatedOK'
  BY <1>7, <1>9 DEF SellFails, Executes
<1>10. CASE UNCHANGED vars
  BY <1>7, <1>10 DEF vars
<1> QED
  BY <1>1, <1>2, <1>3, <1>4, <1>5, <1>6, <1>8, <1>9, <1>10 DEF Next

(***************************************************************************)
(* The theorems                                                            *)
(***************************************************************************)
LEMMA Inductive == Spec => [](TypeOK /\ Bounds /\ CreatedOK)
<1>1. TypeOK /\ Bounds /\ CreatedOK /\ [Next]_vars => (TypeOK /\ Bounds /\ CreatedOK)'
  <2> SUFFICES ASSUME TypeOK, Bounds, CreatedOK, [Next]_vars
               PROVE  TypeOK' /\ Bounds' /\ CreatedOK'
    OBVIOUS
  <2>1. PermitsOK
    BY DEF Bounds
  <2> QED
    BY <2>1, NextTyped, BoundsNext, CreatedNext
<1>2. Init => TypeOK /\ Bounds /\ CreatedOK
  BY InitTyped, InitBounds
<1> QED
  BY <1>1, <1>2, PTL DEF Spec

\* The variables keep their types; that permits stays between 0 and Permits says that
\* tx_sem is given back as often as it is taken.
THEOREM TypeCorrect == Spec => []TypeOK
  BY Inductive, PTL

\* In whatever order the updates come and whatever they lack, the wallet goes below what
\* the test keeps free (main.rs:278-282) by no more than the cost of the buys that
\* the balance of one passed test did not show, and the fees of the failed sells.
THEOREM Overdraft == Spec => []OverdraftIsBounded
<1>1. TypeOK /\ Bounds => OverdraftIsBounded
  <2> SUFFICES ASSUME TypeOK, Bounds, peak > 0
               PROVE  funds + peak * Cost + failed * Fee >= MinFree + Needed
    BY DEF OverdraftIsBounded
  <2> DEFINE q == Cost * peak
  <2>1. funds + q + Fees >= MinFree + Needed + CostOf(Sent)
    BY DEF Bounds, OverdraftStaysBounded
  <2>2. CostOf(Sent) \in Nat
    BY SetsOfBuys, Sized
  <2>3. q \in Nat /\ peak * Cost = q /\ failed * Fee = Fees
    BY BalanceTyped, Constants, TimesNext DEF Fees
  <2> HIDE DEF q
  <2>4. funds + q + Fees >= MinFree + Needed
    <3>1. q \in Nat /\ funds \in Nat /\ Fees \in Nat
      BY <2>3, BalanceTyped
    <3> QED
      BY <2>1, <2>2, <3>1, Constants
  <2> QED
    BY <2>3, <2>4, Zenon
<1> QED
  BY <1>1, Inductive, PTL

\* A passed test does not see at most as many buys as tx_sem has permits, unless a bare
\* update has returned the permit of a buy that has been executed, or an older balance
\* has replaced a newer one (transaction_verifier.rs:97-108).
THEOREM PermitsBoundTheUnseen == Spec => []UnseenHoldPermits
<1>1. Bounds => UnseenHoldPermits
  BY DEF Bounds
<1> QED
  BY <1>1, Inductive, PTL

\* Two buys of a mint are held at a time only if a third one of it has been sold before,
\* whose late sell task (main.rs:420) removed the mint of one of the two from created.
THEOREM MintBoughtOnce == Spec => []BoughtOnce
<1>1. CreatedOK => BoughtOnce
  BY DEF CreatedOK
<1> QED
  BY <1>1, Inductive, PTL
=============================================================================
