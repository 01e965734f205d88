------------------------------ MODULE Position ------------------------------
(***************************************************************************)
(* What the token manager and the tasks around it promise about positions, *)
(* without locks, workers, channels or map entries that are missing for a  *)
(* moment: a position is tracked, its amount recorded, it is ordered for   *)
(* sale as it stands at that very moment, and each order is carried out    *)
(* once, in the order in which they were given, until the position is      *)
(* forgotten.  TokenManagerPosition shows how TokenManager implements it.  *)
(***************************************************************************)
EXTENDS Naturals, Sequences

CONSTANTS Mints,   \* token mints
          Wids,    \* names of the sell orders (the workers that give them)
          Qtys,    \* amounts a confirmed buy can report
          None

VARIABLES
  holding,   \* the amount held of each mint, None when it is not tracked
  orders,    \* sell orders that nobody works on yet
  sale       \* what has become of each order that somebody has taken up

vars == <<holding, orders, sale>>

Init ==
  /\ holding = [m \in Mints |-> None]
  /\ orders = <<>>
  /\ sale = [w \in Wids |-> [phase |-> "none", mint |-> None, amount |-> 0]]

Track(m) ==
  /\ holding' = [holding EXCEPT ![m] = 0]
  /\ UNCHANGED <<orders, sale>>

Record(m, q) ==
  /\ holding[m] # None
  /\ holding' = [holding EXCEPT ![m] = q]
  /\ UNCHANGED <<orders, sale>>

\* Reading the holding and giving the order are one step.
Give(m, w) ==
  /\ holding[m] \notin {None, 0}
  /\ sale[w].phase = "none"
  /\ \A i \in 1..Len(orders) : orders[i].from # w
  /\ orders' = Append(orders, [mint |-> m, amount |-> holding[m], from |-> w])
  /\ UNCHANGED <<holding, sale>>

TakeUp ==
  /\ orders # <<>>
  /\ LET o == Head(orders) IN
       /\ sale[o.from].phase = "none"
       /\ sale' = [sale EXCEPT ![o.from] =
                     [phase |-> "running", mint |-> o.mint, amount |-> o.amount]]
  /\ orders' = Tail(orders)
  /\ UNCHANGED holding

\* The sale has been confirmed: nothing is held any more.
Settle(w) ==
  /\ sale[w].phase = "running"
  /\ holding' = [holding EXCEPT ![sale[w].mint] = IF @ = None THEN None ELSE 0]
  /\ sale' = [sale EXCEPT ![w].phase = "settled"]
  /\ UNCHANGED orders

Forget(w) ==
  /\ sale[w].phase = "settled"
  /\ holding' = [holding EXCEPT ![sale[w].mint] = None]
  /\ sale' = [sale EXCEPT ![w].phase = "closed"]
  /\ UNCHANGED orders

Next ==
  \/ \E m \in Mints : Track(m)
  \/ \E m \in Mints, q \in Qtys : Record(m, q)
  \/ \E m \in Mints, w \in Wids : Give(m, w)
  \/ TakeUp
  \/ \E w \in Wids : Settle(w) \/ Forget(w)

Spec == Init /\ [][Next]_vars
=============================================================================
