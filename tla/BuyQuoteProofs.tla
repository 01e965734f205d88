--------------------------- MODULE BuyQuoteProofs ---------------------------
(***************************************************************************)
(* Proofs about BuyQuote: the amount of a buy is tight for all reserves    *)
(* and all investments, and its highest cost bounded for all slippages,    *)
(* whatever the width of the machine word.                                 *)
(***************************************************************************)
EXTENDS BuyQuote, TLAPS

\* A quotient is the greatest integer whose product with the divisor does not
\* exceed the dividend.
LEMMA Quotient ==
  ASSUME NEW k \in Nat, NEW n \in Nat \ {0}
  PROVE  /\ k \div n \in Nat
         /\ n * (k \div n) <= k
         /\ k < n * (k \div n + 1)
<1>1. k = n * (k \div n) + (k % n) /\ k % n \in 0 .. n - 1 /\ k \div n \in Int
  BY Z3
<1>2. n * (k \div n + 1) = n * (k \div n) + n
  BY <1>1, Z3
<1>3. k \div n >= 0
  BY Z3
<1> QED
  BY <1>1, <1>2, <1>3, Z3

\* The subtraction saturates only when the curve holds no tokens: paying
\* anything leaves fewer tokens than there were.
LEMMA TokensLeft ==
  ASSUME NEW vs \in Nat, NEW vt \in Nat \ {0}, NEW s \in Nat \ {0}
  PROVE  NewTokenReserves(vs, vt, s) \in 1 .. vt
<1> DEFINE k == vs * vt
           n == vs + s
<1>1. k \in Nat /\ n \in Nat \ {0}
  BY SMT
<1>2. /\ k \div n \in Nat
      /\ n * (k \div n) <= k
  BY <1>1, Quotient
<1>3. k < n * vt
  <2>1. n * vt = k + s * vt
    BY SMT
  <2>2. s * vt > 0
    BY SMT
  <2> QED
    BY <1>1, <2>1, <2>2, SMT
<1>4. k \div n < vt
  <2>1. SUFFICES ASSUME k \div n >= vt PROVE FALSE
    BY <1>2, SMT
  <2>2. n * (k \div n) >= n * vt
    <3> HIDE DEF k, n
    <3>1. \A q \in Nat : q >= vt => n * q >= n * vt
      BY <1>1, SMT
    <3> QED
      BY <3>1, <2>1, <1>2
  <2> QED
    BY <1>1, <1>2, <1>3, <2>2, SMT
<1>5. NewTokenReserves(vs, vt, s) = k \div n + 1
  BY DEF NewTokenReserves, Invariant
<1> HIDE DEF k, n
<1> QED
  BY <1>2, <1>4, <1>5, SMT

\* What QuoteIsTight says of one call.
LEMMA Tight ==
  ASSUME NEW vs \in Nat, NEW vt \in Nat, NEW s \in Nat \ {0}
  PROVE  LET t == TokenAmount(vs, vt, s)
         IN /\ t \in Nat
            /\ (vs + s) * (vt - t) >= vs * vt
            /\ (vs + s) * (vt - t - 1) <= vs * vt
<1> DEFINE k == vs * vt
           n == vs + s
           left == NewTokenReserves(vs, vt, s)
           t == TokenAmount(vs, vt, s)
<1>1. k \in Nat /\ n \in Nat \ {0}
  BY SMT
<1>2. /\ k \div n \in Nat
      /\ n * (k \div n) <= k
      /\ k < n * (k \div n + 1)
  BY <1>1, Quotient
<1>3. left = k \div n + 1
  BY DEF NewTokenReserves, Invariant
<1>4. CASE vt = 0
  <2>1. k = 0
    BY <1>4, SMT
  <2>2. left > vt
    <3> HIDE DEF k, n, left
    <3> QED  BY <1>2, <1>3, <1>4, SMT
  <2>3. t = 0
    BY <2>2 DEF TokenAmount
  <2>4. n * (vt - t) = 0 /\ n * (vt - t - 1) <= 0
    <3>1. vt - t = 0 /\ vt - t - 1 = -1
      BY <2>3, <1>4, SMT
    <3> HIDE DEF k, n, t
    <3> QED  BY <3>1, <1>1, SMT
  <2>5. t \in Nat /\ n * (vt - t) >= k /\ n * (vt - t - 1) <= k
    <3>1. t \in Nat
      BY <2>3
    <3> HIDE DEF k, n, t
    <3> QED  BY <3>1, <2>1, <2>4
  <2> QED  BY <2>5
<1>5. CASE vt # 0
  <2>1. left \in 1 .. vt
    BY <1>5, TokensLeft
  <2>2. t = vt - left
    <3> HIDE DEF left
    <3>1. ~(left > vt)
      BY <2>1, SMT
    <3> USE DEF left
    <3> QED  BY <3>1 DEF TokenAmount
  <2>3. vt - t = left /\ vt - t - 1 = k \div n /\ t \in Nat
    <3> HIDE DEF k, n, left, t
    <3> QED  BY <1>2, <1>3, <2>1, <2>2, SMT
  <2>4. n * left >= k /\ n * (k \div n) <= k
    <3> HIDE DEF k, n, left
    <3> QED  BY <1>1, <1>2, <1>3, SMT
  <2> QED  BY <2>3, <2>4
<1> QED
  BY <1>4, <1>5

\* A cost exceeds the investment s by a slippage of bps basis points at most.
WithinSlippage(cost, s, bps) == 10000 * (cost - s) <= s * bps

\* What CostIsBounded says of one call: taking the product of the slippage to
\* the width of the word only lowers it, and 16384 is above 10000.
LEMMA Bounded ==
  ASSUME NEW s \in Nat, NEW bps \in Nat, s < WordSize
  PROVE  /\ MaxSolCost(s, bps) \in Nat
         /\ MaxSolCost(s, bps) >= s
         /\ WithinSlippage(MaxSolCost(s, bps), s, bps)
<1> DEFINE p == s * bps
           r == p % WordSize
           q == r \div 16384
           c == MaxSolCost(s, bps)
<1>1. p \in Nat /\ WordSize \in Nat \ {0}
  BY QuoteAssumption, SMT DEF QuoteAssumption
<1>2. r \in Nat /\ r <= p
  <2>1. /\ p \div WordSize \in Nat
        /\ WordSize * (p \div WordSize) <= p
    <3> HIDE DEF p
    <3> QED  BY <1>1, Quotient
  <2>2. p = WordSize * (p \div WordSize) + r /\ r \in 0 .. WordSize - 1
    <3> HIDE DEF p
    <3> QED  BY <1>1, Z3
  <2>3. WordSize * (p \div WordSize) >= 0
    <3> HIDE DEF p
    <3>1. \A a, b \in Nat : a * b >= 0
      BY SMT
    <3> QED  BY <1>1, <2>1, <3>1
  <2>4. WordSize * (p \div WordSize) \in Int
    <3> HIDE DEF p
    <3>1. \A a, b \in Nat : a * b \in Int
      BY SMT
    <3> QED  BY <1>1, <2>1, <3>1
  <2> DEFINE z == WordSize * (p \div WordSize)
  <2> HIDE DEF p, r, z
  <2>5. z \in Int /\ z >= 0 /\ p = z + r /\ r \in 0 .. WordSize - 1
    BY <2>2, <2>3, <2>4 DEF z
  <2> QED  BY <1>1, <2>5, SMT
<1>3. q \in Nat /\ 16384 * q <= r
  <2> HIDE DEF r
  <2> QED  BY <1>2, Quotient
<1>4. c = Smaller(s + q, WordSize - 1)
  BY DEF MaxSolCost
<1> HIDE DEF p, q, r, c
<1>5. c \in Nat /\ c >= s /\ c <= s + q
  BY <1>1, <1>3, <1>4, SMT DEF Smaller
<1>6. 10000 * (c - s) <= p
  BY <1>1, <1>2, <1>3, <1>5, SMT
<1> QED
  BY <1>5, <1>6 DEF p, c, WithinSlippage

\* The reachable states of the module are the calls and their answers.
Reached ==
  /\ asked \in [vs : SolReserves, vt : TokenReserves, s : Lamports, bps : BasisPoints]
  /\ quote \in {None, [tokens |-> TokenAmount(asked.vs, asked.vt, asked.s),
                       cost |-> MaxSolCost(asked.s, asked.bps)]}

LEMMA ReachedInvariant == Spec => []Reached
<1>1. Init => Reached
  BY DEF Init, Reached, Answered
<1>2. Reached /\ [Next]_vars => Reached'
  BY DEF Reached, Answered, Next, Answer, vars
<1> QED
  BY <1>1, <1>2, PTL DEF Spec

\* A call is answered by two natural numbers (wallet/utils.rs:38).
THEOREM TypeCorrect == Spec => []TypeOK
<1>1. Reached => TypeOK
  <2> SUFFICES ASSUME Reached PROVE TypeOK
    OBVIOUS
  <2>1. /\ asked.vs \in Nat /\ asked.vt \in Nat /\ asked.bps \in Nat
        /\ asked.s \in Nat /\ asked.s \in Nat \ {0} /\ asked.s < WordSize
    BY QuoteAssumption DEF Reached, QuoteAssumption
  <2>2. TokenAmount(asked.vs, asked.vt, asked.s) \in Nat
    BY <2>1, Tight
  <2>3. MaxSolCost(asked.s, asked.bps) \in Nat
    BY <2>1, Bounded
  <2> QED
    BY <2>2, <2>3 DEF Reached, TypeOK
<1> QED
  BY <1>1, ReachedInvariant, PTL

\* The cost that a buy accepts covers its investment and exceeds it by the
\* slippage at most, for every investment and every slippage, those whose
\* product exceeds the machine word included (wallet/utils.rs:35-36).
THEOREM CostBounded == Spec => []CostIsBounded
<1>1. Reached => CostIsBounded
  <2> SUFFICES ASSUME Reached, Answered
               PROVE  /\ quote.cost >= asked.s
                      /\ 10000 * (quote.cost - asked.s) <= asked.s * asked.bps
    BY DEF CostIsBounded
  <2>1. asked.bps \in Nat /\ asked.s \in Nat /\ asked.s < WordSize
    BY QuoteAssumption DEF Reached, QuoteAssumption
  <2>2. quote.cost = MaxSolCost(asked.s, asked.bps)
    BY DEF Reached, Answered
  <2>3. /\ MaxSolCost(asked.s, asked.bps) >= asked.s
        /\ WithinSlippage(MaxSolCost(asked.s, asked.bps), asked.s, asked.bps)
    BY <2>1, Bounded
  <2> QED
    BY <2>2, <2>3 DEF WithinSlippage
<1> QED
  BY <1>1, ReachedInvariant, PTL

\* The amount a buy asks for is the most that its lamports can buy, for every
\* state of the curve and every investment (wallet/utils.rs:23-33).
THEOREM QuoteTight == Spec => []QuoteIsTight
<1>1. Reached => QuoteIsTight
  <2> SUFFICES ASSUME Reached, Answered
               PROVE  LET paid == asked.vs + asked.s
                          left == asked.vt - quote.tokens
                          k    == Invariant(asked.vs, asked.vt)
                      IN /\ quote.tokens >= 0
                         /\ paid * left >= k
                         /\ paid * (left - 1) <= k
    BY DEF QuoteIsTight
  <2>1. asked.vs \in Nat /\ asked.vt \in Nat /\ asked.s \in Nat \ {0}
    BY QuoteAssumption DEF Reached, QuoteAssumption
  <2>2. quote.tokens = TokenAmount(asked.vs, asked.vt, asked.s)
    BY DEF Reached, Answered
  <2> DEFINE t == TokenAmount(asked.vs, asked.vt, asked.s)
  <2>3. /\ t \in Nat
        /\ (asked.vs + asked.s) * (asked.vt - t) >= asked.vs * asked.vt
        /\ (asked.vs + asked.s) * (asked.vt - t - 1) <= asked.vs * asked.vt
    BY <2>1, Tight
  <2>4. t >= 0
    BY <2>3, SMT
  <2> HIDE DEF t
  <2> QED
    BY <2>2, <2>3, <2>4 DEF Invariant, t
<1> QED
  BY <1>1, ReachedInvariant, PTL
=============================================================================
