------------------------------ MODULE BuyQuote ------------------------------
(***************************************************************************)
(* The arithmetic of a buy: buy_instructions_arguments of wallet/utils.rs. *)
(* From the reserves that the developer's trade has left in the bonding    *)
(* curve, and the lamports to invest, it computes the amount of tokens to  *)
(* ask for and the highest cost to accept.                                 *)
(*                                                                         *)
(* The two conversions from f64 (SOL to lamports, slippage to basis        *)
(* points) are rounded to the nearest integer by the code and enter as     *)
(* natural numbers here.  The products of the reserves are u128 in the     *)
(* code, wide enough for two u64; WordSize is the range of the u64 ones.   *)
(***************************************************************************)
EXTENDS Integers

CONSTANTS
  SolReserves,     \* virtual_sol_reserves of the developer's trade
  TokenReserves,   \* virtual_token_reserves of the developer's trade
  Lamports,        \* sol_to_invest, in lamports
  BasisPoints,     \* slippage, in basis points (1% = 100)
  WordSize         \* 2^64 in the code

ASSUME QuoteAssumption ==
  /\ SolReserves \subseteq Nat /\ TokenReserves \subseteq Nat
  /\ Lamports \subseteq Nat \ {0}
  /\ BasisPoints \subseteq Nat
  /\ WordSize \in Nat \ {0}
  /\ \A v \in SolReserves \cup TokenReserves \cup Lamports : v < WordSize

VARIABLES
  asked,    \* the arguments of the call
  quote     \* its result, None before

vars == <<asked, quote>>
None == [tokens |-> -1, cost |-> -1]

-----------------------------------------------------------------------------
Smaller(a, b) == IF a < b THEN a ELSE b

Invariant(vs, vt) == vs * vt

\* The curve rounds the tokens that stay up: wrapping_add(1) after the division.
NewTokenReserves_floor(vs, vt, s) == Invariant(vs, vt) \div (vs + s)   \* mutant

NewTokenReserves(vs, vt, s) == Invariant(vs, vt) \div (vs + s) + 1

TokenAmount_plain(vs, vt, s) ==    \* mutant: a plain subtraction
  vt - NewTokenReserves(vs, vt, s)

\* saturating_sub
TokenAmount(vs, vt, s) ==
  LET left == NewTokenReserves(vs, vt, s)
  IN IF left > vt THEN 0 ELSE vt - left

\* The product is a u64, the sum saturates; >> 14 divides by 16384.
MaxSolCost_13(s, bps) ==    \* mutant: shifts by one bit less
  Smaller(s + ((s * bps) % WordSize) \div 8192, WordSize - 1)

MaxSolCost(s, bps) ==
  Smaller(s + ((s * bps) % WordSize) \div 16384, WordSize - 1)

Init ==
  /\ asked \in [vs : SolReserves, vt : TokenReserves, s : Lamports, bps : BasisPoints]
  /\ quote = None

Answer ==
  /\ quote = None
  /\ quote' = [tokens |-> TokenAmount(asked.vs, asked.vt, asked.s),
               cost |-> MaxSolCost(asked.s, asked.bps)]
  /\ UNCHANGED asked

Next == Answer

Spec == Init /\ [][Next]_vars
-----------------------------------------------------------------------------
(***************************************************************************)
(* Properties                                                              *)
(***************************************************************************)
TypeOK ==
  /\ asked \in [vs : SolReserves, vt : TokenReserves, s : Lamports, bps : BasisPoints]
  /\ \/ quote = None
     \/ quote \in [tokens : Nat, cost : Nat]

Answered == quote # None

\* The amount asked for is the most that s lamports buy: paying s for it does
\* not lower the product of the reserves, which the curve's program would
\* refuse, and paying s for one token more would not raise it
\* (wallet/utils.rs:23-33).
QuoteIsTight ==
  Answered =>
    LET paid == asked.vs + asked.s
        left == asked.vt - quote.tokens
        k    == Invariant(asked.vs, asked.vt)
    IN /\ quote.tokens >= 0
       /\ paid * left >= k
       /\ paid * (left - 1) <= k

\* The highest cost accepted covers what the quote was computed for, so that a
\* buy is not refused when nobody has traded in between, and exceeds it by the
\* slippage at most (wallet/utils.rs:35-36).
CostIsBounded ==
  Answered =>
    /\ quote.cost >= asked.s
    /\ 10000 * (quote.cost - asked.s) <= asked.s * asked.bps
=============================================================================
