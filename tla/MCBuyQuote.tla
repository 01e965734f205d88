----------------------------- MODULE MCBuyQuote -----------------------------
(***************************************************************************)
(* Constants for model checking BuyQuote.                                  *)
(***************************************************************************)
EXTENDS BuyQuote

SmallReserves == 0 .. 40
SmallLamports == {1, 2, 3, 7, 50}
\* 20 %, as main.rs asks for, and the two ends.
Slippages == {0, 2000, 10000}
=============================================================================
