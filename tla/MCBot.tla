-------------------------------- MODULE MCBot --------------------------------
(***************************************************************************)
(* A small instance of Bot for TLC.                                        *)
(***************************************************************************)
EXTENDS Bot

CONSTANT m1

OneShard == [m \in Mints |-> 0]
=============================================================================
