-------------------------------- MODULE MCTmr --------------------------------
(***************************************************************************)
(* Tmr with copies of two bytes that hold 0 or 1.                          *)
(***************************************************************************)
EXTENDS Tmr

CONSTANTS t1, t2

=============================================================================
