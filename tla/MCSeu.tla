-------------------------------- MODULE MCSeu --------------------------------
(***************************************************************************)
(* Seu with copies of three bits beside the parity byte.                   *)
(***************************************************************************)
EXTENDS Seu

CONSTANTS t1, t2

=============================================================================
