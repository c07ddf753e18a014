------------------------------ MODULE MCTrHeap ------------------------------
(***************************************************************************)
(* TrHeap with chunks of two units: class 1 gets two blocks out of one,    *)
(* class 2 gets one.                                                       *)
(***************************************************************************)
EXTENDS TrHeap, TLC

CONSTANTS t1, t2, t3

ThreadSymmetry == Permutations(Threads)
TwoSizes == <<1, 2>>
OneSize  == <<1>>

=============================================================================
