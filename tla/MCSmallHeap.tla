----------------------------- MODULE MCSmallHeap -----------------------------
(***************************************************************************)
(* SmallHeap with a page of six units: a header of one and blocks in steps *)
(* of two.  A request of 2 gets one of two blocks, one of 4 the only block *)
(* of a span, and one of 5, the largest, gets class 2 and no block.        *)
(***************************************************************************)
EXTENDS SmallHeap, TLC

CONSTANTS t1, t2

ThreadSymmetry == Permutations(Threads)

=============================================================================
