----------------------------- MODULE MCGlobalHeap -----------------------------
(***************************************************************************)
(* GlobalHeap on a heap of two mappings of six pages, with three span      *)
(* lists and two small heaps.                                              *)
(***************************************************************************)
EXTENDS GlobalHeap, TLC

CONSTANTS t1, t2

ThreadSymmetry == Permutations(Threads)

=============================================================================
