-------------------------------- MODULE MCApi --------------------------------
(***************************************************************************)
(* Api with the sizes on both sides of every bound that the code compares  *)
(* with, in every build: classes, the small, page and large limits, and    *)
(* the width of size_t (23 bits here).                                     *)
(***************************************************************************)
EXTENDS Api

Limits == {1, 2, 16, SMALL_GAP * 3, SMALL_BLOCK, PAGE_SIZE, 2 * PAGE_SIZE, LARGE_BLOCK}
Edges  == {n \div k : n \in Limits, k \in 1 .. 3}
EdgeSizes ==
  UNION {{n, n + 1} : n \in Edges} \cup {LARGE_BLOCK - HEADER, SIZE_MAX, SIZE_MAX \div 2}
AllBuilds == {"plain", "TMR", "SEU"}

=============================================================================
