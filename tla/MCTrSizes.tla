------------------------------ MODULE MCTrSizes ------------------------------
(***************************************************************************)
(* TrSizes with the sizes on both sides of the classes' and the tables'    *)
(* bounds, and mappings that start anywhere in a chunk, or where a page    *)
(* and a chunk both start.                                                 *)
(***************************************************************************)
EXTENDS TrSizes

Limits      == {16, 24, 256, 384, 1024, 1536, 49152, 65536}
EdgeSizes   == UNION {{m \div 3, m \div 3 + 1} : m \in Limits} \cup {0, 1, 8, 100000}
FirstChunk  == 3 * CHUNK_SIZE
LargeStarts == {PAGE_SIZE * i : i \in 16 .. 33} \cup {CHUNK_SIZE * 128}

=============================================================================
