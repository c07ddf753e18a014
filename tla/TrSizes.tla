------------------------------- MODULE TrSizes -------------------------------
(***************************************************************************)
(* The sizes of tr_malloc: the tables of classes that maps_init fills, the *)
(* block that a size gets, and the bytes that TR_Write and TR_Read take    *)
(* for its three copies, from any pointer into it.  The loops of maps_init *)
(* are actions, because class runs on from one loop to the next.           *)
(***************************************************************************)
EXTENDS Integers

CONSTANTS
  Sizes,    \* sizes that the application asks for; 3 * size fits in a size_t
  Chunk,    \* start of the chunk a small block comes from
  Starts    \* addresses that mmap returns for a large block

HEADER              == 96     \* sizeof(chunkh_t)
PAGE_SIZE           == 4096
CHUNK_DATA_SIZE     == 16 * PAGE_SIZE
CHUNK_SIZE          == CHUNK_DATA_SIZE + HEADER
DEFAULT_BLOCK_CLASS == 48
LARGE_CLASS         == 100
MAP_SIZE            == 128    \* entries of sizemap2, and of sizemap (256) that are used

ASSUME TrSizesAssumption ==
  /\ Sizes \subseteq Nat /\ Chunk \in Nat /\ Chunk % CHUNK_SIZE = 0
  /\ \A s \in Starts : s \in Nat /\ s % PAGE_SIZE = 0

Classes    == 0 .. DEFAULT_BLOCK_CLASS - 1
Entries    == 0 .. MAP_SIZE - 1
BlockSizes == 0 .. CHUNK_DATA_SIZE

NoBlock == [size |-> 0]

VARIABLES
  loop, class, size,             \* where maps_init is
  cls2size, sizemap, sizemap2,
  blk,                           \* the block the application has
  touched                        \* first and last byte of each copy last read or written

tables == <<cls2size, sizemap, sizemap2>>
vars   == <<loop, class, size, tables, blk, touched>>

-----------------------------------------------------------------------------
(* maps_init *)

Init ==
  /\ loop = "by8" /\ size = 16 /\ class = 0
  /\ cls2size = [c \in Classes |-> 0]
  /\ sizemap = [i \in Entries |-> 0] /\ sizemap2 = sizemap
  /\ blk = NoBlock /\ touched = {}

By8 ==
  /\ loop = "by8" /\ size <= 256
  /\ cls2size' = [cls2size EXCEPT ![class] = size]
  /\ size' = size + 8 /\ class' = class + 1
  /\ UNCHANGED <<loop, sizemap, sizemap2, blk, touched>>

\* Mutant: one turn more, past the last class.
BelowOrAt(limit) == size <= limit

Below(limit) == size < limit

ByHalf ==
  /\ loop = "byHalf" /\ Below(65536)
  /\ cls2size' = [cls2size EXCEPT ![class] = size + size \div 2, ![class + 1] = size * 2]
  /\ size' = size * 2 /\ class' = class + 2
  /\ UNCHANGED <<loop, sizemap, sizemap2, blk, touched>>

\* Mutant: moves on as soon as the class is reached.
ReachedEarly == IF size >= cls2size[class] THEN class + 1 ELSE class

Reached == IF size > cls2size[class] THEN class + 1 ELSE class

Map ==
  /\ loop = "map" /\ size <= 1024
  /\ class' = Reached
  /\ sizemap' = [sizemap EXCEPT ![(size - 1) \div 8] = Reached]
  /\ size' = size + 8
  /\ UNCHANGED <<loop, cls2size, sizemap2, blk, touched>>

Map2 ==
  /\ loop = "map2" /\ size <= 65536
  /\ class' = Reached
  /\ sizemap2' = [sizemap2 EXCEPT ![(size - 1) \div 512] = Reached]
  /\ size' = size + 512
  /\ UNCHANGED <<loop, cls2size, sizemap, blk, touched>>

\* The end of a loop and the start of the next; class is set to 0 once.
Turn ==
  /\ \/ loop = "by8"    /\ size > 256     /\ loop' = "byHalf" /\ size' = 256  /\ class' = class
     \/ loop = "byHalf" /\ ~Below(65536) /\ loop' = "map"     /\ size' = 8    /\ class' = 0
     \/ loop = "map"     /\ size > 1024    /\ loop' = "map2"    /\ size' = 1024 /\ class' = class
     \/ loop = "map2"    /\ size > 65536   /\ loop' = "done"    /\ size' = 0    /\ class' = 0
  /\ UNCHANGED <<tables, blk, touched>>

-----------------------------------------------------------------------------
(* tr_malloc and tr_free of one block *)

size2cls(m) ==
  IF m <= 1024 THEN sizemap[(m - 1) \div 8]
  ELSE IF m <= 65536 THEN sizemap2[(m - 1) \div 512]
  ELSE LARGE_CLASS

Asked(n) == IF n = 0 THEN 1 ELSE 3 * n

\* chunk_init, and the blocks that chunk_alloc_obj cuts off one after the other.
blk_cnt(c)  == CHUNK_DATA_SIZE \div cls2size[c]
BlockOf(c, i) == Chunk + HEADER + i * cls2size[c]

TrMallocSmall(n) ==
  LET c == size2cls(Asked(n)) IN
  /\ loop = "done" /\ blk = NoBlock /\ c < DEFAULT_BLOCK_CLASS
  /\ \E i \in 0 .. blk_cnt(c) - 1 :
       blk' = [n |-> n, size |-> cls2size[c], large |-> FALSE, addr |-> BlockOf(c, i),
               from |-> Chunk, to |-> Chunk + CHUNK_SIZE]
  /\ touched' = {}
  /\ UNCHANGED <<loop, class, size, tables>>

\* Mutant: rounds down, so that the header lies before the mapping.
RoundDown(x) == (x \div CHUNK_SIZE) * CHUNK_SIZE

RoundUp(x) == ((x + CHUNK_SIZE - 1) \div CHUNK_SIZE) * CHUNK_SIZE

TrMallocLarge(n, start) ==
  LET total == Asked(n) + HEADER + CHUNK_SIZE IN
  /\ loop = "done" /\ blk = NoBlock /\ size2cls(Asked(n)) = LARGE_CLASS
  /\ blk' = [n |-> n, size |-> total, large |-> TRUE, addr |-> RoundUp(start) + HEADER,
             from |-> start, to |-> start + total]
  /\ touched' = {}
  /\ UNCHANGED <<loop, class, size, tables>>

\* Mutant: the header of a chunk that starts at a page.
HeaderOfPage(p) == p - (p % CHUNK_DATA_SIZE)

\* chunk_extract_header
HeaderOf(p) == p - (p % CHUNK_SIZE)

TrFree ==
  /\ blk # NoBlock /\ blk' = NoBlock /\ touched' = {}
  /\ UNCHANGED <<loop, class, size, tables>>

-----------------------------------------------------------------------------
(* TR_Write and TR_Read, from a pointer o bytes into the data.  Both take the
   header of the chunk that the pointer lies in, find the block's start in it,
   and place the copies a third of the block apart.  A large block's copies
   may end after its mapping: TR_Write and TR_Read are modelled for small
   blocks. *)

\* Mutant: the distance in the block forgets the chunk's header.
StartNoHeader(p) == p - ((p - HeaderOf(p)) % blk.size)

StartOf(p) == p - ((p - HeaderOf(p) - HEADER) % blk.size)
Third      == blk.size \div 3

TrWrite(o, n) ==
  LET p == blk.addr + o
      b == StartOf(p)
  IN  /\ touched' = {<<b + k * Third + (p - b), b + k * Third + (p - b) + n - 1>> : k \in 0 .. 2}
      /\ UNCHANGED <<loop, class, size, tables, blk>>

\* A copy that differs is overwritten as a whole.
TrRead(o) ==
  LET b == StartOf(blk.addr + o) IN
  /\ touched' = {<<b + k * Third, b + (k + 1) * Third - 1>> : k \in 0 .. 2}
  /\ UNCHANGED <<loop, class, size, tables, blk>>

-----------------------------------------------------------------------------
Use(o) ==
  /\ blk # NoBlock /\ ~blk.large /\ o < blk.n
  /\ TrRead(o) \/ \E n \in {1, blk.n - o} : TrWrite(o, n)

Next ==
  \/ By8 \/ ByHalf \/ Map \/ Map2 \/ Turn
  \/ \E n \in Sizes : TrMallocSmall(n) \/ (\E s \in Starts : TrMallocLarge(n, s))
  \/ TrFree
  \/ \E m \in Sizes, d \in {0, 1} : m - d \in Nat /\ Use(m - d)

Spec == Init /\ [][Next]_vars

-----------------------------------------------------------------------------
(* Properties *)

\* The type of every variable; maps_init makes no class that a heap has no list
\* for (cls2size itself has room for 128), and never leaves sizemap2, although
\* class runs on from one loop to the next.
TypeOK ==
  /\ loop \in {"by8", "byHalf", "map", "map2", "done"}
  /\ class \in 0 .. DEFAULT_BLOCK_CLASS /\ size \in Nat
  /\ cls2size \in [Classes -> BlockSizes]
  /\ sizemap \in [Entries -> Classes] /\ sizemap2 \in [Entries -> Classes]

\* After maps_init a size is served by the least class that holds it, for every
\* size that the tables cover, although they have one entry for 8 or 512 sizes
\* and class moves on by one at most at each.
LeastClass ==
  loop = "done" /\ blk = NoBlock =>
    \A m \in 1 .. CHUNK_DATA_SIZE :
      LET c == size2cls(m) IN cls2size[c] >= m /\ (c > 0 => cls2size[c - 1] < m)

\* A block lies with its header in what was mapped for it, and tr_free finds the
\* header from the block: the chunk's start, or the first multiple of CHUNK_SIZE
\* in a large block's mapping.
HeaderFound ==
  blk # NoBlock =>
    /\ HeaderOf(blk.addr) = (IF blk.large THEN blk.addr - HEADER ELSE blk.from)
    /\ HeaderOf(blk.addr) >= blk.from
    /\ blk.addr + (IF blk.large THEN Asked(blk.n) ELSE blk.size) <= blk.to

\* Whatever pointer into the data TR_Write and TR_Read get, the copies they touch
\* are three disjoint stretches of the block, and each has room for the data.
CopiesInside ==
  /\ \A r \in touched : r[1] >= blk.addr /\ r[2] < blk.addr + blk.size
  /\ \A r, s \in touched : r # s => r[2] < s[1] \/ s[2] < r[1]
  /\ blk # NoBlock => Third >= blk.n

=============================================================================
