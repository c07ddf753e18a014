--------------------------------- MODULE Api ---------------------------------
(***************************************************************************)
(* The calls of memmalloc and their sizes: what mem_malloc asks for in each *)
(* build, which of the three allocators serves it, what the header says of *)
(* the block, and what mem_free, mem_calloc, mem_realloc, MEM_Write and     *)
(* data_block_init make of that header.  One block is followed through its  *)
(* calls: the sizes of two blocks have nothing to do with each other.      *)
(***************************************************************************)
EXTENDS Integers, FiniteSets

CONSTANTS
  Builds,     \* compiled with -DTMR, with -DSEU, or with neither
  Sizes,      \* sizes that the application asks for
  SIZE_MAX    \* the largest size_t

PAGE_SIZE      == 4096
HEADER         == 72      \* sizeof(l_span)
SMALL_GAP      == 16
SPAN_CLASS_NUM == 256
SMALL_BLOCK    == PAGE_SIZE - HEADER
LARGE_BLOCK    == 256 * PAGE_SIZE

ASSUME ApiAssumption ==
  /\ Builds \subseteq {"plain", "TMR", "SEU"}
  /\ SIZE_MAX \in Nat /\ SIZE_MAX > 4 * LARGE_BLOCK
  /\ Sizes \subseteq 0 .. SIZE_MAX

VARIABLES
  build,
  block,      \* the size asked for and the header
  held,       \* the application has the block
  crashed     \* the process died of a null pointer or of a wild index

vars == <<build, block, held, crashed>>

-----------------------------------------------------------------------------
(* mem_malloc *)

Copies == IF build = "TMR" THEN 3 ELSE IF build = "SEU" THEN 2 ELSE 1
Parity == IF build = "SEU" THEN 1 ELSE 0   \* bytes of a copy

\* Mutant: no room for the parity bytes.
Doubled(n) == n * Copies

\* The bytes for n bytes of data, before they are cut to the width of size_t.
Asked(n) == (n + Parity) * Copies
Wraps(n) == Asked(n) > SIZE_MAX
Need(n)  == Asked(n) % (SIZE_MAX + 1)

size_cls(m) == (m - 1) \div SMALL_GAP

\* Mutant: rounded up before the last page is added.
SpanPagesRounded(m) == (m + HEADER + PAGE_SIZE - 1) \div PAGE_SIZE + 1

\* large_malloc's index, and the pages of its span.
SpanPages(m) == (m + HEADER) \div PAGE_SIZE + 1

\* What the header of a block for m bytes says: -1 for the index of a block that
\* is not small; page_num 0 stands for a huge block, which has no header but a
\* word that holds m.
BlockIndex(m) == IF m <= SMALL_BLOCK THEN size_cls(m) ELSE -1
PageNum(m)    == IF m <= SMALL_BLOCK THEN 1 ELSE IF m <= LARGE_BLOCK THEN SpanPages(m) ELSE 0

Header(n, m) == [n |-> n, m |-> m, kept |-> FALSE,
                 block_index |-> BlockIndex(m), page_num |-> PageNum(m)]

\* The last class gets no block out of a page and a list head for a pointer, which
\* SmallHeap follows and this module does not.
Served(m)  == (size_cls(m) + 1) * SMALL_GAP <= SMALL_BLOCK \/ m > SMALL_BLOCK
Routing(m) == IF m <= SMALL_BLOCK THEN "small" ELSE IF m <= LARGE_BLOCK THEN "large" ELSE "huge"

\* 0 bytes, after the product was cut, are a wild index into s_sizemap.
NewBlock(n) ==
  /\ n > 0
  /\ \/ /\ Need(n) = 0
        /\ crashed' = TRUE
        /\ UNCHANGED <<block, held>>
     \/ /\ Need(n) # 0 /\ Served(Need(n))
        /\ block' = Header(n, Need(n))
        /\ held' = TRUE
        /\ UNCHANGED crashed
  /\ UNCHANGED build

MemMalloc(n) == ~held /\ NewBlock(n)

\* The product is cut to the width of size_t, as Need does, before mem_malloc
\* sees it; a product of 0 gets nothing.
MemCalloc(num, size) == (num * size) % (SIZE_MAX + 1) # 0 /\ MemMalloc(num * size)

-----------------------------------------------------------------------------
(* mem_free *)

\* Mutant: < for <= in the test of page_num.
RoutedStrict(b) ==
  IF b.page_num = 0 THEN "huge" ELSE IF b.page_num = 1 THEN "small"
  ELSE IF b.page_num < SPAN_CLASS_NUM THEN "large" ELSE "none"

\* The branch that mem_free takes.
Routed(b) ==
  IF b.page_num = 0 THEN "huge" ELSE IF b.page_num = 1 THEN "small"
  ELSE IF b.page_num <= SPAN_CLASS_NUM THEN "large" ELSE "none"

MemFree ==
  /\ held /\ held' = FALSE
  /\ UNCHANGED <<build, block, crashed>>

-----------------------------------------------------------------------------
(* mem_realloc, which knows of no redundancy *)

\* The block is kept: what the code compares size with depends on size, not on
\* the kind of block.  Before a block that has a header lies an arbitrary word.
Keeps(b, n) ==
  IF n <= PAGE_SIZE THEN n <= (b.block_index + 1) * SMALL_GAP
  ELSE IF n <= LARGE_BLOCK THEN n <= b.page_num * PAGE_SIZE
  ELSE IF b.page_num = 0 THEN n <= b.m
  ELSE TRUE
Moves(b, n) == ~Keeps(b, n) \/ (n > LARGE_BLOCK /\ b.page_num # 0)

\* A huge block has no span to compare with; 0 bytes are a free.
Compares(n) == held /\ n > 0 /\ (n > LARGE_BLOCK \/ block.page_num # 0)

ReallocFree(n) == n = 0 /\ MemFree

ReallocCrash(n) ==
  /\ held /\ n > 0 /\ ~Compares(n)
  /\ crashed' = TRUE
  /\ UNCHANGED <<build, block, held>>

ReallocKeep(n) ==
  /\ Compares(n) /\ Keeps(block, n)
  /\ block' = [block EXCEPT !.n = n, !.kept = TRUE]
  /\ UNCHANGED <<build, held, crashed>>

\* The new block is returned and the old one neither freed nor returned; nothing
\* is copied into the new one.
ReallocMove(n) == Compares(n) /\ Moves(block, n) /\ NewBlock(n)

\* Without a block it is mem_malloc.
MemRealloc(n) ==
  MemMalloc(n) \/ ReallocFree(n) \/ ReallocCrash(n) \/ ReallocKeep(n) \/ ReallocMove(n)

-----------------------------------------------------------------------------
Init ==
  /\ build \in Builds
  /\ block = Header(1, 1)
  /\ held = FALSE /\ crashed = FALSE

Next ==
  /\ ~crashed
  /\ \/ \E n \in Sizes : MemMalloc(n) \/ MemRealloc(n)
     \/ \E num \in {2, 3}, n \in Sizes : MemCalloc(num, n)
     \/ MemFree

Spec == Init /\ [][Next]_vars

-----------------------------------------------------------------------------
(* Properties *)

\* The bytes that data_block_init sets, and those of a copy for MEM_Write, of a
\* block that has a header.  A huge block has none: bsize is then not set, and
\* MEM_Write does nothing.
Bytes(b)    == IF b.block_index # -1 THEN (b.block_index + 1) * SMALL_GAP
               ELSE b.page_num * PAGE_SIZE - HEADER
CopySize(b) == Bytes(b) \div Copies

\* The type of every variable.
TypeOK ==
  /\ build \in Builds
  /\ held \in BOOLEAN /\ crashed \in BOOLEAN
  /\ block \in [n : Nat, m : 1 .. SIZE_MAX, kept : BOOLEAN, block_index : -1 .. 251,
               page_num : 0 .. SPAN_CLASS_NUM + 1]

\* A small or large block that mem_malloc, mem_calloc or a moving mem_realloc
\* returns has room for every copy of the data with its parity byte, where MEM_Write
\* puts them, unless the bytes asked for do not fit in a size_t.
RoomForCopies ==
  held /\ ~block.kept /\ ~Wraps(block.n) /\ block.page_num # 0 =>
    CopySize(block) >= block.n + Parity

\* mem_free takes a block back to where it came from, although it decides by
\* the header and mem_malloc by the size; only a span one page longer than the
\* longest list goes nowhere.
FreeMatches ==
  Routed(block) = IF block.page_num = SPAN_CLASS_NUM + 1 THEN "none" ELSE Routing(block.m)

=============================================================================
