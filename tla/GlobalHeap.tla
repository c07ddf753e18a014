----------------------------- MODULE GlobalHeap -----------------------------
(***************************************************************************)
(* The page level of memmalloc: the global heap m_pool (fresh pages, span  *)
(* lists by size, the page-to-span map), the head pool that s_pool structs *)
(* are cut from, the chunks that small heaps reserve, and the spans that   *)
(* large_malloc and the small heaps hold.                                  *)
(*                                                                         *)
(* Addresses are page numbers counted from mpool.pool_start.  A span is    *)
(* named by its first page, where its l_span header lies.  A section under *)
(* mpool.lock is one action: nothing inside one blocks or takes a second   *)
(* lock.  mem_free reads span_map and page_num before it takes the lock,   *)
(* so a large free is two actions.                                         *)
(***************************************************************************)
EXTENDS Integers

CONSTANTS
  Threads,               \* threads that free large blocks
  S_POOL_NUM,            \* number of small heaps (s_pool_num_s)
  SPAN_CLASS_NUM,        \* number of span lists of the global heap
  POOL_PAGES,            \* POOL_SIZE in pages: what one mmap adds
  INIT_S_POOL_SPAN_NUM,  \* pages a small heap reserves when it is first used
  INIT_HEAD_SPAN_NUM,    \* pages the head pool reserves at a time
  HEADS_PER_GROW,        \* s_pool structs that fit in such a reservation
  LargeIndexes,          \* the (size + 72) / PAGE_SIZE of the large requests
  MAP_PAGES              \* bound: the entries of span_map, where growth stops

ASSUME CountAssumption ==
  /\ S_POOL_NUM \in Nat \ {0}
  /\ SPAN_CLASS_NUM \in Nat \ {0}
  /\ HEADS_PER_GROW \in Nat \ {0}
  /\ INIT_S_POOL_SPAN_NUM \in Nat \ {0}
  /\ INIT_HEAD_SPAN_NUM \in Nat \ {0}

\* A request above 4024 bytes and up to 1 MB needs 2 to 257 pages.
ASSUME LargeAssumption == LargeIndexes \subseteq 1 .. SPAN_CLASS_NUM

\* One mmap serves any single request of this module.
ASSUME PoolAssumption ==
  /\ POOL_PAGES \in Nat
  /\ MAP_PAGES \in Nat
  /\ POOL_PAGES <= MAP_PAGES
  /\ SPAN_CLASS_NUM + 1 <= POOL_PAGES
  /\ INIT_S_POOL_SPAN_NUM <= POOL_PAGES
  /\ INIT_HEAD_SPAN_NUM <= POOL_PAGES

Pools  == 1 .. S_POOL_NUM
Pages  == 0 .. MAP_PAGES - 1
NoSpan == -1             \* an entry of span_map that is still zero
Classes == 0 .. SPAN_CLASS_NUM - 1

VARIABLES
  free_start,      \* mpool.free_start: first page never handed out
  pool_end,        \* mpool.pool_end
  span_map,        \* mpool.span_map: page -> first page of its span
  page_num,        \* l_span.page_num of the header in a page, 0 where none is
  span_free_list,  \* mpool.span_free_list: class -> set of linked spans
  heads,           \* first pages of the head pool's reservations
  head_slots,      \* s_pool structs left in the latest reservation
  created,         \* s_pool structs handed out by s_pool_head_get
  inited,          \* s_pool.inited
  s_free,          \* s_pool.pool_free_start
  s_end,           \* s_pool.pool_end
  live,            \* large spans that the application holds a pointer into
  freeing,         \* span of a thread between mem_free's read and the link
  small,           \* pool -> spans that it has cut into blocks
  stuck            \* pools whose lock is never released again

mpool == <<free_start, pool_end, span_map, page_num, span_free_list>>
boot  == <<heads, head_slots, created>>
spool == <<inited, s_free, s_end, small, stuck>>
users == <<live, freeing>>
vars  == <<mpool, boot, spool, users>>

-----------------------------------------------------------------------------
(* Carving fresh pages. *)

Fits(n) == free_start + n <= pool_end

\* Mutant: the start of the new pool is rounded down instead of up.
BaseRoundedDown(n) == IF Fits(n) THEN free_start ELSE pool_end - 1

\* mpool_grow maps POOL_PAGES more at pool_end and moves free_start there,
\* so what is left below the old pool_end is never handed out.
Base(n) == IF Fits(n) THEN free_start ELSE pool_end

\* Mutant: free_start stops one page short.
CarveShort(n) ==
  /\ Fits(n) \/ pool_end + POOL_PAGES <= MAP_PAGES
  /\ free_start' = Base(n) + n - 1
  /\ pool_end' = IF Fits(n) THEN pool_end ELSE pool_end + POOL_PAGES

\* Takes n fresh pages from Base(n), growing the heap first if they do not fit.
Carve(n) ==
  /\ Fits(n) \/ pool_end + POOL_PAGES <= MAP_PAGES
  /\ free_start' = Base(n) + n
  /\ pool_end' = IF Fits(n) THEN pool_end ELSE pool_end + POOL_PAGES

-----------------------------------------------------------------------------
(* Start-up, inside pthread_once: nothing else runs until Booted. *)

Init ==
  /\ free_start = 0 /\ pool_end = POOL_PAGES
  /\ span_map = [i \in Pages |-> NoSpan]
  /\ page_num = [i \in Pages |-> 0]
  /\ span_free_list = [k \in Classes |-> {}]
  /\ heads = {} /\ head_slots = 0 /\ created = 0
  /\ inited = [p \in Pools |-> FALSE]
  /\ s_free = [p \in Pools |-> 0]
  /\ s_end = [p \in Pools |-> 0]
  /\ live = {}
  /\ freeing = [t \in Threads |-> NoSpan]
  /\ small = [p \in Pools |-> {}]
  /\ stuck = {}

HeadPoolGrow(slots) ==
  /\ Carve(INIT_HEAD_SPAN_NUM)
  /\ heads' = heads \cup {Base(INIT_HEAD_SPAN_NUM)}
  /\ head_slots' = slots
  /\ UNCHANGED <<span_map, page_num, span_free_list>>

\* m_head_pool_init
MHeadPoolInit ==
  /\ heads = {}
  /\ HeadPoolGrow(HEADS_PER_GROW)
  /\ UNCHANGED <<created, spool, users>>

\* Mutant: the loop over the pools runs once too often.
SPoolHeadGetOneMore ==
  /\ heads # {}
  /\ created <= S_POOL_NUM
  /\ created = 0 \/ inited[1]
  /\ \/ head_slots > 0 /\ head_slots' = head_slots - 1 /\ UNCHANGED <<heads, mpool>>
     \/ head_slots = 0 /\ HeadPoolGrow(HEADS_PER_GROW - 1)
  /\ created' = created + 1
  /\ UNCHANGED <<spool, users>>

\* s_pool_head_get, called by s_pool_list_init for one pool after the other;
\* the first pool is initialised before the second struct is fetched.
SPoolHeadGet ==
  /\ heads # {}
  /\ created < S_POOL_NUM
  /\ created = 0 \/ inited[1]
  /\ \/ head_slots > 0 /\ head_slots' = head_slots - 1 /\ UNCHANGED <<heads, mpool>>
     \/ head_slots = 0 /\ HeadPoolGrow(HEADS_PER_GROW - 1)
  /\ created' = created + 1
  /\ UNCHANGED <<spool, users>>

Booted == created = S_POOL_NUM /\ inited[1]

\* s_pool_init: pool 1 during start-up, any other pool by the first small
\* allocation that gets its lock.
SPoolInit(p) ==
  /\ ~inited[p]
  /\ IF p = 1 THEN created = 1 ELSE Booted
  /\ Carve(INIT_S_POOL_SPAN_NUM)
  /\ s_free' = [s_free EXCEPT ![p] = Base(INIT_S_POOL_SPAN_NUM)]
  /\ s_end' = [s_end EXCEPT ![p] = Base(INIT_S_POOL_SPAN_NUM) + INIT_S_POOL_SPAN_NUM]
  /\ inited' = [inited EXCEPT ![p] = TRUE]
  /\ UNCHANGED <<span_map, page_num, span_free_list, boot, small, stuck, users>>

-----------------------------------------------------------------------------
(* span_get_from_mpool *)

\* Mutant: the last page of a span is not mapped.
MappedShort(s, n) == [i \in Pages |-> IF i \in s .. s + n - 2 THEN s ELSE span_map[i]]

\* span_map after the n pages from s on are mapped to s.
Mapped(s, n) == [i \in Pages |-> IF i \in s .. s + n - 1 THEN s ELSE span_map[i]]

\* k is the first list, from class index on, that holds a span.
FirstClass(index, k) ==
  /\ k \in index .. SPAN_CLASS_NUM - 1
  /\ span_free_list[k] # {}
  /\ \A j \in index .. k - 1 : span_free_list[j] = {}

\* Mutant: span_init stores the index for the number of pages.
IndexOf(index) == index

\* The page_num that span_init gives the header of a span.
PageNum(index) == index + 1

\* A span of index + 1 fresh pages: the first choice while they fit, and
\* after mpool_grow the last one, when no list has a span long enough.
FreshSpan(index, s) ==
  /\ Fits(index + 1) \/ \A j \in index .. SPAN_CLASS_NUM - 1 : span_free_list[j] = {}
  /\ s = Base(index + 1)
  /\ Carve(index + 1)
  /\ span_map' = Mapped(s, index + 1)
  /\ page_num' = [page_num EXCEPT ![s] = PageNum(index)]
  /\ UNCHANGED span_free_list

\* Mutant: the span that is handed out stays linked.
StillLinked(k, s) == span_free_list

Unlinked(k, s) == [span_free_list EXCEPT ![k] = @ \ {s}]

\* Mutant: span_split does not shrink the span that it cuts.
SplitUncut(s, n, diff) == [page_num EXCEPT ![s + n] = diff]

\* The headers of the two spans that span_split makes.
Split(s, n, diff) == [page_num EXCEPT ![s] = n, ![s + n] = diff]

\* Mutant: the rest of a split goes to the list after its own.
RestClassShifted(diff) == diff

\* The list of the pages that are left over.
RestClass(diff) == diff - 1

\* A span from the first list that has one, cut by span_split: the pages it
\* does not need become a span of their own, linked under its size.
ListedSpan(index, s) ==
  /\ ~Fits(index + 1)
  /\ \E k \in Classes :
       /\ FirstClass(index, k)
       /\ s \in span_free_list[k]
       /\ LET n    == index + 1
              diff == page_num[s] - n
          IN IF diff > 0
             THEN /\ page_num' = Split(s, n, diff)
                  /\ span_map' = Mapped(s + n, diff)
                  /\ span_free_list' = [Unlinked(k, s) EXCEPT ![RestClass(diff)] = @ \cup {s + n}]
             ELSE /\ UNCHANGED <<page_num, span_map>>
                  /\ span_free_list' = Unlinked(k, s)
  /\ UNCHANGED <<free_start, pool_end>>

SpanGetFromMpool(index, s) == FreshSpan(index, s) \/ ListedSpan(index, s)

-----------------------------------------------------------------------------
(* Large blocks *)

LargeMalloc(index) ==
  /\ Booted
  /\ \E s \in Pages : SpanGetFromMpool(index, s) /\ live' = live \cup {s}
  /\ UNCHANGED <<boot, spool, freeing>>

\* Mutant: the largest size that has a list is taken for one that has none.
MemFreeStrict(t, s) ==
  /\ freeing[t] = NoSpan
  /\ live' = live \ {s}
  /\ LET h == span_map[s]
     IN \/ page_num[h] \in 2 .. SPAN_CLASS_NUM - 1 /\ freeing' = [freeing EXCEPT ![t] = h]
        \/ page_num[h] >= SPAN_CLASS_NUM /\ UNCHANGED freeing
  /\ UNCHANGED <<mpool, boot, spool>>

\* mem_free up to large_block_free, without a lock.  A header with more pages
\* than there are lists matches no branch, and the span is forgotten.
MemFree(t, s) ==
  /\ freeing[t] = NoSpan
  /\ live' = live \ {s}
  /\ LET h == span_map[s]
     IN \/ page_num[h] \in 2 .. SPAN_CLASS_NUM /\ freeing' = [freeing EXCEPT ![t] = h]
        \/ page_num[h] > SPAN_CLASS_NUM /\ UNCHANGED freeing
  /\ UNCHANGED <<mpool, boot, spool>>

LargeBlockFree(t) ==
  /\ freeing[t] # NoSpan
  /\ span_free_list' = [span_free_list EXCEPT ![page_num[freeing[t]] - 1] = @ \cup {freeing[t]}]
  /\ freeing' = [freeing EXCEPT ![t] = NoSpan]
  /\ UNCHANGED <<free_start, pool_end, span_map, page_num, boot, spool, live>>

-----------------------------------------------------------------------------
(* Small heaps: the part of block_get_from_spool and of small_block_free   *)
(* that moves pages.  SmallHeap models the rest.                           *)

\* The next page of the pool's chunk becomes a one-page span ...
ChunkSpan(p) ==
  /\ s_free[p] + 1 <= s_end[p]
  /\ s_free' = [s_free EXCEPT ![p] = @ + 1]
  /\ page_num' = [page_num EXCEPT ![s_free[p]] = 1]
  /\ span_map' = Mapped(s_free[p], 1)
  /\ small' = [small EXCEPT ![p] = @ \cup {s_free[p]}]
  /\ UNCHANGED <<free_start, pool_end, span_free_list>>

\* ... and when the chunk is used up, the global heap gives one.
HeapSpan(p) ==
  /\ s_free[p] + 1 > s_end[p]
  /\ \E s \in Pages : /\ SpanGetFromMpool(0, s)
                      /\ small' = [small EXCEPT ![p] = @ \cup {s}]
  /\ UNCHANGED s_free

SmallSpan(p) ==
  /\ Booted /\ inited[p] /\ p \notin stuck
  /\ ChunkSpan(p) \/ HeapSpan(p)
  /\ UNCHANGED <<boot, inited, s_end, stuck, users>>

\* small_block_free hands a span whose blocks are all back to the global heap.
\* It then locks the pool a second time instead of unlocking it, so it is the
\* last thing that ever happens to this pool.
SmallReturn(p, s) ==
  /\ p \notin stuck
  /\ s \in small[p]
  /\ small' = [small EXCEPT ![p] = @ \ {s}]
  /\ span_free_list' = [span_free_list EXCEPT ![page_num[s] - 1] = @ \cup {s}]
  /\ stuck' = stuck \cup {p}
  /\ UNCHANGED <<free_start, pool_end, span_map, page_num, boot, inited, s_free, s_end, users>>

Next ==
  \/ MHeadPoolInit
  \/ SPoolHeadGet
  \/ \E p \in Pools : SPoolInit(p) \/ SmallSpan(p)
  \/ \E p \in Pools : \E s \in small[p] : SmallReturn(p, s)
  \/ \E index \in LargeIndexes : LargeMalloc(index)
  \/ \E t \in Threads : \E s \in live : MemFree(t, s)
  \/ \E t \in Threads : LargeBlockFree(t)

Spec == Init /\ [][Next]_vars

-----------------------------------------------------------------------------
(* Properties *)

Spans     == {s \in Pages : span_map[s] = s}
SpanRun(s)   == s .. s + page_num[s] - 1
ChunkRest(p) == s_free[p] .. s_end[p] - 1
HeadRun(h)   == h .. h + INIT_HEAD_SPAN_NUM - 1
FreshRun     == free_start .. pool_end - 1

Listed     == UNION {span_free_list[k] : k \in Classes}
InFlight   == {freeing[t] : t \in Threads} \ {NoSpan}
SmallSpans == UNION {small[p] : p \in Pools}

\* The type of every variable.
TypeOK ==
  /\ free_start \in Nat /\ pool_end \in 0 .. MAP_PAGES
  /\ span_map \in [Pages -> Pages \cup {NoSpan}]
  /\ page_num \in [Pages -> 0 .. SPAN_CLASS_NUM + 1]
  /\ span_free_list \in [Classes -> SUBSET Pages]
  /\ heads \subseteq Pages /\ head_slots \in 0 .. HEADS_PER_GROW /\ created \in 0 .. S_POOL_NUM
  /\ inited \in [Pools -> BOOLEAN]
  /\ s_free \in [Pools -> Nat] /\ s_end \in [Pools -> Nat]
  /\ live \subseteq Pages
  /\ freeing \in [Threads -> Pages \cup {NoSpan}]
  /\ small \in [Pools -> SUBSET Pages]
  /\ stuck \subseteq Pools

\* Two spans share no page, whether they are held, listed or in flight: what
\* the carving, the splitting and the growth of the heap must keep.
SpansApart ==
  \A s, u \in Spans : s # u => SpanRun(s) \cap SpanRun(u) = {}

\* The pages a small heap has reserved and not used, the head pool's pages and
\* the fresh pages of the heap are no part of a span and of each other.
ReservesApart ==
  /\ \A s \in Spans : /\ SpanRun(s) \cap FreshRun = {}
                      /\ \A p \in Pools : SpanRun(s) \cap ChunkRest(p) = {}
                      /\ \A h \in heads : SpanRun(s) \cap HeadRun(h) = {}
  /\ \A p \in Pools : /\ ChunkRest(p) \cap FreshRun = {}
                      /\ \A q \in Pools \ {p} : ChunkRest(p) \cap ChunkRest(q) = {}
                      /\ \A h \in heads : ChunkRest(p) \cap HeadRun(h) = {}
  /\ \A h \in heads : /\ HeadRun(h) \cap FreshRun = {}
                      /\ \A g \in heads \ {h} : HeadRun(h) \cap HeadRun(g) = {}

\* span_map leads from every page of a span to its header, so mem_free finds
\* the header from any pointer into the span; it must survive every split.
MapCorrect ==
  \A s \in live \cup SmallSpans \cup InFlight \cup Listed :
    /\ page_num[s] > 0
    /\ \A i \in SpanRun(s) : i \in Pages /\ span_map[i] = s

\* A span is in one place: with the application, in one small heap, on its way
\* back in one thread, or linked in one list.
OnePlace ==
  /\ live \cap (SmallSpans \cup InFlight \cup Listed) = {}
  /\ SmallSpans \cap (InFlight \cup Listed) = {}
  /\ InFlight \cap Listed = {}
  /\ \A j, k \in Classes : j # k => span_free_list[j] \cap span_free_list[k] = {}
  /\ \A p, q \in Pools : p # q => small[p] \cap small[q] = {}
  /\ \A t, u \in Threads : t # u /\ freeing[t] # NoSpan => freeing[t] # freeing[u]

\* A listed span has the size of its list, which is what a request that takes
\* the head of the list relies on.
ListedSizes ==
  \A k \in Classes : \A s \in span_free_list[k] : page_num[s] = k + 1

\* No span that a list exists for is lost: it is in one of the places.
SpansAccounted ==
  \A s \in Spans :
    page_num[s] <= SPAN_CLASS_NUM => s \in live \cup SmallSpans \cup InFlight \cup Listed

\* The header that mem_free reads without a lock does not move or change size
\* as long as the block is held, whatever other threads split or return.
HeaderStable ==
  [][\A s \in live \cup SmallSpans :
       s \in live' \cup SmallSpans' =>
         /\ page_num'[s] = page_num[s]
         /\ \A i \in SpanRun(s) : span_map'[i] = span_map[i]]_vars

\* The spans that clients hold, as grants of a page allocator.
granted == {[first |-> s, units |-> page_num[s]] : s \in live \cup SmallSpans}

PA == INSTANCE Allocator WITH held <- granted

\* The global heap keeps the promise of a page allocator.
ImplementsPageAllocator == PA!Spec

=============================================================================
