------------------------------ MODULE SmallHeap ------------------------------
(***************************************************************************)
(* Small blocks in memmalloc: thread caches (l_cache), small heaps         *)
(* (s_pool) with their locks, one-page spans cut into blocks, and the list *)
(* of the global heap through which small heaps exchange spans.            *)
(*                                                                         *)
(* A step of a thread is what it does between two points where another     *)
(* thread can change what it sees: taking a pool lock, reading span->spool *)
(* without it, or a section under mpool.lock.  Lists are sets: the code    *)
(* adds and takes at the head, the model takes any member.                 *)
(***************************************************************************)
EXTENDS Integers, FiniteSets

CONSTANTS
  Threads,
  S_POOL_NUM,             \* number of small heaps
  PAGE_SIZE, HEADER_SIZE, \* bytes of a page, and of the l_span at its start
  SMALL_GAP,              \* step between block sizes
  Sizes,                  \* sizes that the application asks for
  bn,                     \* blocks moved into a cache at once; it keeps 2 * bn
  INIT_S_POOL_SPAN_NUM,   \* pages of a small heap's chunk
  MPOOL_PAGES,            \* bound: pages of the global heap
  HELD_LIMIT,             \* bound: blocks that are held or lost at a time
  LOST_LIMIT              \* bound: blocks that ended threads took with them

ASSUME SmallAssumption ==
  /\ S_POOL_NUM \in Nat \ {0} /\ HELD_LIMIT \in Nat /\ LOST_LIMIT \in Nat
  /\ bn \in 1 .. 63   \* 2 * bn fits in a signed char
  /\ PAGE_SIZE \in Nat /\ HEADER_SIZE \in Nat /\ SMALL_GAP \in Nat \ {0}
  /\ HEADER_SIZE < PAGE_SIZE
  /\ INIT_S_POOL_SPAN_NUM \in Nat /\ MPOOL_PAGES \in Nat
  /\ INIT_S_POOL_SPAN_NUM <= MPOOL_PAGES

SMALL_BLOCK == PAGE_SIZE - HEADER_SIZE

ASSUME SizesAssumption == Sizes \subseteq 1 .. SMALL_BLOCK

Pools  == 1 .. S_POOL_NUM
First  == S_POOL_NUM        \* list_add puts the last pool created first
Pages  == 0 .. MPOOL_PAGES - 1
NoPool == 0
NoOne  == "none"            \* owner of a free lock
NoSpan == -1

ASSUME ThreadsAssumption == NoOne \notin Threads /\ IsFiniteSet(Threads)

\* maps_init and size_cls: the class of a size, and the blocks that
\* span_cut_block gets out of a page for it.
size_cls(size) == (size - 1) \div SMALL_GAP
Classes        == {size_cls(size) : size \in Sizes}
Count(i)       == (PAGE_SIZE - HEADER_SIZE) \div ((i + 1) * SMALL_GAP)
Block(s, i, k) == [span |-> s, class |-> i, num |-> k]

\* Mutant: the loop of span_cut_block runs to i <= count.
CutOneMore(s, i) == {Block(s, i, k) : k \in 0 .. Count(i)}

Cut(s, i)      == {Block(s, i, k) : k \in 1 .. Count(i)}
Blocks         == UNION {Cut(s, i) : s \in Pages, i \in Classes}

\* The address of a thread's own list head, which taking from an empty list returns.
HeadOf(t, i)   == Block(NoSpan, i, t)
Heads          == {HeadOf(t, i) : t \in Threads, i \in Classes}
NoBlock        == Block(NoSpan, NoSpan, 0)

\* The bytes of a block, from the start of the heap on: span_cut_block starts
\* after the header and goes on in steps of the class's block size.
Bytes(b) ==
  LET size == (b.class + 1) * SMALL_GAP
  IN [first |-> b.span * PAGE_SIZE + HEADER_SIZE + (b.num - 1) * size, units |-> size]

\* A value stored in the signed char block_num.
Char(x) == ((x + 128) % 256) - 128

VARIABLES
  free_start,       \* mpool.free_start, in pages
  mpool_list,       \* mpool.span_free_list[0]
  inited, s_free, s_end, span_free_list, lock,   \* s_pool
  spool, block_index, total_block_num, free_block_num, block_free_list,  \* l_span
  ready,            \* thread_state = INITED
  lcache, block_num,\* l_cache: free_list and block_num
  held,             \* pointers the application has and has not freed
  lost,             \* blocks that were in the cache of a thread that ended
  pc, index, cur, ptr, target,   \* locals of the call a thread is in
  crashed           \* the process died of a null pointer write

mpool  == <<free_start, mpool_list>>
pools  == <<inited, s_free, s_end, span_free_list>>
spans  == <<spool, block_index, total_block_num, free_block_num, block_free_list>>
caches == <<ready, lcache, block_num>>
locals == <<pc, index, cur, ptr, target>>
vars   == <<mpool, pools, lock, spans, caches, held, lost, locals, crashed>>

-----------------------------------------------------------------------------
\* After global_init: pool 1 has its chunk, the other pools are not initialised.
Init ==
  /\ free_start = INIT_S_POOL_SPAN_NUM /\ mpool_list = {}
  /\ inited = [p \in Pools |-> p = 1]
  /\ s_free = [p \in Pools |-> 0]
  /\ s_end = [p \in Pools |-> IF p = 1 THEN INIT_S_POOL_SPAN_NUM ELSE 0]
  /\ span_free_list = [p \in Pools |-> [i \in Classes |-> {}]]
  /\ lock = [p \in Pools |-> NoOne]
  /\ spool = [s \in Pages |-> NoPool]
  /\ block_index = [s \in Pages |-> -1]
  /\ total_block_num = [s \in Pages |-> 0]
  /\ free_block_num = [s \in Pages |-> 0]
  /\ block_free_list = [s \in Pages |-> {}]
  /\ ready = [t \in Threads |-> FALSE]
  /\ lcache = [t \in Threads |-> [i \in Classes |-> {}]]
  /\ block_num = [t \in Threads |-> [i \in Classes |-> 0]]
  /\ held = {} /\ lost = {}
  /\ pc = [t \in Threads |-> "idle"]
  /\ index = [t \in Threads |-> 0]
  /\ cur = [t \in Threads |-> First]
  /\ ptr = [t \in Threads |-> NoBlock]
  /\ target = [t \in Threads |-> NoPool]
  /\ crashed = FALSE

Goto(t, label) == pc' = [pc EXCEPT ![t] = label]

-----------------------------------------------------------------------------
(* mem_malloc: check_init and small_malloc *)

\* Blocks that calls under way will add to held.
Pending == {t \in Threads : pc[t] \in {"scan", "wait", "init", "refill"}}

\* From the cache if it has a block, else the scan of the pools begins.
Malloc(t, size) ==
  LET i == size_cls(size) IN
  /\ pc[t] = "idle"
  /\ Cardinality(held \cup lost) + Cardinality(Pending) < HELD_LIMIT
  /\ ready' = [ready EXCEPT ![t] = TRUE]
  /\ \/ /\ \E b \in lcache[t][i] :
             /\ lcache' = [lcache EXCEPT ![t][i] = @ \ {b}]
             /\ held' = held \cup {b}
        /\ block_num' = [block_num EXCEPT ![t][i] = Char(@ - 1)]
        /\ UNCHANGED locals
     \/ /\ lcache[t][i] = {}
        /\ Goto(t, "scan")
        /\ index' = [index EXCEPT ![t] = i]
        /\ cur' = [cur EXCEPT ![t] = First]
        /\ UNCHANGED <<lcache, block_num, held, ptr, target>>
  /\ UNCHANGED <<mpool, pools, lock, spans, lost, crashed>>

\* Mutants: the loop tries one pool less than there are, or one more.
BusyOneLess(t) ==
  IF cur[t] > 2 THEN cur' = [cur EXCEPT ![t] = @ - 1] /\ UNCHANGED pc
                ELSE cur' = [cur EXCEPT ![t] = First] /\ Goto(t, "wait")

BusyOneMore(t) ==
  IF cur[t] >= 1 THEN cur' = [cur EXCEPT ![t] = @ - 1] /\ UNCHANGED pc
                 ELSE cur' = [cur EXCEPT ![t] = First] /\ Goto(t, "wait")

\* The pool is taken: on to the next one, and after the last one the thread
\* waits for the first.
Busy(t) ==
  IF cur[t] > 1 THEN cur' = [cur EXCEPT ![t] = @ - 1] /\ UNCHANGED pc
                ELSE cur' = [cur EXCEPT ![t] = First] /\ Goto(t, "wait")

\* Mutant: inited the other way round, as the comment in memmalloc.h:77 has it.
EnterReversed(p) == IF inited[p] THEN "init" ELSE "refill"

\* What the thread does first with a pool that it could lock.
Enter(p) == IF inited[p] THEN "refill" ELSE "init"

\* pthread_mutex_trylock on the next pool.
TryLock(t) ==
  LET p == cur[t] IN
  /\ pc[t] = "scan"
  /\ \/ /\ lock[p] = NoOne
        /\ lock' = [lock EXCEPT ![p] = t]
        /\ Goto(t, Enter(p))
        /\ UNCHANGED cur
     \/ /\ lock[p] # NoOne
        /\ Busy(t)
        /\ UNCHANGED lock
  /\ UNCHANGED <<mpool, pools, spans, caches, held, index, ptr, target, lost, crashed>>

\* The wait does not look at inited.
WaitLock(t) ==
  /\ pc[t] = "wait"
  /\ lock[cur[t]] = NoOne
  /\ lock' = [lock EXCEPT ![cur[t]] = t]
  /\ Goto(t, "refill")
  /\ UNCHANGED <<mpool, pools, spans, caches, held, index, cur, ptr, target, lost, crashed>>

\* s_pool_init of a pool that is used for the first time.
SPoolInit(t) ==
  LET p == cur[t] IN
  /\ pc[t] = "init"
  /\ free_start + INIT_S_POOL_SPAN_NUM <= MPOOL_PAGES
  /\ s_free' = [s_free EXCEPT ![p] = free_start]
  /\ s_end' = [s_end EXCEPT ![p] = free_start + INIT_S_POOL_SPAN_NUM]
  /\ free_start' = free_start + INIT_S_POOL_SPAN_NUM
  /\ inited' = [inited EXCEPT ![p] = TRUE]
  /\ Goto(t, "refill")
  /\ UNCHANGED <<mpool_list, span_free_list, lock, spans, caches, held, index, cur, ptr,
                 target, lost, crashed>>

\* Mutants: the global heap does not advance free_start, or leaves the span it
\* gives in its list.
NewSpanAgain(p, s) ==
  \/ /\ s_free[p] + 1 <= s_end[p]
     /\ s = s_free[p]
     /\ s_free' = [s_free EXCEPT ![p] = @ + 1]
     /\ UNCHANGED mpool
  \/ /\ s_free[p] + 1 > s_end[p]
     /\ \/ /\ free_start + 1 <= MPOOL_PAGES
           /\ s = free_start
           /\ UNCHANGED mpool
        \/ /\ free_start + 1 > MPOOL_PAGES
           /\ s \in mpool_list
           /\ mpool_list' = mpool_list \ {s}
           /\ UNCHANGED free_start
     /\ UNCHANGED s_free

NewSpanListed(p, s) ==
  \/ /\ s_free[p] + 1 <= s_end[p]
     /\ s = s_free[p]
     /\ s_free' = [s_free EXCEPT ![p] = @ + 1]
     /\ UNCHANGED mpool
  \/ /\ s_free[p] + 1 > s_end[p]
     /\ \/ /\ free_start + 1 <= MPOOL_PAGES
           /\ s = free_start
           /\ free_start' = free_start + 1
           /\ UNCHANGED mpool_list
        \/ /\ free_start + 1 > MPOOL_PAGES
           /\ s \in mpool_list
           /\ UNCHANGED mpool
     /\ UNCHANGED s_free

\* A one-page span for pool p: from its chunk, then fresh from the global
\* heap, then from the global heap's list.
NewSpan(p, s) ==
  \/ /\ s_free[p] + 1 <= s_end[p]
     /\ s = s_free[p]
     /\ s_free' = [s_free EXCEPT ![p] = @ + 1]
     /\ UNCHANGED mpool
  \/ /\ s_free[p] + 1 > s_end[p]
     /\ \/ /\ free_start + 1 <= MPOOL_PAGES
           /\ s = free_start
           /\ free_start' = free_start + 1
           /\ UNCHANGED mpool_list
        \/ /\ free_start + 1 > MPOOL_PAGES
           /\ s \in mpool_list
           /\ mpool_list' = mpool_list \ {s}
           /\ UNCHANGED free_start
     /\ UNCHANGED s_free

\* Mutant: a span stays in its pool's list when its last block is taken.
RelistAlways(p, i, s, free) == [span_free_list EXCEPT ![p][i] = @ \cup {s}]

\* The pool's list holds s as long as it has a block.
Relist(p, i, s, free) ==
  [span_free_list EXCEPT ![p][i] = IF free = 0 THEN @ \ {s} ELSE @ \cup {s}]

\* Mutant: small_malloc returns without pthread_mutex_unlock.
LeaveLocked(t) == Goto(t, "idle") /\ UNCHANGED lock

Leave(t) == Goto(t, "idle") /\ lock' = [lock EXCEPT ![cur[t]] = NoOne]

\* Moves blocks of s to the cache, unlinks s when it has none left, unlocks
\* the pool and returns the first block.  list and free are what the span has
\* at that point, total the number it was cut into.
Deliver(t, s, list, free, total) ==
  LET i == index[t]
      n == IF free < bn THEN free ELSE bn
  IN \E taken \in SUBSET list :
       /\ Cardinality(taken) = n
       /\ block_free_list' = [block_free_list EXCEPT ![s] = list \ taken]
       /\ free_block_num' = [free_block_num EXCEPT ![s] = free - n]
       /\ total_block_num' = [total_block_num EXCEPT ![s] = total]
       /\ span_free_list' = Relist(cur[t], i, s, free - n)
       /\ block_num' = [block_num EXCEPT ![t][i] = Char(@ + n - 1)]
       /\ \/ \E b \in taken : /\ lcache' = [lcache EXCEPT ![t][i] = taken \ {b}]
                              /\ held' = held \cup {b}
          \/ taken = {} /\ held' = held \cup {HeadOf(t, i)} /\ UNCHANGED lcache
       /\ Leave(t)

\* block_get_from_spool
Refill(t) ==
  LET i == index[t]
      p == cur[t]
  IN /\ pc[t] = "refill"
     /\ \/ \E s \in span_free_list[p][i] :
             /\ Deliver(t, s, block_free_list[s], free_block_num[s], total_block_num[s])
             /\ UNCHANGED <<mpool, s_free, spool, block_index>>
        \/ /\ span_free_list[p][i] = {}
           /\ \E s \in Pages :
                /\ NewSpan(p, s)
                /\ spool' = [spool EXCEPT ![s] = p]
                /\ block_index' = [block_index EXCEPT ![s] = i]
                /\ Deliver(t, s, block_free_list[s] \cup Cut(s, i), Count(i), Count(i))
     /\ UNCHANGED <<inited, s_end, ready, lost, index, cur, ptr, target, crashed>>

-----------------------------------------------------------------------------
(* mem_free of a small block: small_block_free *)

\* A thread that has not called mem_malloc has zero memory for a cache:
\* list_add follows a null pointer.
FreeUnready(t, b) ==
  /\ pc[t] = "idle" /\ b.span # NoSpan
  /\ ~ready[t]
  /\ crashed' = TRUE
  /\ UNCHANGED <<mpool, pools, lock, spans, caches, held, lost, locals>>

\* Mutant: <= for < in the comparison of block_num with 2 * bn.
FullLater(t, i) == block_num[t][i] > 2 * bn

\* The cache of t takes no more blocks of class i.
CacheFull(t, i) == block_num[t][i] >= 2 * bn

\* Into the cache of the freeing thread, as long as it is not full.
FreeToCache(t, b) ==
  LET i == block_index[b.span] IN
  /\ pc[t] = "idle" /\ b.span # NoSpan
  /\ ready[t]
  /\ ~CacheFull(t, i)
  /\ lcache' = [lcache EXCEPT ![t][i] = @ \cup {b}]
  /\ block_num' = [block_num EXCEPT ![t][i] = Char(@ + 1)]
  /\ held' = held \ {b}
  /\ UNCHANGED <<mpool, pools, lock, spans, ready, locals, lost, crashed>>

\* Else to the pool of its span, whose lock comes first.
FreeToPool(t, b) ==
  LET i == block_index[b.span] IN
  /\ pc[t] = "idle" /\ b.span # NoSpan
  /\ ready[t]
  /\ CacheFull(t, i)
  /\ Goto(t, "flock")
  /\ index' = [index EXCEPT ![t] = i]
  /\ ptr' = [ptr EXCEPT ![t] = b]
  /\ target' = [target EXCEPT ![t] = spool[b.span]]
  /\ held' = held \ {b}
  /\ UNCHANGED <<mpool, pools, lock, spans, caches, cur, lost, crashed>>

\* A list head lies outside the heap: mem_free takes it for a huge block, and
\* munmap refuses the address.
FreeHead(t, b) ==
  /\ pc[t] = "idle" /\ b.span = NoSpan
  /\ held' = held \ {b}
  /\ UNCHANGED <<mpool, pools, lock, spans, caches, locals, lost, crashed>>

Free(t, b) == FreeUnready(t, b) \/ FreeToCache(t, b) \/ FreeToPool(t, b) \/ FreeHead(t, b)

FreeLock(t) ==
  /\ pc[t] = "flock"
  /\ lock[target[t]] = NoOne
  /\ lock' = [lock EXCEPT ![target[t]] = t]
  /\ Goto(t, "fput")
  /\ UNCHANGED <<mpool, pools, spans, caches, held, index, cur, ptr, target, lost, crashed>>

\* Back into its span; the span into its pool's list when it was empty, and
\* into the global heap's list when it is complete.
FreePut(t) ==
  LET s    == ptr[t].span
      free == free_block_num[s] + 1
      full == free = total_block_num[s]
  IN /\ pc[t] = "fput"
     /\ free_block_num' = [free_block_num EXCEPT ![s] = free]
     /\ block_free_list' = [block_free_list EXCEPT ![s] = IF full THEN {} ELSE @ \cup {ptr[t]}]
     /\ span_free_list' = IF free = 1
                          THEN [span_free_list EXCEPT ![spool[s]][index[t]] = @ \cup {s}]
                          ELSE span_free_list
     /\ mpool_list' = IF full THEN mpool_list \cup {s} ELSE mpool_list
     /\ Goto(t, "freread")
     /\ UNCHANGED <<free_start, inited, s_free, s_end, lock, spool, block_index, total_block_num,
                    caches, held, index, cur, ptr, target, lost, crashed>>

\* The last line locks span->spool->lock once more: it reads span->spool ...
FreeReread(t) ==
  /\ pc[t] = "freread"
  /\ target' = [target EXCEPT ![t] = spool[ptr[t].span]]
  /\ Goto(t, "frelock")
  /\ UNCHANGED <<mpool, pools, lock, spans, caches, held, index, cur, ptr, lost, crashed>>

\* ... and locks what it found; the thread waits for itself if that is still
\* the pool it has.  Nothing unlocks either lock.
FreeRelock(t) ==
  /\ pc[t] = "frelock"
  /\ lock[target[t]] = NoOne
  /\ lock' = [lock EXCEPT ![target[t]] = t]
  /\ Goto(t, "idle")
  /\ ptr' = [ptr EXCEPT ![t] = NoBlock]
  /\ UNCHANGED <<mpool, pools, spans, caches, held, index, cur, target, lost, crashed>>

-----------------------------------------------------------------------------
\* The thread ends between two calls: lcache is thread-local and nothing gives
\* its blocks back.  A thread that is created later starts with zero memory.
Exit(t) ==
  LET cached == UNION {lcache[t][i] : i \in Classes} IN
  /\ pc[t] = "idle" /\ ready[t]
  /\ Cardinality(lost \cup cached) <= LOST_LIMIT
  /\ ready' = [ready EXCEPT ![t] = FALSE]
  /\ lcache' = [lcache EXCEPT ![t] = [i \in Classes |-> {}]]
  /\ block_num' = [block_num EXCEPT ![t] = [i \in Classes |-> 0]]
  /\ lost' = lost \cup cached
  /\ UNCHANGED <<mpool, pools, lock, spans, held, locals, crashed>>

\* A step of the call that t is in.
Step(t) ==
  \/ TryLock(t) \/ WaitLock(t) \/ SPoolInit(t) \/ Refill(t)
  \/ FreeLock(t) \/ FreePut(t) \/ FreeReread(t) \/ FreeRelock(t)

Next ==
  /\ ~crashed
  /\ \E t \in Threads : \/ \E size \in Sizes : Malloc(t, size)
                        \/ \E b \in held : Free(t, b)
                        \/ Exit(t)
                        \/ Step(t)

Spec == Init /\ [][Next]_vars

\* The scheduler runs every thread that can go on; a mutex promises no order.
FairSpec == Spec /\ \A t \in Threads : WF_vars(~crashed /\ Step(t))

-----------------------------------------------------------------------------
(* Properties *)

Cached   == UNION {lcache[t][i] : t \in Threads, i \in Classes}
Freeing  == {t \in Threads : pc[t] \in {"flock", "fput"}}
InFlight == {ptr[t] : t \in Freeing}

\* The blocks that are in no span's list.
Outstanding == (held \cup Cached \cup InFlight \cup lost) \cap Blocks

\* No one will unlock p again: its owner locked it in small_block_free.
Frozen(p) ==
  /\ lock[p] # NoOne
  /\ ~(cur[lock[p]] = p /\ pc[lock[p]] \in {"init", "refill"})

Labels == {"idle", "scan", "wait", "init", "refill", "flock", "fput", "freread", "frelock"}

\* The type of every variable.
TypeOK ==
  /\ free_start \in 0 .. MPOOL_PAGES /\ mpool_list \subseteq Pages
  /\ inited \in [Pools -> BOOLEAN]
  /\ s_free \in [Pools -> 0 .. MPOOL_PAGES] /\ s_end \in [Pools -> 0 .. MPOOL_PAGES]
  /\ span_free_list \in [Pools -> [Classes -> SUBSET Pages]]
  /\ lock \in [Pools -> Threads \cup {NoOne}]
  /\ spool \in [Pages -> Pools \cup {NoPool}]
  /\ block_index \in [Pages -> Classes \cup {-1}]
  /\ total_block_num \in [Pages -> Nat] /\ free_block_num \in [Pages -> Nat]
  /\ block_free_list \in [Pages -> SUBSET Blocks]
  /\ ready \in [Threads -> BOOLEAN]
  /\ lcache \in [Threads -> [Classes -> SUBSET Blocks]]
  /\ block_num \in [Threads -> [Classes -> -128 .. 127]]
  /\ held \subseteq Blocks \cup Heads /\ lost \subseteq Blocks
  /\ pc \in [Threads -> Labels]
  /\ index \in [Threads -> Classes \cup {0}]
  /\ cur \in [Threads -> Pools]
  /\ ptr \in [Threads -> Blocks \cup {NoBlock}]
  /\ target \in [Threads -> Pools \cup {NoPool}]
  /\ crashed \in BOOLEAN

\* A block is in one place: with the application, in one cache, in one call of
\* mem_free, lost with a thread, or in its span's list.  No schedule hands one
\* block out twice, nor one that was lost.
BlocksExclusive ==
  /\ held \cap (Cached \cup InFlight) = {} /\ Cached \cap InFlight = {}
  /\ lost \cap (held \cup Cached \cup InFlight) = {}
  /\ \A t, u \in Threads : \A i, j \in Classes :
       <<t, i>> # <<u, j>> => lcache[t][i] \cap lcache[u][j] = {}
  /\ \A t, u \in Freeing : t # u => ptr[t] # ptr[u]
  /\ \A s \in Pages : block_free_list[s] \cap Outstanding = {}

\* As long as a block is out, its span stays cut the way the block was cut and
\* out of the global heap's list: a span is not recycled under a block.
BlocksCurrent ==
  \A b \in Outstanding : /\ b.class = block_index[b.span]
                         /\ b.span \notin mpool_list

\* What the application has are runs of bytes that nobody else has, whatever
\* size each was cut for: mem_malloc and mem_free of small blocks implement an
\* allocator of bytes.  A list head that the class without blocks returns is not
\* memory of the heap.
granted == {Bytes(b) : b \in held \cap Blocks}

BA == INSTANCE Allocator WITH held <- granted

ImplementsAllocator == BA!Spec

\* The counts of a span in use: what is in its list, and what is out; a span
\* that a thread took a block of with it is never complete again.
SpanAccounting ==
  \A s \in Pages \ mpool_list :
    /\ free_block_num[s] = Cardinality(block_free_list[s])
    /\ total_block_num[s] = free_block_num[s] + Cardinality({b \in Outstanding : b.span = s})

\* block_num is the length of the cache's list, and stays within 2 * bn.
CacheAccounting ==
  \A t \in Threads : \A i \in Classes : Count(i) > 0 =>
    /\ block_num[t][i] = Cardinality(lcache[t][i])
    /\ block_num[t][i] <= 2 * bn

\* A pool that can still be used lists exactly the spans of its own that have
\* free blocks, under the class they are cut for.
PoolListsSound ==
  \A p \in Pools : ~Frozen(p) => \A i \in Classes :
    span_free_list[p][i] = {s \in Pages \ mpool_list : /\ spool[s] = p
                                                       /\ block_index[s] = i
                                                       /\ free_block_num[s] > 0}

\* Whoever takes blocks from a pool finds it initialised, although the thread
\* that waits for the first pool does not look.
FallbackInited == \A t \in Threads : pc[t] = "refill" => inited[cur[t]]

\* The pool that mem_free reads from the span without a lock is still the
\* span's pool when the lock is granted.
TargetStable == \A t \in Freeing : target[t] = spool[ptr[t].span]

\* A thread waits for the first pool only if some pool is frozen or there are
\* more threads than pools, although it sees the locks at different times.
NoNeedlessWait ==
  \/ Cardinality(Threads) > S_POOL_NUM
  \/ \E p \in Pools : Frozen(p)
  \/ \A t \in Threads : pc[t] # "wait"

\* The two known ways to stop for good: a free into a full cache keeps its
\* locks, and a crash ends the process.
Stopped == crashed \/ \E t \in Threads : pc[t] = "flock"

\* Apart from these, every pool lock that a thread takes is given back.
LocksReleased ==
  []~Stopped => \A p \in Pools : \A t \in Threads : (lock[p] = t) ~> (lock[p] # t)

\* ... and every mem_malloc returns, if there is a pool for every thread.
MallocReturns ==
  []~Stopped => \A t \in Threads : (pc[t] = "scan") ~> (pc[t] = "idle")

\* mem_free returns (doc/TEST.md:30, single_thread_test2, "allocates 100000
\* times and then frees: whether it executes correctly").
FreeReturns == \A t \in Threads : (pc[t] = "flock") ~> (pc[t] = "idle")

=============================================================================
