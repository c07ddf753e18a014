--------------------------- MODULE SmallHeapProofs ---------------------------
(***************************************************************************)
(* Proofs about SmallHeap, in four parts.                                  *)
(*   1. The types of its variables, and that a thread finds every pool     *)
(*      that it takes blocks from initialised, although the thread that    *)
(*      waits for the first pool does not look.                            *)
(*   2. No block is handed out twice, a span is not recycled under a       *)
(*      block, the counts of spans and caches are right, and a free finds  *)
(*      the pool of its span.  The invariant says of every span that its   *)
(*      list and the blocks that are out make up what it is cut into.      *)
(*   3. No thread waits for the first pool as long as no pool is frozen    *)
(*      and there is a pool for every thread.  All threads scan in the     *)
(*      same order, and one moves on only past a pool whose owner is       *)
(*      behind it: so there is always room for those ahead.                *)
(*   4. The application's blocks are runs of bytes that nobody else has:   *)
(*      small blocks implement Allocator.                                  *)
(***************************************************************************)
EXTENDS SmallHeap, FiniteSetTheorems, TLAPS

\* A page that was cut belongs to a pool, and the pool is initialised.
CutInv ==
  \A s \in Pages :
    /\ block_index[s] \in Classes => spool[s] \in Pools /\ inited[spool[s]]
    /\ \A b \in block_free_list[s] : b.span = s /\ block_index[s] \in Classes

\* Every block that is out comes from a page that was cut.
OutInv ==
  /\ \A b \in held : b \in Blocks => block_index[b.span] \in Classes
  /\ \A t \in Threads : \A i \in Classes : \A b \in lcache[t][i] : block_index[b.span] \in Classes

\* The calls of mem_free between their two locks.
FreeingInv ==
  \A t \in Threads : pc[t] \in {"flock", "fput", "freread", "frelock"} =>
    /\ index[t] \in Classes
    /\ ptr[t] \in Blocks /\ block_index[ptr[t].span] \in Classes
    /\ target[t] \in Pools /\ inited[target[t]]

\* A call of mem_malloc has the lock of the pool that it initialises or takes
\* blocks from, and a pool that is locked is initialised or about to be.
LockInv ==
  /\ \A t \in Threads :
       /\ pc[t] \in {"init", "refill"} => lock[cur[t]] = t
       /\ pc[t] = "refill" => inited[cur[t]]
       /\ pc[t] \in {"scan", "wait", "init", "refill"} => index[t] \in Classes
  /\ \A p \in Pools : lock[p] # NoOne =>
       inited[p] \/ (pc[lock[p]] = "init" /\ cur[lock[p]] = p)

\* A thread that left the first pool behind found it locked: since then it has
\* stayed locked or was initialised.
PassedInv ==
  \A t \in Threads :
    /\ pc[t] = "wait" => cur[t] = First
    /\ pc[t] = "wait" \/ (pc[t] = "scan" /\ cur[t] # First) => inited[First] \/ lock[First] # NoOne

\* The invariant of the first part.
IInv == TypeOK /\ CutInv /\ OutInv /\ FreeingInv /\ LockInv /\ PassedInv

-----------------------------------------------------------------------------
\* The scan begins at a pool.
LEMMA FirstPool == First \in Pools /\ NoPool \notin Pools
  BY SmallAssumption DEF First, Pools, NoPool

\* A class is the number of its size.
LEMMA ClassesNat == Classes \subseteq Nat
<1> SUFFICES ASSUME NEW size \in Sizes PROVE size_cls(size) \in Nat
  BY DEF Classes
<1>1. size \in Nat /\ size >= 1
  BY SizesAssumption, SmallAssumption DEF SMALL_BLOCK
<1> QED
  BY <1>1, SmallAssumption DEF size_cls

\* A page is cut into a natural number of blocks.
LEMMA CountNat == ASSUME NEW i \in Classes PROVE Count(i) \in Nat
<1>1. i \in Nat
  BY ClassesNat
<1> DEFINE D == (i + 1) * SMALL_GAP
<1>2. D \in Nat /\ D > 0
  BY <1>1, SmallAssumption
<1>3. PAGE_SIZE - HEADER_SIZE \in Nat
  BY SmallAssumption
<1> HIDE DEF D
<1>4. (PAGE_SIZE - HEADER_SIZE) \div D \in Nat
  BY <1>2, <1>3
<1> QED
  BY <1>4 DEF Count, D

\* The blocks of a page are blocks, and of that page.
LEMMA CutBlocks ==
  ASSUME NEW s \in Pages, NEW i \in Classes
  PROVE  Cut(s, i) \subseteq Blocks /\ \A b \in Cut(s, i) : b.span = s
<1>1. Cut(s, i) \in {Cut(u, j) : u \in Pages, j \in Classes}
  OBVIOUS
<1>2. Cut(s, i) \subseteq Blocks
  BY <1>1 DEF Blocks
<1> QED
  BY <1>2 DEF Cut, Block

\* A block has a span.
LEMMA BlockSpan == \A b \in Blocks : b.span \in Pages /\ b.span # NoSpan
  BY SmallAssumption DEF Blocks, Cut, Block, Pages, NoSpan

\* A list head that was handed out as a block has none.
LEMMA HeadSpan == \A t \in Threads, i \in Classes : HeadOf(t, i).span = NoSpan
  BY DEF HeadOf, Block

\* What was handed out and has a span is a block.
LEMMA HeldBlock ==
  ASSUME TypeOK, NEW b \in held, b.span # NoSpan
  PROVE  b \in Blocks
  BY HeadSpan DEF TypeOK, Heads

\* block_num is a signed char.
LEMMA CharRange == \A x \in Int : Char(x) \in -128 .. 127
  BY DEF Char

\* The invariant holds at the start.
LEMMA InitIInv == Init => IInv
<1> SUFFICES ASSUME Init PROVE IInv
  OBVIOUS
<1>1. TypeOK
  <2>1. /\ inited \in [Pools -> BOOLEAN] /\ ready \in [Threads -> BOOLEAN] /\ crashed \in BOOLEAN
    BY Zenon DEF Init
  <2>2. /\ free_start \in 0 .. MPOOL_PAGES /\ mpool_list \subseteq Pages
        /\ s_free \in [Pools -> 0 .. MPOOL_PAGES] /\ s_end \in [Pools -> 0 .. MPOOL_PAGES]
        /\ span_free_list \in [Pools -> [Classes -> SUBSET Pages]]
        /\ lock \in [Pools -> Threads \cup {NoOne}]
    BY SmallAssumption DEF Init
  <2>3. /\ spool \in [Pages -> Pools \cup {NoPool}]
        /\ block_index \in [Pages -> Classes \cup {-1}]
        /\ total_block_num \in [Pages -> Nat] /\ free_block_num \in [Pages -> Nat]
        /\ block_free_list \in [Pages -> SUBSET Blocks]
    BY DEF Init
  <2>4. /\ lcache \in [Threads -> [Classes -> SUBSET Blocks]]
        /\ block_num \in [Threads -> [Classes -> -128 .. 127]]
        /\ held = {} /\ lost = {}
    BY DEF Init
  <2>5. /\ pc \in [Threads -> Labels] /\ index \in [Threads -> Classes \cup {0}]
        /\ cur \in [Threads -> Pools] /\ ptr \in [Threads -> Blocks \cup {NoBlock}]
        /\ target \in [Threads -> Pools \cup {NoPool}]
    BY FirstPool DEF Init, Labels
  <2> QED
    BY <2>1, <2>2, <2>3, <2>4, <2>5 DEF TypeOK
<1>2. CutInv /\ OutInv /\ FreeingInv /\ PassedInv
  BY ClassesNat DEF Init, CutInv, OutInv, FreeingInv, PassedInv
<1>3. LockInv
  BY DEF Init, LockInv
<1> QED
  BY <1>1, <1>2, <1>3 DEF IInv

-----------------------------------------------------------------------------
\* Actions that move no block and cut no page.
LEMMA LocalKeeps ==
  ASSUME IInv, TypeOK', UNCHANGED <<spans, held, lcache, inited>>
  PROVE  CutInv' /\ OutInv'
  BY DEF IInv, CutInv, OutInv, spans

\* A call of mem_malloc that the cache serves, or that begins the scan.
LEMMA MallocKeeps ==
  ASSUME IInv, NEW t \in Threads, NEW size \in Sizes, Malloc(t, size)
  PROVE  IInv'
<1> DEFINE i == size_cls(size)
<1>1. i \in Classes
  BY DEF Classes
<1> HIDE DEF i
<1>2. ready' \in [Threads -> BOOLEAN] /\ UNCHANGED <<mpool, pools, lock, spans, lost, crashed>>
  BY DEF Malloc, IInv, TypeOK
<1>3. CASE lcache[t][i] = {}
  <2>1. /\ pc[t] = "idle" /\ pc' = [pc EXCEPT ![t] = "scan"] /\ index' = [index EXCEPT ![t] = i]
        /\ cur' = [cur EXCEPT ![t] = First]
        /\ UNCHANGED <<lcache, block_num, held, ptr, target>>
    BY <1>3 DEF Malloc, Goto, i
  <2>2. TypeOK'
    BY <1>1, <1>2, <2>1, FirstPool DEF IInv, TypeOK, mpool, pools, spans, Labels
  <2>3. CutInv' /\ OutInv'
    BY <1>2, <2>1, <2>2, LocalKeeps DEF pools
  <2>4. FreeingInv'
    BY <1>2, <2>1 DEF IInv, FreeingInv, TypeOK, pools, spans
  <2>5. LockInv'
    BY <1>1, <1>2, <2>1 DEF IInv, LockInv, TypeOK, pools
  <2>6. PassedInv'
    BY <1>2, <2>1 DEF IInv, PassedInv, TypeOK, pools
  <2> QED
    BY <2>2, <2>3, <2>4, <2>5, <2>6 DEF IInv
<1>4. CASE lcache[t][i] # {}
  <2>1. PICK b \in lcache[t][i] : /\ lcache' = [lcache EXCEPT ![t][i] = @ \ {b}]
                                  /\ held' = held \cup {b}
                                  /\ block_num' = [block_num EXCEPT ![t][i] = Char(@ - 1)]
                                  /\ UNCHANGED locals
    BY <1>4 DEF Malloc, i
  <2>2. b \in Blocks /\ block_index[b.span] \in Classes
    BY <1>1 DEF IInv, TypeOK, OutInv
  <2>3. block_num' \in [Threads -> [Classes -> -128 .. 127]]
    <3>1. block_num[t][i] \in -128 .. 127
      BY <1>1 DEF IInv, TypeOK
    <3>2. Char(block_num[t][i] - 1) \in -128 .. 127
      BY <3>1 DEF Char
    <3> QED
      BY <1>1, <2>1, <3>2 DEF IInv, TypeOK
  <2>4. TypeOK'
    <3>1. lcache' \in [Threads -> [Classes -> SUBSET Blocks]] /\ held' \subseteq Blocks \cup Heads
      BY <1>1, <2>1, <2>2 DEF IInv, TypeOK
    <3> QED
      BY <1>1, <1>2, <2>1, <2>3, <3>1 DEF IInv, TypeOK, mpool, pools, spans, locals
  <2>5. CutInv' /\ OutInv'
    BY <1>1, <1>2, <2>1, <2>2 DEF IInv, CutInv, OutInv, TypeOK, pools, spans
  <2>6. FreeingInv' /\ LockInv' /\ PassedInv'
    BY <1>2, <2>1 DEF IInv, FreeingInv, LockInv, PassedInv, pools, spans, locals
  <2> QED
    BY <2>4, <2>5, <2>6 DEF IInv
<1> QED
  BY <1>3, <1>4

\* A thread that goes past the first pool has just seen it locked.
LEMMA TryLockKeeps ==
  ASSUME IInv, NEW t \in Threads, TryLock(t)
  PROVE  IInv'
<1> DEFINE p == cur[t]
<1>1. /\ p \in Pools /\ pc[t] = "scan"
      /\ UNCHANGED <<mpool, pools, spans, caches, held, index, ptr, target, lost, crashed>>
  BY DEF TryLock, IInv, TypeOK
<1> HIDE DEF p
<1>2. CASE lock[p] = NoOne
  <2>1. lock' = [lock EXCEPT ![p] = t] /\ pc' = [pc EXCEPT ![t] = Enter(p)] /\ cur' = cur
    BY <1>2 DEF TryLock, Goto, p
  <2>2. \/ Enter(p) = "refill" /\ inited[p]
        \/ Enter(p) = "init"
    BY DEF Enter
  <2>3. TypeOK'
    BY <1>1, <2>1, <2>2 DEF IInv, TypeOK, mpool, pools, spans, caches, Labels
  <2>4. CutInv' /\ OutInv'
    BY <1>1, <2>3, LocalKeeps DEF pools, caches
  <2>5. FreeingInv'
    BY <1>1, <2>1, <2>2 DEF IInv, FreeingInv, TypeOK, pools, spans
  <2>6. LockInv'
    BY <1>1, <1>2, <2>1, <2>2, ThreadsAssumption DEF IInv, LockInv, TypeOK, pools, p
  <2>7. PassedInv'
    BY <1>1, <2>1, <2>2, ThreadsAssumption DEF IInv, PassedInv, TypeOK, pools
  <2> QED
    BY <2>3, <2>4, <2>5, <2>6, <2>7 DEF IInv
<1>3. CASE lock[p] # NoOne
  <2>1. /\ lock' = lock
        /\ \/ p > 1 /\ cur' = [cur EXCEPT ![t] = p - 1] /\ pc' = pc
           \/ cur' = [cur EXCEPT ![t] = First] /\ pc' = [pc EXCEPT ![t] = "wait"]
    BY <1>3 DEF TryLock, Busy, Goto, p
  <2>2. p > 1 => p - 1 \in Pools
    BY <1>1, SmallAssumption DEF Pools
  <2>3. TypeOK'
    <3>1. CASE p > 1 /\ cur' = [cur EXCEPT ![t] = p - 1] /\ pc' = pc
      BY <1>1, <2>1, <2>2, <3>1 DEF IInv, TypeOK, mpool, pools, spans, caches
    <3>2. CASE cur' = [cur EXCEPT ![t] = First] /\ pc' = [pc EXCEPT ![t] = "wait"]
      BY <1>1, <2>1, <3>2, FirstPool DEF IInv, TypeOK, mpool, pools, spans, caches, Labels
    <3> QED
      BY <2>1, <3>1, <3>2
  <2>4. CutInv' /\ OutInv'
    BY <1>1, <2>3, LocalKeeps DEF pools, caches
  <2>5. FreeingInv'
    BY <1>1, <2>1 DEF IInv, FreeingInv, TypeOK, pools, spans
  <2>6. LockInv'
    <3>1. ASSUME NEW u \in Threads
          PROVE  /\ pc'[u] \in {"init", "refill"} => pc'[u] = pc[u] /\ cur'[u] = cur[u]
                 /\ pc[u] = "init" => pc'[u] = pc[u] /\ cur'[u] = cur[u]
                 /\ pc'[u] \in {"scan", "wait"} => pc[u] \in {"scan", "wait"}
      BY <1>1, <2>1 DEF IInv, TypeOK
    <3> QED
      BY <1>1, <2>1, <3>1 DEF IInv, LockInv, TypeOK, pools
  <2>7. inited[First] \/ lock[First] # NoOne
    BY <1>1, <1>3 DEF IInv, PassedInv, p
  <2>8. PassedInv'
    BY <1>1, <2>1, <2>7 DEF IInv, PassedInv, TypeOK, pools
  <2> QED
    BY <2>3, <2>4, <2>5, <2>6, <2>8 DEF IInv
<1> QED
  BY <1>2, <1>3

\* The first pool's lock is granted: PassedInv says that the pool is initialised.
LEMMA WaitLockKeeps ==
  ASSUME IInv, NEW t \in Threads, WaitLock(t)
  PROVE  IInv'
<1>1. /\ pc[t] = "wait" /\ cur[t] = First /\ lock[First] = NoOne /\ inited[First]
      /\ lock' = [lock EXCEPT ![First] = t] /\ pc' = [pc EXCEPT ![t] = "refill"]
      /\ UNCHANGED <<mpool, pools, spans, caches, held, index, cur, ptr, target, lost, crashed>>
  BY DEF WaitLock, Goto, IInv, PassedInv
<1>2. TypeOK'
  BY <1>1, FirstPool DEF IInv, TypeOK, mpool, pools, spans, caches, Labels
<1>3. CutInv' /\ OutInv'
  BY <1>1, <1>2, LocalKeeps DEF pools, caches
<1>4. FreeingInv'
  BY <1>1 DEF IInv, FreeingInv, TypeOK, pools, spans
<1>5. LockInv'
  BY <1>1, FirstPool, ThreadsAssumption DEF IInv, LockInv, TypeOK, pools
<1>6. PassedInv'
  BY <1>1 DEF IInv, PassedInv, TypeOK, pools
<1> QED
  BY <1>2, <1>3, <1>4, <1>5, <1>6 DEF IInv

\* The pool is initialised by the thread that has its lock.
LEMMA SPoolInitKeeps ==
  ASSUME IInv, NEW t \in Threads, SPoolInit(t)
  PROVE  IInv'
<1> DEFINE p == cur[t]
<1>1. /\ p \in Pools /\ lock[p] = t /\ pc[t] = "init" /\ pc' = [pc EXCEPT ![t] = "refill"]
      /\ UNCHANGED <<mpool_list, span_free_list, lock, spans, caches, held, index, cur, ptr,
                     target, lost, crashed>>
  BY DEF SPoolInit, Goto, IInv, TypeOK, LockInv
<1>2. inited' = [inited EXCEPT ![p] = TRUE] /\ inited'[p] /\ \A q \in Pools : inited[q] => inited'[q]
  BY <1>1 DEF SPoolInit, IInv, TypeOK
<1>3. /\ free_start' \in 0 .. MPOOL_PAGES /\ s_free' \in [Pools -> 0 .. MPOOL_PAGES]
      /\ s_end' \in [Pools -> 0 .. MPOOL_PAGES]
  BY SmallAssumption DEF SPoolInit, IInv, TypeOK
<1> HIDE DEF p
<1>4. inited' \in [Pools -> BOOLEAN]
  <2>1. inited \in [Pools -> BOOLEAN] /\ inited' = [inited EXCEPT ![p] = TRUE]
    BY <1>2 DEF IInv, TypeOK
  <2> QED
    BY <2>1, Zenon
<1>5. TypeOK'
  BY <1>1, <1>3, <1>4 DEF IInv, TypeOK, spans, caches, Labels
<1>6. CutInv' /\ OutInv'
  BY <1>1, <1>2 DEF IInv, CutInv, OutInv, spans, caches
<1>7. FreeingInv'
  BY <1>1, <1>2 DEF IInv, FreeingInv, TypeOK, spans
<1>8. LockInv'
  <2>1. ASSUME NEW u \in Threads, u # t
        PROVE  /\ pc'[u] \in {"init", "refill"} => lock'[cur'[u]] = u
               /\ pc'[u] = "refill" => inited'[cur'[u]]
               /\ pc'[u] \in {"scan", "wait", "init", "refill"} => index'[u] \in Classes
    BY <1>1, <1>2, <2>1 DEF IInv, LockInv, TypeOK
  <2>2. lock'[cur'[t]] = t /\ inited'[cur'[t]] /\ index'[t] \in Classes
    BY <1>1, <1>2 DEF IInv, LockInv, p
  <2>3. ASSUME NEW q \in Pools, lock'[q] # NoOne
        PROVE  inited'[q] \/ (pc'[lock'[q]] = "init" /\ cur'[lock'[q]] = q)
    <3>1. inited[q] \/ (pc[lock[q]] = "init" /\ cur[lock[q]] = q)
      BY <1>1, <2>3 DEF IInv, LockInv
    <3>2. CASE lock[q] = t
      BY <1>1, <1>2, <3>1, <3>2 DEF p
    <3>3. CASE lock[q] # t
      BY <1>1, <1>2, <3>1, <3>3 DEF IInv, TypeOK
    <3> QED
      BY <3>2, <3>3
  <2> QED
    BY <2>1, <2>2, <2>3 DEF LockInv
<1>9. PassedInv'
  BY <1>1, <1>2, FirstPool DEF IInv, PassedInv, TypeOK
<1> QED
  BY <1>5, <1>6, <1>7, <1>8, <1>9 DEF IInv

\* The page that Refill takes blocks from, and its list before it does: from
\* the pool's own list, or a new span that it cuts.
LEMMA RefillSpan ==
  ASSUME IInv, NEW t \in Threads, Refill(t), index[t] \in Classes, inited[cur[t]]
  PROVE  \E s \in Pages, list \in SUBSET Blocks, free \in Nat, total \in Nat :
           /\ Deliver(t, s, list, free, total)
           /\ \A b \in list : b.span = s /\ block_index'[s] \in Classes
           /\ free_start' \in 0 .. MPOOL_PAGES /\ mpool_list' \subseteq Pages
           /\ s_free' \in [Pools -> 0 .. MPOOL_PAGES]
           /\ spool' \in [Pages -> Pools \cup {NoPool}]
           /\ block_index' \in [Pages -> Classes \cup {-1}]
           /\ \A u \in Pages : /\ block_index[u] \in Classes => block_index'[u] \in Classes
                               /\ block_index'[u] \in Classes =>
                                    spool'[u] \in Pools /\ inited[spool'[u]]
<1> DEFINE i == index[t]
           p == cur[t]
<1>1. p \in Pools
  BY DEF IInv, TypeOK
<1>2. CASE \E s \in span_free_list[p][i] :
             /\ Deliver(t, s, block_free_list[s], free_block_num[s], total_block_num[s])
             /\ UNCHANGED <<mpool, s_free, spool, block_index>>
  <2>1. PICK s \in span_free_list[p][i] :
          /\ Deliver(t, s, block_free_list[s], free_block_num[s], total_block_num[s])
          /\ UNCHANGED <<mpool, s_free, spool, block_index>>
    BY <1>2
  <2>2. s \in Pages
    BY <1>1 DEF IInv, TypeOK
  <2>3. /\ block_free_list[s] \in SUBSET Blocks
        /\ free_block_num[s] \in Nat /\ total_block_num[s] \in Nat
        /\ \A b \in block_free_list[s] : b.span = s /\ block_index[s] \in Classes
    BY <2>2 DEF IInv, TypeOK, CutInv
  <2>4. /\ free_start' \in 0 .. MPOOL_PAGES /\ mpool_list' \subseteq Pages
        /\ s_free' \in [Pools -> 0 .. MPOOL_PAGES]
        /\ spool' \in [Pages -> Pools \cup {NoPool}]
        /\ block_index' \in [Pages -> Classes \cup {-1}]
    BY <2>1 DEF IInv, TypeOK, mpool
  <2>5. \A u \in Pages : /\ block_index[u] \in Classes => block_index'[u] \in Classes
                         /\ block_index'[u] \in Classes =>
                              spool'[u] \in Pools /\ inited[spool'[u]]
    BY <2>1 DEF IInv, CutInv
  <2>6. \A b \in block_free_list[s] : b.span = s /\ block_index'[s] \in Classes
    BY <2>1, <2>3
  <2> QED
    BY <2>1, <2>2, <2>3, <2>4, <2>5, <2>6
<1>3. CASE \E s \in Pages :
             /\ NewSpan(p, s)
             /\ spool' = [spool EXCEPT ![s] = p]
             /\ block_index' = [block_index EXCEPT ![s] = i]
             /\ Deliver(t, s, block_free_list[s] \cup Cut(s, i), Count(i), Count(i))
  <2>1. PICK s \in Pages :
          /\ NewSpan(p, s)
          /\ spool' = [spool EXCEPT ![s] = p]
          /\ block_index' = [block_index EXCEPT ![s] = i]
          /\ Deliver(t, s, block_free_list[s] \cup Cut(s, i), Count(i), Count(i))
    BY <1>3
  <2>2. /\ block_free_list[s] \cup Cut(s, i) \in SUBSET Blocks
        /\ \A b \in block_free_list[s] \cup Cut(s, i) : b.span = s
        /\ Count(i) \in Nat
    BY CutBlocks, CountNat DEF IInv, TypeOK, CutInv
  <2>3. /\ spool' \in [Pages -> Pools \cup {NoPool}]
        /\ block_index' \in [Pages -> Classes \cup {-1}]
        /\ block_index'[s] \in Classes /\ spool'[s] = p
        /\ \A u \in Pages \ {s} : block_index'[u] = block_index[u] /\ spool'[u] = spool[u]
    BY <1>1, <2>1 DEF IInv, TypeOK
  <2>4. \A u \in Pages : /\ block_index[u] \in Classes => block_index'[u] \in Classes
                         /\ block_index'[u] \in Classes =>
                              spool'[u] \in Pools /\ inited[spool'[u]]
    BY <1>1, <2>3 DEF IInv, CutInv
  <2>5. /\ free_start' \in 0 .. MPOOL_PAGES /\ mpool_list' \subseteq Pages
        /\ s_free' \in [Pools -> 0 .. MPOOL_PAGES]
    <3>1. CASE /\ s_free[p] + 1 <= s_end[p]
               /\ s_free' = [s_free EXCEPT ![p] = @ + 1]
               /\ UNCHANGED mpool
      BY <1>1, <3>1, SmallAssumption DEF IInv, TypeOK, mpool
    <3>2. CASE /\ free_start + 1 <= MPOOL_PAGES /\ free_start' = free_start + 1
               /\ UNCHANGED mpool_list /\ UNCHANGED s_free
      BY <3>2, SmallAssumption DEF IInv, TypeOK
    <3>3. CASE /\ mpool_list' = mpool_list \ {s}
               /\ UNCHANGED free_start /\ UNCHANGED s_free
      BY <3>3 DEF IInv, TypeOK
    <3> QED
      BY <2>1, <3>1, <3>2, <3>3 DEF NewSpan
  <2> QED
    BY <2>1, <2>2, <2>3, <2>4, <2>5
<1> QED
  BY <1>2, <1>3 DEF Refill

\* What Deliver changes: blocks of s move to the cache of t and to the
\* application, and the pool is unlocked.
LEMMA DeliverTypes ==
  ASSUME NEW t \in Threads, NEW s \in Pages, NEW list \in SUBSET Blocks, NEW free \in Nat,
         NEW total \in Nat, IInv, index[t] \in Classes, Deliver(t, s, list, free, total)
  PROVE  /\ block_free_list' \in [Pages -> SUBSET Blocks]
         /\ block_free_list'[s] \subseteq list
         /\ \A u \in Pages \ {s} : block_free_list'[u] = block_free_list[u]
         /\ free_block_num' \in [Pages -> Nat] /\ total_block_num' \in [Pages -> Nat]
         /\ span_free_list' \in [Pools -> [Classes -> SUBSET Pages]]
         /\ block_num' \in [Threads -> [Classes -> -128 .. 127]]
         /\ lcache' \in [Threads -> [Classes -> SUBSET Blocks]]
         /\ \A u \in Threads : \A j \in Classes : lcache'[u][j] \subseteq lcache[u][j] \cup list
         /\ held' \subseteq Blocks \cup Heads
         /\ held' \cap Blocks \subseteq held \cup list
         /\ pc' = [pc EXCEPT ![t] = "idle"] /\ lock' = [lock EXCEPT ![cur[t]] = NoOne]
<1> DEFINE i == index[t]
           n == IF free < bn THEN free ELSE bn
<1>1. PICK taken \in SUBSET list :
        /\ block_free_list' = [block_free_list EXCEPT ![s] = list \ taken]
        /\ free_block_num' = [free_block_num EXCEPT ![s] = free - n]
        /\ total_block_num' = [total_block_num EXCEPT ![s] = total]
        /\ span_free_list' = Relist(cur[t], i, s, free - n)
        /\ block_num' = [block_num EXCEPT ![t][i] = Char(@ + n - 1)]
        /\ \/ \E b \in taken : /\ lcache' = [lcache EXCEPT ![t][i] = taken \ {b}]
                               /\ held' = held \cup {b}
           \/ taken = {} /\ held' = held \cup {HeadOf(t, i)} /\ UNCHANGED lcache
        /\ Leave(t)
  BY DEF Deliver
<1>2. n \in Nat /\ n <= free
  BY SmallAssumption
<1>3. cur[t] \in Pools /\ i \in Classes
  BY DEF IInv, TypeOK
<1> HIDE DEF i, n
<1>4. /\ block_free_list' \in [Pages -> SUBSET Blocks]
      /\ block_free_list'[s] \subseteq list
      /\ \A u \in Pages \ {s} : block_free_list'[u] = block_free_list[u]
  BY <1>1 DEF IInv, TypeOK
<1>5. free_block_num' \in [Pages -> Nat] /\ total_block_num' \in [Pages -> Nat]
  <2>1. free - n \in Nat
    BY <1>2
  <2> QED
    BY <1>1, <2>1 DEF IInv, TypeOK
<1>6. span_free_list' \in [Pools -> [Classes -> SUBSET Pages]]
  BY <1>1, <1>3 DEF Relist, IInv, TypeOK
<1>7. block_num' \in [Threads -> [Classes -> -128 .. 127]]
  <2>1. block_num[t][i] + n - 1 \in Int
    <3>1. block_num[t][i] \in -128 .. 127
      BY <1>3 DEF IInv, TypeOK
    <3> QED
      BY <1>2, <3>1
  <2>2. Char(block_num[t][i] + n - 1) \in -128 .. 127
    BY <2>1, CharRange
  <2> QED
    BY <1>1, <1>3, <2>2 DEF IInv, TypeOK
<1>8. /\ lcache' \in [Threads -> [Classes -> SUBSET Blocks]]
      /\ \A u \in Threads : \A j \in Classes : lcache'[u][j] \subseteq lcache[u][j] \cup list
      /\ held' \subseteq Blocks \cup Heads
      /\ held' \cap Blocks \subseteq held \cup list
  <2>1. CASE \E b \in taken : /\ lcache' = [lcache EXCEPT ![t][i] = taken \ {b}]
                              /\ held' = held \cup {b}
    BY <1>3, <2>1 DEF IInv, TypeOK
  <2>2. CASE taken = {} /\ held' = held \cup {HeadOf(t, i)} /\ UNCHANGED lcache
    <3>1. HeadOf(t, i) \notin Blocks
      BY <1>3, BlockSpan, HeadSpan
    <3> QED
      BY <1>3, <2>2, <3>1 DEF IInv, TypeOK, Heads
  <2> QED
    BY <1>1, <2>1, <2>2
<1>9. pc' = [pc EXCEPT ![t] = "idle"] /\ lock' = [lock EXCEPT ![cur[t]] = NoOne]
  BY <1>1 DEF Leave, Goto
<1> QED
  BY <1>4, <1>5, <1>6, <1>7, <1>8, <1>9

\* Blocks are taken from the pool's spans, or out of a page that is cut for the class.
LEMMA RefillKeeps ==
  ASSUME IInv, NEW t \in Threads, Refill(t)
  PROVE  IInv'
<1>1. /\ cur[t] \in Pools /\ lock[cur[t]] = t /\ inited[cur[t]] /\ pc[t] = "refill" /\ index[t] \in Classes
      /\ UNCHANGED <<inited, s_end, ready, index, cur, ptr, target, lost, crashed>>
  BY DEF Refill, IInv, TypeOK, LockInv
<1>2. PICK s \in Pages, list \in SUBSET Blocks, free \in Nat, total \in Nat :
        /\ Deliver(t, s, list, free, total)
        /\ \A b \in list : b.span = s /\ block_index'[s] \in Classes
        /\ free_start' \in 0 .. MPOOL_PAGES /\ mpool_list' \subseteq Pages
        /\ s_free' \in [Pools -> 0 .. MPOOL_PAGES]
        /\ spool' \in [Pages -> Pools \cup {NoPool}]
        /\ block_index' \in [Pages -> Classes \cup {-1}]
        /\ \A u \in Pages : /\ block_index[u] \in Classes => block_index'[u] \in Classes
                            /\ block_index'[u] \in Classes =>
                                 spool'[u] \in Pools /\ inited[spool'[u]]
  BY <1>1, RefillSpan
<1>3. /\ block_free_list' \in [Pages -> SUBSET Blocks]
      /\ block_free_list'[s] \subseteq list
      /\ \A u \in Pages \ {s} : block_free_list'[u] = block_free_list[u]
      /\ free_block_num' \in [Pages -> Nat] /\ total_block_num' \in [Pages -> Nat]
      /\ span_free_list' \in [Pools -> [Classes -> SUBSET Pages]]
      /\ block_num' \in [Threads -> [Classes -> -128 .. 127]]
      /\ lcache' \in [Threads -> [Classes -> SUBSET Blocks]]
      /\ \A u \in Threads : \A j \in Classes : lcache'[u][j] \subseteq lcache[u][j] \cup list
      /\ held' \subseteq Blocks \cup Heads
      /\ held' \cap Blocks \subseteq held \cup list
      /\ pc' = [pc EXCEPT ![t] = "idle"] /\ lock' = [lock EXCEPT ![cur[t]] = NoOne]
  <2>1. /\ index[t] \in Classes /\ Deliver(t, s, list, free, total)
        /\ s \in Pages /\ list \in SUBSET Blocks /\ free \in Nat /\ total \in Nat
    BY <1>1, <1>2
  <2> QED
    BY <2>1, DeliverTypes, Zenon
<1>4. TypeOK'
  <2>1. /\ pc' \in [Threads -> Labels] /\ lock' \in [Pools -> Threads \cup {NoOne}]
    BY <1>1, <1>3 DEF IInv, TypeOK, Labels
  <2>2. /\ inited' \in [Pools -> BOOLEAN] /\ s_end' \in [Pools -> 0 .. MPOOL_PAGES]
        /\ ready' \in [Threads -> BOOLEAN] /\ index' \in [Threads -> Classes \cup {0}]
        /\ cur' \in [Threads -> Pools] /\ ptr' \in [Threads -> Blocks \cup {NoBlock}]
        /\ target' \in [Threads -> Pools \cup {NoPool}] /\ crashed' \in BOOLEAN
        /\ lost' \subseteq Blocks
    BY <1>1 DEF IInv, TypeOK
  <2> QED
    BY <1>2, <1>3, <2>1, <2>2 DEF TypeOK
<1>5. CutInv'
  <2>1. ASSUME NEW u \in Pages, NEW b \in block_free_list'[u]
        PROVE  b.span = u /\ block_index'[u] \in Classes
    <3>1. CASE u = s
      BY <1>2, <1>3, <2>1, <3>1
    <3>2. CASE u # s
      <4>1. b \in block_free_list[u]
        BY <1>3, <2>1, <3>2
      <4>2. b.span = u /\ block_index[u] \in Classes
        BY <4>1 DEF IInv, CutInv
      <4> QED
        BY <1>2, <4>2
    <3> QED
      BY <3>1, <3>2
  <2> QED
    BY <1>1, <1>2, <2>1 DEF CutInv
<1>6. OutInv'
  <2>1. ASSUME NEW b \in held', b \in Blocks
        PROVE  block_index'[b.span] \in Classes
    <3>1. b.span \in Pages /\ (b \in held \/ b \in list)
      BY <1>3, <2>1, BlockSpan
    <3>2. b \in held => block_index[b.span] \in Classes
      BY <2>1 DEF IInv, OutInv
    <3> QED
      BY <1>2, <3>1, <3>2
  <2>2. ASSUME NEW u \in Threads, NEW j \in Classes, NEW b \in lcache'[u][j]
        PROVE  block_index'[b.span] \in Classes
    <3>1. b \in Blocks /\ (b \in lcache[u][j] \/ b \in list)
      BY <1>3, <2>2 DEF IInv, TypeOK
    <3>2. b.span \in Pages
      BY <3>1, BlockSpan
    <3>3. b \in lcache[u][j] => block_index[b.span] \in Classes
      BY <2>2 DEF IInv, OutInv
    <3> QED
      BY <1>2, <3>1, <3>2, <3>3
  <2> QED
    BY <2>1, <2>2 DEF OutInv
<1>7. FreeingInv'
  BY <1>1, <1>2, <1>3, BlockSpan DEF IInv, FreeingInv, TypeOK
<1>8. LockInv'
  <2>1. ASSUME NEW u \in Threads, u # t
        PROVE  /\ pc'[u] \in {"init", "refill"} => lock'[cur'[u]] = u
               /\ pc'[u] = "refill" => inited'[cur'[u]]
               /\ pc'[u] \in {"scan", "wait", "init", "refill"} => index'[u] \in Classes
    BY <1>1, <1>3, <2>1 DEF IInv, LockInv, TypeOK
  <2>2. pc'[t] = "idle"
    BY <1>3 DEF IInv, TypeOK
  <2>3. ASSUME NEW q \in Pools, lock'[q] # NoOne
        PROVE  inited'[q] \/ (pc'[lock'[q]] = "init" /\ cur'[lock'[q]] = q)
    BY <1>1, <1>3, <2>3 DEF IInv, LockInv, TypeOK
  <2> QED
    BY <2>1, <2>2, <2>3 DEF LockInv
<1>9. PassedInv'
  BY <1>1, <1>3, FirstPool DEF IInv, PassedInv, TypeOK
<1> QED
  BY <1>4, <1>5, <1>6, <1>7, <1>8, <1>9 DEF IInv

-----------------------------------------------------------------------------
\* A call of mem_free that the cache serves, or that goes for the pool's lock.
LEMMA FreeKeeps ==
  ASSUME IInv, NEW t \in Threads, NEW b \in held, Free(t, b)
  PROVE  IInv'
<1>1. CASE FreeUnready(t, b)
  <2>1. UNCHANGED <<mpool, pools, lock, spans, caches, held, lost, locals>>
    BY <1>1 DEF FreeUnready
  <2>2. crashed' \in BOOLEAN
    BY <1>1, Zenon DEF FreeUnready
  <2>3. TypeOK'
    BY <2>1, <2>2 DEF IInv, TypeOK, mpool, pools, spans, caches, locals
  <2>4. CutInv' /\ OutInv' /\ FreeingInv' /\ LockInv' /\ PassedInv'
    BY <2>1 DEF IInv, CutInv, OutInv, FreeingInv, LockInv, PassedInv, pools, spans, caches, locals
  <2> QED
    BY <2>3, <2>4 DEF IInv
<1>2. CASE FreeToCache(t, b)
  <2> DEFINE i == block_index[b.span]
  <2>1. b \in Blocks /\ i \in Classes
    BY <1>2, HeldBlock DEF FreeToCache, IInv, OutInv
  <2>2. /\ lcache' = [lcache EXCEPT ![t][i] = @ \cup {b}]
        /\ block_num' = [block_num EXCEPT ![t][i] = Char(@ + 1)]
        /\ held' = held \ {b}
        /\ UNCHANGED <<mpool, pools, lock, spans, ready, locals, lost, crashed>>
    BY <1>2 DEF FreeToCache
  <2> HIDE DEF i
  <2>3. block_num' \in [Threads -> [Classes -> -128 .. 127]]
    <3>1. block_num[t][i] \in -128 .. 127
      BY <2>1 DEF IInv, TypeOK
    <3>2. block_num[t][i] + 1 \in Int
      BY <3>1
    <3>3. Char(block_num[t][i] + 1) \in -128 .. 127
      BY <3>2, CharRange
    <3> QED
      BY <2>1, <2>2, <3>3 DEF IInv, TypeOK
  <2>4. TypeOK'
    <3>1. lcache' \in [Threads -> [Classes -> SUBSET Blocks]] /\ held' \subseteq Blocks \cup Heads
      BY <2>1, <2>2 DEF IInv, TypeOK
    <3> QED
      BY <2>2, <2>3, <3>1 DEF IInv, TypeOK, mpool, pools, spans, locals
  <2>5. CutInv'
    BY <2>2 DEF IInv, CutInv, pools, spans
  <2>6. OutInv'
    <3>1. block_index[b.span] \in Classes
      BY <2>1 DEF i
    <3> QED
      BY <2>1, <2>2, <3>1 DEF IInv, OutInv, TypeOK, spans
  <2>7. FreeingInv' /\ LockInv' /\ PassedInv'
    BY <2>2 DEF IInv, FreeingInv, LockInv, PassedInv, pools, spans, locals
  <2> QED
    BY <2>4, <2>5, <2>6, <2>7 DEF IInv
<1>3. CASE FreeToPool(t, b)
  <2>1. /\ b \in Blocks /\ b.span \in Pages /\ block_index[b.span] \in Classes
        /\ spool[b.span] \in Pools /\ inited[spool[b.span]]
    BY <1>3, HeldBlock, BlockSpan DEF FreeToPool, IInv, OutInv, CutInv
  <2>2. /\ pc[t] = "idle" /\ pc' = [pc EXCEPT ![t] = "flock"]
        /\ index' = [index EXCEPT ![t] = block_index[b.span]]
        /\ ptr' = [ptr EXCEPT ![t] = b]
        /\ target' = [target EXCEPT ![t] = spool[b.span]]
        /\ held' = held \ {b}
        /\ UNCHANGED <<mpool, pools, lock, spans, caches, cur, lost, crashed>>
    BY <1>3 DEF FreeToPool, Goto
  <2>3. TypeOK'
    BY <2>1, <2>2 DEF IInv, TypeOK, mpool, pools, spans, caches, Labels
  <2>4. CutInv' /\ OutInv'
    BY <2>2 DEF IInv, CutInv, OutInv, pools, spans, caches
  <2>5. FreeingInv'
    BY <2>1, <2>2 DEF IInv, FreeingInv, TypeOK, pools, spans
  <2>6. LockInv'
    BY <2>2 DEF IInv, LockInv, TypeOK, pools
  <2>7. PassedInv'
    BY <2>2 DEF IInv, PassedInv, TypeOK, pools
  <2> QED
    BY <2>3, <2>4, <2>5, <2>6, <2>7 DEF IInv
<1>4. CASE FreeHead(t, b)
  <2>1. held' = held \ {b} /\ UNCHANGED <<mpool, pools, lock, spans, caches, locals, lost, crashed>>
    BY <1>4 DEF FreeHead
  <2>2. TypeOK'
    BY <2>1 DEF IInv, TypeOK, mpool, pools, spans, caches, locals
  <2>3. CutInv' /\ OutInv' /\ FreeingInv' /\ LockInv' /\ PassedInv'
    BY <2>1 DEF IInv, CutInv, OutInv, FreeingInv, LockInv, PassedInv, pools, spans, caches, locals
  <2> QED
    BY <2>2, <2>3 DEF IInv
<1> QED
  BY <1>1, <1>2, <1>3, <1>4 DEF Free

\* The two locks of mem_free: each is of an initialised pool.
LEMMA FreeLocksKeep ==
  ASSUME IInv, NEW t \in Threads, FreeLock(t) \/ FreeRelock(t)
  PROVE  IInv'
<1>1. /\ pc[t] \in {"flock", "frelock"} /\ lock[target[t]] = NoOne
      /\ lock' = [lock EXCEPT ![target[t]] = t]
      /\ \/ pc' = [pc EXCEPT ![t] = "fput"] /\ UNCHANGED ptr
         \/ pc' = [pc EXCEPT ![t] = "idle"] /\ ptr' = [ptr EXCEPT ![t] = NoBlock]
      /\ UNCHANGED <<mpool, pools, spans, caches, held, index, cur, target, lost, crashed>>
  BY DEF FreeLock, FreeRelock, Goto
<1>2. target[t] \in Pools /\ inited[target[t]]
  BY <1>1 DEF IInv, FreeingInv
<1>3. TypeOK'
  <2>1. pc' \in [Threads -> Labels] /\ ptr' \in [Threads -> Blocks \cup {NoBlock}]
    <3>1. "fput" \in Labels /\ "idle" \in Labels
      BY DEF Labels
    <3>2. pc \in [Threads -> Labels] /\ ptr \in [Threads -> Blocks \cup {NoBlock}]
      BY DEF IInv, TypeOK
    <3> QED
      BY <1>1, <3>1, <3>2
  <2>2. lock' \in [Pools -> Threads \cup {NoOne}]
    BY <1>1, <1>2 DEF IInv, TypeOK
  <2> QED
    BY <1>1, <2>1, <2>2 DEF IInv, TypeOK, mpool, pools, spans, caches
<1>4. CutInv' /\ OutInv'
  BY <1>1, <1>3, LocalKeeps DEF pools, caches
<1>5. FreeingInv'
  <2>1. UNCHANGED <<block_index, spool, inited, index, target>>
    BY <1>1 DEF pools, spans
  <2>2. ASSUME NEW u \in Threads
        PROVE  pc'[u] \in {"flock", "fput", "freread", "frelock"} =>
                 pc[u] \in {"flock", "fput", "freread", "frelock"} /\ ptr'[u] = ptr[u]
    BY <1>1 DEF IInv, TypeOK
  <2> QED
    BY <2>1, <2>2 DEF IInv, FreeingInv
<1>6. LockInv'
  <2>1. ASSUME NEW u \in Threads
        PROVE  /\ pc'[u] \in {"scan", "wait", "init", "refill"} => u # t /\ pc'[u] = pc[u]
               /\ u # t => pc'[u] = pc[u]
    BY <1>1 DEF IInv, TypeOK
  <2>2. \A q \in Pools \ {target[t]} : lock'[q] = lock[q]
    BY <1>1 DEF IInv, TypeOK
  <2>3. lock'[target[t]] = t
    BY <1>1, <1>2 DEF IInv, TypeOK
  <2>4. ASSUME NEW u \in Threads, pc'[u] \in {"init", "refill"}
        PROVE  lock'[cur'[u]] = u
    <3>1. lock[cur[u]] = u /\ cur[u] \in Pools
      BY <2>1, <2>4 DEF IInv, LockInv, TypeOK
    <3>2. cur[u] # target[t]
      BY <1>1, <3>1, ThreadsAssumption
    <3> QED
      BY <1>1, <2>2, <3>1, <3>2
  <2>5. ASSUME NEW q \in Pools, lock'[q] # NoOne
        PROVE  inited'[q] \/ (pc'[lock'[q]] = "init" /\ cur'[lock'[q]] = q)
    <3>1. CASE q = target[t]
      BY <1>1, <1>2, <3>1 DEF pools
    <3>2. CASE q # target[t]
      <4>1. lock[q] # NoOne /\ lock'[q] = lock[q] /\ lock[q] \in Threads
        BY <2>2, <2>5, <3>2 DEF IInv, TypeOK
      <4>2. inited[q] \/ (pc[lock[q]] = "init" /\ cur[lock[q]] = q)
        BY <4>1 DEF IInv, LockInv
      <4>3. pc[lock[q]] = "init" => pc'[lock[q]] = "init"
        BY <1>1, <2>1, <4>1
      <4> QED
        BY <1>1, <4>1, <4>2, <4>3 DEF pools
    <3> QED
      BY <3>1, <3>2
  <2> QED
    BY <1>1, <2>1, <2>4, <2>5 DEF IInv, LockInv, pools
<1>7. PassedInv'
  BY <1>1, ThreadsAssumption DEF IInv, PassedInv, TypeOK, pools
<1> QED
  BY <1>3, <1>4, <1>5, <1>6, <1>7 DEF IInv

\* The block goes to its span, and a complete span to the global heap.
LEMMA FreePutKeeps ==
  ASSUME IInv, NEW t \in Threads, FreePut(t)
  PROVE  IInv'
<1> DEFINE s == ptr[t].span
           free == free_block_num[s] + 1
<1>1. /\ ptr[t] \in Blocks /\ s \in Pages /\ block_index[s] \in Classes /\ index[t] \in Classes
      /\ spool[s] \in Pools
  BY BlockSpan DEF FreePut, IInv, FreeingInv, CutInv
<1>2. /\ free_block_num' = [free_block_num EXCEPT ![s] = free]
      /\ \E full \in BOOLEAN :
           /\ block_free_list' = [block_free_list EXCEPT ![s] = IF full THEN {} ELSE @ \cup {ptr[t]}]
           /\ mpool_list' = IF full THEN mpool_list \cup {s} ELSE mpool_list
      /\ \/ span_free_list' = [span_free_list EXCEPT ![spool[s]][index[t]] = @ \cup {s}]
         \/ span_free_list' = span_free_list
      /\ pc[t] = "fput" /\ pc' = [pc EXCEPT ![t] = "freread"]
      /\ UNCHANGED <<free_start, inited, s_free, s_end, lock, spool, block_index, total_block_num,
                     caches, held, index, cur, ptr, target, lost, crashed>>
  BY DEF FreePut, Goto
<1>3. free \in Nat
  BY <1>1 DEF IInv, TypeOK
<1> HIDE DEF s, free
<1>4. TypeOK'
  <2>1. free_block_num' \in [Pages -> Nat]
    BY <1>1, <1>2, <1>3 DEF IInv, TypeOK
  <2>2. block_free_list' \in [Pages -> SUBSET Blocks] /\ mpool_list' \subseteq Pages
    BY <1>1, <1>2 DEF IInv, TypeOK
  <2>3. span_free_list' \in [Pools -> [Classes -> SUBSET Pages]]
    <3>1. CASE span_free_list' = [span_free_list EXCEPT ![spool[s]][index[t]] = @ \cup {s}]
      <4>1. PICK q \in Pools, i \in Classes :
              span_free_list' = [span_free_list EXCEPT ![q][i] = @ \cup {s}]
        BY <1>1, <3>1
      <4> QED
        BY <1>1, <4>1 DEF IInv, TypeOK
    <3>2. CASE span_free_list' = span_free_list
      BY <3>2 DEF IInv, TypeOK
    <3> QED
      BY <1>2, <3>1, <3>2
  <2>4. pc' \in [Threads -> Labels]
    BY <1>2 DEF IInv, TypeOK, Labels
  <2> QED
    BY <1>2, <2>1, <2>2, <2>3, <2>4 DEF IInv, TypeOK, caches
<1>5. CutInv'
  <2>1. ASSUME NEW u \in Pages, NEW b \in block_free_list'[u]
        PROVE  b.span = u /\ block_index[u] \in Classes
    <3>1. b \in block_free_list[u] \/ (u = s /\ b = ptr[t])
      BY <1>1, <1>2, <2>1 DEF IInv, TypeOK
    <3>2. CASE b \in block_free_list[u]
      BY <3>2 DEF IInv, CutInv
    <3>3. CASE u = s /\ b = ptr[t]
      BY <1>1, <3>3 DEF s
    <3> QED
      BY <3>1, <3>2, <3>3
  <2> QED
    BY <1>2, <2>1 DEF IInv, CutInv
<1>6. OutInv' /\ LockInv' /\ PassedInv' /\ FreeingInv'
  <2>1. OutInv'
    BY <1>2 DEF IInv, OutInv, caches
  <2>2. FreeingInv'
    BY <1>2 DEF IInv, FreeingInv, TypeOK
  <2>3. LockInv'
    BY <1>2 DEF IInv, LockInv, TypeOK
  <2>4. PassedInv'
    BY <1>2 DEF IInv, PassedInv, TypeOK
  <2> QED
    BY <2>1, <2>2, <2>3, <2>4
<1> QED
  BY <1>4, <1>5, <1>6 DEF IInv

\* The second read of span->spool finds a pool that is initialised.
LEMMA FreeRereadKeeps ==
  ASSUME IInv, NEW t \in Threads, FreeReread(t)
  PROVE  IInv'
<1>1. /\ pc[t] = "freread" /\ pc' = [pc EXCEPT ![t] = "frelock"]
      /\ target' = [target EXCEPT ![t] = spool[ptr[t].span]]
      /\ UNCHANGED <<mpool, pools, lock, spans, caches, held, index, cur, ptr, lost, crashed>>
  BY DEF FreeReread, Goto
<1>2. spool[ptr[t].span] \in Pools /\ inited[spool[ptr[t].span]]
  BY <1>1, BlockSpan DEF IInv, FreeingInv, CutInv
<1>3. TypeOK'
  BY <1>1, <1>2 DEF IInv, TypeOK, mpool, pools, spans, caches, Labels
<1>4. CutInv' /\ OutInv'
  BY <1>1, <1>3, LocalKeeps DEF pools, caches
<1>5. FreeingInv'
  BY <1>1, <1>2 DEF IInv, FreeingInv, TypeOK, pools, spans
<1>6. LockInv'
  BY <1>1 DEF IInv, LockInv, TypeOK, pools
<1>7. PassedInv'
  BY <1>1 DEF IInv, PassedInv, TypeOK, pools
<1> QED
  BY <1>3, <1>4, <1>5, <1>6, <1>7 DEF IInv

\* A thread that ends leaves its locks as they are.
LEMMA ExitKeeps ==
  ASSUME IInv, NEW t \in Threads, Exit(t)
  PROVE  IInv'
<1> DEFINE cached == UNION {lcache[t][i] : i \in Classes}
<1>1. /\ ready' = [ready EXCEPT ![t] = FALSE]
      /\ lcache' = [lcache EXCEPT ![t] = [i \in Classes |-> {}]]
      /\ block_num' = [block_num EXCEPT ![t] = [i \in Classes |-> 0]]
      /\ lost' = lost \cup cached
      /\ UNCHANGED <<mpool, pools, lock, spans, held, locals, crashed>>
  BY DEF Exit
<1>2. cached \subseteq Blocks
  BY DEF IInv, TypeOK
<1> HIDE DEF cached
<1>3. TypeOK'
  <2>1. ready' \in [Threads -> BOOLEAN]
    <3>1. ready \in [Threads -> BOOLEAN] /\ ready' = [ready EXCEPT ![t] = FALSE]
      BY <1>1 DEF IInv, TypeOK
    <3> QED
      BY <3>1, Zenon
  <2>2. /\ lcache' \in [Threads -> [Classes -> SUBSET Blocks]] /\ lost' \subseteq Blocks
        /\ block_num' \in [Threads -> [Classes -> -128 .. 127]]
    BY <1>1, <1>2 DEF IInv, TypeOK
  <2> QED
    BY <1>1, <2>1, <2>2 DEF IInv, TypeOK, mpool, pools, spans, locals
<1>4. CutInv' /\ OutInv'
  BY <1>1 DEF IInv, CutInv, OutInv, TypeOK, pools, spans
<1>5. FreeingInv' /\ LockInv' /\ PassedInv'
  BY <1>1 DEF IInv, FreeingInv, LockInv, PassedInv, pools, spans, locals
<1> QED
  BY <1>3, <1>4, <1>5 DEF IInv

-----------------------------------------------------------------------------
\* Every step keeps the invariant of the first part.
LEMMA NextIInv == IInv /\ [Next]_vars => IInv'
<1> SUFFICES ASSUME IInv, [Next]_vars PROVE IInv'
  OBVIOUS
<1>1. CASE Next
  <2>1. PICK t \in Threads : \/ \E size \in Sizes : Malloc(t, size)
                             \/ \E b \in held : Free(t, b)
                             \/ Exit(t)
                             \/ Step(t)
    BY <1>1 DEF Next
  <2>2. CASE \E size \in Sizes : Malloc(t, size)
    BY <2>2, MallocKeeps
  <2>3. CASE \E b \in held : Free(t, b)
    BY <2>3, FreeKeeps
  <2>4. CASE Exit(t)
    BY <2>4, ExitKeeps
  <2>5. CASE Step(t)
    BY <2>5, TryLockKeeps, WaitLockKeeps, SPoolInitKeeps, RefillKeeps, FreeLocksKeep,
       FreePutKeeps, FreeRereadKeeps DEF Step
  <2> QED
    BY <2>1, <2>2, <2>3, <2>4, <2>5
<1>2. CASE UNCHANGED vars
  <2>1. TypeOK'
    BY <1>2 DEF IInv, TypeOK, vars, mpool, pools, spans, caches, locals
  <2>2. CutInv' /\ OutInv' /\ FreeingInv' /\ LockInv' /\ PassedInv'
    BY <1>2 DEF IInv, CutInv, OutInv, FreeingInv, LockInv, PassedInv, vars, pools, spans, caches,
                locals
  <2> QED
    BY <2>1, <2>2 DEF IInv
<1> QED
  BY <1>1, <1>2

\* The inductive invariant of small_malloc and small_block_free.
THEOREM SmallHeapInvariance == Spec => []IInv
  BY InitIInv, NextIInv, PTL DEF Spec

\* Every variable of the small heaps keeps its type, for any number of
\* threads, pools, sizes and pages.
THEOREM SmallHeapTypeCorrect == Spec => []TypeOK
<1>1. IInv => TypeOK
  BY DEF IInv
<1> QED
  BY <1>1, SmallHeapInvariance, PTL

\* block_get_from_spool only ever runs on an initialised pool, also for the
\* thread that waited for the first pool and did not look at inited.
THEOREM RefillsAreInited == Spec => []FallbackInited
<1>1. IInv => FallbackInited
  BY DEF IInv, LockInv, FallbackInited
<1> QED
  BY <1>1, SmallHeapInvariance, PTL

-----------------------------------------------------------------------------
\* 2. Blocks, spans, caches and lists.

\* b is in none of the spans' lists.
IsOut(b) ==
  \/ b \in held \/ b \in lost
  \/ \E t \in Threads : \E i \in Classes : b \in lcache[t][i]
  \/ \E t \in Freeing : b = ptr[t]

\* A block that is out is in one place.
Apart ==
  /\ \A b \in held : /\ b \notin lost
                     /\ \A t \in Threads : \A i \in Classes : b \notin lcache[t][i]
                     /\ \A t \in Freeing : b # ptr[t]
  /\ \A b \in lost : /\ \A t \in Threads : \A i \in Classes : b \notin lcache[t][i]
                     /\ \A t \in Freeing : b # ptr[t]
  /\ \A t \in Threads : \A i \in Classes : \A b \in lcache[t][i] :
       /\ \A u \in Threads : \A j \in Classes : b \in lcache[u][j] => u = t /\ j = i
       /\ \A u \in Freeing : b # ptr[u]
  /\ \A t, u \in Freeing : ptr[t] = ptr[u] => t = u

\* What is out was cut out of its span as the span is cut now.
OutCut ==
  \A b \in Blocks : IsOut(b) =>
    /\ b.span \notin mpool_list /\ block_index[b.span] \in Classes
    /\ b \in Cut(b.span, block_index[b.span])

\* A span that is cut and in use has every block of it in its list or out.
SpanInv ==
  \A s \in Pages :
    /\ s \in mpool_list => block_index[s] \in Classes /\ block_free_list[s] = {}
    /\ block_index[s] \in Classes => /\ total_block_num[s] = Count(block_index[s])
                                     /\ block_free_list[s] \subseteq Cut(s, block_index[s])
    /\ block_index[s] \notin Classes => total_block_num[s] = 0
    /\ s \notin mpool_list => free_block_num[s] = Cardinality(block_free_list[s])
    /\ s \notin mpool_list /\ block_index[s] \in Classes =>
         \A b \in Cut(s, block_index[s]) : b \in block_free_list[s] <=> ~IsOut(b)

\* Pages that no one has taken yet: the end of the heap, and of the pools'
\* chunks, which lie apart.  They were never cut.
Unused(s) == s >= free_start \/ \E p \in Pools : s_free[p] <= s /\ s < s_end[p]
\* The pools' chunks are apart, and a page that was never used was never cut.
ChunkInv ==
  /\ \A p \in Pools : s_end[p] <= free_start
  /\ \A p, q \in Pools : p # q => s_end[p] <= s_free[q] \/ s_end[q] <= s_free[p]
  /\ \A s \in Pages : Unused(s) => block_index[s] \notin Classes

\* A call of mem_free that puts its block back has its span's pool locked.
TargetInv ==
  \A t \in Freeing : /\ target[t] = spool[ptr[t].span]
                     /\ pc[t] = "fput" => lock[target[t]] = t

\* A thread's cache and its count; a call goes to a pool with an empty cache.
CacheInv ==
  \A t \in Threads :
    /\ \A i \in Classes :
         /\ IsFiniteSet(lcache[t][i])
         /\ Count(i) > 0 => /\ block_num[t][i] = Cardinality(lcache[t][i])
                            /\ block_num[t][i] <= 2 * bn
    /\ pc[t] \in {"scan", "wait", "init", "refill"} => lcache[t][index[t]] = {}

\* The invariant of the second part.
SInv == Apart /\ OutCut /\ SpanInv /\ ChunkInv /\ TargetInv /\ CacheInv /\ PoolListsSound

-----------------------------------------------------------------------------
\* A page is cut into as many blocks as total_block_num says, all of its class.
LEMMA CutFinite ==
  ASSUME NEW s \in Pages, NEW i \in Classes
  PROVE  /\ IsFiniteSet(Cut(s, i)) /\ Cardinality(Cut(s, i)) = Count(i)
         /\ \A b \in Cut(s, i) : b.span = s /\ b.class = i
<1> DEFINE f == [k \in 1 .. Count(i) |-> Block(s, i, k)]
<1>1. Count(i) \in Nat
  BY CountNat
<1>2. f \in Bijection(1 .. Count(i), Cut(s, i))
  <2>1. \A k \in 1 .. Count(i) : f[k] = Block(s, i, k) /\ Block(s, i, k).num = k
    BY DEF Block
  <2>2. f \in [1 .. Count(i) -> Cut(s, i)]
    BY DEF Cut
  <2>3. \A b \in Cut(s, i) : \E k \in 1 .. Count(i) : f[k] = b
    BY DEF Cut
  <2>4. \A k, m \in 1 .. Count(i) : f[k] = f[m] => k = m
    BY <2>1
  <2> QED
    BY <2>2, <2>3, <2>4 DEF Bijection, Injection, Surjection, IsInjective
<1>3. IsFiniteSet(1 .. Count(i)) /\ Cardinality(1 .. Count(i)) = Count(i)
  BY <1>1, FS_Interval
<1>4. IsFiniteSet(Cut(s, i)) /\ Cardinality(Cut(s, i)) = Count(i)
  BY <1>2, <1>3, FS_Bijection, Zenon DEF ExistsBijection
<1> QED
  BY <1>4 DEF Cut, Block

\* A class that gets no block has none, and every block is of its span's cut.
LEMMA BlockCut == ASSUME NEW b \in Blocks PROVE b \in Cut(b.span, b.class) /\ b.class \in Classes
<1>1. PICK s \in Pages, i \in Classes : b \in Cut(s, i)
  BY DEF Blocks
<1> QED
  BY <1>1, CutFinite

\* What block_get_from_spool takes of f free blocks: bn of them, or all.
LEMMA CountTaken ==
  \A f \in Nat : LET m == IF f < bn THEN f ELSE bn
                IN  m \in Nat /\ m <= f /\ f - m \in Nat /\ (m = 0 <=> f = 0)
  BY SmallAssumption

\* Up to 127 a signed char keeps the count.
LEMMA CharSmall == \A x \in 0 .. 127 : Char(x) = x
  BY DEF Char

\* Steps that move a block from one place outside the lists to another.
LEMMA SameOut ==
  ASSUME SInv, UNCHANGED <<mpool, spans, s_free, s_end>>, \A b \in Blocks : IsOut(b)' <=> IsOut(b)
  PROVE  OutCut' /\ SpanInv' /\ ChunkInv'
<1>1. OutCut'
  BY DEF SInv, OutCut, mpool, spans
<1>2. SpanInv'
  <2>1. ASSUME NEW s \in Pages, block_index[s] \in Classes, NEW b \in Cut(s, block_index[s])
        PROVE  IsOut(b)' <=> IsOut(b)
    BY <2>1, CutBlocks
  <2> QED
    BY <2>1 DEF SInv, SpanInv, mpool, spans
<1>3. ChunkInv'
  BY DEF SInv, ChunkInv, Unused, mpool, spans
<1> QED
  BY <1>1, <1>2, <1>3

\* A frozen pool stays frozen, and the lists of the others are as they were.
LEMMA SameLists ==
  ASSUME SInv, UNCHANGED <<mpool_list, span_free_list, spans>>,
         \A p \in Pools : Frozen(p) => Frozen(p)'
  PROVE  PoolListsSound'
  BY DEF SInv, PoolListsSound, spans

\* The invariant holds at the start.
LEMMA InitSInv == Init => SInv
<1> SUFFICES ASSUME Init PROVE SInv
  OBVIOUS
<1>1. \A b : ~IsOut(b)
  BY DEF Init, IsOut, Freeing
<1>2. Apart /\ TargetInv
  BY DEF Init, Apart, TargetInv, Freeing
<1>3. OutCut
  BY <1>1 DEF OutCut
<1>4. \A s \in Pages : block_index[s] = -1 /\ block_index[s] \notin Classes
  BY ClassesNat DEF Init
<1>5. SpanInv
  BY <1>4, FS_EmptySet DEF Init, SpanInv
<1>6. ChunkInv
  BY <1>4, SmallAssumption DEF Init, ChunkInv, Pools
<1>7. CacheInv
  BY FS_EmptySet, SmallAssumption DEF Init, CacheInv
<1>8. PoolListsSound
  BY <1>4 DEF Init, PoolListsSound
<1> QED
  BY <1>2, <1>3, <1>5, <1>6, <1>7, <1>8 DEF SInv

-----------------------------------------------------------------------------
\* A block that mem_malloc takes from the cache moves to the application.
LEMMA MallocSafe ==
  ASSUME IInv, SInv, NEW t \in Threads, NEW size \in Sizes, Malloc(t, size)
  PROVE  SInv'
<1> DEFINE i == size_cls(size)
<1>1. /\ i \in Classes /\ pc[t] = "idle"
      /\ UNCHANGED <<mpool, pools, lock, spans, lost>>
  BY DEF Classes, Malloc
<1> HIDE DEF i
<1>2. CASE lcache[t][i] = {}
  <2>1. /\ pc' = [pc EXCEPT ![t] = "scan"] /\ index' = [index EXCEPT ![t] = i]
        /\ cur' = [cur EXCEPT ![t] = First]
        /\ UNCHANGED <<lcache, block_num, held, ptr, target>>
    BY <1>2 DEF Malloc, Goto, i
  <2>2. Freeing' = Freeing /\ \A u \in Freeing : pc'[u] = pc[u]
    BY <1>1, <2>1 DEF IInv, TypeOK, Freeing
  <2>3. \A b \in Blocks : IsOut(b)' <=> IsOut(b)
    BY <1>1, <2>1, <2>2 DEF IsOut
  <2>4. Apart' /\ TargetInv'
    BY <1>1, <2>1, <2>2 DEF SInv, Apart, TargetInv, spans
  <2>5. CacheInv'
    BY <1>1, <1>2, <2>1 DEF IInv, TypeOK, SInv, CacheInv
  <2>6. \A p \in Pools : Frozen(p) => Frozen(p)'
    BY <1>1, <2>1 DEF IInv, TypeOK, Frozen
  <2> QED
    BY <1>1, <2>3, <2>4, <2>5, <2>6, SameOut, SameLists DEF SInv, pools, mpool
<1>3. CASE lcache[t][i] # {}
  <2>1. PICK b \in lcache[t][i] : /\ lcache' = [lcache EXCEPT ![t][i] = @ \ {b}]
                                  /\ held' = held \cup {b}
                                  /\ block_num' = [block_num EXCEPT ![t][i] = Char(@ - 1)]
                                  /\ UNCHANGED locals
    BY <1>3 DEF Malloc, i
  <2>2. Freeing' = Freeing /\ UNCHANGED <<pc, index, cur, ptr, target>>
    BY <2>1 DEF Freeing, locals
  <2>3. \A u \in Threads : \A j \in Classes :
          lcache'[u][j] = IF u = t /\ j = i THEN lcache[t][i] \ {b} ELSE lcache[u][j]
    BY <1>1, <2>1 DEF IInv, TypeOK
  <2>4. \A c \in Blocks : IsOut(c)' <=> IsOut(c)
    BY <1>1, <2>1, <2>2, <2>3 DEF IsOut
  <2>5. Apart'
    BY <1>1, <2>1, <2>2, <2>3 DEF SInv, Apart
  <2>6. TargetInv'
    BY <1>1, <2>2 DEF SInv, TargetInv, spans
  <2>7. CacheInv'
    <3>1. /\ IsFiniteSet(lcache[t][i] \ {b})
          /\ Cardinality(lcache[t][i] \ {b}) = Cardinality(lcache[t][i]) - 1
          /\ Cardinality(lcache[t][i]) \in Nat
      BY <1>1, FS_RemoveElement, FS_CardinalityType DEF SInv, CacheInv
    <3>2. \A u \in Threads : \A j \in Classes :
            block_num'[u][j] = IF u = t /\ j = i THEN Char(block_num[t][i] - 1) ELSE block_num[u][j]
      BY <1>1, <2>1 DEF IInv, TypeOK
    <3>3. Count(i) > 0 => /\ Char(block_num[t][i] - 1) = Cardinality(lcache[t][i] \ {b})
                          /\ Char(block_num[t][i] - 1) <= 2 * bn
      <4> SUFFICES ASSUME Count(i) > 0
                   PROVE  /\ Char(block_num[t][i] - 1) = Cardinality(lcache[t][i] \ {b})
                          /\ Char(block_num[t][i] - 1) <= 2 * bn
        OBVIOUS
      <4>1. block_num[t][i] = Cardinality(lcache[t][i]) /\ block_num[t][i] <= 2 * bn
        BY <1>1 DEF SInv, CacheInv
      <4>2. Cardinality(lcache[t][i]) # 0
        BY <1>1, <1>3, FS_EmptySet DEF SInv, CacheInv
      <4>3. block_num[t][i] - 1 \in 0 .. 126
        BY <3>1, <4>1, <4>2, SmallAssumption
      <4>4. Char(block_num[t][i] - 1) = block_num[t][i] - 1
        BY <4>3, CharSmall
      <4> QED
        BY <3>1, <4>1, <4>3, <4>4, SmallAssumption
    <3>4. ASSUME NEW u \in Threads, pc[u] \in {"scan", "wait", "init", "refill"}
          PROVE  lcache'[u][index[u]] = {}
      BY <1>1, <2>3, <3>4 DEF IInv, LockInv, SInv, CacheInv
    <3> QED
      BY <2>2, <2>3, <3>1, <3>2, <3>3, <3>4 DEF SInv, CacheInv
  <2>8. \A p \in Pools : Frozen(p) => Frozen(p)'
    BY <1>1, <2>2 DEF Frozen
  <2> QED
    BY <1>1, <2>4, <2>5, <2>6, <2>7, <2>8, SameOut, SameLists DEF SInv, pools, mpool
<1> QED
  BY <1>2, <1>3

\* A block that mem_free gets moves to the cache or into the call.
LEMMA FreeSafe ==
  ASSUME IInv, SInv, NEW t \in Threads, NEW b \in held, Free(t, b)
  PROVE  SInv'
<1>1. CASE FreeUnready(t, b)
  <2>1. UNCHANGED <<mpool, pools, lock, spans, caches, held, lost, locals>>
    BY <1>1 DEF FreeUnready
  <2> QED
    BY <2>1 DEF SInv, Apart, OutCut, SpanInv, ChunkInv, TargetInv, CacheInv, PoolListsSound, Unused,
                IsOut, Freeing, Frozen, mpool, pools, spans, caches, locals
<1>2. CASE FreeToCache(t, b)
  <2> DEFINE i == block_index[b.span]
  <2>1. b \in Blocks /\ i \in Classes /\ b \in Cut(b.span, i)
    BY <1>2, HeldBlock DEF FreeToCache, IInv, OutInv, SInv, OutCut, IsOut
  <2>2. /\ lcache' = [lcache EXCEPT ![t][i] = @ \cup {b}]
        /\ block_num' = [block_num EXCEPT ![t][i] = Char(@ + 1)]
        /\ held' = held \ {b} /\ pc[t] = "idle" /\ ~(block_num[t][i] >= 2 * bn)
        /\ UNCHANGED <<mpool, pools, lock, spans, lost>>
    BY <1>2 DEF FreeToCache, CacheFull
  <2>3. Freeing' = Freeing /\ UNCHANGED <<pc, index, cur, ptr, target>>
    BY <1>2 DEF FreeToCache, Freeing, locals
  <2>4. i \in Classes /\ b.span \in Pages /\ Count(i) > 0
    BY <2>1, BlockSpan, CountNat DEF Cut
  <2> HIDE DEF i
  <2>5. \A u \in Threads : \A j \in Classes :
          /\ lcache'[u][j] = IF u = t /\ j = i THEN lcache[t][i] \cup {b} ELSE lcache[u][j]
          /\ block_num'[u][j] = IF u = t /\ j = i THEN Char(block_num[t][i] + 1)
                                                ELSE block_num[u][j]
    BY <2>2, <2>4 DEF IInv, TypeOK
  <2>6. \A c \in Blocks : IsOut(c)' <=> IsOut(c)
    BY <2>2, <2>3, <2>4, <2>5 DEF IsOut
  <2>7. Apart'
    BY <2>2, <2>3, <2>4, <2>5 DEF SInv, Apart
  <2>8. TargetInv'
    BY <2>2, <2>3 DEF SInv, TargetInv, spans
  <2>9. CacheInv'
    <3>1. /\ IsFiniteSet(lcache[t][i] \cup {b})
          /\ Cardinality(lcache[t][i] \cup {b}) = Cardinality(lcache[t][i]) + 1
          /\ Cardinality(lcache[t][i]) \in Nat
      <4>1. IsFiniteSet(lcache[t][i]) /\ b \notin lcache[t][i]
        BY <2>4 DEF SInv, CacheInv, Apart
      <4> QED
        BY <4>1, FS_AddElement, FS_CardinalityType
    <3>2. /\ Char(block_num[t][i] + 1) = Cardinality(lcache[t][i] \cup {b})
          /\ Char(block_num[t][i] + 1) <= 2 * bn
      <4>1. block_num[t][i] = Cardinality(lcache[t][i])
        BY <2>4 DEF SInv, CacheInv
      <4>2. block_num[t][i] + 1 \in 0 .. 126 /\ block_num[t][i] + 1 <= 2 * bn
        BY <2>2, <3>1, <4>1, SmallAssumption
      <4>3. Char(block_num[t][i] + 1) = block_num[t][i] + 1
        BY <4>2, CharSmall
      <4> QED
        BY <3>1, <4>1, <4>2, <4>3
    <3>3. ASSUME NEW u \in Threads, pc[u] \in {"scan", "wait", "init", "refill"}
          PROVE  lcache'[u][index[u]] = {}
      BY <2>2, <2>5, <3>3 DEF IInv, LockInv, SInv, CacheInv
    <3> QED
      BY <2>3, <2>5, <3>1, <3>2, <3>3 DEF SInv, CacheInv
  <2>10. \A p \in Pools : Frozen(p) => Frozen(p)'
    BY <2>2, <2>3 DEF Frozen
  <2> QED
    BY <2>2, <2>6, <2>7, <2>8, <2>9, <2>10, SameOut, SameLists DEF SInv, pools, mpool
<1>3. CASE FreeToPool(t, b)
  <2>1. b \in Blocks
    BY <1>3, HeldBlock DEF FreeToPool, IInv
  <2>2. /\ pc[t] = "idle" /\ pc' = [pc EXCEPT ![t] = "flock"]
        /\ ptr' = [ptr EXCEPT ![t] = b] /\ target' = [target EXCEPT ![t] = spool[b.span]]
        /\ index' = [index EXCEPT ![t] = block_index[b.span]]
        /\ held' = held \ {b}
        /\ UNCHANGED <<mpool, pools, lock, spans, caches, cur, lost>>
    BY <1>3 DEF FreeToPool, Goto
  <2>3. t \notin Freeing /\ Freeing' = Freeing \cup {t}
    BY <2>2 DEF IInv, TypeOK, Freeing
  <2>4. ptr'[t] = b /\ target'[t] = spool[b.span] /\ pc'[t] = "flock"
    BY <2>2 DEF IInv, TypeOK
  <2>5. \A u \in Freeing : ptr'[u] = ptr[u] /\ target'[u] = target[u] /\ pc'[u] = pc[u]
    BY <2>2, <2>3 DEF IInv, TypeOK, Freeing
  <2>6. \A c \in Blocks : IsOut(c)' <=> IsOut(c)
    BY <2>2, <2>3, <2>4, <2>5 DEF IsOut, caches
  <2>7. Apart'
    BY <2>2, <2>3, <2>4, <2>5 DEF SInv, Apart, caches
  <2>8. TargetInv'
    BY <2>2, <2>3, <2>4, <2>5 DEF SInv, TargetInv, spans
  <2>9. CacheInv'
    BY <2>2 DEF IInv, TypeOK, SInv, CacheInv, caches
  <2>10. \A p \in Pools : Frozen(p) => Frozen(p)'
    BY <2>2 DEF IInv, TypeOK, Frozen
  <2> QED
    BY <2>2, <2>6, <2>7, <2>8, <2>9, <2>10, SameOut, SameLists DEF SInv, pools, mpool
<1>4. CASE FreeHead(t, b)
  <2>1. held' = held \ {b} /\ b \notin Blocks
        /\ UNCHANGED <<mpool, pools, lock, spans, caches, lost, locals>>
    BY <1>4, BlockSpan DEF FreeHead
  <2>2. Freeing' = Freeing /\ UNCHANGED <<pc, index, cur, ptr, target, lcache, block_num>>
    BY <2>1 DEF Freeing, locals, caches
  <2>3. \A c \in Blocks : IsOut(c)' <=> IsOut(c)
    BY <2>1, <2>2 DEF IsOut
  <2>4. Apart' /\ TargetInv' /\ CacheInv'
    BY <2>1, <2>2 DEF SInv, Apart, TargetInv, CacheInv, spans
  <2>5. \A p \in Pools : Frozen(p) => Frozen(p)'
    BY <2>1, <2>2 DEF Frozen
  <2> QED
    BY <2>1, <2>3, <2>4, <2>5, SameOut, SameLists DEF SInv, pools, mpool
<1> QED
  BY <1>1, <1>2, <1>3, <1>4 DEF Free

-----------------------------------------------------------------------------
\* The locks: no block moves.
LEMMA LockSafe ==
  ASSUME IInv, SInv, NEW t \in Threads, TryLock(t) \/ WaitLock(t)
  PROVE  SInv'
<1>1. /\ pc[t] \in {"scan", "wait"} /\ lcache[t][index[t]] = {}
      /\ \E q \in {"init", "refill", "wait", "scan"} : pc' = [pc EXCEPT ![t] = q]
      /\ UNCHANGED <<mpool, pools, spans, caches, held, index, ptr, target, lost>>
  <2>1. /\ pc[t] \in {"scan", "wait"}
        /\ UNCHANGED <<mpool, pools, spans, caches, held, index, ptr, target, lost>>
    BY DEF TryLock, WaitLock
  <2>2. \/ pc' = [pc EXCEPT ![t] = pc[t]]
        \/ \E q \in {"init", "refill", "wait"} : pc' = [pc EXCEPT ![t] = q]
    BY DEF TryLock, WaitLock, Busy, Enter, Goto, IInv, TypeOK
  <2> QED
    BY <2>1, <2>2 DEF SInv, CacheInv
<1>2. Freeing' = Freeing /\ \A u \in Freeing : pc'[u] = pc[u]
  BY <1>1 DEF IInv, TypeOK, Freeing
<1>3. \A b \in Blocks : IsOut(b)' <=> IsOut(b)
  BY <1>1, <1>2 DEF IsOut, caches
<1>4. Apart'
  BY <1>1, <1>2 DEF SInv, Apart, caches
<1>5. CacheInv'
  BY <1>1 DEF IInv, TypeOK, SInv, CacheInv, caches
<1>6. \A p \in Pools : lock[p] # NoOne => lock'[p] = lock[p]
  BY ThreadsAssumption DEF TryLock, WaitLock, IInv, TypeOK
<1>7. TargetInv'
  <2>1. ASSUME NEW u \in Freeing, pc[u] = "fput" PROVE lock'[target[u]] = u
    <3>1. u \in Threads /\ lock[target[u]] = u /\ target[u] \in Pools
      BY <2>1 DEF SInv, TargetInv, Freeing, IInv, FreeingInv
    <3> QED
      BY <1>6, <3>1, ThreadsAssumption
  <2> QED
    BY <1>1, <1>2, <2>1 DEF SInv, TargetInv, spans
<1>8. ASSUME NEW p \in Pools, Frozen(p) PROVE Frozen(p)'
  <2>1. lock'[p] = lock[p] /\ lock[p] \in Threads
    BY <1>6, <1>8 DEF Frozen, IInv, TypeOK
  <2>2. CASE lock[p] # t
    BY <1>1, <1>8, <2>1, <2>2 DEF Frozen, IInv, TypeOK, TryLock, WaitLock, Busy
  <2>3. CASE lock[p] = t
    <3>1. cur'[t] = p => pc'[t] \notin {"init", "refill"}
      <4>1. CASE lock[cur[t]] = NoOne
        BY <2>1, <2>3, <4>1, ThreadsAssumption DEF TryLock, WaitLock, IInv, TypeOK
      <4>2. CASE lock[cur[t]] # NoOne
        BY <4>2 DEF TryLock, WaitLock, Busy, Goto, IInv, TypeOK
      <4> QED
        BY <4>1, <4>2
    <3> QED
      BY <1>8, <2>1, <2>3, <3>1 DEF Frozen
  <2> QED
    BY <2>2, <2>3
<1> QED
  BY <1>1, <1>3, <1>4, <1>5, <1>7, <1>8, SameOut, SameLists DEF SInv, pools, mpool

\* A pool's chunk is fresh pages.
LEMMA SPoolInitSafe ==
  ASSUME IInv, SInv, NEW t \in Threads, SPoolInit(t)
  PROVE  SInv'
<1> DEFINE p == cur[t]
<1>1. /\ p \in Pools /\ pc[t] = "init" /\ pc' = [pc EXCEPT ![t] = "refill"]
      /\ s_free' = [s_free EXCEPT ![p] = free_start]
      /\ s_end' = [s_end EXCEPT ![p] = free_start + INIT_S_POOL_SPAN_NUM]
      /\ free_start' = free_start + INIT_S_POOL_SPAN_NUM
      /\ UNCHANGED <<mpool_list, span_free_list, lock, spans, caches, held, index, cur, ptr, target,
                     lost>>
  BY DEF SPoolInit, Goto, IInv, TypeOK
<1> HIDE DEF p
<1>2. Freeing' = Freeing /\ \A u \in Freeing : pc'[u] = pc[u]
  BY <1>1 DEF IInv, TypeOK, Freeing
<1>3. \A b \in Blocks : IsOut(b)' <=> IsOut(b)
  BY <1>1, <1>2 DEF IsOut, caches
<1>4. Apart' /\ TargetInv'
  BY <1>1, <1>2 DEF SInv, Apart, TargetInv, caches, spans
<1>5. CacheInv'
  BY <1>1 DEF IInv, TypeOK, SInv, CacheInv, caches
<1>6. OutCut'
  BY <1>1, <1>3 DEF SInv, OutCut, spans
<1>7. SpanInv'
  <2>1. ASSUME NEW s \in Pages, block_index[s] \in Classes, NEW b \in Cut(s, block_index[s])
        PROVE  IsOut(b)' <=> IsOut(b)
    BY <1>3, <2>1, CutBlocks
  <2> QED
    BY <1>1, <2>1 DEF SInv, SpanInv, spans
<1>8. ChunkInv'
  <2>1. /\ free_start \in Nat /\ INIT_S_POOL_SPAN_NUM \in Nat
        /\ \A q \in Pools : s_free[q] \in Nat /\ s_end[q] \in Nat
        /\ \A q \in Pools : s_free'[q] = IF q = p THEN free_start ELSE s_free[q]
        /\ \A q \in Pools : s_end'[q] = IF q = p THEN free_start' ELSE s_end[q]
    BY <1>1, SmallAssumption DEF IInv, TypeOK
  <2>2. \A q \in Pools : s_end'[q] <= free_start'
    BY <1>1, <2>1 DEF SInv, ChunkInv
  <2>3. \A q, r \in Pools : q # r => s_end'[q] <= s_free'[r] \/ s_end'[r] <= s_free'[q]
    BY <1>1, <2>1 DEF SInv, ChunkInv
  <2>4. ASSUME NEW s \in Pages, Unused(s)' PROVE Unused(s)
    <3>1. s \in Nat
      BY SmallAssumption DEF Pages
    <3> QED
      BY <1>1, <2>1, <2>4, <3>1 DEF Unused
  <2> QED
    BY <1>1, <2>2, <2>3, <2>4 DEF SInv, ChunkInv, spans
<1>9. \A q \in Pools : Frozen(q) => Frozen(q)'
  BY <1>1 DEF IInv, TypeOK, Frozen
<1> QED
  BY <1>1, <1>4, <1>5, <1>6, <1>7, <1>8, <1>9, SameLists DEF SInv

\* The steps of a free that only take locks move no block.
LEMMA FreeLocksSafe ==
  ASSUME IInv, SInv, NEW t \in Threads, FreeLock(t) \/ FreeReread(t) \/ FreeRelock(t)
  PROVE  SInv'
<1>1. /\ pc[t] \in {"flock", "freread", "frelock"}
      /\ UNCHANGED <<mpool, pools, spans, caches, held, index, cur, lost>>
      /\ \A u \in Threads \ {t} : pc'[u] = pc[u] /\ ptr'[u] = ptr[u] /\ target'[u] = target[u]
      /\ pc[t] = "flock" =>
           /\ pc'[t] = "fput" /\ lock'[target[t]] = t /\ ptr'[t] = ptr[t] /\ target'[t] = target[t]
      /\ pc[t] # "flock" => pc'[t] \in {"frelock", "idle"}
      /\ \A p \in Pools : lock[p] # NoOne => lock'[p] = lock[p]
  <2>1. target[t] \in Pools \/ pc[t] \notin {"flock", "freread", "frelock"}
    BY DEF IInv, FreeingInv
  <2> QED
    BY <2>1 DEF FreeLock, FreeReread, FreeRelock, Goto, IInv, TypeOK
<1>2. /\ Freeing' = Freeing
      /\ \A u \in Freeing : ptr'[u] = ptr[u] /\ target'[u] = target[u]
  BY <1>1 DEF Freeing
<1>3. \A b \in Blocks : IsOut(b)' <=> IsOut(b)
  BY <1>1, <1>2 DEF IsOut, caches
<1>4. Apart'
  BY <1>1, <1>2 DEF SInv, Apart, caches
<1>5. CacheInv'
  BY <1>1 DEF SInv, CacheInv, caches
<1>6. TargetInv'
  <2>1. ASSUME NEW u \in Freeing, pc'[u] = "fput" PROVE lock'[target[u]] = u
    <3>1. CASE u = t
      BY <1>1, <2>1, <3>1
    <3>2. CASE u # t
      <4>1. u \in Threads /\ pc[u] = "fput" /\ lock[target[u]] = u /\ target[u] \in Pools
        BY <1>1, <2>1, <3>2 DEF SInv, TargetInv, Freeing, IInv, FreeingInv
      <4> QED
        BY <1>1, <4>1, ThreadsAssumption
    <3> QED
      BY <3>1, <3>2
  <2> QED
    BY <1>1, <1>2, <2>1 DEF SInv, TargetInv, spans
<1>7. ASSUME NEW p \in Pools, Frozen(p) PROVE Frozen(p)'
  <2>1. lock'[p] = lock[p] /\ lock[p] \in Threads
    BY <1>1, <1>7 DEF Frozen, IInv, TypeOK
  <2> QED
    BY <1>1, <1>7, <2>1 DEF Frozen
<1> QED
  BY <1>1, <1>3, <1>4, <1>5, <1>6, <1>7, SameOut, SameLists DEF SInv, pools, mpool

\* What a thread has cached is lost when it ends.
LEMMA ExitSafe ==
  ASSUME IInv, SInv, NEW t \in Threads, Exit(t)
  PROVE  SInv'
<1> DEFINE cached == UNION {lcache[t][i] : i \in Classes}
<1>1. /\ pc[t] = "idle"
      /\ lcache' = [lcache EXCEPT ![t] = [i \in Classes |-> {}]]
      /\ block_num' = [block_num EXCEPT ![t] = [i \in Classes |-> 0]]
      /\ lost' = lost \cup cached
      /\ UNCHANGED <<mpool, pools, lock, spans, held, locals>>
  BY DEF Exit
<1>2. /\ Freeing' = Freeing /\ UNCHANGED <<pc, index, cur, ptr, target>>
      /\ \A u \in Threads : \A i \in Classes :
           /\ lcache'[u][i] = IF u = t THEN {} ELSE lcache[u][i]
           /\ block_num'[u][i] = IF u = t THEN 0 ELSE block_num[u][i]
      /\ \A b : b \in lost' <=> b \in lost \/ \E i \in Classes : b \in lcache[t][i]
  BY <1>1 DEF IInv, TypeOK, Freeing, locals
<1> HIDE DEF cached
<1>3. \A b \in Blocks : IsOut(b)' <=> IsOut(b)
  BY <1>1, <1>2 DEF IsOut
<1>4. Apart'
  BY <1>1, <1>2 DEF SInv, Apart
<1>5. TargetInv'
  BY <1>1, <1>2 DEF SInv, TargetInv, spans
<1>6. CacheInv'
  BY <1>1, <1>2, FS_EmptySet, SmallAssumption DEF SInv, CacheInv, IInv, LockInv
<1>7. \A p \in Pools : Frozen(p) => Frozen(p)'
  BY <1>1, <1>2 DEF Frozen
<1> QED
  BY <1>1, <1>3, <1>4, <1>5, <1>6, <1>7, SameOut, SameLists DEF SInv, pools, mpool

-----------------------------------------------------------------------------
\* The last block that comes back completes the span: its list and the block
\* are as many as the span has, hence all of them.
LEMMA FreePutSafe ==
  ASSUME IInv, SInv, NEW t \in Threads, FreePut(t)
  PROVE  SInv'
<1> DEFINE b    == ptr[t]
           s    == ptr[t].span
           i    == block_index[s]
           list == block_free_list[s]
           full == free_block_num[s] + 1 = total_block_num[s]
<1>1. /\ t \in Freeing /\ b \in Blocks /\ s \in Pages /\ IsOut(b)
      /\ s \notin mpool_list /\ i \in Classes /\ b \in Cut(s, i)
      /\ target[t] = spool[s] /\ lock[spool[s]] = t /\ spool[s] \in Pools
  <2>1. t \in Freeing /\ b \in Blocks /\ s \in Pages
    BY BlockSpan DEF FreePut, Freeing, IInv, FreeingInv
  <2>2. IsOut(b)
    BY <2>1 DEF IsOut
  <2>3. target[t] = spool[s] /\ lock[spool[s]] = t /\ target[t] \in Pools
    BY <2>1 DEF FreePut, SInv, TargetInv, IInv, FreeingInv
  <2> QED
    BY <2>1, <2>2, <2>3 DEF SInv, OutCut
<1>2. /\ free_block_num' = [free_block_num EXCEPT ![s] = free_block_num[s] + 1]
      /\ block_free_list' = [block_free_list EXCEPT ![s] = IF full THEN {} ELSE list \cup {b}]
      /\ mpool_list' = IF full THEN mpool_list \cup {s} ELSE mpool_list
      /\ \A p \in Pools : p # spool[s] => span_free_list'[p] = span_free_list[p]
      /\ pc[t] = "fput" /\ pc' = [pc EXCEPT ![t] = "freread"]
      /\ UNCHANGED <<free_start, inited, s_free, s_end, lock, spool, block_index, total_block_num,
                     caches, held, index, cur, ptr, target, lost>>
  BY <1>1 DEF FreePut, Goto, IInv, TypeOK
<1>3. /\ free_block_num' = [u \in Pages |-> IF u = s THEN free_block_num[s] + 1
                                                     ELSE free_block_num[u]]
      /\ block_free_list' = [u \in Pages |-> IF u # s THEN block_free_list[u]
                                              ELSE IF full THEN {} ELSE list \cup {b}]
  BY <1>1, <1>2 DEF IInv, TypeOK
<1>4. /\ list \subseteq Cut(s, i) /\ b \notin list /\ free_block_num[s] = Cardinality(list)
      /\ total_block_num[s] = Count(i)
      /\ \A c \in Cut(s, i) : c \in list <=> ~IsOut(c)
  BY <1>1 DEF SInv, SpanInv
<1>5. /\ Cardinality(list \cup {b}) = free_block_num[s] + 1
      /\ full => list \cup {b} = Cut(s, i)
  <2>1. IsFiniteSet(Cut(s, i)) /\ Cardinality(Cut(s, i)) = Count(i)
    BY <1>1, CutFinite
  <2>2. IsFiniteSet(list)
    BY <1>4, <2>1, FS_Subset
  <2>3. Cardinality(list \cup {b}) = Cardinality(list) + 1
    BY <1>4, <2>2, FS_AddElement
  <2>4. Cardinality(list \cup {b}) = Cardinality(Cut(s, i)) => list \cup {b} = Cut(s, i)
    BY <1>1, <1>4, <2>1, FS_Subset
  <2> QED
    BY <1>4, <2>1, <2>3, <2>4
<1> HIDE DEF b, s, i, list, full
<1>6. Freeing' = Freeing \ {t} /\ \A u \in Freeing \ {t} : pc'[u] = pc[u]
  BY <1>2 DEF IInv, TypeOK, Freeing
<1>7. \A c \in Blocks : IsOut(c)' <=> IsOut(c) /\ c # b
  <2>1. /\ b \notin held /\ b \notin lost /\ \A u \in Freeing \ {t} : ptr[u] # b
        /\ \A u \in Threads : \A j \in Classes : b \notin lcache[u][j]
    BY <1>1 DEF SInv, Apart, b
  <2> QED
    BY <1>1, <1>2, <1>6, <2>1 DEF IsOut, caches, b
<1>8. Apart' /\ CacheInv' /\ TargetInv'
  <2>1. Apart'
    BY <1>2, <1>6 DEF SInv, Apart, caches
  <2>2. CacheInv'
    BY <1>2 DEF IInv, TypeOK, SInv, CacheInv, caches
  <2>3. TargetInv'
    BY <1>2, <1>6 DEF SInv, TargetInv
  <2> QED
    BY <2>1, <2>2, <2>3
<1>9. OutCut'
  <2>1. ASSUME NEW c \in Blocks, IsOut(c), c # b
        PROVE  c.span \notin mpool_list' /\ c \in Cut(c.span, block_index[c.span])
               /\ block_index[c.span] \in Classes
    <3>1. c.span \notin mpool_list /\ c \in Cut(c.span, block_index[c.span])
          /\ block_index[c.span] \in Classes
      BY <2>1 DEF SInv, OutCut
    <3>2. c.span = s => ~full
      BY <1>4, <1>5, <2>1, <3>1 DEF i
    <3> QED
      BY <1>2, <3>1, <3>2
  <2> QED
    BY <1>2, <1>7, <2>1 DEF OutCut
<1>10. SpanInv'
  <2>1. ASSUME NEW u \in Pages, u # s, block_index[u] \in Classes, NEW c \in Cut(u, block_index[u])
        PROVE  IsOut(c)' <=> IsOut(c)
    BY <1>1, <1>7, <2>1, CutBlocks, CutFinite
  <2>2. ASSUME NEW c \in Cut(s, i) PROVE c \in list \cup {b} <=> ~IsOut(c)'
    BY <1>1, <1>4, <1>7, <2>2, CutBlocks
  <2>3. ASSUME NEW u \in Pages, u # s
        PROVE  /\ free_block_num'[u] = free_block_num[u] /\ block_free_list'[u] = block_free_list[u]
               /\ u \in mpool_list' <=> u \in mpool_list
    BY <1>2, <1>3, <2>3
  <2>4. /\ free_block_num'[s] = Cardinality(list \cup {b})
        /\ full => s \in mpool_list' /\ block_free_list'[s] = {}
        /\ ~full => s \notin mpool_list' /\ block_free_list'[s] = list \cup {b}
    BY <1>1, <1>2, <1>3, <1>5
  <2>5. ASSUME NEW u \in Pages, u # s
        PROVE  /\ u \in mpool_list' => block_index[u] \in Classes /\ block_free_list'[u] = {}
               /\ block_index[u] \in Classes =>
                    /\ total_block_num[u] = Count(block_index[u])
                    /\ block_free_list'[u] \subseteq Cut(u, block_index[u])
               /\ block_index[u] \notin Classes => total_block_num[u] = 0
               /\ u \notin mpool_list' => free_block_num'[u] = Cardinality(block_free_list'[u])
               /\ u \notin mpool_list' /\ block_index[u] \in Classes =>
                    \A c \in Cut(u, block_index[u]) : c \in block_free_list'[u] <=> ~IsOut(c)'
    BY <2>1, <2>3, <2>5 DEF SInv, SpanInv
  <2>6. /\ s \in mpool_list' => block_free_list'[s] = {}
        /\ total_block_num[s] = Count(i) /\ block_free_list'[s] \subseteq Cut(s, i)
        /\ s \notin mpool_list' => /\ free_block_num'[s] = Cardinality(block_free_list'[s])
                                   /\ \A c \in Cut(s, i) : c \in block_free_list'[s] <=> ~IsOut(c)'
    BY <1>1, <1>4, <2>2, <2>4
  <2> QED
    BY <1>1, <1>2, <2>5, <2>6 DEF SpanInv, i
<1>11. ChunkInv'
  BY <1>2 DEF SInv, ChunkInv, Unused
<1>12. PoolListsSound'
  <2>1. Frozen(spool[s])
    BY <1>1, <1>2, ThreadsAssumption DEF Frozen
  <2>2. ASSUME NEW p \in Pools, ~Frozen(p)'
        PROVE  ~Frozen(p) /\ p # spool[s]
    BY <1>2, <2>1, <2>2 DEF Frozen, IInv, TypeOK
  <2>3. ASSUME NEW p \in Pools, p # spool[s], NEW j \in Classes, NEW u \in Pages
        PROVE  spool[u] = p => /\ u \in mpool_list' <=> u \in mpool_list
                               /\ free_block_num'[u] = free_block_num[u]
    BY <1>2, <1>3, <2>3
  <2> QED
    BY <1>2, <2>2, <2>3 DEF SInv, PoolListsSound
<1> QED
  BY <1>8, <1>9, <1>10, <1>11, <1>12 DEF SInv

-----------------------------------------------------------------------------
\* Where a new span comes from, no block of it is out, and the pages that no
\* one has taken stay apart.
LEMMA NewSpanSafe ==
  ASSUME IInv, SInv, NEW p \in Pools, NEW s \in Pages, NEW i \in Classes, NewSpan(p, s),
         s_end' = s_end, block_index' = [block_index EXCEPT ![s] = i]
  PROVE  /\ block_free_list[s] = {} /\ \A b \in Blocks : b.span = s => ~IsOut(b)
         /\ s \in mpool_list \/ block_index[s] \notin Classes
         /\ s \notin mpool_list'
         /\ \A u \in Pages \ {s} : u \in mpool_list' <=> u \in mpool_list
         /\ ChunkInv'
<1>1. /\ s \in Nat /\ free_start \in Nat
      /\ \A q \in Pools : s_free[q] \in Nat /\ s_end[q] \in Nat /\ s_end[q] <= free_start
  BY SmallAssumption DEF IInv, TypeOK, Pages, SInv, ChunkInv
<1>2. \/ /\ s_free[p] + 1 <= s_end[p] /\ s = s_free[p]
         /\ s_free' = [s_free EXCEPT ![p] = @ + 1] /\ UNCHANGED <<free_start, mpool_list>>
      \/ /\ s = free_start /\ free_start' = free_start + 1 /\ UNCHANGED <<mpool_list, s_free>>
      \/ /\ s \in mpool_list /\ mpool_list' = mpool_list \ {s} /\ UNCHANGED <<free_start, s_free>>
  BY DEF NewSpan, mpool
<1>3. Unused(s) \/ s \in mpool_list
  BY <1>1, <1>2 DEF Unused
<1>4. Unused(s) => block_index[s] \notin Classes /\ s \notin mpool_list
  BY DEF SInv, ChunkInv, SpanInv
<1>5. s \in mpool_list \/ block_index[s] \notin Classes
  BY <1>3, <1>4
<1>6. block_free_list[s] = {}
  BY <1>5 DEF SInv, SpanInv, IInv, CutInv
<1>7. ASSUME NEW b \in Blocks, b.span = s PROVE ~IsOut(b)
  BY <1>5, <1>7 DEF SInv, OutCut
<1>8. s \notin mpool_list' /\ \A u \in Pages \ {s} : u \in mpool_list' <=> u \in mpool_list
  <2>1. s_free[p] + 1 <= s_end[p] /\ s = s_free[p] => Unused(s)
    BY <1>1 DEF Unused
  <2>2. s = free_start => Unused(s)
    BY <1>1 DEF Unused
  <2> QED
    BY <1>2, <1>4, <2>1, <2>2
<1>9. ChunkInv'
  <2>1. /\ \A q \in Pools : s_free'[q] \in Nat /\ s_free'[q] >= s_free[q] /\ s_end'[q] = s_end[q]
        /\ free_start' \in Nat /\ free_start' >= free_start
    <3>1. ASSUME NEW q \in Pools PROVE s_free'[q] = s_free[q] \/ s_free'[q] = s_free[q] + 1
      BY <1>2, <3>1 DEF IInv, TypeOK
    <3>2. free_start' = free_start \/ free_start' = free_start + 1
      BY <1>2
    <3> QED
      BY <1>1, <3>1, <3>2
  <2>2. \A q \in Pools : s_end'[q] <= free_start'
    BY <1>1, <2>1
  <2>3. \A q, r \in Pools : q # r => s_end'[q] <= s_free'[r] \/ s_end'[r] <= s_free'[q]
    BY <1>1, <2>1 DEF SInv, ChunkInv
  <2>4. ASSUME NEW u \in Pages, Unused(u)' PROVE Unused(u)
    <3>1. u \in Nat
      BY SmallAssumption DEF Pages
    <3> QED
      BY <1>1, <2>1, <2>4, <3>1 DEF Unused
  <2>5. ~Unused(s)'
    <3>1. CASE s_free[p] + 1 <= s_end[p] /\ s = s_free[p]
               /\ s_free' = [s_free EXCEPT ![p] = @ + 1] /\ UNCHANGED <<free_start, mpool_list>>
      <4>1. s_free'[p] = s + 1 /\ \A q \in Pools \ {p} : s_free'[q] = s_free[q]
        BY <3>1 DEF IInv, TypeOK
      <4>2. \A q \in Pools \ {p} : s_end[p] <= s_free[q] \/ s_end[q] <= s_free[p]
        BY DEF SInv, ChunkInv
      <4> QED
        BY <1>1, <3>1, <4>1, <4>2 DEF Unused
    <3>2. CASE s = free_start /\ free_start' = free_start + 1 /\ UNCHANGED <<mpool_list, s_free>>
      BY <1>1, <3>2 DEF Unused
    <3>3. CASE s \in mpool_list /\ UNCHANGED <<free_start, s_free>>
      BY <1>4, <3>3 DEF Unused
    <3> QED
      BY <1>2, <3>1, <3>2, <3>3
  <2>6. \A u \in Pages : Unused(u)' => block_index'[u] \notin Classes
    <3>1. \A u \in Pages \ {s} : block_index'[u] = block_index[u]
      BY DEF IInv, TypeOK
    <3> QED
      BY <2>4, <2>5, <3>1 DEF SInv, ChunkInv
  <2> QED
    BY <2>2, <2>3, <2>6 DEF ChunkInv
<1> QED
  BY <1>5, <1>6, <1>7, <1>8, <1>9

\* The span that Refill takes blocks from, as NewSpan or the pool's list gave it.
LEMMA RefillFrom ==
  ASSUME IInv, SInv, NEW t \in Threads, NEW p \in Pools, NEW i \in Classes, Refill(t),
         p = cur[t], i = index[t], ~Frozen(p)
  PROVE  \E s \in Pages : \E list \in SUBSET Cut(s, i) :
           /\ Deliver(t, s, list, Cardinality(list), Count(i))
           /\ \A b \in Cut(s, i) : b \in list <=> ~IsOut(b)
           /\ \A b \in Blocks : b.span = s /\ IsOut(b) => b \in Cut(s, i)
           /\ list # {} \/ Count(i) = 0
           /\ s \notin mpool_list'
           /\ \A u \in Pages \ {s} : u \in mpool_list' <=> u \in mpool_list
           /\ spool' = [spool EXCEPT ![s] = p] /\ block_index' = [block_index EXCEPT ![s] = i]
           /\ ChunkInv'
           /\ s \in mpool_list \/ block_index[s] \notin Classes
              \/ (spool[s] = p /\ block_index[s] = i)
<1>1. span_free_list[p][i] = {u \in Pages \ mpool_list : /\ spool[u] = p /\ block_index[u] = i
                                                        /\ free_block_num[u] > 0}
  BY DEF SInv, PoolListsSound
<1>2. CASE \E s \in span_free_list[p][i] :
             /\ Deliver(t, s, block_free_list[s], free_block_num[s], total_block_num[s])
             /\ UNCHANGED <<mpool, s_free, spool, block_index>>
  <2>1. PICK s \in span_free_list[p][i] :
          /\ Deliver(t, s, block_free_list[s], free_block_num[s], total_block_num[s])
          /\ UNCHANGED <<mpool, s_free, spool, block_index>>
    BY <1>2
  <2>2. /\ s \in Pages /\ s \notin mpool_list /\ spool[s] = p /\ block_index[s] = i
        /\ free_block_num[s] > 0
    BY <1>1, <2>1
  <2>3. /\ block_free_list[s] \in SUBSET Cut(s, i) /\ total_block_num[s] = Count(i)
        /\ free_block_num[s] = Cardinality(block_free_list[s])
        /\ \A b \in Cut(s, i) : b \in block_free_list[s] <=> ~IsOut(b)
    BY <2>2 DEF SInv, SpanInv
  <2>4. block_free_list[s] # {}
    BY <2>2, <2>3, FS_EmptySet
  <2>5. \A b \in Blocks : b.span = s /\ IsOut(b) => b \in Cut(s, i)
    BY <2>2 DEF SInv, OutCut
  <2>6. spool' = [spool EXCEPT ![s] = p] /\ block_index' = [block_index EXCEPT ![s] = i]
    BY <2>1, <2>2 DEF IInv, TypeOK
  <2>7. ChunkInv'
    <3>1. UNCHANGED <<free_start, s_free, s_end, block_index>>
      BY <2>1 DEF Refill, mpool
    <3> QED
      BY <3>1 DEF SInv, ChunkInv, Unused
  <2>8. mpool_list' = mpool_list
    BY <2>1 DEF mpool
  <2> QED
    BY <2>1, <2>2, <2>3, <2>4, <2>5, <2>6, <2>7, <2>8
<1>3. CASE \E s \in Pages :
             /\ NewSpan(p, s)
             /\ spool' = [spool EXCEPT ![s] = p]
             /\ block_index' = [block_index EXCEPT ![s] = i]
             /\ Deliver(t, s, block_free_list[s] \cup Cut(s, i), Count(i), Count(i))
  <2>1. PICK s \in Pages :
          /\ NewSpan(p, s)
          /\ spool' = [spool EXCEPT ![s] = p]
          /\ block_index' = [block_index EXCEPT ![s] = i]
          /\ Deliver(t, s, block_free_list[s] \cup Cut(s, i), Count(i), Count(i))
    BY <1>3
  <2>2. s_end' = s_end
    BY DEF Refill
  <2>3. /\ block_free_list[s] = {} /\ \A b \in Blocks : b.span = s => ~IsOut(b)
        /\ s \in mpool_list \/ block_index[s] \notin Classes
        /\ s \notin mpool_list'
        /\ \A u \in Pages \ {s} : u \in mpool_list' <=> u \in mpool_list
        /\ ChunkInv'
    BY <2>1, <2>2, NewSpanSafe
  <2>4. /\ Cardinality(Cut(s, i)) = Count(i) /\ IsFiniteSet(Cut(s, i))
        /\ \A b \in Cut(s, i) : b \in Blocks /\ b.span = s
    BY CutFinite, CutBlocks
  <2>5. Deliver(t, s, Cut(s, i), Cardinality(Cut(s, i)), Count(i))
    <3>1. block_free_list[s] \cup Cut(s, i) = Cut(s, i)
      BY <2>3
    <3> QED
      BY <2>1, <2>4, <3>1
  <2>6. Cut(s, i) # {} \/ Count(i) = 0
    BY <2>4, FS_EmptySet
  <2>7. \A b \in Cut(s, i) : b \in Cut(s, i) <=> ~IsOut(b)
    BY <2>3, <2>4
  <2> QED
    BY <2>1, <2>3, <2>5, <2>6, <2>7
<1> QED
  BY <1>2, <1>3 DEF Refill

\* A refill takes blocks that are in the span's list and nowhere else.
LEMMA RefillSafe ==
  ASSUME IInv, SInv, NEW t \in Threads, Refill(t)
  PROVE  SInv'
<1> DEFINE p == cur[t]
           i == index[t]
<1>1. /\ p \in Pools /\ i \in Classes /\ lock[p] = t /\ pc[t] = "refill" /\ ~Frozen(p)
      /\ lcache[t][i] = {} /\ t \notin Freeing
      /\ UNCHANGED <<index, cur, ptr, target, lost, s_end>>
  BY DEF Refill, IInv, TypeOK, LockInv, SInv, CacheInv, Frozen, Freeing
<1>2. PICK s \in Pages : \E list \in SUBSET Cut(s, i) :
        /\ Deliver(t, s, list, Cardinality(list), Count(i))
        /\ \A b \in Cut(s, i) : b \in list <=> ~IsOut(b)
        /\ \A b \in Blocks : b.span = s /\ IsOut(b) => b \in Cut(s, i)
        /\ list # {} \/ Count(i) = 0
        /\ s \notin mpool_list'
        /\ \A u \in Pages \ {s} : u \in mpool_list' <=> u \in mpool_list
        /\ spool' = [spool EXCEPT ![s] = p] /\ block_index' = [block_index EXCEPT ![s] = i]
        /\ ChunkInv'
        /\ s \in mpool_list \/ block_index[s] \notin Classes \/ (spool[s] = p /\ block_index[s] = i)
  BY <1>1, RefillFrom
<1>3. PICK list \in SUBSET Cut(s, i) :
        /\ Deliver(t, s, list, Cardinality(list), Count(i))
        /\ \A b \in Cut(s, i) : b \in list <=> ~IsOut(b)
        /\ \A b \in Blocks : b.span = s /\ IsOut(b) => b \in Cut(s, i)
        /\ list # {} \/ Count(i) = 0
        /\ s \notin mpool_list'
        /\ \A u \in Pages \ {s} : u \in mpool_list' <=> u \in mpool_list
        /\ spool' = [spool EXCEPT ![s] = p] /\ block_index' = [block_index EXCEPT ![s] = i]
        /\ ChunkInv'
        /\ s \in mpool_list \/ block_index[s] \notin Classes \/ (spool[s] = p /\ block_index[s] = i)
  BY <1>2
<1> DEFINE free == Cardinality(list)
           n == IF free < bn THEN free ELSE bn
<1>4. PICK taken \in SUBSET list :
        /\ Cardinality(taken) = n
        /\ block_free_list' = [block_free_list EXCEPT ![s] = list \ taken]
        /\ free_block_num' = [free_block_num EXCEPT ![s] = free - n]
        /\ total_block_num' = [total_block_num EXCEPT ![s] = Count(i)]
        /\ span_free_list' = Relist(p, i, s, free - n)
        /\ block_num' = [block_num EXCEPT ![t][i] = Char(@ + n - 1)]
        /\ \/ \E b \in taken : /\ lcache' = [lcache EXCEPT ![t][i] = taken \ {b}]
                               /\ held' = held \cup {b}
           \/ taken = {} /\ held' = held \cup {HeadOf(t, i)} /\ UNCHANGED lcache
        /\ pc' = [pc EXCEPT ![t] = "idle"] /\ lock' = [lock EXCEPT ![p] = NoOne]
  BY <1>3 DEF Deliver, Leave, Goto
<1>5. /\ IsFiniteSet(list) /\ IsFiniteSet(taken) /\ free \in Nat /\ n \in Nat
      /\ Cardinality(list \ taken) = free - n /\ Cut(s, i) \subseteq Blocks
      /\ free - n \in Nat /\ (n = 0 <=> list = {})
  <2>1. IsFiniteSet(Cut(s, i)) /\ Cut(s, i) \subseteq Blocks
    BY <1>1, CutFinite, CutBlocks
  <2>2. IsFiniteSet(list)
    BY <2>1, FS_Subset
  <2>3. IsFiniteSet(taken)
    BY <2>2, FS_Subset
  <2>4. Cardinality(list \ taken) = Cardinality(list) - Cardinality(list \cap taken)
    BY <2>2, FS_Difference
  <2>5. list \cap taken = taken
    OBVIOUS
  <2>6. free \in Nat /\ (free = 0 <=> list = {})
    BY <2>2, FS_CardinalityType, FS_EmptySet
  <2>7. n \in Nat /\ free - n \in Nat /\ (n = 0 <=> free = 0)
    BY <2>6, CountTaken
  <2> QED
    BY <1>4, <2>1, <2>2, <2>3, <2>4, <2>5, <2>6, <2>7
<1> HIDE DEF p, i, free, n
<1>6. PICK h \in held' :
        /\ held' = held \cup {h} /\ (h \in taken \/ (taken = {} /\ h \notin Blocks))
        /\ \A u \in Threads : \A j \in Classes :
             lcache'[u][j] = IF u = t /\ j = i THEN taken \ {h} ELSE lcache[u][j]
  <2>1. CASE taken = {} /\ held' = held \cup {HeadOf(t, i)} /\ UNCHANGED lcache
    <3>1. HeadOf(t, i) \notin Blocks
      BY <1>1, BlockSpan, HeadSpan
    <3> QED
      BY <1>1, <2>1, <3>1
  <2>2. CASE \E b \in taken : /\ lcache' = [lcache EXCEPT ![t][i] = taken \ {b}]
                              /\ held' = held \cup {b}
    <3>1. PICK b \in taken : /\ lcache' = [lcache EXCEPT ![t][i] = taken \ {b}]
                             /\ held' = held \cup {b}
      BY <2>2
    <3>2. b \in held'
      BY <3>1
    <3>3. \A u \in Threads : \A j \in Classes :
            lcache'[u][j] = IF u = t /\ j = i THEN taken \ {b} ELSE lcache[u][j]
      BY <1>1, <3>1 DEF IInv, TypeOK
    <3> QED
      BY <3>1, <3>2, <3>3
  <2> QED
    BY <1>4, <2>1, <2>2
<1>7. Freeing' = Freeing /\ \A u \in Freeing : u # t /\ pc'[u] = pc[u]
  BY <1>1, <1>4 DEF IInv, TypeOK, Freeing
<1>8. \A b \in Blocks : IsOut(b)' <=> IsOut(b) \/ b \in taken
  BY <1>1, <1>6, <1>7 DEF IsOut
<1>9. \A b \in taken : ~IsOut(b)
  BY <1>3
<1>10. Apart'
  <2>1. ASSUME h \notin held
        PROVE  /\ h \notin lost /\ \A u \in Threads : \A j \in Classes : h \notin lcache[u][j]
               /\ \A u \in Freeing : h # ptr[u]
    <3>1. CASE h \in taken
      BY <1>9, <3>1 DEF IsOut
    <3>2. CASE h \notin Blocks
      BY <3>2 DEF IInv, TypeOK, FreeingInv, Freeing
    <3> QED
      BY <1>6, <3>1, <3>2
  <2>2. \A b \in taken : /\ b \notin held /\ b \notin lost
                         /\ \A u \in Threads : \A j \in Classes : b \notin lcache[u][j]
                         /\ \A u \in Freeing : b # ptr[u]
    BY <1>9 DEF IsOut
  <2> QED
    BY <1>1, <1>6, <1>7, <2>1, <2>2 DEF SInv, Apart
<1>11. /\ block_index' = [u \in Pages |-> IF u = s THEN i ELSE block_index[u]]
       /\ spool' = [u \in Pages |-> IF u = s THEN p ELSE spool[u]]
       /\ block_free_list' = [u \in Pages |-> IF u = s THEN list \ taken ELSE block_free_list[u]]
       /\ free_block_num' = [u \in Pages |-> IF u = s THEN free - n ELSE free_block_num[u]]
       /\ total_block_num' = [u \in Pages |-> IF u = s THEN Count(i) ELSE total_block_num[u]]
  BY <1>3, <1>4 DEF IInv, TypeOK
<1>12. OutCut'
  <2>1. ASSUME NEW b \in Blocks, IsOut(b)'
        PROVE  /\ b.span \notin mpool_list' /\ block_index'[b.span] \in Classes
               /\ b \in Cut(b.span, block_index'[b.span])
    <3>1. b.span \in Pages
      BY BlockSpan
    <3>2. CASE b.span = s
      <4>1. b \in Cut(s, i)
        BY <1>3, <1>8, <2>1, <3>2
      <4> QED
        BY <1>1, <1>3, <1>11, <3>2, <4>1
    <3>3. CASE b.span # s
      <4>1. b \notin taken
        BY <1>1, <3>3, CutFinite
      <4>2. IsOut(b)
        BY <1>8, <2>1, <4>1
      <4> QED
        BY <1>3, <1>11, <3>1, <3>3, <4>2 DEF SInv, OutCut
    <3> QED
      BY <3>2, <3>3
  <2> QED
    BY <2>1 DEF OutCut
<1>13. SpanInv'
  <2>1. ASSUME NEW u \in Pages, u # s, block_index[u] \in Classes, NEW b \in Cut(u, block_index[u])
        PROVE  IsOut(b)' <=> IsOut(b)
    <3>1. b \in Blocks /\ b.span = u
      BY <2>1, CutBlocks
    <3>2. b \notin taken
      BY <1>1, <2>1, <3>1, CutFinite
    <3> QED
      BY <1>8, <3>1, <3>2
  <2>2. ASSUME NEW u \in Pages, u # s
        PROVE  /\ u \in mpool_list' => block_index'[u] \in Classes /\ block_free_list'[u] = {}
               /\ block_index'[u] \in Classes =>
                    /\ total_block_num'[u] = Count(block_index'[u])
                    /\ block_free_list'[u] \subseteq Cut(u, block_index'[u])
               /\ block_index'[u] \notin Classes => total_block_num'[u] = 0
               /\ u \notin mpool_list' => free_block_num'[u] = Cardinality(block_free_list'[u])
               /\ u \notin mpool_list' /\ block_index'[u] \in Classes =>
                    \A b \in Cut(u, block_index'[u]) : b \in block_free_list'[u] <=> ~IsOut(b)'
    BY <1>3, <1>11, <2>1, <2>2 DEF SInv, SpanInv
  <2>3. \A b \in Cut(s, i) : b \in list \ taken <=> ~IsOut(b)'
    BY <1>3, <1>5, <1>8
  <2>4. /\ s \notin mpool_list' /\ block_index'[s] = i /\ total_block_num'[s] = Count(i)
        /\ block_free_list'[s] = list \ taken /\ list \ taken \subseteq Cut(s, i)
        /\ free_block_num'[s] = Cardinality(list \ taken)
    BY <1>3, <1>5, <1>11
  <2> QED
    BY <1>1, <2>2, <2>3, <2>4 DEF SpanInv
<1>14. TargetInv'
  <2>1. ASSUME NEW u \in Freeing
        PROVE  /\ target[u] = spool'[ptr[u].span]
               /\ pc[u] = "fput" => lock'[target[u]] = u
    <3>1. /\ u \in Threads /\ ptr[u] \in Blocks /\ ptr[u].span \in Pages /\ IsOut(ptr[u])
          /\ target[u] = spool[ptr[u].span] /\ target[u] \in Pools
          /\ pc[u] = "fput" => lock[target[u]] = u
      BY BlockSpan DEF SInv, TargetInv, IInv, FreeingInv, Freeing, IsOut
    <3>2. ptr[u].span = s => spool[s] = p
      BY <1>3, <3>1 DEF SInv, OutCut
    <3>3. pc[u] = "fput" => lock'[target[u]] = u
      BY <1>1, <1>4, <1>7, <3>1 DEF IInv, TypeOK
    <3> QED
      BY <1>11, <3>1, <3>2, <3>3
  <2> QED
    BY <1>1, <1>7, <2>1 DEF TargetInv
<1>15. CacheInv'
  <2>1. /\ IsFiniteSet(taken \ {h})
        /\ h \in taken => Cardinality(taken \ {h}) = n - 1
    BY <1>4, <1>5, FS_RemoveElement
  <2>2. \A u \in Threads : \A j \in Classes :
          block_num'[u][j] = IF u = t /\ j = i THEN Char(block_num[t][i] + n - 1)
                                              ELSE block_num[u][j]
    BY <1>1, <1>4 DEF IInv, TypeOK
  <2>3. ASSUME Count(i) > 0
        PROVE  Char(block_num[t][i] + n - 1) = Cardinality(taken \ {h})
               /\ Char(block_num[t][i] + n - 1) <= 2 * bn
    <3>1. block_num[t][i] = 0
      BY <1>1, <2>3, FS_EmptySet DEF SInv, CacheInv
    <3>2. n # 0 /\ n <= bn
      BY <1>3, <1>5, <2>3, SmallAssumption DEF n
    <3>3. taken # {}
      BY <1>4, <3>2, FS_EmptySet
    <3>4. n - 1 \in 0 .. 127 /\ n - 1 <= 2 * bn
      BY <1>5, <3>2, SmallAssumption
    <3>5. Char(n - 1) = n - 1
      BY <3>4, CharSmall
    <3>6. 0 + n - 1 = n - 1
      BY <1>5
    <3> QED
      BY <1>6, <2>1, <3>1, <3>3, <3>4, <3>5, <3>6
  <2>4. ASSUME NEW u \in Threads, pc'[u] \in {"scan", "wait", "init", "refill"}
        PROVE  lcache'[u][index[u]] = {}
    <3>1. u # t /\ pc'[u] = pc[u]
      BY <1>4, <2>4 DEF IInv, TypeOK
    <3>2. index[u] \in Classes
      BY <2>4, <3>1 DEF IInv, LockInv
    <3> QED
      BY <1>6, <2>4, <3>1, <3>2 DEF SInv, CacheInv
  <2>5. ASSUME NEW u \in Threads, NEW j \in Classes
        PROVE  /\ IsFiniteSet(lcache'[u][j])
               /\ Count(j) > 0 => /\ block_num'[u][j] = Cardinality(lcache'[u][j])
                                  /\ block_num'[u][j] <= 2 * bn
    <3>1. CASE u = t /\ j = i
      BY <1>6, <2>1, <2>2, <2>3, <3>1
    <3>2. CASE ~(u = t /\ j = i)
      BY <1>6, <2>2, <3>2 DEF SInv, CacheInv
    <3> QED
      BY <3>1, <3>2
  <2> QED
    BY <1>1, <2>4, <2>5 DEF CacheInv
<1>16. PoolListsSound'
  <2>1. ASSUME NEW q \in Pools, ~Frozen(q)' PROVE ~Frozen(q)
    <3>1. CASE q = p
      BY <1>1, <3>1
    <3>2. CASE q # p
      <4>1. lock'[q] = lock[q]
        BY <1>1, <1>4, <3>2 DEF IInv, TypeOK
      <4> QED
        BY <1>1, <1>4, <2>1, <3>2, <4>1 DEF Frozen, IInv, TypeOK, p
    <3> QED
      BY <3>1, <3>2
  <2>2. \A q \in Pools : \A j \in Classes :
          span_free_list'[q][j] = IF q # p \/ j # i THEN span_free_list[q][j]
                                  ELSE IF free - n = 0 THEN span_free_list[q][j] \ {s}
                                  ELSE span_free_list[q][j] \cup {s}
    BY <1>1, <1>4 DEF IInv, TypeOK, Relist
  <2>3. ASSUME NEW q \in Pools, ~Frozen(q), NEW j \in Classes, NEW u \in Pages
        PROVE  u \in span_free_list'[q][j] <=> /\ u \notin mpool_list' /\ spool'[u] = q
                                               /\ block_index'[u] = j /\ free_block_num'[u] > 0
    <3>1. u \in span_free_list[q][j] <=> /\ u \notin mpool_list /\ spool[u] = q
                                         /\ block_index[u] = j /\ free_block_num[u] > 0
      BY <2>3 DEF SInv, PoolListsSound
    <3>2. CASE u # s
      <4>1. /\ spool'[u] = spool[u] /\ block_index'[u] = block_index[u]
            /\ free_block_num'[u] = free_block_num[u]
        BY <1>11, <3>2
      <4>2. u \in mpool_list' <=> u \in mpool_list
        BY <1>3, <3>2
      <4>3. u \in span_free_list'[q][j] <=> u \in span_free_list[q][j]
        BY <2>2, <3>2
      <4> QED
        BY <3>1, <4>1, <4>2, <4>3
    <3>3. CASE u = s
      <4>1. CASE q = p /\ j = i
        <5>1. /\ spool'[s] = p /\ block_index'[s] = i /\ s \notin mpool_list'
              /\ free_block_num'[s] = free - n
          BY <1>3, <1>11
        <5>2. s \in span_free_list'[p][i] <=> free - n # 0
          BY <1>1, <2>2
        <5> QED
          BY <1>5, <3>3, <4>1, <5>1, <5>2
      <4>2. CASE q # p \/ j # i
        BY <1>3, <1>11, <2>2, <3>1, <3>3, <4>2
      <4> QED
        BY <4>1, <4>2
    <3> QED
      BY <3>2, <3>3
  <2>4. span_free_list' \in [Pools -> [Classes -> SUBSET Pages]]
    BY <1>1, <1>4 DEF IInv, TypeOK, Relist
  <2> QED
    BY <2>1, <2>3, <2>4 DEF PoolListsSound
<1> QED
  BY <1>3, <1>10, <1>12, <1>13, <1>14, <1>15, <1>16 DEF SInv

\* Every step keeps the invariant of the second part.
LEMMA NextSInv == IInv /\ SInv /\ [Next]_vars => SInv'
<1> SUFFICES ASSUME IInv, SInv, [Next]_vars PROVE SInv'
  OBVIOUS
<1>1. CASE Next
  <2>1. PICK t \in Threads : \/ \E size \in Sizes : Malloc(t, size)
                             \/ \E b \in held : Free(t, b)
                             \/ Exit(t)
                             \/ Step(t)
    BY <1>1 DEF Next
  <2>2. CASE \E size \in Sizes : Malloc(t, size)
    BY <2>2, MallocSafe
  <2>3. CASE \E b \in held : Free(t, b)
    BY <2>3, FreeSafe
  <2>4. CASE Exit(t)
    BY <2>4, ExitSafe
  <2>5. CASE Step(t)
    BY <2>5, LockSafe, SPoolInitSafe, RefillSafe, FreeLocksSafe, FreePutSafe DEF Step
  <2> QED
    BY <2>1, <2>2, <2>3, <2>4, <2>5
<1>2. CASE UNCHANGED vars
  <2>1. \A b \in Blocks : IsOut(b)' <=> IsOut(b)
    BY <1>2 DEF IsOut, Freeing, vars, caches, locals
  <2>2. Apart' /\ TargetInv' /\ CacheInv'
    BY <1>2 DEF SInv, Apart, TargetInv, CacheInv, Freeing, vars, caches, locals, spans
  <2>3. PoolListsSound'
    BY <1>2 DEF SInv, PoolListsSound, Frozen, vars, mpool, pools, spans, locals
  <2> QED
    BY <1>2, <2>1, <2>2, <2>3, SameOut DEF SInv, vars, mpool, pools, spans
<1> QED
  BY <1>1, <1>2

\* The inductive invariant of the blocks, spans and caches.
THEOREM SmallHeapSafe == Spec => [](IInv /\ SInv)
<1>1. Init => IInv /\ SInv
  BY InitIInv, InitSInv
<1>2. IInv /\ SInv /\ [Next]_vars => (IInv /\ SInv)'
  BY NextIInv, NextSInv
<1> QED
  BY <1>1, <1>2, PTL DEF Spec

-----------------------------------------------------------------------------
\* The model's name for the blocks that are out means the same.
LEMMA OutstandingIsOut == \A b : b \in Outstanding <=> b \in Blocks /\ IsOut(b)
  BY DEF Outstanding, Cached, InFlight, IsOut

\* A block in a span's list is not out, and its span is not in the global heap's list.
LEMMA ListedIsIn ==
  ASSUME IInv, SInv, NEW s \in Pages, NEW b \in block_free_list[s]
  PROVE  s \notin mpool_list /\ b \notin Outstanding
<1>1. s \notin mpool_list
  BY DEF SInv, SpanInv
<1>2. block_index[s] \in Classes
  BY DEF IInv, CutInv
<1> QED
  BY <1>1, <1>2, OutstandingIsOut DEF SInv, SpanInv

\* No schedule of mem_malloc and mem_free hands a block out twice, or has it in
\* two caches, or in a list and out of it.
THEOREM BlocksAreExclusive == Spec => []BlocksExclusive
<1>1. ASSUME IInv, SInv PROVE BlocksExclusive
  <2>1. /\ held \cap (Cached \cup InFlight) = {} /\ Cached \cap InFlight = {}
        /\ lost \cap (held \cup Cached \cup InFlight) = {}
    BY <1>1 DEF SInv, Apart, Cached, InFlight
  <2>2. \A t, u \in Threads : \A i, j \in Classes :
          <<t, i>> # <<u, j>> => lcache[t][i] \cap lcache[u][j] = {}
    BY <1>1 DEF SInv, Apart
  <2>3. \A t, u \in Freeing : t # u => ptr[t] # ptr[u]
    BY <1>1 DEF SInv, Apart
  <2>4. \A s \in Pages : block_free_list[s] \cap Outstanding = {}
    BY <1>1, ListedIsIn
  <2> QED
    BY <2>1, <2>2, <2>3, <2>4 DEF BlocksExclusive
<1>2. IInv /\ SInv => BlocksExclusive
  BY <1>1
<1> QED
  BY <1>2, SmallHeapSafe, PTL

\* small_block_free and s_span_alloc never recycle a span under a block of it.
THEOREM BlocksStayCurrent == Spec => []BlocksCurrent
<1>1. ASSUME IInv, SInv, NEW b \in Outstanding
      PROVE  b.class = block_index[b.span] /\ b.span \notin mpool_list
  <2>1. b \in Blocks /\ IsOut(b) /\ b.span \in Pages
    BY OutstandingIsOut, BlockSpan
  <2>2. /\ b.span \notin mpool_list /\ block_index[b.span] \in Classes
        /\ b \in Cut(b.span, block_index[b.span])
    BY <1>1, <2>1 DEF SInv, OutCut
  <2> QED
    BY <2>1, <2>2, CutFinite
<1>2. IInv /\ SInv => BlocksCurrent
  BY <1>1 DEF BlocksCurrent
<1> QED
  BY <1>2, SmallHeapSafe, PTL

\* free_block_num and total_block_num, by which small_block_free decides that a
\* span is complete, always agree with the blocks that are in and out.
THEOREM SpansAreAccounted == Spec => []SpanAccounting
<1>1. ASSUME IInv, SInv, NEW s \in Pages \ mpool_list
      PROVE  /\ free_block_num[s] = Cardinality(block_free_list[s])
             /\ total_block_num[s] = free_block_num[s]
                                     + Cardinality({b \in Outstanding : b.span = s})
  <2> DEFINE out == {b \in Outstanding : b.span = s}
             i   == block_index[s]
  <2>1. free_block_num[s] = Cardinality(block_free_list[s])
    BY <1>1 DEF SInv, SpanInv
  <2>2. CASE i \in Classes
    <3>1. /\ IsFiniteSet(Cut(s, i)) /\ Cardinality(Cut(s, i)) = Count(i) /\ Count(i) \in Nat
          /\ \A b \in Cut(s, i) : b \in Blocks /\ b.span = s
      BY <2>2, CutFinite, CutBlocks, CountNat
    <3>2. /\ block_free_list[s] \subseteq Cut(s, i) /\ total_block_num[s] = Count(i)
          /\ \A b \in Cut(s, i) : b \in block_free_list[s] <=> ~IsOut(b)
      BY <1>1, <2>2 DEF SInv, SpanInv
    <3>3. \A b \in Blocks : b.span = s /\ IsOut(b) => b \in Cut(s, i)
      BY <1>1 DEF SInv, OutCut
    <3>4. out = Cut(s, i) \ block_free_list[s]
      BY <3>1, <3>2, <3>3, OutstandingIsOut
    <3>5. Cardinality(out) = Count(i) - Cardinality(Cut(s, i) \cap block_free_list[s])
      BY <3>1, <3>4, FS_Difference
    <3>6. Cut(s, i) \cap block_free_list[s] = block_free_list[s]
      BY <3>2
    <3>7. IsFiniteSet(block_free_list[s])
      BY <3>1, <3>2, FS_Subset
    <3>8. Cardinality(block_free_list[s]) \in Nat
      BY <3>7, FS_CardinalityType
    <3>9. Cardinality(out) = Count(i) - Cardinality(block_free_list[s])
      BY <3>5, <3>6
    <3>10. total_block_num[s] = free_block_num[s] + Cardinality(out)
      <4> HIDE DEF out, i
      <4> QED
        BY <2>1, <3>1, <3>2, <3>8, <3>9
    <3> QED
      BY <2>1, <3>10
  <2>3. CASE i \notin Classes
    <3>1. out = {}
      BY <1>1, <2>3, OutstandingIsOut DEF SInv, OutCut
    <3>2. block_free_list[s] = {} /\ total_block_num[s] = 0
      BY <1>1, <2>3 DEF IInv, CutInv, SInv, SpanInv
    <3> QED
      BY <2>1, <3>1, <3>2, FS_EmptySet
  <2> QED
    BY <2>1, <2>2, <2>3
<1>2. IInv /\ SInv => SpanAccounting
  BY <1>1 DEF SpanAccounting
<1> QED
  BY <1>2, SmallHeapSafe, PTL

\* block_num, a signed char, is the length of the cache's list and stays within
\* 2 * bn, whatever refills and frees come together.
THEOREM CachesAreAccounted == Spec => []CacheAccounting
<1>1. SInv => CacheAccounting
  BY DEF SInv, CacheInv, CacheAccounting
<1> QED
  BY <1>1, SmallHeapSafe, PTL

\* A pool that can still be used lists exactly its own spans with free blocks.
THEOREM PoolListsAreSound == Spec => []PoolListsSound
<1>1. SInv => PoolListsSound
  BY DEF SInv
<1> QED
  BY <1>1, SmallHeapSafe, PTL

\* The pool that small_block_free reads without a lock is the span's pool until
\* the free is done.
THEOREM TargetsAreStable == Spec => []TargetStable
<1>1. SInv => TargetStable
  BY DEF SInv, TargetInv, TargetStable
<1> QED
  BY <1>1, SmallHeapSafe, PTL

-----------------------------------------------------------------------------
\* 3. Who waits for the first pool.

\* The threads that try or use one of the last p pools of the scan, which are
\* the pools 1 to p.
Ahead(p) == {t \in Threads : pc[t] \in {"scan", "init", "refill"} /\ cur[t] <= p}

\* At most p threads are among p pools, and nobody waits.
RoomAhead == /\ \A p \in Pools : Cardinality(Ahead(p)) <= p
             /\ \A t \in Threads : pc[t] # "wait"

\* The invariant of the third part.
WaitInv ==
  \/ Cardinality(Threads) > S_POOL_NUM
  \/ \E p \in Pools : Frozen(p)
  \/ RoomAhead

-----------------------------------------------------------------------------
\* Sets of threads are finite and no larger than all threads.
LEMMA AheadFinite == ASSUME NEW S \in SUBSET Threads
                     PROVE  /\ IsFiniteSet(S) /\ Cardinality(S) \in Nat
                            /\ Cardinality(S) <= Cardinality(Threads)
  BY FS_Subset, FS_CardinalityType, ThreadsAssumption

\* Threads that leave the scan, or start it, leave room for the others.
LEMMA RoomKeeps ==
  ASSUME RoomAhead, ~(Cardinality(Threads) > S_POOL_NUM),
         \A t \in Threads : pc'[t] # "wait",
         \A t \in Threads : \/ pc'[t] \notin {"scan", "init", "refill"}
                            \/ cur'[t] = First
                            \/ pc[t] \in {"scan", "init", "refill"} /\ cur'[t] = cur[t]
  PROVE  RoomAhead'
<1> SUFFICES ASSUME NEW p \in Pools PROVE Cardinality(Ahead(p)') <= p
  BY DEF RoomAhead
<1>1. Ahead(p) \subseteq Threads /\ Ahead(p)' \subseteq Threads /\ p \in Nat
  BY SmallAssumption DEF Ahead, Pools
<1>2. CASE p = First
  <2>1. Cardinality(Threads) \in Nat /\ S_POOL_NUM \in Nat
    BY FS_CardinalityType, ThreadsAssumption, SmallAssumption
  <2> QED
    BY <1>1, <1>2, <2>1, AheadFinite DEF First
<1>3. CASE p # First
  <2>1. ~(First <= p)
    BY <1>3, SmallAssumption DEF First, Pools
  <2>2. Ahead(p)' \subseteq Ahead(p)
    BY <2>1 DEF Ahead
  <2>3. Cardinality(Ahead(p)') <= Cardinality(Ahead(p))
    BY <1>1, <2>2, AheadFinite, FS_Subset
  <2>4. Cardinality(Ahead(p)) <= p
    BY DEF RoomAhead
  <2> QED
    BY <1>1, <2>3, <2>4, AheadFinite
<1> QED
  BY <1>2, <1>3

\* A thread that finds a pool taken: its owner is there, and stays behind.
LEMMA BusyKeeps ==
  ASSUME IInv, RoomAhead, ~(Cardinality(Threads) > S_POOL_NUM), \A p \in Pools : ~Frozen(p),
         NEW t \in Threads, pc[t] = "scan", lock[cur[t]] # NoOne, Busy(t)
  PROVE  RoomAhead'
<1> DEFINE q == cur[t]
           u == lock[q]
<1>1. q \in Pools /\ q \in Nat /\ q >= 1 /\ u \in Threads
  BY SmallAssumption DEF IInv, TypeOK, Pools
<1>2. cur[u] = q /\ pc[u] \in {"init", "refill"} /\ u # t
  BY <1>1 DEF Frozen
<1>3. /\ IsFiniteSet(Ahead(q)) /\ Cardinality(Ahead(q)) \in Nat /\ Cardinality(Ahead(q)) <= q
      /\ t \in Ahead(q) /\ u \in Ahead(q)
  BY <1>1, <1>2, AheadFinite DEF Ahead, RoomAhead
<1> DEFINE rest == (Ahead(q) \ {t}) \ {u}
<1>4. IsFiniteSet(rest) /\ Cardinality(rest) \in Nat /\ Cardinality(rest) <= q - 2
  <2>1. /\ IsFiniteSet(Ahead(q) \ {t})
        /\ Cardinality(Ahead(q) \ {t}) = Cardinality(Ahead(q)) - 1
    BY <1>3, FS_RemoveElement
  <2>2. IsFiniteSet(rest) /\ Cardinality(rest) = Cardinality(Ahead(q) \ {t}) - 1
    BY <1>2, <1>3, <2>1, FS_RemoveElement
  <2>3. Cardinality(rest) \in Nat
    BY <2>2, FS_CardinalityType
  <2> HIDE DEF rest, q, u
  <2> QED
    BY <1>1, <1>3, <2>1, <2>2, <2>3
<1> HIDE DEF rest
<1>5. q > 1
  BY <1>1, <1>4
<1>6. cur' = [cur EXCEPT ![t] = q - 1] /\ pc' = pc
  BY <1>5 DEF Busy
<1>7. \A v \in Threads : cur'[v] = IF v = t THEN q - 1 ELSE cur[v]
  BY <1>6 DEF IInv, TypeOK
<1>8. ASSUME NEW p \in Pools
      PROVE  Cardinality(Ahead(p)') <= p
  <2>1. p \in Nat /\ \A v \in Threads : cur[v] \in Int
    BY SmallAssumption DEF IInv, TypeOK, Pools
  <2>2. CASE p # q - 1
    <3>1. q - 1 <= p <=> q <= p
      BY <1>1, <2>1, <2>2
    <3>2. Ahead(p)' = Ahead(p)
      BY <1>6, <1>7, <3>1 DEF Ahead
    <3> QED
      BY <3>2 DEF RoomAhead
  <2>3. CASE p = q - 1
    <3>1. Ahead(p)' \subseteq rest \cup {t}
      BY <1>1, <1>2, <1>6, <1>7, <2>1, <2>3 DEF Ahead, rest
    <3>2. /\ IsFiniteSet(rest \cup {t})
          /\ Cardinality(rest \cup {t}) = Cardinality(rest) + 1
      BY <1>4, FS_AddElement DEF rest
    <3>3. Cardinality(Ahead(p)') <= Cardinality(rest \cup {t})
      BY <3>1, <3>2, FS_Subset
    <3>4. Cardinality(Ahead(p)') \in Nat
      BY AheadFinite DEF Ahead
    <3> QED
      BY <1>1, <1>4, <2>3, <3>2, <3>3, <3>4
  <2> QED
    BY <2>2, <2>3
<1>9. \A v \in Threads : pc'[v] # "wait"
  BY <1>6 DEF RoomAhead
<1> QED
  BY <1>8, <1>9 DEF RoomAhead

-----------------------------------------------------------------------------
\* What a step of t does to the locks and to the labels.
Moves(t) ==
  /\ \A p \in Pools : lock[p] # NoOne =>
       lock'[p] = lock[p] \/ (pc[t] = "refill" /\ cur[t] = p)
  /\ \A u \in Threads \ {t} : pc'[u] = pc[u] /\ cur'[u] = cur[u]
  /\ \/ pc'[t] \notin {"init", "refill"}
     \/ pc[t] \in {"init", "refill"} /\ cur'[t] = cur[t]
     \/ lock[cur[t]] = NoOne /\ cur'[t] = cur[t]

\* Every step of a thread is one of the moves of the scan.
LEMMA StepMoves ==
  ASSUME IInv, NEW t \in Threads,
         (\E size \in Sizes : Malloc(t, size)) \/ (\E b \in held : Free(t, b))
           \/ Exit(t) \/ Step(t)
  PROVE  Moves(t)
<1> USE DEF IInv, TypeOK, Moves, Goto
<1>1. CASE \E size \in Sizes : Malloc(t, size)
  BY <1>1 DEF Malloc, locals
<1>2. CASE \E b \in held : Free(t, b)
  BY <1>2 DEF Free, FreeUnready, FreeToCache, FreeToPool, FreeHead, locals
<1>3. CASE Exit(t)
  BY <1>3 DEF Exit, locals
<1>4. CASE TryLock(t)
  BY <1>4 DEF TryLock, Busy
<1>5. CASE WaitLock(t)
  BY <1>5 DEF WaitLock
<1>6. CASE SPoolInit(t)
  BY <1>6 DEF SPoolInit
<1>7. CASE Refill(t)
  <2>1. /\ pc[t] = "refill" /\ UNCHANGED cur /\ pc' = [pc EXCEPT ![t] = "idle"]
        /\ lock' = [lock EXCEPT ![cur[t]] = NoOne]
    BY <1>7 DEF Refill, Deliver, Leave
  <2> QED
    BY <2>1
<1>8. CASE FreeLock(t) \/ FreePut(t) \/ FreeReread(t) \/ FreeRelock(t)
  BY <1>8 DEF FreeLock, FreePut, FreeReread, FreeRelock
<1> QED
  BY <1>1, <1>2, <1>3, <1>4, <1>5, <1>6, <1>7, <1>8 DEF Step

\* A frozen pool stays frozen.
LEMMA FrozenStays ==
  ASSUME IInv, NEW t \in Threads, Moves(t), NEW p \in Pools, Frozen(p)
  PROVE  Frozen(p)'
<1>1. lock'[p] = lock[p]
  BY DEF Moves, Frozen, IInv, LockInv
<1>2. CASE lock[p] # t
  BY <1>1, <1>2 DEF Moves, Frozen, IInv, TypeOK
<1>3. CASE lock[p] = t
  BY <1>1, <1>3 DEF Moves, Frozen
<1> QED
  BY <1>2, <1>3

\* Every step keeps the room.
LEMMA NextWaitInv == IInv /\ WaitInv /\ [Next]_vars => WaitInv'
<1> SUFFICES ASSUME IInv, WaitInv, [Next]_vars, ~(Cardinality(Threads) > S_POOL_NUM),
                    \A p \in Pools : ~Frozen(p)'
             PROVE  RoomAhead'
  BY DEF WaitInv
<1>1. CASE Next
  <2>1. PICK t \in Threads : \/ \E size \in Sizes : Malloc(t, size)
                             \/ \E b \in held : Free(t, b)
                             \/ Exit(t)
                             \/ Step(t)
    BY <1>1 DEF Next
  <2>2. Moves(t)
    BY <2>1, StepMoves
  <2>3. \A p \in Pools : ~Frozen(p)
    BY <2>2, FrozenStays
  <2>4. RoomAhead
    BY <2>3 DEF WaitInv
  <2>5. CASE TryLock(t) /\ lock[cur[t]] # NoOne
    <3>1. pc[t] = "scan" /\ Busy(t)
      BY <2>5 DEF TryLock
    <3> QED
      BY <2>3, <2>4, <2>5, <3>1, BusyKeeps
  <2>6. CASE ~(TryLock(t) /\ lock[cur[t]] # NoOne)
    <3>1. /\ pc'[t] # "wait"
          /\ \/ pc'[t] \notin {"scan", "init", "refill"}
             \/ cur'[t] = First
             \/ pc[t] \in {"scan", "init", "refill"} /\ cur'[t] = cur[t]
      <4> USE DEF IInv, TypeOK, Goto
      <4>1. CASE \E size \in Sizes : Malloc(t, size)
        BY <2>4, <4>1 DEF Malloc, locals, RoomAhead
      <4>2. CASE \E b \in held : Free(t, b)
        BY <2>4, <4>2 DEF Free, FreeUnready, FreeToCache, FreeToPool, FreeHead, locals, RoomAhead
      <4>3. CASE Exit(t)
        BY <2>4, <4>3 DEF Exit, locals, RoomAhead
      <4>4. CASE TryLock(t)
        <5>1. /\ pc[t] = "scan" /\ UNCHANGED cur /\ pc' = [pc EXCEPT ![t] = Enter(cur[t])]
          BY <2>6, <4>4 DEF TryLock
        <5> QED
          BY <5>1 DEF Enter
      <4>5. CASE WaitLock(t)
        BY <2>4, <4>5 DEF WaitLock, RoomAhead
      <4>6. CASE SPoolInit(t)
        BY <4>6 DEF SPoolInit
      <4>7. CASE Refill(t)
        <5>1. pc' = [pc EXCEPT ![t] = "idle"]
          BY <4>7 DEF Refill, Deliver, Leave
        <5> QED
          BY <5>1
      <4>8. CASE FreeLock(t) \/ FreePut(t) \/ FreeReread(t) \/ FreeRelock(t)
        BY <4>8 DEF FreeLock, FreePut, FreeReread, FreeRelock
      <4> QED
        BY <2>1, <4>1, <4>2, <4>3, <4>4, <4>5, <4>6, <4>7, <4>8 DEF Step
    <3>2. \A u \in Threads \ {t} : pc'[u] = pc[u] /\ cur'[u] = cur[u]
      BY <2>2 DEF Moves
    <3> QED
      BY <2>4, <3>1, <3>2, RoomKeeps DEF RoomAhead
  <2> QED
    BY <2>5, <2>6
<1>2. CASE UNCHANGED vars
  <2>1. UNCHANGED <<pc, cur, lock>>
    BY <1>2 DEF vars, locals
  <2>2. RoomAhead
    BY <2>1 DEF WaitInv, Frozen
  <2> QED
    BY <2>1, <2>2 DEF RoomAhead, Ahead
<1> QED
  BY <1>1, <1>2

\* Nobody scans at the start.
LEMMA InitWaitInv == Init => WaitInv
<1> SUFFICES ASSUME Init PROVE RoomAhead
  BY DEF WaitInv
<1>1. \A t \in Threads : pc[t] = "idle"
  BY DEF Init
<1>2. \A p \in Pools : Ahead(p) = {} /\ p \in Nat
  BY <1>1, SmallAssumption DEF Ahead, Pools
<1> QED
  BY <1>1, <1>2, FS_EmptySet DEF RoomAhead

\* mem_malloc's scan of the small heaps ends with a lock, without a wait, as
\* long as every lock is given back and there are as many heaps as threads.
THEOREM NobodyWaitsNeedlessly == Spec => []NoNeedlessWait
<1>1. Init => IInv /\ WaitInv
  BY InitIInv, InitWaitInv
<1>2. IInv /\ WaitInv /\ [Next]_vars => (IInv /\ WaitInv)'
  BY NextIInv, NextWaitInv
<1>3. WaitInv => NoNeedlessWait
  BY DEF WaitInv, RoomAhead, NoNeedlessWait
<1> QED
  BY <1>1, <1>2, <1>3, PTL DEF Spec

-----------------------------------------------------------------------------
\* 4. The blocks that the application has, as runs of bytes.

\* What a block is named by.
LEMMA BlockNames ==
  ASSUME NEW b \in Blocks
  PROVE  b.span \in Nat /\ b.class \in Classes /\ b.num \in 1 .. Count(b.class)
         /\ b = Block(b.span, b.class, b.num)
  BY DEF Blocks, Cut, Block, Pages

\* The blocks of a class fit into what the header leaves of a page.
LEMMA CutFits ==
  ASSUME NEW i \in Classes
  PROVE  /\ (i + 1) * SMALL_GAP \in Nat \ {0} /\ Count(i) \in Nat
         /\ Count(i) * ((i + 1) * SMALL_GAP) <= PAGE_SIZE - HEADER_SIZE
<1> DEFINE size == (i + 1) * SMALL_GAP
           room == PAGE_SIZE - HEADER_SIZE
<1>1. i \in Nat /\ SMALL_GAP \in Nat \ {0} /\ room \in Nat /\ Count(i) \in Nat
  BY ClassesNat, CountNat, SmallAssumption
<1>2. size \in Nat \ {0}
  BY <1>1
<1>3. Count(i) = room \div size
  BY DEF Count
<1> HIDE DEF size, room
<1>4. (room \div size) * size <= room
  BY <1>1, <1>2
<1> QED
  BY <1>1, <1>2, <1>3, <1>4 DEF size, room

\* A block's bytes lie in its page, behind the header.
LEMMA BytesInPage ==
  ASSUME NEW b \in Blocks
  PROVE  /\ Bytes(b).first \in Nat /\ Bytes(b).units \in Nat \ {0}
         /\ b.span * PAGE_SIZE + HEADER_SIZE <= Bytes(b).first
         /\ Bytes(b).first + Bytes(b).units <= (b.span + 1) * PAGE_SIZE
<1> DEFINE size == (b.class + 1) * SMALL_GAP
           count == Count(b.class)
           n == b.num
           base == b.span * PAGE_SIZE
<1>1. b.span \in Nat /\ size \in Nat \ {0} /\ count \in Nat /\ n \in 1 .. count
      /\ count * size <= PAGE_SIZE - HEADER_SIZE
  BY BlockNames, CutFits
<1>2. /\ Bytes(b).first = base + HEADER_SIZE + (n - 1) * size
      /\ Bytes(b).units = size
  BY DEF Bytes
<1>3. base \in Nat /\ PAGE_SIZE \in Nat /\ HEADER_SIZE \in Nat
      /\ (b.span + 1) * PAGE_SIZE = base + PAGE_SIZE
  BY <1>1, SmallAssumption
<1> HIDE DEF size, count, n, base
<1>4. (n - 1) * size \in Nat /\ (n - 1) * size + size = n * size /\ n * size <= count * size
  BY <1>1
<1> QED
  BY <1>1, <1>2, <1>3, <1>4 DEF base

\* Two blocks of one page that is cut for one class, or of two pages, share no byte.
LEMMA BytesApart ==
  ASSUME NEW b \in Blocks, NEW c \in Blocks, b # c, b.span = c.span => b.class = c.class
  PROVE  BA!Apart(Bytes(b), Bytes(c))
<1>1. CASE b.span = c.span
  <2> DEFINE size == (b.class + 1) * SMALL_GAP
             low == b.span * PAGE_SIZE + HEADER_SIZE
             m == b.num
             n == c.num
  <2>1. size \in Nat \ {0} /\ m \in Nat /\ n \in Nat /\ low \in Nat
    BY BlockNames, CutFits, SmallAssumption
  <2>2. m # n
    BY <1>1, BlockNames
  <2>3. /\ Bytes(b).first = low + (m - 1) * size /\ Bytes(b).units = size
        /\ Bytes(c).first = low + (n - 1) * size /\ Bytes(c).units = size
    BY <1>1 DEF Bytes
  <2> HIDE DEF size, low, m, n
  <2>4. ASSUME NEW x \in Nat, NEW y \in Nat, x < y
        PROVE  low + (x - 1) * size + size <= low + (y - 1) * size
    <3>1. (x - 1) * size + size = x * size /\ x * size <= (y - 1) * size
      BY <2>1, <2>4
    <3> QED
      BY <2>1, <3>1
  <2>5. m < n \/ n < m
    BY <2>1, <2>2
  <2> QED
    BY <2>1, <2>3, <2>4, <2>5 DEF BA!Apart
<1>2. CASE b.span # c.span
  <2> DEFINE u == b.span
             v == c.span
  <2>1. u \in Nat /\ v \in Nat /\ PAGE_SIZE \in Nat /\ HEADER_SIZE \in Nat
    BY BlockNames, SmallAssumption
  <2>2. /\ u * PAGE_SIZE <= Bytes(b).first /\ v * PAGE_SIZE <= Bytes(c).first
        /\ Bytes(b).first + Bytes(b).units <= (u + 1) * PAGE_SIZE
        /\ Bytes(c).first + Bytes(c).units <= (v + 1) * PAGE_SIZE
        /\ Bytes(b).first \in Nat /\ Bytes(b).units \in Nat
        /\ Bytes(c).first \in Nat /\ Bytes(c).units \in Nat
    <3>1. u * PAGE_SIZE \in Nat /\ v * PAGE_SIZE \in Nat
      BY <2>1
    <3>2. /\ u * PAGE_SIZE + HEADER_SIZE <= Bytes(b).first
          /\ v * PAGE_SIZE + HEADER_SIZE <= Bytes(c).first
      BY BytesInPage
    <3> HIDE DEF u, v
    <3> QED
      BY <2>1, <3>1, <3>2, BytesInPage DEF u, v
  <2>3. u < v \/ v < u
    BY <1>2, <2>1
  <2> HIDE DEF u, v
  <2>4. ASSUME NEW x \in Nat, NEW y \in Nat, x < y
        PROVE  (x + 1) * PAGE_SIZE <= y * PAGE_SIZE /\ (x + 1) * PAGE_SIZE \in Nat
               /\ y * PAGE_SIZE \in Nat
    BY <2>1, <2>4
  <2> QED
    BY <2>1, <2>2, <2>3, <2>4 DEF BA!Apart
<1> QED
  BY <1>1, <1>2

\* What a step does to the pointers that the application has.
LEMMA HeldMoves ==
  ASSUME [Next]_vars
  PROVE  \/ held' = held
         \/ \E b \in held : held' = held \ {b}
         \/ \E b \in held' : held' = held \cup {b}
<1>1. CASE UNCHANGED vars
  BY <1>1 DEF vars
<1>2. ASSUME NEW t \in Threads, NEW size \in Sizes, Malloc(t, size)
      PROVE  held' = held \/ \E b \in held' : held' = held \cup {b}
  BY <1>2 DEF Malloc
<1>3. ASSUME NEW t \in Threads, NEW b \in held, Free(t, b)
      PROVE  held' = held \/ held' = held \ {b}
  BY <1>3 DEF Free, FreeUnready, FreeToCache, FreeToPool, FreeHead
<1>4. ASSUME NEW t \in Threads, Refill(t) PROVE \E b \in held' : held' = held \cup {b}
  BY <1>4 DEF Refill, Deliver
<1>5. ASSUME NEW t \in Threads, Exit(t) \/ (Step(t) /\ ~Refill(t)) PROVE held' = held
  BY <1>5 DEF Exit, Step, TryLock, WaitLock, SPoolInit, FreeLock, FreePut, FreeReread, FreeRelock
<1> QED
  BY <1>1, <1>2, <1>3, <1>4, <1>5 DEF Next, Step

\* Two blocks that the application has share no byte.
HeldApart == \A b, c \in held \cap Blocks : b # c => BA!Apart(Bytes(b), Bytes(c))

\* It follows from each block's being cut as its page is cut now.
LEMMA OutApart == SInv => HeldApart
<1> SUFFICES ASSUME SInv, NEW b \in held \cap Blocks, NEW c \in held \cap Blocks, b # c
             PROVE  BA!Apart(Bytes(b), Bytes(c))
  BY DEF HeldApart
<1>1. b \in Cut(b.span, block_index[b.span]) /\ c \in Cut(c.span, block_index[c.span])
  BY DEF SInv, OutCut, IsOut
<1>2. b.class = block_index[b.span] /\ c.class = block_index[c.span]
  BY <1>1 DEF Cut, Block
<1> QED
  BY <1>2, BytesApart

\* The same after a step.
LEMMA OutApartNext == SInv' => HeldApart'
  BY OutApart, PTL

\* Every step is one of an allocator of bytes, or none.
LEMMA StepAllocates ==
  ASSUME SInv, SInv', [Next]_vars
  PROVE  BA!Next \/ granted' = granted
<1>1. granted' = {Bytes(b) : b \in held' \cap Blocks}
  BY DEF granted
<1>2. ASSUME NEW b \in held, held' = held \ {b} PROVE BA!Next \/ granted' = granted
  <2>1. CASE b \notin Blocks
    BY <1>1, <1>2, <2>1 DEF granted
  <2>2. CASE b \in Blocks
    <3>1. \A c \in held \cap Blocks : c # b => Bytes(c) # Bytes(b)
      <4> SUFFICES ASSUME NEW c \in held \cap Blocks, c # b, Bytes(c) = Bytes(b) PROVE FALSE
        OBVIOUS
      <4>1. BA!Apart(Bytes(b), Bytes(c))
        BY <2>2, OutApart DEF HeldApart
      <4> QED
        BY <2>2, <4>1, BytesInPage DEF BA!Apart
    <3>2. granted' = granted \ {Bytes(b)} /\ Bytes(b) \in granted
      BY <1>1, <1>2, <2>2, <3>1 DEF granted
    <3> QED
      BY <3>2 DEF BA!Next, BA!Release
  <2> QED
    BY <2>1, <2>2
<1>3. ASSUME NEW b \in held', held' = held \cup {b} PROVE BA!Next \/ granted' = granted
  <2>1. CASE b \notin Blocks \/ b \in held
    BY <1>1, <1>3, <2>1 DEF granted
  <2>2. CASE b \in Blocks /\ b \notin held
    <3>1. granted' = granted \cup {Bytes(b)} /\ Bytes(b) \in granted'
      BY <1>1, <1>3, <2>2 DEF granted
    <3>2. \A h \in granted : BA!Apart(Bytes(b), h)
      <4> SUFFICES ASSUME NEW c \in held \cap Blocks PROVE BA!Apart(Bytes(b), Bytes(c))
        BY DEF granted
      <4>1. c \in held' \cap Blocks /\ b \in held' \cap Blocks /\ b # c
        BY <1>3, <2>2
      <4> QED
        BY <4>1, OutApartNext DEF HeldApart
    <3>3. Bytes(b).first \in Nat /\ Bytes(b).units \in Nat \ {0}
      BY <2>2, BytesInPage
    <3> QED
      BY <3>1, <3>2, <3>3 DEF BA!Next, BA!Grant
  <2> QED
    BY <2>1, <2>2
<1> QED
  BY <1>2, <1>3, HeldMoves DEF granted

\* mem_malloc and mem_free of small blocks implement an allocator of bytes: whatever sizes
\* are asked for and however pages are cut again, what is handed out overlaps nothing.
THEOREM SmallRefinement == Spec => ImplementsAllocator
<1>1. Init => BA!Init
  BY DEF Init, BA!Init, granted
<1>2. (IInv /\ SInv) /\ (IInv /\ SInv)' /\ [Next]_vars => [BA!Next]_granted
  BY StepAllocates
<1> QED
  BY <1>1, <1>2, SmallHeapSafe, PTL DEF Spec, ImplementsAllocator, BA!Spec

=============================================================================
