------------------------------- MODULE TrHeap -------------------------------
(***************************************************************************)
(* tr_malloc, the allocator that memmalloc grew out of: local heaps that   *)
(* threads take from a pool and give back when they end, chunks cut into   *)
(* blocks of one class, and blocks freed by a thread that does not own the *)
(* chunk, which wait in the owner's remote_free.                           *)
(*                                                                         *)
(* Lists are the words in memory that the code writes.  A thread's step is *)
(* a section under a lock that nobody works around, or what it does with   *)
(* its own heap up to the next one; thread_exit, which takes no lock, is a *)
(* step per word.  A step that follows a null pointer, or takes something  *)
(* else for a chunk or a heap, sets broken, and the model stops.           *)
(*                                                                         *)
(* Two pairs of sections exclude each other only by luck, and raced says   *)
(* that a pair met: thread_exit and acquire_lheap in the list of the pool, *)
(* and the end of acquire_lheap and a remote free into the heap that it    *)
(* initialises again.  From then on only the pool of heaps is followed.    *)
(***************************************************************************)
EXTENDS Links, Functions

CONSTANTS
  Threads,
  Classes, cls2size,   \* block classes, and the size of a block in units
  CHUNK_DATA_SIZE,     \* units of a chunk's data
  WEAR_LIMIT,          \* calls that a spare chunk stays with its heap
  CHUNKS, ALLOC_UNIT,  \* bound: chunks of the pool, and those mapped at once
  HEAPS, LHEAP_UNIT,   \* bound: heaps of the pool, and those mapped at once
  HELD_LIMIT           \* bound: blocks the application holds at a time

Heaps  == 1 .. HEAPS
Chunks == 1 .. CHUNKS
NoHeap == 0
PoolHeap == -1         \* what list_entry makes of the head of heap_pool's list
Dummy  == 0            \* lh->dummy_chunk in foreground
NoOne  == "none"       \* owner of a free lock

ASSUME TrAssumption ==
  /\ NoOne \notin Threads /\ CHUNKS \in Nat /\ HEAPS \in Nat
  /\ ALLOC_UNIT \in 1 .. CHUNKS /\ LHEAP_UNIT \in 1 .. HEAPS
  /\ WEAR_LIMIT \in Nat \ {0, 1} /\ HELD_LIMIT \in Nat
  /\ CHUNK_DATA_SIZE \in Nat \ {0}
  /\ Classes # {} /\ IsFiniteSet(Classes) /\ cls2size \in [Classes -> 1 .. CHUNK_DATA_SIZE]

\* The nodes: list heads, the list members of chunks and heaps, a chunk's
\* dlist ends, and the units of its data, where a free block is a node.
Background(h, c) == <<"background", h, c>>
FreeList(h)      == <<"free_list", h, 0>>
Remote(h)        == <<"remote_free", h, 0>>
HeapNode(h)      == <<"heap", h, 0>>
ChunkNode(k)     == <<"chunk", k, 0>>
DHead(k)         == <<"dlist_head", k, 0>>
DTail(k)         == <<"dlist_tail", k, 0>>
Block(k, o)      == <<"block", k, o>>
HeapPool         == <<"heap_pool", 0, 0>>
GPool            == <<"gpool", 0, 0>>

Blocks == {Block(k, o) : k \in Chunks, o \in 0 .. CHUNK_DATA_SIZE - 1}
Nodes  == {HeapPool, GPool} \cup {HeapNode(h) : h \in Heaps}
          \cup {Background(h, c) : h \in Heaps, c \in Classes}
          \cup {FreeList(h) : h \in Heaps} \cup {Remote(h) : h \in Heaps}
          \cup {ChunkNode(k) : k \in Chunks} \cup Blocks
          \cup {DHead(k) : k \in Chunks} \cup {DTail(k) : k \in Chunks}

Count(c) == CHUNK_DATA_SIZE \div cls2size[c]
RawChunk == [owner |-> NoHeap, state |-> "FORG", size_cls |-> 0, blk_cnt |-> 0,
             free_mem_cnt |-> 0, free_tot_cnt |-> 0, spare_count |-> 0]

VARIABLES
  mem,         \* the two words of every node
  gpool,       \* chunks that were never used: the first, and the end of the mapping
  heap_pool,   \* the same of the heaps
  chunk,       \* chunkh_t
  foreground, lock,   \* lheap_t
  local_heap,  \* of each thread
  held,        \* blocks the application has and has not freed
  pc, cls, ptr,   \* locals of the call a thread is in
  broken,
  raced        \* two sections met that nothing keeps apart

pools  == <<gpool, heap_pool>>
heaps  == <<foreground, lock>>
locals == <<pc, cls, ptr>>
vars   == <<mem, pools, chunk, heaps, local_heap, held, locals, broken, raced>>

Goto(t, label) == pc' = [pc EXCEPT ![t] = label]

Exiting(t) == pc[t] \in {"exit1", "exit2", "exit3", "exit4"}

-----------------------------------------------------------------------------
\* After global_init: one mapping for each pool, the lists of both empty.
Init ==
  /\ mem = [n \in Nodes |-> IF n \in {HeapPool, GPool} THEN <<n, n>> ELSE <<NULL, NULL>>]
  /\ gpool = [free_start |-> 1, pool_end |-> ALLOC_UNIT]
  /\ heap_pool = [free_start |-> 1, pool_end |-> LHEAP_UNIT]
  /\ chunk = [k \in Chunks |-> RawChunk]
  /\ foreground = [h \in Heaps |-> [c \in Classes |-> Dummy]]
  /\ lock = [h \in Heaps |-> NoOne]
  /\ local_heap = [t \in Threads |-> NoHeap]
  /\ held = {}
  /\ pc = [t \in Threads |-> "idle"]
  /\ cls = [t \in Threads |-> CHOOSE c \in Classes : TRUE]
  /\ ptr = [t \in Threads |-> NULL]
  /\ broken = FALSE /\ raced = FALSE

\* What gpool_acquire_chunk and acquire_lheap take from a pool: what was never
\* used, then what its list has, then the first of a new mapping.
Fresh(pool)          == pool.free_start <= pool.pool_end
FromList(pool, head) == ~Fresh(pool) /\ ~list_empty(mem, head)

\* Mutants: the pool grows a mapping late, or does not move on.
AdvancedLate(pool, unit) ==
  [free_start |-> pool.free_start + 1,
   pool_end   |-> IF pool.free_start <= pool.pool_end + 1 THEN pool.pool_end ELSE pool.pool_end + unit]
AdvancedNot(pool, unit) == IF Fresh(pool) THEN pool ELSE [pool EXCEPT !.pool_end = @ + unit]

Advanced(pool, unit) ==
  [free_start |-> pool.free_start + 1,
   pool_end   |-> IF Fresh(pool) THEN pool.pool_end ELSE pool.pool_end + unit]

-----------------------------------------------------------------------------
(* tr_malloc *)

\* check_init
Malloc(t, c) ==
  /\ pc[t] = "idle"
  /\ Cardinality(held) + Cardinality({u \in Threads : pc[u] # "idle"}) < HELD_LIMIT
  /\ cls' = [cls EXCEPT ![t] = c]
  /\ Goto(t, IF local_heap[t] = NoHeap THEN "acquire" ELSE "small")
  /\ UNCHANGED <<mem, pools, chunk, heaps, local_heap, held, ptr, broken, raced>>

\* acquire_lheap locks the pool and takes a heap that was never used, or finds
\* the first of the list.
Acquire(t) ==
  /\ pc[t] = "acquire" /\ \A u \in Threads : pc[u] # "take"
  /\ IF FromList(heap_pool, HeapPool)
     THEN /\ ptr' = [ptr EXCEPT ![t] = mem[HeapPool][2]]
          /\ raced' = (raced \/ \E u \in Threads : Exiting(u))
          /\ Goto(t, "take")
          /\ UNCHANGED <<heap_pool, local_heap>>
     ELSE /\ heap_pool.free_start <= HEAPS
          /\ heap_pool' = Advanced(heap_pool, LHEAP_UNIT)
          /\ local_heap' = [local_heap EXCEPT ![t] = heap_pool.free_start]
          /\ Goto(t, "init")
          /\ UNCHANGED <<ptr, raced>>
  /\ UNCHANGED <<mem, gpool, chunk, heaps, held, cls, broken>>

\* It takes what it has found off the list and unlocks the pool.  The head of the
\* list, when it points to itself, makes a heap too.
Unlink(t) ==
  LET n == ptr[t] IN
  /\ pc[t] = "take"
  /\ broken' = Loose(mem, n)
  /\ mem' = IF Loose(mem, n) THEN mem ELSE list_del(mem, n)
  /\ local_heap' = [local_heap EXCEPT ![t] = IF n = HeapPool THEN PoolHeap ELSE n[2]]
  /\ ptr' = [ptr EXCEPT ![t] = NULL]
  /\ Goto(t, "init")
  /\ UNCHANGED <<pools, chunk, heaps, held, cls, raced>>

\* The rest of it, without a lock, from its first write on; what precedes the
\* list's head in memory is no heap.
InitBegin(t) ==
  /\ pc[t] = "init"
  /\ broken' = (local_heap[t] = PoolHeap)
  /\ raced' = (raced \/ \E u \in Threads :
                  pc[u] = "remote" /\ chunk[ptr[u][2]].owner = local_heap[t])
  /\ Goto(t, "reset")
  /\ UNCHANGED <<mem, pools, chunk, heaps, local_heap, held, cls, ptr>>

\* ... and up to its last one.
InitLheap(t) ==
  LET h == local_heap[t]
      heads == {Background(h, c) : c \in Classes} \cup {FreeList(h), Remote(h)}
  IN /\ pc[t] = "reset"
     /\ foreground' = [foreground EXCEPT ![h] = [c \in Classes |-> Dummy]]
     /\ mem' = [n \in Nodes |-> IF n \in heads THEN <<n, n>> ELSE mem[n]]
     /\ lock' = [lock EXCEPT ![h] = NoOne]
     /\ Goto(t, "small")
     /\ UNCHANGED <<pools, chunk, local_heap, held, cls, ptr, broken, raced>>

\* dummy_chunk.free_tot_cnt is 1, so that an empty heap does not collect.
FreeTot(k) == IF k = Dummy THEN 1 ELSE chunk[k].free_tot_cnt

\* small_malloc up to remote_block_collect, which takes the heap's lock.
Small(t) ==
  LET h == local_heap[t] IN
  /\ pc[t] = "small"
  /\ IF FreeTot(foreground[h][cls[t]]) = 0
     THEN /\ lock[h] = NoOne
          /\ lock' = [lock EXCEPT ![h] = t]
          /\ ptr' = [ptr EXCEPT ![t] = mem[Remote(h)][2]]
          /\ Goto(t, "collect")
     ELSE Goto(t, "serve") /\ UNCHANGED <<lock, ptr>>
  /\ UNCHANGED <<mem, pools, chunk, foreground, local_heap, held, cls, broken, raced>>

\* Mutant: the chunk stays in the background.
RetiredToo(m, k, h) == list_add_tail(m, ChunkNode(k), FreeList(h))

\* A chunk with no block out moves from the background to the free list.
Retired(m, k, h) == list_add_tail(list_del(m, ChunkNode(k)), ChunkNode(k), FreeList(h))

\* The local branch of chunk_free_small, from memory m.
FreeLocal(m, b) ==
  LET k  == b[2]
      c  == chunk[k]
      m1 == dlist_add(m, DHead(k), b)
  IN /\ chunk' = [chunk EXCEPT ![k].free_tot_cnt = @ + 1,
                               ![k].state = IF @ = "FULL" THEN "BACK" ELSE @]
     /\ mem' = CASE c.state = "FULL" ->
                      list_add_tail(m1, ChunkNode(k), Background(c.owner, c.size_cls))
                 [] c.state = "BACK" /\ c.free_tot_cnt + 1 = c.blk_cnt ->
                      Retired(m1, k, c.owner)
                 [] OTHER -> m1

\* The loop of remote_block_collect.  Its next block is read from the one that
\* was just freed, where dlist_add has written a link of the other kind.
Collect(t) ==
  LET h == local_heap[t]
      b == ptr[t]
  IN /\ pc[t] = "collect"
     /\ \/ /\ b = Remote(h)
           /\ lock' = [lock EXCEPT ![h] = NoOne]
           /\ Goto(t, "serve")
           /\ ptr' = [ptr EXCEPT ![t] = NULL]
           /\ UNCHANGED <<mem, chunk, broken>>
        \/ /\ b # Remote(h) /\ ~Loose(mem, b)
           /\ FreeLocal(list_del(mem, b), b)
           /\ ptr' = [ptr EXCEPT ![t] = mem'[b][2]]
           /\ UNCHANGED <<lock, pc, broken>>
        \/ /\ b # Remote(h) /\ Loose(mem, b)
           /\ broken' = TRUE
           /\ UNCHANGED <<mem, chunk, lock, ptr, pc>>
     /\ UNCHANGED <<pools, foreground, local_heap, held, cls, raced>>

\* Mutant: the comparison of the spare loop the way it reads at first sight.
WornCounted(n) == n >= WEAR_LIMIT

\* unlikely(n) >= WEAR_LIMIT compares a truth value: it never holds.
Worn(n) == (IF n # 0 THEN 1 ELSE 0) >= WEAR_LIMIT

\* What the application writes into a block is no link.
Data == <<NULL, NULL>>

\* Chunk k is linked into the pool's list n times.
BackToPool(m, k, n) ==
  LET back[i \in 0 .. n] == IF i = 0 THEN m
                            ELSE list_add_tail(back[i - 1], ChunkNode(k), GPool)
  IN back[n]

\* chunk_alloc_obj from chunk k, which has or gets the foreground, and the loop
\* over the spare chunks, which returns k to the pool in place of the spare one.
Alloc(t, m, headers, k) ==
  LET c     == headers[k]
      uncut == c.free_mem_cnt > 0
      obj   == IF uncut THEN Block(k, (c.blk_cnt - c.free_mem_cnt) * cls2size[c.size_cls])
                        ELSE m[DTail(k)][2]
      m1    == IF uncut THEN m ELSE dlist_remove(m, obj)
      spare == Listed(m1, FreeList(local_heap[t]))
      worn  == {i \in DOMAIN spare : Worn(headers[spare[i][2]].spare_count)}
  IN /\ held' = held \cup {obj}
     /\ mem' = BackToPool([m1 EXCEPT ![obj] = Data], k, Cardinality(worn))
     /\ chunk' = [j \in Chunks |->
          IF j = k THEN [c EXCEPT !.state = "FORG", !.free_tot_cnt = @ - 1,
                                  !.free_mem_cnt = IF uncut THEN @ - 1 ELSE @]
          ELSE IF ChunkNode(j) \in Range(spare) /\ headers[j].spare_count < WEAR_LIMIT
          THEN [headers[j] EXCEPT !.spare_count = @ + 1]
          ELSE headers[j]]

\* Mutant: chunk_init leaves free_mem_cnt.
CutAgain(header, owner, c) ==
  [header EXCEPT !.owner = owner, !.size_cls = c, !.blk_cnt = Count(c),
                 !.free_tot_cnt = Count(c), !.spare_count = 0]

\* chunk_init; the pool's chunks get their owner before it.
Cut(header, owner, c) ==
  [header EXCEPT !.owner = owner, !.size_cls = c, !.blk_cnt = Count(c),
                 !.free_mem_cnt = Count(c), !.free_tot_cnt = Count(c), !.spare_count = 0]

\* The chunk at node n of memory m gets the foreground, and the one that had it
\* is FULL.  It is cut for an owner unless it comes from the background.
Replace(t, m, n, owner) ==
  LET h   == local_heap[t]
      c   == cls[t]
      k   == n[2]
      old == foreground[h][c]
      full == IF old = Dummy THEN chunk ELSE [chunk EXCEPT ![old].state = "FULL"]
  IN IF n[1] # "chunk" THEN broken' = TRUE /\ UNCHANGED <<mem, chunk, foreground, held, pc>>
     ELSE /\ foreground' = [foreground EXCEPT ![h][c] = k]
          /\ IF owner = NoHeap THEN Alloc(t, m, full, k)
             ELSE Alloc(t, dlist_init(m, DHead(k), DTail(k)),
                        [full EXCEPT ![k] = Cut(@, owner, c)], k)
          /\ Goto(t, "idle")
          /\ UNCHANGED broken

\* small_malloc after the collection: from the foreground chunk, or from a chunk
\* of the background, of the heap's free list, or of the pool.
Serve(t) ==
  LET h  == local_heap[t]
      c  == cls[t]
      k  == foreground[h][c]
      bg == Background(h, c)
      fl == FreeList(h)
      TakeFrom(head, owner) == Replace(t, list_del(mem, mem[head][2]), mem[head][2], owner)
  IN /\ pc[t] = "serve"
     /\ \/ /\ k # Dummy /\ FreeTot(k) > 0
           /\ Alloc(t, mem, chunk, k)
           /\ Goto(t, "idle")
           /\ UNCHANGED <<foreground, gpool, broken>>
        \/ /\ k = Dummy \/ FreeTot(k) = 0
           /\ \/ /\ ~list_empty(mem, bg)
                 /\ TakeFrom(bg, NoHeap)
                 /\ UNCHANGED gpool
              \/ /\ list_empty(mem, bg) /\ ~list_empty(mem, fl)
                 /\ TakeFrom(fl, chunk[mem[fl][2][2]].owner)
                 /\ UNCHANGED gpool
              \/ /\ list_empty(mem, bg) /\ list_empty(mem, fl)
                 /\ IF FromList(gpool, GPool)
                    THEN TakeFrom(GPool, h) /\ UNCHANGED gpool
                    ELSE /\ gpool.free_start <= CHUNKS
                         /\ gpool' = Advanced(gpool, ALLOC_UNIT)
                         /\ Replace(t, mem, ChunkNode(gpool.free_start), h)
     /\ UNCHANGED <<heap_pool, lock, local_heap, cls, ptr, raced>>

-----------------------------------------------------------------------------
(* tr_free and the end of a thread *)

\* A block that a thread frees and that is still in no list.
Leaving == {ptr[u] : u \in {v \in Threads : pc[v] = "remote"}}

\* chunk_free_small of a block of the thread's own heap ...
FreeOwn(t, b) ==
  /\ pc[t] = "idle" /\ b \notin Leaving
  /\ chunk[b[2]].owner = local_heap[t]
  /\ FreeLocal(mem, b)
  /\ held' = held \ {b}
  /\ UNCHANGED <<pools, heaps, local_heap, locals, broken, raced>>

\* ... and of another heap, in whose remote_free it waits: the heap is locked,
Free(t, b) ==
  LET owner == chunk[b[2]].owner IN
  /\ pc[t] = "idle" /\ b \notin Leaving
  /\ owner # local_heap[t] /\ lock[owner] = NoOne
  /\ lock' = [lock EXCEPT ![owner] = t]
  /\ ptr' = [ptr EXCEPT ![t] = b]
  /\ raced' = (raced \/ \E u \in Threads : pc[u] = "reset" /\ local_heap[u] = owner)
  /\ Goto(t, "remote")
  /\ UNCHANGED <<mem, pools, chunk, foreground, local_heap, held, cls, broken>>

\* the block linked and the heap unlocked.
FreePut(t) ==
  LET b     == ptr[t]
      owner == chunk[b[2]].owner
  IN /\ pc[t] = "remote"
     /\ mem' = list_add_tail(mem, b, Remote(owner))
     /\ held' = held \ {b}
     /\ lock' = [lock EXCEPT ![owner] = NoOne]
     /\ ptr' = [ptr EXCEPT ![t] = NULL]
     /\ Goto(t, "idle")
     /\ UNCHANGED <<pools, chunk, foreground, local_heap, cls, broken, raced>>

\* thread_exit links the heap into the pool's list without the pool's lock: it
\* reads the last node ...
ExitBegin(t) ==
  /\ pc[t] = "idle" /\ local_heap[t] # NoHeap
  /\ ptr' = [ptr EXCEPT ![t] = mem[HeapPool][1]]
  /\ raced' = (raced \/ \E u \in Threads : pc[u] = "take")
  /\ Goto(t, "exit1")
  /\ UNCHANGED <<mem, pools, chunk, heaps, local_heap, held, cls, broken>>

\* ... and links behind what it has read, in four writes.  The next thread starts
\* over.
Exit(t) ==
  LET new == HeapNode(local_heap[t])
      Write(n, w, x, label) == /\ mem' = [mem EXCEPT ![n][w] = x]
                               /\ Goto(t, label)
  IN /\ \/ pc[t] = "exit1" /\ Write(new, 2, HeapPool, "exit2")
        \/ pc[t] = "exit2" /\ Write(HeapPool, 1, new, "exit3")
        \/ pc[t] = "exit3" /\ Write(ptr[t], 2, new, "exit4")
        \/ pc[t] = "exit4" /\ Write(new, 1, ptr[t], "idle")
     /\ IF pc[t] = "exit4" THEN /\ local_heap' = [local_heap EXCEPT ![t] = NoHeap]
                                /\ ptr' = [ptr EXCEPT ![t] = NULL]
                           ELSE UNCHANGED <<local_heap, ptr>>
     /\ UNCHANGED <<pools, chunk, heaps, held, cls, broken, raced>>

-----------------------------------------------------------------------------
Next ==
  /\ ~broken
  /\ \E t \in Threads :
       \/ \E c \in Classes : Malloc(t, c)
       \/ Acquire(t) \/ Unlink(t) \/ InitBegin(t) \/ InitLheap(t) \/ ExitBegin(t) \/ Exit(t)
       \/ /\ ~raced
          /\ \/ Small(t) \/ Collect(t) \/ Serve(t)
             \/ \E b \in held : FreeOwn(t, b) \/ Free(t, b)
             \/ FreePut(t)

Spec == Init /\ [][Next]_vars

-----------------------------------------------------------------------------
(* Properties *)

\* The free blocks in a chunk's own list.
Returned(k) == Range(Walk(mem, DHead(k), 1, DTail(k)))

\* The blocks that chunk k has been cut into so far.
CutOff(k) ==
  LET c == chunk[k] IN
  {Block(k, i * cls2size[c.size_cls]) : i \in 0 .. c.blk_cnt - c.free_mem_cnt - 1}

Owned == {k \in Chunks : chunk[k].owner # NoHeap}
Live(t) == local_heap[t] # NoHeap /\ pc[t] \notin {"init", "reset"}

Headers == [owner : Heaps \cup {NoHeap}, state : {"FORG", "FULL", "BACK"},
            size_cls : Classes \cup {0}, blk_cnt : 0 .. CHUNK_DATA_SIZE,
            free_mem_cnt : Nat, free_tot_cnt : Nat, spare_count : Nat]

\* The type of every variable.
TypeOK ==
  /\ mem \in [Nodes -> (Nodes \cup {NULL}) \X (Nodes \cup {NULL})]
  /\ gpool \in [free_start : 1 .. CHUNKS + 1, pool_end : Nat]
  /\ heap_pool \in [free_start : 1 .. HEAPS + 1, pool_end : Nat]
  /\ gpool.free_start <= gpool.pool_end + 1 /\ heap_pool.free_start <= heap_pool.pool_end + 1
  /\ chunk \in [Chunks -> Headers]
  /\ \A k \in Chunks : /\ chunk[k].free_tot_cnt <= chunk[k].blk_cnt
                       /\ chunk[k].free_mem_cnt <= chunk[k].free_tot_cnt
  /\ foreground \in [Heaps -> [Classes -> Chunks \cup {Dummy}]]
  /\ lock \in [Heaps -> Threads \cup {NoOne}]
  /\ local_heap \in [Threads -> Heaps \cup {NoHeap, PoolHeap}]
  /\ held \subseteq Blocks
  /\ pc \in [Threads -> {"idle", "acquire", "take", "init", "reset", "small", "collect", "serve",
                         "remote", "exit1", "exit2", "exit3", "exit4"}]
  /\ cls \in [Threads -> Classes]
  /\ ptr \in [Threads -> Nodes \cup {NULL}]
  /\ broken \in BOOLEAN /\ raced \in BOOLEAN

\* A block that the application has is a block of its chunk as it is cut now,
\* and is in no list from which it could be handed out again.
BlocksExclusive ==
  ~raced => \A b \in held : /\ b \in CutOff(b[2]) \ Returned(b[2])
                  /\ \A h \in Heaps : b \notin Range(Listed(mem, Remote(h)))

\* What the application has are runs of units in the chunks' data that nobody
\* else has, of the size that the chunk is cut for: tr_malloc and tr_free of
\* small blocks implement an allocator, through chunks cut anew for other classes.
Units(b) == [first |-> (b[2] - 1) * CHUNK_DATA_SIZE + b[3],
             units |-> cls2size[chunk[b[2]].size_cls]]

granted == {Units(b) : b \in held}

UA == INSTANCE Allocator WITH held <- granted

ImplementsAllocator == UA!Spec

\* The counters of a chunk agree with its list, so that a chunk is cut again
\* only when none of its blocks is out.
ChunkAccounting ==
  ~raced => \A k \in Owned : /\ Returned(k) \subseteq CutOff(k)
                   /\ chunk[k].free_tot_cnt = chunk[k].free_mem_cnt + Cardinality(Returned(k))

\* No two threads have one heap, and none has a heap that the pool can give out:
\* acquire_lheap gets a heap that can be used (TRmalloc.h:215), and thread_exit
\* gives it back when its thread is done with it (TRmalloc.c:97).
HeapsUnshared ==
  ~broken => \A t \in Threads : local_heap[t] # NoHeap /\ ~Exiting(t) =>
    /\ \A u \in Threads \ {t} : ~Exiting(u) => local_heap[u] # local_heap[t]
    /\ HeapNode(local_heap[t]) \notin Range(Listed(mem, HeapPool))

\* However many threads end at the same time and however their writes mix, which
\* no lock orders, no heap comes to be shared, as long as none is taken from the
\* list meanwhile.
HeapsApart == ~raced => HeapsUnshared

\* The chunk that a thread serves a class from belongs to its heap, is cut for
\* that class, serves no other, and is in no list.
ForegroundSound ==
  ~raced => \A t \in Threads : Live(t) => \A c \in Classes :
    LET h == local_heap[t]
        k == foreground[h][c]
    IN k # Dummy =>
         /\ chunk[k].owner = h /\ chunk[k].size_cls = c /\ chunk[k].state = "FORG"
         /\ \A n \in {FreeList(h), GPool} \cup {Background(h, d) : d \in Classes} :
              ChunkNode(k) \notin Range(Listed(mem, n))

\* The lists of a heap in use hold chunks of the heap: in the background those
\* with room for the class, in the free list those with no block out.
ListsSound ==
  ~broken /\ ~raced => \A t \in Threads : Live(t) =>
    LET h == local_heap[t] IN
    /\ \A c \in Classes : \A n \in Range(Listed(mem, Background(h, c))) :
         /\ n[1] = "chunk" /\ chunk[n[2]].owner = h /\ chunk[n[2]].size_cls = c
         /\ chunk[n[2]].state = "BACK" /\ chunk[n[2]].free_tot_cnt > 0
    /\ \A n \in Range(Listed(mem, FreeList(h))) :
         /\ n[1] = "chunk" /\ chunk[n[2]].owner = h
         /\ chunk[n[2]].free_tot_cnt = chunk[n[2]].blk_cnt

\* remote_block_collect brings the blocks back (TRmalloc.h:249, "to collect
\* blocks from the remote free list into the chunks of the local heap").
Collects == \A t \in Threads : pc[t] = "collect" => ~broken

=============================================================================
