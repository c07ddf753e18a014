# A verification project for memmalloc

memmalloc is a user-space memory allocator in C for Linux: `malloc`, `free`,
`calloc` and `realloc` with a cache per thread, several small heaps, one global
heap, and two optional schemes against single event upsets (bits that a
particle flips), triple redundancy (`-DTMR`) and parity (`-DSEU`). This
directory holds TLA+ models of it, the TLC runs that check them, and proofs
that TLAPS checks. Line numbers are those of `src/src/memmalloc.c` unless
another file is named.

## 1. The system

### Components, their state and their operations

| Component | State | Operations | Hard because |
|---|---|---|---|
| Global heap | `m_pool`: `free_start`, `pool_end`, 256 span lists, `span_map` from page to span header | `mpool_grow`, `span_get_from_mpool`, `span_split`, `large_malloc`, `large_block_free` | spans are split for ever and never merged; `mem_free` reads headers without the lock |
| Struct heap | `head_pool`: what is left of a 20-page reservation | `head_pool_grow`, `s_pool_head_get` | takes pages of the global heap while start-up runs |
| Small heaps | `s_pool`: a chunk of pages, a span list per class, `inited`, a mutex | `s_pool_init`, `block_get_from_spool` | chosen by `trylock` one after the other; initialised on first use |
| Spans | `l_span` in the first 72 bytes of a span: pages, class, free and total blocks, block list, pool | `span_init`, `span_cut_block` | a span wanders from pool to pool through the global heap |
| Thread caches | `l_cache` (thread local): a block list per class, `block_num` (a signed char) | `check_init`, `small_malloc`, `small_block_free` | filled with blocks of any pool's spans; a thread that ends takes its cache with it |
| Huge blocks | a size word before the block, no span | `huge_malloc`, `huge_block_free` | recognised by `page_num` 0 of a null span |
| Redundancy | the copies inside a block | `MEM_Read`, `MEM_Write`, `data_block_init` | upsets and other readers between its steps |
| API | none of its own | `mem_malloc`, `mem_free`, `mem_calloc`, `mem_realloc` | `mem_malloc` decides by size, `mem_free` by header, `mem_realloc` by either |
| Log (`log.c`, `-DLOG`) | the buffer `log_file_path`, the file | `output_log_info`, `create_file`, `w_file` | check, then act, without a lock |
| Lists (`list.h`, `tr_malloc/list.h`, `dlist.h`) | two pointer words per node | `list_add`, `list_add_tail`, `list_del`, `dlist_add`, `dlist_remove`, ... | the words of one kind are read as those of the other |
| `tr_malloc`: heaps and chunks | `gpool`, `heap_pool`, `lheap_t` (foreground, background, free list, remote list), `chunkh_t` | `tr_malloc`, `tr_free`, `thread_exit` | heaps are given back and used again; blocks freed by strangers wait in `remote_free` |
| `tr_malloc`: sizes | `cls2size`, `sizemap`, `sizemap2` | `maps_init`, `chunk_extract_header`, `TR_Write`, `TR_Read` | one loop variable runs through four loops; addresses are taken modulo an odd size |
| `exeCMD` | none | counts processors with a shell pipeline | not modelled |

They interact through shared memory. `small_malloc` takes a block from its
thread's cache; an empty cache is filled from the first small heap whose lock
is free; a small heap without blocks of the class takes a page of its chunk,
and then a one-page span of the global heap under `mpool.lock`. `mem_free` finds
the span by `span_map` and decides by `page_num`: a small block goes to the
freeing thread's cache, or to its span when the cache is full, and the span to
the global heap when its last block is back; a large span goes to the list of
its size. Lock order: pool lock, then `mpool.lock`. `mem_malloc` and `mem_free`
end with a line in the log if it is compiled in. `tr_malloc` shares no state with
the rest: the benchmarks link one or the other.

### What makes each component correct

* **Global heap**: no page is in two places, the map leads to the header, lists
  hold spans of their size, nothing is lost, and what `mem_free` reads without a
  lock does not change under it.
* **Small heaps and caches**: a block is in one place; the counts say when a
  span is complete, and only then it is given back; a pool is initialised before
  it is used; locks are released, and calls return.
* **Redundancy**: the data can be recovered from one upset, at whatever step of
  a read or of a write it comes. (In the parity build one step of a write is an exception.)
* **API**: a block has room for its copies in every build, and is freed to the
  allocator it came from.
* **Log**: every call leaves a line.
* **`tr_malloc`**: a block is in one place and a heap has one thread, also when
  both are used again; lists hold what their owners think; a size gets the least
  class that holds it, an address leads to its header, copies stay inside.

The hazards behind these sentences, each at its line, are listed in
`PROJECT.json` under `hazards`, together with the properties about them.

## 2. Modules

| Module | What it is |
|---|---|
| `Allocator` | what an allocator promises its clients (abstract): the runs of units that they hold never overlap |
| `GlobalHeap` | global heap, struct heap and chunks, at page level; implements `Allocator` with pages for units |
| `SmallHeap` | small heaps, caches, locks, at block level, thread by thread; implements `Allocator` with bytes |
| `Tmr`, `Seu` | one block with its copies, in either build |
| `Api` | the calls and their sizes, in the three builds, with the real limits |
| `Log` | the log file's name and its lines, byte groups at a time |
| `Links` | list and dlist functions as writes of pointer words |
| `TrHeap` | `tr_malloc`'s pools, heaps, chunks and blocks, on the words of `Links`; implements `Allocator` with units of a chunk's data |
| `TrSizes` | `tr_malloc`'s class tables, block addresses and copies, with the real constants |
| `MC*` | the instances for TLC: definitions of constants and symmetry |
| `GlobalHeapProofs`, `SmallHeapProofs`, `ApiProofs`, `LinksProofs`, `TrHeapProofs`, `TrSizesProofs`, `TmrProofs`, `SeuProofs` | theorems and proofs about the module they extend |

Definitions that begin with "Mutant" in their comment are plausible bugs of the
definition below them. Nothing refers to them: they are put in its place, one at
a time, to see that the properties notice.

### `GlobalHeap` and the code

Addresses are page numbers from `pool_start`; a span is named by its first page.
Every section under `mpool.lock` is one action, because it contains no other
lock and does not block. The exception is the free of a large block, two actions: `MemFree` is
the lock-free read (527-551) and `LargeBlockFree` the link (600-606).

| Code | Action |
|---|---|
| `m_pool_init` | `Init` |
| `m_head_pool_init`, `head_pool_grow` | `MHeadPoolInit`, `HeadPoolGrow` |
| `s_pool_list_init`, `s_pool_head_get` | `SPoolHeadGet`, in the order of 146-167 |
| `s_pool_init` | `SPoolInit` |
| `span_get_from_mpool`: 403-416 and 434-447 | `FreshSpan` |
| 419-431 with `span_split` | `ListedSpan` |
| `large_malloc` | `LargeMalloc` |
| `block_get_from_spool` 484-499 | `SmallSpan` |
| `small_block_free` 588-597 | `SmallReturn` |

`SmallReturn` abstracts what `SmallHeap` models in full: a span that a pool gives
back is complete, and the pool is frozen after it. `SmallSpan` on a frozen pool
is disabled for this reason.

### `SmallHeap` and the code

A step of a thread is what it does between two points where others can
interfere: the locks, the unlocked reads of `span->spool`, and the sections
under `mpool.lock`. `pc` says where in a call a thread is.

| Code | Step |
|---|---|
| `mem_malloc`, `check_init`, 311, 346-349 | `Malloc` (from the cache, or the scan begins) |
| 316-335 | `TryLock`, with `Enter` after a success and `Busy` after a failure |
| 336-340 | `WaitLock` |
| 112-138 | `SPoolInit` |
| 341, 328-331, 346-350, `block_get_from_spool` | `Refill` (`NewSpan`, `Deliver`, `Relist`, `Leave`) |
| 569-579 | `FreeToCache`, `FreeUnready` (cache never initialised) |
| 580 | `FreeToPool` (reads `span->spool`), `FreeLock` (gets the lock) |
| 581-596 | `FreePut` |
| 597 | `FreeReread` (reads `span->spool` again), `FreeRelock` |
| the free of the list head that a class without blocks returns | `FreeHead` (taken for a huge block; `munmap` refuses it) |
| the end of a thread (`l_cache` is thread local, 16) | `Exit` (what was cached is `lost`) |

Abstractions: a list is a set, and where the code takes the head the model takes
any member. A block is named by its page, class and number, so that the blocks
of a page cut for two classes are different blocks. The application holds a set
of pointers and may free any of them from any thread. A thread that ended
starts again with an empty cache. Of the global heap only
one-page spans appear, as the pages that `GlobalHeap` proves to be nobody else's.

### `Tmr` and `Seu` and the code

One step of `MEM_Read` is one `memcmp` or one count, and then each `memcpy` with
the decision for it. An upset changes one byte (`Tmr`) or one bit (`Seu`). It may come
between any two steps, provided that the copies agree at that moment: a second
upset while the first is unrepaired is more than either scheme is meant for.
A hit inside one `memcpy`, `memcmp` or count comes before it or after it.
The application does not write or free a block while somebody reads or writes it.
In `Seu` a copy is the set of its one-bits and of the parity byte only the
parity counts. `intact` and `sealed` are history variables about the last write.

`MEM_Write` of the parity build is five steps, because what it does later depends on
what it did before:

| Code | Step of `Seu` |
|---|---|
| 811, `memcpy` to the first copy | `MemWrite` |
| 812, `memcpy` to the second copy | `WriteSecond` |
| 813, `get_bit_time` of the first copy | `CountFirst` |
| 814, `odd_check` of the first parity byte | `Seal` |
| 815, `odd_check` of the second parity byte, with the same count | `Seal` |

While it is under way the copies differ as a matter of course, so "the copies agree"
(`Agree`) is there that they would if the write went on undisturbed (`Ones`, `Parity`).
In `Tmr` a write is one step: nothing in it depends on the copies, and a hit
between its `memcpy`s hits one of three copies, before or after.

### `Api` and the code

One block is followed from call to call. Sizes are numbers with a width;
`Header` is what the calls that allocate leave in the span's header.

| Code | Action |
|---|---|
| `mem_malloc` (268-305, with `size_cls`), `large_malloc`'s index, `huge_malloc`'s size word | `MemMalloc` (`NewBlock`, `Need`, `BlockIndex`, `PageNum`) |
| `mem_calloc` | `MemCalloc` |
| `mem_free`: the branch it takes | `MemFree`, `Routed` |
| `mem_realloc`: a null pointer, size 0, a huge block's null span, enough room, a new block | `MemRealloc` (`MemMalloc`, `ReallocFree`, `ReallocCrash`, `ReallocKeep`, `ReallocMove`) |
| `data_block_init`, `MEM_Write`: the size of a small or large block and of a copy | `Bytes`, `CopySize` |

`mem_realloc` compares its size with what depends on the size and not on the block it
has (`Keeps`): for more than a megabyte that is the word before the block, which only a huge
block has, and for another block any value. A huge block has no copies in the code, so
`Bytes` is about blocks with a header.

### `Log` and the code

`OutputLogInfo` is the call, `Test` the look at `log_file_path[0]`, `Time` and
`Strftime` are `create_file`, and `WriteFile` is `w_file` with what the C library
does for a directory and for a file. `Strftime` writes one piece of the name a
step, because nothing stops another thread from reading in between.

### `Links`, `TrHeap` and `TrSizes` and the code

`Links` has an operator for each list function the code calls, a function from memory to memory.

| Code of `TRmalloc.c` | Action of `TrHeap` |
|---|---|
| `global_init`, `pool_init` | `Init` |
| `tr_malloc` to `check_init` | `Malloc` |
| `acquire_lheap` with `heap_pool_grow`, under the lock: a fresh heap, or the list tested and its first node read | `Acquire` |
| `list_del` of that node, to the unlock | `Unlink` |
| the initialisation that follows, without a lock (447-465) | `InitBegin`, `InitLheap` (its first and its last write) |
| `small_malloc` to the call of `remote_block_collect` | `Small` |
| a turn of `remote_block_collect`'s loop, with `chunk_free_small` | `Collect` (`FreeLocal`, `Retired`) |
| the rest of `small_malloc`: `chunk_alloc_obj`, the spare chunks, `chunk_init`, `gpool_acquire_chunk`, `gpool_grow` | `Serve` (`Alloc`, `Replace`, `Cut`, `Advanced`) |
| `tr_free`, `chunk_free_small` of a block of the own heap | `FreeOwn` |
| of another heap's block | `Free` (the heap locked), `FreePut` (the block linked, the heap unlocked) |
| `thread_exit` (without the pool's lock) | `ExitBegin` (the read of `prev`), `Exit` (each of the four writes of `list.h` 34-37) |

| Code of `TRmalloc.c` | Action of `TrSizes` |
|---|---|
| the four loops of `maps_init` | `By8`, `ByHalf`, `Map`, `Map2`; `Turn` from one to the next |
| `size2cls`, `tr_malloc` of a small and of a large size | `TrMallocSmall` (any block of the chunk), `TrMallocLarge` |
| `chunk_extract_header`, `tr_free` | `HeaderOf`, `TrFree` |
| `TR_Write`, `TR_Read` | `TrWrite`, `TrRead`: the bytes they touch |

The step of `TrHeap` that would follow a null pointer, or take a list head for a
chunk, sets `broken` and the model stops there: the process has gone wrong. A list
head that is taken for a heap is `PoolHeap`; every thread that comes next gets it too
(`HeapsUnshared`), and the first that initialises it sets `broken`.

Two pairs of sections are kept apart by nothing but luck, and the history
variable `raced` says that such a pair met:

* `thread_exit` (98) and a thread that takes a heap off the list (432-435). The model goes
  on with every write of both, and the run `tr_exit` shows what comes of it.
* The initialisation of a heap that is used again (447-465) and a remote free into
  it (213-220): the first resets `remote_free` and `lh->lock`, which the second
  may be linking into and holding. The result is a torn list and a mutex initialised while it
  is held, whose effect is undefined. The model says that they met and does not follow
  the words.

After `raced` only the pool of heaps is followed (`Next`), and every property but
`HeapsUnshared` and `TypeOK` speaks of what was before.

## 3. Runs

| Run | Question | Result |
|---|---|---|
| `global_heap` | is the page bookkeeping right, and does it implement `Allocator`? | holds |
| `small_heap` | are blocks, spans, counts and lists right under interleaving, with a class that gets no block, with threads that end? does nobody wait needlessly? do the application's blocks never overlap (`Allocator`)? | holds |
| `small_heap_fair` | are locks released, do allocations return? | yes, without the bug below |
| `small_heap_free` | does `mem_free` return? | no: double lock at 597 |
| `tmr` | is a block recoverable and read right, with one reader? | yes |
| `seu` | the same in the parity build, after a write into cleared parity bytes, with upsets during the write too | yes, but for a hit of the first copy between 811 and 813 |
| `api` | do copies fit as `mem_malloc` returns them, does a free go where the block came from? | holds |
| `log` | does every call leave a line? | no: a half-written name is opened |
| `tr_sizes` | are the classes the least, the headers found, the copies inside? | holds |
| `tr_heap` | are blocks, chunks, heaps and lists right when heaps are used again, and chunks cut again for other classes? do threads that end at once keep their heaps apart? do the application's blocks never overlap (`Allocator`)? | holds, up to the first race or broken list |
| `tr_collect` | can a heap collect the blocks that others freed? | no: it follows a null pointer |
| `tr_exit` | does a thread that ends while others begin leave the pool of heaps right? | no: two threads get the head of the list for a heap |

The types of `Tmr` and `Seu` are proved (section 4) and not checked by a run.

`PROJECT.json` quotes under `findings` what the repository claims where a run says no.

### Known defects, modelled without a run of their own

The models do what the code does also here; the properties say where they stop
claiming anything.

* A free with an uninitialised cache writes through a null pointer at 576 (`FreeUnready`).
* A size of 4017 to 4024 bytes gets a class with no block, and the caller the
  address of a list head (`HeadOf`, `FreeHead`).
* A freed span of 257 pages has no list and is lost (606; `SpansAccounted` and
  `FreeMatches` except it).
* `MEM_Read` returns NULL if three copies differ (673), where the comment at 670
  promises the first (`Decide`). `mem_calloc` clears one copy of three (861, `MemCalloc`).
  With two readers of a TMR block a comparison may be stale when it is used:
  hence the hypothesis `OneReader`.
* In the parity build `odd_check` never clears a parity byte (745): only a write into
  bytes that are zero, as `data_block_init` leaves them, protects the data. And
  `MEM_Write` seals both copies with the count of the first one (813): a bit of
  the first copy that is hit after its `memcpy` (811) and before the count is counted in.
  Both parity bytes then fit the wrong data, the copy that is right has an even number of
  ones, and the next `MEM_Read` overwrites it (777-784). `sealed` in `Seu` excepts
  both, and a write over data that was hit and not yet repaired.
* `mem_realloc` copies from the new block to the old one, does not free the old
  one, and reads a null span if the block is huge (908; `ReallocMove`, `ReallocCrash`).
* `mem_realloc` keeps blocks that are too short (`ReallocKeep`), although `TEST.md:19` ticks its
  test: a large block for up to 72 bytes more than it has, because 893 counts the
  header in; a small or large one for any size above a megabyte if the word before it
  happens to be large (900-904); and in the redundant builds any block for data whose
  copies no longer fit beside each other, because 887 and 893 compare with one copy.
  `RoomForCopies` is about blocks that were not kept.
* Sizes that wrap around give short blocks (`Wraps`).
* For a huge block `MEM_Write` does nothing, and `MEM_Read` and `data_block_init` use
  `bsize` unset (635, 836-848).
* In `tr_malloc`: `unlikely(n) >= WEAR_LIMIT` compares a truth value, so a spare
  chunk never goes back to the pool (`Worn`); `TR_Write` and `TR_Read` of a large
  block run past its mapping (583). The chunks of a heap whose thread ended still
  point to it, and are linked into the lists of a thread that uses it again, with
  links into heads that were initialised anew (449); the model has every such write, and a
  walk that meets a node of the wrong kind is `broken`. A remote free may meet that
  initialisation (`raced`, above).

### Bounds, and why they are enough

* `GlobalHeap.cfg`: three span lists and requests of 2, 3 and 4 pages, so that 4
  is the size without a list (257 in the code); two mappings of six pages
  (`MAP_PAGES = 12`), so that the heap grows once, abandons a tail, and is used
  up; splits leave rests of one and two pages; each small heap reserves two
  pages and then has to ask; the struct heap grows once per struct. Two threads free.
* `SmallHeap.cfg`: a page of six units with a header of one and `SMALL_GAP = 2`
  has classes of 2 blocks (size 2), 1 block (size 4) and no block (size 5),
  the three cases the code distinguishes. `bn = 1` makes the cache hold 2, so a free
  into a full cache takes three blocks: `HELD_LIMIT = 3`, which counts what the application has, has
  asked for, and what ended threads took with them (`LOST_LIMIT = 1`). Three pages let a span be
  recycled by another pool for another class. Two threads and two pools suffice
  for a thread to wait: it finds one pool frozen and the other locked. All pages
  used up, `Refill` and `SPoolInit` are disabled: in the code 1 GB more would be mapped.
* `SmallHeapFair.cfg`: a pool for each thread and pages for both, one class.
  `SmallHeapFree.cfg`: one thread that gets three blocks and frees them.
* `Tmr.cfg`: copies of two bytes of two values, the least for which a copy can be
  partly old. `Seu.cfg`: three bits, so that a partial write and both parities occur.
* `Api.cfg`: the real limits, a `size_t` of 23 bits (the largest size is eight
  times the large limit), and sizes on both sides of every bound, of its half
  and of its third.
* `TrHeap.cfg`: two threads; chunks of two units and two classes, of two blocks
  and of one, so that a chunk can be partly used, full and complete; two chunks and two
  heaps, mapped one at a time, so that both pools grow and both hand out what
  came back. `WEAR_LIMIT = 2` is above a truth value, as the code's 10 is.
  `TrCollect.cfg` is the same instance; `TrExit.cfg` has three
  threads, one that ends and two that begin, one class, and both pools mapped one
  at a time, so that the second thread already looks at the list.
* `TrSizes.cfg`: the real constants. Any block of a chunk, sizes on both sides of
  the bounds of classes and tables, mappings at every page of a chunk.
* `Log.cfg`: two threads, two calls each, a clock that may tick once.
* Deadlock is not checked: every model stops when its memory is used up or its
  process has died, and `SmallHeap` also when all threads wait for frozen
  pools; the liveness runs say which calls must not.

Threads are symmetric (`SYMMETRY` in the runs without liveness).

### Fairness

`FairSpec` gives every thread weak fairness of the steps of the call it is in:
the scheduler runs a thread that can go on. A call is never forced to begin. It
gives no strong fairness to `pthread_mutex_lock`, which promises no order among
those who wait. `LocksReleased` and `MallocReturns` exclude the behaviours in
which some thread frees into a full cache or crashes (`Stopped`), because from
then on the bug at 597 decides. `MallocReturns` is checked with a pool for each
thread: with fewer, a thread may wait for a mutex that others win for ever.

## 4. Proofs

TLAPS checks all of them, for every value of the constants within the
assumptions the modules state: `CountAssumption`, `PoolAssumption`,
`LargeAssumption` (`GlobalHeap`); `SmallAssumption`, `SizesAssumption`,
`ThreadsAssumption`, which has finitely many threads (`SmallHeap`); `ApiAssumption`;
`TrAssumption`; `TrSizesAssumption`; `TmrAssumption`; `SeuAssumption`. TLC
evaluates the same assumptions in the runs.

* **`GlobalHeapProofs`**. That two spans share no page does not survive a step
  by itself: a fresh span must avoid what small heaps have reserved, and a split
  must know that the pages it maps again belong to the span it splits. `IInv`
  says of each page who may use it. `SpanInv`: the pages of a span lie below
  `free_start` and are mapped to it, so that two spans cannot share one.
  `UnmappedInv` and `ReserveInv`: fresh and reserved pages are mapped to nothing
  and the reservations do not overlap. `SizeInv`, `PlaceInv`, `AccountInv`: which
  spans are where. From it follow all seven invariants of the run, the action property
  `HeaderStable`, and, with `granted` for the abstract `held`, that the heap implements
  `Allocator` (`Refinement`): every step is a grant, a release or a stutter.
* **`SmallHeapProofs`** has four parts.
  1. *Types and pools.* `TypeOK` needs that a block which is out comes from a
     cut page (`OutInv`, `CutInv`), or `small_block_free` would index by -1.
     `FallbackInited` needs `LockInv`, a locked pool is initialised or its owner
     is about to do so, and `PassedInv`: a thread past the first pool has seen it
     locked, so it has stayed locked or is initialised.
  2. *The counting argument.* The list of a span and its blocks that are out make
     up exactly what the span was cut into, without overlap (`SInv`, of `Apart`,
     `OutCut`, `SpanInv`, `ChunkInv`, `TargetInv`, `CacheInv`). A span goes back to
     the global heap only when its list is as long as its cut, so no block of it is
     out, lost ones included. Hence `BlocksExclusive`, `BlocksCurrent`,
     `SpanAccounting`, `CacheAccounting`, `PoolListsSound` and `TargetStable`.
  3. *Waiting.* `NoNeedlessWait` for any finite number of threads: among the last
     p pools of the scan there are at most p threads (`RoomAhead`), because whoever
     passes a pool leaves the owner of its lock behind.
  4. *Bytes.* With `Bytes(b)` for the place of a block, `mem_malloc` and `mem_free`
     of small blocks implement `Allocator` (`SmallRefinement`). Blocks of two pages
     do not meet because a block ends within its page, blocks of one page because
     its blocks that are out are cut for one class (`BlocksCurrent`). The list head
     that the class without blocks returns is not memory of the heap and not in
     `granted`. One block in two hands would be one grant: that
     this does not happen is `BlocksExclusive`, and the refinement adds that different
     blocks do not overlap and that nothing comes and goes but by these calls.
* **`ApiProofs`**. The header is the one that the size gets (`IInv`), and the rest is
  arithmetic with division: `RoomForCopies`, `FreeMatches`.
* **`LinksProofs`**. What `list_add`, `list_del`, `dlist_add` and the others write, word
  by word and for every memory. A *region* is a head and a set of nodes
  whose links stay inside, and where each link to one of the nodes is answered by
  that node; a *chain* is a dlist from head to tail in its order.
  An insertion or a removal gives a region or a chain of one node more or less and
  writes nowhere else. A walk stays in its region, and passes all of its chain.
* **`TrHeapProofs`**. The model has only words of memory; the proof has to know what
  they are for. `IInv` says that *some* function `at` names the list each chunk's
  node and each block is in, and that the words (`MemOK`), the headers
  (`ChunksOK`: state, class, the counters) and the blocks that the application has
  (`HeldOK`) agree with it. An item is in one list by the shape of `at`, so a
  step only has to show where it moves its item. `ChunkAccounting`: the blocks
  in a chunk's dlist are those that `at` places there, and `free_tot_cnt` counts
  them, hence a chunk is cut again only when no block of it is out
  (`TrRefinement`, `NoBlockTwice`).
  `HeapInv` is why `HeapsApart` holds while several threads are inside `thread_exit`,
  which reads and writes `heap_pool` word by word without its lock. The `next` links
  from the head stay within the pool (`NextLinks`) and pass only heaps that nobody has;
  the last node, where the next exit will link (`LastLink`), and what each pending exit
  has read (`Ending`) and a pending take has found (`Taking`) are such heaps or the
  head. Whatever the order of the writes, heaps may be lost from the list, but none is
  in it that a thread has. This does not survive a take between the writes, and `raced`
  is set there: `IInv` is `Typed`, which every step keeps, and `Sound` with `Quiet` or
  `raced`. `Quiet` says that nothing is put into the remote list of a heap that owns no
  chunk, so that initialising a used heap's lists anew loses nothing of a chunk that is
  owned. The theorems hold up to and including the state in which the model stops
  (`broken`).
* **`TrSizesProofs`**. Neighbouring classes differ by 8 at least, and by 512 from
  1024 up, so that a table entry moves on by one class at most; `LeastClass` follows
  for every size and not only for the entries. A remainder by the block's size gives
  back its start: `HeaderFound` and `CopiesInside`, for any sizes and addresses.
* **`TmrProofs`, `SeuProofs`**. Type correctness for any number of readers;
  `Recoverable` and `ReadCorrect` under the stated hypothesis `OneReader`. The
  invariant says what the comparisons (counts) made so far still tell about the
  copies as they are now, and in `Seu` also what the copies and parity bytes will be
  when the write under way returns, at each of its five steps.

The three refinements are the same statement at three sizes: what clients hold
never overlaps and only a call changes it. The mutants are bugs that the
statement is about: the new pool's start rounded down onto a page in use, a span
that is handed out and stays in its list, and the comparison with `WEAR_LIMIT`
the way it reads at first sight (`WornCounted`): line 288 would then put the chunk
that is in the foreground into the pool, not the spare one, to be cut again under
its blocks. As the code stands, the comparison never holds.

Only model-checked: the liveness properties. Liveness under fairness, `ENABLED`
and induction over data are outside what the installed provers do; where a
proof needs that a walk through a list ends or stays in it, it argues with the
finite region and not by induction. `StaysRecoverable` and `ReadsAreCorrect`
have the hypothesis `OneReader`, as the runs do, because with two readers they
are false. No module uses `RECURSIVE`.

## 5. Not modelled

* That `mmap` fails or ignores its hint: `page_alloc` is taken to return the
  address asked for. (239 tests `addr < 0`, which is never true of a pointer, so
  nothing the program does after a failure is meant.)
* The number of processors from `popen` (`exeCMD`): `S_POOL_NUM` is a constant of 1 or more.
* That line 161 initialises `mpool.lock` instead of the pool's lock. A zeroed
  mutex is a free one on Linux, so the models start with every lock free.
* That `mpool_grow` abandons the pages between `free_start` and the old `pool_end` is
  modelled (`Base`), but no property calls it wrong.
* The broken links after 592, where a span is put in a second list while it is
  in the first: the pool that owns the first list is never used again, and
  `PoolListsSound` speaks of the pools that can be used.
* Pointers into the middle of a redundant block of memmalloc, and the contents of huge blocks.
* The text of a log line (`addr_2_line`, `get_e_entry`, `my_backtrace`, ...).
* `tr_calloc` and `tr_realloc` (the first clears one copy, the second copies from
  the new block to the old one), and the data that `TR_Read` compares: the algorithm
  is that of `MEM_Read` in `Tmr`.
* The tests and benchmarks: they were read for what they claim and how they call.

## 6. What is left

1. Start-up with an `mmap` that fails or moves, in `GlobalHeap`.
2. `SmallHeap` as a client of `GlobalHeap`: its pages as grants of `Allocator`.
3. `tr_calloc` and `tr_realloc`.
