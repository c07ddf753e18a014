---------------------------- MODULE TrHeapProofs ----------------------------
(***************************************************************************)
(* Proofs about TrHeap: the inductive invariant IInv, and the invariants   *)
(* of the model's runs for every number of threads, classes, chunks and    *)
(* heaps.                                                                  *)
(*                                                                         *)
(* The argument follows what each node is for.  A function at gives every  *)
(* item (a chunk's node or a block) the list that it is in; memory has to  *)
(* agree with it around each head and along each dlist (MemOK), and it has *)
(* to agree with the headers (ChunksOK) and with what the application has  *)
(* (HeldOK).  A step moves one item or two, and everything else keeps its  *)
(* words.                                                                  *)
(*                                                                         *)
(* The list of the pool of heaps is another matter: thread_exit writes its *)
(* words one by one without a lock, several threads at a time.  HeapInv    *)
(* says what the words are between any two writes.  It is lost when        *)
(* acquire_lheap takes from the list meanwhile; so IInv claims what is     *)
(* Sound until sections race (raced), and only types (Typed) from then on. *)
(* At the end, that small blocks implement Allocator.                      *)
(***************************************************************************)
EXTENDS TrHeap, LinksProofs

Plain  == {HeapPool, GPool} \cup {HeapNode(h) : h \in Heaps}
HeadsOf(U) == {Background(h, c) : h \in U, c \in Classes} \cup {FreeList(h) : h \in U}
              \cup {Remote(h) : h \in U}
AllHeads == HeadsOf(Heaps)
Items    == {ChunkNode(k) : k \in Chunks} \cup Blocks
Ends     == {DHead(k) : k \in Chunks} \cup {DTail(k) : k \in Chunks}

\* A node's name tells what it is and to which heap or chunk it belongs.
LEMMA Kinds ==
  /\ HeapPool[1] = "heap_pool" /\ GPool[1] = "gpool"
  /\ \A h : /\ HeapNode(h)[1] = "heap" /\ HeapNode(h)[2] = h
            /\ FreeList(h)[1] = "free_list" /\ FreeList(h)[2] = h
            /\ Remote(h)[1] = "remote_free" /\ Remote(h)[2] = h
            /\ \A c : /\ Background(h, c)[1] = "background" /\ Background(h, c)[2] = h
                      /\ Background(h, c)[3] = c
  /\ \A k : /\ ChunkNode(k)[1] = "chunk" /\ ChunkNode(k)[2] = k
            /\ DHead(k)[1] = "dlist_head" /\ DHead(k)[2] = k
            /\ DTail(k)[1] = "dlist_tail" /\ DTail(k)[2] = k
            /\ \A o : Block(k, o)[1] = "block" /\ Block(k, o)[2] = k /\ Block(k, o)[3] = o
  BY DEF HeapPool, GPool, HeapNode, FreeList, Remote, Background, ChunkNode, DHead, DTail, Block

\* A block has a chunk and an offset within its data.
LEMMA BlockKinds ==
  \A b \in Blocks : /\ b[1] = "block" /\ b[2] \in Chunks
                    /\ b[3] \in 0 .. CHUNK_DATA_SIZE - 1 /\ b = Block(b[2], b[3])
  BY Kinds DEF Blocks

\* Every node is of one of the four sorts, and none is the null pointer.
LEMMA NodeSets ==
  /\ Nodes = Plain \cup AllHeads \cup Items \cup Ends
  /\ NULL \notin Nodes
<1>1. Nodes = Plain \cup AllHeads \cup Items \cup Ends
  BY DEF Nodes, Plain, AllHeads, HeadsOf, Items, Ends
<1>2. \A x, y, z : <<x, y, z>> # NULL
  BY DEF NULL
<1>3. ASSUME NULL \in Nodes PROVE FALSE
  BY <1>2, <1>3 DEF Nodes, HeapPool, GPool, HeapNode, FreeList, Remote, Background, ChunkNode,
                    DHead, DTail, Block, Blocks
<1> QED
  BY <1>1, <1>3

\* The sorts are told apart by their names.
LEMMA Apart ==
  /\ \A x \in Items : x[1] \in {"chunk", "block"}
  /\ \A x \in AllHeads : x[1] \in {"background", "free_list", "remote_free"}
  /\ \A x \in Ends : x[1] \in {"dlist_head", "dlist_tail"}
  /\ \A x \in Plain : x[1] \in {"heap_pool", "gpool", "heap"}
  BY Kinds, BlockKinds DEF Items, AllHeads, HeadsOf, Ends, Plain

\* The union of two finite sets, with a name of its own.
LEMMA FiniteUnion ==
  ASSUME NEW S, NEW T, NEW U, IsFiniteSet(S), IsFiniteSet(T), U = S \cup T
  PROVE  IsFiniteSet(U)
  BY FS_Union

\* One element less.
LEMMA OneLess ==
  ASSUME NEW S, NEW T, NEW x \in S, IsFiniteSet(S), T = S \ {x}
  PROVE  IsFiniteSet(T) /\ Cardinality(T) = Cardinality(S) - 1
  BY FS_RemoveElement

\* One element more.
LEMMA OneMore ==
  ASSUME NEW S, NEW T, NEW x, x \notin S, IsFiniteSet(S), T = S \cup {x}
  PROVE  IsFiniteSet(T) /\ Cardinality(T) = Cardinality(S) + 1
  BY FS_AddElement

\* There are finitely many nodes: the walks of the model end.
LEMMA NodesFinite == IsFiniteSet(Nodes)
<1>. DEFINE A == {"heap_pool", "gpool", "heap", "background", "free_list", "remote_free", "chunk",
                  "block", "dlist_head", "dlist_tail"}
            B == 0 .. CHUNKS + HEAPS
            D == Classes \cup 0 .. CHUNK_DATA_SIZE
            f == [n \in Nodes |-> <<n[1], <<n[2], n[3]>>>>]
<1>1. IsFiniteSet(A)
  <2>1. \A a, b : IsFiniteSet({a, b})
    BY FiniteUnion, FS_Singleton
  <2>. DEFINE P == {"heap_pool", "gpool"}
              Q == {"heap", "background"}
              R == {"free_list", "remote_free"}
              S == {"chunk", "block"}
              T == {"dlist_head", "dlist_tail"}
  <2>2. IsFiniteSet(P) /\ IsFiniteSet(Q) /\ IsFiniteSet(R) /\ IsFiniteSet(S) /\ IsFiniteSet(T)
    BY <2>1
  <2>3. A = P \cup Q \cup R \cup S \cup T
    OBVIOUS
  <2>. HIDE DEF A, P, Q, R, S, T
  <2> QED
    BY <2>2, <2>3, FS_Union
<1>2. IsFiniteSet(B) /\ IsFiniteSet(D)
  <2>1. IsFiniteSet(B) /\ IsFiniteSet(0 .. CHUNK_DATA_SIZE) /\ IsFiniteSet(Classes)
    BY FS_Interval, TrAssumption
  <2> QED
    BY <2>1, FiniteUnion
<1>3. IsFiniteSet(A \X (B \X D))
  BY <1>1, <1>2, FS_Product
<1>4. f \in Injection(Nodes, A \X (B \X D))
  <2>1. ASSUME NEW n \in Nodes
        PROVE  n[1] \in A /\ n[2] \in B /\ n[3] \in D /\ n = <<n[1], n[2], n[3]>>
    <3>1. Heaps \subseteq B /\ Chunks \subseteq B /\ 0 \in B /\ 0 \in D /\ Classes \subseteq D
          /\ 0 .. CHUNK_DATA_SIZE - 1 \subseteq D
      BY TrAssumption DEF Heaps, Chunks
    <3>2. PICK x \in A, y \in B, z \in D : n = <<x, y, z>>
      <4>. HIDE DEF B, D
      <4> QED
        BY <3>1 DEF Nodes, HeapPool, GPool, HeapNode, FreeList, Remote, Background, ChunkNode,
                    DHead, DTail, Block, Blocks
    <3>. HIDE DEF A, B, D
    <3> QED
      BY <3>2
  <2>. HIDE DEF A, B, D
  <2>2. f \in [Nodes -> A \X (B \X D)]
    BY <2>1
  <2>3. ASSUME NEW x \in Nodes, NEW y \in Nodes, f[x] = f[y] PROVE x = y
    BY <2>1, <2>3
  <2> QED
    BY <2>2, <2>3 DEF Injection, IsInjective
<1> QED
  BY <1>3, <1>4, FS_Injection

-----------------------------------------------------------------------------
(* Where the items are *)

\* The items of list H, when at says of each item in which list it is.
In(at, H) == {x \in Items : at[x] = H}

\* Item e moves to list H, or the application writes into it.
Put(at, e, H) == [at EXCEPT ![e] = H]
Write(m, e)   == [m EXCEPT ![e] = Data]

\* Memory m holds the lists that at describes: around the heads, and in the chunks of own.
MemOK(m, at, heads, own) ==
  /\ m \in [Nodes -> Pairs(Nodes)]
  /\ at \in [Items -> Nodes \cup {NULL}]
  /\ \A H \in heads : Region(m, H, In(at, H))
  /\ \A k \in own : ChainOf(Nodes, m, DHead(k), DTail(k), In(at, DHead(k)))

\* Items, heads and ends are different nodes.
LEMMA ItemsAreNodes ==
  /\ Items \subseteq Nodes /\ AllHeads \subseteq Nodes /\ Plain \subseteq Nodes
  /\ \A k \in Chunks : DHead(k) \in Nodes /\ DTail(k) \in Nodes
  /\ \A H \in AllHeads : H \notin Items
  /\ \A k \in Chunks : /\ DHead(k) \notin Items \cup AllHeads \cup Plain
                       /\ DTail(k) \notin Items \cup AllHeads \cup Plain
  /\ \A j, k \in Chunks :
       DHead(j) # DTail(k) /\ (j # k => DHead(j) # DHead(k) /\ DTail(j) # DTail(k))
  /\ \A x \in Plain : x \notin Items \cup AllHeads
<1>1. /\ Items \subseteq Nodes /\ AllHeads \subseteq Nodes /\ Plain \subseteq Nodes
      /\ Ends \subseteq Nodes
  BY NodeSets
<1>2. \A k \in Chunks : DHead(k) \in Ends /\ DTail(k) \in Ends
  BY DEF Ends
<1>3. \A j, k \in Chunks :
        DHead(j) # DTail(k) /\ (j # k => DHead(j) # DHead(k) /\ DTail(j) # DTail(k))
  BY Kinds
<1>4. /\ \A H \in AllHeads : H \notin Items
      /\ \A x \in Plain : x \notin Items \cup AllHeads
      /\ \A x \in Ends : x \notin Items \cup AllHeads \cup Plain
  BY Apart
<1> QED
  BY <1>1, <1>2, <1>3, <1>4

\* The lists stay what they are where no node of theirs is written.
LEMMA MemKept ==
  ASSUME NEW m, NEW mm, NEW at, NEW heads \in SUBSET AllHeads, NEW own \in SUBSET Chunks,
         MemOK(m, at, heads, own), mm \in [Nodes -> Pairs(Nodes)],
         Same(m, mm, Items \cup AllHeads \cup Ends)
  PROVE  MemOK(mm, at, heads, own)
<1>1. ASSUME NEW H \in heads PROVE Region(mm, H, In(at, H))
  <2>1. Same(m, mm, In(at, H) \cup {H})
    BY DEF In, Same
  <2> QED
    BY <2>1, RegionKept DEF MemOK
<1>2. ASSUME NEW k \in own PROVE ChainOf(Nodes, mm, DHead(k), DTail(k), In(at, DHead(k)))
  <2>1. Same(m, mm, In(at, DHead(k)) \cup {DHead(k), DTail(k)})
    BY DEF In, Ends, Same
  <2> QED
    BY <2>1, ChainKept DEF MemOK
<1> QED
  BY <1>1, <1>2 DEF MemOK

\* Item e joins or leaves the list that lies on node L, and T is the other end of it.
Touched(m, mm, at, att, L, T, e) ==
  /\ mm \in [Nodes -> Pairs(Nodes)]
  /\ att \in [Items -> Nodes \cup {NULL}]
  /\ L \in AllHeads \cup Ends
  /\ at[e] \in {L, NULL} /\ att[e] \in {L, NULL}
  /\ \A x \in Items : x # e => att[x] = at[x]
  /\ Same(m, mm, Nodes \ (In(at, L) \cup {L, T, e}))

\* The other lists stay as they were.
LEMMA MemTouched ==
  ASSUME NEW m, NEW mm, NEW at, NEW att, NEW heads \in SUBSET AllHeads, NEW own \in SUBSET Chunks,
         NEW L, NEW T \in AllHeads \cup Ends, NEW e \in Items,
         MemOK(m, at, heads, own), Touched(m, mm, at, att, L, T, e)
  PROVE  /\ \A H \in heads : H \notin {L, T} => Region(mm, H, In(att, H))
         /\ \A k \in own : DHead(k) \notin {L, T} /\ DTail(k) \notin {L, T} =>
               ChainOf(Nodes, mm, DHead(k), DTail(k), In(att, DHead(k)))
<1>0. L \in AllHeads \cup Ends
  BY DEF Touched
<1>1. ASSUME NEW H \in AllHeads \cup Ends, H # L
      PROVE  In(att, H) = In(at, H) /\ \A x \in In(at, H) : x \in Items /\ mm[x] = m[x]
  <2>1. H # NULL
    BY NodeSets
  <2>2. ASSUME NEW x \in Items PROVE att[x] = H <=> at[x] = H
    BY <1>1, <2>1 DEF Touched
  <2>3. ASSUME NEW x \in Items, at[x] = H PROVE mm[x] = m[x]
    <3>1. x # e /\ x \notin In(at, L)
      BY <1>1, <2>1, <2>3 DEF In, Touched
    <3>2. x \in Nodes /\ x # L /\ x # T
      BY <1>0, ItemsAreNodes, NodeSets, Apart
    <3> QED
      BY <3>1, <3>2 DEF Same, Touched
  <2> QED
    BY <2>2, <2>3 DEF In
<1>2. ASSUME NEW H \in heads, H \notin {L, T} PROVE Region(mm, H, In(att, H))
  <2>1. H \in Nodes /\ H \notin Items
    BY ItemsAreNodes
  <2>2. mm[H] = m[H]
    BY <1>2, <2>1 DEF In, Same, Touched
  <2>3. Same(m, mm, In(at, H) \cup {H})
    BY <1>1, <1>2, <2>2 DEF Same
  <2> QED
    BY <1>1, <1>2, <2>3, RegionKept DEF MemOK
<1>3. ASSUME NEW k \in own, DHead(k) \notin {L, T}, DTail(k) \notin {L, T}
      PROVE  ChainOf(Nodes, mm, DHead(k), DTail(k), In(att, DHead(k)))
  <2>1. /\ DHead(k) \in Nodes /\ DHead(k) \notin Items
        /\ DTail(k) \in Nodes /\ DTail(k) \notin Items
        /\ DHead(k) \in Ends
    BY ItemsAreNodes DEF Ends
  <2>2. mm[DHead(k)] = m[DHead(k)] /\ mm[DTail(k)] = m[DTail(k)]
    BY <1>3, <2>1 DEF In, Same, Touched
  <2>3. Same(m, mm, In(at, DHead(k)) \cup {DHead(k), DTail(k)})
    BY <1>1, <1>3, <2>1, <2>2 DEF Same
  <2> QED
    BY <1>1, <1>3, <2>1, <2>3, ChainKept DEF MemOK
<1> QED
  BY <1>2, <1>3

\* list_del takes an item off the list it is in.
LEMMA MemDel ==
  ASSUME NEW m, NEW at, NEW heads \in SUBSET AllHeads, NEW own \in SUBSET Chunks,
         MemOK(m, at, heads, own), NEW H \in heads, NEW e \in Items, at[e] = H
  PROVE  /\ MemOK(list_del(m, e), Put(at, e, NULL), heads, own)
         /\ Same(m, list_del(m, e), Nodes \ (In(at, H) \cup {H}))
<1>. DEFINE mm  == list_del(m, e)
            att == Put(at, e, NULL)
<1>1. /\ H \in Nodes /\ In(at, H) \in SUBSET Nodes /\ H \notin In(at, H) /\ e \in In(at, H)
      /\ m \in [Nodes -> Pairs(Nodes)] /\ Region(m, H, In(at, H))
  BY ItemsAreNodes DEF In, MemOK
<1>2. /\ Region(mm, H, In(at, H) \ {e})
      /\ Same(m, mm, Nodes \ (In(at, H) \cup {H}))
      /\ mm \in [Nodes -> Pairs(Nodes)]
  BY <1>1, RegionLeft
<1>. HIDE DEF mm
<1>3. /\ att \in [Items -> Nodes \cup {NULL}] /\ att[e] = NULL
      /\ \A x \in Items : x # e => att[x] = at[x]
  BY DEF MemOK, Put
<1>. HIDE DEF att
<1>4. In(att, H) = In(at, H) \ {e}
  BY <1>1, <1>3, NodeSets DEF In
<1>5. H \in AllHeads /\ \A k \in own : DHead(k) # H /\ DTail(k) # H
  BY ItemsAreNodes
<1>6. Touched(m, mm, at, att, H, H, e)
  BY <1>2, <1>3, <1>5 DEF Touched, Same
<1>7. /\ \A G \in heads : G # H => Region(mm, G, In(att, G))
      /\ \A k \in own : ChainOf(Nodes, mm, DHead(k), DTail(k), In(att, DHead(k)))
  BY <1>5, <1>6, MemTouched
<1>8. MemOK(mm, att, heads, own)
  BY <1>2, <1>3, <1>4, <1>7 DEF MemOK
<1> QED
  BY <1>2, <1>8 DEF mm, att

\* list_add_tail puts a free item into a list.
LEMMA MemAddTail ==
  ASSUME NEW m, NEW at, NEW heads \in SUBSET AllHeads, NEW own \in SUBSET Chunks,
         MemOK(m, at, heads, own), NEW H \in heads, NEW e \in Items, at[e] = NULL
  PROVE  /\ MemOK(list_add_tail(m, e, H), Put(at, e, H), heads, own)
         /\ Same(m, list_add_tail(m, e, H), Nodes \ (In(at, H) \cup {H, e}))
<1>. DEFINE mm  == list_add_tail(m, e, H)
            att == Put(at, e, H)
<1>1. /\ H \in Nodes /\ In(at, H) \in SUBSET Nodes /\ H \notin In(at, H)
      /\ e \in Nodes /\ e \notin In(at, H) \cup {H}
      /\ m \in [Nodes -> Pairs(Nodes)] /\ Region(m, H, In(at, H))
  BY ItemsAreNodes, NodeSets DEF In, MemOK
<1>2. /\ Region(mm, H, In(at, H) \cup {e})
      /\ Same(m, mm, Nodes \ (In(at, H) \cup {H, e}))
      /\ mm \in [Nodes -> Pairs(Nodes)]
  BY <1>1, RegionJoined
<1>. HIDE DEF mm
<1>3. /\ att \in [Items -> Nodes \cup {NULL}] /\ att[e] = H
      /\ \A x \in Items : x # e => att[x] = at[x]
  BY <1>1 DEF MemOK, Put
<1>. HIDE DEF att
<1>4. In(att, H) = In(at, H) \cup {e}
  BY <1>3 DEF In
<1>5. H \in AllHeads /\ \A k \in own : DHead(k) # H /\ DTail(k) # H
  BY ItemsAreNodes
<1>6. Touched(m, mm, at, att, H, H, e)
  BY <1>2, <1>3, <1>5 DEF Touched, Same
<1>7. /\ \A G \in heads : G # H => Region(mm, G, In(att, G))
      /\ \A k \in own : ChainOf(Nodes, mm, DHead(k), DTail(k), In(att, DHead(k)))
  BY <1>5, <1>6, MemTouched
<1>8. MemOK(mm, att, heads, own)
  BY <1>2, <1>3, <1>4, <1>7 DEF MemOK
<1> QED
  BY <1>2, <1>8 DEF mm, att

\* The ends of a chunk's dlist belong to no other list.
LEMMA ChainsApart ==
  ASSUME NEW k \in Chunks, NEW heads \in SUBSET AllHeads, NEW own \in SUBSET Chunks
  PROVE  /\ DHead(k) \in Ends /\ DTail(k) \in Ends
         /\ \A G \in heads : G \notin {DHead(k), DTail(k)}
         /\ \A j \in own : j # k => /\ DHead(j) \notin {DHead(k), DTail(k)}
                                    /\ DTail(j) \notin {DHead(k), DTail(k)}
  BY ItemsAreNodes DEF Ends

\* dlist_add puts a free item into a chunk's dlist.
LEMMA MemPush ==
  ASSUME NEW m, NEW at, NEW heads \in SUBSET AllHeads, NEW own \in SUBSET Chunks,
         MemOK(m, at, heads, own), NEW k \in own, NEW e \in Items, at[e] = NULL
  PROVE  /\ MemOK(dlist_add(m, DHead(k), e), Put(at, e, DHead(k)), heads, own)
         /\ Same(m, dlist_add(m, DHead(k), e),
                 Nodes \ (In(at, DHead(k)) \cup {DHead(k), DTail(k), e}))
         /\ SecondIs(dlist_add(m, DHead(k), e), e, DHead(k))
<1>. DEFINE H   == DHead(k)
            T   == DTail(k)
            mm  == dlist_add(m, H, e)
            att == Put(at, e, H)
<1>1. /\ H \in Nodes /\ e \in Nodes /\ e \notin In(at, H) \cup {H, T}
      /\ m \in [Nodes -> Pairs(Nodes)] /\ ChainOf(Nodes, m, H, T, In(at, H))
  BY ItemsAreNodes, NodeSets DEF In, MemOK
<1>2. /\ ChainOf(Nodes, mm, H, T, In(at, H) \cup {e})
      /\ Same(m, mm, Nodes \ (In(at, H) \cup {H, T, e}))
      /\ mm \in [Nodes -> Pairs(Nodes)]
  BY <1>1, ChainAdded
<1>0. SecondIs(mm, e, H)
  BY <1>1, ChainAdded
<1>. HIDE DEF mm
<1>3. /\ att \in [Items -> Nodes \cup {NULL}] /\ att[e] = H
      /\ \A x \in Items : x # e => att[x] = at[x]
  BY <1>1 DEF MemOK, Put
<1>. HIDE DEF att
<1>4. In(att, H) = In(at, H) \cup {e}
  BY <1>3 DEF In
<1>5. /\ H \in Ends /\ T \in Ends
      /\ \A G \in heads : G \notin {H, T}
      /\ \A j \in own : j # k => DHead(j) \notin {H, T} /\ DTail(j) \notin {H, T}
  BY ChainsApart
<1>. HIDE DEF H, T
<1>6. Touched(m, mm, at, att, H, T, e)
  BY <1>2, <1>3, <1>5 DEF Touched
<1>7. /\ \A G \in heads : Region(mm, G, In(att, G))
      /\ \A j \in own : j # k => ChainOf(Nodes, mm, DHead(j), DTail(j), In(att, DHead(j)))
  BY <1>5, <1>6, MemTouched
<1>8. MemOK(mm, att, heads, own)
  BY <1>2, <1>3, <1>4, <1>7 DEF MemOK, H, T
<1> QED
  BY <1>0, <1>2, <1>8 DEF mm, att, H, T

\* dlist_remove takes the item before the tail of a chunk's dlist.
LEMMA MemTake ==
  ASSUME NEW m, NEW at, NEW heads \in SUBSET AllHeads, NEW own \in SUBSET Chunks,
         MemOK(m, at, heads, own), NEW k \in own, In(at, DHead(k)) # {}
  PROVE  LET o == m[DTail(k)][2] IN
         /\ o \in In(at, DHead(k))
         /\ MemOK(dlist_remove(m, o), Put(at, o, NULL), heads, own)
         /\ Same(m, dlist_remove(m, o), Nodes \ (In(at, DHead(k)) \cup {DHead(k), DTail(k)}))
<1>. DEFINE H   == DHead(k)
            T   == DTail(k)
            o   == m[T][2]
            mm  == dlist_remove(m, o)
            att == Put(at, o, NULL)
<1>1. m \in [Nodes -> Pairs(Nodes)] /\ ChainOf(Nodes, m, H, T, In(at, H))
  BY DEF MemOK
<1>2. /\ o \in In(at, H)
      /\ ChainOf(Nodes, mm, H, T, In(at, H) \ {o})
      /\ Same(m, mm, Nodes \ (In(at, H) \cup {H, T}))
      /\ mm \in [Nodes -> Pairs(Nodes)]
  BY <1>1, ChainTaken
<1>. HIDE DEF mm, o
<1>3. /\ att \in [Items -> Nodes \cup {NULL}] /\ att[o] = NULL /\ o \in Items /\ at[o] = H
      /\ \A x \in Items : x # o => att[x] = at[x]
  BY <1>2 DEF MemOK, In, Put
<1>. HIDE DEF att
<1>4. In(att, H) = In(at, H) \ {o}
  <2>1. H # NULL
    BY ItemsAreNodes, NodeSets
  <2> QED
    BY <1>2, <1>3, <2>1 DEF In
<1>5. /\ H \in Ends /\ T \in Ends
      /\ \A G \in heads : G \notin {H, T}
      /\ \A j \in own : j # k => DHead(j) \notin {H, T} /\ DTail(j) \notin {H, T}
  BY ChainsApart
<1>. HIDE DEF H, T
<1>6. Touched(m, mm, at, att, H, T, o)
  BY <1>2, <1>3, <1>5 DEF Touched, Same
<1>7. /\ \A G \in heads : Region(mm, G, In(att, G))
      /\ \A j \in own : j # k => ChainOf(Nodes, mm, DHead(j), DTail(j), In(att, DHead(j)))
  BY <1>3, <1>5, <1>6, MemTouched
<1>8. MemOK(mm, att, heads, own)
  BY <1>2, <1>3, <1>4, <1>7 DEF MemOK, H, T
<1> QED
  BY <1>2, <1>8 DEF mm, att, o, H, T

\* Writing into an item that is in no list disturbs none.
LEMMA MemWrite ==
  ASSUME NEW m, NEW at, NEW heads \in SUBSET AllHeads, NEW own \in SUBSET Chunks,
         MemOK(m, at, heads, own), NEW e \in Items, at[e] = NULL
  PROVE  /\ MemOK(Write(m, e), at, heads, own)
         /\ Same(m, Write(m, e), Nodes \ {e})
<1>. DEFINE mm == Write(m, e)
<1>1. e \in Nodes /\ m \in [Nodes -> Pairs(Nodes)] /\ Data \in Pairs(Nodes)
  BY ItemsAreNodes DEF Data, Pairs, MemOK
<1>2. mm \in [Nodes -> Pairs(Nodes)] /\ Same(m, mm, Nodes \ {e})
  BY <1>1 DEF Same, Write
<1>. HIDE DEF mm
<1>3. ASSUME NEW H \in heads PROVE Region(mm, H, In(at, H))
  <2>1. Same(m, mm, In(at, H) \cup {H})
    BY <1>2, ItemsAreNodes, NodeSets DEF In, Same
  <2> QED
    BY <2>1, RegionKept DEF MemOK
<1>4. ASSUME NEW k \in own PROVE ChainOf(Nodes, mm, DHead(k), DTail(k), In(at, DHead(k)))
  <2>1. Same(m, mm, In(at, DHead(k)) \cup {DHead(k), DTail(k)})
    BY <1>2, ItemsAreNodes, NodeSets DEF In, Same
  <2> QED
    BY <2>1, ChainKept DEF MemOK
<1>5. MemOK(mm, at, heads, own)
  BY <1>2, <1>3, <1>4 DEF MemOK
<1> QED
  BY <1>2, <1>5 DEF mm

\* Where the items are when chunk k is cut again.
Emptied(at, k) == [x \in Items |-> IF at[x] = DHead(k) THEN NULL ELSE at[x]]

\* dlist_init on a chunk empties its dlist.
LEMMA MemInit ==
  ASSUME NEW m, NEW at, NEW heads \in SUBSET AllHeads, NEW own \in SUBSET Chunks,
         MemOK(m, at, heads, own), NEW k \in Chunks
  PROVE  /\ MemOK(dlist_init(m, DHead(k), DTail(k)), Emptied(at, k), heads, own \cup {k})
         /\ Same(m, dlist_init(m, DHead(k), DTail(k)), Nodes \ {DHead(k), DTail(k)})
<1>. DEFINE h   == DHead(k)
            t   == DTail(k)
            mm  == dlist_init(m, h, t)
            att == Emptied(at, k)
<1>1. h \in Nodes /\ t \in Nodes /\ h # t /\ m \in [Nodes -> Pairs(Nodes)]
  BY ItemsAreNodes DEF MemOK
<1>2. /\ ChainOf(Nodes, mm, h, t, {})
      /\ mm \in [Nodes -> Pairs(Nodes)]
      /\ Same(m, mm, Nodes \ {h, t})
  BY <1>1, ChainStarted
<1>. HIDE DEF mm
<1>3. /\ att \in [Items -> Nodes \cup {NULL}]
      /\ \A H \in Nodes : In(att, H) = IF H = h THEN {} ELSE In(at, H)
  BY NodeSets DEF Emptied, MemOK, In
<1>4. /\ \A G \in heads : G \notin {h, t} /\ G \in Nodes
      /\ \A j \in own : j # k => DHead(j) \notin {h, t} /\ DTail(j) \notin {h, t}
  BY ChainsApart, ItemsAreNodes
<1>5. \A x \in Items : x \in Nodes \ {h, t}
  BY ItemsAreNodes
<1>. HIDE DEF att
<1>6. ASSUME NEW H \in heads PROVE Region(mm, H, In(att, H))
  <2>1. Same(m, mm, In(at, H) \cup {H})
    BY <1>2, <1>4, <1>5 DEF In, Same
  <2>2. In(att, H) = In(at, H)
    BY <1>3, <1>4
  <2> QED
    BY <2>1, <2>2, RegionKept DEF MemOK
<1>7. ASSUME NEW j \in own, j # k
      PROVE  ChainOf(Nodes, mm, DHead(j), DTail(j), In(att, DHead(j)))
  <2>1. DHead(j) \in Nodes /\ DTail(j) \in Nodes
    BY ItemsAreNodes
  <2>2. Same(m, mm, In(at, DHead(j)) \cup {DHead(j), DTail(j)})
    BY <1>2, <1>4, <1>5, <1>7, <2>1 DEF In, Same
  <2>3. In(att, DHead(j)) = In(at, DHead(j))
    BY <1>3, <1>4, <1>7, <2>1
  <2> QED
    BY <2>2, <2>3, ChainKept DEF MemOK
<1>8. ChainOf(Nodes, mm, DHead(k), DTail(k), In(att, DHead(k)))
  BY <1>1, <1>2, <1>3
<1>9. MemOK(mm, att, heads, own \cup {k})
  BY <1>2, <1>3, <1>6, <1>7, <1>8 DEF MemOK
<1> QED
  BY <1>2, <1>9 DEF mm, att

\* The heads of heap h, and what InitLheap makes of them.
Reset(m, h) == [n \in Nodes |-> IF n \in HeadsOf({h}) THEN <<n, n>> ELSE m[n]]

\* acquire_lheap's INIT_LIST_HEADs: heads that were set up keep a region of what was in
\* them, though nothing is reached from them any more, and new heads start empty.
LEMMA MemReset ==
  ASSUME NEW m, NEW at, NEW heads \in SUBSET AllHeads, NEW own \in SUBSET Chunks,
         MemOK(m, at, heads, own), NEW h \in Heaps,
         HeadsOf({h}) \subseteq heads \/ \A H \in HeadsOf({h}) : In(at, H) = {}
  PROVE  /\ MemOK(Reset(m, h), at, heads \cup HeadsOf({h}), own)
         /\ Same(m, Reset(m, h), Nodes \ HeadsOf({h}))
<1>. DEFINE mm == Reset(m, h)
            hs == HeadsOf({h})
<1>1. hs \subseteq AllHeads
  BY DEF HeadsOf, AllHeads
<1>2. /\ mm \in [Nodes -> Pairs(Nodes)]
      /\ Same(m, mm, Nodes \ hs)
      /\ \A H \in hs : mm[H] = <<H, H>>
  BY <1>1, ItemsAreNodes DEF Reset, MemOK, Pairs, Same
<1>. HIDE DEF mm, hs
<1>3. ASSUME NEW H \in heads, H \notin hs PROVE Region(mm, H, In(at, H))
  <2>1. Same(m, mm, In(at, H) \cup {H})
    BY <1>1, <1>2, <1>3, ItemsAreNodes DEF In, Same
  <2> QED
    BY <2>1, RegionKept DEF MemOK
<1>4. ASSUME NEW H \in hs PROVE Region(mm, H, In(at, H))
  <2>1. H \notin In(at, H) /\ \A x \in In(at, H) : mm[x] = m[x]
    BY <1>1, <1>2, ItemsAreNodes DEF In, Same
  <2>2. In(at, H) = {} \/ Region(m, H, In(at, H))
    BY DEF MemOK, hs
  <2>3. mm[H] = <<H, H>>
    BY <1>2
  <2> QED
    BY <2>1, <2>2, <2>3, RegionReset
<1>5. ASSUME NEW k \in own PROVE ChainOf(Nodes, mm, DHead(k), DTail(k), In(at, DHead(k)))
  <2>1. Same(m, mm, In(at, DHead(k)) \cup {DHead(k), DTail(k)})
    BY <1>1, <1>2, ItemsAreNodes DEF In, Same
  <2> QED
    BY <2>1, ChainKept DEF MemOK
<1>6. MemOK(mm, at, heads \cup hs, own)
  BY <1>2, <1>3, <1>4, <1>5 DEF MemOK
<1> QED
  BY <1>2, <1>6 DEF mm, hs

-----------------------------------------------------------------------------
(* Chunks and their counters *)

\* The blocks that a chunk with header c has been cut into, CutOff of the model.
CutTo(c, k) ==
  {Block(k, i * cls2size[c.size_cls]) : i \in 0 .. c.blk_cnt - c.free_mem_cnt - 1}

\* The list that a chunk with header c should be in.
ListOf(c) == IF c.state # "BACK" THEN NULL
             ELSE IF c.free_tot_cnt = c.blk_cnt /\ c.blk_cnt > 1 THEN FreeList(c.owner)
             ELSE Background(c.owner, c.size_cls)

\* The counters of a header, when n blocks are in the chunk's dlist.
CountsOK(c, n) ==
  /\ c.owner # NoHeap => /\ c.size_cls \in Classes /\ c.blk_cnt = Count(c.size_cls)
                         /\ c.free_mem_cnt <= c.blk_cnt
                         /\ c.free_tot_cnt = c.free_mem_cnt + n
                         /\ c.state = "FULL" => c.free_tot_cnt = 0
                         /\ c.state = "BACK" => c.free_tot_cnt > 0
  /\ c.owner = NoHeap => /\ c.state = "FORG"
                         /\ c.blk_cnt = 0 /\ c.free_tot_cnt = 0 /\ c.free_mem_cnt = 0

\* A block in a list is cut, and is in its chunk's dlist or waits for the owner.
BlocksOK(c, at, k) ==
  \A b \in Blocks : b[2] = k /\ at[b] # NULL =>
    c.owner # NoHeap /\ b \in CutTo(c, k) /\ at[b] \in {DHead(k), Remote(c.owner)}

\* A chunk is sound: its counters, its place, and the places of its blocks.
ChunkOK(c, at, k) ==
  /\ CountsOK(c, Cardinality(In(at, DHead(k))))
  /\ at[ChunkNode(k)] = ListOf(c)
  /\ BlocksOK(c, at, k)

\* All chunks are sound.
ChunksOK(ch, at) == \A k \in Chunks : ch[k] \in Headers /\ ChunkOK(ch[k], at, k)

\* A held block is in no list, and its chunk has been cut into it.
HeldOK(ch, at, hd) ==
  \A b \in hd : /\ b \in Blocks /\ at[b] = NULL
                /\ ch[b[2]].owner # NoHeap /\ b \in CutTo(ch[b[2]], b[2])

\* A chunk holds at least one block of a class, and as many as fit.
LEMMA CountBounds ==
  ASSUME NEW c \in Classes
  PROVE  /\ cls2size[c] \in Nat \ {0} /\ Count(c) \in Nat /\ Count(c) >= 1
         /\ Count(c) <= CHUNK_DATA_SIZE
         /\ Count(c) * cls2size[c] <= CHUNK_DATA_SIZE
<1>. DEFINE s == cls2size[c]
            D == CHUNK_DATA_SIZE
<1>1. s \in Nat \ {0} /\ s <= D /\ D \in Nat \ {0}
  BY TrAssumption
<1>. HIDE DEF s, D
<1>2. D \div s \in Nat /\ D \div s >= 1 /\ D \div s <= D
  BY <1>1
<1>3. (D \div s) * s <= D
  BY <1>1
<1> QED
  BY <1>1, <1>2, <1>3 DEF Count, s, D

\* Multiples of a positive size grow with the factor.
LEMMA TimesInjective ==
  ASSUME NEW s \in Nat \ {0}, NEW i \in Nat, NEW j \in Nat, i < j
  PROVE  i * s < j * s
  OBVIOUS

\* A chunk is cut into at most as many blocks as its header counts.
LEMMA CutToFacts ==
  ASSUME NEW k \in Chunks, NEW c \in Headers, c.size_cls \in Classes, c.free_mem_cnt <= c.blk_cnt
  PROVE  /\ IsFiniteSet(CutTo(c, k)) /\ Cardinality(CutTo(c, k)) \in Nat
         /\ Cardinality(CutTo(c, k)) <= c.blk_cnt - c.free_mem_cnt
         /\ \A b \in CutTo(c, k) : b[2] = k
<1>. DEFINE n == c.blk_cnt - c.free_mem_cnt
            s == cls2size[c.size_cls]
            f == [i \in 0 .. n - 1 |-> Block(k, i * s)]
<1>1. n \in Nat
  BY DEF Headers
<1>2. f \in Surjection(0 .. n - 1, CutTo(c, k))
  BY DEF CutTo, Surjection
<1>3. IsFiniteSet(0 .. n - 1) /\ Cardinality(0 .. n - 1) = n
  <2>. HIDE DEF n
  <2> QED
    BY <1>1, FS_Interval
<1>4. /\ IsFiniteSet(CutTo(c, k)) /\ Cardinality(CutTo(c, k)) <= n
      /\ Cardinality(CutTo(c, k)) \in Nat
  <2>. HIDE DEF f
  <2> QED
    BY <1>2, <1>3, FS_Surjection, FS_CardinalityType
<1>5. \A b \in CutTo(c, k) : b[2] = k
  BY Kinds DEF CutTo
<1> QED
  BY <1>4, <1>5

\* The next block that is cut off a chunk.
NextCut(c, k) == Block(k, (c.blk_cnt - c.free_mem_cnt) * cls2size[c.size_cls])

\* chunk_alloc_obj from the uncut part cuts one block more, which is a new one.
LEMMA CutToGrows ==
  ASSUME NEW k \in Chunks, NEW c \in Headers, NEW d \in Headers,
         c.size_cls \in Classes, c.blk_cnt = Count(c.size_cls),
         c.free_mem_cnt <= c.blk_cnt, c.free_mem_cnt > 0,
         d.size_cls = c.size_cls, d.blk_cnt = c.blk_cnt, d.free_mem_cnt = c.free_mem_cnt - 1
  PROVE  /\ NextCut(c, k) \in Blocks /\ NextCut(c, k)[2] = k
         /\ NextCut(c, k) \notin CutTo(c, k)
         /\ CutTo(d, k) = CutTo(c, k) \cup {NextCut(c, k)}
<1>. DEFINE n == c.blk_cnt - c.free_mem_cnt
            s == cls2size[c.size_cls]
<1>1. n \in Nat /\ n + 1 <= Count(c.size_cls) /\ s \in Nat \ {0}
      /\ Count(c.size_cls) \in Nat /\ Count(c.size_cls) * s <= CHUNK_DATA_SIZE
  BY CountBounds DEF Headers
<1>2. n * s < CHUNK_DATA_SIZE /\ n * s \in Nat
  BY <1>1, TimesInjective, TrAssumption
<1>3. \A i \in 0 .. n - 1 : i * s # n * s
  BY <1>1, TimesInjective
<1>4. d.blk_cnt - d.free_mem_cnt = n + 1
  BY DEF Headers
<1>5. 0 .. (n + 1) - 1 = (0 .. n - 1) \cup {n}
  BY <1>1
<1>6. NextCut(c, k) \in Blocks
  BY <1>2, TrAssumption DEF NextCut, Blocks
<1>7. NextCut(c, k) \notin CutTo(c, k)
  BY <1>3, Kinds DEF NextCut, CutTo
<1>8. CutTo(d, k) = CutTo(c, k) \cup {NextCut(c, k)}
  BY <1>4, <1>5 DEF NextCut, CutTo
<1> QED
  BY <1>6, <1>7, <1>8, Kinds DEF NextCut

\* No worn chunk, nothing for the pool.
LEMMA NoneBack == ASSUME NEW m, NEW k PROVE BackToPool(m, k, 0) = m
<1>. DEFINE Is(f) == f = [i \in 0 .. 0 |-> IF i = 0 THEN m
                                           ELSE list_add_tail(f[i - 1], ChunkNode(k), GPool)]
            g == CHOOSE f : Is(f)
<1>1. Is([i \in 0 .. 0 |-> m])
  OBVIOUS
<1>2. Is(g)
  BY <1>1
<1>3. g[0] = m
  <2>. HIDE DEF g
  <2> QED
    BY <1>2
<1> QED
  BY <1>3 DEF BackToPool

\* The comparison of the spare loop never holds: no chunk goes back to the pool.
LEMMA NoneWorn == \A n : ~Worn(n)
  BY TrAssumption DEF Worn

\* A chunk's own place is a background list, a free list or none.
LEMMA ListKinds ==
  \A c : ListOf(c) = NULL \/ (ListOf(c) # NULL /\ ListOf(c)[1] \in {"free_list", "background"})
<1>1. \A h, c : FreeList(h) # NULL /\ Background(h, c) # NULL
  BY DEF FreeList, Background, NULL
<1> QED
  BY <1>1, Kinds DEF ListOf

\* A chunk's dlist has blocks of this chunk only, which it was cut into.
LEMMA InChain ==
  ASSUME NEW at, NEW ch, ChunksOK(ch, at), NEW k \in Chunks
  PROVE  /\ In(at, DHead(k)) \subseteq Blocks
         /\ \A b \in In(at, DHead(k)) : b[2] = k
         /\ ch[k].owner = NoHeap => In(at, DHead(k)) = {}
         /\ ch[k].owner # NoHeap => In(at, DHead(k)) \subseteq CutTo(ch[k], k)
<1>1. DHead(k) # NULL /\ DHead(k)[1] = "dlist_head"
  BY Kinds, ItemsAreNodes, NodeSets
<1>2. ASSUME NEW x \in In(at, DHead(k))
      PROVE  x \in Blocks /\ x[2] = k /\ ch[k].owner # NoHeap /\ x \in CutTo(ch[k], k)
  <2>1. x \in Items /\ at[x] = DHead(k)
    BY DEF In
  <2>2. ASSUME NEW j \in Chunks, x = ChunkNode(j) PROVE FALSE
    <3>1. at[x] = ListOf(ch[j])
      BY <2>2 DEF ChunksOK, ChunkOK
    <3> QED
      BY <1>1, <2>1, <3>1, ListKinds
  <2>3. x \in Blocks /\ x[2] \in Chunks
    BY <2>1, <2>2, BlockKinds DEF Items
  <2>4. /\ ch[x[2]].owner # NoHeap /\ x \in CutTo(ch[x[2]], x[2])
        /\ at[x] \in {DHead(x[2]), Remote(ch[x[2]].owner)}
    BY <1>1, <2>1, <2>3 DEF ChunksOK, ChunkOK, BlocksOK
  <2>5. x[2] = k
    BY <2>1, <2>3, <2>4, Kinds
  <2> QED
    BY <2>3, <2>4, <2>5
<1> QED
  BY <1>2

\* The counters bound each other, and a chunk that counts itself all free is.
LEMMA Counters ==
  ASSUME NEW at, NEW ch, ChunksOK(ch, at), NEW k \in Chunks
  PROVE  /\ IsFiniteSet(In(at, DHead(k))) /\ Cardinality(In(at, DHead(k))) \in Nat
         /\ ch[k].free_tot_cnt <= ch[k].blk_cnt /\ ch[k].free_mem_cnt <= ch[k].free_tot_cnt
         /\ ch[k].owner # NoHeap /\ ch[k].free_tot_cnt = ch[k].blk_cnt =>
              In(at, DHead(k)) = CutTo(ch[k], k)
<1>. DEFINE S == In(at, DHead(k))
            c == ch[k]
<1>1. c \in Headers /\ CountsOK(c, Cardinality(S))
  BY DEF ChunksOK, ChunkOK
<1>2. CASE c.owner = NoHeap
  <2>1. S = {}
    BY <1>2, InChain
  <2>2. IsFiniteSet(S) /\ Cardinality(S) \in Nat
    BY <2>1, FS_EmptySet
  <2> QED
    BY <1>1, <1>2, <2>2 DEF CountsOK, Headers
<1>3. CASE c.owner # NoHeap
  <2>1. S \subseteq CutTo(c, k)
    BY <1>3, InChain
  <2>2. /\ IsFiniteSet(CutTo(c, k)) /\ Cardinality(CutTo(c, k)) \in Nat
        /\ Cardinality(CutTo(c, k)) <= c.blk_cnt - c.free_mem_cnt
        /\ c.free_tot_cnt = c.free_mem_cnt + Cardinality(S)
        /\ c.blk_cnt \in Nat /\ c.free_mem_cnt \in Nat
    <3>. HIDE DEF S, c
    <3> QED
      BY <1>1, <1>3, CutToFacts DEF CountsOK, Headers
  <2>3. IsFiniteSet(S) /\ Cardinality(S) \in Nat /\ Cardinality(S) <= Cardinality(CutTo(c, k))
        /\ (Cardinality(S) = Cardinality(CutTo(c, k)) => S = CutTo(c, k))
    BY <2>1, <2>2, FS_Subset, FS_CardinalityType
  <2>. HIDE DEF S, c
  <2> QED
    BY <2>2, <2>3 DEF S, c
<1> QED
  BY <1>2, <1>3

-----------------------------------------------------------------------------
(* What an allocation does *)

\* Headers that differ in spare_count at most.
Alike(c, d) ==
  /\ d \in Headers
  /\ d.owner = c.owner /\ d.state = c.state /\ d.size_cls = c.size_cls /\ d.blk_cnt = c.blk_cnt
  /\ d.free_mem_cnt = c.free_mem_cnt /\ d.free_tot_cnt = c.free_tot_cnt

\* Headers that differ in the spare count only are as good as each other.
LEMMA AlikeOK ==
  ASSUME NEW c, NEW d, Alike(c, d), NEW k
  PROVE  CutTo(d, k) = CutTo(c, k) /\ ListOf(d) = ListOf(c)
  BY DEF Alike, CutTo, ListOf

\* A chunk is sound as long as its header and its items are.
LEMMA ChunkKept ==
  ASSUME NEW c, NEW d, Alike(c, d), NEW at, NEW att, NEW k \in Chunks, ChunkOK(c, at, k),
         \A x \in Items : x[2] = k => att[x] = at[x], In(att, DHead(k)) = In(at, DHead(k))
  PROVE  d \in Headers /\ ChunkOK(d, att, k)
<1>1. CountsOK(d, Cardinality(In(att, DHead(k))))
  BY DEF ChunkOK, CountsOK, Alike
<1>2. att[ChunkNode(k)] = ListOf(d)
  BY AlikeOK, Kinds DEF ChunkOK, Items
<1>3. BlocksOK(d, att, k)
  BY AlikeOK DEF ChunkOK, BlocksOK, Items, Alike
<1> QED
  BY <1>1, <1>2, <1>3 DEF ChunkOK, Alike

\* Item x may be what chunk j's list has.
LEMMA ItemsApart ==
  ASSUME NEW ch, NEW at, ChunksOK(ch, at), NEW x \in Items, NEW j \in Chunks, x[2] # j
  PROVE  at[x] # DHead(j)
  BY InChain DEF In

\* Only items of chunk k move, and to no other chunk's list.
Within(at, att, k) ==
  /\ \A x \in Items : x[2] # k => att[x] = at[x]
  /\ \A x \in Items, j \in Chunks : x[2] = k /\ j # k => at[x] # DHead(j) /\ att[x] # DHead(j)

\* The headers but for that of k differ in the spare count only.
OthersAlike(ch, dd, k) == \A j \in Chunks : j # k => Alike(ch[j], dd[j])
OthersOK(ch, at, k)    == \A j \in Chunks : j # k => ch[j] \in Headers /\ ChunkOK(ch[j], at, j)

\* A step within chunk k leaves the other chunks sound.
LEMMA OthersKept ==
  ASSUME NEW ch, NEW dd, NEW at, NEW att, NEW k \in Chunks,
         OthersOK(ch, at, k), OthersAlike(ch, dd, k), Within(at, att, k)
  PROVE  OthersOK(dd, att, k)
<1>. USE DEF OthersOK, OthersAlike, Within
<1>1. ASSUME NEW j \in Chunks, j # k PROVE dd[j] \in Headers /\ ChunkOK(dd[j], att, j)
  <2>1. \A x \in Items : att[x] = DHead(j) <=> at[x] = DHead(j)
    BY <1>1
  <2>2. In(att, DHead(j)) = In(at, DHead(j))
    BY <2>1 DEF In
  <2>3. \A x \in Items : x[2] = j => att[x] = at[x]
    BY <1>1
  <2> QED
    BY <1>1, <2>2, <2>3, ChunkKept
<1> QED
  BY <1>1

\* The block that chunk_alloc_obj takes.
ObjOf(m, c, k) == IF c.free_mem_cnt > 0 THEN NextCut(c, k) ELSE m[DTail(k)][2]

\* Memory after it.
MemOf(m, c, k) ==
  Write(IF c.free_mem_cnt > 0 THEN m ELSE dlist_remove(m, m[DTail(k)][2]), ObjOf(m, c, k))

\* The chunk's header after it.
HeaderOf(c) == [c EXCEPT !.state = "FORG", !.free_tot_cnt = @ - 1,
                         !.free_mem_cnt = IF c.free_mem_cnt > 0 THEN @ - 1 ELSE @]

\* Alloc as assignments to held, memory and headers.
LEMMA AllocReads ==
  ASSUME NEW t, NEW m, NEW headers \in [Chunks -> Headers], NEW k \in Chunks,
         Alloc(t, m, headers, k)
  PROVE  /\ held' = held \cup {ObjOf(m, headers[k], k)}
         /\ mem' = MemOf(m, headers[k], k)
         /\ chunk' = [j \in Chunks |-> chunk'[j]]
         /\ chunk'[k] = HeaderOf(headers[k])
         /\ \A j \in Chunks : j # k => Alike(headers[j], chunk'[j])
<1>. DEFINE c     == headers[k]
            uncut == c.free_mem_cnt > 0
            obj   == IF uncut THEN Block(k, (c.blk_cnt - c.free_mem_cnt) * cls2size[c.size_cls])
                              ELSE m[DTail(k)][2]
            m1    == IF uncut THEN m ELSE dlist_remove(m, obj)
            spare == Listed(m1, FreeList(local_heap[t]))
            worn  == {i \in DOMAIN spare : Worn(headers[spare[i][2]].spare_count)}
<1>1. /\ held' = held \cup {obj}
      /\ mem' = BackToPool([m1 EXCEPT ![obj] = Data], k, Cardinality(worn))
      /\ chunk' = [j \in Chunks |->
          IF j = k THEN [c EXCEPT !.state = "FORG", !.free_tot_cnt = @ - 1,
                                  !.free_mem_cnt = IF uncut THEN @ - 1 ELSE @]
          ELSE IF ChunkNode(j) \in Range(spare) /\ headers[j].spare_count < WEAR_LIMIT
          THEN [headers[j] EXCEPT !.spare_count = @ + 1]
          ELSE headers[j]]
  BY DEF Alloc
<1>2. Cardinality(worn) = 0
  <2>1. worn = {}
    BY NoneWorn
  <2>. HIDE DEF worn
  <2> QED
    BY <2>1, FS_EmptySet
<1>3. obj = ObjOf(m, c, k) /\ [m1 EXCEPT ![obj] = Data] = MemOf(m, c, k)
  BY DEF ObjOf, MemOf, NextCut, Write
<1>4. mem' = MemOf(m, c, k)
  <2>. HIDE DEF worn, m1, obj
  <2> QED
    BY <1>1, <1>2, <1>3, NoneBack
<1>5. chunk'[k] = HeaderOf(c)
  <2>. HIDE DEF spare
  <2> QED
    BY <1>1 DEF HeaderOf
<1>6. ASSUME NEW j \in Chunks, j # k PROVE Alike(headers[j], chunk'[j])
  <2>1. chunk'[j] = [headers[j] EXCEPT !.spare_count = @ + 1] \/ chunk'[j] = headers[j]
    <3>. HIDE DEF spare
    <3> QED
      BY <1>1, <1>6
  <2>2. headers[j] \in Headers
    OBVIOUS
  <2> QED
    BY <2>1, <2>2 DEF Headers, Alike
<1>7. chunk' = [j \in Chunks |-> chunk'[j]]
  <2>. HIDE DEF spare
  <2> QED
    BY <1>1
<1> QED
  BY <1>1, <1>3, <1>4, <1>5, <1>6, <1>7

\* A header that has the foreground.
Forg(c) == [c EXCEPT !.state = "FORG"]

\* Chunk k has a block for the taking: what remains when it is taken.
LEMMA TakeOK ==
  ASSUME NEW m, NEW at, NEW heads \in SUBSET AllHeads, NEW own \in SUBSET Chunks,
         MemOK(m, at, heads, own), NEW k \in own, NEW c \in Headers,
         ChunkOK(Forg(c), at, k), c.owner # NoHeap, c.free_tot_cnt > 0,
         IsFiniteSet(In(at, DHead(k))), In(at, DHead(k)) \subseteq CutTo(c, k) \cap Blocks
  PROVE  LET o == ObjOf(m, c, k) IN
         /\ o \in Blocks /\ o[2] = k
         /\ HeaderOf(c) \in Headers /\ CutTo(c, k) \cup {o} \subseteq CutTo(HeaderOf(c), k)
         /\ MemOK(MemOf(m, c, k), Put(at, o, NULL), heads, own)
         /\ ChunkOK(HeaderOf(c), Put(at, o, NULL), k)
         /\ Same(m, MemOf(m, c, k), Nodes \ (Items \cup Ends))
<1>. DEFINE d   == HeaderOf(c)
            o   == ObjOf(m, c, k)
            mm  == MemOf(m, c, k)
            att == Put(at, o, NULL)
            n   == Cardinality(In(at, DHead(k)))
<1>1. /\ c.size_cls \in Classes /\ c.blk_cnt = Count(c.size_cls) /\ c.free_mem_cnt <= c.blk_cnt
      /\ c.free_tot_cnt = c.free_mem_cnt + n /\ n \in Nat
      /\ c.blk_cnt \in Nat /\ c.free_mem_cnt \in Nat /\ c.free_tot_cnt \in Nat
  BY FS_CardinalityType DEF ChunkOK, CountsOK, Forg, Headers
<1>2. /\ d \in Headers /\ d.owner = c.owner /\ d.state = "FORG" /\ d.size_cls = c.size_cls
      /\ d.blk_cnt = c.blk_cnt /\ d.free_tot_cnt = c.free_tot_cnt - 1
      /\ d.free_mem_cnt = IF c.free_mem_cnt > 0 THEN c.free_mem_cnt - 1 ELSE c.free_mem_cnt
  <2>. DEFINE x == c.free_tot_cnt - 1
              y == IF c.free_mem_cnt > 0 THEN c.free_mem_cnt - 1 ELSE c.free_mem_cnt
  <2>1. x \in Nat /\ y \in Nat
    BY <1>1
  <2>2. d = [[[c EXCEPT !.state = "FORG"] EXCEPT !.free_tot_cnt = x] EXCEPT !.free_mem_cnt = y]
    BY DEF HeaderOf, Headers
  <2>. HIDE DEF x, y, d
  <2>3. /\ d \in Headers /\ d.owner = c.owner /\ d.state = "FORG" /\ d.size_cls = c.size_cls
        /\ d.blk_cnt = c.blk_cnt /\ d.free_tot_cnt = x /\ d.free_mem_cnt = y
    BY <2>1, <2>2 DEF Headers
  <2> QED
    BY <2>3 DEF x, y
<1>3. at \in [Items -> Nodes \cup {NULL}] /\ at[ChunkNode(k)] = NULL
  BY DEF MemOK, ChunkOK, ListOf, Forg
<1>4. \A b \in Blocks : b[2] = k /\ at[b] # NULL =>
         b \in CutTo(c, k) /\ at[b] \in {DHead(k), Remote(c.owner)}
  BY DEF ChunkOK, BlocksOK, Forg, CutTo
<1>5. DHead(k) # NULL /\ k \in Chunks
  BY ItemsAreNodes, NodeSets
<1>. HIDE DEF d
<1>6. CASE c.free_mem_cnt > 0
  <2>1. o = NextCut(c, k) /\ mm = Write(m, o)
    BY <1>6 DEF ObjOf, MemOf
  <2>2. /\ o \in Blocks /\ o[2] = k /\ o \notin CutTo(c, k)
        /\ CutTo(d, k) = CutTo(c, k) \cup {o}
    BY <1>1, <1>2, <1>6, <2>1, CutToGrows
  <2>3. o \in Items /\ at[o] = NULL
    BY <1>4, <2>2 DEF Items
  <2>4. att = at
    BY <1>3, <2>3 DEF Put
  <2>5. MemOK(mm, at, heads, own) /\ Same(m, mm, Nodes \ {o})
    BY <2>1, <2>3, MemWrite
  <2>6. Same(m, mm, Nodes \ (Items \cup Ends))
    BY <2>3, <2>5 DEF Same
  <2>7. CountsOK(d, n)
    <3>. HIDE DEF n
    <3> QED
      BY <1>1, <1>2, <1>6 DEF CountsOK
  <2>8. BlocksOK(d, at, k)
    BY <1>2, <1>4, <2>2 DEF BlocksOK
  <2>9. ChunkOK(d, at, k)
    BY <1>2, <1>3, <2>7, <2>8 DEF ChunkOK, ListOf
  <2>. HIDE DEF o, mm, att
  <2>10. MemOK(mm, att, heads, own) /\ ChunkOK(d, att, k)
    BY <2>4, <2>5, <2>9
  <2> QED
    BY <1>2, <2>2, <2>6, <2>10 DEF o, mm, att, d
<1>7. CASE ~(c.free_mem_cnt > 0)
  <2>. DEFINE m1 == dlist_remove(m, m[DTail(k)][2])
  <2>1. o = m[DTail(k)][2] /\ mm = Write(m1, o)
    BY <1>7 DEF ObjOf, MemOf
  <2>2. In(at, DHead(k)) # {}
    <3>1. n # 0
      BY <1>1, <1>7
    <3> QED
      BY <3>1, FS_EmptySet
  <2>3. /\ o \in In(at, DHead(k))
        /\ MemOK(m1, att, heads, own)
        /\ Same(m, m1, Nodes \ (In(at, DHead(k)) \cup {DHead(k), DTail(k)}))
    BY <2>1, <2>2, MemTake
  <2>4. o \in Blocks /\ o \in CutTo(c, k) /\ o[2] = k /\ o \in Items
    BY <1>1, <1>5, <2>3, CutToFacts DEF Items
  <2>. HIDE DEF o, m1
  <2>5. att \in [Items -> Nodes \cup {NULL}] /\ att[o] = NULL
        /\ \A x \in Items : x # o => att[x] = at[x]
    BY <1>3, <2>4 DEF Put
  <2>. HIDE DEF att
  <2>6. MemOK(mm, att, heads, own) /\ Same(m1, mm, Nodes \ {o})
    BY <2>1, <2>3, <2>4, <2>5, MemWrite
  <2>7. Same(m, mm, Nodes \ (Items \cup Ends))
    BY <1>5, <2>3, <2>4, <2>6 DEF Same, In, Ends
  <2>8. In(att, DHead(k)) = In(at, DHead(k)) \ {o}
    BY <1>5, <2>3, <2>5 DEF In
  <2>9. Cardinality(In(att, DHead(k))) = n - 1
    BY <2>3, <2>8, OneLess
  <2>10. CountsOK(d, Cardinality(In(att, DHead(k))))
    <3>. HIDE DEF n
    <3> QED
      BY <1>1, <1>2, <1>7, <2>9 DEF CountsOK
  <2>11. CutTo(d, k) = CutTo(c, k)
    BY <1>2, <1>7 DEF CutTo
  <2>12. BlocksOK(d, att, k)
    BY <1>2, <1>4, <2>5, <2>11 DEF BlocksOK, Items
  <2>13. att[ChunkNode(k)] = ListOf(d)
    <3>1. ChunkNode(k) \in Items /\ ChunkNode(k) # o
      BY <1>5, <2>4, BlockKinds, Kinds DEF Items
    <3> QED
      BY <1>2, <1>3, <2>5, <3>1 DEF ListOf
  <2>14. ChunkOK(d, att, k)
    BY <2>10, <2>12, <2>13 DEF ChunkOK
  <2> QED
    BY <1>2, <2>4, <2>6, <2>7, <2>11, <2>14 DEF o, att, d
<1> QED
  BY <1>6, <1>7

\* What an allocation from chunk k leaves of the headers.
AllocFrame(headers, k) ==
  /\ chunk' \in [Chunks -> Headers]
  /\ chunk'[k].state = "FORG"
  /\ \A j \in Chunks : /\ chunk'[j].owner = headers[j].owner
                       /\ chunk'[j].size_cls = headers[j].size_cls
                       /\ j # k => chunk'[j].state = headers[j].state

\* chunk_alloc_obj hands out a block that was free, and the spare loop moves no chunk.
LEMMA AllocOK ==
  ASSUME NEW t, NEW m, NEW headers \in [Chunks -> Headers], NEW at,
         NEW heads \in SUBSET AllHeads, NEW own \in SUBSET Chunks, NEW k \in own,
         MemOK(m, at, heads, own), headers[k].owner # NoHeap, headers[k].free_tot_cnt > 0,
         ChunksOK([headers EXCEPT ![k] = Forg(headers[k])], at), HeldOK(headers, at, held),
         Alloc(t, m, headers, k)
  PROVE  LET att == Put(at, ObjOf(m, headers[k], k), NULL) IN
         /\ MemOK(mem', att, heads, own) /\ ChunksOK(chunk', att) /\ HeldOK(chunk', att, held')
         /\ Same(m, mem', Nodes \ (Items \cup Ends))
         /\ AllocFrame(headers, k)
<1>. DEFINE ch == [headers EXCEPT ![k] = Forg(headers[k])]
            c  == headers[k]
            o  == ObjOf(m, c, k)
            att == Put(at, o, NULL)
<1>1. ch[k] = Forg(c) /\ \A j \in Chunks : j # k => ch[j] = headers[j]
  OBVIOUS
<1>2. ChunksOK(ch, at) /\ k \in Chunks /\ c \in Headers
  OBVIOUS
<1>. HIDE DEF ch
<1>3. ChunkOK(Forg(c), at, k) /\ Forg(c).owner # NoHeap /\ CutTo(Forg(c), k) = CutTo(c, k)
  <2>1. Forg(c).owner = c.owner /\ CutTo(Forg(c), k) = CutTo(c, k)
    BY DEF Forg, Headers, CutTo
  <2> QED
    BY <1>1, <1>2, <2>1 DEF ChunksOK
<1>4. IsFiniteSet(In(at, DHead(k))) /\ In(at, DHead(k)) \subseteq CutTo(c, k) \cap Blocks
  BY <1>1, <1>2, <1>3, Counters, InChain
<1>5. /\ held' = held \cup {o}
      /\ mem' = MemOf(m, c, k)
      /\ chunk' = [j \in Chunks |-> chunk'[j]]
      /\ chunk'[k] = HeaderOf(c)
      /\ \A j \in Chunks : j # k => Alike(headers[j], chunk'[j])
  BY AllocReads
<1>6. /\ o \in Blocks /\ o[2] = k
      /\ HeaderOf(c) \in Headers /\ CutTo(c, k) \cup {o} \subseteq CutTo(HeaderOf(c), k)
      /\ MemOK(MemOf(m, c, k), att, heads, own)
      /\ ChunkOK(HeaderOf(c), att, k)
      /\ Same(m, MemOf(m, c, k), Nodes \ (Items \cup Ends))
  BY <1>2, <1>3, <1>4, TakeOK
<1>7. HeaderOf(c).owner = c.owner /\ HeaderOf(c).size_cls = c.size_cls /\ HeaderOf(c).state = "FORG"
  BY DEF HeaderOf, Headers
<1>. HIDE DEF o
<1>8. /\ att \in [Items -> Nodes \cup {NULL}] /\ att[o] = NULL
      /\ \A x \in Items : x # o => att[x] = at[x]
  BY <1>6 DEF Put, MemOK, Items
<1>. HIDE DEF att, c
<1>9. OthersOK(chunk', att, k)
  <2>1. OthersOK(ch, at, k) /\ OthersAlike(ch, chunk', k)
    BY <1>1, <1>2, <1>5 DEF ChunksOK, OthersOK, OthersAlike
  <2>2. \A x \in Items : x[2] # k => att[x] = at[x]
    BY <1>6, <1>8
  <2>3. ASSUME NEW x \in Items, NEW j \in Chunks, x[2] = k, j # k
        PROVE  at[x] # DHead(j) /\ att[x] # DHead(j)
    <3>1. at[x] # DHead(j)
      BY <1>2, <2>3, ItemsApart
    <3>2. DHead(j) # NULL
      BY ItemsAreNodes, NodeSets
    <3> QED
      BY <1>8, <3>1, <3>2
  <2>4. Within(at, att, k)
    BY <2>2, <2>3 DEF Within
  <2> QED
    BY <1>2, <2>1, <2>4, OthersKept
<1>10. ChunksOK(chunk', att)
  BY <1>5, <1>6, <1>9 DEF ChunksOK, OthersOK
<1>11. HeldOK(chunk', att, held')
  <2>1. ASSUME NEW b \in held
        PROVE  /\ b \in Blocks /\ att[b] = NULL
               /\ chunk'[b[2]].owner # NoHeap /\ b \in CutTo(chunk'[b[2]], b[2])
    <3>1. /\ b \in Blocks /\ at[b] = NULL /\ b[2] \in Chunks
          /\ headers[b[2]].owner # NoHeap /\ b \in CutTo(headers[b[2]], b[2])
      BY BlockKinds DEF HeldOK
    <3>2. att[b] = NULL
      BY <1>8, <3>1 DEF Items
    <3>3. CASE b[2] = k
      BY <1>5, <1>6, <1>7, <3>1, <3>2, <3>3 DEF c
    <3>4. CASE b[2] # k
      BY <1>5, <3>1, <3>2, <3>4, AlikeOK DEF Alike
    <3> QED
      BY <3>3, <3>4
  <2>2. /\ o \in Blocks /\ att[o] = NULL
        /\ chunk'[o[2]].owner # NoHeap /\ o \in CutTo(chunk'[o[2]], o[2])
    BY <1>5, <1>6, <1>7, <1>8 DEF c
  <2> QED
    BY <1>5, <2>1, <2>2 DEF HeldOK
<1>12. AllocFrame(headers, k)
  <2>1. \A j \in Chunks : chunk'[j] \in Headers
    BY <1>10 DEF ChunksOK
  <2>2. chunk' \in [Chunks -> Headers]
    BY <1>5, <2>1
  <2> QED
    BY <1>5, <1>7, <2>2 DEF AllocFrame, Alike, c
<1> QED
  BY <1>5, <1>6, <1>10, <1>11, <1>12 DEF att, o, c

-----------------------------------------------------------------------------
(* What a free does *)

\* The heads of the blocks that other threads freed.
Remotes == {Remote(h) : h \in Heaps}

\* The heads of a heap are heads, and differ.
LEMMA HeapHeads ==
  ASSUME NEW h \in Heaps, NEW c \in Classes
  PROVE  /\ Background(h, c) \in HeadsOf({h}) /\ FreeList(h) \in HeadsOf({h})
         /\ Remote(h) \in HeadsOf({h}) /\ Remote(h) \in Remotes
         /\ HeadsOf({h}) \subseteq AllHeads
         /\ Background(h, c) \notin Remotes \cup Plain \cup Items
         /\ FreeList(h) \notin Remotes \cup Plain \cup Items
         /\ Background(h, c) # FreeList(h)
<1>1. HeadsOf({h}) \subseteq AllHeads /\ Background(h, c) \in HeadsOf({h})
      /\ FreeList(h) \in HeadsOf({h}) /\ Remote(h) \in HeadsOf({h}) /\ Remote(h) \in Remotes
  BY DEF HeadsOf, AllHeads, Remotes
<1>2. Background(h, c) \in AllHeads /\ FreeList(h) \in AllHeads
  BY <1>1
<1>3. /\ Background(h, c) \notin Remotes /\ FreeList(h) \notin Remotes
      /\ Background(h, c) # FreeList(h)
  BY Kinds DEF Remotes
<1> QED
  BY <1>1, <1>2, <1>3, ItemsAreNodes

\* What chunk_free_small writes: the block's links, and those of the chunk when it moves.
LEMMA FreeMem ==
  ASSUME NEW m, NEW at, NEW heads \in SUBSET AllHeads, NEW own \in SUBSET Chunks,
         MemOK(m, at, heads, own), NEW k \in own, NEW b \in Blocks, at[b] = NULL,
         NEW h \in Heaps, NEW c \in Classes, HeadsOf({h}) \subseteq heads
  PROVE  LET m1  == dlist_add(m, DHead(k), b)
             at1 == Put(at, b, DHead(k))
             n   == ChunkNode(k)
             D   == Plain \cup Remotes
         IN /\ MemOK(m1, at1, heads, own) /\ Same(m, m1, D) /\ SecondIs(m1, b, DHead(k))
            /\ at[n] = NULL =>
                 LET m2 == list_add_tail(m1, n, Background(h, c)) IN
                 /\ MemOK(m2, Put(at1, n, Background(h, c)), heads, own)
                 /\ Same(m, m2, D) /\ SecondIs(m2, b, DHead(k))
            /\ at[n] = Background(h, c) =>
                 LET m2 == Retired(m1, k, h) IN
                 /\ MemOK(m2, Put(at1, n, FreeList(h)), heads, own)
                 /\ Same(m, m2, D) /\ SecondIs(m2, b, DHead(k))
<1>. DEFINE m1  == dlist_add(m, DHead(k), b)
            at1 == Put(at, b, DHead(k))
            n   == ChunkNode(k)
            D   == Plain \cup Remotes
            G   == Background(h, c)
            F   == FreeList(h)
<1>1. b \in Items /\ n \in Items /\ n # b /\ k \in Chunks
  BY Kinds, BlockKinds DEF Items
<1>2. /\ MemOK(m1, at1, heads, own)
      /\ Same(m, m1, Nodes \ (In(at, DHead(k)) \cup {DHead(k), DTail(k), b}))
      /\ SecondIs(m1, b, DHead(k))
  BY <1>1, MemPush
<1>3. /\ G \in heads /\ F \in heads /\ G \notin D \cup Items /\ F \notin D \cup Items /\ F # G
  BY HeapHeads
<1>4. D \subseteq Nodes /\ D \cap Items = {} /\ DHead(k) \notin D /\ DTail(k) \notin D
      /\ DHead(k) \notin AllHeads
  <2>1. Remotes \subseteq AllHeads
    BY DEF Remotes, AllHeads, HeadsOf
  <2> QED
    BY <1>1, <2>1, ItemsAreNodes
<1>5. Same(m, m1, D)
  BY <1>1, <1>2, <1>4 DEF Same, In
<1>6. at1[b] = DHead(k) /\ at1[n] = at[n] /\ at1 \in [Items -> Nodes \cup {NULL}]
  BY <1>1, ItemsAreNodes DEF Put, MemOK
<1>7. b \in Nodes
  BY <1>1, ItemsAreNodes
<1>. HIDE DEF m1, at1, D, G, F, n
<1>8. ASSUME at[n] = NULL
      PROVE  LET m2 == list_add_tail(m1, n, G) IN
             MemOK(m2, Put(at1, n, G), heads, own) /\ Same(m, m2, D) /\ SecondIs(m2, b, DHead(k))
  <2>. DEFINE m2 == list_add_tail(m1, n, G)
  <2>1. at1[n] = NULL
    BY <1>6, <1>8
  <2>2. MemOK(m2, Put(at1, n, G), heads, own) /\ Same(m1, m2, Nodes \ (In(at1, G) \cup {G, n}))
    BY <1>1, <1>2, <1>3, <2>1, MemAddTail
  <2>. HIDE DEF m2
  <2>3. b \notin In(at1, G) \cup {G, n} /\ D \cap (In(at1, G) \cup {G, n}) = {}
    BY <1>1, <1>3, <1>4, <1>6 DEF In
  <2>4. Same(m, m2, D) /\ SecondIs(m2, b, DHead(k))
    BY <1>2, <1>4, <1>5, <1>7, <2>2, <2>3 DEF Same, SecondIs
  <2> QED
    BY <2>2, <2>4 DEF m2
<1>9. ASSUME at[n] = G
      PROVE  LET m2 == Retired(m1, k, h) IN
             MemOK(m2, Put(at1, n, F), heads, own) /\ Same(m, m2, D) /\ SecondIs(m2, b, DHead(k))
  <2>. DEFINE md == list_del(m1, n)
              ad == Put(at1, n, NULL)
              m2 == list_add_tail(md, n, F)
  <2>1. at1[n] = G
    BY <1>6, <1>9
  <2>2. MemOK(md, ad, heads, own) /\ Same(m1, md, Nodes \ (In(at1, G) \cup {G}))
    BY <1>1, <1>2, <1>3, <2>1, MemDel
  <2>. HIDE DEF md
  <2>3. ad[n] = NULL /\ ad[b] = DHead(k) /\ Put(ad, n, F) = Put(at1, n, F)
    BY <1>1, <1>6 DEF Put
  <2>. HIDE DEF ad
  <2>4. MemOK(m2, Put(ad, n, F), heads, own) /\ Same(md, m2, Nodes \ (In(ad, F) \cup {F, n}))
    BY <1>1, <1>3, <2>2, <2>3, MemAddTail
  <2>5. m2 = Retired(m1, k, h)
    BY DEF Retired, md, n, F
  <2>. HIDE DEF m2
  <2>6. b \notin In(at1, G) \cup {G} /\ D \cap (In(at1, G) \cup {G}) = {}
    BY <1>1, <1>3, <1>4, <1>6 DEF In
  <2>7. b \notin In(ad, F) \cup {F, n} /\ D \cap (In(ad, F) \cup {F, n}) = {}
    BY <1>1, <1>3, <1>4, <2>3 DEF In
  <2>8. Same(m, m2, D) /\ SecondIs(m2, b, DHead(k))
    BY <1>2, <1>4, <1>5, <1>7, <2>2, <2>4, <2>6, <2>7 DEF Same, SecondIs
  <2> QED
    BY <2>3, <2>4, <2>5, <2>8
<1> QED
  BY <1>2, <1>5, <1>8, <1>9 DEF m1, at1, D, G, F, n

\* What a free to a chunk's own list leaves of the headers.
FreeFrame ==
  /\ chunk' \in [Chunks -> Headers]
  /\ \A j \in Chunks : /\ chunk'[j].owner = chunk[j].owner
                       /\ chunk'[j].size_cls = chunk[j].size_cls
                       /\ chunk[j].state = "FORG" => chunk'[j].state = "FORG"

\* While one of its blocks is out, a chunk does not count itself all free.
LEMMA NotComplete ==
  ASSUME NEW ch, NEW at, ChunksOK(ch, at), NEW k \in Chunks, ch[k].owner # NoHeap,
         NEW b \in CutTo(ch[k], k), at[b] = NULL
  PROVE  ch[k].free_tot_cnt < ch[k].blk_cnt
<1>1. /\ ch[k].free_tot_cnt <= ch[k].blk_cnt
      /\ ch[k].free_tot_cnt = ch[k].blk_cnt => In(at, DHead(k)) = CutTo(ch[k], k)
      /\ ch[k] \in Headers
  BY Counters DEF ChunksOK
<1>2. DHead(k) # NULL
  BY ItemsAreNodes, NodeSets
<1>3. b \notin In(at, DHead(k))
  BY <1>2 DEF In
<1> QED
  BY <1>1, <1>3 DEF Headers

\* chunk_free_small of a block in no list: it returns to its chunk, and the chunk is then
\* in the list that its state and counters say.
LEMMA FreeLocalOK ==
  ASSUME NEW m, NEW at, NEW heads \in SUBSET AllHeads, NEW own \in SUBSET Chunks, NEW hd,
         NEW b \in Blocks, b[2] \in own, b \notin hd, at[b] = NULL,
         chunk \in [Chunks -> Headers], ChunksOK(chunk, at), HeldOK(chunk, at, hd),
         chunk[b[2]].owner # NoHeap, b \in CutTo(chunk[b[2]], b[2]),
         HeadsOf({chunk[b[2]].owner}) \subseteq heads, MemOK(m, at, heads, own), FreeLocal(m, b)
  PROVE  LET k == b[2]
             att == Put(Put(at, b, DHead(k)), ChunkNode(k), ListOf(chunk'[k]))
         IN /\ MemOK(mem', att, heads, own) /\ ChunksOK(chunk', att) /\ HeldOK(chunk', att, hd)
            /\ Same(m, mem', Plain \cup Remotes) /\ SecondIs(mem', b, DHead(k))
            /\ FreeFrame
<1>. DEFINE k   == b[2]
            c   == chunk[k]
            d   == chunk'[k]
            n   == ChunkNode(k)
            m1  == dlist_add(m, DHead(k), b)
            at1 == Put(at, b, DHead(k))
            att == Put(at1, n, ListOf(d))
            G   == Background(c.owner, c.size_cls)
            F   == FreeList(c.owner)
            S   == In(at, DHead(k))
<1>1. /\ chunk' = [chunk EXCEPT ![k].free_tot_cnt = @ + 1,
                                ![k].state = IF @ = "FULL" THEN "BACK" ELSE @]
      /\ mem' = CASE c.state = "FULL" -> list_add_tail(m1, n, G)
                  [] c.state = "BACK" /\ c.free_tot_cnt + 1 = c.blk_cnt -> Retired(m1, k, c.owner)
                  [] OTHER -> m1
  BY DEF FreeLocal
<1>2. /\ k \in Chunks /\ c \in Headers
      /\ CountsOK(c, Cardinality(S)) /\ at[n] = ListOf(c) /\ BlocksOK(c, at, k)
  BY BlockKinds DEF ChunksOK, ChunkOK
<1>3. /\ c.owner \in Heaps /\ c.size_cls \in Classes /\ c.blk_cnt \in Nat /\ c.free_mem_cnt \in Nat
      /\ c.free_tot_cnt \in Nat /\ c.state \in {"FORG", "FULL", "BACK"}
      /\ c.free_tot_cnt < c.blk_cnt /\ c.owner # NoHeap
      /\ c.state = "FULL" => c.free_tot_cnt = 0
      /\ c.state = "BACK" => c.free_tot_cnt > 0
      /\ c.free_tot_cnt = c.free_mem_cnt + Cardinality(S)
  BY <1>2, NotComplete DEF CountsOK, Headers
<1>4. /\ d \in Headers /\ d.owner = c.owner /\ d.size_cls = c.size_cls /\ d.blk_cnt = c.blk_cnt
      /\ d.free_mem_cnt = c.free_mem_cnt /\ d.free_tot_cnt = c.free_tot_cnt + 1
      /\ d.state = IF c.state = "FULL" THEN "BACK" ELSE c.state
  <2>. DEFINE st == IF c.state = "FULL" THEN "BACK" ELSE c.state
              x  == c.free_tot_cnt + 1
  <2>1. d = [[c EXCEPT !.free_tot_cnt = x] EXCEPT !.state = st]
    BY <1>1, <1>2 DEF Headers
  <2>2. x \in Nat /\ st \in {"FORG", "FULL", "BACK"}
    BY <1>3
  <2>. HIDE DEF d, x, st
  <2>3. /\ d \in Headers /\ d.owner = c.owner /\ d.size_cls = c.size_cls /\ d.blk_cnt = c.blk_cnt
        /\ d.free_mem_cnt = c.free_mem_cnt /\ d.free_tot_cnt = x /\ d.state = st
    BY <1>2, <2>1, <2>2 DEF Headers
  <2> QED
    BY <2>3 DEF x, st
<1>5. \A j \in Chunks : j # k => chunk'[j] = chunk[j]
  BY <1>1
<1>6. chunk' \in [Chunks -> Headers]
  <2>1. chunk' = [j \in Chunks |-> chunk'[j]]
    BY <1>1
  <2>2. \A j \in Chunks : chunk'[j] \in Headers
    BY <1>4, <1>5
  <2>. HIDE DEF d
  <2> QED
    BY <2>1, <2>2
<1>7. FreeFrame
  BY <1>4, <1>5, <1>6 DEF FreeFrame
<1>8. b \in Items /\ n \in Items /\ n # b /\ at \in [Items -> Nodes \cup {NULL}]
  BY <1>2, Kinds, BlockKinds DEF Items, MemOK
<1>. HIDE DEF c, d, n, m1, k
<1>9. /\ at1[n] = at[n] /\ at1[b] = DHead(k) /\ at1 \in [Items -> Nodes \cup {NULL}]
      /\ at1 = Put(at1, n, at[n])
  BY <1>2, <1>8, ItemsAreNodes DEF Put
<1>10. ListOf(c) = IF c.state = "BACK" THEN G ELSE NULL
  BY <1>3 DEF ListOf
<1>11. /\ MemOK(mem', att, heads, own)
       /\ Same(m, mem', Plain \cup Remotes) /\ SecondIs(mem', b, DHead(k))
  <2>1. /\ MemOK(m1, at1, heads, own) /\ Same(m, m1, Plain \cup Remotes)
        /\ SecondIs(m1, b, DHead(k))
        /\ at[n] = NULL =>
             LET m2 == list_add_tail(m1, n, G) IN
             /\ MemOK(m2, Put(at1, n, G), heads, own)
             /\ Same(m, m2, Plain \cup Remotes) /\ SecondIs(m2, b, DHead(k))
        /\ at[n] = G =>
             LET m2 == Retired(m1, k, c.owner) IN
             /\ MemOK(m2, Put(at1, n, F), heads, own)
             /\ Same(m, m2, Plain \cup Remotes) /\ SecondIs(m2, b, DHead(k))
    <3>1. HeadsOf({c.owner}) \subseteq heads /\ k \in own
      BY DEF c, k
    <3> QED
      BY <1>3, <3>1, FreeMem DEF m1, n
  <2>. HIDE DEF at1, G, F
  <2>2. CASE c.state = "FULL"
    <3>1. ListOf(d) = G
      BY <1>3, <1>4, <2>2 DEF ListOf, G
    <3>2. mem' = list_add_tail(m1, n, G) /\ at[n] = NULL
      BY <1>1, <1>2, <1>10, <2>2
    <3> QED
      BY <2>1, <3>1, <3>2
  <2>3. CASE c.state = "BACK" /\ c.free_tot_cnt + 1 = c.blk_cnt
    <3>1. ListOf(d) = F
      BY <1>3, <1>4, <2>3 DEF ListOf, F
    <3>2. mem' = Retired(m1, k, c.owner) /\ at[n] = G
      BY <1>1, <1>2, <1>10, <2>3
    <3> QED
      BY <2>1, <3>1, <3>2
  <2>4. CASE ~(c.state = "FULL" \/ (c.state = "BACK" /\ c.free_tot_cnt + 1 = c.blk_cnt))
    <3>1. ListOf(d) = at[n]
      BY <1>2, <1>3, <1>4, <2>4 DEF ListOf
    <3>2. mem' = m1
      BY <1>1, <2>4
    <3> QED
      BY <1>9, <2>1, <3>1, <3>2
  <2> QED
    BY <2>2, <2>3, <2>4
<1>12. /\ att \in [Items -> Nodes \cup {NULL}] /\ att[n] = ListOf(d) /\ att[b] = DHead(k)
       /\ \A x \in Items : x \notin {b, n} => att[x] = at[x]
  <2>1. att \in [Items -> Nodes \cup {NULL}]
    BY <1>11 DEF MemOK
  <2> QED
    BY <1>8, <1>9, <2>1 DEF Put
<1>. HIDE DEF at1, att
<1>13. DHead(k) # NULL /\ \A j \in Chunks : j # k => DHead(j) # DHead(k)
  BY <1>2, ItemsAreNodes, NodeSets
<1>14. b[2] = k /\ n[2] = k
  BY Kinds DEF k, n
<1>15. ListOf(c) = NULL \/ ListOf(c)[1] \in {"free_list", "background"}
  BY ListKinds
<1>16. ListOf(d) = NULL \/ ListOf(d)[1] \in {"free_list", "background"}
  BY ListKinds
<1>17. \A j \in Chunks : DHead(j) # NULL /\ DHead(j)[1] = "dlist_head"
  BY ItemsAreNodes, NodeSets, Kinds
<1>18. In(att, DHead(k)) = S \cup {b}
  <2>1. n \notin S /\ n \notin In(att, DHead(k))
    BY <1>2, <1>12, <1>15, <1>16, <1>17 DEF In
  <2> QED
    BY <1>2, <1>8, <1>12, <2>1 DEF In
<1>19. CountsOK(d, Cardinality(In(att, DHead(k))))
  <2>1. b \notin S
    BY <1>13 DEF In
  <2>2. IsFiniteSet(S) /\ Cardinality(S) \in Nat
    BY <1>2, Counters
  <2>. HIDE DEF S
  <2>3. Cardinality(In(att, DHead(k))) = Cardinality(S) + 1
    BY <1>18, <2>1, <2>2, OneMore
  <2>4. c.blk_cnt = Count(c.size_cls) /\ c.free_mem_cnt <= c.blk_cnt
    BY <1>2, <1>3 DEF CountsOK
  <2>5. d.free_tot_cnt = d.free_mem_cnt + Cardinality(In(att, DHead(k))) /\ d.free_tot_cnt > 0
    BY <1>3, <1>4, <2>2, <2>3
  <2>6. d.owner # NoHeap /\ d.size_cls \in Classes /\ d.blk_cnt = Count(d.size_cls)
        /\ d.free_mem_cnt <= d.blk_cnt /\ d.state # "FULL"
    BY <1>3, <1>4, <2>4
  <2> QED
    BY <2>5, <2>6 DEF CountsOK
<1>20. CutTo(d, k) = CutTo(c, k)
  BY <1>4 DEF CutTo
<1>21. BlocksOK(d, att, k)
  <2>1. b \in CutTo(c, k)
    BY DEF c, k
  <2>2. n \notin Blocks
    BY Kinds, BlockKinds DEF n
  <2> QED
    BY <1>2, <1>3, <1>4, <1>12, <1>20, <2>1, <2>2 DEF BlocksOK, Items
<1>22. ChunkOK(d, att, k)
  BY <1>12, <1>19, <1>21 DEF ChunkOK, n
<1>23. OthersOK(chunk', att, k)
  <2>1. OthersOK(chunk, at, k)
    BY DEF OthersOK, ChunksOK
  <2>2. OthersAlike(chunk, chunk', k)
    BY <1>5, <1>6 DEF OthersAlike, Alike
  <2>3. \A x \in Items : x[2] # k => att[x] = at[x]
    BY <1>12, <1>14
  <2>4. ASSUME NEW x \in Items, NEW j \in Chunks, x[2] = k, j # k
        PROVE  at[x] # DHead(j) /\ att[x] # DHead(j)
    <3>1. at[x] # DHead(j)
      BY <2>4, ItemsApart
    <3> QED
      BY <1>12, <1>13, <1>16, <1>17, <2>4, <3>1
  <2>5. Within(at, att, k)
    BY <2>3, <2>4 DEF Within
  <2> QED
    BY <1>2, <2>1, <2>2, <2>5, OthersKept
<1>24. ChunksOK(chunk', att)
  BY <1>4, <1>22, <1>23 DEF ChunksOK, OthersOK, d
<1>25. HeldOK(chunk', att, hd)
  <2>1. ASSUME NEW x \in hd
        PROVE  /\ x \in Blocks /\ att[x] = NULL
               /\ chunk'[x[2]].owner # NoHeap /\ x \in CutTo(chunk'[x[2]], x[2])
    <3>1. /\ x \in Blocks /\ at[x] = NULL /\ x[2] \in Chunks
          /\ chunk[x[2]].owner # NoHeap /\ x \in CutTo(chunk[x[2]], x[2])
      BY BlockKinds DEF HeldOK
    <3>2. att[x] = NULL
      <4>1. x # b /\ x # n
        BY <3>1, Kinds, BlockKinds DEF n
      <4> QED
        BY <1>12, <3>1, <4>1 DEF Items
    <3>3. CASE x[2] = k
      BY <1>3, <1>4, <1>20, <3>1, <3>2, <3>3 DEF c, d
    <3>4. CASE x[2] # k
      BY <1>5, <3>1, <3>2, <3>4
    <3> QED
      BY <3>3, <3>4
  <2> QED
    BY <2>1 DEF HeldOK
<1> QED
  BY <1>7, <1>11, <1>24, <1>25 DEF k, d, n, at1, att

-----------------------------------------------------------------------------
(* The pool of heaps *)

\* From the pool's head, next-links stay within R, and each node they lead to answers
\* with its prev; in the other direction this holds for the last node only.
PoolOK(m, R) ==
  /\ \A x \in R \cup {HeapPool} : m[x][2] \in R \cup {HeapPool}
  /\ \A x \in R \cup {HeapPool} : m[x][2] \in R => m[m[x][2]][1] = x
  /\ m[HeapPool][1] \in R \cup {HeapPool}
  /\ m[HeapPool][1] \in R => m[m[HeapPool][1]][2] = HeapPool
  /\ m[HeapPool][2] = HeapPool => m[HeapPool][1] = HeapPool

\* The nodes that link heaps in the pool.
HeapNodes == {HeapNode(h) : h \in Heaps}

\* The nodes that link heaps are not those of the other lists.
LEMMA HeapNodesApart ==
  /\ HeapNodes \subseteq Plain /\ HeapPool \in Plain /\ GPool \in Plain /\ Plain \subseteq Nodes
  /\ HeapPool \notin HeapNodes /\ GPool \notin HeapNodes /\ HeapPool # GPool
  /\ \A h, g : HeapNode(h) = HeapNode(g) => h = g
  BY Kinds, ItemsAreNodes DEF HeapNodes, Plain

\* acquire_lheap takes a heap that was given back, and the list stays sound.
LEMMA PoolTaken ==
  ASSUME NEW m \in [Nodes -> Pairs(Nodes)], NEW R \in SUBSET HeapNodes, PoolOK(m, R),
         m[HeapPool][2] # HeapPool
  PROVE  LET n == m[HeapPool][2] IN
         /\ n \in R
         /\ PoolOK(list_del(m, n), R \ {n})
         /\ Same(m, list_del(m, n), Nodes \ (HeapNodes \cup {HeapPool}))
         /\ list_del(m, n) \in [Nodes -> Pairs(Nodes)]
<1>. DEFINE n == m[HeapPool][2]
            d == list_del(m, n)
            y == m[n][2]
<1>1. n \in R /\ m[n][1] = HeapPool /\ y \in R \cup {HeapPool}
  BY DEF PoolOK
<1>2. R \subseteq Nodes /\ HeapPool \in Nodes /\ HeapPool \notin R
  BY HeapNodesApart
<1>3. d \in [Nodes -> Pairs(Nodes)] /\ \A x \in Nodes : d[x] = Unlinked(m, n, x)
  BY <1>1, <1>2, DelWords
<1>4. \A x \in Nodes : /\ d[x][1] = IF x = y THEN HeapPool ELSE m[x][1]
                       /\ d[x][2] = IF x = HeapPool THEN y ELSE m[x][2]
                       /\ x \notin {y, HeapPool} => d[x] = <<m[x][1], m[x][2]>>
  BY <1>1, <1>3 DEF Unlinked
<1>. HIDE DEF d
<1>5. y # n
  BY <1>1, <1>2 DEF PoolOK
<1>. HIDE DEF n, y
<1>6. \A x \in R \cup {HeapPool} : m[x][2] \in R \cup {HeapPool}
  BY DEF PoolOK
<1>7. \A x \in R \cup {HeapPool} : m[x][2] \in R => m[m[x][2]][1] = x
  BY DEF PoolOK
<1>8. /\ m[HeapPool][1] \in R \cup {HeapPool}
      /\ m[HeapPool][1] \in R => m[m[HeapPool][1]][2] = HeapPool
      /\ m[HeapPool][2] = n /\ m[n][2] = y
  BY DEF PoolOK, n, y
<1>9. \A x \in R \ {n} : m[x][2] # n /\ (y \in R => m[x][2] # y)
  BY <1>1, <1>2, <1>7, <1>8
<1>10. \A x \in (R \ {n}) \cup {HeapPool} : d[x][2] \in (R \ {n}) \cup {HeapPool}
  BY <1>1, <1>2, <1>4, <1>5, <1>6, <1>9
<1>11. ASSUME NEW x \in (R \ {n}) \cup {HeapPool}, d[x][2] \in R \ {n} PROVE d[d[x][2]][1] = x
  <2>1. CASE x = HeapPool
    BY <1>2, <1>4, <1>11, <2>1
  <2>2. CASE x # HeapPool
    <3>1. x \in R \ {n} /\ d[x][2] = m[x][2] /\ m[x][2] \in R
      BY <1>2, <1>4, <1>11, <2>2
    <3>2. m[x][2] # y /\ m[m[x][2]][1] = x
      BY <1>7, <1>9, <3>1
    <3> QED
      BY <1>2, <1>4, <3>1, <3>2
  <2> QED
    BY <2>1, <2>2
<1>12. d[HeapPool][1] \in (R \ {n}) \cup {HeapPool}
  BY <1>1, <1>2, <1>4, <1>8
<1>13. d[HeapPool][1] \in R \ {n} => d[d[HeapPool][1]][2] = HeapPool
  BY <1>1, <1>2, <1>4, <1>8
<1>14. PoolOK(d, R \ {n})
  <2>1. d[HeapPool][2] = HeapPool => d[HeapPool][1] = HeapPool
    BY <1>1, <1>2, <1>4
  <2> QED
    BY <1>10, <1>11, <1>12, <1>13, <2>1 DEF PoolOK
<1>15. \A x \in Nodes : m[x] = <<m[x][1], m[x][2]>>
  BY PairEqual
<1>16. Same(m, d, Nodes \ (HeapNodes \cup {HeapPool}))
  BY <1>1, <1>4, <1>15 DEF Same
<1> QED
  BY <1>1, <1>3, <1>14, <1>16 DEF n, d


-----------------------------------------------------------------------------
(* The inductive invariant *)

\* The heaps that were given back: used before, and nobody's now.
GivenBack == {h \in Heaps : h < heap_pool.free_start /\ \A t \in Threads : local_heap[t] # h}
BackNodes == {HeapNode(h) : h \in GivenBack}
Linked    == BackNodes \cup {HeapPool}

\* The nodes that threads which end are linking, at one of the labels.
Own(t) == HeapNode(local_heap[t])
Enders(labels) == {Own(t) : t \in {u \in Threads : pc[u] \in labels}}

\* Where a thread is at work in the list of the pool.
InPool == {"take", "exit1", "exit2", "exit3", "exit4"}

\* Types, less what follows from the rest.
Typing ==
  /\ gpool \in [free_start : 1 .. CHUNKS + 1, pool_end : Nat]
  /\ heap_pool \in [free_start : 1 .. HEAPS + 1, pool_end : Nat]
  /\ gpool.free_start <= gpool.pool_end + 1 /\ heap_pool.free_start <= heap_pool.pool_end + 1
  /\ chunk \in [Chunks -> Headers]
  /\ foreground \in [Heaps -> [Classes -> Chunks \cup {Dummy}]]
  /\ lock \in [Heaps -> Threads \cup {NoOne}]
  /\ local_heap \in [Threads -> Heaps \cup {NoHeap}]
  /\ pc \in [Threads -> {"idle", "acquire", "take", "init", "reset", "small", "collect", "serve",
                         "remote", "exit1", "exit2", "exit3", "exit4"}]
  /\ cls \in [Threads -> Classes]
  /\ ptr \in [Threads -> Nodes \cup {NULL}]
  /\ broken \in BOOLEAN

\* No heap has two threads, and none has a heap that the pool has not handed out.
LocalHeaps ==
  /\ \A t, u \in Threads : t # u /\ local_heap[t] # NoHeap => local_heap[t] # local_heap[u]
  /\ \A t \in Threads : local_heap[t] # NoHeap => local_heap[t] < heap_pool.free_start

\* The pool's words lead to nodes of heaps only, also after sections raced.
PoolTyped ==
  /\ \A x \in HeapNodes \cup {HeapPool} : /\ mem[x][1] \in HeapNodes \cup {HeapPool, NULL}
                                          /\ mem[x][2] \in HeapNodes \cup {HeapPool, NULL}
  /\ mem[HeapPool][1] # NULL /\ mem[HeapPool][2] # NULL
  /\ \A t \in Threads : /\ pc[t] \in InPool => ptr[t] \in HeapNodes \cup {HeapPool}
                        /\ Exiting(t) => local_heap[t] \in Heaps
                        /\ local_heap[t] = PoolHeap => pc[t] = "init" \/ broken

\* What next-links are when threads end: a node answers with its prev, or its thread is
\* about to write there what it has read.
NextLinks ==
  \A x \in Linked \cup Enders({"exit2", "exit3", "exit4"}) :
    /\ mem[x][2] \in Linked \cup Enders({"exit4"})
    /\ mem[x][2] \in BackNodes => mem[mem[x][2]][1] = x
    /\ \A t \in Threads : pc[t] = "exit4" /\ mem[x][2] = Own(t) => ptr[t] = x

\* The last node has nothing behind it, and the pool looks empty at one end only while a
\* thread is about to write the other.
LastLink ==
  /\ mem[HeapPool][1] \in Linked \cup Enders({"exit3", "exit4"})
  /\ mem[HeapPool][1] # HeapPool => mem[mem[HeapPool][1]][2] = HeapPool
  /\ mem[HeapPool][2] = HeapPool /\ mem[HeapPool][1] # HeapPool =>
       \E t \in Threads : pc[t] = "exit3" /\ ptr[t] = HeapPool

\* What a thread that ends has read was the last node.
Ending(t) == Exiting(t) =>
  /\ ptr[t] \in Linked \cup Enders({"exit3", "exit4"}) /\ ptr[t] # Own(t)
  /\ mem[HeapPool][1] = HeapPool => ptr[t] = HeapPool
  /\ pc[t] = "exit2" => mem[Own(t)][2] = HeapPool
  /\ pc[t] = "exit3" /\ ptr[t] # HeapPool => ptr[t] # mem[HeapPool][1]

\* A thread that takes the first node is alone in the list.
Taking(t) == pc[t] = "take" =>
  /\ ptr[t] = mem[HeapPool][2] /\ ptr[t] # HeapPool
  /\ \A u \in Threads : ~Exiting(u) /\ (u # t => pc[u] # "take")

\* The pool of heaps and the threads' heaps; the pool of chunks has an empty list.
HeapInv == /\ NextLinks /\ LastLink /\ \A t \in Threads : Ending(t) /\ Taking(t)
           /\ PoolTyped /\ LocalHeaps
           /\ mem[GPool] = <<GPool, GPool>>

\* What the position of a thread promises: the collection holds the heap's lock, and its next
\* block is the first of remote_free, or the dlist head that dlist_add has left in a block; a
\* remote free holds the lock of the block's heap.
PcOK(t) ==
  /\ pc[t] \in {"acquire", "take"} => local_heap[t] = NoHeap
  /\ pc[t] \in {"init", "reset", "small", "collect", "serve", "exit1", "exit2", "exit3", "exit4"} =>
       local_heap[t] # NoHeap
  /\ pc[t] = "collect" => /\ lock[local_heap[t]] = t
                          /\ \/ ptr[t] = mem[Remote(local_heap[t])][2]
                             \/ \E k \in Owned : ptr[t] = DHead(k)
  /\ pc[t] = "remote" => ptr[t] \in held /\ lock[chunk[ptr[t][2]].owner] = t

\* No other thread frees the same block, or initialises the heap that it waits for.
FreesApart(t, u) == pc[t] = "remote" =>
  /\ pc[u] = "remote" => ptr[u] # ptr[t]
  /\ pc[u] = "reset" => chunk[ptr[t][2]].owner # local_heap[u]

\* The same for all threads, until the model has stopped.
PcInv == ~broken => \A t \in Threads : PcOK(t) /\ \A u \in Threads \ {t} : FreesApart(t, u)

\* The chunks that have an owner are those that the pool has handed out.
OwnerInv == \A k \in Chunks : chunk[k].owner = NoHeap <=> k >= gpool.free_start

\* A foreground chunk is the heap's own, cut for the class, and marked so.
FgInv == \A h \in Heaps, c \in Classes :
  foreground[h][c] # Dummy => /\ chunk[foreground[h][c]].owner = h
                              /\ chunk[foreground[h][c]].size_cls = c
                              /\ chunk[foreground[h][c]].state = "FORG"

\* The heaps whose lists are set up.
InUse == {h \in Heaps : \/ \E k \in Chunks : chunk[k].owner = h
                        \/ \E t \in Threads : local_heap[t] = h /\ pc[t] \notin {"init", "reset"}}

\* The lists of the heaps in use and of the owned chunks are what at says, and sound.
ListsOK(at) ==
  /\ at \in [Items -> Nodes \cup {NULL}]
  /\ MemOK(mem, at, HeadsOf(InUse), Owned)
  /\ ChunksOK(chunk, at)
  /\ HeldOK(chunk, at, held)

\* What holds until sections race.  The function at, which the model does not keep, is bound
\* by a quantifier: it names the list of each chunk and block, and memory need only agree
\* with it.
Sound == Typing /\ HeapInv /\ PcInv /\ OwnerInv /\ FgInv /\ \E at : ListsOK(at)

\* Fewer lists to be sound.
LEMMA Shrunk ==
  ASSUME NEW m, NEW at, NEW heads, NEW hs \in SUBSET heads, NEW own, NEW os \in SUBSET own,
         MemOK(m, at, heads, own)
  PROVE  MemOK(m, at, hs, os)
  BY DEF MemOK

\* Heaps in use are heaps, and every chunk's owner is in use.
LEMMA InUseFacts ==
  /\ HeadsOf(InUse) \in SUBSET AllHeads /\ Owned \in SUBSET Chunks
  /\ \A h \in InUse : HeadsOf({h}) \subseteq HeadsOf(InUse)
  /\ Typing => \A k \in Owned : chunk[k].owner \in InUse
<1>1. HeadsOf(InUse) \in SUBSET AllHeads /\ Owned \in SUBSET Chunks
      /\ \A h \in InUse : HeadsOf({h}) \subseteq HeadsOf(InUse)
  BY DEF HeadsOf, InUse, AllHeads, Owned
<1>2. ASSUME Typing, NEW k \in Owned PROVE chunk[k].owner \in InUse
  BY <1>2 DEF Typing, Headers, InUse, Owned, NoHeap
<1> QED
  BY <1>1, <1>2

\* The nodes that the pool's words lead to are nodes of heaps.
LEMMA PoolNodes ==
  ASSUME Typing, HeapInv
  PROVE  /\ BackNodes \subseteq HeapNodes /\ HeapPool \notin BackNodes
         /\ HeapNodes \cup {HeapPool} \subseteq Nodes
         /\ \A t \in Threads : Exiting(t) => Own(t) \in HeapNodes \ Linked
         /\ \A t, u \in Threads : Exiting(t) /\ t # u => Own(t) # Own(u)
         /\ \A labels \in SUBSET {"exit1", "exit2", "exit3", "exit4"} :
              Enders(labels) \subseteq HeapNodes \ Linked
<1>1. BackNodes \subseteq HeapNodes /\ HeapPool \notin HeapNodes
      /\ HeapNodes \cup {HeapPool} \subseteq Nodes
  BY HeapNodesApart DEF BackNodes, GivenBack, HeapNodes
<1>2. ASSUME NEW t \in Threads, Exiting(t) PROVE Own(t) \in HeapNodes \ Linked
  <2>1. local_heap[t] \in Heaps
    BY <1>2 DEF HeapInv, PoolTyped
  <2>2. Own(t) \in HeapNodes
    BY <2>1 DEF Own, HeapNodes
  <2>3. Own(t) \notin BackNodes
    BY HeapNodesApart DEF Own, BackNodes, GivenBack
  <2> QED
    BY <1>1, <2>2, <2>3 DEF Linked
<1>3. ASSUME NEW t \in Threads, NEW u \in Threads, Exiting(t), t # u PROVE Own(t) # Own(u)
  <2>1. local_heap[t] # NoHeap
    BY <1>3, TrAssumption DEF HeapInv, PoolTyped, Heaps, NoHeap
  <2>2. local_heap[t] # local_heap[u]
    BY <1>3, <2>1 DEF HeapInv, LocalHeaps
  <2> QED
    BY <2>2, HeapNodesApart DEF Own
<1>4. ASSUME NEW labels \in SUBSET {"exit1", "exit2", "exit3", "exit4"}, NEW x \in Enders(labels)
      PROVE  x \in HeapNodes \ Linked
  <2>1. PICK t \in Threads : pc[t] \in labels /\ x = Own(t)
    BY DEF Enders
  <2> QED
    BY <1>2, <2>1 DEF Exiting
<1> QED
  BY <1>1, <1>2, <1>3, <1>4

\* With nobody at work in it, the list of the pool is sound ...
LEMMA PoolAtRest ==
  ASSUME Typing, HeapInv, \A t \in Threads : ~Exiting(t)
  PROVE  PoolOK(mem, BackNodes)
<1>1. \A labels \in SUBSET {"exit1", "exit2", "exit3", "exit4"} : Enders(labels) = {}
  BY DEF Enders, Exiting
<1>2. Enders({"exit4"}) = {} /\ Enders({"exit3", "exit4"}) = {}
      /\ Enders({"exit2", "exit3", "exit4"}) = {}
  BY <1>1
<1>3. /\ \A x \in Linked : /\ mem[x][2] \in Linked
                           /\ mem[x][2] \in BackNodes => mem[mem[x][2]][1] = x
      /\ mem[HeapPool][1] \in Linked
      /\ mem[HeapPool][1] # HeapPool => mem[mem[HeapPool][1]][2] = HeapPool
  BY <1>2 DEF HeapInv, NextLinks, LastLink
<1>4. mem[HeapPool][2] = HeapPool => mem[HeapPool][1] = HeapPool
  BY DEF HeapInv, LastLink, Exiting
<1>5. HeapPool \notin BackNodes
  BY PoolNodes
<1> QED
  BY <1>3, <1>4, <1>5 DEF PoolOK, Linked

\* ... and its soundness is all there is to it.
LEMMA PoolRests ==
  ASSUME PoolOK(mem, BackNodes), \A t \in Threads : ~Exiting(t) /\ pc[t] # "take"
  PROVE  NextLinks /\ LastLink /\ \A t \in Threads : Ending(t) /\ Taking(t)
<1>1. \A labels \in SUBSET {"exit1", "exit2", "exit3", "exit4"} : Enders(labels) = {}
  BY DEF Enders, Exiting
<1>2. Enders({"exit4"}) = {} /\ Enders({"exit3", "exit4"}) = {}
      /\ Enders({"exit2", "exit3", "exit4"}) = {}
  BY <1>1
<1>3. NextLinks
  BY <1>2 DEF NextLinks, PoolOK, Linked, Exiting
<1>4. LastLink
  BY <1>2 DEF LastLink, PoolOK, Linked
<1> QED
  BY <1>3, <1>4 DEF Ending, Taking

\* The same after a step.
LEMMA PoolRestsNext ==
  (PoolOK(mem, BackNodes) /\ \A t \in Threads : ~Exiting(t) /\ pc[t] # "take")' =>
    (NextLinks /\ LastLink /\ \A t \in Threads : Ending(t) /\ Taking(t))'
<1>1. PoolOK(mem, BackNodes) /\ (\A t \in Threads : ~Exiting(t) /\ pc[t] # "take") =>
        NextLinks /\ LastLink /\ \A t \in Threads : Ending(t) /\ Taking(t)
  BY PoolRests
<1> QED
  BY <1>1, PTL

\* A thread that is not at work in the pool's list before or after a step, or stays where
\* it is.
Steady(t) == \/ pc'[t] = pc[t] /\ ptr'[t] = ptr[t]
             \/ pc[t] \notin InPool /\ pc'[t] \notin InPool

\* A step that leaves the words of the pool, and the threads at work in it, alone.
LEMMA PoolKept ==
  ASSUME Typing, HeapInv, BackNodes' = BackNodes, Same(mem, mem', Plain),
         \A t \in Threads : Steady(t) /\ (pc[t] \in InPool => local_heap'[t] = local_heap[t])
  PROVE  NextLinks' /\ LastLink' /\ \A t \in Threads : Ending(t)' /\ Taking(t)'
<1>1. Linked' = Linked
  BY DEF Linked
<1>2. \A t \in Threads : /\ pc'[t] \in InPool \/ pc[t] \in InPool =>
                              pc'[t] = pc[t] /\ ptr'[t] = ptr[t] /\ Own(t)' = Own(t)
                         /\ Exiting(t)' <=> Exiting(t)
  BY DEF Steady, InPool, Own, Exiting
<1>3. /\ Enders({"exit4"})' = Enders({"exit4"})
      /\ Enders({"exit3", "exit4"})' = Enders({"exit3", "exit4"})
      /\ Enders({"exit2", "exit3", "exit4"})' = Enders({"exit2", "exit3", "exit4"})
  <2>1. ASSUME NEW L \in SUBSET InPool PROVE Enders(L)' = Enders(L)
    BY <1>2 DEF Enders
  <2> QED
    BY <2>1 DEF InPool
<1>4. \A x \in HeapNodes \cup {HeapPool} : mem'[x] = mem[x]
  BY HeapNodesApart DEF Same
<1>5. /\ Linked \cup Enders({"exit2", "exit3", "exit4"}) \subseteq HeapNodes \cup {HeapPool}
      /\ Linked \cup Enders({"exit3", "exit4"}) \subseteq HeapNodes \cup {HeapPool}
      /\ Linked \cup Enders({"exit4"}) \subseteq HeapNodes \cup {HeapPool}
      /\ \A t \in Threads : Exiting(t) => Own(t) \in HeapNodes
  BY PoolNodes DEF Linked
<1>6. NextLinks'
  <2>1. NextLinks
    BY DEF HeapInv
  <2> QED
    BY <1>1, <1>2, <1>3, <1>4, <1>5, <2>1 DEF NextLinks, InPool, Linked
<1>7. LastLink'
  <2>1. LastLink
    BY DEF HeapInv
  <2> QED
    BY <1>1, <1>2, <1>3, <1>4, <1>5, <2>1 DEF LastLink, InPool
<1>8. ASSUME NEW t \in Threads PROVE Ending(t)' /\ Taking(t)'
  <2>1. Ending(t) /\ Taking(t)
    BY DEF HeapInv
  <2>2. Ending(t)'
    BY <1>1, <1>2, <1>3, <1>4, <1>5, <2>1 DEF Ending, InPool, Exiting
  <2>3. Taking(t)'
    BY <1>2, <1>4, <2>1 DEF Taking, InPool
  <2> QED
    BY <2>2, <2>3
<1> QED
  BY <1>6, <1>7, <1>8

\* A step that leaves the pool of heaps and the local heaps alone.
LEMMA HeapKept ==
  ASSUME Typing, HeapInv, UNCHANGED <<heap_pool, local_heap>>, Same(mem, mem', Plain),
         local_heap' \in [Threads -> Heaps \cup {NoHeap}], \A t \in Threads : Steady(t)
  PROVE  HeapInv'
<1>1. BackNodes' = BackNodes
  BY DEF BackNodes, GivenBack
<1>2. NextLinks' /\ LastLink' /\ \A t \in Threads : Ending(t)' /\ Taking(t)'
  BY <1>1, PoolKept
<1>3. /\ \A x \in HeapNodes \cup {HeapPool} : mem'[x] = mem[x]
      /\ mem'[GPool] = mem[GPool]
  BY HeapNodesApart DEF Same
<1>4. PoolTyped'
  <2>1. PoolTyped
    BY DEF HeapInv
  <2>2. \A t \in Threads : local_heap'[t] # PoolHeap
    BY TrAssumption DEF PoolHeap, Heaps, NoHeap
  <2>3. \A t \in Threads : /\ pc'[t] \in InPool => pc'[t] = pc[t] /\ ptr'[t] = ptr[t]
                           /\ Exiting(t)' <=> Exiting(t)
    BY DEF Steady, InPool, Exiting
  <2> QED
    BY <1>3, <2>1, <2>2, <2>3 DEF PoolTyped
<1> QED
  BY <1>2, <1>3, <1>4 DEF HeapInv, LocalHeaps

\* What a step of thread t leaves of another thread u.
Aside(u) ==
  /\ pc'[u] = pc[u] /\ ptr'[u] = ptr[u]
  /\ local_heap'[u] = local_heap[u]
  /\ pc[u] = "collect" => /\ lock'[local_heap[u]] = lock[local_heap[u]]
                          /\ mem'[Remote(local_heap[u])][2] = mem[Remote(local_heap[u])][2]
  /\ pc[u] = "remote" => /\ chunk'[ptr[u][2]].owner = chunk[ptr[u][2]].owner
                         /\ lock'[chunk[ptr[u][2]].owner] = lock[chunk[ptr[u][2]].owner]
                         /\ ptr[u] \in held => ptr[u] \in held'

\* The threads that stand aside keep what their position promises.
LEMMA AsideKept ==
  ASSUME PcInv, ~broken, NEW t \in Threads, Owned \subseteq Owned',
         \A u \in Threads \ {t} : Aside(u)
  PROVE  \A u \in Threads \ {t} : PcOK(u)' /\ \A v \in Threads \ {t, u} : FreesApart(u, v)'
<1>1. ASSUME NEW u \in Threads, u # t PROVE PcOK(u)'
  BY <1>1 DEF PcInv, PcOK, Aside
<1>2. ASSUME NEW u \in Threads, u # t, NEW v \in Threads, v # t, v # u PROVE FreesApart(u, v)'
  BY <1>2 DEF PcInv, FreesApart, Aside
<1> QED
  BY <1>1, <1>2

\* So do all after a step that frees nothing and begins to initialise nothing.
LEMMA PcKept ==
  ASSUME PcInv, ~broken, NEW t \in Threads, Owned \subseteq Owned',
         \A u \in Threads \ {t} : Aside(u), PcOK(t)', pc'[t] \notin {"remote", "reset"}
  PROVE  PcInv'
<1>1. \A u \in Threads \ {t} : PcOK(u)' /\ \A v \in Threads \ {t, u} : FreesApart(u, v)'
  BY AsideKept
<1>2. \A u \in Threads \ {t} : FreesApart(t, u)' /\ FreesApart(u, t)'
  BY DEF FreesApart
<1> QED
  BY <1>1, <1>2 DEF PcInv

\* The other threads are steady.
LEMMA OthersSteady ==
  ASSUME NEW t \in Threads, \A u \in Threads \ {t} : Aside(u), Steady(t)
  PROVE  \A u \in Threads : Steady(u)
  BY DEF Aside, Steady

\* A block on its way to another heap: it is held, and its heap is locked and in use.
LEMMA UnderWay ==
  ASSUME Sound, ~broken, NEW u \in Threads, pc[u] = "remote"
  PROVE  LET h == chunk[ptr[u][2]].owner IN
         /\ ptr[u] \in held /\ ptr[u] \in Blocks /\ ptr[u][2] \in Owned /\ ptr[u][2] \in Chunks
         /\ h \in Heaps /\ h # NoHeap /\ h \in InUse /\ lock[h] = u
<1>1. ptr[u] \in held /\ lock[chunk[ptr[u][2]].owner] = u
  BY DEF Sound, PcInv, PcOK
<1>2. ptr[u] \in Blocks /\ chunk[ptr[u][2]].owner # NoHeap
  BY <1>1 DEF Sound, ListsOK, HeldOK
<1>3. ptr[u][2] \in Chunks /\ ptr[u][2] \in Owned
  BY <1>2, BlockKinds DEF Owned
<1>4. chunk[ptr[u][2]].owner \in InUse
  BY <1>3, InUseFacts DEF Sound
<1> QED
  BY <1>1, <1>2, <1>3, <1>4 DEF InUse


-----------------------------------------------------------------------------
(* Types, which hold also after sections raced *)

\* The types of the model, and where the pool's words lead.
Typed == TypeOK /\ PoolTyped

\* The types follow from what is sound ...
LEMMA TypeHolds == ASSUME Sound, raced \in BOOLEAN PROVE Typed
<1>1. PICK at : ListsOK(at)
  BY DEF Sound
<1>2. mem \in [Nodes -> (Nodes \cup {NULL}) \X (Nodes \cup {NULL})]
  BY <1>1 DEF ListsOK, MemOK, Pairs
<1>3. \A k \in Chunks : /\ chunk[k].free_tot_cnt <= chunk[k].blk_cnt
                        /\ chunk[k].free_mem_cnt <= chunk[k].free_tot_cnt
  BY <1>1, Counters DEF ListsOK
<1>4. held \subseteq Blocks
  BY <1>1 DEF ListsOK, HeldOK
<1> QED
  BY <1>2, <1>3, <1>4 DEF Sound, Typing, TypeOK, Typed, HeapInv

\* ... also after a step.
LEMMA TypeHoldsNext == Sound' /\ (raced \in BOOLEAN)' => Typed'
<1>1. Sound /\ raced \in BOOLEAN => Typed
  BY TypeHolds
<1> QED
  BY <1>1, PTL

\* The steps of the pool of heaps, and the one that may meet them.
PoolStep(t) ==
  \/ \E c \in Classes : Malloc(t, c)
  \/ Acquire(t) \/ Unlink(t) \/ InitBegin(t) \/ InitLheap(t) \/ ExitBegin(t) \/ Exit(t)
  \/ \E b \in held : Free(t, b)

\* What pc, local_heap, ptr and memory are typed after a step of the pool.
LEMMA PoolTypedKept ==
  ASSUME Typed, NEW t \in Threads, NEW l, NEW n, NEW h,
         pc' = [pc EXCEPT ![t] = l], ptr' = [ptr EXCEPT ![t] = n],
         local_heap' = [local_heap EXCEPT ![t] = h],
         broken => broken',
         \A x \in HeapNodes \cup {HeapPool} : /\ mem'[x][1] \in HeapNodes \cup {HeapPool, NULL}
                                              /\ mem'[x][2] \in HeapNodes \cup {HeapPool, NULL},
         mem'[HeapPool][1] # NULL, mem'[HeapPool][2] # NULL,
         l \in InPool => n \in HeapNodes \cup {HeapPool},
         l \in {"exit1", "exit2", "exit3", "exit4"} => h \in Heaps,
         h = PoolHeap => l = "init" \/ broken'
  PROVE  PoolTyped'
<1>1. \A u \in Threads : /\ pc'[u] = IF u = t THEN l ELSE pc[u]
                         /\ ptr'[u] = IF u = t THEN n ELSE ptr[u]
                         /\ local_heap'[u] = IF u = t THEN h ELSE local_heap[u]
  BY DEF Typed, TypeOK
<1>2. \A u \in Threads : /\ pc[u] \in InPool => ptr[u] \in HeapNodes \cup {HeapPool}
                         /\ Exiting(u) => local_heap[u] \in Heaps
                         /\ local_heap[u] = PoolHeap => pc[u] = "init" \/ broken
  BY DEF Typed, PoolTyped
<1>3. ASSUME NEW u \in Threads
      PROVE  /\ pc'[u] \in InPool => ptr'[u] \in HeapNodes \cup {HeapPool}
             /\ Exiting(u)' => local_heap'[u] \in Heaps
             /\ local_heap'[u] = PoolHeap => pc'[u] = "init" \/ broken'
  BY <1>1, <1>2 DEF Exiting
<1> QED
  BY <1>3 DEF PoolTyped

\* One word of a node of the pool is written.
LEMMA PoolWord ==
  ASSUME Typed, NEW a \in HeapNodes \cup {HeapPool}, NEW w \in {1, 2},
         NEW v \in HeapNodes \cup {HeapPool},
         mem' = [mem EXCEPT ![a][w] = v]
  PROVE  /\ mem' \in [Nodes -> Pairs(Nodes)]
         /\ \A x \in HeapNodes \cup {HeapPool} : /\ mem'[x][1] \in HeapNodes \cup {HeapPool, NULL}
                                                 /\ mem'[x][2] \in HeapNodes \cup {HeapPool, NULL}
         /\ mem'[HeapPool][1] # NULL /\ mem'[HeapPool][2] # NULL
         /\ Same(mem, mem', Nodes \ (HeapNodes \cup {HeapPool}))
<1>1. /\ mem \in [Nodes -> Pairs(Nodes)] /\ HeapNodes \cup {HeapPool} \subseteq Nodes
      /\ NULL \notin Nodes
  BY HeapNodesApart, NodeSets DEF Typed, TypeOK, Pairs
<1>2. /\ mem' \in [Nodes -> Pairs(Nodes)]
      /\ w = 1 => \A x \in Nodes : mem'[x] = IF x = a THEN <<v, mem[x][2]>> ELSE mem[x]
      /\ w = 2 => \A x \in Nodes : mem'[x] = IF x = a THEN <<mem[x][1], v>> ELSE mem[x]
  <2>1. CASE w = 1
    <3>1. mem' = SetFirst(mem, a, v)
      BY <2>1 DEF SetFirst
    <3> QED
      BY <1>1, <2>1, <3>1, SetWord
  <2>2. CASE w = 2
    <3>1. mem' = SetSecond(mem, a, v)
      BY <2>2 DEF SetSecond
    <3> QED
      BY <1>1, <2>2, <3>1, SetWord
  <2> QED
    BY <2>1, <2>2
<1>3. \A x \in Nodes : /\ mem'[x][1] \in {v, mem[x][1]} /\ mem'[x][2] \in {v, mem[x][2]}
                      /\ x # a => mem'[x] = mem[x]
  <2>1. CASE w = 1
    BY <1>2, <2>1
  <2>2. CASE w = 2
    BY <1>2, <2>2
  <2> QED
    BY <2>1, <2>2
<1>4. /\ \A x \in HeapNodes \cup {HeapPool} : /\ mem[x][1] \in HeapNodes \cup {HeapPool, NULL}
                                              /\ mem[x][2] \in HeapNodes \cup {HeapPool, NULL}
      /\ mem[HeapPool][1] # NULL /\ mem[HeapPool][2] # NULL /\ v # NULL
  BY <1>1 DEF Typed, PoolTyped
<1>5. Same(mem, mem', Nodes \ (HeapNodes \cup {HeapPool}))
  BY <1>3 DEF Same
<1>6. \A x \in HeapNodes \cup {HeapPool} : /\ mem'[x][1] \in HeapNodes \cup {HeapPool, NULL}
                                           /\ mem'[x][2] \in HeapNodes \cup {HeapPool, NULL}
  BY <1>1, <1>3, <1>4
<1>7. mem'[HeapPool][1] # NULL /\ mem'[HeapPool][2] # NULL
  <2>1. HeapPool \in Nodes
    BY <1>1
  <2>2. mem'[HeapPool][1] \in {v, mem[HeapPool][1]} /\ mem'[HeapPool][2] \in {v, mem[HeapPool][2]}
    BY <1>3, <2>1
  <2> QED
    BY <1>4, <2>2
<1> QED
  BY <1>2, <1>5, <1>6, <1>7

\* A step of the pool keeps the types, whether sections have raced or not.
LEMMA TypedNext ==
  ASSUME Typed, ~broken, NEW t \in Threads, PoolStep(t)
  PROVE  Typed'
<1>. USE DEF Goto, pools, heaps
<1>1. TypeOK /\ PoolTyped /\ mem \in [Nodes -> Pairs(Nodes)]
      /\ local_heap[t] \in Heaps \cup {NoHeap, PoolHeap} /\ ptr[t] \in Nodes \cup {NULL}
      /\ pc \in [Threads -> {"idle", "acquire", "take", "init", "reset", "small", "collect",
                             "serve", "remote", "exit1", "exit2", "exit3", "exit4"}]
  BY DEF Typed, TypeOK, Pairs
<1>2. HeapNodes \cup {HeapPool} \subseteq Nodes /\ NULL \notin Nodes /\ NoHeap # PoolHeap
  BY HeapNodesApart, NodeSets DEF NoHeap, PoolHeap
<1>3. /\ \A x \in HeapNodes \cup {HeapPool} : /\ mem[x][1] \in HeapNodes \cup {HeapPool, NULL}
                                              /\ mem[x][2] \in HeapNodes \cup {HeapPool, NULL}
      /\ mem[HeapPool][1] # NULL /\ mem[HeapPool][2] # NULL
  BY <1>1 DEF PoolTyped
<1>4. /\ pc[t] \in InPool => ptr[t] \in HeapNodes \cup {HeapPool}
      /\ Exiting(t) => local_heap[t] \in Heaps
      /\ local_heap[t] = PoolHeap => pc[t] = "init"
  BY <1>1 DEF PoolTyped
<1>5. /\ pc = [pc EXCEPT ![t] = pc[t]]
      /\ ptr = [ptr EXCEPT ![t] = ptr[t]]
      /\ local_heap = [local_heap EXCEPT ![t] = local_heap[t]]
  BY <1>1 DEF TypeOK
<1>6. CASE \E c \in Classes : Malloc(t, c)
  <2>1. PICK c \in Classes : Malloc(t, c)
    BY <1>6
  <2>2. TypeOK'
    BY <1>1, <2>1 DEF TypeOK, Malloc
  <2>3. PICK l : l \in {"acquire", "small"} /\ pc' = [pc EXCEPT ![t] = l]
    BY <2>1 DEF Malloc
  <2>4. PoolTyped'
    <3>1. pc[t] = "idle" /\ ptr' = [ptr EXCEPT ![t] = ptr[t]] /\ mem' = mem
          /\ local_heap' = [local_heap EXCEPT ![t] = local_heap[t]]
      BY <1>5, <2>1 DEF Malloc
    <3>2. l \notin InPool /\ l \notin {"exit1", "exit2", "exit3", "exit4"}
      BY <2>3 DEF InPool
    <3>3. local_heap[t] # PoolHeap
      BY <1>4, <3>1
    <3> QED
      BY <1>3, <2>3, <3>1, <3>2, <3>3, PoolTypedKept
  <2> QED
    BY <2>2, <2>4 DEF Typed
<1>7. CASE Acquire(t) /\ FromList(heap_pool, HeapPool)
  <2>1. /\ pc' = [pc EXCEPT ![t] = "take"] /\ ptr' = [ptr EXCEPT ![t] = mem[HeapPool][2]]
        /\ pc[t] = "acquire" /\ raced' \in BOOLEAN
        /\ UNCHANGED <<mem, gpool, heap_pool, chunk, foreground, lock, local_heap, held, cls,
                       broken>>
    BY <1>1, <1>7 DEF Acquire, TypeOK
  <2>2. mem[HeapPool][2] \in HeapNodes \cup {HeapPool}
    BY <1>3
  <2>3. TypeOK'
    BY <1>1, <1>2, <2>1, <2>2 DEF TypeOK
  <2>4. PoolTyped'
    <3>1. local_heap' = [local_heap EXCEPT ![t] = local_heap[t]] /\ local_heap[t] # PoolHeap
      BY <1>4, <1>5, <2>1
    <3> QED
      BY <1>3, <2>1, <2>2, <3>1, PoolTypedKept
  <2> QED
    BY <2>3, <2>4 DEF Typed
<1>8. CASE Acquire(t) /\ ~FromList(heap_pool, HeapPool)
  <2>. DEFINE g == heap_pool.free_start
  <2>1. /\ pc' = [pc EXCEPT ![t] = "init"] /\ local_heap' = [local_heap EXCEPT ![t] = g]
        /\ heap_pool' = Advanced(heap_pool, LHEAP_UNIT) /\ g <= HEAPS
        /\ UNCHANGED <<mem, gpool, chunk, foreground, lock, held, cls, ptr, broken, raced>>
    BY <1>8 DEF Acquire
  <2>2. /\ g \in Heaps
        /\ heap_pool' \in [free_start : 1 .. HEAPS + 1, pool_end : Nat]
        /\ heap_pool'.free_start <= heap_pool'.pool_end + 1
    BY <1>1, <2>1, TrAssumption DEF TypeOK, Advanced, Fresh, Heaps
  <2>. HIDE DEF g
  <2>3. TypeOK'
    BY <1>1, <2>1, <2>2 DEF TypeOK
  <2>4. PoolTyped'
    <3>1. ptr' = [ptr EXCEPT ![t] = ptr[t]] /\ g # PoolHeap
      BY <1>5, <2>1, <2>2 DEF PoolHeap, Heaps
    <3> QED
      BY <1>3, <2>1, <3>1, PoolTypedKept DEF InPool
  <2> QED
    BY <2>3, <2>4 DEF Typed
<1>9. CASE Unlink(t)
  <2>. DEFINE n == ptr[t]
              h == IF n = HeapPool THEN PoolHeap ELSE n[2]
  <2>1. /\ pc[t] = "take" /\ n \in HeapNodes \cup {HeapPool}
        /\ pc' = [pc EXCEPT ![t] = "init"] /\ ptr' = [ptr EXCEPT ![t] = NULL]
        /\ local_heap' = [local_heap EXCEPT ![t] = h]
        /\ mem' = (IF Loose(mem, n) THEN mem ELSE list_del(mem, n))
        /\ broken' = Loose(mem, n)
        /\ UNCHANGED <<gpool, heap_pool, chunk, foreground, lock, held, cls, raced>>
    BY <1>4, <1>9 DEF Unlink, InPool
  <2>2. h \in Heaps \cup {NoHeap, PoolHeap}
    <3>1. n # HeapPool => n[2] \in Heaps
      BY <2>1, Kinds DEF HeapNodes
    <3> QED
      BY <3>1
  <2>3. /\ mem' \in [Nodes -> Pairs(Nodes)]
        /\ \A x \in HeapNodes \cup {HeapPool} : /\ mem'[x][1] \in HeapNodes \cup {HeapPool, NULL}
                                                /\ mem'[x][2] \in HeapNodes \cup {HeapPool, NULL}
        /\ mem'[HeapPool][1] # NULL /\ mem'[HeapPool][2] # NULL
    <3>1. CASE Loose(mem, n)
      BY <1>1, <1>3, <2>1, <3>1
    <3>2. CASE ~Loose(mem, n)
      <4>1. mem' = list_del(mem, n) /\ n \in Nodes
        BY <1>2, <2>1, <3>2
      <4>2. mem[n][1] \in HeapNodes \cup {HeapPool} /\ mem[n][2] \in HeapNodes \cup {HeapPool}
        BY <1>3, <2>1, <3>2 DEF Loose
      <4>. HIDE DEF n, h
      <4>3. list_del(mem, n) \in [Nodes -> Pairs(Nodes)]
            /\ \A x \in Nodes : list_del(mem, n)[x] = Unlinked(mem, n, x)
        BY <1>1, <4>1, DelWords
      <4>4. \A x \in Nodes : /\ mem'[x][1] = IF x = mem[n][2] THEN mem[n][1] ELSE mem[x][1]
                             /\ mem'[x][2] = IF x = mem[n][1] THEN mem[n][2] ELSE mem[x][2]
        BY <4>1, <4>3 DEF Unlinked
      <4> QED
        BY <1>2, <1>3, <4>1, <4>2, <4>3, <4>4
    <3> QED
      BY <3>1, <3>2
  <2>. HIDE DEF n, h
  <2>4. TypeOK'
    <3>1. broken' \in BOOLEAN
      BY <2>1 DEF Loose
    <3>2. local_heap' \in [Threads -> Heaps \cup {NoHeap, PoolHeap}]
      BY <1>1, <2>1, <2>2 DEF TypeOK
    <3> QED
      BY <1>1, <2>1, <2>3, <3>1, <3>2 DEF TypeOK, Pairs
  <2>5. PoolTyped'
    <3>1. "init" \notin InPool
      BY DEF InPool
    <3> QED
      BY <2>1, <2>3, <3>1, PoolTypedKept
  <2> QED
    BY <2>4, <2>5 DEF Typed
<1>10. CASE InitBegin(t)
  <2>1. /\ pc' = [pc EXCEPT ![t] = "reset"] /\ broken' = (local_heap[t] = PoolHeap)
        /\ raced' \in BOOLEAN
        /\ UNCHANGED <<mem, gpool, heap_pool, chunk, foreground, lock, local_heap, held, cls, ptr>>
    BY <1>1, <1>10 DEF InitBegin, TypeOK
  <2>2. TypeOK'
    BY <1>1, <2>1 DEF TypeOK
  <2>3. PoolTyped'
    <3>1. "reset" \notin InPool
      BY DEF InPool
    <3>2. ptr' = [ptr EXCEPT ![t] = ptr[t]]
          /\ local_heap' = [local_heap EXCEPT ![t] = local_heap[t]]
          /\ (local_heap[t] = PoolHeap => broken')
      BY <1>5, <2>1
    <3>3. /\ mem' = mem /\ (broken => broken') /\ pc' = [pc EXCEPT ![t] = "reset"]
          /\ "reset" \notin {"exit1", "exit2", "exit3", "exit4"}
      BY <2>1
    <3> QED
      BY ONLY Typed, <1>3, <3>1, <3>2, <3>3, PoolTypedKept
  <2> QED
    BY <2>2, <2>3 DEF Typed
<1>11. CASE InitLheap(t)
  <2>. DEFINE h == local_heap[t]
              heads == {Background(h, c) : c \in Classes} \cup {FreeList(h), Remote(h)}
  <2>1. /\ pc[t] = "reset" /\ pc' = [pc EXCEPT ![t] = "small"]
        /\ foreground' = [foreground EXCEPT ![h] = [c \in Classes |-> Dummy]]
        /\ lock' = [lock EXCEPT ![h] = NoOne]
        /\ mem' = [n \in Nodes |-> IF n \in heads THEN <<n, n>> ELSE mem[n]]
        /\ UNCHANGED <<gpool, heap_pool, chunk, local_heap, held, cls, ptr, broken, raced>>
    BY <1>11 DEF InitLheap
  <2>2. mem' \in [Nodes -> Pairs(Nodes)]
    BY <1>1, <2>1 DEF Pairs
  <2>3. Same(mem, mem', HeapNodes \cup {HeapPool})
    <3>1. \A n \in heads : n[1] \in {"background", "free_list", "remote_free"}
      BY Kinds
    <3>2. \A n \in HeapNodes \cup {HeapPool} : n[1] \in {"heap", "heap_pool"}
      BY Kinds DEF HeapNodes
    <3>3. \A n \in HeapNodes \cup {HeapPool} : n \notin heads /\ n \in Nodes
      BY <1>2, <3>1, <3>2
    <3>. HIDE DEF heads
    <3> QED
      BY <2>1, <3>3 DEF Same
  <2>. HIDE DEF heads
  <2>4. TypeOK'
    <3>1. foreground' \in [Heaps -> [Classes -> Chunks \cup {Dummy}]]
      BY <1>1, <2>1 DEF TypeOK
    <3>2. lock' \in [Heaps -> Threads \cup {NoOne}]
      BY <1>1, <2>1 DEF TypeOK
    <3> QED
      BY <1>1, <2>1, <2>2, <3>1, <3>2 DEF TypeOK, Pairs
  <2>5. PoolTyped'
    <3>1. "small" \notin InPool
      BY DEF InPool
    <3>2. ptr' = [ptr EXCEPT ![t] = ptr[t]]
          /\ local_heap' = [local_heap EXCEPT ![t] = h] /\ h # PoolHeap
      BY <1>4, <1>5, <2>1
    <3>3. /\ \A x \in HeapNodes \cup {HeapPool} : mem'[x] = mem[x]
          /\ (broken => broken') /\ pc' = [pc EXCEPT ![t] = "small"]
          /\ "small" \notin {"exit1", "exit2", "exit3", "exit4"}
      BY <2>1, <2>3 DEF Same
    <3>. HIDE DEF h
    <3> QED
      BY <1>3, <3>1, <3>2, <3>3, PoolTypedKept
  <2> QED
    BY <2>4, <2>5 DEF Typed
<1>12. CASE ExitBegin(t)
  <2>1. /\ pc[t] = "idle" /\ local_heap[t] # NoHeap
        /\ pc' = [pc EXCEPT ![t] = "exit1"] /\ ptr' = [ptr EXCEPT ![t] = mem[HeapPool][1]]
        /\ raced' \in BOOLEAN
        /\ UNCHANGED <<mem, gpool, heap_pool, chunk, foreground, lock, local_heap, held, cls,
                       broken>>
    BY <1>1, <1>12 DEF ExitBegin, TypeOK
  <2>2. mem[HeapPool][1] \in HeapNodes \cup {HeapPool} /\ local_heap[t] \in Heaps
    BY <1>1, <1>3, <1>4, <2>1
  <2>3. TypeOK'
    BY <1>1, <1>2, <2>1, <2>2 DEF TypeOK
  <2>4. PoolTyped'
    <3>1. local_heap' = [local_heap EXCEPT ![t] = local_heap[t]] /\ local_heap[t] # PoolHeap
      BY <1>4, <1>5, <2>1
    <3> QED
      BY <1>3, <2>1, <2>2, <3>1, PoolTypedKept
  <2> QED
    BY <2>3, <2>4 DEF Typed
<1>13. CASE Exit(t)
  <2>. DEFINE new == HeapNode(local_heap[t])
  <2>1. /\ Exiting(t) /\ local_heap[t] \in Heaps /\ ptr[t] \in HeapNodes \cup {HeapPool}
    BY <1>4, <1>13 DEF Exit, Exiting, InPool
  <2>2. new \in HeapNodes
    BY <2>1 DEF HeapNodes
  <2>. HIDE DEF new
  <2>3. PICK a \in HeapNodes \cup {HeapPool}, w \in {1, 2}, v \in HeapNodes \cup {HeapPool},
             l \in {"exit2", "exit3", "exit4", "idle"} :
          mem' = [mem EXCEPT ![a][w] = v] /\ pc' = [pc EXCEPT ![t] = l]
    <3>1. CASE pc[t] = "exit1"
      BY <1>13, <2>1, <2>2, <3>1 DEF Exit, new
    <3>2. CASE pc[t] = "exit2"
      BY <1>13, <2>1, <2>2, <3>2 DEF Exit, new
    <3>3. CASE pc[t] = "exit3"
      BY <1>13, <2>1, <2>2, <3>3 DEF Exit, new
    <3>4. CASE pc[t] = "exit4"
      BY <1>13, <2>1, <2>2, <3>4 DEF Exit, new
    <3> QED
      BY <2>1, <3>1, <3>2, <3>3, <3>4 DEF Exiting
  <2>4. PICK h, n : /\ local_heap' = [local_heap EXCEPT ![t] = h] /\ ptr' = [ptr EXCEPT ![t] = n]
                    /\ h \in {NoHeap, local_heap[t]} /\ n \in {NULL, ptr[t]}
                    /\ l # "idle" => h = local_heap[t] /\ n = ptr[t]
    <3>1. pc[t] = "exit4" => l = "idle"
      BY <1>1, <1>13, <2>3 DEF Exit
    <3>2. CASE pc[t] = "exit4"
      BY <1>13, <3>1, <3>2 DEF Exit
    <3>3. CASE pc[t] # "exit4"
      BY <1>5, <1>13, <3>3 DEF Exit
    <3> QED
      BY <3>2, <3>3
  <2>5. UNCHANGED <<gpool, heap_pool, chunk, foreground, lock, held, cls, broken, raced>>
    BY <1>13 DEF Exit
  <2>6. /\ mem' \in [Nodes -> Pairs(Nodes)]
        /\ \A x \in HeapNodes \cup {HeapPool} : /\ mem'[x][1] \in HeapNodes \cup {HeapPool, NULL}
                                                /\ mem'[x][2] \in HeapNodes \cup {HeapPool, NULL}
        /\ mem'[HeapPool][1] # NULL /\ mem'[HeapPool][2] # NULL
    BY <2>3, PoolWord
  <2>7. TypeOK'
    <3>1. local_heap' \in [Threads -> Heaps \cup {NoHeap, PoolHeap}]
      BY <1>1, <2>1, <2>4 DEF TypeOK
    <3>2. ptr' \in [Threads -> Nodes \cup {NULL}]
      BY <1>1, <1>2, <2>1, <2>4 DEF TypeOK
    <3> QED
      BY <1>1, <2>3, <2>5, <2>6, <3>1, <3>2 DEF TypeOK, Pairs
  <2>8. PoolTyped'
    <3>1. local_heap[t] # PoolHeap
      BY <2>1 DEF PoolHeap, Heaps
    <3>2. "idle" \notin InPool /\ "idle" \notin {"exit1", "exit2", "exit3", "exit4"}
      BY DEF InPool
    <3>3. h # PoolHeap
      BY <1>2, <2>4, <3>1
    <3>4. /\ l \in InPool => n \in HeapNodes \cup {HeapPool}
          /\ l \in {"exit1", "exit2", "exit3", "exit4"} => h \in Heaps
      BY <2>1, <2>4, <3>2
    <3> QED
      BY <2>3, <2>4, <2>5, <2>6, <3>3, <3>4, PoolTypedKept
  <2> QED
    BY <2>7, <2>8 DEF Typed
<1>14. CASE \E b \in held : Free(t, b)
  <2>1. PICK b \in held : Free(t, b)
    BY <1>14
  <2>2. /\ pc[t] = "idle" /\ pc' = [pc EXCEPT ![t] = "remote"] /\ ptr' = [ptr EXCEPT ![t] = b]
        /\ lock' = [lock EXCEPT ![chunk[b[2]].owner] = t] /\ raced' \in BOOLEAN
        /\ UNCHANGED <<mem, gpool, heap_pool, chunk, foreground, local_heap, held, cls, broken>>
    BY <1>1, <2>1 DEF Free, TypeOK
  <2>3. b \in Nodes
    BY <1>1 DEF TypeOK, Nodes
  <2>4. TypeOK'
    <3>1. lock' \in [Heaps -> Threads \cup {NoOne}]
      BY <1>1, <2>2 DEF TypeOK
    <3> QED
      BY <1>1, <2>2, <2>3, <3>1 DEF TypeOK
  <2>5. PoolTyped'
    <3>1. local_heap' = [local_heap EXCEPT ![t] = local_heap[t]] /\ local_heap[t] # PoolHeap
      BY <1>4, <1>5, <2>2
    <3>2. "remote" \notin InPool
      BY DEF InPool
    <3> QED
      BY <1>3, <2>2, <3>1, <3>2, PoolTypedKept
  <2> QED
    BY <2>4, <2>5 DEF Typed
<1> QED
  BY <1>6, <1>7, <1>8, <1>9, <1>10, <1>11, <1>12, <1>13, <1>14 DEF PoolStep
\* global_init establishes the invariant.
LEMMA InitOK == Init => Sound
<1>. SUFFICES ASSUME Init PROVE Sound
  OBVIOUS
<1>. DEFINE at == [x \in Items |-> NULL]
<1>1. mem \in [Nodes -> Pairs(Nodes)]
  BY DEF Init, Pairs
<1>2. RawChunk \in Headers /\ RawChunk.owner = NoHeap /\ RawChunk.state = "FORG"
      /\ RawChunk.blk_cnt = 0 /\ RawChunk.free_tot_cnt = 0 /\ RawChunk.free_mem_cnt = 0
  BY TrAssumption DEF RawChunk, Headers, NoHeap
<1>3. Typing
  <2>1. /\ chunk \in [Chunks -> Headers] /\ cls \in [Threads -> Classes]
    BY <1>2, TrAssumption DEF Init
  <2>2. /\ gpool \in [free_start : 1 .. CHUNKS + 1, pool_end : Nat]
        /\ heap_pool \in [free_start : 1 .. HEAPS + 1, pool_end : Nat]
        /\ gpool.free_start <= gpool.pool_end + 1 /\ heap_pool.free_start <= heap_pool.pool_end + 1
    BY TrAssumption DEF Init
  <2>3. /\ foreground \in [Heaps -> [Classes -> Chunks \cup {Dummy}]]
        /\ lock \in [Heaps -> Threads \cup {NoOne}]
        /\ local_heap \in [Threads -> Heaps \cup {NoHeap}]
        /\ pc \in [Threads -> {"idle", "acquire", "take", "init", "reset", "small", "collect",
                               "serve", "remote", "exit1", "exit2", "exit3", "exit4"}]
        /\ ptr \in [Threads -> Nodes \cup {NULL}]
        /\ broken \in BOOLEAN
    BY DEF Init
  <2> QED
    BY <2>1, <2>2, <2>3 DEF Typing
<1>4. HeapInv
  <2>1. BackNodes = {}
    BY DEF Init, BackNodes, GivenBack, Heaps
  <2>2. mem[HeapPool] = <<HeapPool, HeapPool>> /\ mem[GPool] = <<GPool, GPool>>
    BY HeapNodesApart DEF Init
  <2>3. PoolOK(mem, BackNodes)
    BY <2>1, <2>2 DEF PoolOK
  <2>4. NextLinks /\ LastLink /\ \A t \in Threads : Ending(t) /\ Taking(t)
    <3>1. \A t \in Threads : ~Exiting(t) /\ pc[t] # "take"
      BY DEF Init, Exiting
    <3> QED
      BY <2>3, <3>1, PoolRests
  <2>5. PoolTyped
    <3>1. \A x \in HeapNodes : mem[x] = <<NULL, NULL>>
      BY HeapNodesApart DEF Init
    <3>2. HeapPool # NULL
      BY HeapNodesApart, NodeSets
    <3>3. \A t \in Threads : pc[t] \notin InPool /\ ~Exiting(t) /\ local_heap[t] # PoolHeap
      BY DEF Init, InPool, Exiting, NoHeap, PoolHeap
    <3>4. \A x \in HeapNodes \cup {HeapPool} : /\ mem[x][1] \in {HeapPool, NULL}
                                            /\ mem[x][2] \in {HeapPool, NULL}
      BY <2>2, <3>1
    <3>5. mem[HeapPool][1] # NULL /\ mem[HeapPool][2] # NULL
      BY <2>2, <3>2
    <3> QED
      BY <3>3, <3>4, <3>5 DEF PoolTyped
  <2> QED
    BY <2>2, <2>4, <2>5 DEF Init, HeapInv, LocalHeaps
<1>5. PcInv /\ OwnerInv /\ FgInv
  BY <1>2 DEF Init, PcInv, PcOK, FreesApart, OwnerInv, FgInv, Chunks
<1>6. InUse = {} /\ Owned = {}
  BY <1>2 DEF Init, InUse, Owned, Heaps, NoHeap
<1>7. MemOK(mem, at, HeadsOf(InUse), Owned)
  BY <1>1, <1>6 DEF MemOK, HeadsOf
<1>8. ASSUME NEW k \in Chunks PROVE chunk[k] \in Headers /\ ChunkOK(chunk[k], at, k)
  <2>1. chunk[k] = RawChunk
    BY DEF Init
  <2>2. CountsOK(RawChunk, Cardinality(In(at, DHead(k))))
    BY <1>2 DEF CountsOK
  <2>3. at[ChunkNode(k)] = ListOf(RawChunk)
    BY <1>2 DEF ListOf, Items
  <2>4. BlocksOK(RawChunk, at, k)
    BY DEF BlocksOK, Items
  <2>5. ChunkOK(RawChunk, at, k)
    BY <2>2, <2>3, <2>4 DEF ChunkOK
  <2> QED
    BY <1>2, <2>1, <2>5
<1>9. ListsOK(at)
  <2>1. ChunksOK(chunk, at)
    BY <1>8 DEF ChunksOK
  <2>2. HeldOK(chunk, at, held)
    BY DEF HeldOK, Init
  <2> QED
    BY <1>7, <2>1, <2>2 DEF ListsOK
<1> QED
  BY <1>3, <1>4, <1>5, <1>9 DEF Sound

-----------------------------------------------------------------------------
(* The steps that touch no block *)

\* A step that writes no list, header or block.
LEMMA ListsKept ==
  ASSUME NEW at, ListsOK(at), UNCHANGED <<chunk, held>>, InUse' \subseteq InUse,
         mem' \in [Nodes -> Pairs(Nodes)], Same(mem, mem', Items \cup AllHeads \cup Ends)
  PROVE  ListsOK(at)'
<1>1. MemOK(mem', at, HeadsOf(InUse), Owned)
  BY InUseFacts, MemKept DEF ListsOK
<1>2. Owned' = Owned /\ HeadsOf(InUse') \subseteq HeadsOf(InUse)
  BY DEF Owned, HeadsOf
<1>3. MemOK(mem', at, HeadsOf(InUse'), Owned')
  BY <1>1, <1>2, Shrunk
<1> QED
  BY <1>3 DEF ListsOK

\* The type of memory follows from the lists.
LEMMA MemTyped == ASSUME NEW at, ListsOK(at) PROVE mem \in [Nodes -> Pairs(Nodes)]
  BY DEF ListsOK, MemOK

\* A heap that is not in use is left alone, and owned nothing before the step.
QuietStep ==
  \A h \in Heaps \ InUse' : /\ mem'[Remote(h)] = mem[Remote(h)]
                            /\ \A k \in Chunks : chunk[k].owner # h

\* check_init preserves the invariant.
LEMMA MallocOK ==
  ASSUME Sound, ~broken, NEW t \in Threads, NEW c \in Classes, Malloc(t, c)
  PROVE  Sound' /\ QuietStep
<1>. USE DEF Malloc, Goto, pools, heaps
<1>1. Typing'
  BY DEF Sound, Typing
<1>2. \A u \in Threads \ {t} : Aside(u)
  BY DEF Aside, Sound, Typing
<1>3. HeapInv'
  <2>1. Steady(t)
    BY DEF Steady, InPool, Sound, Typing
  <2>2. Same(mem, mem', Plain)
    BY DEF Same
  <2> QED
    BY <1>1, <1>2, <2>1, <2>2, OthersSteady, HeapKept DEF Sound, Typing
<1>4. PcInv'
  <2>1. PcOK(t)' /\ pc'[t] \notin {"remote", "reset"}
    BY DEF PcOK, Sound, Typing
  <2>2. Owned' = Owned
    BY DEF Owned
  <2> QED
    BY <1>2, <2>1, <2>2, PcKept DEF Sound
<1>5. OwnerInv' /\ FgInv'
  BY DEF Sound, OwnerInv, FgInv
<1>6. PICK at : ListsOK(at)
  BY DEF Sound
<1>7. InUse' \subseteq InUse
  BY DEF InUse, Sound, Typing
<1>8. mem' \in [Nodes -> Pairs(Nodes)] /\ Same(mem, mem', Items \cup AllHeads \cup Ends)
  BY <1>6, MemTyped DEF Same
<1>9. ListsOK(at)'
  BY <1>6, <1>7, <1>8, ListsKept
<1>10. QuietStep
  BY DEF QuietStep, InUse
<1> QED
  BY <1>10, <1>1, <1>3, <1>4, <1>5, <1>9 DEF Sound

\* small_malloc up to the collection preserves it.
LEMMA SmallOK ==
  ASSUME Sound, ~broken, NEW t \in Threads, Small(t)
  PROVE  Sound' /\ QuietStep
<1>. USE DEF Goto, pools, heaps
<1>0. PICK at : ListsOK(at)
  BY DEF Sound
<1>1. local_heap[t] \in Heaps /\ local_heap[t] # NoHeap
  BY DEF Sound, Typing, PcInv, PcOK, Small
<1>2. mem[Remote(local_heap[t])][2] \in Nodes \cup {NULL}
  <2>1. Remote(local_heap[t]) \in Nodes
    BY <1>1 DEF Nodes
  <2> QED
    BY <1>0, <2>1, MemTyped, Word
<1>. DEFINE A == FreeTot(foreground[local_heap[t]][cls[t]]) = 0
<1>3. /\ pc[t] = "small"
      /\ UNCHANGED <<mem, gpool, heap_pool, chunk, foreground, local_heap, held, cls, broken>>
      /\ \/ /\ lock[local_heap[t]] = NoOne
            /\ lock' = [lock EXCEPT ![local_heap[t]] = t]
            /\ ptr' = [ptr EXCEPT ![t] = mem[Remote(local_heap[t])][2]]
            /\ pc' = [pc EXCEPT ![t] = "collect"]
         \/ pc' = [pc EXCEPT ![t] = "serve"] /\ UNCHANGED <<lock, ptr>>
  BY DEF Small
<1>4. Typing'
  <2>1. Typing
    BY DEF Sound
  <2>2. lock' \in [Heaps -> Threads \cup {NoOne}]
    BY <1>1, <1>3, <2>1 DEF Typing
  <2>3. pc' \in [Threads -> {"idle", "acquire", "take", "init", "reset", "small", "collect",
                             "serve", "remote", "exit1", "exit2", "exit3", "exit4"}]
    BY <1>3, <2>1 DEF Typing
  <2>4. ptr' \in [Threads -> Nodes \cup {NULL}]
    BY <1>2, <1>3, <2>1 DEF Typing
  <2> QED
    BY <1>3, <2>1, <2>2, <2>3, <2>4 DEF Typing
<1>5. \A u \in Threads \ {t} : Aside(u)
  <2>1. ASSUME NEW u \in Threads, u # t, pc[u] = "collect"
        PROVE  lock'[local_heap[u]] = lock[local_heap[u]]
    <3>1. local_heap[u] # local_heap[t]
      BY <1>1, <2>1 DEF Sound, HeapInv, LocalHeaps
    <3>2. local_heap[u] \in Heaps
      BY <2>1 DEF Sound, Typing, PcInv, PcOK
    <3>3. lock \in [Heaps -> Threads \cup {NoOne}]
      BY DEF Sound, Typing
    <3> QED
      BY <1>3, <3>1, <3>2, <3>3
  <2>2. ASSUME NEW u \in Threads, u # t, pc[u] = "remote"
        PROVE  lock'[chunk[ptr[u][2]].owner] = lock[chunk[ptr[u][2]].owner]
    <3>1. /\ chunk[ptr[u][2]].owner \in Heaps /\ lock[chunk[ptr[u][2]].owner] # NoOne
          /\ lock \in [Heaps -> Threads \cup {NoOne}]
      BY <2>2, UnderWay, TrAssumption DEF Sound, Typing
    <3> QED
      BY <1>3, <3>1
  <2> QED
    BY <1>3, <2>1, <2>2 DEF Aside, Sound, Typing
<1>6. pc'[t] \in {"collect", "serve"}
  BY <1>3 DEF Sound, Typing
<1>7. HeapInv'
  <2>1. Steady(t)
    BY <1>3, <1>6 DEF Steady, InPool
  <2>2. Same(mem, mem', Plain)
    BY <1>3 DEF Same
  <2> QED
    BY <1>3, <1>4, <1>5, <2>1, <2>2, OthersSteady, HeapKept DEF Sound, Typing
<1>8. PcInv'
  <2>1. PcOK(t)'
    BY <1>1, <1>3 DEF PcOK, Sound, Typing, PcInv
  <2>2. Owned' = Owned
    BY <1>3 DEF Owned
  <2> QED
    BY <1>5, <1>6, <2>1, <2>2, PcKept DEF Sound
<1>9. OwnerInv' /\ FgInv'
  BY <1>3 DEF Sound, OwnerInv, FgInv
<1>10. InUse' \subseteq InUse
  BY <1>3 DEF InUse, Sound, Typing
<1>11. mem' \in [Nodes -> Pairs(Nodes)] /\ Same(mem, mem', Items \cup AllHeads \cup Ends)
  BY <1>0, <1>3, MemTyped DEF Same
<1>12. ListsOK(at)'
  BY <1>0, <1>3, <1>10, <1>11, ListsKept
<1>13. QuietStep
  BY <1>3 DEF QuietStep, InUse
<1> QED
  BY <1>13, <1>4, <1>7, <1>8, <1>9, <1>12 DEF Sound

\* Writing the nodes of the pool of heaps leaves the other lists alone.
LEMMA OutsidePool ==
  ASSUME NEW mm, Same(mem, mm, Nodes \ (HeapNodes \cup {HeapPool}))
  PROVE  /\ Same(mem, mm, Items \cup AllHeads \cup Ends)
         /\ \A h \in Heaps : mm[Remote(h)] = mem[Remote(h)]
         /\ mm[GPool] = mem[GPool]
<1>1. Items \cup AllHeads \cup Ends \subseteq Nodes
  BY ItemsAreNodes DEF Ends
<1>2. (Items \cup AllHeads \cup Ends) \cap (HeapNodes \cup {HeapPool}) = {}
  BY ItemsAreNodes, HeapNodesApart DEF Ends
<1>3. \A h \in Heaps : Remote(h) \in AllHeads
  BY DEF AllHeads, HeadsOf
<1>4. GPool \in Nodes \ (HeapNodes \cup {HeapPool})
  BY HeapNodesApart
<1> QED
  BY <1>1, <1>2, <1>3, <1>4 DEF Same


\* A step of thread t in the pool of heaps, which touches nothing else.
LEMMA PoolMoved ==
  ASSUME Sound, ~broken, NEW t \in Threads, NEW n, NEW h \in Heaps \cup {NoHeap},
         NEW l \in {"idle", "take", "init", "exit1", "exit2", "exit3", "exit4"},
         pc[t] \in {"idle", "acquire", "take", "exit1", "exit2", "exit3", "exit4"},
         pc' = [pc EXCEPT ![t] = l], ptr' = [ptr EXCEPT ![t] = n],
         local_heap' = [local_heap EXCEPT ![t] = h],
         UNCHANGED <<gpool, chunk, foreground, lock, held, cls, broken>>,
         l = "take" => h = NoHeap,
         l \in {"init", "exit1", "exit2", "exit3", "exit4"} => h # NoHeap,
         l # "init" => h \in {NoHeap, local_heap[t]},
         Same(mem, mem', Nodes \ (HeapNodes \cup {HeapPool})),
         Typed', NextLinks', LastLink', \A u \in Threads : Ending(u)' /\ Taking(u)', LocalHeaps'
  PROVE  Sound' /\ QuietStep
<1>0. PICK at : ListsOK(at)
  BY DEF Sound
<1>1. Typing /\ HeapInv /\ PcInv /\ OwnerInv /\ FgInv
  BY DEF Sound
<1>2. \A u \in Threads : /\ pc'[u] = IF u = t THEN l ELSE pc[u]
                         /\ ptr'[u] = IF u = t THEN n ELSE ptr[u]
                         /\ local_heap'[u] = IF u = t THEN h ELSE local_heap[u]
  BY <1>1 DEF Typing
<1>3. Typing'
  <2>1. local_heap' \in [Threads -> Heaps \cup {NoHeap}]
    BY <1>1 DEF Typing
  <2> QED
    BY <2>1 DEF Typed, TypeOK, Typing
<1>4. /\ Same(mem, mem', Items \cup AllHeads \cup Ends)
      /\ \A g \in Heaps : mem'[Remote(g)] = mem[Remote(g)]
      /\ mem'[GPool] = mem[GPool]
  BY OutsidePool
<1>5. \A u \in Threads \ {t} : Aside(u)
  <2>1. ASSUME NEW u \in Threads, u # t, pc[u] = "collect"
        PROVE  mem'[Remote(local_heap[u])][2] = mem[Remote(local_heap[u])][2]
    <3>1. local_heap[u] \in Heaps
      BY <1>1, <2>1 DEF Typing, PcInv, PcOK
    <3> QED
      BY <1>4, <3>1
  <2> QED
    BY <1>2, <2>1 DEF Aside
<1>6. HeapInv'
  BY <1>1, <1>4 DEF HeapInv, Typed
<1>7. PcInv'
  <2>1. PcOK(t)'
    BY <1>2 DEF PcOK
  <2>2. Owned' = Owned /\ pc'[t] \notin {"remote", "reset"}
    BY <1>2 DEF Owned
  <2> QED
    BY <1>1, <1>5, <2>1, <2>2, PcKept
<1>8. OwnerInv' /\ FgInv'
  BY <1>1 DEF OwnerInv, FgInv
<1>9. InUse' \subseteq InUse
  <2>1. ASSUME NEW g \in Heaps, NEW u \in Threads, local_heap'[u] = g,
               pc'[u] \notin {"init", "reset"}
        PROVE  local_heap[u] = g /\ pc[u] \notin {"init", "reset"}
    <3>1. g # NoHeap
      BY TrAssumption DEF Heaps, NoHeap
    <3> QED
      BY <1>2, <2>1, <3>1
  <2> QED
    BY <2>1 DEF InUse
<1>10. mem' \in [Nodes -> Pairs(Nodes)]
  BY DEF Typed, TypeOK, Pairs
<1>11. ListsOK(at)'
  BY <1>0, <1>4, <1>9, <1>10, ListsKept
<1>12. QuietStep
  BY <1>4 DEF QuietStep, InUse
<1> QED
  BY <1>3, <1>6, <1>7, <1>8, <1>11, <1>12 DEF Sound

\* The threads other than t that end, at one of the labels.
Others(t, labels) == {Own(u) : u \in {v \in Threads \ {t} : pc[v] \in labels}}

\* Thread t is one of those that end, or is not.
LEMMA EndersSplit ==
  ASSUME NEW t \in Threads, NEW labels
  PROVE  /\ Enders(labels) = Others(t, labels) \cup (IF pc[t] \in labels THEN {Own(t)} ELSE {})
         /\ (\A u \in Threads \ {t} : pc'[u] = pc[u] /\ local_heap'[u] = local_heap[u])
              => Enders(labels)' = Others(t, labels)
                                   \cup (IF pc'[t] \in labels THEN {HeapNode(local_heap'[t])}
                                         ELSE {})
  BY DEF Enders, Others, Own

\* The heap of a thread that is at no exit label is not in the pool, and not one that ends.
LEMMA OwnApart ==
  ASSUME Typing, HeapInv, NEW t \in Threads, local_heap[t] # NoHeap
  PROVE  /\ Own(t) \in HeapNodes /\ Own(t) \notin Linked
         /\ \A labels : Own(t) \notin Others(t, labels)
         /\ \A u \in Threads \ {t} : Own(u) # Own(t)
<1>1. local_heap[t] \in Heaps
  BY DEF Typing
<1>2. Own(t) \in HeapNodes
  BY <1>1 DEF Own, HeapNodes
<1>3. Own(t) \notin Linked
  BY <1>2, HeapNodesApart DEF Own, Linked, BackNodes, GivenBack
<1>4. \A u \in Threads \ {t} : Own(u) # Own(t)
  <2>1. \A u \in Threads \ {t} : local_heap[u] # local_heap[t]
    BY DEF HeapInv, LocalHeaps
  <2> QED
    BY <2>1, HeapNodesApart DEF Own
<1> QED
  BY <1>2, <1>3, <1>4 DEF Others

\* thread_exit reads the last node.
LEMMA ExitBeginOK ==
  ASSUME Sound, ~broken, NEW t \in Threads, ExitBegin(t), Typed', ~raced'
  PROVE  Sound' /\ QuietStep
<1>. USE DEF Goto, pools, heaps
<1>1. Typing /\ HeapInv
  BY DEF Sound
<1>2. /\ pc[t] = "idle" /\ local_heap[t] \in Heaps /\ local_heap[t] # NoHeap
      /\ ptr' = [ptr EXCEPT ![t] = mem[HeapPool][1]] /\ pc' = [pc EXCEPT ![t] = "exit1"]
      /\ local_heap' = [local_heap EXCEPT ![t] = local_heap[t]]
      /\ UNCHANGED <<mem, gpool, heap_pool, chunk, foreground, lock, local_heap, held, cls, broken>>
      /\ \A u \in Threads : pc[u] # "take"
  BY <1>1 DEF ExitBegin, Typing
<1>3. /\ Own(t) \notin Linked /\ Own(t) \in HeapNodes
      /\ \A labels : Own(t) \notin Others(t, labels)
  BY <1>1, <1>2, OwnApart
<1>4. \A u \in Threads : /\ pc'[u] = IF u = t THEN "exit1" ELSE pc[u]
                         /\ ptr'[u] = IF u = t THEN mem[HeapPool][1] ELSE ptr[u]
                         /\ local_heap'[u] = local_heap[u] /\ Own(u)' = Own(u)
  BY <1>1, <1>2 DEF Typing, Own
<1>5. BackNodes' = BackNodes /\ Linked' = Linked
  BY <1>2 DEF BackNodes, GivenBack, Linked
<1>6. \A labels \in SUBSET {"exit2", "exit3", "exit4"} :
        Enders(labels) = Others(t, labels) /\ Enders(labels)' = Others(t, labels)
  <2>1. ASSUME NEW labels \in SUBSET {"exit2", "exit3", "exit4"}
        PROVE  Enders(labels) = Others(t, labels) /\ Enders(labels)' = Others(t, labels)
    <3>1. pc[t] \notin labels /\ pc'[t] \notin labels
      BY <1>2, <1>4
    <3> QED
      BY <1>4, <3>1, EndersSplit
  <2> QED
    BY <2>1
<1>7. /\ Enders({"exit4"})' = Enders({"exit4"})
      /\ Enders({"exit3", "exit4"})' = Enders({"exit3", "exit4"})
      /\ Enders({"exit2", "exit3", "exit4"})' = Enders({"exit2", "exit3", "exit4"})
      /\ Own(t) \notin Enders({"exit3", "exit4"})
  BY <1>3, <1>6
<1>8. NextLinks' /\ LastLink'
  BY <1>1, <1>2, <1>4, <1>5, <1>7 DEF HeapInv, NextLinks, LastLink
<1>9. ASSUME NEW u \in Threads PROVE Ending(u)' /\ Taking(u)'
  <2>1. Taking(u)'
    BY <1>2, <1>4 DEF Taking
  <2>2. CASE u = t
    <3>1. mem[HeapPool][1] \in Linked \cup Enders({"exit3", "exit4"})
      BY <1>1 DEF HeapInv, LastLink
    <3> QED
      BY <1>2, <1>3, <1>4, <1>5, <1>7, <2>1, <2>2, <3>1 DEF Ending
  <2>3. CASE u # t
    <3>1. Ending(u)
      BY <1>1 DEF HeapInv
    <3> QED
      BY <1>2, <1>4, <1>5, <1>7, <2>1, <2>3, <3>1 DEF Ending, Exiting
  <2> QED
    BY <2>2, <2>3
<1>10. LocalHeaps' /\ Same(mem, mem', Nodes \ (HeapNodes \cup {HeapPool}))
  BY <1>1, <1>2 DEF HeapInv, LocalHeaps, Same
<1> QED
  BY <1>2, <1>8, <1>9, <1>10, PoolMoved

\* Thread t, which had no heap, gets heap h, which no thread has.
LEMMA HeapGiven ==
  ASSUME Typing, LocalHeaps, NEW t \in Threads, NEW h \in Heaps, local_heap[t] = NoHeap,
         \A u \in Threads : local_heap[u] # h,
         local_heap' = [local_heap EXCEPT ![t] = h],
         heap_pool' \in [free_start : 1 .. HEAPS + 1, pool_end : Nat],
         heap_pool.free_start <= heap_pool'.free_start, h < heap_pool'.free_start
  PROVE  LocalHeaps'
<1>1. \A u \in Threads : local_heap'[u] = IF u = t THEN h ELSE local_heap[u]
  BY DEF Typing
<1>2. ASSUME NEW u \in Threads, local_heap[u] # NoHeap PROVE local_heap[u] < heap_pool'.free_start
  <2>1. local_heap[u] \in Int /\ heap_pool.free_start \in Int /\ heap_pool'.free_start \in Int
    BY <1>2, TrAssumption DEF Typing, Heaps
  <2>2. local_heap[u] < heap_pool.free_start
    BY <1>2 DEF LocalHeaps
  <2> QED
    BY <2>1, <2>2
<1> QED
  BY <1>1, <1>2 DEF LocalHeaps

\* acquire_lheap under the pool's lock: it finds a first node, or takes a heap that was
\* never used.
LEMMA AcquireOK ==
  ASSUME Sound, ~broken, NEW t \in Threads, Acquire(t), Typed', ~raced'
  PROVE  Sound' /\ QuietStep
<1>. USE DEF Goto, pools, heaps
<1>0. PICK at : ListsOK(at)
  BY DEF Sound
<1>1. Typing /\ HeapInv /\ PcInv /\ mem \in [Nodes -> Pairs(Nodes)]
  BY <1>0, MemTyped DEF Sound
<1>2. /\ pc[t] = "acquire" /\ \A u \in Threads : pc[u] # "take"
      /\ UNCHANGED <<mem, gpool, chunk, foreground, lock, held, cls, broken>>
  BY DEF Acquire
<1>3. local_heap[t] = NoHeap
  BY <1>1, <1>2 DEF PcInv, PcOK
<1>4. Same(mem, mem', Nodes \ (HeapNodes \cup {HeapPool})) /\ Same(mem, mem', Plain)
  BY <1>2 DEF Same
<1>5. CASE FromList(heap_pool, HeapPool)
  <2>. DEFINE n == mem[HeapPool][2]
  <2>1. /\ ptr' = [ptr EXCEPT ![t] = n] /\ pc' = [pc EXCEPT ![t] = "take"]
        /\ UNCHANGED <<heap_pool, local_heap>>
        /\ \A u \in Threads : ~Exiting(u)
    BY <1>5 DEF Acquire
  <2>2. local_heap' = [local_heap EXCEPT ![t] = NoHeap]
    BY <1>1, <1>3, <2>1 DEF Typing
  <2>3. n # HeapPool
    <3>1. mem[HeapPool][2] = HeapPool => mem[HeapPool][1] = HeapPool
      BY <1>1, <2>1 DEF HeapInv, LastLink, Exiting
    <3>2. mem[HeapPool] = <<mem[HeapPool][1], mem[HeapPool][2]>>
      BY <1>1, HeapNodesApart, PairEqual
    <3>3. mem[HeapPool] # <<HeapPool, HeapPool>>
      BY <1>5 DEF FromList, list_empty
    <3> QED
      BY <3>1, <3>2, <3>3
  <2>4. \A u \in Threads : /\ pc'[u] = IF u = t THEN "take" ELSE pc[u]
                           /\ ptr'[u] = IF u = t THEN n ELSE ptr[u]
                           /\ Own(u)' = Own(u) /\ ~Exiting(u)'
    BY <1>1, <2>1 DEF Typing, Own, Exiting
  <2>5. BackNodes' = BackNodes /\ Linked' = Linked
    BY <2>1 DEF BackNodes, GivenBack, Linked
  <2>6. PoolOK(mem, BackNodes)
    BY <1>1, <2>1, PoolAtRest
  <2>. HIDE DEF n
  <2>7. \A labels \in SUBSET {"exit1", "exit2", "exit3", "exit4"} : Enders(labels)' = {}
    BY <2>4 DEF Enders, Exiting
  <2>8. Enders({"exit4"})' = {} /\ Enders({"exit3", "exit4"})' = {}
        /\ Enders({"exit2", "exit3", "exit4"})' = {}
    BY <2>7
  <2>9. NextLinks' /\ LastLink'
    BY <1>2, <2>4, <2>5, <2>6, <2>8 DEF NextLinks, LastLink, PoolOK, Linked, Exiting
  <2>10. \A u \in Threads : Ending(u)' /\ Taking(u)'
    BY <1>2, <2>3, <2>4 DEF Ending, Taking, n
  <2>11. LocalHeaps'
    BY <1>1, <2>1 DEF HeapInv, LocalHeaps
  <2> QED
    BY <1>2, <1>4, <2>1, <2>2, <2>9, <2>10, <2>11, PoolMoved
<1>6. CASE ~FromList(heap_pool, HeapPool)
  <2>. DEFINE g == heap_pool.free_start
  <2>1. /\ g <= HEAPS /\ heap_pool' = Advanced(heap_pool, LHEAP_UNIT)
        /\ local_heap' = [local_heap EXCEPT ![t] = g] /\ pc' = [pc EXCEPT ![t] = "init"]
        /\ UNCHANGED ptr
    BY <1>6 DEF Acquire
  <2>2. /\ g \in Heaps /\ heap_pool'.free_start = g + 1
        /\ heap_pool' \in [free_start : 1 .. HEAPS + 1, pool_end : Nat]
        /\ heap_pool.free_start <= heap_pool'.free_start /\ g < heap_pool'.free_start
    BY <1>1, <2>1, TrAssumption DEF Typing, Advanced, Fresh, Heaps
  <2>3. \A u \in Threads : local_heap[u] # g
    <3>1. g \in Int /\ g # NoHeap
      BY <2>2, TrAssumption DEF Heaps, NoHeap
    <3>2. ASSUME NEW u \in Threads, local_heap[u] = g PROVE g < g
      <4>1. local_heap[u] # NoHeap
        BY <3>1, <3>2
      <4> QED
        BY <1>1, <3>2, <4>1 DEF HeapInv, LocalHeaps
    <3>. HIDE DEF g
    <3> QED
      BY <3>1, <3>2
  <2>4. GivenBack' = GivenBack
    <3>1. \A h \in Heaps : h < g + 1 /\ h # g <=> h < g
      BY <2>2, TrAssumption DEF Heaps
    <3>2. \A x \in Threads : local_heap'[x] = IF x = t THEN g ELSE local_heap[x]
      BY <1>1, <2>1 DEF Typing
    <3>3. \A h \in Heaps : NoHeap # h
      BY TrAssumption DEF Heaps, NoHeap
    <3>4. GivenBack = {h \in Heaps : h < g /\ \A u \in Threads : local_heap[u] # h}
      BY DEF GivenBack
    <3>5. GivenBack' = {h \in Heaps : h < g + 1 /\ \A u \in Threads : local_heap'[u] # h}
      BY <2>2 DEF GivenBack
    <3>. HIDE DEF g
    <3> QED
      BY <1>3, <3>1, <3>2, <3>3, <3>4, <3>5
  <2>. HIDE DEF g
  <2>5. LocalHeaps'
    <3>1. LocalHeaps
      BY <1>1 DEF HeapInv
    <3> QED
      BY <1>1, <1>3, <2>1, <2>2, <2>3, <3>1, HeapGiven
  <2>6. NextLinks' /\ LastLink' /\ \A u \in Threads : Ending(u)' /\ Taking(u)'
    <3>1. ASSUME NEW u \in Threads
          PROVE  Steady(u) /\ (pc[u] \in InPool => local_heap'[u] = local_heap[u])
      BY <1>1, <1>2, <2>1 DEF Steady, InPool, Typing
    <3> QED
      BY <1>1, <1>4, <2>4, <3>1, PoolKept DEF BackNodes
  <2>7. ptr' = [ptr EXCEPT ![t] = ptr[t]] /\ g # NoHeap
    BY <1>1, <2>1, <2>2, TrAssumption DEF Typing, Heaps, NoHeap
  <2> QED
    BY <1>2, <1>4, <2>1, <2>2, <2>5, <2>6, <2>7, PoolMoved
<1> QED
  BY <1>5, <1>6

\* It takes the heap at the first node off the list; the heap is no thread's.
LEMMA UnlinkOK ==
  ASSUME Sound, ~broken, NEW t \in Threads, Unlink(t), Typed'
  PROVE  Sound' /\ QuietStep
<1>. USE DEF Goto, pools, heaps
<1>. DEFINE n == ptr[t]
<1>0. PICK at : ListsOK(at)
  BY DEF Sound
<1>1. Typing /\ HeapInv /\ PcInv /\ mem \in [Nodes -> Pairs(Nodes)]
  BY <1>0, MemTyped DEF Sound
<1>2. pc[t] = "take" /\ n = mem[HeapPool][2] /\ n # HeapPool
      /\ \A u \in Threads : ~Exiting(u) /\ (u # t => pc[u] # "take")
  <2>1. pc[t] = "take" /\ Taking(t)
    BY <1>1 DEF Unlink, HeapInv
  <2> QED
    BY <2>1 DEF Taking
<1>3. local_heap[t] = NoHeap
  BY <1>1, <1>2 DEF PcInv, PcOK
<1>4. PoolOK(mem, BackNodes) /\ BackNodes \in SUBSET HeapNodes
  BY <1>1, <1>2, PoolAtRest, PoolNodes
<1>5. /\ n \in BackNodes
      /\ PoolOK(list_del(mem, n), BackNodes \ {n})
      /\ Same(mem, list_del(mem, n), Nodes \ (HeapNodes \cup {HeapPool}))
  BY <1>1, <1>2, <1>4, PoolTaken
<1>6. ~Loose(mem, n)
  <2>1. mem[n][1] = HeapPool /\ mem[n][2] \in BackNodes \cup {HeapPool}
    BY <1>2, <1>4, <1>5 DEF PoolOK
  <2>2. HeapPool # NULL /\ \A x \in HeapNodes : x # NULL
    BY HeapNodesApart, NodeSets
  <2> QED
    BY <1>4, <2>1, <2>2 DEF Loose
<1>7. PICK g \in GivenBack : n = HeapNode(g)
  BY <1>5 DEF BackNodes
<1>8. g \in Heaps /\ g < heap_pool.free_start /\ g # NoHeap /\ \A u \in Threads : local_heap[u] # g
  BY TrAssumption DEF GivenBack, Heaps, NoHeap
<1>9. /\ mem' = list_del(mem, n) /\ local_heap' = [local_heap EXCEPT ![t] = g]
      /\ pc' = [pc EXCEPT ![t] = "init"] /\ ptr' = [ptr EXCEPT ![t] = NULL]
      /\ UNCHANGED <<gpool, heap_pool, chunk, foreground, lock, held, cls>>
  <2>1. n[2] = g
    BY <1>7, Kinds
  <2> QED
    BY <1>2, <1>6, <2>1 DEF Unlink
<1>10. UNCHANGED broken
  <2>1. broken' = FALSE
    <3>1. Loose(mem, n) = FALSE
      BY <1>6 DEF Loose
    <3>2. broken' = Loose(mem, n)
      BY DEF Unlink
    <3> QED
      BY <3>1, <3>2
  <2> QED
    BY <1>1, <2>1 DEF Typing
<1>11. GivenBack' = GivenBack \ {g}
  <2>1. \A u \in Threads : local_heap'[u] = IF u = t THEN g ELSE local_heap[u]
    BY <1>1, <1>9 DEF Typing
  <2>2. \A h \in Heaps : NoHeap # h
    BY TrAssumption DEF Heaps, NoHeap
  <2> QED
    BY <1>3, <1>8, <1>9, <2>1, <2>2 DEF GivenBack
<1>12. BackNodes' = BackNodes \ {n}
  BY <1>7, <1>11, HeapNodesApart DEF BackNodes
<1>. HIDE DEF n
<1>13. NextLinks' /\ LastLink' /\ \A u \in Threads : Ending(u)' /\ Taking(u)'
  <2>1. PoolOK(mem', BackNodes')
    BY <1>5, <1>9, <1>12
  <2>2. \A u \in Threads : ~Exiting(u)' /\ pc'[u] # "take"
    BY <1>1, <1>2, <1>9 DEF Exiting, Typing
  <2> QED
    BY <2>1, <2>2, PoolRestsNext
<1>14. LocalHeaps'
  <2>1. LocalHeaps
    BY <1>1 DEF HeapInv
  <2>2. /\ heap_pool' \in [free_start : 1 .. HEAPS + 1, pool_end : Nat]
        /\ heap_pool.free_start <= heap_pool'.free_start /\ g < heap_pool'.free_start
    BY <1>1, <1>8, <1>9 DEF Typing
  <2> QED
    BY <1>1, <1>3, <1>8, <1>9, <2>1, <2>2, HeapGiven
<1>15. Same(mem, mem', Nodes \ (HeapNodes \cup {HeapPool}))
  BY <1>5, <1>9
<1> QED
  BY <1>2, <1>8, <1>9, <1>10, <1>13, <1>14, <1>15, PoolMoved

\* Heap h owns no chunk.
Bare(h) == \A k \in Chunks : chunk[k].owner # h

\* Nothing is in the lists of a heap that owns no chunk.
LEMMA NothingThere ==
  ASSUME Typing, NEW at, ListsOK(at), NEW h \in Heaps, Bare(h), NEW H \in HeadsOf({h})
  PROVE  In(at, H) = {}
<1>1. H[2] = h /\ H[1] \in {"background", "free_list", "remote_free"} /\ H # NULL
  <2>1. H \in AllHeads
    BY DEF AllHeads, HeadsOf
  <2>2. H # NULL
    BY <2>1, ItemsAreNodes, NodeSets
  <2> QED
    BY <2>2, Kinds DEF HeadsOf
<1>2. \A k \in Chunks : chunk[k].owner # h
  BY DEF Bare
<1>3. ASSUME NEW k \in Chunks, at[ChunkNode(k)] = H PROVE FALSE
  <2>1. ListOf(chunk[k]) = H
    BY <1>3 DEF ListsOK, ChunksOK, ChunkOK
  <2>2. H[2] = chunk[k].owner
    BY <1>1, <2>1, Kinds DEF ListOf
  <2> QED
    BY <1>1, <1>2, <2>2
<1>4. ASSUME NEW b \in Blocks, at[b] = H PROVE FALSE
  <2>1. b[2] \in Chunks
    BY BlockKinds
  <2>2. H \in {DHead(b[2]), Remote(chunk[b[2]].owner)}
    BY <1>1, <1>4, <2>1 DEF ListsOK, ChunksOK, ChunkOK, BlocksOK
  <2>3. H = Remote(chunk[b[2]].owner)
    BY <1>1, <2>2, Kinds
  <2>4. H[2] = chunk[b[2]].owner
    BY <2>3, Kinds
  <2> QED
    BY <1>1, <1>2, <2>1, <2>4
<1> QED
  BY <1>3, <1>4 DEF In, Items


\* acquire_lheap begins to initialise a heap, into which nobody frees.
LEMMA InitBeginOK ==
  ASSUME Sound, ~broken, NEW t \in Threads, InitBegin(t), ~raced'
  PROVE  Sound' /\ QuietStep
<1>. USE DEF Goto, pools, heaps
<1>0. PICK at : ListsOK(at)
  BY DEF Sound
<1>1. Typing /\ HeapInv /\ PcInv /\ OwnerInv /\ FgInv
  BY DEF Sound
<1>2. /\ pc[t] = "init" /\ pc' = [pc EXCEPT ![t] = "reset"]
      /\ UNCHANGED <<mem, gpool, heap_pool, chunk, foreground, lock, local_heap, held, cls, ptr>>
      /\ \A u \in Threads : ~(pc[u] = "remote" /\ chunk[ptr[u][2]].owner = local_heap[t])
  BY DEF InitBegin
<1>3. local_heap[t] \in Heaps /\ local_heap[t] # NoHeap
  BY <1>1, <1>2 DEF PcInv, PcOK, Typing
<1>4. UNCHANGED broken
  <2>1. (local_heap[t] = PoolHeap) = FALSE
    BY <1>3 DEF PoolHeap, Heaps
  <2>2. broken' = (local_heap[t] = PoolHeap)
    BY DEF InitBegin
  <2> QED
    BY <1>1, <2>1, <2>2 DEF Typing
<1>5. Typing'
  BY <1>1, <1>2, <1>4 DEF Typing
<1>6. \A u \in Threads : pc'[u] = IF u = t THEN "reset" ELSE pc[u]
  BY <1>1, <1>2 DEF Typing
<1>7. \A u \in Threads \ {t} : Aside(u)
  BY <1>2, <1>6 DEF Aside
<1>8. HeapInv'
  <2>1. Steady(t) /\ Same(mem, mem', Plain)
    BY <1>2, <1>6 DEF Steady, InPool, Same
  <2> QED
    BY <1>1, <1>2, <1>5, <1>7, <2>1, OthersSteady, HeapKept DEF Typing
<1>9. PcInv'
  <2>1. Owned' = Owned
    BY <1>2 DEF Owned
  <2>2. \A u \in Threads \ {t} : PcOK(u)' /\ \A v \in Threads \ {t, u} : FreesApart(u, v)'
    BY <1>1, <1>7, <2>1, AsideKept
  <2>3. PcOK(t)'
    BY <1>2, <1>3, <1>6 DEF PcOK
  <2>4. \A u \in Threads \ {t} : FreesApart(t, u)' /\ FreesApart(u, t)'
    BY <1>2, <1>6 DEF FreesApart
  <2> QED
    BY <2>2, <2>3, <2>4 DEF PcInv
<1>10. OwnerInv' /\ FgInv'
  BY <1>1, <1>2 DEF OwnerInv, FgInv
<1>11. InUse' \subseteq InUse
  BY <1>2, <1>6 DEF InUse
<1>12. mem' \in [Nodes -> Pairs(Nodes)] /\ Same(mem, mem', Items \cup AllHeads \cup Ends)
  BY <1>0, <1>2, MemTyped DEF Same
<1>13. ListsOK(at)'
  BY <1>0, <1>2, <1>11, <1>12, ListsKept
<1>14. QuietStep
  BY <1>2 DEF QuietStep, InUse
<1> QED
  BY <1>5, <1>8, <1>9, <1>10, <1>13, <1>14 DEF Sound

\* acquire_lheap without the lock preserves the invariant, also for a heap that comes back
\* with chunks and waiting blocks.
LEMMA InitLheapOK ==
  ASSUME Sound, ~broken, NEW t \in Threads, InitLheap(t)
  PROVE  Sound' /\ QuietStep
<1>. USE DEF Goto, pools
<1>. DEFINE h == local_heap[t]
<1>0. PICK at : ListsOK(at)
  BY DEF Sound
<1>1. Typing /\ HeapInv /\ PcInv /\ OwnerInv /\ FgInv /\ mem \in [Nodes -> Pairs(Nodes)]
  BY <1>0, MemTyped DEF Sound
<1>2. /\ pc[t] = "reset" /\ pc' = [pc EXCEPT ![t] = "small"]
      /\ foreground' = [foreground EXCEPT ![h] = [c \in Classes |-> Dummy]]
      /\ lock' = [lock EXCEPT ![h] = NoOne]
      /\ UNCHANGED <<gpool, heap_pool, chunk, local_heap, held, cls, ptr, broken>>
  BY DEF InitLheap
<1>3. mem' = Reset(mem, h)
  <2>1. {Background(h, c) : c \in Classes} \cup {FreeList(h), Remote(h)} = HeadsOf({h})
    BY DEF HeadsOf
  <2> QED
    BY <2>1 DEF InitLheap, Reset
<1>4. h \in Heaps /\ h # NoHeap
  BY <1>1, <1>2 DEF PcInv, PcOK, Typing
<1>. HIDE DEF h
<1>5. /\ HeadsOf(InUse) \in SUBSET AllHeads /\ Owned \in SUBSET Chunks
      /\ (h \in InUse => HeadsOf({h}) \subseteq HeadsOf(InUse))
  BY InUseFacts
<1>6. \/ HeadsOf({h}) \subseteq HeadsOf(InUse)
      \/ \A H \in HeadsOf({h}) : In(at, H) = {}
  <2>1. h \notin InUse => Bare(h)
    BY <1>4 DEF InUse, Bare
  <2> QED
    BY <1>0, <1>1, <1>4, <1>5, <2>1, NothingThere
<1>7. /\ MemOK(mem', at, HeadsOf(InUse) \cup HeadsOf({h}), Owned)
      /\ Same(mem, mem', Nodes \ HeadsOf({h}))
  <2>1. MemOK(mem, at, HeadsOf(InUse), Owned)
    BY <1>0 DEF ListsOK
  <2> QED
    BY <1>3, <1>4, <1>5, <1>6, <2>1, MemReset
<1>8. InUse' = InUse \cup {h} /\ HeadsOf(InUse') = HeadsOf(InUse) \cup HeadsOf({h})
  <2>1. InUse' = InUse \cup {h}
    BY <1>1, <1>2, <1>4 DEF InUse, Typing, h
  <2> QED
    BY <2>1 DEF HeadsOf
<1>9. ListsOK(at)'
  <2>1. Owned' = Owned
    BY <1>2 DEF Owned
  <2> QED
    BY <1>0, <1>2, <1>7, <1>8, <2>1 DEF ListsOK
<1>10. Typing'
  BY <1>1, <1>2, <1>4 DEF Typing
<1>11. \A u \in Threads \ {t} : Aside(u)
  <2>1. ASSUME NEW u \in Threads, u # t, pc[u] = "collect"
        PROVE  /\ lock'[local_heap[u]] = lock[local_heap[u]]
               /\ mem'[Remote(local_heap[u])] = mem[Remote(local_heap[u])]
    <3>1. local_heap[u] \in Heaps /\ local_heap[u] # h
      BY <1>1, <1>4, <2>1 DEF Typing, HeapInv, LocalHeaps, PcInv, PcOK, h
    <3>2. Remote(local_heap[u]) \in Nodes /\ Remote(local_heap[u]) \notin HeadsOf({h})
      <4>1. Remote(local_heap[u]) \in Nodes
        BY <3>1 DEF Nodes
      <4>2. \A H \in HeadsOf({h}) : H[2] = h
        BY Kinds DEF HeadsOf
      <4>3. Remote(local_heap[u])[2] # h
        BY <3>1, Kinds
      <4> QED
        BY <4>1, <4>2, <4>3
    <3>3. mem'[Remote(local_heap[u])] = mem[Remote(local_heap[u])]
      BY <1>7, <3>2 DEF Same
    <3>4. lock \in [Heaps -> Threads \cup {NoOne}]
      BY <1>1 DEF Typing
    <3> QED
      BY <1>2, <3>1, <3>3, <3>4
  <2>2. ASSUME NEW u \in Threads, u # t, pc[u] = "remote"
        PROVE  lock'[chunk[ptr[u][2]].owner] = lock[chunk[ptr[u][2]].owner]
    <3>1. chunk[ptr[u][2]].owner # h
      BY <1>1, <1>2, <2>2 DEF PcInv, FreesApart, h
    <3>2. lock \in [Heaps -> Threads \cup {NoOne}] /\ chunk[ptr[u][2]].owner \in Heaps
      BY <1>1, <2>2, UnderWay DEF Typing
    <3> QED
      BY <1>2, <3>1, <3>2
  <2> QED
    BY <1>1, <1>2, <2>1, <2>2 DEF Aside, Typing
<1>12. HeapInv'
  <2>1. Steady(t)
    BY <1>1, <1>2 DEF Steady, InPool, Typing
  <2>2. Same(mem, mem', Plain)
    <3>1. HeadsOf({h}) \subseteq AllHeads
      BY <1>4 DEF HeadsOf, AllHeads
    <3> QED
      BY <1>7, <3>1, ItemsAreNodes DEF Same
  <2> QED
    BY <1>1, <1>2, <1>10, <1>11, <2>1, <2>2, OthersSteady, HeapKept DEF Typing
<1>13. PcInv'
  <2>1. PcOK(t)' /\ pc'[t] \notin {"remote", "reset"}
    BY <1>1, <1>2, <1>4 DEF PcOK, Typing, h
  <2>2. Owned' = Owned
    BY <1>2 DEF Owned
  <2> QED
    BY <1>1, <1>11, <2>1, <2>2, PcKept
<1>14. OwnerInv' /\ FgInv'
  BY <1>1, <1>2, <1>4 DEF OwnerInv, FgInv, Typing
<1>15. QuietStep
  <2>1. \A g \in Heaps : g # h => Remote(g) \in Nodes \ HeadsOf({h})
    <3>1. \A H \in HeadsOf({h}) : H[2] = h
      BY Kinds DEF HeadsOf
    <3>2. \A g \in Heaps : Remote(g) \in Nodes /\ Remote(g)[2] = g
      BY Kinds DEF Nodes
    <3> QED
      BY <3>1, <3>2
  <2> QED
    BY <1>2, <1>7, <1>8, <2>1 DEF QuietStep, InUse, Same
<1> QED
  BY <1>15, <1>9, <1>10, <1>12, <1>13, <1>14 DEF Sound


\* What the four writes of thread_exit have in common.
LEMMA ExitFacts ==
  ASSUME Sound, NEW t \in Threads, Exit(t)
  PROVE  /\ Typing /\ HeapInv /\ mem \in [Nodes -> Pairs(Nodes)]
         /\ Exiting(t) /\ local_heap[t] \in Heaps /\ local_heap[t] # NoHeap
         /\ Own(t) \in HeapNodes /\ Own(t) \notin Linked /\ Own(t) \in Nodes
         /\ ptr[t] \in Linked \cup Enders({"exit3", "exit4"}) /\ ptr[t] # Own(t)
         /\ ptr[t] \in HeapNodes \cup {HeapPool}
         /\ \A u \in Threads : pc[u] # "take"
         /\ \A u \in Threads \ {t} : /\ pc'[u] = pc[u] /\ ptr'[u] = ptr[u]
                                     /\ Own(u)' = Own(u) /\ Own(u) # Own(t)
         /\ UNCHANGED <<gpool, heap_pool, chunk, foreground, lock, held, cls, broken>>
<1>0. PICK at : ListsOK(at)
  BY DEF Sound
<1>1. Typing /\ HeapInv /\ mem \in [Nodes -> Pairs(Nodes)]
  BY <1>0, MemTyped DEF Sound
<1>2. Exiting(t)
  BY DEF Exit, Exiting
<1>3. local_heap[t] \in Heaps /\ local_heap[t] # NoHeap
  BY <1>1, <1>2, TrAssumption DEF HeapInv, PoolTyped, Heaps, NoHeap
<1>4. /\ Own(t) \in HeapNodes /\ Own(t) \notin Linked /\ Own(t) \in Nodes
      /\ \A u \in Threads \ {t} : Own(u) # Own(t)
  BY <1>1, <1>3, OwnApart, HeapNodesApart
<1>5. ptr[t] \in Linked \cup Enders({"exit3", "exit4"}) /\ ptr[t] # Own(t)
  BY <1>1, <1>2 DEF HeapInv, Ending
<1>6. ptr[t] \in HeapNodes \cup {HeapPool}
  BY <1>1, <1>2 DEF HeapInv, PoolTyped, Exiting, InPool
<1>7. \A u \in Threads : pc[u] # "take"
  BY <1>1, <1>2 DEF HeapInv, Taking
<1>8. \A u \in Threads \ {t} : /\ pc'[u] = pc[u] /\ ptr'[u] = ptr[u]
                               /\ local_heap'[u] = local_heap[u]
  <2>1. PICK l : pc' = [pc EXCEPT ![t] = l]
    BY DEF Exit, Goto
  <2>2. PICK n, h : ptr' = [ptr EXCEPT ![t] = n] /\ local_heap' = [local_heap EXCEPT ![t] = h]
    <3>1. /\ ptr = [ptr EXCEPT ![t] = ptr[t]]
          /\ local_heap = [local_heap EXCEPT ![t] = local_heap[t]]
      BY <1>1 DEF Typing
    <3>2. CASE pc[t] = "exit4"
      BY <3>2 DEF Exit
    <3>3. CASE pc[t] # "exit4"
      BY <3>1, <3>3 DEF Exit
    <3> QED
      BY <3>2, <3>3
  <2> QED
    BY <1>1, <2>1, <2>2 DEF Typing
<1>9. UNCHANGED <<gpool, heap_pool, chunk, foreground, lock, held, cls, broken>>
  BY DEF Exit, pools, heaps
<1> QED
  BY <1>1, <1>2, <1>3, <1>4, <1>5, <1>6, <1>7, <1>8, <1>9 DEF Own

\* The threads that end, before and after a write of thread t.
LEMMA ExitEnders ==
  ASSUME Sound, NEW t \in Threads, Exit(t),
         NEW labels \in {{"exit4"}, {"exit3", "exit4"}, {"exit2", "exit3", "exit4"}}
  PROVE  /\ Enders(labels) \subseteq HeapNodes /\ Enders(labels) \subseteq Nodes
         /\ Enders(labels) = Others(t, labels) \cup (IF pc[t] \in labels THEN {Own(t)} ELSE {})
         /\ Enders(labels)' = Others(t, labels) \cup (IF pc'[t] \in labels THEN {Own(t)'} ELSE {})
         /\ Own(t) \notin Others(t, labels)
         /\ \A u \in Threads : u # t /\ pc[u] \in {"exit1", "exit2", "exit3", "exit4"} \ labels =>
              Own(u) \notin Enders(labels)
<1>1. /\ Typing /\ HeapInv /\ local_heap[t] # NoHeap
      /\ \A u \in Threads \ {t} : pc'[u] = pc[u] /\ Own(u)' = Own(u)
  BY ExitFacts
<1>2. labels \in SUBSET {"exit1", "exit2", "exit3", "exit4"}
  OBVIOUS
<1>3. Enders(labels) \subseteq HeapNodes /\ HeapNodes \subseteq Nodes
  BY <1>1, <1>2, PoolNodes, HeapNodesApart
<1>4. Own(t) \notin Others(t, labels)
  BY <1>1, OwnApart
<1>5. Enders(labels) = Others(t, labels) \cup (IF pc[t] \in labels THEN {Own(t)} ELSE {})
  BY EndersSplit
<1>6. Enders(labels)' = Others(t, labels) \cup (IF pc'[t] \in labels THEN {Own(t)'} ELSE {})
  BY <1>1 DEF Enders, Others
<1>7. ASSUME NEW u \in Threads, u # t, pc[u] \in {"exit1", "exit2", "exit3", "exit4"} \ labels,
             Own(u) \in Enders(labels)
      PROVE  FALSE
  <2>1. PICK v \in Threads : pc[v] \in labels /\ Own(u) = Own(v)
    BY <1>7 DEF Enders
  <2>2. u # v /\ Exiting(u)
    BY <1>7, <2>1 DEF Exiting
  <2> QED
    BY <1>1, <2>1, <2>2, PoolNodes
<1> QED
  BY <1>3, <1>4, <1>5, <1>6, <1>7

\* Nobody is taking a heap after a write of thread_exit either.
LEMMA NoTaking ==
  ASSUME Sound, NEW t \in Threads, Exit(t), pc'[t] # "take"
  PROVE  \A u \in Threads : Taking(u)'
<1>1. \A u \in Threads : pc'[u] # "take"
  BY ExitFacts
<1> QED
  BY <1>1 DEF Taking

\* The first three writes, once the list of the pool is known to be sound.
LEMMA ExitGoesOn ==
  ASSUME Sound, ~broken, NEW t \in Threads, NEW l \in {"exit2", "exit3", "exit4"}, Exit(t),
         pc[t] \in {"exit1", "exit2", "exit3"}, pc' = [pc EXCEPT ![t] = l],
         NEW a \in HeapNodes \cup {HeapPool}, NEW w \in {1, 2}, NEW v \in HeapNodes \cup {HeapPool},
         mem' = [mem EXCEPT ![a][w] = v], Typed, Typed',
         NextLinks', LastLink', \A u \in Threads : Ending(u)'
  PROVE  Sound' /\ QuietStep
<1>1. /\ Typing /\ HeapInv /\ local_heap[t] \in Heaps /\ local_heap[t] # NoHeap
      /\ UNCHANGED <<gpool, heap_pool, chunk, foreground, lock, held, cls, broken>>
  BY ExitFacts
<1>2. UNCHANGED <<local_heap, ptr>>
  BY DEF Exit
<1>3. \A u \in Threads : Taking(u)'
  <2>1. pc'[t] # "take"
    BY <1>1 DEF Typing
  <2> QED
    BY <2>1, NoTaking
<1>4. Same(mem, mem', Nodes \ (HeapNodes \cup {HeapPool}))
  BY PoolWord
<1>5. LocalHeaps'
  BY <1>1, <1>2 DEF HeapInv, LocalHeaps
<1>6. /\ local_heap' = [local_heap EXCEPT ![t] = local_heap[t]]
      /\ ptr' = [ptr EXCEPT ![t] = ptr[t]]
  BY <1>1, <1>2 DEF Typing
<1> QED
  BY <1>1, <1>3, <1>4, <1>5, <1>6, PoolMoved

\* The previous node of a node is written, ...
LEMMA PrevWritten ==
  ASSUME Typed, NEW a \in HeapNodes \cup {HeapPool}, NEW v \in HeapNodes \cup {HeapPool},
         mem' = [mem EXCEPT ![a][1] = v]
  PROVE  /\ \A x \in Nodes : mem'[x][2] = mem[x][2] /\ (x # a => mem'[x] = mem[x])
         /\ mem'[a][1] = v
<1>1. mem' = SetFirst(mem, a, v)
  BY DEF SetFirst
<1>2. \A x \in Nodes : mem'[x] = IF x = a THEN <<v, mem[x][2]>> ELSE mem[x]
  <2>1. mem \in [Nodes -> Pairs(Nodes)] /\ v \in Nodes \cup {NULL}
    BY HeapNodesApart DEF Typed, TypeOK, Pairs
  <2> QED
    BY <1>1, <2>1, SetWord
<1>3. ASSUME NEW x \in Nodes PROVE mem'[x][2] = mem[x][2] /\ (x # a => mem'[x] = mem[x])
  <2>1. CASE x = a
    <3>1. mem'[x] = <<v, mem[x][2]>>
      BY <1>2, <2>1
    <3> QED
      BY <2>1, <3>1
  <2>2. CASE x # a
    BY <1>2, <2>2
  <2> QED
    BY <2>1, <2>2
<1>4. mem'[a] = <<v, mem[a][2]>>
  BY <1>2, HeapNodesApart
<1> QED
  BY <1>3, <1>4

\* ... or the next one.
LEMMA NextWritten ==
  ASSUME Typed, NEW a \in HeapNodes \cup {HeapPool}, NEW v \in HeapNodes \cup {HeapPool},
         mem' = [mem EXCEPT ![a][2] = v]
  PROVE  /\ \A x \in Nodes : mem'[x][1] = mem[x][1] /\ (x # a => mem'[x] = mem[x])
         /\ mem'[a][2] = v
<1>1. mem' = SetSecond(mem, a, v)
  BY DEF SetSecond
<1>2. \A x \in Nodes : mem'[x] = IF x = a THEN <<mem[x][1], v>> ELSE mem[x]
  <2>1. mem \in [Nodes -> Pairs(Nodes)] /\ v \in Nodes \cup {NULL}
    BY HeapNodesApart DEF Typed, TypeOK, Pairs
  <2> QED
    BY <1>1, <2>1, SetWord
<1>3. ASSUME NEW x \in Nodes PROVE mem'[x][1] = mem[x][1] /\ (x # a => mem'[x] = mem[x])
  <2>1. CASE x = a
    <3>1. mem'[x] = <<mem[x][1], v>>
      BY <1>2, <2>1
    <3> QED
      BY <2>1, <3>1
  <2>2. CASE x # a
    BY <1>2, <2>2
  <2> QED
    BY <2>1, <2>2
<1>4. mem'[a] = <<mem[a][1], v>>
  BY <1>2, HeapNodesApart
<1> QED
  BY <1>3, <1>4

\* The node's next: nothing leads to the node yet.
LEMMA ExitFirst ==
  ASSUME Sound, ~broken, NEW t \in Threads, Exit(t), pc[t] = "exit1", Typed, Typed'
  PROVE  Sound' /\ QuietStep
<1>. DEFINE o  == Own(t)
            E2 == Enders({"exit2", "exit3", "exit4"})
            E3 == Enders({"exit3", "exit4"})
            E4 == Enders({"exit4"})
<1>1. /\ mem' = [mem EXCEPT ![o][2] = HeapPool] /\ pc' = [pc EXCEPT ![t] = "exit2"]
      /\ UNCHANGED <<local_heap, ptr>>
  BY DEF Exit, Goto, Own
<1>2. pc'[t] = "exit2" /\ Own(t)' = o
  BY <1>1, ExitFacts DEF Typing, Own
<1>3. /\ HeapNodes \cup {HeapPool} \subseteq Nodes /\ HeapPool \notin HeapNodes /\ HeapPool # o
      /\ o \in HeapNodes /\ o \notin Linked /\ HeapPool \in Linked /\ HeapPool \notin BackNodes
      /\ BackNodes' = BackNodes /\ Linked' = Linked /\ Linked \subseteq HeapNodes \cup {HeapPool}
  BY <1>1, HeapNodesApart, ExitFacts, PoolNodes DEF BackNodes, GivenBack, Linked
<1>. HIDE DEF o
<1>4. /\ \A x \in Nodes : mem'[x][1] = mem[x][1] /\ (x # o => mem'[x] = mem[x])
      /\ mem'[o][2] = HeapPool /\ o \in Nodes
  BY <1>1, <1>3, NextWritten
<1>5. /\ E4' = E4 /\ E3' = E3 /\ E2' = E2 \cup {o}
      /\ o \notin E4 /\ o \notin E3 /\ o \notin E2
      /\ E4 \subseteq HeapNodes /\ E3 \subseteq HeapNodes /\ E2 \subseteq HeapNodes
  <2>1. E4' = E4 /\ o \notin E4 /\ E4 \subseteq HeapNodes
    BY <1>2, ExitEnders DEF o
  <2>2. E3' = E3 /\ o \notin E3 /\ E3 \subseteq HeapNodes
    BY <1>2, ExitEnders DEF o
  <2>3. E2' = E2 \cup {o} /\ o \notin E2 /\ E2 \subseteq HeapNodes
    BY <1>2, ExitEnders DEF o
  <2> QED
    BY <2>1, <2>2, <2>3
<1>6. /\ NextLinks /\ LastLink /\ \A u \in Threads : Ending(u)
      /\ \A u \in Threads \ {t} : /\ pc'[u] = pc[u] /\ ptr'[u] = ptr[u] /\ Own(u)' = Own(u)
                                  /\ Own(u) # o
      /\ \A u \in Threads : Exiting(u) => Own(u) \in HeapNodes
  BY ExitFacts, PoolNodes DEF HeapInv, o
<1>7. NextLinks'
  <2>1. ASSUME NEW x \in Linked \cup E2
        PROVE  /\ mem'[x][2] \in Linked \cup E4
               /\ mem'[x][2] \in BackNodes => mem'[mem'[x][2]][1] = x
               /\ \A u \in Threads : pc'[u] = "exit4" /\ mem'[x][2] = Own(u)' => ptr'[u] = x
    <3>1. x # o /\ x \in Nodes /\ mem'[x] = mem[x]
      BY <1>3, <1>4, <1>5
    <3>2. /\ mem[x][2] \in Linked \cup E4
          /\ mem[x][2] \in BackNodes => mem[mem[x][2]][1] = x
          /\ \A u \in Threads : pc[u] = "exit4" /\ mem[x][2] = Own(u) => ptr[u] = x
      BY <1>6 DEF NextLinks
    <3>3. \A y \in BackNodes : mem'[y][1] = mem[y][1]
      BY <1>3, <1>4 DEF Linked
    <3>4. \A u \in Threads : pc'[u] = "exit4" => u # t
      BY <1>2
    <3> QED
      BY <1>6, <3>1, <3>2, <3>3, <3>4
  <2>2. /\ mem'[o][2] = HeapPool
        /\ \A u \in Threads : pc'[u] = "exit4" => Own(u)' # HeapPool
    <3>1. \A u \in Threads : pc'[u] = "exit4" => u # t
      BY <1>2
    <3> QED
      BY <1>3, <1>4, <1>6, <3>1 DEF Exiting
  <2> QED
    BY <1>3, <1>5, <2>1, <2>2 DEF NextLinks
<1>8. \A x \in Linked \cup E3 : x \in Nodes /\ mem'[x] = mem[x]
  BY <1>3, <1>4, <1>5
<1>9. LastLink'
  <2>1. mem'[HeapPool] = mem[HeapPool]
    BY <1>3, <1>8
  <2>2. \A u \in Threads : pc[u] = "exit3" => pc'[u] = "exit3" /\ ptr'[u] = ptr[u]
    BY <1>6
  <2> QED
    BY <1>3, <1>5, <1>6, <1>8, <2>1, <2>2 DEF LastLink
<1>10. ASSUME NEW u \in Threads PROVE Ending(u)'
  <2>1. Ending(u) /\ mem'[HeapPool] = mem[HeapPool]
    BY <1>3, <1>6, <1>8
  <2>2. CASE u = t
    <3>1. /\ ptr[t] \in Linked \cup E3 /\ ptr[t] # o
          /\ (mem[HeapPool][1] = HeapPool => ptr[t] = HeapPool)
      BY <2>1, <2>2, ExitFacts DEF Ending, o
    <3> QED
      BY <1>1, <1>2, <1>3, <1>4, <1>5, <2>1, <2>2, <3>1 DEF Ending
  <2>3. CASE u # t
    <3>1. /\ pc'[u] = pc[u] /\ ptr'[u] = ptr[u] /\ Own(u)' = Own(u) /\ Own(u) # o
          /\ Exiting(u)' = Exiting(u)
      BY <1>6, <2>3 DEF Exiting
    <3>2. Exiting(u) => mem'[Own(u)] = mem[Own(u)]
      BY <1>3, <1>4, <1>6, <3>1
    <3> QED
      BY <1>3, <1>5, <2>1, <3>1, <3>2 DEF Ending
  <2> QED
    BY <2>2, <2>3
<1> QED
  <2>1. PICK w \in {1, 2} : mem' = [mem EXCEPT ![o][w] = HeapPool]
    BY <1>1
  <2> QED
    BY <1>1, <1>3, <1>7, <1>9, <1>10, <2>1, ExitGoesOn

\* The pool's prev: the node is the last one.
LEMMA ExitSecond ==
  ASSUME Sound, ~broken, NEW t \in Threads, Exit(t), pc[t] = "exit2", Typed, Typed'
  PROVE  Sound' /\ QuietStep
<1>. DEFINE o  == Own(t)
            E2 == Enders({"exit2", "exit3", "exit4"})
            E3 == Enders({"exit3", "exit4"})
            E4 == Enders({"exit4"})
<1>1. /\ mem' = [mem EXCEPT ![HeapPool][1] = o] /\ pc' = [pc EXCEPT ![t] = "exit3"]
      /\ UNCHANGED <<local_heap, ptr>>
  BY DEF Exit, Goto, Own
<1>2. pc'[t] = "exit3" /\ Own(t)' = o
  BY <1>1, ExitFacts DEF Typing, Own
<1>3. /\ HeapNodes \cup {HeapPool} \subseteq Nodes /\ HeapPool \notin HeapNodes /\ HeapPool # o
      /\ o \in HeapNodes /\ o \notin Linked /\ HeapPool \in Linked /\ HeapPool \notin BackNodes
      /\ BackNodes' = BackNodes /\ Linked' = Linked /\ Linked \subseteq HeapNodes \cup {HeapPool}
  BY <1>1, HeapNodesApart, ExitFacts, PoolNodes DEF BackNodes, GivenBack, Linked
<1>. HIDE DEF o
<1>5. /\ E4' = E4 /\ E3' = E3 \cup {o} /\ E2' = E2
      /\ o \notin E4 /\ o \notin E3 /\ o \in E2
      /\ E4 \subseteq HeapNodes /\ E3 \subseteq HeapNodes /\ E2 \subseteq HeapNodes
  <2>1. E4' = E4 /\ o \notin E4 /\ E4 \subseteq HeapNodes
    BY <1>2, ExitEnders DEF o
  <2>2. E3' = E3 \cup {o} /\ o \notin E3 /\ E3 \subseteq HeapNodes
    BY <1>2, ExitEnders DEF o
  <2>3. E2' = E2 /\ o \in E2 /\ E2 \subseteq HeapNodes
    <3>1. pc[t] \in {"exit2", "exit3", "exit4"} /\ pc'[t] \in {"exit2", "exit3", "exit4"}
      BY <1>2
    <3>2. E2 = Others(t, {"exit2", "exit3", "exit4"}) \cup {o}
      BY <3>1, ExitEnders DEF o
    <3>3. E2' = Others(t, {"exit2", "exit3", "exit4"}) \cup {o}
      BY <1>2, <3>1, ExitEnders
    <3>4. E2 \subseteq HeapNodes
      BY ExitEnders
    <3> QED
      BY <3>2, <3>3, <3>4
  <2> QED
    BY <2>1, <2>2, <2>3
<1>6. /\ NextLinks /\ LastLink /\ \A u \in Threads : Ending(u)
      /\ \A u \in Threads \ {t} : /\ pc'[u] = pc[u] /\ ptr'[u] = ptr[u] /\ Own(u)' = Own(u)
                                  /\ Own(u) # o
      /\ \A u \in Threads : Exiting(u) => Own(u) \in HeapNodes
  BY ExitFacts, PoolNodes DEF HeapInv, o
<1>7. /\ \A x \in Nodes : mem'[x][2] = mem[x][2] /\ (x # HeapPool => mem'[x] = mem[x])
      /\ mem'[HeapPool][1] = o /\ \A x \in HeapNodes : x # HeapPool /\ x \in Nodes
  BY <1>1, <1>3, PrevWritten
<1>8. mem[o][2] = HeapPool /\ ptr[t] # o /\ (mem[HeapPool][1] = HeapPool => ptr[t] = HeapPool)
      /\ ptr[t] \in Linked \cup E3
  <2>1. Exiting(t)
    BY ExitFacts
  <2> QED
    BY <1>6, <2>1 DEF Ending, o
<1>9. NextLinks'
  <2>1. ASSUME NEW x \in Linked \cup E2
        PROVE  /\ mem'[x][2] \in Linked \cup E4
               /\ mem'[x][2] \in BackNodes => mem'[mem'[x][2]][1] = x
               /\ \A u \in Threads : pc'[u] = "exit4" /\ mem'[x][2] = Own(u)' => ptr'[u] = x
    <3>1. x \in Nodes /\ mem'[x][2] = mem[x][2]
      BY <1>3, <1>5, <1>7
    <3>2. /\ mem[x][2] \in Linked \cup E4
          /\ mem[x][2] \in BackNodes => mem[mem[x][2]][1] = x
          /\ \A u \in Threads : pc[u] = "exit4" /\ mem[x][2] = Own(u) => ptr[u] = x
      BY <1>6 DEF NextLinks
    <3>3. \A y \in BackNodes : mem'[y] = mem[y]
      BY <1>3, <1>7 DEF Linked
    <3>4. \A u \in Threads : pc'[u] = "exit4" => u # t
      BY <1>2
    <3> QED
      BY <1>6, <3>1, <3>2, <3>3, <3>4
  <2> QED
    BY <1>3, <1>5, <2>1 DEF NextLinks
<1>10. LastLink'
  <2>1. mem'[HeapPool][1] \in Linked \cup E3'
    BY <1>5, <1>7
  <2>2. mem'[mem'[HeapPool][1]][2] = HeapPool
    BY <1>3, <1>7, <1>8
  <2>3. ASSUME mem'[HeapPool][2] = HeapPool
        PROVE  \E u \in Threads : pc'[u] = "exit3" /\ ptr'[u] = HeapPool
    <3>1. CASE mem[HeapPool][1] = HeapPool
      BY <1>1, <1>2, <1>8, <3>1
    <3>2. CASE mem[HeapPool][1] # HeapPool
      <4>1. PICK u \in Threads : pc[u] = "exit3" /\ ptr[u] = HeapPool
        BY <1>3, <1>6, <1>7, <2>3, <3>2 DEF LastLink
      <4>2. u # t
        BY <4>1
      <4> QED
        BY <1>6, <4>1, <4>2
    <3> QED
      BY <3>1, <3>2
  <2> QED
    BY <1>3, <2>1, <2>2, <2>3 DEF LastLink
<1>11. ASSUME NEW u \in Threads PROVE Ending(u)'
  <2>1. CASE u = t
    BY <1>1, <1>2, <1>3, <1>5, <1>7, <1>8, <2>1 DEF Ending
  <2>2. CASE u # t
    <3>1. /\ pc'[u] = pc[u] /\ ptr'[u] = ptr[u] /\ Own(u)' = Own(u) /\ Own(u) # o
          /\ Exiting(u)' = Exiting(u)
      BY <1>6, <2>2 DEF Exiting
    <3>2. Exiting(u) => mem'[Own(u)] = mem[Own(u)]
      BY <1>6, <1>7
    <3>3. Exiting(u) => ptr[u] # o
      <4>1. Exiting(u) => ptr[u] \in Linked \cup E3
        BY <1>6 DEF Ending
      <4> QED
        BY <1>3, <1>5, <4>1
    <3>4. Ending(u)
      BY <1>6
    <3> QED
      BY <1>3, <1>5, <1>7, <3>1, <3>2, <3>3, <3>4 DEF Ending
  <2> QED
    BY <2>1, <2>2
<1> QED
  <2>1. PICK w \in {1, 2} : mem' = [mem EXCEPT ![HeapPool][w] = o]
    BY <1>1
  <2> QED
    BY <1>1, <1>3, <1>9, <1>10, <1>11, <2>1, ExitGoesOn

\* The next of the node that was the last one when it was read.
LEMMA ExitThird ==
  ASSUME Sound, ~broken, NEW t \in Threads, Exit(t), pc[t] = "exit3", Typed, Typed'
  PROVE  Sound' /\ QuietStep
<1>. DEFINE o  == Own(t)
            p  == ptr[t]
            E2 == Enders({"exit2", "exit3", "exit4"})
            E3 == Enders({"exit3", "exit4"})
            E4 == Enders({"exit4"})
<1>1. /\ mem' = [mem EXCEPT ![p][2] = o] /\ pc' = [pc EXCEPT ![t] = "exit4"]
      /\ UNCHANGED <<local_heap, ptr>>
  BY DEF Exit, Goto, Own
<1>2. pc'[t] = "exit4" /\ Own(t)' = o
  BY <1>1, ExitFacts DEF Typing, Own
<1>3. /\ HeapNodes \cup {HeapPool} \subseteq Nodes /\ HeapPool \notin HeapNodes /\ HeapPool # o
      /\ o \in HeapNodes /\ o \notin Linked /\ HeapPool \in Linked /\ HeapPool \notin BackNodes
      /\ BackNodes' = BackNodes /\ Linked' = Linked /\ Linked \subseteq HeapNodes \cup {HeapPool}
      /\ p \in HeapNodes \cup {HeapPool}
  BY <1>1, HeapNodesApart, ExitFacts, PoolNodes DEF BackNodes, GivenBack, Linked
<1>4. /\ p # o /\ p \in Linked \cup E3
      /\ (mem[HeapPool][1] = HeapPool => p = HeapPool)
      /\ (p # HeapPool => p # mem[HeapPool][1])
  BY ExitFacts DEF HeapInv, Ending
<1>. HIDE DEF o, p
<1>6. /\ E4' = E4 \cup {o} /\ E3' = E3 /\ E2' = E2
      /\ o \notin E4 /\ o \in E3 /\ o \in E2
      /\ E4 \subseteq HeapNodes /\ E3 \subseteq HeapNodes /\ E2 \subseteq HeapNodes
      /\ \A u \in Threads : u # t /\ pc[u] = "exit2" => Own(u) \notin E3
  <2>1. E4' = E4 \cup {o} /\ o \notin E4 /\ E4 \subseteq HeapNodes
    BY <1>2, ExitEnders DEF o
  <2>2. /\ E3' = E3 /\ o \in E3 /\ E3 \subseteq HeapNodes
        /\ \A u \in Threads : u # t /\ pc[u] = "exit2" => Own(u) \notin E3
    <3>1. E3' = E3 /\ o \in E3 /\ E3 \subseteq HeapNodes
      <4>1. pc[t] \in {"exit3", "exit4"} /\ pc'[t] \in {"exit3", "exit4"}
        BY <1>2
      <4>2. E3 = Others(t, {"exit3", "exit4"}) \cup {o}
        BY <4>1, ExitEnders DEF o
      <4>3. E3' = Others(t, {"exit3", "exit4"}) \cup {o}
        BY <1>2, <4>1, ExitEnders
      <4>4. E3 \subseteq HeapNodes
        BY ExitEnders
      <4> QED
        BY <4>2, <4>3, <4>4
    <3>2. \A u \in Threads : u # t /\ pc[u] = "exit2" => Own(u) \notin E3
      BY ExitEnders
    <3> QED
      BY <3>1, <3>2
  <2>3. E2' = E2 /\ o \in E2 /\ E2 \subseteq HeapNodes
    <3>1. pc[t] \in {"exit2", "exit3", "exit4"} /\ pc'[t] \in {"exit2", "exit3", "exit4"}
      BY <1>2
    <3>2. E2 = Others(t, {"exit2", "exit3", "exit4"}) \cup {o}
      BY <3>1, ExitEnders DEF o
    <3>3. E2' = Others(t, {"exit2", "exit3", "exit4"}) \cup {o}
      BY <1>2, <3>1, ExitEnders
    <3>4. E2 \subseteq HeapNodes
      BY ExitEnders
    <3> QED
      BY <3>2, <3>3, <3>4
  <2> QED
    BY <2>1, <2>2, <2>3
<1>7. /\ NextLinks /\ LastLink /\ \A u \in Threads : Ending(u)
      /\ \A u \in Threads \ {t} : /\ pc'[u] = pc[u] /\ ptr'[u] = ptr[u] /\ Own(u)' = Own(u)
                                  /\ Own(u) # o
      /\ \A u \in Threads : Exiting(u) => Own(u) \in HeapNodes \ Linked
  BY ExitFacts, PoolNodes DEF HeapInv, o
<1>8. /\ \A x \in Nodes : mem'[x][1] = mem[x][1] /\ (x # p => mem'[x] = mem[x])
      /\ mem'[p][2] = o /\ p \in Nodes
  BY <1>1, <1>3, NextWritten
<1>9. NextLinks'
  <2>1. ASSUME NEW x \in Linked \cup E2
        PROVE  /\ mem'[x][2] \in Linked \cup E4 \cup {o}
               /\ mem'[x][2] \in BackNodes => mem'[mem'[x][2]][1] = x
               /\ \A u \in Threads : pc'[u] = "exit4" /\ mem'[x][2] = Own(u)' => ptr'[u] = x
    <3>1. x \in Nodes
      BY <1>3, <1>6
    <3>2. CASE x = p
      <4>1. mem'[x][2] = o /\ o \notin BackNodes
        BY <1>3, <1>8, <3>2 DEF Linked
      <4>2. \A u \in Threads : pc'[u] = "exit4" /\ o = Own(u)' => ptr'[u] = x
        BY <1>1, <1>7, <3>2 DEF p
      <4> QED
        BY <4>1, <4>2
    <3>3. CASE x # p
      <4>1. mem'[x] = mem[x]
        BY <1>8, <3>1, <3>3
      <4>2. /\ mem[x][2] \in Linked \cup E4
            /\ mem[x][2] \in BackNodes => mem[mem[x][2]][1] = x
            /\ \A u \in Threads : pc[u] = "exit4" /\ mem[x][2] = Own(u) => ptr[u] = x
        BY <1>7 DEF NextLinks
      <4>3. \A y \in BackNodes : mem'[y][1] = mem[y][1]
        BY <1>3, <1>8 DEF Linked
      <4>4. mem[x][2] # o
        BY <1>3, <1>6, <4>2
      <4>5. ASSUME NEW u \in Threads, pc'[u] = "exit4", mem'[x][2] = Own(u)' PROVE ptr'[u] = x
        <5>1. u # t
          BY <1>2, <4>1, <4>4, <4>5
        <5> QED
          BY <1>7, <4>1, <4>2, <4>5, <5>1
      <4> QED
        BY <4>1, <4>2, <4>3, <4>5
    <3> QED
      BY <3>2, <3>3
  <2> QED
    BY <1>3, <1>6, <2>1 DEF NextLinks
<1>10. LastLink'
  <2>. DEFINE z == mem[HeapPool][1]
  <2>1. mem'[HeapPool][1] = z /\ z \in Linked \cup E3 /\ (z # HeapPool => mem[z][2] = HeapPool)
    BY <1>3, <1>7, <1>8 DEF LastLink
  <2>2. z # HeapPool => mem'[z][2] = HeapPool
    <3>1. z # HeapPool => z # p
      BY <1>4
    <3>2. z \in Nodes
      BY <1>3, <1>6, <2>1
    <3> QED
      BY <1>8, <2>1, <3>1, <3>2
  <2>3. ASSUME mem'[HeapPool][2] = HeapPool, z # HeapPool
        PROVE  \E u \in Threads : pc'[u] = "exit3" /\ ptr'[u] = HeapPool
    <3>1. p # HeapPool
      BY <1>3, <1>8, <2>3
    <3>2. mem[HeapPool][2] = HeapPool
      BY <1>3, <1>8, <2>3, <3>1
    <3>3. PICK u \in Threads : pc[u] = "exit3" /\ ptr[u] = HeapPool
      BY <1>7, <2>3, <3>2 DEF LastLink
    <3>4. u # t
      BY <3>1, <3>3 DEF p
    <3> QED
      BY <1>7, <3>3, <3>4
  <2>. HIDE DEF z
  <2> QED
    BY <1>3, <1>6, <2>1, <2>2, <2>3 DEF LastLink
<1>11. ASSUME NEW u \in Threads PROVE Ending(u)'
  <2>1. mem'[HeapPool][1] = mem[HeapPool][1]
    BY <1>3, <1>8
  <2>2. CASE u = t
    BY <1>1, <1>2, <1>3, <1>4, <1>6, <2>1, <2>2 DEF Ending, p
  <2>3. CASE u # t
    <3>1. /\ pc'[u] = pc[u] /\ ptr'[u] = ptr[u] /\ Own(u)' = Own(u) /\ Own(u) # o
          /\ Exiting(u)' = Exiting(u)
      BY <1>7, <2>3 DEF Exiting
    <3>2. pc[u] = "exit2" => mem'[Own(u)] = mem[Own(u)]
      <4>1. pc[u] = "exit2" => Own(u) \in HeapNodes \ Linked /\ Own(u) \notin E3
        BY <1>6, <1>7, <2>3 DEF Exiting
      <4> QED
        BY <1>3, <1>4, <1>8, <4>1
    <3>3. Ending(u)
      BY <1>7
    <3> QED
      BY <1>3, <1>6, <2>1, <3>1, <3>2, <3>3 DEF Ending
  <2> QED
    BY <2>2, <2>3
<1> QED
  <2>1. PICK w \in {1, 2} : mem' = [mem EXCEPT ![p][w] = o]
    BY <1>1
  <2> QED
    BY <1>1, <1>3, <1>9, <1>10, <1>11, <2>1, ExitGoesOn

\* The node's prev, and the thread is gone: its heap is one of those given back.
LEMMA ExitLast ==
  ASSUME Sound, ~broken, NEW t \in Threads, Exit(t), pc[t] = "exit4", Typed, Typed'
  PROVE  Sound' /\ QuietStep
<1>. DEFINE o  == Own(t)
            p  == ptr[t]
            E2 == Enders({"exit2", "exit3", "exit4"})
            E3 == Enders({"exit3", "exit4"})
            E4 == Enders({"exit4"})
<1>1. /\ mem' = [mem EXCEPT ![o][1] = p] /\ pc' = [pc EXCEPT ![t] = "idle"]
      /\ local_heap' = [local_heap EXCEPT ![t] = NoHeap] /\ ptr' = [ptr EXCEPT ![t] = NULL]
  BY DEF Exit, Goto, Own
<1>2. pc'[t] = "idle"
  BY <1>1, ExitFacts DEF Typing
<1>3. GivenBack' = GivenBack \cup {local_heap[t]}
  <2>1. /\ local_heap[t] \in Heaps /\ local_heap[t] # NoHeap /\ Typing /\ HeapInv
        /\ heap_pool' = heap_pool
    BY ExitFacts
  <2>2. \A x \in Threads : local_heap'[x] = IF x = t THEN NoHeap ELSE local_heap[x]
    BY <1>1, <2>1 DEF Typing
  <2>3. \A x \in Threads : x # t => local_heap[x] # local_heap[t]
    BY <2>1 DEF HeapInv, LocalHeaps
  <2>4. local_heap[t] < heap_pool.free_start
    BY <2>1 DEF HeapInv, LocalHeaps
  <2>5. \A x \in Heaps : NoHeap # x
    BY TrAssumption DEF Heaps, NoHeap
  <2> QED
    BY <2>1, <2>2, <2>3, <2>4, <2>5 DEF GivenBack
<1>4. /\ HeapNodes \cup {HeapPool} \subseteq Nodes /\ HeapPool \notin HeapNodes /\ HeapPool # o
      /\ o \in HeapNodes /\ o \notin Linked /\ HeapPool \in Linked /\ HeapPool \notin BackNodes
      /\ Linked \subseteq HeapNodes \cup {HeapPool}
      /\ p \in HeapNodes \cup {HeapPool} /\ p # o
  BY HeapNodesApart, ExitFacts, PoolNodes DEF Linked
<1>5. BackNodes' = BackNodes \cup {o} /\ Linked' = Linked \cup {o}
  BY <1>3 DEF BackNodes, Linked, Own
<1>. HIDE DEF o, p
<1>7. /\ E4 = E4' \cup {o} /\ E3 = E3' \cup {o} /\ E2 = E2' \cup {o}
      /\ E4 \subseteq HeapNodes /\ E3 \subseteq HeapNodes /\ E2 \subseteq HeapNodes
  <2>1. E4 = E4' \cup {o} /\ E4 \subseteq HeapNodes
    BY <1>2, ExitEnders DEF o
  <2>2. E3 = E3' \cup {o} /\ E3 \subseteq HeapNodes
    BY <1>2, ExitEnders DEF o
  <2>3. E2 = E2' \cup {o} /\ E2 \subseteq HeapNodes
    BY <1>2, ExitEnders DEF o
  <2> QED
    BY <2>1, <2>2, <2>3
<1>8. /\ NextLinks /\ LastLink /\ \A u \in Threads : Ending(u)
      /\ \A u \in Threads \ {t} : /\ pc'[u] = pc[u] /\ ptr'[u] = ptr[u] /\ Own(u)' = Own(u)
                                  /\ Own(u) # o
      /\ \A u \in Threads : Exiting(u) => Own(u) \in HeapNodes \ Linked
  BY ExitFacts, PoolNodes DEF HeapInv, o
<1>9. /\ \A x \in Nodes : mem'[x][2] = mem[x][2] /\ (x # o => mem'[x] = mem[x])
      /\ mem'[o][1] = p /\ o \in Nodes
  BY <1>1, <1>4, PrevWritten
<1>10. NextLinks'
  <2>1. ASSUME NEW x \in Linked \cup E2
        PROVE  /\ mem'[x][2] \in Linked \cup E4
               /\ mem'[x][2] \in BackNodes \cup {o} => mem'[mem'[x][2]][1] = x
               /\ \A u \in Threads : pc'[u] = "exit4" /\ mem'[x][2] = Own(u)' => ptr'[u] = x
    <3>1. x \in Nodes /\ mem'[x][2] = mem[x][2]
      BY <1>4, <1>7, <1>9
    <3>2. /\ mem[x][2] \in Linked \cup E4
          /\ mem[x][2] \in BackNodes => mem[mem[x][2]][1] = x
          /\ \A u \in Threads : pc[u] = "exit4" /\ mem[x][2] = Own(u) => ptr[u] = x
      BY <1>8 DEF NextLinks
    <3>3. \A y \in BackNodes : mem'[y] = mem[y]
      BY <1>4, <1>9 DEF Linked
    <3>4. mem[x][2] = o => mem'[o][1] = x
      BY <1>9, <3>2 DEF o, p
    <3>5. \A u \in Threads : pc'[u] = "exit4" => u # t
      BY <1>2
    <3> QED
      BY <1>8, <3>1, <3>2, <3>3, <3>4, <3>5
  <2>2. Linked' \cup E2' = Linked \cup E2 /\ Linked' \cup E4' = Linked \cup E4
    BY <1>5, <1>7
  <2> QED
    BY <1>5, <2>1, <2>2 DEF NextLinks
<1>11. LastLink'
  <2>1. mem'[HeapPool] = mem[HeapPool]
    BY <1>4, <1>9
  <2>2. Linked' \cup E3' = Linked \cup E3 /\ Linked \cup E3 \subseteq Nodes
    BY <1>4, <1>5, <1>7
  <2>3. \A u \in Threads : pc[u] = "exit3" => pc'[u] = "exit3" /\ ptr'[u] = ptr[u]
    BY <1>8
  <2>4. \A x \in Nodes : mem'[x][2] = mem[x][2]
    BY <1>9
  <2> QED
    BY <1>8, <2>1, <2>2, <2>3, <2>4 DEF LastLink
<1>12. ASSUME NEW u \in Threads PROVE Ending(u)'
  <2>1. mem'[HeapPool] = mem[HeapPool] /\ Linked' \cup E3' = Linked \cup E3
    BY <1>4, <1>5, <1>7, <1>9
  <2>2. CASE u = t
    BY <1>2, <2>2 DEF Ending, Exiting
  <2>3. CASE u # t
    <3>1. /\ pc'[u] = pc[u] /\ ptr'[u] = ptr[u] /\ Own(u)' = Own(u) /\ Own(u) # o
          /\ Exiting(u)' = Exiting(u)
      BY <1>8, <2>3 DEF Exiting
    <3>2. Exiting(u) => mem'[Own(u)][2] = mem[Own(u)][2]
      BY <1>4, <1>8, <1>9
    <3>3. Ending(u)
      BY <1>8
    <3> QED
      BY <2>1, <3>1, <3>2, <3>3 DEF Ending, Exiting
  <2> QED
    BY <2>2, <2>3
<1>13. \A u \in Threads : Taking(u)'
  <2>1. pc'[t] # "take"
    BY <1>2
  <2> QED
    BY <2>1, NoTaking
<1>14. LocalHeaps'
  <2>1. \A x \in Threads : local_heap'[x] = IF x = t THEN NoHeap ELSE local_heap[x]
    BY <1>1, ExitFacts DEF Typing
  <2>2. LocalHeaps /\ heap_pool' = heap_pool
    BY ExitFacts DEF HeapInv
  <2> QED
    BY <2>1, <2>2 DEF LocalHeaps
<1>15. Same(mem, mem', Nodes \ (HeapNodes \cup {HeapPool}))
  BY <1>4, <1>9 DEF Same
<1>16. UNCHANGED <<gpool, heap_pool, chunk, foreground, lock, held, cls, broken>>
  BY ExitFacts
<1> QED
  BY <1>1, <1>10, <1>11, <1>12, <1>13, <1>14, <1>15, <1>16, PoolMoved

\* Every write of thread_exit preserves the invariant, whatever other threads that end have
\* read and written since the thread read the last node.
LEMMA ExitOK ==
  ASSUME Sound, ~broken, NEW t \in Threads, Exit(t), Typed, Typed'
  PROVE  Sound' /\ QuietStep
  BY ExitFirst, ExitSecond, ExitThird, ExitLast DEF Exit

-----------------------------------------------------------------------------
(* The steps that move blocks *)

\* What waits in a heap's remote_free are blocks of the heap's chunks.
LEMMA RemoteBlocks ==
  ASSUME NEW ch, NEW at, ChunksOK(ch, at), NEW x \in Items, NEW h,
         at[x] = Remote(h), Remote(h) # NULL
  PROVE  /\ x \in Blocks /\ x[2] \in Chunks /\ ch[x[2]].owner = h /\ h # NoHeap
         /\ x \in CutTo(ch[x[2]], x[2])
<1>1. Remote(h)[1] = "remote_free" /\ Remote(h)[2] = h
  BY Kinds
<1>2. ASSUME NEW j \in Chunks, x = ChunkNode(j) PROVE FALSE
  <2>1. at[x] = ListOf(ch[j])
    BY <1>2 DEF ChunksOK, ChunkOK
  <2> QED
    BY <1>1, <2>1, ListKinds
<1>3. x \in Blocks /\ x[2] \in Chunks
  BY <1>2, BlockKinds DEF Items
<1>4. /\ ch[x[2]].owner # NoHeap /\ x \in CutTo(ch[x[2]], x[2])
      /\ at[x] \in {DHead(x[2]), Remote(ch[x[2]].owner)}
  BY <1>3 DEF ChunksOK, ChunkOK, BlocksOK
<1>5. at[x] = Remote(ch[x[2]].owner)
  BY <1>1, <1>4, Kinds
<1> QED
  BY <1>1, <1>3, <1>4, <1>5, Kinds

\* A block that is out and one that waits in its owner's remote_free are interchangeable
\* to its chunk.
LEMMA BlockMoved ==
  ASSUME NEW ch, NEW at \in [Items -> Nodes \cup {NULL}], ChunksOK(ch, at), NEW b \in Blocks, NEW H,
         ch[b[2]].owner # NoHeap, b \in CutTo(ch[b[2]], b[2]),
         at[b] \in {NULL, Remote(ch[b[2]].owner)}, H \in {NULL, Remote(ch[b[2]].owner)}
  PROVE  ChunksOK(ch, Put(at, b, H))
<1>. DEFINE k   == b[2]
            att == Put(at, b, H)
<1>1. k \in Chunks /\ b \in Items /\ \A j \in Chunks : ChunkNode(j) \in Items /\ ChunkNode(j) # b
  BY BlockKinds, Kinds DEF Items
<1>2. att[b] = H /\ \A x \in Items : x # b => att[x] = at[x]
  BY <1>1 DEF Put
<1>3. \A j \in Chunks : DHead(j) # H /\ DHead(j) # at[b]
  BY ItemsAreNodes, NodeSets, Kinds
<1>. HIDE DEF att
<1>4. \A j \in Chunks : In(att, DHead(j)) = In(at, DHead(j))
  BY <1>1, <1>2, <1>3 DEF In
<1>5. ASSUME NEW j \in Chunks PROVE ch[j] \in Headers /\ ChunkOK(ch[j], att, j)
  <2>1. /\ ch[j] \in Headers /\ CountsOK(ch[j], Cardinality(In(att, DHead(j))))
        /\ at[ChunkNode(j)] = ListOf(ch[j]) /\ BlocksOK(ch[j], at, j)
    BY <1>4 DEF ChunksOK, ChunkOK
  <2>2. att[ChunkNode(j)] = ListOf(ch[j])
    BY <1>1, <1>2, <2>1
  <2>3. BlocksOK(ch[j], att, j)
    BY <1>2, <2>1 DEF BlocksOK, Items
  <2> QED
    BY <2>1, <2>2, <2>3 DEF ChunkOK
<1> QED
  BY <1>5 DEF ChunksOK, att

\* The invariant after a step of thread t that leaves the pool of heaps alone.
LEMMA StepKept ==
  ASSUME Sound, ~broken, NEW t \in Threads, NEW att,
         UNCHANGED <<heap_pool, local_heap>>, Typing', \A u \in Threads \ {t} : Aside(u),
         PcOK(t)', Steady(t), pc'[t] \notin {"remote", "reset"},
         Owned \subseteq Owned', InUse' \subseteq InUse,
         OwnerInv', FgInv',
         MemOK(mem', att, HeadsOf(InUse), Owned'), Same(mem, mem', Plain),
         ChunksOK(chunk', att), HeldOK(chunk', att, held')
  PROVE  Sound'
<1>1. HeapInv'
  BY OthersSteady, HeapKept DEF Sound, Typing
<1>2. PcInv'
  BY PcKept DEF Sound
<1>3. ListsOK(att)'
  <2>1. HeadsOf(InUse') \subseteq HeadsOf(InUse)
    BY DEF HeadsOf
  <2>2. MemOK(mem', att, HeadsOf(InUse'), Owned')
    BY <2>1, Shrunk
  <2>3. att \in [Items -> Nodes \cup {NULL}]
    BY <2>2 DEF MemOK
  <2> QED
    BY <2>2, <2>3 DEF ListsOK
<1> QED
  BY <1>1, <1>2, <1>3 DEF Sound

\* A free keeps owners and foregrounds.
LEMMA FreeKeeps ==
  ASSUME Sound, FreeFrame, UNCHANGED <<gpool, foreground>>
  PROVE  /\ Owned' = Owned /\ OwnerInv' /\ FgInv'
         /\ (\A u \in Threads : /\ local_heap'[u] = local_heap[u]
                                /\ pc'[u] \in {"init", "reset"} <=> pc[u] \in {"init", "reset"})
              => InUse' = InUse
<1>1. OwnerInv /\ FgInv /\ Typing
  BY DEF Sound
<1>2. \A j \in Chunks : /\ chunk'[j].owner = chunk[j].owner
                        /\ chunk'[j].size_cls = chunk[j].size_cls
                        /\ chunk[j].state = "FORG" => chunk'[j].state = "FORG"
  BY DEF FreeFrame
<1>3. Owned' = Owned
  BY <1>2 DEF Owned
<1>4. OwnerInv'
  BY <1>1, <1>2 DEF OwnerInv
<1>5. FgInv'
  <2>1. \A h \in Heaps, c \in Classes : foreground[h][c] # Dummy => foreground[h][c] \in Chunks
    BY <1>1 DEF Typing
  <2> QED
    BY <1>1, <1>2, <2>1 DEF FgInv
<1>6. (\A u \in Threads : /\ local_heap'[u] = local_heap[u]
                          /\ pc'[u] \in {"init", "reset"} <=> pc[u] \in {"init", "reset"})
        => InUse' = InUse
  BY <1>2 DEF InUse
<1> QED
  BY <1>3, <1>4, <1>5, <1>6

\* Writes elsewhere leave the pool's nodes and every remote_free alone.
LEMMA PlainRemotes ==
  ASSUME NEW m, NEW mm, NEW D, Same(m, mm, D), Plain \cup Remotes \subseteq D
  PROVE  Same(m, mm, Plain) /\ \A h \in Heaps : mm[Remote(h)] = m[Remote(h)]
  BY DEF Same, Remotes


\* A block that the application has, and its chunk.
LEMMA HeldBlock ==
  ASSUME Sound, NEW at, ListsOK(at), NEW b \in held
  PROVE  /\ b \in Blocks /\ b \in Items /\ at[b] = NULL /\ b[2] \in Chunks /\ b[2] \in Owned
         /\ chunk[b[2]].owner # NoHeap /\ b \in CutTo(chunk[b[2]], b[2])
         /\ chunk[b[2]].owner \in InUse /\ chunk[b[2]].owner \in Heaps
         /\ HeadsOf({chunk[b[2]].owner}) \subseteq HeadsOf(InUse)
<1>1. /\ b \in Blocks /\ at[b] = NULL /\ chunk[b[2]].owner # NoHeap
      /\ b \in CutTo(chunk[b[2]], b[2])
  BY DEF ListsOK, HeldOK
<1>2. b \in Items /\ b[2] \in Chunks /\ b[2] \in Owned
  BY <1>1, BlockKinds DEF Items, Owned
<1>3. chunk[b[2]].owner \in InUse
  BY <1>2, InUseFacts DEF Sound
<1> QED
  BY <1>1, <1>2, <1>3, InUseFacts DEF InUse

\* tr_free preserves the invariant on a chunk of the thread's own heap.
LEMMA FreeOwnOK ==
  ASSUME Sound, ~broken, NEW t \in Threads, NEW b \in held, FreeOwn(t, b)
  PROVE  Sound' /\ QuietStep
<1>. USE DEF pools, heaps, locals
<1>0. PICK at : ListsOK(at)
  BY DEF Sound
<1>1. /\ Typing /\ PcInv /\ MemOK(mem, at, HeadsOf(InUse), Owned)
      /\ ChunksOK(chunk, at) /\ HeldOK(chunk, at, held) /\ at \in [Items -> Nodes \cup {NULL}]
  BY <1>0 DEF Sound, ListsOK
<1>2. /\ pc[t] = "idle" /\ held' = held \ {b} /\ b \notin Leaving /\ FreeLocal(mem, b)
      /\ UNCHANGED <<gpool, heap_pool, foreground, lock, local_heap, pc, cls, ptr, broken>>
  BY DEF FreeOwn
<1>3. HeadsOf(InUse) \in SUBSET AllHeads /\ Owned \in SUBSET Chunks
  BY InUseFacts
<1>4. HeldOK(chunk, at, held')
  BY <1>1, <1>2 DEF HeldOK
<1>5. PcOK(t)' /\ Steady(t) /\ pc'[t] \notin {"remote", "reset"}
  BY <1>1, <1>2 DEF PcOK, Steady
<1>. DEFINE att == Put(Put(at, b, DHead(b[2])), ChunkNode(b[2]), ListOf(chunk'[b[2]]))
<1>6. /\ MemOK(mem', att, HeadsOf(InUse), Owned) /\ ChunksOK(chunk', att)
      /\ HeldOK(chunk', att, held')
      /\ Same(mem, mem', Plain \cup Remotes) /\ FreeFrame
  <2>1. chunk \in [Chunks -> Headers] /\ b \notin held'
    BY <1>1, <1>2 DEF Typing
  <2> QED
    BY <1>0, <1>1, <1>2, <1>3, <1>4, <2>1, HeldBlock, FreeLocalOK
<1>. HIDE DEF att
<1>7. Same(mem, mem', Plain) /\ \A g \in Heaps : mem'[Remote(g)] = mem[Remote(g)]
  BY <1>6, PlainRemotes
<1>8. Typing'
  BY <1>1, <1>2, <1>6 DEF Typing, FreeFrame
<1>9. \A u \in Threads \ {t} : Aside(u)
  <2>1. \A u \in Threads : pc[u] = "collect" => local_heap[u] \in Heaps
    BY <1>1 DEF Typing, PcInv, PcOK
  <2>2. \A u \in Threads : pc[u] = "remote" =>
          /\ chunk'[ptr[u][2]].owner = chunk[ptr[u][2]].owner
          /\ ptr[u] \in held'
    <3>1. \A u \in Threads : pc[u] = "remote" => ptr[u] # b
      BY <1>2 DEF Leaving
    <3>2. \A u \in Threads : pc[u] = "remote" => ptr[u][2] \in Chunks /\ ptr[u] \in held
      BY UnderWay
    <3> QED
      BY <1>2, <1>6, <3>1, <3>2 DEF FreeFrame
  <2> QED
    BY <1>2, <1>7, <2>1, <2>2 DEF Aside
<1>10. Owned' = Owned /\ OwnerInv' /\ FgInv' /\ InUse' = InUse
  BY <1>2, <1>6, FreeKeeps
<1>11. QuietStep
  BY <1>7, <1>10 DEF QuietStep, InUse
<1> QED
  BY <1>2, <1>5, <1>6, <1>7, <1>8, <1>9, <1>10, <1>11, StepKept

\* It locks another heap, which nobody is initialising.
LEMMA FreeOK ==
  ASSUME Sound, ~broken, NEW t \in Threads, NEW b \in held, Free(t, b), ~raced'
  PROVE  Sound' /\ QuietStep
<1>. USE DEF pools, Goto
<1>. DEFINE h == chunk[b[2]].owner
<1>0. PICK at : ListsOK(at)
  BY DEF Sound
<1>1. Typing /\ HeapInv /\ PcInv /\ OwnerInv /\ FgInv
  BY DEF Sound
<1>2. /\ pc[t] = "idle" /\ b \notin Leaving /\ lock[h] = NoOne
      /\ lock' = [lock EXCEPT ![h] = t] /\ ptr' = [ptr EXCEPT ![t] = b]
      /\ pc' = [pc EXCEPT ![t] = "remote"]
      /\ UNCHANGED <<mem, gpool, heap_pool, chunk, foreground, local_heap, held, cls, broken>>
      /\ \A u \in Threads : ~(pc[u] = "reset" /\ local_heap[u] = h)
  BY DEF Free
<1>3. b \in Blocks /\ b \in Nodes /\ h \in Heaps
  BY <1>0, HeldBlock, ItemsAreNodes
<1>. HIDE DEF h
<1>4. \A u \in Threads : /\ pc'[u] = IF u = t THEN "remote" ELSE pc[u]
                         /\ ptr'[u] = IF u = t THEN b ELSE ptr[u]
  BY <1>1, <1>2 DEF Typing
<1>5. \A g \in Heaps : lock'[g] = IF g = h THEN t ELSE lock[g]
  BY <1>1, <1>2 DEF Typing
<1>6. Typing'
  <2>1. lock' \in [Heaps -> Threads \cup {NoOne}]
    BY <1>1, <1>2 DEF Typing
  <2> QED
    BY <1>1, <1>2, <1>3, <2>1 DEF Typing
<1>7. \A u \in Threads \ {t} : Aside(u)
  <2>1. ASSUME NEW u \in Threads, pc[u] = "collect"
        PROVE  lock'[local_heap[u]] = lock[local_heap[u]]
    <3>1. local_heap[u] \in Heaps /\ lock[local_heap[u]] = u
      BY <1>1, <2>1 DEF Typing, PcInv, PcOK
    <3> QED
      BY <1>2, <1>5, <3>1, TrAssumption
  <2>2. ASSUME NEW u \in Threads, pc[u] = "remote"
        PROVE  lock'[chunk[ptr[u][2]].owner] = lock[chunk[ptr[u][2]].owner]
    <3>1. chunk[ptr[u][2]].owner \in Heaps /\ lock[chunk[ptr[u][2]].owner] = u
      BY <2>2, UnderWay
    <3> QED
      BY <1>2, <1>5, <3>1, TrAssumption
  <2> QED
    BY <1>2, <1>4, <2>1, <2>2 DEF Aside
<1>8. HeapInv'
  <2>1. Steady(t) /\ Same(mem, mem', Plain)
    BY <1>2, <1>4 DEF Steady, InPool, Same
  <2> QED
    BY <1>1, <1>2, <1>6, <1>7, <2>1, OthersSteady, HeapKept DEF Typing
<1>9. PcInv'
  <2>1. Owned' = Owned
    BY <1>2 DEF Owned
  <2>2. \A u \in Threads \ {t} : PcOK(u)' /\ \A v \in Threads \ {t, u} : FreesApart(u, v)'
    BY <1>1, <1>7, <2>1, AsideKept
  <2>3. PcOK(t)'
    BY <1>2, <1>3, <1>4, <1>5 DEF PcOK, h
  <2>4. \A u \in Threads \ {t} : FreesApart(t, u)' /\ FreesApart(u, t)'
    BY <1>2, <1>4 DEF FreesApart, Leaving, h
  <2> QED
    BY <2>2, <2>3, <2>4 DEF PcInv
<1>10. OwnerInv' /\ FgInv'
  BY <1>1, <1>2 DEF OwnerInv, FgInv
<1>11. InUse' \subseteq InUse
  BY <1>2, <1>4 DEF InUse
<1>12. mem' \in [Nodes -> Pairs(Nodes)] /\ Same(mem, mem', Items \cup AllHeads \cup Ends)
  BY <1>0, <1>2, MemTyped DEF Same
<1>13. ListsOK(at)'
  BY <1>0, <1>2, <1>11, <1>12, ListsKept
<1>14. QuietStep
  BY <1>2 DEF QuietStep, InUse
<1> QED
  BY <1>6, <1>8, <1>9, <1>10, <1>13, <1>14 DEF Sound

\* The block waits in the other heap's remote_free.
LEMMA FreePutOK ==
  ASSUME Sound, ~broken, NEW t \in Threads, FreePut(t)
  PROVE  Sound' /\ QuietStep
<1>. USE DEF pools, Goto
<1>. DEFINE b == ptr[t]
            h == chunk[b[2]].owner
<1>0. PICK at : ListsOK(at)
  BY DEF Sound
<1>1. /\ Typing /\ PcInv /\ MemOK(mem, at, HeadsOf(InUse), Owned)
      /\ ChunksOK(chunk, at) /\ HeldOK(chunk, at, held) /\ at \in [Items -> Nodes \cup {NULL}]
  BY <1>0 DEF Sound, ListsOK
<1>2. /\ pc[t] = "remote" /\ mem' = list_add_tail(mem, b, Remote(h)) /\ held' = held \ {b}
      /\ lock' = [lock EXCEPT ![h] = NoOne] /\ ptr' = [ptr EXCEPT ![t] = NULL]
      /\ pc' = [pc EXCEPT ![t] = "idle"]
      /\ UNCHANGED <<gpool, heap_pool, chunk, foreground, local_heap, cls, broken>>
  BY DEF FreePut
<1>3. b \in held /\ lock[h] = t
  BY <1>2, UnderWay
<1>4. /\ b \in Blocks /\ b \in Items /\ at[b] = NULL /\ b[2] \in Chunks /\ h # NoHeap
      /\ b \in CutTo(chunk[b[2]], b[2]) /\ h \in InUse /\ h \in Heaps
      /\ HeadsOf({h}) \subseteq HeadsOf(InUse)
  BY <1>0, <1>3, HeldBlock
<1>5. HeadsOf(InUse) \in SUBSET AllHeads /\ Owned \in SUBSET Chunks
  BY InUseFacts
<1>6. Remote(h) \in HeadsOf({h}) /\ Remote(h) \in HeadsOf(InUse)
  BY <1>4 DEF HeadsOf
<1>7. ChunksOK(chunk', Put(at, b, Remote(h)))
  BY <1>1, <1>2, <1>4, BlockMoved
<1>8. \A u \in Threads \ {t} : pc[u] = "remote" =>
        /\ ptr[u] # b /\ ptr[u] \in held
        /\ chunk[ptr[u][2]].owner \in Heaps /\ chunk[ptr[u][2]].owner # h
  <2>1. ASSUME NEW u \in Threads \ {t}, pc[u] = "remote"
        PROVE  /\ ptr[u] # b /\ ptr[u] \in held
               /\ chunk[ptr[u][2]].owner \in Heaps /\ chunk[ptr[u][2]].owner # h
    <3>1. FreesApart(u, t)
      BY <1>1 DEF PcInv
    <3> QED
      BY <1>2, <1>3, <2>1, <3>1, UnderWay DEF FreesApart
  <2> QED
    BY <2>1
<1>. HIDE DEF h, b
<1>. DEFINE att == Put(at, b, Remote(h))
<1>9. /\ MemOK(mem', att, HeadsOf(InUse), Owned)
      /\ Same(mem, mem', Nodes \ (In(at, Remote(h)) \cup {Remote(h), b}))
  BY <1>1, <1>2, <1>4, <1>5, <1>6, MemAddTail
<1>10. HeldOK(chunk', att, held')
  <2>1. \A x \in Items : x # b => att[x] = at[x]
    BY <1>1, <1>4 DEF Put
  <2>2. HeldOK(chunk, at, held')
    BY <1>1, <1>2 DEF HeldOK
  <2>. HIDE DEF att
  <2> QED
    BY <1>2, <2>1, <2>2 DEF HeldOK, Items
<1>. HIDE DEF att
<1>11. Same(mem, mem', Plain) /\ \A g \in Heaps : g # h => mem'[Remote(g)] = mem[Remote(g)]
  <2>1. Plain \subseteq Nodes \ (In(at, Remote(h)) \cup {Remote(h), b})
    BY <1>4, <1>5, <1>6, ItemsAreNodes DEF In
  <2>2. ASSUME NEW g \in Heaps, g # h
        PROVE  Remote(g) \in Nodes \ (In(at, Remote(h)) \cup {Remote(h), b})
    <3>1. Remote(g) \in AllHeads
      BY <2>2 DEF AllHeads, HeadsOf
    <3>2. Remote(g) # Remote(h)
      BY <2>2, Kinds
    <3> QED
      BY <1>4, <3>1, <3>2, ItemsAreNodes DEF In
  <2> QED
    BY <1>9, <2>1, <2>2 DEF Same
<1>12. Typing'
  <2>1. lock' \in [Heaps -> Threads \cup {NoOne}]
    BY <1>1, <1>2 DEF Typing
  <2> QED
    BY <1>1, <1>2, <2>1 DEF Typing
<1>13. \A u \in Threads : /\ pc'[u] = IF u = t THEN "idle" ELSE pc[u]
                          /\ ptr'[u] = IF u = t THEN NULL ELSE ptr[u]
  BY <1>1, <1>2 DEF Typing
<1>14. \A u \in Threads \ {t} : Aside(u)
  <2>1. \A u \in Threads : pc[u] = "collect" => local_heap[u] \in Heaps /\ local_heap[u] # h
    BY <1>1, <1>2, <1>3 DEF Typing, PcInv, PcOK
  <2>2. \A g \in Heaps : g # h => lock'[g] = lock[g]
    BY <1>1, <1>2 DEF Typing
  <2> QED
    BY <1>2, <1>8, <1>11, <1>13, <2>1, <2>2 DEF Aside
<1>15. PcOK(t)' /\ Steady(t) /\ pc'[t] \notin {"remote", "reset"}
  BY <1>2, <1>13 DEF PcOK, Steady, InPool
<1>16. OwnerInv' /\ FgInv' /\ Owned' = Owned /\ InUse' \subseteq InUse
  <2>1. InUse' \subseteq InUse
    BY <1>2, <1>13 DEF InUse
  <2> QED
    BY <1>2, <2>1 DEF Sound, OwnerInv, FgInv, Owned
<1>17. QuietStep
  <2>1. h \in InUse'
    <3>1. b[2] \in Chunks /\ chunk'[b[2]].owner = h
      BY <1>2, <1>4 DEF h
    <3> QED
      BY <1>4, <3>1 DEF InUse
  <2> QED
    BY <1>2, <1>11, <2>1 DEF QuietStep, InUse
<1>18. Sound'
  BY <1>2, <1>7, <1>9, <1>10, <1>11, <1>12, <1>14, <1>15, <1>16, StepKept DEF att
<1> QED
  BY <1>17, <1>18

\* A step that only sets broken.
LEMMA StoppedOK ==
  ASSUME Sound, broken' = TRUE,
         UNCHANGED <<mem, gpool, heap_pool, chunk, foreground, lock, local_heap, held>>,
         UNCHANGED <<pc, cls, ptr>>
  PROVE  Sound' /\ QuietStep
<1>0. PICK at : ListsOK(at)
  BY DEF Sound
<1>1. Typing' /\ PcInv'
  BY DEF Sound, Typing, PcInv
<1>2. HeapInv' /\ OwnerInv' /\ FgInv'
  <2>1. HeapInv'
    <3>1. \A u \in Threads : Steady(u)
      BY DEF Steady
    <3>2. Same(mem, mem', Plain)
      BY DEF Same
    <3> QED
      BY <1>1, <3>1, <3>2, HeapKept DEF Sound, Typing
  <2> QED
    BY <2>1 DEF Sound, OwnerInv, FgInv
<1>3. ListsOK(at)'
  BY <1>0 DEF ListsOK, Owned, InUse
<1>4. QuietStep
  BY DEF QuietStep, InUse
<1> QED
  BY <1>4, <1>1, <1>2, <1>3 DEF Sound

\* The next block of the loop is one that another thread freed.
LEMMA NextRemote ==
  ASSUME Sound, ~broken, NEW t \in Threads, pc[t] = "collect", ptr[t] # Remote(local_heap[t]),
         ~Loose(mem, ptr[t]), NEW at, ListsOK(at)
  PROVE  /\ local_heap[t] \in InUse /\ local_heap[t] \in Heaps /\ local_heap[t] # NoHeap
         /\ ptr[t] \in Items /\ at[ptr[t]] = Remote(local_heap[t])
<1>. DEFINE h == local_heap[t]
            b == ptr[t]
<1>1. Typing /\ PcInv /\ MemOK(mem, at, HeadsOf(InUse), Owned)
  BY DEF Sound, ListsOK
<1>2. /\ h \in Heaps /\ h # NoHeap /\ h \in InUse
      /\ b = mem[Remote(h)][2] \/ \E k \in Owned : b = DHead(k)
  BY <1>1 DEF PcInv, PcOK, Typing, InUse
<1>. HIDE DEF h, b
<1>3. ASSUME NEW k \in Owned, b = DHead(k) PROVE FALSE
  <2>1. ChainOf(Nodes, mem, DHead(k), DTail(k), In(at, DHead(k)))
    BY <1>1 DEF MemOK
  <2>2. mem[DHead(k)][2] = NULL
    BY <2>1, ChainEnds
  <2> QED
    BY <1>3, <2>2 DEF Loose, b
<1>4. b = mem[Remote(h)][2]
  BY <1>2, <1>3
<1>5. Remote(h) \in HeadsOf(InUse)
  BY <1>2 DEF HeadsOf
<1>6. Region(mem, Remote(h), In(at, Remote(h)))
  BY <1>1, <1>5 DEF MemOK
<1>7. b \in In(at, Remote(h))
  BY <1>4, <1>6 DEF Region, h, b
<1> QED
  BY <1>2, <1>7 DEF In, h, b

\* A turn of the collection preserves the invariant, the one that stops the model included.
LEMMA CollectOK ==
  ASSUME Sound, ~broken, NEW t \in Threads, Collect(t)
  PROVE  Sound' /\ QuietStep
<1>. USE DEF pools, Goto
<1>. DEFINE h == local_heap[t]
            b == ptr[t]
            k == b[2]
<1>0. PICK at : ListsOK(at)
  BY DEF Sound
<1>1. /\ Typing /\ HeapInv /\ PcInv /\ MemOK(mem, at, HeadsOf(InUse), Owned)
      /\ ChunksOK(chunk, at) /\ HeldOK(chunk, at, held) /\ at \in [Items -> Nodes \cup {NULL}]
  BY <1>0 DEF Sound, ListsOK
<1>2. /\ pc[t] = "collect"
      /\ UNCHANGED <<gpool, heap_pool, foreground, local_heap, held, cls>>
      /\ \/ /\ b = Remote(h)
            /\ lock' = [lock EXCEPT ![h] = NoOne]
            /\ pc' = [pc EXCEPT ![t] = "serve"]
            /\ ptr' = [ptr EXCEPT ![t] = NULL]
            /\ UNCHANGED <<mem, chunk, broken>>
         \/ /\ b # Remote(h) /\ ~Loose(mem, b)
            /\ FreeLocal(list_del(mem, b), b)
            /\ ptr' = [ptr EXCEPT ![t] = mem'[b][2]]
            /\ UNCHANGED <<lock, pc, broken>>
         \/ /\ broken' = TRUE
            /\ UNCHANGED <<mem, chunk, lock, ptr, pc>>
  BY DEF Collect
<1>3. h \in Heaps /\ h # NoHeap /\ lock[h] = t
  BY <1>1, <1>2 DEF PcInv, PcOK, Typing
<1>4. \A u \in Threads \ {t} : pc[u] = "collect" => local_heap[u] \in Heaps /\ local_heap[u] # h
  BY <1>1, <1>3 DEF PcInv, PcOK, Typing, HeapInv, LocalHeaps
<1>5. HeadsOf(InUse) \in SUBSET AllHeads /\ Owned \in SUBSET Chunks
  BY InUseFacts
<1>9. \A u \in Threads \ {t} : pc[u] = "remote" =>
        /\ chunk[ptr[u][2]].owner \in Heaps /\ chunk[ptr[u][2]].owner # h
        /\ ptr[u][2] \in Chunks
  BY <1>3, UnderWay
<1>6. CASE /\ b = Remote(h)
           /\ lock' = [lock EXCEPT ![h] = NoOne]
           /\ pc' = [pc EXCEPT ![t] = "serve"]
           /\ ptr' = [ptr EXCEPT ![t] = NULL]
           /\ UNCHANGED <<mem, chunk, broken>>
  <2>. HIDE DEF h, b, k
  <2>1. Typing'
    BY <1>1, <1>2, <1>3, <1>6 DEF Typing
  <2>2. \A u \in Threads \ {t} : Aside(u)
    BY <1>1, <1>2, <1>3, <1>4, <1>6, <1>9 DEF Aside, Typing
  <2>3. PcOK(t)' /\ Steady(t) /\ pc'[t] \notin {"remote", "reset"}
    BY <1>1, <1>2, <1>3, <1>6 DEF PcOK, Typing, Steady, InPool, h
  <2>4. OwnerInv' /\ FgInv' /\ Owned' = Owned
    BY <1>2, <1>6 DEF Sound, OwnerInv, FgInv, Owned
  <2>5. InUse' = InUse
    BY <1>1, <1>2, <1>6 DEF InUse, Typing
  <2>6. MemOK(mem', at, HeadsOf(InUse), Owned') /\ Same(mem, mem', Plain)
        /\ ChunksOK(chunk', at) /\ HeldOK(chunk', at, held')
    BY <1>1, <1>2, <1>6, <2>4 DEF Same
  <2> QED
    <3>1. QuietStep
      BY <1>6, <2>5 DEF QuietStep, InUse
    <3> QED
      BY <1>2, <2>1, <2>2, <2>3, <2>4, <2>5, <2>6, <3>1, StepKept
<1>7. CASE /\ b # Remote(h) /\ ~Loose(mem, b)
           /\ FreeLocal(list_del(mem, b), b)
           /\ ptr' = [ptr EXCEPT ![t] = mem'[b][2]]
           /\ UNCHANGED <<lock, pc, broken>>
  <2>. DEFINE md  == list_del(mem, b)
              ad  == Put(at, b, NULL)
              att == Put(Put(ad, b, DHead(b[2])), ChunkNode(b[2]), ListOf(chunk'[b[2]]))
  <2>1. h \in InUse /\ b \in Items /\ at[b] = Remote(h)
    BY <1>0, <1>2, <1>7, NextRemote
  <2>2. Remote(h) # NULL /\ Remote(h) \in HeadsOf(InUse) /\ HeadsOf({h}) \subseteq HeadsOf(InUse)
        /\ Remote(h) \in AllHeads
    <3>1. Remote(h) \in HeadsOf(InUse) /\ HeadsOf({h}) \subseteq HeadsOf(InUse)
      BY <2>1 DEF HeadsOf
    <3> QED
      BY <1>5, <3>1, ItemsAreNodes, NodeSets
  <2>. HIDE DEF h, b
  <2>3. /\ b \in Blocks /\ k \in Chunks /\ chunk[k].owner = h /\ b \in CutTo(chunk[k], k)
        /\ k \in Owned
    <3>1. b \in Blocks /\ k \in Chunks /\ chunk[k].owner = h /\ b \in CutTo(chunk[k], k)
      BY <1>1, <2>1, <2>2, RemoteBlocks
    <3> QED
      BY <1>3, <3>1 DEF Owned
  <2>4. /\ MemOK(md, ad, HeadsOf(InUse), Owned)
        /\ Same(mem, md, Nodes \ (In(at, Remote(h)) \cup {Remote(h)}))
    BY <1>1, <1>5, <2>1, <2>2, MemDel
  <2>5. ChunksOK(chunk, ad)
    BY <1>1, <1>3, <2>1, <2>3, BlockMoved
  <2>6. ad[b] = NULL /\ b \notin held /\ \A x \in Items : x # b => ad[x] = at[x]
    BY <1>1, <2>1, <2>2 DEF Put, HeldOK
  <2>7. HeldOK(chunk, ad, held)
    BY <1>1, <2>6 DEF HeldOK, Items
  <2>. HIDE DEF md, ad
  <2>8. /\ MemOK(mem', att, HeadsOf(InUse), Owned) /\ ChunksOK(chunk', att)
        /\ HeldOK(chunk', att, held)
        /\ Same(md, mem', Plain \cup Remotes) /\ SecondIs(mem', b, DHead(b[2])) /\ FreeFrame
    <3>1. chunk \in [Chunks -> Headers] /\ FreeLocal(md, b)
      BY <1>1, <1>7 DEF Typing, md
    <3>2. b[2] \in Owned /\ chunk[b[2]].owner # NoHeap /\ b \in CutTo(chunk[b[2]], b[2])
          /\ HeadsOf({chunk[b[2]].owner}) \subseteq HeadsOf(InUse)
      BY <1>3, <2>2, <2>3
    <3> QED
      BY <1>5, <2>3, <2>4, <2>5, <2>6, <2>7, <3>1, <3>2, FreeLocalOK
  <2>. HIDE DEF att, k
  <2>9. Same(md, mem', Plain) /\ \A g \in Heaps : mem'[Remote(g)] = md[Remote(g)]
    BY <2>8, PlainRemotes
  <2>10. Same(mem, md, Plain) /\ \A g \in Heaps : g # h => md[Remote(g)] = mem[Remote(g)]
    <3>1. Plain \subseteq Nodes \ (In(at, Remote(h)) \cup {Remote(h)})
      BY <2>2, ItemsAreNodes DEF In
    <3>2. ASSUME NEW g \in Heaps, g # h
          PROVE  Remote(g) \in Nodes \ (In(at, Remote(h)) \cup {Remote(h)})
      <4>1. Remote(g) \in AllHeads
        BY <3>2 DEF AllHeads, HeadsOf
      <4>2. Remote(g) # Remote(h)
        BY <3>2, Kinds
      <4> QED
        BY <4>1, <4>2, ItemsAreNodes DEF In
    <3> QED
      BY <2>4, <3>1, <3>2 DEF Same
  <2>11. ptr' = [ptr EXCEPT ![t] = DHead(k)]
    BY <1>7, <2>8 DEF SecondIs, k
  <2>12. Typing'
    <3>1. DHead(k) \in Nodes
      BY <2>3, ItemsAreNodes
    <3> QED
      BY <1>1, <1>2, <1>7, <2>8, <2>11, <3>1 DEF Typing, FreeFrame
  <2>13. \A u \in Threads \ {t} : Aside(u)
    <3>1. \A j \in Chunks : chunk'[j].owner = chunk[j].owner
      BY <2>8 DEF FreeFrame
    <3> QED
      BY <1>1, <1>2, <1>4, <1>7, <1>9, <2>9, <2>10, <2>11, <3>1 DEF Aside, Typing
  <2>14. Owned' = Owned /\ OwnerInv' /\ FgInv' /\ InUse' = InUse
    BY <1>2, <1>7, <2>8, FreeKeeps
  <2>15. PcOK(t)' /\ Steady(t) /\ pc'[t] \notin {"remote", "reset"}
    BY <1>1, <1>2, <1>3, <1>7, <2>3, <2>11, <2>14 DEF PcOK, Typing, Steady, InPool, h
  <2>16. Same(mem, mem', Plain)
    BY <2>9, <2>10 DEF Same
  <2> QED
    <3>1. QuietStep
      BY <2>1, <2>9, <2>10, <2>14 DEF QuietStep, InUse
    <3> QED
      BY <1>2, <2>8, <2>12, <2>13, <2>14, <2>15, <2>16, <3>1, StepKept
<1>8. CASE broken' = TRUE /\ UNCHANGED <<mem, chunk, lock, ptr, pc>>
  BY <1>2, <1>8, StoppedOK
<1> QED
  BY <1>2, <1>6, <1>7, <1>8

-----------------------------------------------------------------------------
(* small_malloc after the collection *)

\* The items of a heap's background and free lists are its chunks, in the state that the
\* list is for.
LEMMA ListChunks ==
  ASSUME NEW ch, NEW at, ChunksOK(ch, at), NEW x \in Items, NEW h \in Heaps, NEW c \in Classes,
         at[x] \in {Background(h, c), FreeList(h)}
  PROVE  \E k \in Chunks : /\ x = ChunkNode(k) /\ ch[k].state = "BACK" /\ ch[k].owner = h
                           /\ ch[k].owner # NoHeap /\ ch[k].free_tot_cnt > 0
                           /\ at[x] = Background(h, c) => ch[k].size_cls = c
                           /\ at[x] = FreeList(h) => ch[k].free_tot_cnt = ch[k].blk_cnt
<1>1. at[x] # NULL /\ at[x][1] \in {"background", "free_list"} /\ at[x][2] = h
      /\ (at[x] = Background(h, c) => at[x][1] = "background" /\ at[x][3] = c)
      /\ (at[x] = FreeList(h) => at[x][1] = "free_list")
  <2>1. at[x] \in AllHeads
    BY HeapHeads
  <2>2. at[x] # NULL
    BY <2>1, ItemsAreNodes, NodeSets
  <2> QED
    BY <2>2, Kinds
<1>2. ASSUME x \in Blocks PROVE FALSE
  <2>1. x[2] \in Chunks
    BY <1>2, BlockKinds
  <2>2. at[x] \in {DHead(x[2]), Remote(ch[x[2]].owner)}
    BY <1>1, <1>2, <2>1 DEF ChunksOK, ChunkOK, BlocksOK
  <2> QED
    BY <1>1, <2>2, Kinds
<1>3. PICK k \in Chunks : x = ChunkNode(k)
  BY <1>2 DEF Items
<1>4. at[x] = ListOf(ch[k]) /\ CountsOK(ch[k], Cardinality(In(at, DHead(k))))
  BY <1>3 DEF ChunksOK, ChunkOK
<1>5. ch[k].state = "BACK"
  BY <1>1, <1>4 DEF ListOf
<1>6. ch[k].owner # NoHeap /\ ch[k].free_tot_cnt > 0
  BY <1>4, <1>5 DEF CountsOK
<1>7. \/ at[x] = FreeList(ch[k].owner) /\ ch[k].free_tot_cnt = ch[k].blk_cnt
      \/ at[x] = Background(ch[k].owner, ch[k].size_cls)
  BY <1>4, <1>5 DEF ListOf
<1>8. /\ ch[k].owner = h
      /\ at[x] = Background(h, c) => ch[k].size_cls = c
      /\ at[x] = FreeList(h) => ch[k].free_tot_cnt = ch[k].blk_cnt
  BY <1>1, <1>7, Kinds
<1> QED
  BY <1>3, <1>5, <1>6, <1>8

\* The headers when chunk old has lost the foreground.
FullOf(old) == IF old = Dummy THEN chunk ELSE [chunk EXCEPT ![old].state = "FULL"]

\* What the loss of the foreground leaves of a chunk's header.
LEMMA FullOK ==
  ASSUME chunk \in [Chunks -> Headers], NEW at, ChunksOK(chunk, at), NEW hd, HeldOK(chunk, at, hd),
         NEW old \in Chunks \cup {Dummy},
         old # Dummy => /\ chunk[old].owner # NoHeap /\ chunk[old].state = "FORG"
                        /\ chunk[old].free_tot_cnt = 0
  PROVE  /\ FullOf(old) \in [Chunks -> Headers] /\ ChunksOK(FullOf(old), at)
         /\ HeldOK(FullOf(old), at, hd)
         /\ \A j \in Chunks : /\ FullOf(old)[j].owner = chunk[j].owner
                              /\ FullOf(old)[j].size_cls = chunk[j].size_cls
                              /\ j # old => FullOf(old)[j] = chunk[j]
<1>1. CASE old = Dummy
  BY <1>1 DEF FullOf
<1>2. CASE old # Dummy
  <2>. DEFINE d == [chunk[old] EXCEPT !.state = "FULL"]
              f == FullOf(old)
  <2>1. old \in Chunks /\ chunk[old] \in Headers
    BY <1>2
  <2>2. f = [chunk EXCEPT ![old] = d]
    BY <1>2 DEF FullOf
  <2>3. /\ d \in Headers /\ d.state = "FULL" /\ d.owner = chunk[old].owner
        /\ d.size_cls = chunk[old].size_cls /\ d.blk_cnt = chunk[old].blk_cnt
        /\ d.free_mem_cnt = chunk[old].free_mem_cnt /\ d.free_tot_cnt = chunk[old].free_tot_cnt
    BY <2>1 DEF Headers
  <2>. HIDE DEF d, f
  <2>4. f \in [Chunks -> Headers] /\ f[old] = d /\ \A j \in Chunks : j # old => f[j] = chunk[j]
    BY <2>1, <2>2, <2>3
  <2>5. CutTo(d, old) = CutTo(chunk[old], old)
    BY <2>3 DEF CutTo
  <2>6. ChunkOK(d, at, old)
    <3>1. ChunkOK(chunk[old], at, old)
      BY <2>1 DEF ChunksOK
    <3>2. at[ChunkNode(old)] = ListOf(d)
      BY <1>2, <2>3, <3>1 DEF ChunkOK, ListOf
    <3>3. BlocksOK(d, at, old)
      BY <2>3, <2>5, <3>1 DEF ChunkOK, BlocksOK
    <3>4. CountsOK(d, Cardinality(In(at, DHead(old))))
      BY <1>2, <2>3, <3>1 DEF ChunkOK, CountsOK
    <3> QED
      BY <3>2, <3>3, <3>4 DEF ChunkOK
  <2>7. ChunksOK(f, at)
    BY <2>3, <2>4, <2>6 DEF ChunksOK
  <2>8. HeldOK(f, at, hd)
    <3>1. \A j \in Chunks : f[j].owner = chunk[j].owner /\ CutTo(f[j], j) = CutTo(chunk[j], j)
      BY <2>3, <2>4, <2>5
    <3> QED
      BY <3>1, BlockKinds DEF HeldOK
  <2> QED
    BY <2>3, <2>4, <2>7, <2>8 DEF f
<1> QED
  BY <1>1, <1>2

\* A chunk that leaves its list for the foreground.
LEMMA TakenOff ==
  ASSUME NEW ch \in [Chunks -> Headers], NEW at \in [Items -> Nodes \cup {NULL}], ChunksOK(ch, at),
         NEW hd, HeldOK(ch, at, hd), NEW k \in Chunks
  PROVE  LET att == Put(at, ChunkNode(k), NULL) IN
         /\ ChunksOK([ch EXCEPT ![k] = Forg(ch[k])], att) /\ HeldOK(ch, att, hd)
         /\ \A b \in Blocks : att[b] = at[b]
<1>. DEFINE n   == ChunkNode(k)
            att == Put(at, n, NULL)
            dd  == [ch EXCEPT ![k] = Forg(ch[k])]
            f   == Forg(ch[k])
<1>1. n \in Items /\ n[2] = k /\ \A b \in Blocks : b # n /\ b \in Items
  BY Kinds, BlockKinds DEF Items
<1>2. /\ att \in [Items -> Nodes \cup {NULL}] /\ att[n] = NULL
      /\ \A x \in Items : x # n => att[x] = at[x]
  BY <1>1 DEF Put
<1>. HIDE DEF att
<1>3. /\ f \in Headers /\ f.state = "FORG" /\ f.owner = ch[k].owner /\ f.size_cls = ch[k].size_cls
      /\ f.blk_cnt = ch[k].blk_cnt /\ f.free_mem_cnt = ch[k].free_mem_cnt
      /\ f.free_tot_cnt = ch[k].free_tot_cnt
  <2>1. ch[k] \in Headers
    OBVIOUS
  <2> QED
    BY <2>1 DEF Forg, Headers
<1>4. dd[k] = f /\ \A j \in Chunks : j # k => dd[j] = ch[j]
  OBVIOUS
<1>. HIDE DEF f, dd
<1>5. ChunkOK(ch[k], at, k)
  BY DEF ChunksOK
<1>6. \A j \in Chunks : at[n] # DHead(j) /\ att[n] # DHead(j)
  <2>1. \A j \in Chunks : DHead(j) # NULL /\ DHead(j)[1] = "dlist_head"
    BY Kinds, ItemsAreNodes, NodeSets
  <2>2. at[n] = ListOf(ch[k])
    BY <1>5 DEF ChunkOK, n
  <2> QED
    BY <1>2, <2>1, <2>2, ListKinds
<1>7. In(att, DHead(k)) = In(at, DHead(k))
  BY <1>2, <1>6 DEF In
<1>8. ChunkOK(f, att, k)
  <2>1. CountsOK(f, Cardinality(In(att, DHead(k))))
    BY <1>3, <1>5, <1>7 DEF ChunkOK, CountsOK
  <2>2. att[ChunkNode(k)] = ListOf(f)
    BY <1>2, <1>3 DEF ListOf, n
  <2>3. CutTo(f, k) = CutTo(ch[k], k)
    BY <1>3 DEF CutTo
  <2>4. BlocksOK(f, att, k)
    BY <1>1, <1>2, <1>3, <1>5, <2>3 DEF ChunkOK, BlocksOK
  <2> QED
    BY <2>1, <2>2, <2>4 DEF ChunkOK
<1>9. OthersOK(dd, att, k)
  <2>1. OthersOK(ch, at, k) /\ OthersAlike(ch, dd, k)
    BY <1>4 DEF OthersOK, OthersAlike, ChunksOK, Alike
  <2>2. Within(at, att, k)
    BY <1>1, <1>2, <1>6, ItemsApart DEF Within
  <2> QED
    BY <2>1, <2>2, OthersKept
<1>10. ChunksOK(dd, att)
  BY <1>3, <1>4, <1>8, <1>9 DEF ChunksOK, OthersOK
<1>11. \A b \in Blocks : att[b] = at[b]
  BY <1>1, <1>2
<1>12. HeldOK(ch, att, hd)
  BY <1>11 DEF HeldOK
<1> QED
  BY <1>10, <1>11, <1>12 DEF att, dd, f, n

\* The headers when chunk k is cut for class c of heap h.
Recut(ch, k, h, c) == [ch EXCEPT ![k] = Cut(ch[k], h, c)]

\* Chunk k has no block out or in a list but its own.
Whole(ch, at, k, hd) ==
  /\ ch \in [Chunks -> Headers] /\ at \in [Items -> Nodes \cup {NULL}]
  /\ ChunksOK([ch EXCEPT ![k] = Forg(ch[k])], at) /\ HeldOK(ch, at, hd)
  /\ \A b \in Blocks : b[2] = k => at[b] \in {NULL, DHead(k)}
  /\ \A b \in hd : b[2] # k

\* Chunk k is all free for class c of heap h, and the others are as in ch.
Anew(headers, ch, at, k, hd, h, c) ==
  /\ headers \in [Chunks -> Headers]
  /\ ChunksOK([headers EXCEPT ![k] = Forg(headers[k])], at) /\ HeldOK(headers, at, hd)
  /\ headers[k].owner = h /\ headers[k].size_cls = c /\ headers[k].free_tot_cnt > 0
  /\ \A j \in Chunks : j # k => headers[j] = ch[j]

\* A chunk that is cut, or cut again, for class c of heap h.
LEMMA CutOK ==
  ASSUME NEW ch, NEW at, NEW k \in Chunks, NEW hd, Whole(ch, at, k, hd),
         NEW h \in Heaps, h # NoHeap, NEW c \in Classes
  PROVE  Anew(Recut(ch, k, h, c), ch, Emptied(at, k), k, hd, h, c)
<1>0. /\ ch \in [Chunks -> Headers] /\ at \in [Items -> Nodes \cup {NULL}]
      /\ ChunksOK([ch EXCEPT ![k] = Forg(ch[k])], at) /\ HeldOK(ch, at, hd)
      /\ (\A b \in Blocks : b[2] = k => at[b] \in {NULL, DHead(k)}) /\ \A b \in hd : b[2] # k
  BY DEF Whole
<1>. DEFINE headers == [ch EXCEPT ![k] = Cut(ch[k], h, c)]
            d   == Cut(ch[k], h, c)
            f   == Forg(d)
            att == Emptied(at, k)
            old == [ch EXCEPT ![k] = Forg(ch[k])]
            new == [headers EXCEPT ![k] = Forg(headers[k])]
<1>1. ch[k] \in Headers
  BY <1>0
<1>2. Count(c) \in 0 .. CHUNK_DATA_SIZE /\ Count(c) \in Nat /\ Count(c) > 0
  BY CountBounds, TrAssumption
<1>3. /\ d \in Headers /\ d.owner = h /\ d.size_cls = c /\ d.blk_cnt = Count(c)
      /\ d.free_mem_cnt = Count(c) /\ d.free_tot_cnt = Count(c) /\ d.state = ch[k].state
  BY <1>1, <1>2 DEF Cut, Headers
<1>4. /\ headers \in [Chunks -> Headers] /\ headers[k] = d
      /\ \A j \in Chunks : j # k => headers[j] = ch[j]
  BY <1>0, <1>3
<1>. HIDE DEF d
<1>5. /\ f \in Headers /\ f.owner = h /\ f.size_cls = c /\ f.blk_cnt = Count(c)
      /\ f.free_mem_cnt = Count(c) /\ f.free_tot_cnt = Count(c) /\ f.state = "FORG"
  BY <1>3 DEF Forg, Headers
<1>6. new[k] = f /\ \A j \in Chunks : j # k => new[j] = ch[j] /\ old[j] = ch[j]
  BY <1>0, <1>4
<1>. HIDE DEF f, headers, new
<1>7. /\ att \in [Items -> Nodes \cup {NULL}]
      /\ \A x \in Items : att[x] = IF at[x] = DHead(k) THEN NULL ELSE at[x]
      /\ DHead(k) # NULL
  BY <1>0, ItemsAreNodes, NodeSets DEF Emptied
<1>. HIDE DEF att
<1>8. \A b \in Blocks : b \in Items /\ (b[2] = k => att[b] = NULL)
  BY <1>0, <1>7 DEF Items
<1>9. /\ In(at, DHead(k)) \subseteq Blocks /\ \A b \in In(at, DHead(k)) : b[2] = k
      /\ ChunksOK(old, at)
  BY <1>0, InChain
<1>10. at[ChunkNode(k)] = NULL /\ ChunkNode(k) \in Items /\ att[ChunkNode(k)] = NULL
  <2>1. ChunkOK(Forg(ch[k]), at, k)
    BY <1>0 DEF ChunksOK
  <2>2. Forg(ch[k]).state = "FORG"
    BY <1>1 DEF Forg, Headers
  <2>3. at[ChunkNode(k)] = NULL
    BY <2>1, <2>2 DEF ChunkOK, ListOf
  <2> QED
    BY <1>7, <2>3 DEF Items
<1>11. In(att, DHead(k)) = {}
  BY <1>7 DEF In
<1>12. ChunkOK(f, att, k)
  <2>1. Cardinality(In(att, DHead(k))) = 0
    BY <1>11, FS_EmptySet
  <2>2. CountsOK(f, Cardinality(In(att, DHead(k))))
    BY <1>2, <1>5, <2>1 DEF CountsOK
  <2>3. ListOf(f) = NULL
    BY <1>5 DEF ListOf
  <2>4. BlocksOK(f, att, k)
    BY <1>8 DEF BlocksOK
  <2> QED
    BY <1>10, <2>2, <2>3, <2>4 DEF ChunkOK
<1>. HIDE DEF old
<1>13. OthersOK(new, att, k)
  <2>1. OthersOK(old, at, k)
    BY <1>9 DEF OthersOK, ChunksOK
  <2>2. OthersAlike(old, new, k)
    BY <1>0, <1>6 DEF OthersAlike, Alike
  <2>3. ASSUME NEW x \in Items, x[2] # k PROVE att[x] = at[x]
    BY <1>7, <1>9, <2>3 DEF In
  <2>4. ASSUME NEW x \in Items, NEW j \in Chunks, x[2] = k, j # k
        PROVE  at[x] # DHead(j) /\ att[x] # DHead(j)
    <3>1. at[x] # DHead(j)
      BY <1>9, <2>4, ItemsApart
    <3>2. DHead(j) # NULL
      BY ItemsAreNodes, NodeSets
    <3> QED
      BY <1>7, <3>1, <3>2
  <2>5. Within(at, att, k)
    BY <2>3, <2>4 DEF Within
  <2> QED
    BY <2>1, <2>2, <2>5, OthersKept
<1>14. ChunksOK(new, att)
  BY <1>5, <1>6, <1>12, <1>13 DEF ChunksOK, OthersOK
<1>15. HeldOK(headers, att, hd)
  <2>1. ASSUME NEW b \in hd
        PROVE  /\ b \in Blocks /\ att[b] = NULL
               /\ headers[b[2]].owner # NoHeap /\ b \in CutTo(headers[b[2]], b[2])
    <3>1. /\ b \in Blocks /\ at[b] = NULL /\ b[2] \in Chunks /\ b[2] # k
          /\ ch[b[2]].owner # NoHeap /\ b \in CutTo(ch[b[2]], b[2])
      BY <1>0, BlockKinds DEF HeldOK
    <3> QED
      BY <1>4, <1>7, <1>8, <3>1
  <2> QED
    BY <2>1 DEF HeldOK
<1> QED
  BY <1>2, <1>3, <1>4, <1>14, <1>15 DEF headers, att, new, Anew, Recut

\* Headers that chunk k can be served from: the other chunks have the owners they had,
\* and no other foreground is disturbed.
Ready(headers, at, t, k) ==
  /\ headers \in [Chunks -> Headers] /\ k \in Chunks
  /\ ChunksOK([headers EXCEPT ![k] = Forg(headers[k])], at) /\ HeldOK(headers, at, held)
  /\ headers[k].owner = local_heap[t] /\ headers[k].size_cls = cls[t] /\ headers[k].free_tot_cnt > 0
  /\ chunk[k].owner \in {NoHeap, local_heap[t]}
  /\ \A j \in Chunks : j # k => /\ headers[j].owner = chunk[j].owner
                                /\ headers[j].size_cls = chunk[j].size_cls
  /\ \A h \in Heaps, c \in Classes :
       foreground[h][c] # Dummy /\ (h # local_heap[t] \/ c # cls[t]) =>
         foreground[h][c] # k /\ headers[foreground[h][c]].state = "FORG"

\* The end of small_malloc, whichever chunk serves.
LEMMA ServedOK ==
  ASSUME Sound, ~broken, NEW t \in Threads, pc[t] = "serve",
         NEW m, NEW headers, NEW at, NEW k, Ready(headers, at, t, k),
         MemOK(m, at, HeadsOf(InUse), Owned \cup {k}), Same(mem, m, Plain \cup Remotes),
         Alloc(t, m, headers, k),
         foreground' = [foreground EXCEPT ![local_heap[t]][cls[t]] = k],
         pc' = [pc EXCEPT ![t] = "idle"],
         gpool' \in [free_start : 1 .. CHUNKS + 1, pool_end : Nat],
         gpool'.free_start <= gpool'.pool_end + 1,
         \A j \in Chunks : headers[j].owner = NoHeap <=> j >= gpool'.free_start,
         UNCHANGED <<heap_pool, lock, local_heap, cls, ptr, broken>>
  PROVE  Sound' /\ QuietStep
<1>. DEFINE h   == local_heap[t]
            c   == cls[t]
            own == Owned \cup {k}
            att == Put(at, ObjOf(m, headers[k], k), NULL)
<1>1. Typing /\ PcInv /\ FgInv
  BY DEF Sound
<1>2. h \in Heaps /\ h # NoHeap /\ c \in Classes /\ h \in InUse
  BY <1>1 DEF Typing, PcInv, PcOK, InUse
<1>3. /\ headers \in [Chunks -> Headers] /\ k \in Chunks
      /\ headers[k].owner = h /\ headers[k].size_cls = c /\ headers[k].free_tot_cnt > 0
      /\ \A j \in Chunks : j # k => /\ headers[j].owner = chunk[j].owner
                                    /\ headers[j].size_cls = chunk[j].size_cls
  BY DEF Ready
<1>4. /\ MemOK(mem', att, HeadsOf(InUse), own)
      /\ ChunksOK(chunk', att) /\ HeldOK(chunk', att, held')
      /\ Same(m, mem', Nodes \ (Items \cup Ends))
      /\ AllocFrame(headers, k)
  <2>1. /\ HeadsOf(InUse) \in SUBSET AllHeads /\ own \in SUBSET Chunks /\ k \in own
        /\ headers[k].owner # NoHeap
    BY <1>2, <1>3, InUseFacts
  <2>2. ChunksOK([headers EXCEPT ![k] = Forg(headers[k])], at) /\ HeldOK(headers, at, held)
    BY DEF Ready
  <2>. HIDE DEF own
  <2>3. MemOK(m, at, HeadsOf(InUse), own)
    BY DEF own
  <2> QED
    BY <1>3, <2>1, <2>2, <2>3, AllocOK
<1>5. /\ chunk' \in [Chunks -> Headers] /\ chunk'[k].state = "FORG"
      /\ \A j \in Chunks : /\ chunk'[j].owner = headers[j].owner
                           /\ chunk'[j].size_cls = headers[j].size_cls
                           /\ j # k => chunk'[j].state = headers[j].state
  BY <1>4 DEF AllocFrame
<1>. HIDE DEF att, h, c
<1>6. Same(mem, mem', Plain \cup Remotes)
  <2>1. Plain \cup Remotes \subseteq Nodes \ (Items \cup Ends)
    <3>1. Remotes \subseteq AllHeads
      BY DEF Remotes, AllHeads, HeadsOf
    <3> QED
      BY <3>1, ItemsAreNodes DEF Ends
  <2> QED
    BY <1>4, <2>1 DEF Same
<1>7. Same(mem, mem', Plain) /\ \A g \in Heaps : mem'[Remote(g)] = mem[Remote(g)]
  BY <1>6, PlainRemotes
<1>8. foreground' \in [Heaps -> [Classes -> Chunks \cup {Dummy}]]
      /\ \A g \in Heaps, d \in Classes :
           foreground'[g][d] = IF g = h /\ d = c THEN k ELSE foreground[g][d]
  <2>. DEFINE row == [foreground[h] EXCEPT ![c] = k]
  <2>1. foreground \in [Heaps -> [Classes -> Chunks \cup {Dummy}]]
    BY <1>1 DEF Typing
  <2>2. foreground' = [foreground EXCEPT ![h] = row]
    BY DEF h, c
  <2>3. row \in [Classes -> Chunks \cup {Dummy}]
        /\ \A d \in Classes : row[d] = IF d = c THEN k ELSE foreground[h][d]
    BY <1>2, <1>3, <2>1
  <2>. HIDE DEF row
  <2> QED
    BY <1>2, <2>1, <2>2, <2>3
<1>9. Typing'
  BY <1>1, <1>5, <1>8 DEF Typing
<1>10. \A u \in Threads \ {t} : Aside(u)
  <2>1. \A u \in Threads : pc[u] = "collect" => local_heap[u] \in Heaps
    BY <1>1 DEF Typing, PcInv, PcOK
  <2>2. ASSUME NEW u \in Threads, pc[u] = "remote"
        PROVE  chunk'[ptr[u][2]].owner = chunk[ptr[u][2]].owner
    <3>1. ptr[u][2] \in Chunks /\ chunk[ptr[u][2]].owner # NoHeap
      BY <2>2, UnderWay
    <3>2. chunk[k].owner \in {NoHeap, h}
      BY DEF Ready, h
    <3> QED
      BY <1>3, <1>5, <3>1, <3>2 DEF h
  <2>3. held \subseteq held'
    BY DEF Alloc
  <2>4. \A u \in Threads \ {t} : pc'[u] = pc[u] /\ ptr'[u] = ptr[u]
    BY <1>1 DEF Typing
  <2> QED
    BY <1>7, <2>1, <2>2, <2>3, <2>4 DEF Aside
<1>11. PcOK(t)' /\ Steady(t) /\ pc'[t] \notin {"remote", "reset"}
  <2>1. pc'[t] = "idle"
    BY <1>1 DEF Typing
  <2> QED
    BY <2>1 DEF PcOK, Steady, InPool
<1>12. Owned' = own
  BY <1>2, <1>3, <1>5 DEF Owned
<1>13. InUse' \subseteq InUse
  <2>1. \A j \in Chunks : chunk'[j].owner = IF j = k THEN h ELSE chunk[j].owner
    BY <1>3, <1>5 DEF h
  <2>2. \A u \in Threads : local_heap'[u] = local_heap[u]
                          /\ (pc'[u] \notin {"init", "reset"} => pc[u] \notin {"init", "reset"})
    BY <1>1 DEF Typing
  <2> QED
    BY <1>2, <2>1, <2>2 DEF InUse
<1>14. OwnerInv'
  BY <1>5 DEF OwnerInv
<1>15. FgInv'
  <2>1. ASSUME NEW g \in Heaps, NEW d \in Classes, foreground'[g][d] # Dummy
        PROVE  /\ chunk'[foreground'[g][d]].owner = g /\ chunk'[foreground'[g][d]].size_cls = d
               /\ chunk'[foreground'[g][d]].state = "FORG"
    <3>1. CASE g = h /\ d = c
      BY <1>3, <1>5, <1>8, <3>1 DEF h, c
    <3>2. CASE ~(g = h /\ d = c)
      <4>. DEFINE j == foreground[g][d]
      <4>1. j \in Chunks /\ foreground'[g][d] = j /\ j # Dummy
        BY <1>1, <1>8, <2>1, <3>2 DEF Typing
      <4>2. j # k /\ headers[j].state = "FORG"
        BY <3>2, <4>1 DEF Ready, h, c
      <4>3. chunk[j].owner = g /\ chunk[j].size_cls = d
        BY <1>1, <4>1 DEF FgInv
      <4>. HIDE DEF j
      <4> QED
        BY <1>3, <1>5, <4>1, <4>2, <4>3
    <3> QED
      BY <3>1, <3>2
  <2> QED
    BY <2>1 DEF FgInv
<1>16. QuietStep
  <2>1. h \in InUse'
    <3>1. pc'[t] = "idle"
      BY <1>1 DEF Typing
    <3> QED
      BY <1>2, <3>1 DEF InUse, h
  <2>2. \A j \in Chunks : chunk[j].owner \in {NoHeap, h, chunk'[j].owner}
    BY <1>3, <1>5 DEF Ready, h
  <2>3. \A g \in Heaps : g # NoHeap
    BY TrAssumption DEF Heaps, NoHeap
  <2>4. ASSUME NEW g \in Heaps \ InUse', NEW j \in Chunks, chunk[j].owner = g PROVE FALSE
    <3>1. g # h /\ g # NoHeap /\ chunk'[j].owner = g
      BY <2>1, <2>2, <2>3, <2>4
    <3> QED
      BY <2>4, <3>1 DEF InUse
  <2> QED
    BY <1>7, <2>4 DEF QuietStep
<1> QED
  BY <1>16, <1>4, <1>7, <1>9, <1>10, <1>11, <1>12, <1>13, <1>14, <1>15, StepKept

\* The foreground chunk of the class that thread t asks for.
OldOf(t) == foreground[local_heap[t]][cls[t]]

\* Replace when the list gave something that is no chunk.
LEMMA ReplaceStops ==
  ASSUME NEW t, NEW m, NEW n, NEW owner, Replace(t, m, n, owner), n[1] # "chunk"
  PROVE  broken' = TRUE /\ UNCHANGED <<mem, chunk, foreground, held, pc>>
  BY DEF Replace

\* Chunk k gets the foreground, and the call ends.
Chosen(t, k) == /\ foreground' = [foreground EXCEPT ![local_heap[t]][cls[t]] = k]
                /\ pc' = [pc EXCEPT ![t] = "idle"] /\ broken' = broken

\* Replace with a chunk of the background, which is not cut again.
LEMMA ReplaceKeeps ==
  ASSUME NEW t, NEW m, NEW n, Replace(t, m, n, NoHeap), n[1] = "chunk"
  PROVE  Chosen(t, n[2]) /\ Alloc(t, m, FullOf(OldOf(t)), n[2])
  BY DEF Replace, FullOf, OldOf, Goto, Chosen

\* Replace with a chunk that is cut for its owner.
LEMMA ReplaceCuts ==
  ASSUME NEW t, NEW m, NEW n, NEW owner, owner # NoHeap, Replace(t, m, n, owner), n[1] = "chunk"
  PROVE  /\ Chosen(t, n[2])
         /\ Alloc(t, dlist_init(m, DHead(n[2]), DTail(n[2])),
                  Recut(FullOf(OldOf(t)), n[2], owner, cls[t]), n[2])
  BY DEF Replace, FullOf, OldOf, Goto, Chosen, Recut

\* The chunk that had the foreground is FULL, and the others keep theirs.
LEMMA OldOK ==
  ASSUME Sound, ~broken, NEW t \in Threads, pc[t] = "serve", NEW at, ListsOK(at),
         OldOf(t) = Dummy \/ FreeTot(OldOf(t)) = 0
  PROVE  LET full == FullOf(OldOf(t)) IN
         /\ full \in [Chunks -> Headers] /\ ChunksOK(full, at) /\ HeldOK(full, at, held)
         /\ \A j \in Chunks : /\ full[j].owner = chunk[j].owner
                              /\ full[j].size_cls = chunk[j].size_cls
                              /\ chunk[j].state # "FORG" \/ chunk[j].owner = NoHeap =>
                                   j # OldOf(t) /\ full[j] = chunk[j]
         /\ \A h \in Heaps, c \in Classes :
              foreground[h][c] # Dummy /\ (h # local_heap[t] \/ c # cls[t]) =>
                /\ chunk[foreground[h][c]].state = "FORG" /\ chunk[foreground[h][c]].owner # NoHeap
                /\ full[foreground[h][c]].state = "FORG"
<1>. DEFINE old == OldOf(t)
            full == FullOf(old)
<1>1. Typing /\ PcInv /\ FgInv /\ \A h \in Heaps : h # NoHeap
  BY TrAssumption DEF Sound, Heaps, NoHeap
<1>2. local_heap[t] \in Heaps /\ cls[t] \in Classes /\ old \in Chunks \cup {Dummy}
  BY <1>1 DEF Typing, PcInv, PcOK, OldOf
<1>3. old # Dummy => /\ chunk[old].owner = local_heap[t] /\ chunk[old].size_cls = cls[t]
                     /\ chunk[old].owner # NoHeap /\ chunk[old].state = "FORG"
                     /\ chunk[old].free_tot_cnt = 0
  BY <1>1, <1>2 DEF FgInv, OldOf, FreeTot
<1>. HIDE DEF old
<1>4. /\ full \in [Chunks -> Headers] /\ ChunksOK(full, at) /\ HeldOK(full, at, held)
      /\ \A j \in Chunks : /\ full[j].owner = chunk[j].owner
                           /\ full[j].size_cls = chunk[j].size_cls
                           /\ j # old => full[j] = chunk[j]
  <2>1. chunk \in [Chunks -> Headers] /\ ChunksOK(chunk, at) /\ HeldOK(chunk, at, held)
    BY <1>1 DEF Typing, ListsOK
  <2> QED
    BY <1>2, <1>3, <2>1, FullOK
<1>. HIDE DEF full
<1>5. \A j \in Chunks : chunk[j].state # "FORG" \/ chunk[j].owner = NoHeap =>
                          j # old /\ full[j] = chunk[j]
  <2>1. \A j \in Chunks : j # Dummy
    BY TrAssumption DEF Chunks, Dummy
  <2> QED
    BY <1>3, <1>4, <2>1
<1>6. ASSUME NEW h \in Heaps, NEW c \in Classes, foreground[h][c] # Dummy,
             h # local_heap[t] \/ c # cls[t]
      PROVE  /\ chunk[foreground[h][c]].state = "FORG" /\ chunk[foreground[h][c]].owner # NoHeap
             /\ full[foreground[h][c]].state = "FORG"
  <2>. DEFINE j == foreground[h][c]
  <2>1. /\ j \in Chunks /\ j # Dummy /\ chunk[j].owner = h /\ chunk[j].size_cls = c
        /\ chunk[j].state = "FORG" /\ h # NoHeap
    BY <1>1, <1>6 DEF Typing, FgInv
  <2>. HIDE DEF j
  <2>2. j # old
    BY <1>3, <1>6, <2>1
  <2>3. full[j] = chunk[j]
    BY <1>4, <2>1, <2>2
  <2> QED
    BY <2>1, <2>3 DEF j
<1> QED
  BY <1>4, <1>5, <1>6 DEF old, full

\* The first chunk of a list of the heap, taken off it.
LEMMA FirstTaken ==
  ASSUME Sound, ~broken, NEW t \in Threads, pc[t] = "serve", NEW at, ListsOK(at),
         OldOf(t) = Dummy \/ FreeTot(OldOf(t)) = 0,
         NEW H \in {Background(local_heap[t], cls[t]), FreeList(local_heap[t])},
         mem[H][2][1] = "chunk"
  PROVE  LET n == mem[H][2]
             k == n[2]
             full == FullOf(OldOf(t))
             att == Put(at, n, NULL)
         IN /\ k \in Owned /\ chunk[k].state = "BACK" /\ chunk[k].owner = local_heap[t]
            /\ full[k] = chunk[k] /\ chunk[k].free_tot_cnt > 0
            /\ H = Background(local_heap[t], cls[t]) => chunk[k].size_cls = cls[t]
            /\ H = FreeList(local_heap[t]) => chunk[k].free_tot_cnt = chunk[k].blk_cnt
            /\ MemOK(list_del(mem, n), att, HeadsOf(InUse), Owned)
            /\ Same(mem, list_del(mem, n), Plain \cup Remotes)
            /\ ChunksOK([full EXCEPT ![k] = Forg(full[k])], att) /\ HeldOK(full, att, held)
            /\ \A b \in Blocks : att[b] = at[b]
<1>. DEFINE h    == local_heap[t]
            c    == cls[t]
            n    == mem[H][2]
            k    == n[2]
            full == FullOf(OldOf(t))
<1>1. /\ Typing /\ PcInv /\ MemOK(mem, at, HeadsOf(InUse), Owned) /\ ChunksOK(chunk, at)
      /\ HeldOK(chunk, at, held) /\ at \in [Items -> Nodes \cup {NULL}]
  BY DEF Sound, ListsOK
<1>2. h \in Heaps /\ h # NoHeap /\ c \in Classes /\ h \in InUse
  BY <1>1 DEF Typing, PcInv, PcOK, InUse
<1>. HIDE DEF h, c
<1>3. H \in {Background(h, c), FreeList(h)} /\ mem[H][2][1] = "chunk"
  BY DEF h, c
<1>4. HeadsOf(InUse) \in SUBSET AllHeads /\ HeadsOf({h}) \subseteq HeadsOf(InUse)
      /\ Owned \in SUBSET Chunks
  BY <1>2, InUseFacts
<1>5. H \in HeadsOf(InUse) /\ H \notin Plain \cup Remotes \cup Items
  BY <1>2, <1>3, <1>4, HeapHeads
<1>6. n \in In(at, H)
  <2>1. Region(mem, H, In(at, H))
    BY <1>1, <1>5 DEF MemOK
  <2>2. n \in In(at, H) \cup {H}
    BY <2>1 DEF Region
  <2>3. H[1] # "chunk"
    BY <1>3, Kinds
  <2> QED
    BY <1>3, <2>2, <2>3
<1>7. n \in Items /\ at[n] = H
  BY <1>6 DEF In
<1>. HIDE DEF n
<1>8. PICK j \in Chunks : /\ n = ChunkNode(j) /\ chunk[j].state = "BACK" /\ chunk[j].owner = h
                          /\ chunk[j].owner # NoHeap /\ chunk[j].free_tot_cnt > 0
                          /\ at[n] = Background(h, c) => chunk[j].size_cls = c
                          /\ at[n] = FreeList(h) => chunk[j].free_tot_cnt = chunk[j].blk_cnt
  BY <1>1, <1>2, <1>3, <1>7, ListChunks
<1>9. k = j
  BY <1>8, Kinds
<1>10. k \in Owned /\ k \in Chunks /\ n = ChunkNode(k)
  BY <1>8, <1>9 DEF Owned
<1>11. /\ MemOK(list_del(mem, n), Put(at, n, NULL), HeadsOf(InUse), Owned)
       /\ Same(mem, list_del(mem, n), Nodes \ (In(at, H) \cup {H}))
  BY <1>1, <1>4, <1>5, <1>7, MemDel
<1>12. Same(mem, list_del(mem, n), Plain \cup Remotes)
  <2>1. Plain \cup Remotes \subseteq Nodes \ (In(at, H) \cup {H})
    <3>1. Remotes \subseteq AllHeads
      BY DEF Remotes, AllHeads, HeadsOf
    <3> QED
      BY <1>5, <3>1, ItemsAreNodes DEF In
  <2> QED
    BY <1>11, <2>1 DEF Same
<1>13. /\ full \in [Chunks -> Headers] /\ ChunksOK(full, at) /\ HeldOK(full, at, held)
       /\ \A i \in Chunks : chunk[i].state # "FORG" => full[i] = chunk[i]
  BY OldOK
<1>. HIDE DEF k, full
<1>14. full[k] = chunk[k]
  BY <1>8, <1>9, <1>10, <1>13
<1>15. /\ ChunksOK([full EXCEPT ![k] = Forg(full[k])], Put(at, n, NULL))
       /\ HeldOK(full, Put(at, n, NULL), held)
       /\ \A b \in Blocks : Put(at, n, NULL)[b] = at[b]
  BY <1>1, <1>10, <1>13, TakenOff
<1> QED
  BY <1>7, <1>8, <1>9, <1>10, <1>11, <1>12, <1>14, <1>15 DEF h, c, n, k, full

\* Nothing written.
LEMMA SameSelf == ASSUME NEW m, NEW D PROVE Same(m, m, D)
  BY DEF Same

\* dlist_init writes no pool node and no remote_free.
LEMMA EndsInitialised ==
  ASSUME NEW m, NEW mm, NEW k \in Chunks, Same(mem, m, Plain \cup Remotes),
         Same(m, mm, Nodes \ {DHead(k), DTail(k)})
  PROVE  Same(mem, mm, Plain \cup Remotes)
<1>1. Remotes \subseteq AllHeads
  BY DEF Remotes, AllHeads, HeadsOf
<1>2. Plain \cup Remotes \subseteq Nodes \ {DHead(k), DTail(k)}
  BY <1>1, ItemsAreNodes
<1> QED
  BY <1>2 DEF Same

\* From the chunk that has the foreground.
LEMMA ServeForeground ==
  ASSUME Sound, ~broken, NEW t \in Threads, pc[t] = "serve", NEW at, ListsOK(at),
         OldOf(t) # Dummy, FreeTot(OldOf(t)) > 0, Alloc(t, mem, chunk, OldOf(t)),
         pc' = [pc EXCEPT ![t] = "idle"],
         UNCHANGED <<gpool, heap_pool, foreground, lock, local_heap, cls, ptr, broken>>
  PROVE  Sound' /\ QuietStep
<1>. DEFINE h == local_heap[t]
            c == cls[t]
            k == OldOf(t)
<1>1. Typing /\ PcInv /\ FgInv /\ OwnerInv /\ \A g \in Heaps : g # NoHeap
  BY TrAssumption DEF Sound, Heaps, NoHeap
<1>2. h \in Heaps /\ c \in Classes /\ k \in Chunks
  BY <1>1 DEF Typing, PcInv, PcOK, OldOf
<1>3. /\ chunk[k].owner = h /\ chunk[k].size_cls = c /\ chunk[k].owner # NoHeap
      /\ chunk[k].state = "FORG" /\ chunk[k].free_tot_cnt > 0
  BY <1>1, <1>2 DEF FgInv, OldOf, FreeTot
<1>4. foreground' = [foreground EXCEPT ![h][c] = k]
  <2>1. [foreground[h] EXCEPT ![c] = foreground[h][c]] = foreground[h]
    BY <1>1, <1>2 DEF Typing
  <2>2. [foreground EXCEPT ![h] = foreground[h]] = foreground
    BY <1>1, <1>2 DEF Typing
  <2> QED
    BY <2>1, <2>2 DEF OldOf
<1>5. /\ chunk \in [Chunks -> Headers] /\ ChunksOK(chunk, at) /\ HeldOK(chunk, at, held)
      /\ MemOK(mem, at, HeadsOf(InUse), Owned)
  BY <1>1 DEF Typing, ListsOK
<1>6. Forg(chunk[k]) = chunk[k] /\ [chunk EXCEPT ![k] = Forg(chunk[k])] = chunk
  <2>1. chunk[k] \in Headers
    BY <1>2, <1>5
  <2>2. Forg(chunk[k]) = chunk[k]
    BY <1>3, <2>1 DEF Forg, Headers
  <2> QED
    BY <1>2, <1>5, <2>2
<1>7. \A g \in Heaps, d \in Classes : foreground[g][d] # Dummy /\ (g # h \/ d # c) =>
         foreground[g][d] # k /\ chunk[foreground[g][d]].state = "FORG"
  BY <1>1, <1>3 DEF FgInv
<1>8. Ready(chunk, at, t, k)
  BY <1>2, <1>3, <1>5, <1>6, <1>7 DEF Ready
<1>9. Owned \cup {k} = Owned
  BY <1>2, <1>3 DEF Owned
<1>10. Same(mem, mem, Plain \cup Remotes)
  BY SameSelf
<1>11. /\ gpool' \in [free_start : 1 .. CHUNKS + 1, pool_end : Nat]
       /\ gpool'.free_start <= gpool'.pool_end + 1
       /\ \A j \in Chunks : chunk[j].owner = NoHeap <=> j >= gpool'.free_start
  BY <1>1 DEF Typing, OwnerInv
<1>. HIDE DEF k
<1> QED
  BY <1>4, <1>5, <1>8, <1>9, <1>10, <1>11, ServedOK DEF k

\* From a list of the heap: the background, ...
LEMMA ServeBackground ==
  ASSUME Sound, ~broken, NEW t \in Threads, pc[t] = "serve", NEW at, ListsOK(at),
         OldOf(t) = Dummy \/ FreeTot(OldOf(t)) = 0, NEW H, H = Background(local_heap[t], cls[t]),
         Replace(t, list_del(mem, mem[H][2]), mem[H][2], NoHeap),
         UNCHANGED <<gpool, heap_pool, lock, local_heap, cls, ptr>>
  PROVE  Sound' /\ QuietStep
<1>. DEFINE n    == mem[H][2]
            k    == n[2]
            full == FullOf(OldOf(t))
            att  == Put(at, n, NULL)
<1>1. CASE n[1] # "chunk"
  <2>1. broken' = TRUE /\ UNCHANGED <<mem, chunk, foreground, held, pc>>
    BY <1>1, ReplaceStops
  <2> QED
    BY <2>1, StoppedOK
<1>2. CASE n[1] = "chunk"
  <2>0. Chosen(t, k) /\ Alloc(t, list_del(mem, n), full, k)
    BY <1>2, ReplaceKeeps
  <2>1. /\ k \in Owned /\ chunk[k].state = "BACK" /\ chunk[k].owner = local_heap[t]
        /\ full[k] = chunk[k] /\ chunk[k].free_tot_cnt > 0 /\ chunk[k].size_cls = cls[t]
        /\ MemOK(list_del(mem, n), att, HeadsOf(InUse), Owned)
        /\ Same(mem, list_del(mem, n), Plain \cup Remotes)
        /\ ChunksOK([full EXCEPT ![k] = Forg(full[k])], att) /\ HeldOK(full, att, held)
    BY <1>2, FirstTaken
  <2>. HIDE DEF n, k, full, att
  <2>2. /\ full \in [Chunks -> Headers]
        /\ \A j \in Chunks : full[j].owner = chunk[j].owner /\ full[j].size_cls = chunk[j].size_cls
        /\ \A h \in Heaps, c \in Classes :
             foreground[h][c] # Dummy /\ (h # local_heap[t] \/ c # cls[t]) =>
               /\ chunk[foreground[h][c]].state = "FORG"
               /\ full[foreground[h][c]].state = "FORG"
    BY OldOK DEF full
  <2>3. k \in Chunks /\ Owned \cup {k} = Owned
    BY <2>1 DEF Owned
  <2>4. Ready(full, att, t, k)
    BY <2>1, <2>2, <2>3 DEF Ready
  <2>5. /\ gpool' \in [free_start : 1 .. CHUNKS + 1, pool_end : Nat]
        /\ gpool'.free_start <= gpool'.pool_end + 1
        /\ \A j \in Chunks : full[j].owner = NoHeap <=> j >= gpool'.free_start
    BY <2>2 DEF Sound, Typing, OwnerInv
  <2> QED
    BY <2>0, <2>1, <2>3, <2>4, <2>5, ServedOK DEF Chosen
<1> QED
  BY <1>1, <1>2

\* ... or the free list, whose chunk has no block out and is cut again.
LEMMA ServeFree ==
  ASSUME Sound, ~broken, NEW t \in Threads, pc[t] = "serve", NEW at, ListsOK(at),
         OldOf(t) = Dummy \/ FreeTot(OldOf(t)) = 0, NEW H, H = FreeList(local_heap[t]),
         Replace(t, list_del(mem, mem[H][2]), mem[H][2], chunk[mem[H][2][2]].owner),
         UNCHANGED <<gpool, heap_pool, lock, local_heap, cls, ptr>>
  PROVE  Sound' /\ QuietStep
<1>. DEFINE h    == local_heap[t]
            c    == cls[t]
            n    == mem[H][2]
            k    == n[2]
            full == FullOf(OldOf(t))
            att  == Put(at, n, NULL)
            m1   == list_del(mem, n)
            m2   == dlist_init(m1, DHead(k), DTail(k))
            headers == Recut(full, k, h, c)
<1>1. CASE n[1] # "chunk"
  <2>1. broken' = TRUE /\ UNCHANGED <<mem, chunk, foreground, held, pc>>
    BY <1>1, ReplaceStops
  <2> QED
    BY <2>1, StoppedOK
<1>2. CASE n[1] = "chunk"
  <2>1. /\ k \in Owned /\ chunk[k].state = "BACK" /\ chunk[k].owner = h
        /\ full[k] = chunk[k] /\ chunk[k].free_tot_cnt = chunk[k].blk_cnt
        /\ MemOK(m1, att, HeadsOf(InUse), Owned) /\ Same(mem, m1, Plain \cup Remotes)
        /\ ChunksOK([full EXCEPT ![k] = Forg(full[k])], att) /\ HeldOK(full, att, held)
    BY <1>2, FirstTaken
  <2>. \A b \in Blocks : att[b] = at[b]
    <3>1. \A b \in Blocks : b \in Items /\ b # n
      BY <1>2, BlockKinds DEF Items
    <3> QED
      BY <3>1 DEF Put, ListsOK
  <2>2. h \in Heaps /\ h # NoHeap /\ c \in Classes /\ k \in Chunks /\ chunk[k].owner # NoHeap
    BY <2>1 DEF Sound, Typing, PcInv, PcOK, Owned
  <2>3. Chosen(t, k) /\ Alloc(t, m2, headers, k)
    <3>1. chunk[k].owner # NoHeap /\ chunk[k].owner = h /\ Replace(t, m1, n, chunk[k].owner)
      BY <2>1, <2>2
    <3> HIDE DEF h, n, m1
    <3>2. Replace(t, m1, n, h) /\ h # NoHeap
      BY <3>1
    <3> QED
      BY <1>2, <3>2, ReplaceCuts DEF h
  <2>. HIDE DEF h, c, n, k, full, att, m1, m2, headers
  <2>4. /\ full \in [Chunks -> Headers]
        /\ \A j \in Chunks : full[j].owner = chunk[j].owner /\ full[j].size_cls = chunk[j].size_cls
        /\ \A g \in Heaps, d \in Classes :
             foreground[g][d] # Dummy /\ (g # h \/ d # c) =>
               /\ chunk[foreground[g][d]].state = "FORG"
               /\ full[foreground[g][d]].state = "FORG"
    BY OldOK DEF full, h, c
  <2>5. In(at, DHead(k)) = CutTo(chunk[k], k) /\ ChunksOK(chunk, at) /\ DHead(k) # NULL
    BY <2>1, <2>2, Counters, ItemsAreNodes, NodeSets DEF ListsOK
  <2>6. \A b \in Blocks : b[2] = k => att[b] \in {NULL, DHead(k)}
    <3>1. BlocksOK(chunk[k], at, k)
      BY <2>2, <2>5 DEF ChunksOK, ChunkOK
    <3> QED
      BY <2>1, <2>5, <3>1 DEF BlocksOK, In
  <2>7. \A b \in held : b[2] # k
    <3>1. HeldOK(chunk, at, held)
      BY DEF ListsOK
    <3> QED
      BY <2>5, <3>1 DEF HeldOK, In
  <2>8. att \in [Items -> Nodes \cup {NULL}]
    BY <2>1 DEF MemOK
  <2>. Whole(full, att, k, held)
    BY <2>1, <2>4, <2>6, <2>7, <2>8 DEF Whole
  <2>. Anew(headers, full, Emptied(att, k), k, held, h, c)
    BY <2>2, CutOK DEF headers
  <2>9. /\ headers \in [Chunks -> Headers]
        /\ ChunksOK([headers EXCEPT ![k] = Forg(headers[k])], Emptied(att, k))
        /\ HeldOK(headers, Emptied(att, k), held)
        /\ headers[k].owner = h /\ headers[k].size_cls = c /\ headers[k].free_tot_cnt > 0
    BY DEF Anew
  <2>10. \A j \in Chunks : j # k => headers[j] = full[j]
    BY DEF Anew
  <2>11. \A g \in Heaps, d \in Classes : foreground[g][d] # Dummy /\ (g # h \/ d # c) =>
            foreground[g][d] # k /\ headers[foreground[g][d]].state = "FORG"
    <3>1. \A g \in Heaps, d \in Classes : foreground[g][d] # Dummy => foreground[g][d] \in Chunks
      BY DEF Sound, Typing
    <3> QED
      BY <2>1, <2>4, <2>10, <3>1
  <2>12. Ready(headers, Emptied(att, k), t, k)
    BY <2>1, <2>2, <2>4, <2>9, <2>10, <2>11 DEF Ready, h, c
  <2>13. MemOK(m2, Emptied(att, k), HeadsOf(InUse), Owned \cup {k})
         /\ Same(m1, m2, Nodes \ {DHead(k), DTail(k)})
    BY <2>1, <2>2, InUseFacts, MemInit DEF m2
  <2>14. Same(mem, m2, Plain \cup Remotes)
    BY <2>1, <2>2, <2>13, EndsInitialised
  <2>15. /\ gpool' \in [free_start : 1 .. CHUNKS + 1, pool_end : Nat]
         /\ gpool'.free_start <= gpool'.pool_end + 1
         /\ \A j \in Chunks : headers[j].owner = NoHeap <=> j >= gpool'.free_start
    <3>1. \A j \in Chunks : headers[j].owner = chunk[j].owner
      BY <2>1, <2>4, <2>9, <2>10
    <3> QED
      BY <3>1 DEF Sound, Typing, OwnerInv
  <2> QED
    BY <2>3, <2>12, <2>13, <2>14, <2>15, ServedOK DEF h, c, Chosen
<1> QED
  BY <1>1, <1>2

\* From the pool of chunks: a chunk that was never used.
LEMMA ServeFresh ==
  ASSUME Sound, ~broken, NEW t \in Threads, pc[t] = "serve", NEW at, ListsOK(at),
         OldOf(t) = Dummy \/ FreeTot(OldOf(t)) = 0, gpool.free_start <= CHUNKS,
         gpool' = Advanced(gpool, ALLOC_UNIT),
         Replace(t, mem, ChunkNode(gpool.free_start), local_heap[t]),
         UNCHANGED <<heap_pool, lock, local_heap, cls, ptr>>
  PROVE  Sound' /\ QuietStep
<1>. DEFINE h    == local_heap[t]
            c    == cls[t]
            k    == gpool.free_start
            full == FullOf(OldOf(t))
            m2   == dlist_init(mem, DHead(k), DTail(k))
            headers == Recut(full, k, h, c)
<1>1. /\ Typing /\ PcInv /\ OwnerInv /\ MemOK(mem, at, HeadsOf(InUse), Owned)
      /\ ChunksOK(chunk, at) /\ HeldOK(chunk, at, held) /\ at \in [Items -> Nodes \cup {NULL}]
  BY DEF Sound, ListsOK
<1>2. h \in Heaps /\ h # NoHeap /\ c \in Classes
  BY <1>1 DEF Typing, PcInv, PcOK
<1>3. k \in Nat /\ k \in Chunks /\ chunk[k].owner = NoHeap
  <2>1. gpool.free_start \in 1 .. CHUNKS + 1
    BY <1>1 DEF Typing
  <2>2. gpool.free_start \in Chunks
    BY <2>1, TrAssumption DEF Chunks
  <2> QED
    BY <1>1, <2>1, <2>2 DEF OwnerInv
<1>4. ChunkNode(k)[1] = "chunk" /\ ChunkNode(k)[2] = k
  BY Kinds
<1>5. Chosen(t, k) /\ Alloc(t, m2, headers, k)
  <2>. HIDE DEF k, h
  <2>1. Replace(t, mem, ChunkNode(k), h)
    BY DEF k, h
  <2> QED
    BY <1>2, <1>4, <2>1, ReplaceCuts
<1>6. /\ gpool' \in [free_start : 1 .. CHUNKS + 1, pool_end : Nat]
      /\ gpool'.free_start <= gpool'.pool_end + 1 /\ gpool'.free_start = gpool.free_start + 1
  BY <1>1, <1>3, TrAssumption DEF Typing, Advanced, Fresh, Chunks
<1>7. \A j \in Chunks : j >= gpool'.free_start <=> j >= gpool.free_start /\ j # k
  BY <1>3, <1>6 DEF Chunks
<1>. HIDE DEF h, c, k, full, m2, headers
<1>8. /\ full \in [Chunks -> Headers] /\ ChunksOK(full, at) /\ HeldOK(full, at, held)
      /\ \A j \in Chunks : /\ full[j].owner = chunk[j].owner
                           /\ full[j].size_cls = chunk[j].size_cls
                           /\ chunk[j].owner = NoHeap => full[j] = chunk[j]
      /\ \A g \in Heaps, d \in Classes :
           foreground[g][d] # Dummy /\ (g # h \/ d # c) =>
             /\ chunk[foreground[g][d]].owner # NoHeap
             /\ full[foreground[g][d]].state = "FORG"
  BY OldOK DEF full, h, c
<1>9. /\ full[k] = chunk[k] /\ chunk[k] \in Headers /\ ChunkOK(chunk[k], at, k)
  BY <1>1, <1>3, <1>8 DEF ChunksOK
<1>10. Forg(full[k]) = full[k] /\ [full EXCEPT ![k] = Forg(full[k])] = full
  <2>1. chunk[k].state = "FORG"
    BY <1>3, <1>9 DEF ChunkOK, CountsOK
  <2>2. Forg(full[k]) = full[k]
    BY <1>9, <2>1 DEF Forg, Headers
  <2> QED
    BY <1>3, <1>8, <2>2
<1>11. \A b \in Blocks : b[2] = k => at[b] = NULL
  BY <1>3, <1>9 DEF ChunkOK, BlocksOK
<1>12. \A b \in held : b[2] # k
  BY <1>1, <1>3 DEF HeldOK
<1>13. Whole(full, at, k, held)
  BY <1>1, <1>8, <1>10, <1>11, <1>12 DEF Whole
<1>14. Anew(headers, full, Emptied(at, k), k, held, h, c)
  BY <1>2, <1>3, <1>13, CutOK DEF headers
<1>15. /\ headers \in [Chunks -> Headers]
       /\ ChunksOK([headers EXCEPT ![k] = Forg(headers[k])], Emptied(at, k))
       /\ HeldOK(headers, Emptied(at, k), held)
       /\ headers[k].owner = h /\ headers[k].size_cls = c /\ headers[k].free_tot_cnt > 0
  BY <1>14 DEF Anew
<1>16. \A j \in Chunks : j # k => headers[j] = full[j]
  BY <1>14 DEF Anew
<1>17. \A g \in Heaps, d \in Classes : foreground[g][d] # Dummy /\ (g # h \/ d # c) =>
         foreground[g][d] # k /\ headers[foreground[g][d]].state = "FORG"
  <2>1. \A g \in Heaps, d \in Classes : foreground[g][d] # Dummy => foreground[g][d] \in Chunks
    BY <1>1 DEF Typing
  <2> QED
    BY <1>3, <1>8, <1>16, <2>1
<1>18. Ready(headers, Emptied(at, k), t, k)
  BY <1>3, <1>8, <1>15, <1>16, <1>17 DEF Ready, h, c
<1>19. MemOK(m2, Emptied(at, k), HeadsOf(InUse), Owned \cup {k})
       /\ Same(mem, m2, Nodes \ {DHead(k), DTail(k)})
  BY <1>1, <1>3, InUseFacts, MemInit DEF m2
<1>20. Same(mem, m2, Plain \cup Remotes)
  BY <1>3, <1>19, SameSelf, EndsInitialised
<1>21. \A j \in Chunks : headers[j].owner = NoHeap <=> j >= gpool'.free_start
  <2>1. ASSUME NEW j \in Chunks PROVE headers[j].owner = NoHeap <=> j >= gpool'.free_start
    <3>1. CASE j = k
      BY <1>2, <1>7, <1>15, <3>1
    <3>2. CASE j # k
      BY <1>1, <1>7, <1>8, <1>16, <3>2 DEF OwnerInv
    <3> QED
      BY <3>1, <3>2
  <2> QED
    BY <2>1
<1> QED
  BY <1>5, <1>6, <1>18, <1>19, <1>20, <1>21, ServedOK DEF h, c, Chosen

\* small_malloc after the collection preserves the invariant, wherever the block is from.
LEMMA ServeOK ==
  ASSUME Sound, ~broken, NEW t \in Threads, Serve(t)
  PROVE  Sound' /\ QuietStep
<1>. DEFINE bg == Background(local_heap[t], cls[t])
            fl == FreeList(local_heap[t])
<1>1. PICK at : ListsOK(at)
  BY DEF Sound
<1>2. pc[t] = "serve" /\ UNCHANGED <<heap_pool, lock, local_heap, cls, ptr>>
  BY DEF Serve
<1>3. ~FromList(gpool, GPool)
  BY DEF Sound, HeapInv, FromList, list_empty
<1>4. \/ /\ OldOf(t) # Dummy /\ FreeTot(OldOf(t)) > 0 /\ Alloc(t, mem, chunk, OldOf(t))
         /\ pc' = [pc EXCEPT ![t] = "idle"] /\ UNCHANGED <<foreground, gpool, broken>>
      \/ /\ OldOf(t) = Dummy \/ FreeTot(OldOf(t)) = 0
         /\ \/ Replace(t, list_del(mem, mem[bg][2]), mem[bg][2], NoHeap) /\ UNCHANGED gpool
            \/ /\ Replace(t, list_del(mem, mem[fl][2]), mem[fl][2], chunk[mem[fl][2][2]].owner)
               /\ UNCHANGED gpool
            \/ /\ gpool.free_start <= CHUNKS /\ gpool' = Advanced(gpool, ALLOC_UNIT)
               /\ Replace(t, mem, ChunkNode(gpool.free_start), local_heap[t])
  BY <1>3 DEF Serve, OldOf, Goto
<1>5. CASE /\ OldOf(t) # Dummy /\ FreeTot(OldOf(t)) > 0 /\ Alloc(t, mem, chunk, OldOf(t))
           /\ pc' = [pc EXCEPT ![t] = "idle"] /\ UNCHANGED <<foreground, gpool, broken>>
  BY <1>1, <1>2, <1>5, ServeForeground
<1>6. ASSUME OldOf(t) = Dummy \/ FreeTot(OldOf(t)) = 0,
             Replace(t, list_del(mem, mem[bg][2]), mem[bg][2], NoHeap), UNCHANGED gpool
      PROVE  Sound' /\ QuietStep
  <2>. HIDE DEF bg
  <2>1. bg = Background(local_heap[t], cls[t])
    BY DEF bg
  <2> QED
    BY <1>1, <1>2, <1>6, <2>1, ServeBackground
<1>7. ASSUME OldOf(t) = Dummy \/ FreeTot(OldOf(t)) = 0,
             Replace(t, list_del(mem, mem[fl][2]), mem[fl][2], chunk[mem[fl][2][2]].owner),
             UNCHANGED gpool
      PROVE  Sound' /\ QuietStep
  <2>. HIDE DEF fl
  <2>1. fl = FreeList(local_heap[t])
    BY DEF fl
  <2> QED
    BY <1>1, <1>2, <1>7, <2>1, ServeFree
<1>8. ASSUME OldOf(t) = Dummy \/ FreeTot(OldOf(t)) = 0, gpool.free_start <= CHUNKS,
             gpool' = Advanced(gpool, ALLOC_UNIT),
             Replace(t, mem, ChunkNode(gpool.free_start), local_heap[t])
      PROVE  Sound' /\ QuietStep
  BY <1>1, <1>2, <1>8, ServeFresh
<1> QED
  BY <1>4, <1>5, <1>6, <1>7, <1>8
\* A stuttering step.
LEMMA Unmoved == ASSUME Sound, UNCHANGED vars PROVE Sound'
<1>1. UNCHANGED <<mem, gpool, heap_pool, chunk, foreground, lock, local_heap, held,
                  pc, cls, ptr, broken>>
  BY DEF vars, pools, heaps, locals
<1>2. PICK at : ListsOK(at)
  BY DEF Sound
<1>3. Typing' /\ PcInv'
  <2>1. Typing'
    BY <1>1 DEF Sound, Typing
  <2>2. \A u \in Threads : PcOK(u) => PcOK(u)'
    BY <1>1 DEF PcOK, Owned
  <2>3. \A u, v \in Threads : FreesApart(u, v) => FreesApart(u, v)'
    BY <1>1 DEF FreesApart
  <2> QED
    BY <1>1, <2>1, <2>2, <2>3 DEF Sound, PcInv
<1>4. HeapInv'
  <2>1. Same(mem, mem', Plain) /\ \A t \in Threads : Steady(t)
    BY <1>1 DEF Same, Steady
  <2>2. local_heap' \in [Threads -> Heaps \cup {NoHeap}]
    BY <1>3 DEF Typing
  <2> QED
    BY <1>1, <2>1, <2>2, HeapKept DEF Sound
<1>5. OwnerInv' /\ FgInv'
  BY <1>1 DEF Sound, OwnerInv, FgInv
<1>6. ListsOK(at)'
  BY <1>1, <1>2 DEF ListsOK, Owned, InUse
<1> QED
  BY <1>3, <1>4, <1>5, <1>6 DEF Sound

\* The remote_free of a heap that owns no chunk is empty, or was never set up.
Quiet == \A h \in Heaps : Bare(h) => mem[Remote(h)][2] \in {NULL, Remote(h)}
Clean == \A h \in InUse : Bare(h) => mem[Remote(h)][2] = Remote(h)

\* A heap in use that owns nothing has an empty remote_free.
LEMMA BareClean == Sound => Clean
<1>. SUFFICES ASSUME Sound, NEW h \in InUse, Bare(h) PROVE mem[Remote(h)][2] = Remote(h)
  BY DEF Clean
<1>1. PICK at : ListsOK(at)
  BY DEF Sound
<1>2. Typing /\ h \in Heaps
  BY DEF Sound, InUse
<1>3. Remote(h) \in HeadsOf({h}) /\ Remote(h) \in HeadsOf(InUse)
  BY DEF HeadsOf
<1>4. In(at, Remote(h)) = {}
  BY <1>1, <1>2, <1>3, NothingThere
<1>5. Region(mem, Remote(h), In(at, Remote(h)))
  BY <1>1, <1>3 DEF ListsOK, MemOK
<1> QED
  BY <1>4, <1>5 DEF Region

\* The same after a step.
LEMMA CleanNext == Sound' => Clean'
  BY BareClean, PTL

\* No step puts anything into the remote_free of a heap that owns no chunk.
LEMMA QuietKept == ASSUME Sound', Quiet, QuietStep PROVE Quiet'
<1>1. Clean'
  BY CleanNext
<1>2. ASSUME NEW h \in Heaps, h \notin InUse'
      PROVE  mem'[Remote(h)][2] \in {NULL, Remote(h)}
  BY <1>2 DEF Quiet, QuietStep, Bare
<1> QED
  BY <1>1, <1>2 DEF Quiet, Clean

\* The inductive invariant: what holds until two sections race, and the types at all times.
IInv == Typed /\ raced \in BOOLEAN /\ (raced \/ (Sound /\ Quiet))

\* The steps that only types follow, once sections have raced.
LEMMA PoolStepKept ==
  ASSUME IInv, ~broken, NEW t \in Threads, PoolStep(t)
  PROVE  IInv'
<1>1. Typed'
  BY TypedNext DEF IInv
<1>2. raced' \in BOOLEAN /\ (raced => raced')
  <2>1. raced \in BOOLEAN
    BY DEF IInv
  <2>2. raced' = raced \/ \E A \in BOOLEAN : raced' = (raced \/ A)
    BY <2>1 DEF PoolStep, Malloc, Acquire, Unlink, InitBegin, InitLheap, ExitBegin, Exit, Free
  <2> QED
    BY <2>1, <2>2
<1>3. ASSUME ~raced' PROVE Sound' /\ Quiet'
  <2>1. Sound /\ Quiet /\ Typed
    BY <1>2, <1>3 DEF IInv
  <2>2. Sound' /\ QuietStep
    BY <1>1, <1>3, <2>1, MallocOK, AcquireOK, UnlinkOK, InitBeginOK, InitLheapOK, ExitBeginOK,
       ExitOK, FreeOK DEF PoolStep
  <2> QED
    BY <2>1, <2>2, QuietKept
<1> QED
  BY <1>1, <1>2, <1>3 DEF IInv

\* The others, which the model takes only before that.
LEMMA OtherStepKept ==
  ASSUME IInv, ~broken, ~raced, NEW t \in Threads,
         \/ Small(t) \/ Collect(t) \/ Serve(t)
         \/ \E b \in held : FreeOwn(t, b)
         \/ FreePut(t)
  PROVE  IInv'
<1>1. Sound /\ Quiet
  BY DEF IInv
<1>2. raced' = raced
  BY DEF Small, Collect, Serve, FreeOwn, FreePut
<1>3. Sound' /\ QuietStep
  BY <1>1, SmallOK, CollectOK, ServeOK, FreeOwnOK, FreePutOK
<1>4. Quiet'
  BY <1>1, <1>3, QuietKept
<1>5. raced' \in BOOLEAN
  BY <1>2 DEF IInv
<1>6. Typed'
  BY <1>3, <1>5, TypeHoldsNext
<1> QED
  BY <1>3, <1>4, <1>5, <1>6 DEF IInv

\* The invariant holds in every behaviour of tr_malloc, for any number of threads, classes,
\* chunks and heaps.  Its conjunct Sound is claimed until thread_exit and acquire_lheap meet
\* in the pool's list, or the initialisation of a heap and a remote free into it: threads
\* that end at the same time and write the four words of list_add_tail in any order are
\* within it.
THEOREM Inductive == Spec => []IInv
<1>1. Init => IInv
  <2>1. \A h \in Heaps : Remote(h) \in Nodes \ {HeapPool, GPool}
    BY Kinds DEF Nodes
  <2>2. Init => Quiet /\ raced = FALSE
    BY <2>1 DEF Init, Quiet
  <2> QED
    BY <2>2, InitOK, TypeHolds DEF IInv
<1>2. IInv /\ [Next]_vars => IInv'
  <2>. SUFFICES ASSUME IInv, [Next]_vars PROVE IInv'
    OBVIOUS
  <2>1. CASE UNCHANGED vars
    <3>1. Typed' /\ raced' = raced
      <4>1. UNCHANGED <<mem, gpool, heap_pool, chunk, foreground, lock, local_heap, held,
                        pc, cls, ptr, broken, raced>>
        BY <2>1 DEF vars, pools, heaps, locals
      <4>2. TypeOK'
        BY <4>1 DEF IInv, Typed, TypeOK
      <4>3. PoolTyped'
        BY <4>1 DEF IInv, Typed, PoolTyped, Exiting
      <4> QED
        BY <4>1, <4>2, <4>3 DEF Typed
    <3>2. Sound => Sound'
      BY <2>1, Unmoved
    <3>3. Quiet => Quiet'
      BY <2>1 DEF Quiet, Bare, vars
    <3> QED
      BY <3>1, <3>2, <3>3 DEF IInv
  <2>2. CASE Next
    <3>1. PICK t \in Threads :
            \/ PoolStep(t)
            \/ /\ ~raced
               /\ \/ Small(t) \/ Collect(t) \/ Serve(t)
                  \/ \E b \in held : FreeOwn(t, b)
                  \/ FreePut(t)
      BY <2>2 DEF Next, PoolStep
    <3> QED
      BY <2>2, <3>1, PoolStepKept, OtherStepKept DEF Next
  <2> QED
    BY <2>1, <2>2
<1> QED
  BY <1>1, <1>2, PTL DEF Spec

-----------------------------------------------------------------------------
(* The invariants *)

\* A list that no node is in.
LEMMA ListedNone ==
  ASSUME NEW m \in [Nodes -> Pairs(Nodes)], NEW H, m[H][2] \in {H, NULL}
  PROVE  Range(Listed(m, H)) = {}
<1>1. Cardinality(DOMAIN m) \in Nat
  BY NodesFinite, FS_CardinalityType
<1>2. \A x \in {} \cup {H} : m[x][2] \in {} \cup {H, NULL}
  OBVIOUS
<1>3. Listed(m, H) \in Seq({})
  BY <1>1, <1>2, WalkWithin DEF Listed
<1> QED
  BY <1>3 DEF Range

\* list_for_each over a list of a heap in use passes items of that list.
LEMMA ListedIn ==
  ASSUME NEW at, ListsOK(at), NEW H \in HeadsOf(InUse)
  PROVE  H # NULL /\ \A n \in Range(Listed(mem, H)) : n \in Items /\ at[n] = H
<1>1. mem \in [Nodes -> Pairs(Nodes)] /\ Region(mem, H, In(at, H))
  BY DEF ListsOK, MemOK
<1>2. Range(Listed(mem, H)) \subseteq In(at, H)
  BY <1>1, NodesFinite, WalkInRegion
<1>3. H # NULL
  BY InUseFacts, ItemsAreNodes, NodeSets
<1> QED
  BY <1>2, <1>3 DEF In

\* The blocks found in a chunk's dlist are those that are there.
LEMMA ReturnedIs ==
  ASSUME NEW at, ListsOK(at), NEW k \in Owned
  PROVE  Returned(k) = In(at, DHead(k))
<1>1. mem \in [Nodes -> Pairs(Nodes)] /\ ChainOf(Nodes, mem, DHead(k), DTail(k), In(at, DHead(k)))
  BY DEF ListsOK, MemOK
<1> QED
  BY <1>1, NodesFinite, NodeSets, ChainWalked DEF Returned

\* A thread past acquire_lheap has a heap in use.
LEMMA LiveInUse == ASSUME Typing, NEW t \in Threads, Live(t)
                   PROVE  local_heap[t] \in Heaps /\ local_heap[t] \in InUse
  BY DEF Typing, Live, InUse

\* From Sound it follows that no held block is in a list from which it could be served, ...
LEMMA BlocksHold == ASSUME Sound, Quiet PROVE BlocksExclusive
<1>1. PICK at : ListsOK(at)
  BY DEF Sound
<1>2. ASSUME NEW b \in held PROVE b \in CutOff(b[2]) \ Returned(b[2])
  <2>1. /\ b \in Blocks /\ at[b] = NULL /\ b[2] \in Chunks
        /\ chunk[b[2]].owner # NoHeap /\ b \in CutTo(chunk[b[2]], b[2])
    BY <1>1, BlockKinds DEF ListsOK, HeldOK
  <2>2. Returned(b[2]) = In(at, DHead(b[2])) /\ DHead(b[2]) # NULL
    BY <1>1, <2>1, ReturnedIs, ItemsAreNodes, NodeSets DEF Owned
  <2> QED
    BY <2>1, <2>2 DEF CutOff, CutTo, In
<1>3. ASSUME NEW b \in held, NEW h \in Heaps PROVE b \notin Range(Listed(mem, Remote(h)))
  <2>1. at[b] = NULL /\ mem \in [Nodes -> Pairs(Nodes)]
    BY <1>1, MemTyped DEF ListsOK, HeldOK
  <2>2. CASE h \in InUse
    <3>1. Remote(h) \in HeadsOf(InUse)
      BY <2>2 DEF HeadsOf
    <3> QED
      BY <1>1, <2>1, <3>1, ListedIn
  <2>3. CASE h \notin InUse
    <3>1. mem[Remote(h)][2] \in {Remote(h), NULL}
      BY <2>3 DEF Quiet, Bare, InUse
    <3> QED
      BY <2>1, <3>1, ListedNone
  <2> QED
    BY <2>2, <2>3
<1> QED
  BY <1>2, <1>3 DEF BlocksExclusive

\* ... that a chunk's counters are those of its list, ...
LEMMA CountersHold == ASSUME Sound PROVE ChunkAccounting
<1>1. PICK at : ListsOK(at)
  BY DEF Sound
<1>2. ASSUME NEW k \in Owned
      PROVE  /\ Returned(k) \subseteq CutOff(k)
             /\ chunk[k].free_tot_cnt = chunk[k].free_mem_cnt + Cardinality(Returned(k))
  <2>1. k \in Chunks /\ chunk[k].owner # NoHeap /\ ChunksOK(chunk, at)
    BY <1>1 DEF Owned, ListsOK
  <2>2. Returned(k) = In(at, DHead(k))
    BY <1>1, ReturnedIs
  <2>3. In(at, DHead(k)) \subseteq CutTo(chunk[k], k)
    BY <2>1, InChain
  <2>4. CountsOK(chunk[k], Cardinality(In(at, DHead(k))))
    BY <2>1 DEF ChunksOK, ChunkOK
  <2> QED
    BY <2>1, <2>2, <2>3, <2>4 DEF CountsOK, CutOff, CutTo
<1> QED
  BY <1>2 DEF ChunkAccounting

\* ... that no heap has two threads, or one and a place in the pool, ...
LEMMA HeapsHold == ASSUME Sound PROVE HeapsApart
<1>. DEFINE S == BackNodes \cup Enders({"exit4"})
<1>1. PICK at : ListsOK(at)
  BY DEF Sound
<1>2. Typing /\ HeapInv
  BY DEF Sound
<1>3. Range(Listed(mem, HeapPool)) \subseteq S
  <2>1. Cardinality(DOMAIN mem) \in Nat
    BY <1>1, MemTyped, NodesFinite, FS_CardinalityType
  <2>2. \A x \in Linked \cup Enders({"exit2", "exit3", "exit4"}) :
          mem[x][2] \in Linked \cup Enders({"exit4"})
    BY <1>2 DEF HeapInv, NextLinks
  <2>3. Enders({"exit4"}) \subseteq Enders({"exit2", "exit3", "exit4"})
    BY DEF Enders
  <2>4. \A x \in S \cup {HeapPool} : mem[x][2] \in S \cup {HeapPool, NULL}
    BY <2>2, <2>3 DEF Linked
  <2>. HIDE DEF S
  <2>5. Listed(mem, HeapPool) \in Seq(S)
    BY <2>1, <2>4, WalkWithin DEF Listed
  <2> QED
    BY <2>5 DEF Range
<1>4. ASSUME NEW t \in Threads, local_heap[t] # NoHeap, ~Exiting(t)
      PROVE  HeapNode(local_heap[t]) \notin Range(Listed(mem, HeapPool))
  <2>1. HeapNode(local_heap[t]) \notin BackNodes
    BY HeapNodesApart DEF BackNodes, GivenBack
  <2>2. ASSUME NEW u \in Threads, pc[u] = "exit4" PROVE HeapNode(local_heap[t]) # Own(u)
    <3>1. u # t
      BY <1>4, <2>2 DEF Exiting
    <3>2. local_heap[t] # local_heap[u]
      BY <1>2, <1>4, <3>1 DEF HeapInv, LocalHeaps
    <3> QED
      BY <3>2, HeapNodesApart DEF Own
  <2>3. HeapNode(local_heap[t]) \notin Enders({"exit4"})
    BY <2>2 DEF Enders
  <2> QED
    BY <1>3, <2>1, <2>3
<1>5. \A t \in Threads : local_heap[t] # NoHeap =>
         \A u \in Threads \ {t} : local_heap[u] # local_heap[t]
  BY <1>2 DEF HeapInv, LocalHeaps
<1> QED
  BY <1>4, <1>5 DEF HeapsApart, HeapsUnshared

\* ... that the foreground chunks are the heap's own and in no list, ...
LEMMA ForegroundHolds == ASSUME Sound PROVE ForegroundSound
<1>1. PICK at : ListsOK(at)
  BY DEF Sound
<1>2. SUFFICES ASSUME NEW t \in Threads, Live(t), NEW c \in Classes,
                      foreground[local_heap[t]][c] # Dummy
      PROVE  /\ chunk[foreground[local_heap[t]][c]].owner = local_heap[t]
             /\ chunk[foreground[local_heap[t]][c]].size_cls = c
             /\ chunk[foreground[local_heap[t]][c]].state = "FORG"
             /\ \A n \in {FreeList(local_heap[t]), GPool}
                         \cup {Background(local_heap[t], d) : d \in Classes} :
                  ChunkNode(foreground[local_heap[t]][c]) \notin Range(Listed(mem, n))
  BY DEF ForegroundSound
<1>. DEFINE h == local_heap[t]
            k == foreground[h][c]
<1>3. h \in Heaps /\ h \in InUse /\ Typing
  BY <1>2, LiveInUse DEF Sound
<1>4. k \in Chunks /\ chunk[k].owner = h /\ chunk[k].size_cls = c /\ chunk[k].state = "FORG"
  BY <1>2, <1>3 DEF Sound, FgInv, Typing
<1>. HIDE DEF h, k
<1>5. at[ChunkNode(k)] = NULL
  BY <1>1, <1>4 DEF ListsOK, ChunksOK, ChunkOK, ListOf
<1>6. \A n \in {FreeList(h)} \cup {Background(h, d) : d \in Classes} :
        ChunkNode(k) \notin Range(Listed(mem, n))
  <2>1. \A n \in {FreeList(h)} \cup {Background(h, d) : d \in Classes} : n \in HeadsOf(InUse)
    BY <1>3 DEF HeadsOf
  <2> QED
    BY <1>1, <1>5, <2>1, ListedIn
<1>7. Range(Listed(mem, GPool)) = {}
  <2>1. mem[GPool][2] \in {GPool, NULL}
    BY DEF Sound, HeapInv
  <2> QED
    BY <1>1, <2>1, MemTyped, ListedNone
<1> QED
  BY <1>4, <1>6, <1>7 DEF h, k

\* ... and that the heap's lists hold chunks in the state they are for.
LEMMA ListsHold == ASSUME Sound PROVE ListsSound
<1>1. PICK at : ListsOK(at)
  BY DEF Sound
<1>2. ASSUME NEW t \in Threads, Live(t), NEW c \in Classes,
             NEW n \in Range(Listed(mem, Background(local_heap[t], c)))
      PROVE  /\ n[1] = "chunk" /\ chunk[n[2]].owner = local_heap[t] /\ chunk[n[2]].size_cls = c
             /\ chunk[n[2]].state = "BACK" /\ chunk[n[2]].free_tot_cnt > 0
  <2>1. local_heap[t] \in Heaps /\ local_heap[t] \in InUse
    BY <1>2, LiveInUse DEF Sound
  <2>2. Background(local_heap[t], c) \in HeadsOf(InUse)
    BY <2>1 DEF HeadsOf
  <2>3. n \in Items /\ at[n] = Background(local_heap[t], c)
    BY <1>1, <1>2, <2>2, ListedIn
  <2>4. PICK k \in Chunks : /\ n = ChunkNode(k) /\ chunk[k].state = "BACK"
                            /\ chunk[k].owner = local_heap[t] /\ chunk[k].free_tot_cnt > 0
                            /\ chunk[k].size_cls = c
    BY <1>1, <2>1, <2>3, ListChunks DEF ListsOK
  <2> QED
    BY <2>4, Kinds
<1>3. ASSUME NEW t \in Threads, Live(t), NEW n \in Range(Listed(mem, FreeList(local_heap[t])))
      PROVE  /\ n[1] = "chunk" /\ chunk[n[2]].owner = local_heap[t]
             /\ chunk[n[2]].free_tot_cnt = chunk[n[2]].blk_cnt
  <2>1. local_heap[t] \in Heaps /\ local_heap[t] \in InUse
    BY <1>3, LiveInUse DEF Sound
  <2>2. FreeList(local_heap[t]) \in HeadsOf(InUse)
    BY <2>1 DEF HeadsOf
  <2>3. n \in Items /\ at[n] = FreeList(local_heap[t])
    BY <1>1, <1>3, <2>2, ListedIn
  <2>4. PICK c \in Classes : TRUE
    BY TrAssumption
  <2>5. PICK k \in Chunks : /\ n = ChunkNode(k) /\ chunk[k].owner = local_heap[t]
                            /\ chunk[k].free_tot_cnt = chunk[k].blk_cnt
    BY <1>1, <2>1, <2>3, <2>4, ListChunks DEF ListsOK
  <2> QED
    BY <2>5, Kinds
<1> QED
  BY <1>2, <1>3 DEF ListsSound

\* Every variable of tr_malloc keeps its type, and a chunk's counters bound each other, also
\* in the pool of heaps after sections have raced there.
THEOREM TypeInvariant == Spec => []TypeOK
<1>1. IInv => TypeOK
  BY DEF IInv, Typed
<1> QED
  BY <1>1, Inductive, PTL

\* Until two sections race, tr_malloc never has a block both in the application and in a
\* list that it serves from, through any order of local frees, remote frees, collections
\* and thread ends.
THEOREM NoBlockTwice == Spec => []BlocksExclusive
<1>1. IInv => BlocksExclusive
  <2>1. raced => BlocksExclusive
    BY DEF BlocksExclusive
  <2> QED
    BY <2>1, BlocksHold DEF IInv
<1> QED
  BY <1>1, Inductive, PTL

\* Until two sections race, a chunk's free_tot_cnt is what is uncut and what its dlist has:
\* chunk_init cuts a chunk again only when no block of it is out.
THEOREM CountersAgree == Spec => []ChunkAccounting
<1>1. IInv => ChunkAccounting
  <2>1. raced => ChunkAccounting
    BY DEF ChunkAccounting
  <2> QED
    BY <2>1, CountersHold DEF IInv
<1> QED
  BY <1>1, Inductive, PTL

\* However many threads end at the same time, and in whatever order their writes into the
\* pool's list come, no two threads have one heap and none has a heap that waits in the
\* list, as long as acquire_lheap takes no heap from the list while a thread ends.
THEOREM HeapsStayApart == Spec => []HeapsApart
<1>1. IInv => HeapsApart
  <2>1. raced => HeapsApart
    BY DEF HeapsApart
  <2> QED
    BY <2>1, HeapsHold DEF IInv
<1> QED
  BY <1>1, Inductive, PTL

\* Until two sections race, the chunk that serves a class belongs to the thread's heap and
\* is in no list that another class could be served from.
THEOREM ForegroundsSound == Spec => []ForegroundSound
<1>1. IInv => ForegroundSound
  <2>1. raced => ForegroundSound
    BY DEF ForegroundSound
  <2> QED
    BY <2>1, ForegroundHolds DEF IInv
<1> QED
  BY <1>1, Inductive, PTL

\* Until two sections race, what small_malloc takes from a background list has room for the
\* class, and what it takes from the free list has no block out.
THEOREM ListsStaySound == Spec => []ListsSound
<1>1. IInv => ListsSound
  <2>1. raced => ListsSound
    BY DEF ListsSound
  <2> QED
    BY <2>1, ListsHold DEF IInv
<1> QED
  BY <1>1, Inductive, PTL

-----------------------------------------------------------------------------
(* The blocks that the application has, as runs of units *)

\* chunk_alloc_obj hands out one block and leaves every chunk its class.
LEMMA AllocKeepsSizes ==
  ASSUME NEW t, NEW m, NEW headers \in [Chunks -> Headers], NEW k, Alloc(t, m, headers, k)
  PROVE  /\ \E b \in held' : held' = held \cup {b}
         /\ \A j \in Chunks : chunk'[j].size_cls = headers[j].size_cls
<1>1. \E b \in held' : held' = held \cup {b}
  BY DEF Alloc
<1>2. ASSUME NEW j \in Chunks PROVE chunk'[j].size_cls = headers[j].size_cls
  <2>1. headers[j] \in Headers
    OBVIOUS
  <2> QED
    BY <2>1 DEF Alloc, Headers
<1> QED
  BY <1>1, <1>2

\* A chunk in the free list of the thread's heap has no block out.
LEMMA SpareNotHeld ==
  ASSUME Sound, ~broken, NEW t \in Threads, pc[t] = "serve",
         OldOf(t) = Dummy \/ FreeTot(OldOf(t)) = 0,
         mem[FreeList(local_heap[t])][2][1] = "chunk"
  PROVE  LET k == mem[FreeList(local_heap[t])][2][2] IN
         /\ k \in Chunks /\ chunk[k].owner # NoHeap /\ \A b \in held : b[2] # k
<1>. DEFINE k == mem[FreeList(local_heap[t])][2][2]
<1>1. PICK at : ListsOK(at)
  BY DEF Sound
<1>2. k \in Chunks /\ chunk[k].owner # NoHeap /\ chunk[k].free_tot_cnt = chunk[k].blk_cnt
  BY <1>1, FirstTaken DEF Owned
<1>. HIDE DEF k
<1>3. In(at, DHead(k)) = CutTo(chunk[k], k) /\ DHead(k) # NULL
  BY <1>1, <1>2, Counters, ItemsAreNodes, NodeSets DEF ListsOK
<1>4. \A b \in held : b[2] # k
  BY <1>1, <1>3 DEF ListsOK, HeldOK, In
<1> QED
  BY <1>2, <1>4 DEF k

\* Nor has a chunk that was never used.
LEMMA FreshNotHeld ==
  ASSUME Sound
  PROVE  \A b \in held : b[2] \in Chunks /\ b[2] # gpool.free_start
<1>1. PICK at : ListsOK(at)
  BY DEF Sound
<1>2. \A b \in held : b[2] \in Chunks /\ chunk[b[2]].owner # NoHeap
  BY <1>1, BlockKinds DEF ListsOK, HeldOK
<1>3. \A k \in Chunks : k = gpool.free_start => chunk[k].owner = NoHeap
  BY DEF Sound, OwnerInv, Chunks
<1> QED
  BY <1>2, <1>3

\* What a step does to the blocks that the application has: it adds one, takes one back or
\* leaves them, and those that stay keep their size.
Moves == /\ \/ held' = held
            \/ \E b \in held : held' = held \ {b}
            \/ \E b \in held' : held' = held \cup {b}
         /\ \A b \in held : chunk'[b[2]].size_cls = chunk[b[2]].size_cls

\* small_malloc: a chunk is cut anew only when the application has no block of it.
LEMMA ServeMoves ==
  ASSUME Sound, ~broken, NEW t \in Threads, Serve(t)
  PROVE  Moves
<1>. DEFINE old  == OldOf(t)
            full == FullOf(old)
            bg   == mem[Background(local_heap[t], cls[t])][2]
            fl   == mem[FreeList(local_heap[t])][2]
<1>1. PICK at : ListsOK(at)
  BY DEF Sound
<1>2. pc[t] = "serve" /\ ~FromList(gpool, GPool) /\ chunk \in [Chunks -> Headers]
      /\ local_heap[t] # NoHeap
  BY DEF Serve, Sound, Typing, HeapInv, PcInv, PcOK, FromList, list_empty
<1>3. \A b \in held : b[2] \in Chunks
  BY FreshNotHeld
<1>4. \/ old # Dummy /\ FreeTot(old) > 0 /\ Alloc(t, mem, chunk, old)
      \/ /\ old = Dummy \/ FreeTot(old) = 0
         /\ \/ Replace(t, list_del(mem, bg), bg, NoHeap)
            \/ Replace(t, list_del(mem, fl), fl, chunk[fl[2]].owner)
            \/ Replace(t, mem, ChunkNode(gpool.free_start), local_heap[t])
  BY <1>2 DEF Serve, OldOf
<1>. HIDE DEF bg, fl, old
<1>5. CASE old # Dummy /\ FreeTot(old) > 0 /\ Alloc(t, mem, chunk, old)
  BY <1>2, <1>3, <1>5, AllocKeepsSizes DEF Moves
<1>6. ASSUME old = Dummy \/ FreeTot(old) = 0
      PROVE  /\ full \in [Chunks -> Headers]
             /\ \A j \in Chunks : full[j].size_cls = chunk[j].size_cls
  BY <1>1, <1>2, <1>6, OldOK DEF old
<1>. HIDE DEF full
<1>7. ASSUME NEW m, NEW n, NEW owner, Replace(t, m, n, owner), n[1] # "chunk"
      PROVE  Moves
  BY <1>7, ReplaceStops DEF Moves
<1>8. ASSUME old = Dummy \/ FreeTot(old) = 0, NEW m, NEW n, NEW owner, owner # NoHeap,
             Replace(t, m, n, owner), n[1] = "chunk", \A b \in held : b[2] # n[2]
      PROVE  Moves
  <2>1. PICK headers : /\ headers = Recut(full, n[2], owner, cls[t])
                       /\ Alloc(t, dlist_init(m, DHead(n[2]), DTail(n[2])), headers, n[2])
    BY <1>8, ReplaceCuts DEF full, old
  <2>2. /\ \E b \in held' : held' = held \cup {b}
        /\ \A j \in Chunks : j # n[2] => chunk'[j].size_cls = full[j].size_cls
    <3>1. \E b \in held' : held' = held \cup {b}
      BY <2>1 DEF Alloc
    <3>2. ASSUME NEW j \in Chunks, j # n[2] PROVE chunk'[j].size_cls = full[j].size_cls
      <4>1. full[j] \in Headers /\ headers[j] = full[j]
        BY <1>6, <1>8, <2>1, <3>2 DEF Recut
      <4>2. chunk'[j] = full[j] \/ chunk'[j] = [full[j] EXCEPT !.spare_count = @ + 1]
        BY <2>1, <3>2, <4>1 DEF Alloc
      <4> QED
        BY <4>1, <4>2 DEF Headers
    <3> QED
      BY <3>1, <3>2
  <2> QED
    BY <1>3, <1>6, <1>8, <2>2 DEF Moves
<1>9. CASE (old = Dummy \/ FreeTot(old) = 0) /\ Replace(t, list_del(mem, bg), bg, NoHeap)
  <2>1. CASE bg[1] = "chunk"
    <3>1. Alloc(t, list_del(mem, bg), full, bg[2])
      BY <1>9, <2>1, ReplaceKeeps DEF full, old
    <3> QED
      BY <1>3, <1>6, <1>9, <3>1, AllocKeepsSizes DEF Moves
  <2> QED
    BY <1>7, <1>9, <2>1
<1>10. CASE (old = Dummy \/ FreeTot(old) = 0)
            /\ Replace(t, list_del(mem, fl), fl, chunk[fl[2]].owner)
  <2>1. CASE fl[1] = "chunk"
    <3>1. chunk[fl[2]].owner # NoHeap /\ \A b \in held : b[2] # fl[2]
      BY <1>2, <1>10, <2>1, SpareNotHeld DEF fl, old
    <3> QED
      BY <1>8, <1>10, <2>1, <3>1
  <2> QED
    BY <1>7, <1>10, <2>1
<1>11. CASE (old = Dummy \/ FreeTot(old) = 0)
            /\ Replace(t, mem, ChunkNode(gpool.free_start), local_heap[t])
  BY <1>2, <1>8, <1>11, FreshNotHeld, Kinds
<1> QED
  BY <1>4, <1>5, <1>9, <1>10, <1>11

\* The steps of the two sides of Next.
LEMMA NextCases ==
  ASSUME [Next]_vars
  PROVE  \/ UNCHANGED <<held, chunk>>
         \/ ~broken /\ ~raced /\ raced' = raced
            /\ \E t \in Threads : \/ Collect(t) \/ Serve(t)
                                  \/ \E b \in held : FreeOwn(t, b)
                                  \/ FreePut(t)
<1>1. CASE UNCHANGED vars
  BY <1>1 DEF vars
<1>2. CASE Next
  <2>1. ~broken
    BY <1>2 DEF Next
  <2>2. ASSUME NEW t \in Threads,
               \/ \E c \in Classes : Malloc(t, c)
               \/ Acquire(t) \/ Unlink(t) \/ InitBegin(t) \/ InitLheap(t) \/ Small(t)
               \/ ExitBegin(t) \/ Exit(t) \/ \E b \in held : Free(t, b)
        PROVE  UNCHANGED <<held, chunk>>
    BY <2>2 DEF Malloc, Acquire, Unlink, InitBegin, InitLheap, Small, ExitBegin, Exit, Free
  <2>3. ASSUME NEW t \in Threads,
               \/ Collect(t) \/ Serve(t) \/ \E b \in held : FreeOwn(t, b)
               \/ FreePut(t)
        PROVE  raced' = raced
    BY <2>3 DEF Collect, Serve, FreeOwn, FreePut
  <2> QED
    BY <1>2, <2>1, <2>2, <2>3 DEF Next
<1> QED
  BY <1>1, <1>2

\* Every step moves one block at most and changes the size of none.
LEMMA NextMoves ==
  ASSUME Sound, ~broken, NEW t \in Threads,
         \/ Collect(t) \/ Serve(t) \/ \E b \in held : FreeOwn(t, b)
         \/ FreePut(t)
  PROVE  Moves
<1>1. chunk \in [Chunks -> Headers]
  BY DEF Sound, Typing
<1>2. ASSUME NEW m, NEW b, FreeLocal(m, b)
      PROVE  \A j \in Chunks : chunk'[j].size_cls = chunk[j].size_cls
  <2>1. \A j \in Chunks : chunk[j] \in Headers
    BY <1>1
  <2>2. chunk' = [chunk EXCEPT ![b[2]].free_tot_cnt = @ + 1,
                               ![b[2]].state = IF @ = "FULL" THEN "BACK" ELSE @]
    BY <1>2 DEF FreeLocal
  <2> QED
    BY <1>1, <2>1, <2>2 DEF Headers
<1>3. \A b \in held : b[2] \in Chunks
  BY FreshNotHeld
<1>4. ASSUME NEW b \in held, FreeOwn(t, b) PROVE Moves
  <2>1. held' = held \ {b} /\ FreeLocal(mem, b)
    BY <1>4 DEF FreeOwn
  <2> QED
    BY <1>2, <1>3, <2>1 DEF Moves
<1>5. CASE FreePut(t)
  <2>1. held' = held \ {ptr[t]} /\ chunk' = chunk /\ ptr[t] \in held
    BY <1>5, UnderWay DEF FreePut
  <2> QED
    BY <2>1 DEF Moves
<1>6. CASE Collect(t)
  <2>1. held' = held /\ (UNCHANGED chunk \/ FreeLocal(list_del(mem, ptr[t]), ptr[t]))
    BY <1>6 DEF Collect
  <2> QED
    BY <1>2, <1>3, <2>1 DEF Moves
<1> QED
  BY <1>4, <1>5, <1>6, ServeMoves

\* A held block lies in its chunk's data, at a multiple of the size it is cut for.
LEMMA HeldUnits ==
  ASSUME Sound, NEW b \in held
  PROVE  /\ b[2] \in Nat \ {0} /\ b[3] \in Nat /\ chunk[b[2]].size_cls \in Classes
         /\ cls2size[chunk[b[2]].size_cls] \in Nat \ {0}
         /\ b = Block(b[2], b[3])
         /\ \E i \in Nat : /\ b[3] = i * cls2size[chunk[b[2]].size_cls]
                           /\ b[3] + cls2size[chunk[b[2]].size_cls] <= CHUNK_DATA_SIZE
<1>. DEFINE k == b[2]
            c == chunk[k]
            s == cls2size[c.size_cls]
            n == Count(c.size_cls)
<1>1. PICK at : ListsOK(at)
  BY DEF Sound
<1>2. k \in Chunks /\ b = Block(k, b[3]) /\ c.owner # NoHeap /\ b \in CutTo(c, k)
  BY <1>1, BlockKinds DEF ListsOK, HeldOK
<1>3. /\ c \in Headers /\ c.size_cls \in Classes /\ c.blk_cnt = Count(c.size_cls)
      /\ c.free_mem_cnt <= c.blk_cnt
  BY <1>1, <1>2 DEF ListsOK, ChunksOK, ChunkOK, CountsOK
<1>4. /\ s \in Nat \ {0} /\ n \in Nat /\ n * s <= CHUNK_DATA_SIZE /\ CHUNK_DATA_SIZE \in Nat
      /\ c.free_mem_cnt \in Nat
  BY <1>3, CountBounds, TrAssumption DEF Headers
<1>5. PICK i \in 0 .. c.blk_cnt - c.free_mem_cnt - 1 : b = Block(k, i * s)
  BY <1>2 DEF CutTo
<1>6. b[3] = i * s
  BY <1>5, Kinds
<1>. HIDE DEF k, c, s, n
<1>7. i \in Nat /\ i + 1 <= n
  BY <1>3, <1>4, <1>5 DEF n
<1>8. i * s + s = (i + 1) * s /\ (i + 1) * s <= n * s
  BY <1>4, <1>7
<1>9. b[3] + s <= CHUNK_DATA_SIZE
  BY <1>4, <1>6, <1>7, <1>8
<1> QED
  BY <1>2, <1>3, <1>4, <1>6, <1>7, <1>9 DEF k, c, s, Chunks

\* Two blocks that the application has share no unit.
HeldApart == /\ \A b \in held : Units(b).first \in Nat /\ Units(b).units \in Nat \ {0}
             /\ \A b, d \in held : b # d => UA!Apart(Units(b), Units(d))

\* It follows from each block's being one that its chunk is cut into now.
LEMMA OutApart == Sound => HeldApart
<1>. SUFFICES ASSUME Sound PROVE HeldApart
  OBVIOUS
<1>. DEFINE D == CHUNK_DATA_SIZE
            s(b) == cls2size[chunk[b[2]].size_cls]
<1>1. ASSUME NEW b \in held PROVE Units(b).first \in Nat /\ Units(b).units \in Nat \ {0}
  <2>1. D \in Nat /\ b[2] - 1 \in Nat /\ b[3] \in Nat /\ s(b) \in Nat \ {0}
    BY HeldUnits, TrAssumption
  <2> QED
    BY <2>1 DEF Units
<1>2. ASSUME NEW b \in held, NEW d \in held, b # d PROVE UA!Apart(Units(b), Units(d))
  <2>1. /\ D \in Nat /\ b[2] - 1 \in Nat /\ d[2] - 1 \in Nat
        /\ s(b) \in Nat \ {0} /\ s(d) \in Nat \ {0}
        /\ b = Block(b[2], b[3]) /\ d = Block(d[2], d[3])
    BY HeldUnits, TrAssumption
  <2>2. PICK i \in Nat : b[3] = i * s(b) /\ b[3] + s(b) <= D
    BY HeldUnits
  <2>3. PICK j \in Nat : d[3] = j * s(d) /\ d[3] + s(d) <= D
    BY HeldUnits
  <2>4. /\ Units(b).first = (b[2] - 1) * D + b[3] /\ Units(b).units = s(b)
        /\ Units(d).first = (d[2] - 1) * D + d[3] /\ Units(d).units = s(d)
    BY DEF Units
  <2>5. b[3] \in Nat /\ d[3] \in Nat /\ b[2] \in Nat /\ d[2] \in Nat
    BY HeldUnits
  <2>6. CASE b[2] = d[2]
    <3> DEFINE z == s(b)
               low == (b[2] - 1) * D
    <3>1. s(d) = z /\ z \in Nat \ {0} /\ low \in Nat
      BY <2>1, <2>6
    <3>2. b[3] # d[3]
      <4> SUFFICES ASSUME b[3] = d[3] PROVE FALSE
        OBVIOUS
      <4>1. Block(b[2], b[3]) = Block(d[2], d[3])
        BY <2>6
      <4> QED
        BY <1>2, <2>1, <4>1, Zenon
    <3>3. /\ Units(b).first = low + i * z /\ Units(b).units = z
          /\ Units(d).first = low + j * z /\ Units(d).units = z
          /\ i # j
      BY <2>2, <2>3, <2>4, <2>6, <3>2
    <3> HIDE DEF z, low
    <3>4. ASSUME NEW x \in Nat, NEW y \in Nat, x < y PROVE low + x * z + z <= low + y * z
      <4>1. x * z + z = (x + 1) * z /\ (x + 1) * z <= y * z
        BY <3>1, <3>4
      <4> QED
        BY <3>1, <4>1
    <3>5. i < j \/ j < i
      BY <3>3
    <3> QED
      BY <3>3, <3>4, <3>5 DEF UA!Apart
  <2>7. CASE b[2] # d[2]
    <3> DEFINE u == b[2] - 1
               v == d[2] - 1
    <3>1. u \in Nat /\ v \in Nat /\ (u < v \/ v < u)
      BY <2>1, <2>5, <2>7
    <3>2. /\ u * D <= Units(b).first /\ Units(b).first + Units(b).units <= u * D + D
          /\ v * D <= Units(d).first /\ Units(d).first + Units(d).units <= v * D + D
          /\ Units(b).first \in Nat /\ Units(b).units \in Nat
          /\ Units(d).first \in Nat /\ Units(d).units \in Nat
          /\ u * D \in Nat /\ v * D \in Nat
      <4>1. u * D \in Nat /\ v * D \in Nat
        BY <2>1, <3>1
      <4>2. /\ Units(b).first = u * D + b[3] /\ Units(b).units = s(b)
            /\ Units(d).first = v * D + d[3] /\ Units(d).units = s(d)
        BY <2>4
      <4> HIDE DEF u, v, s, D
      <4> QED
        BY <2>1, <2>2, <2>3, <2>5, <4>1, <4>2
    <3> HIDE DEF u, v, D
    <3>3. ASSUME NEW x \in Nat, NEW y \in Nat, x < y PROVE x * D + D <= y * D
      <4>1. x * D + D = (x + 1) * D /\ (x + 1) * D <= y * D
        BY <2>1, <3>3
      <4> QED
        BY <4>1
    <3> QED
      BY <2>1, <3>1, <3>2, <3>3 DEF UA!Apart
  <2> QED
    BY <2>6, <2>7
<1> QED
  BY <1>1, <1>2 DEF HeldApart

\* The same after a step.
LEMMA OutApartNext == Sound' => HeldApart'
  BY OutApart, PTL

\* Every step that moves a block is one of an allocator.
LEMMA MoveAllocates ==
  ASSUME Moves, HeldApart, HeldApart'
  PROVE  UA!Next \/ granted' = granted
<1>1. granted' = {Units(b)' : b \in held'} /\ granted = {Units(b) : b \in held}
  BY DEF granted
<1>3. \A b \in held : Units(b)' = Units(b)
  BY DEF Moves, Units
<1>5. ASSUME NEW b \in held, held' = held \ {b} PROVE UA!Release
  <2>1. \A d \in held : d # b => Units(d) # Units(b)
    <3> SUFFICES ASSUME NEW d \in held, d # b, Units(d) = Units(b) PROVE FALSE
      OBVIOUS
    <3>1. UA!Apart(Units(b), Units(d)) /\ Units(b).first \in Nat /\ Units(b).units \in Nat \ {0}
      BY DEF HeldApart
    <3> QED
      BY <3>1 DEF UA!Apart
  <2>2. granted' = granted \ {Units(b)} /\ Units(b) \in granted
    BY <1>1, <1>3, <1>5, <2>1
  <2> QED
    BY <2>2 DEF UA!Release
<1>6. ASSUME NEW b \in held', b \notin held, held' = held \cup {b} PROVE UA!Grant
  <2>1. granted' = granted \cup {Units(b)'} /\ Units(b)' \in granted'
    BY <1>1, <1>3, <1>6
  <2>2. \A g \in granted : UA!Apart(Units(b)', g)
    <3> SUFFICES ASSUME NEW d \in held PROVE UA!Apart(Units(b)', Units(d))
      BY <1>1
    <3>1. d \in held' /\ b # d /\ Units(d)' = Units(d)
      BY <1>3, <1>6
    <3>2. UA!Apart(Units(b)', Units(d)')
      BY <3>1 DEF HeldApart, UA!Apart
    <3> QED
      BY <3>1, <3>2
  <2>3. Units(b)'.first \in Nat /\ Units(b)'.units \in Nat \ {0}
    BY DEF HeldApart
  <2> QED
    BY <2>1, <2>2, <2>3 DEF UA!Grant
<1>7. CASE held' = held
  BY <1>1, <1>3, <1>7
<1> QED
  BY <1>5, <1>6, <1>7 DEF Moves, UA!Next

\* A step moves no block, or nothing has raced before it and after it.
LEMMA StepAllocates ==
  ASSUME IInv, IInv', [Next]_vars
  PROVE  UA!Next \/ granted' = granted
<1>1. CASE UNCHANGED <<held, chunk>>
  <2>1. \A b \in held : Units(b)' = Units(b)
    BY <1>1 DEF Units
  <2> QED
    BY <1>1, <2>1 DEF granted
<1>2. ASSUME ~broken, ~raced, raced' = raced, NEW t \in Threads,
             \/ Collect(t) \/ Serve(t) \/ \E b \in held : FreeOwn(t, b)
             \/ FreePut(t)
      PROVE  UA!Next \/ granted' = granted
  <2>1. Sound /\ Sound'
    BY <1>2 DEF IInv
  <2>2. HeldApart /\ HeldApart'
    BY <2>1, OutApart, OutApartNext
  <2>3. Moves
    BY <1>2, <2>1, NextMoves
  <2> QED
    BY <2>2, <2>3, MoveAllocates
<1> QED
  BY <1>1, <1>2, NextCases

\* tr_malloc and tr_free of small blocks implement an allocator: no unit of a chunk is ever
\* in two blocks that the application has, however chunks and heaps are used again.
THEOREM TrRefinement == Spec => ImplementsAllocator
<1>1. Init => UA!Init
  BY DEF Init, UA!Init, granted
<1>2. IInv /\ IInv' /\ [Next]_vars => [UA!Next]_granted
  BY StepAllocates
<1>3. Spec => []IInv
  BY Inductive, PTL
<1> QED
  BY <1>1, <1>2, <1>3, PTL DEF Spec, ImplementsAllocator, UA!Spec

=============================================================================
