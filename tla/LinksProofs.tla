----------------------------- MODULE LinksProofs -----------------------------
(***************************************************************************)
(* What the list operations of list.h do to memory, for every memory: each *)
(* one word by word, then to a region (the nodes around a list head) or a  *)
(* chain (a dlist from head to tail), and what a walk then finds.          *)
(***************************************************************************)
EXTENDS Links, Functions, FiniteSetTheorems, WellFoundedInduction, SequenceTheorems, TLAPS

\* The two words of a node.
Pairs(N) == (N \cup {NULL}) \X (N \cup {NULL})

\* Memories that agree on the nodes of D.
Same(m, mm, D) == \A x \in D : mm[x] = m[x]

\* The second word of node x holds y.
SecondIs(m, x, y) == m[x][2] = y

\* One word of a node.
SetFirst(m, a, v)  == [m EXCEPT ![a][1] = v]
SetSecond(m, a, v) == [m EXCEPT ![a][2] = v]

\* Assigning one component of a pair.
LEMMA PairExcept ==
  ASSUME NEW A, NEW p \in A \X A, NEW v \in A
  PROVE  /\ [p EXCEPT ![1] = v] = <<v, p[2]>>
         /\ [p EXCEPT ![2] = v] = <<p[1], v>>
  OBVIOUS

\* Assigning one word of a node: a memory again, where no other word changed.
LEMMA SetWord ==
  ASSUME NEW N, NEW m \in [N -> Pairs(N)], NEW a, NEW v \in N \cup {NULL}
  PROVE  /\ SetFirst(m, a, v) \in [N -> Pairs(N)]
         /\ \A x \in N : SetFirst(m, a, v)[x] = IF x = a THEN <<v, m[x][2]>> ELSE m[x]
         /\ SetSecond(m, a, v) \in [N -> Pairs(N)]
         /\ \A x \in N : SetSecond(m, a, v)[x] = IF x = a THEN <<m[x][1], v>> ELSE m[x]
<1>1. ASSUME NEW x \in N
      PROVE  /\ m[x] \in Pairs(N)
             /\ [m[x] EXCEPT ![1] = v] = <<v, m[x][2]>>
             /\ [m[x] EXCEPT ![2] = v] = <<m[x][1], v>>
             /\ <<v, m[x][2]>> \in Pairs(N) /\ <<m[x][1], v>> \in Pairs(N)
  <2>1. m[x] \in Pairs(N)
    OBVIOUS
  <2>2. /\ [m[x] EXCEPT ![1] = v] = <<v, m[x][2]>>
        /\ [m[x] EXCEPT ![2] = v] = <<m[x][1], v>>
    BY <2>1, PairExcept DEF Pairs
  <2> QED
    BY <2>1, <2>2 DEF Pairs
<1>2. /\ SetFirst(m, a, v) = [x \in N |-> IF x = a THEN <<v, m[x][2]>> ELSE m[x]]
      /\ SetSecond(m, a, v) = [x \in N |-> IF x = a THEN <<m[x][1], v>> ELSE m[x]]
  BY <1>1 DEF SetFirst, SetSecond
<1> QED
  BY <1>1, <1>2

\* The words of a node are nodes or NULL.
LEMMA Word ==
  ASSUME NEW N, NEW m \in [N -> Pairs(N)], NEW x \in N
  PROVE  m[x] \in Pairs(N) /\ m[x][1] \in N \cup {NULL} /\ m[x][2] \in N \cup {NULL}
  BY DEF Pairs

\* What an unlink writes.
Unlinked(m, e, x) == << IF x = m[e][2] THEN m[e][1] ELSE m[x][1],
                        IF x = m[e][1] THEN m[e][2] ELSE m[x][2] >>

\* A node is its two words.
LEMMA PairEqual ==
  ASSUME NEW N, NEW m \in [N -> Pairs(N)], NEW x \in N
  PROVE  m[x] = <<m[x][1], m[x][2]>>
  BY DEF Pairs

\* list_del word by word.
LEMMA DelWords ==
  ASSUME NEW N, NEW m \in [N -> Pairs(N)], NEW e \in N
  PROVE  /\ list_del(m, e) \in [N -> Pairs(N)]
         /\ \A x \in N : list_del(m, e)[x] = Unlinked(m, e, x)
<1>. DEFINE m1 == SetSecond(m, m[e][1], m[e][2])
            m2 == SetFirst(m1, m[e][2], m[e][1])
<1>1. m[e][1] \in N \cup {NULL} /\ m[e][2] \in N \cup {NULL}
  BY Word
<1>2. /\ m1 \in [N -> Pairs(N)]
      /\ \A x \in N : m1[x] = IF x = m[e][1] THEN <<m[x][1], m[e][2]>> ELSE m[x]
  BY <1>1, SetWord
<1>3. list_del(m, e) = m2
  BY DEF list_del, SetFirst, SetSecond
<1>. HIDE DEF m1
<1>4. /\ m2 \in [N -> Pairs(N)]
      /\ \A x \in N : m2[x] = IF x = m[e][2] THEN <<m[e][1], m1[x][2]>> ELSE m1[x]
  BY <1>1, <1>2, SetWord
<1>. HIDE DEF m2
<1> QED
  BY <1>2, <1>3, <1>4, PairEqual DEF Unlinked

\* dlist_remove word by word: it unlinks as list_del does.
LEMMA RemoveWords ==
  ASSUME NEW N, NEW m \in [N -> Pairs(N)], NEW e \in N
  PROVE  /\ dlist_remove(m, e) \in [N -> Pairs(N)]
         /\ \A x \in N : dlist_remove(m, e)[x] = Unlinked(m, e, x)
<1>. DEFINE m1 == SetFirst(m, m[e][2], m[e][1])
            m2 == SetSecond(m1, m[e][1], m[e][2])
<1>1. m[e][1] \in N \cup {NULL} /\ m[e][2] \in N \cup {NULL}
  BY Word
<1>2. /\ m1 \in [N -> Pairs(N)]
      /\ \A x \in N : m1[x] = IF x = m[e][2] THEN <<m[e][1], m[x][2]>> ELSE m[x]
  BY <1>1, SetWord
<1>3. dlist_remove(m, e) = m2
  BY DEF dlist_remove, SetFirst, SetSecond
<1>. HIDE DEF m1
<1>4. /\ m2 \in [N -> Pairs(N)]
      /\ \A x \in N : m2[x] = IF x = m[e][1] THEN <<m1[x][1], m[e][2]>> ELSE m1[x]
  BY <1>1, <1>2, SetWord
<1>. HIDE DEF m2
<1> QED
  BY <1>2, <1>3, <1>4, PairEqual DEF Unlinked

\* __list_add word by word.
LEMMA InsertWords ==
  ASSUME NEW N, NEW m \in [N -> Pairs(N)],
         NEW new \in N, NEW prev \in N, NEW next \in N, new # prev, new # next
  PROVE  /\ Insert(m, new, prev, next) \in [N -> Pairs(N)]
         /\ \A x \in N : Insert(m, new, prev, next)[x] =
              << IF x = new THEN prev ELSE IF x = next THEN new ELSE m[x][1],
                 IF x = new THEN next ELSE IF x = prev THEN new ELSE m[x][2] >>
<1>. DEFINE m1 == SetSecond(m, new, next)
            m2 == SetFirst(m1, next, new)
            m3 == SetSecond(m2, prev, new)
            m4 == SetFirst(m3, new, prev)
<1>1. Insert(m, new, prev, next) = m4
  BY DEF Insert, SetFirst, SetSecond
<1>2. /\ m1 \in [N -> Pairs(N)]
      /\ \A x \in N : m1[x] = IF x = new THEN <<m[x][1], next>> ELSE m[x]
  BY SetWord
<1>. HIDE DEF m1
<1>3. /\ m2 \in [N -> Pairs(N)]
      /\ \A x \in N : m2[x] = IF x = next THEN <<new, m1[x][2]>> ELSE m1[x]
  BY <1>2, SetWord
<1>. HIDE DEF m2
<1>4. /\ m3 \in [N -> Pairs(N)]
      /\ \A x \in N : m3[x] = IF x = prev THEN <<m2[x][1], new>> ELSE m2[x]
  BY <1>3, SetWord
<1>. HIDE DEF m3
<1>5. /\ m4 \in [N -> Pairs(N)]
      /\ \A x \in N : m4[x] = IF x = new THEN <<prev, m3[x][2]>> ELSE m3[x]
  BY <1>4, SetWord
<1>. HIDE DEF m4
<1> QED
  BY <1>1, <1>2, <1>3, <1>4, <1>5, PairEqual

\* dlist_add word by word.
LEMMA AddWords ==
  ASSUME NEW N, NEW m \in [N -> Pairs(N)], NEW head \in N, NEW e \in N,
         m[head][1] \in N, e # head, m[head][1] \notin {e, head}
  PROVE  /\ dlist_add(m, head, e) \in [N -> Pairs(N)]
         /\ \A x \in N : dlist_add(m, head, e)[x] =
              << IF x = head THEN e ELSE IF x = e THEN m[head][1] ELSE m[x][1],
                 IF x = e THEN head ELSE IF x = m[head][1] THEN e ELSE m[x][2] >>
<1>. DEFINE m1 == SetFirst(m, head, e)
            m2 == [m1 EXCEPT ![e] = <<m[head][1], head>>]
            m3 == SetSecond(m2, m[head][1], e)
<1>1. dlist_add(m, head, e) = m3
  BY DEF dlist_add, SetFirst, SetSecond
<1>2. /\ m1 \in [N -> Pairs(N)]
      /\ \A x \in N : m1[x] = IF x = head THEN <<e, m[x][2]>> ELSE m[x]
  BY SetWord
<1>. HIDE DEF m1
<1>3. /\ m2 \in [N -> Pairs(N)]
      /\ \A x \in N : m2[x] = IF x = e THEN <<m[head][1], head>> ELSE m1[x]
  BY <1>2 DEF Pairs
<1>. HIDE DEF m2
<1>4. /\ m3 \in [N -> Pairs(N)]
      /\ \A x \in N : m3[x] = IF x = m[head][1] THEN <<m2[x][1], e>> ELSE m2[x]
  BY <1>3, SetWord
<1>. HIDE DEF m3
<1> QED
  BY <1>1, <1>2, <1>3, <1>4, PairEqual

\* dlist_init word by word.
LEMMA InitWords ==
  ASSUME NEW N, NEW m \in [N -> Pairs(N)], NEW head \in N, NEW tail \in N, head # tail
  PROVE  /\ dlist_init(m, head, tail) \in [N -> Pairs(N)]
         /\ \A x \in N : dlist_init(m, head, tail)[x] =
              IF x = head THEN <<tail, NULL>> ELSE IF x = tail THEN <<NULL, head>> ELSE m[x]
<1>1. <<tail, NULL>> \in Pairs(N) /\ <<NULL, head>> \in Pairs(N)
  BY DEF Pairs
<1> QED
  BY <1>1 DEF dlist_init

\* A set of naturals that is not empty has a least element.
LEMMA NatLeast ==
  ASSUME NEW T, T \subseteq Nat, T # {}
  PROVE  \E x \in T : \A y \in T : x <= y
<1>1. PICK x \in T : \A y \in T : ~(<<y, x>> \in OpToRel(<, Nat))
  BY WFMin, NatLessThanWellFounded
<1>2. \A y \in T : ~(y < x)
  BY <1>1 DEF OpToRel
<1> QED
  BY <1>2

-----------------------------------------------------------------------------
(* Circular lists, of which more than one end may be out of date *)

\* The nodes of S are in a list around H and nothing else: the links of S and H lead to S
\* or H, and each link to a node of S is answered by that node.  Not every node of S need be
\* reached from H.
Region(m, H, S) ==
  /\ \A x \in S \cup {H} : m[x][1] \in S \cup {H} /\ m[x][2] \in S \cup {H}
  /\ \A x \in S \cup {H}, y \in S : /\ m[x][2] = y => m[y][1] = x
                                    /\ m[x][1] = y => m[y][2] = x

\* A region depends on the words of its own nodes only.
LEMMA RegionKept ==
  ASSUME NEW m, NEW mm, NEW H, NEW S, Region(m, H, S), Same(m, mm, S \cup {H})
  PROVE  Region(mm, H, S)
  BY DEF Region, Same

\* list_del takes a node out of its region and writes nowhere else.
LEMMA RegionLeft ==
  ASSUME NEW N, NEW m \in [N -> Pairs(N)], NEW H \in N, NEW S \in SUBSET N, H \notin S,
         NEW e \in S, Region(m, H, S)
  PROVE  /\ Region(list_del(m, e), H, S \ {e})
         /\ Same(m, list_del(m, e), N \ (S \cup {H}))
         /\ list_del(m, e) \in [N -> Pairs(N)]
<1>. DEFINE d == list_del(m, e)
<1>0. /\ d \in [N -> Pairs(N)]
      /\ \A x \in N : d[x] = Unlinked(m, e, x)
  BY DelWords
<1>. HIDE DEF d
<1>1. \A x \in N : /\ d[x][1] = IF x = m[e][2] THEN m[e][1] ELSE m[x][1]
                   /\ d[x][2] = IF x = m[e][1] THEN m[e][2] ELSE m[x][2]
                   /\ x \notin {m[e][1], m[e][2]} => d[x] = <<m[x][1], m[x][2]>>
  BY <1>0 DEF Unlinked
<1>2. m[e][1] \in S \cup {H} /\ m[e][2] \in S \cup {H}
  BY DEF Region
<1>3. ASSUME NEW x \in N \ (S \cup {H}) PROVE d[x] = m[x]
  <2>1. x \notin {m[e][1], m[e][2]}
    BY <1>2
  <2>2. d[x] = <<m[x][1], m[x][2]>>
    BY <1>1, <2>1
  <2> QED
    BY <2>2, PairEqual
<1>4. Region(d, H, S \ {e})
  BY <1>1, <1>2 DEF Region
<1> QED
  BY <1>0, <1>3, <1>4 DEF d, Same

\* list_add_tail brings a node from outside into a region and writes nowhere else.
LEMMA RegionJoined ==
  ASSUME NEW N, NEW m \in [N -> Pairs(N)], NEW H \in N, NEW S \in SUBSET N, H \notin S,
         NEW e \in N, e \notin S \cup {H}, Region(m, H, S)
  PROVE  /\ Region(list_add_tail(m, e, H), H, S \cup {e})
         /\ Same(m, list_add_tail(m, e, H), N \ (S \cup {H, e}))
         /\ list_add_tail(m, e, H) \in [N -> Pairs(N)]
<1>. DEFINE d == list_add_tail(m, e, H)
            p == m[H][1]
<1>1. p \in S \cup {H}
  BY DEF Region
<1>2. /\ d \in [N -> Pairs(N)]
      /\ \A x \in N : d[x] =
           << IF x = e THEN p ELSE IF x = H THEN e ELSE m[x][1],
              IF x = e THEN H ELSE IF x = p THEN e ELSE m[x][2] >>
  BY <1>1, InsertWords DEF list_add_tail
<1>. HIDE DEF d
<1>3. ASSUME NEW x \in N \ (S \cup {H, e}) PROVE d[x] = m[x]
  <2>1. x # e /\ x # H /\ x # p
    BY <1>1
  <2>2. d[x] = <<m[x][1], m[x][2]>>
    BY <1>2, <2>1
  <2> QED
    BY <2>2, PairEqual
<1>4. Region(d, H, S \cup {e})
  BY <1>1, <1>2 DEF Region
<1> QED
  BY <1>2, <1>3, <1>4 DEF d, Same

\* INIT_LIST_HEAD on a head: it leads to itself, and what was in the list still leads within it.
LEMMA RegionReset ==
  ASSUME NEW m, NEW mm, NEW H, NEW S, H \notin S,
         S = {} \/ Region(m, H, S), \A x \in S : mm[x] = m[x], mm[H] = <<H, H>>
  PROVE  Region(mm, H, S)
  BY DEF Region

-----------------------------------------------------------------------------
(* Walks *)

\* One step of a walk, as in Links.
WalkNext(m, h, w, end, s) ==
  LET e == m[IF s = <<>> THEN h ELSE s[Len(s)]][w]
  IN IF e \in {end, NULL} THEN s ELSE Append(s, e)

\* g is the sequence of partial walks.
IsWalk(m, h, w, end, C, g) ==
  g = [n \in 0 .. C |-> IF n = 0 THEN <<>> ELSE WalkNext(m, h, w, end, g[n - 1])]

\* Walk is the last value of the sequence of partial walks.
LEMMA WalkChosen ==
  ASSUME NEW m, NEW h, NEW w, NEW end
  PROVE  Walk(m, h, w, end) =
           (CHOOSE g : IsWalk(m, h, w, end, Cardinality(DOMAIN m), g))[Cardinality(DOMAIN m)]
  BY DEF Walk, IsWalk, WalkNext

\* There is one sequence of partial walks.
LEMMA WalkUnique ==
  ASSUME NEW m, NEW h, NEW w, NEW end, NEW C \in Nat, NEW f, NEW g,
         IsWalk(m, h, w, end, C, f), IsWalk(m, h, w, end, C, g)
  PROVE  f[C] = g[C]
<1>. DEFINE T == {n \in 0 .. C : f[n] # g[n]}
<1>1. CASE T = {}
  BY <1>1
<1>2. CASE T # {}
  <2>1. PICK n \in T : \A k \in T : n <= k
    <3>1. T \subseteq Nat
      OBVIOUS
    <3>. HIDE DEF T
    <3> QED
      BY <1>2, <3>1, NatLeast
  <2>2. n \in Nat /\ n \in 0 .. C /\ f[n] # g[n]
    OBVIOUS
  <2>3. f[0] = <<>> /\ g[0] = <<>>
    BY DEF IsWalk
  <2>4. n # 0
    BY <2>2, <2>3
  <2>5. n - 1 \in 0 .. C /\ n - 1 \notin T
    BY <2>1, <2>2, <2>4
  <2>6. /\ f[n] = WalkNext(m, h, w, end, f[n - 1])
        /\ g[n] = WalkNext(m, h, w, end, g[n - 1])
    BY <2>2, <2>4 DEF IsWalk
  <2> QED
    BY <2>2, <2>5, <2>6
<1> QED
  BY <1>1, <1>2

\* Any sequence of partial walks ends in Walk.
LEMMA WalkIs ==
  ASSUME NEW m, NEW h, NEW w, NEW end, Cardinality(DOMAIN m) \in Nat,
         NEW g, IsWalk(m, h, w, end, Cardinality(DOMAIN m), g)
  PROVE  Walk(m, h, w, end) = g[Cardinality(DOMAIN m)]
<1>. DEFINE f == CHOOSE g1 : IsWalk(m, h, w, end, Cardinality(DOMAIN m), g1)
<1>1. IsWalk(m, h, w, end, Cardinality(DOMAIN m), f)
  OBVIOUS
<1>. HIDE DEF f
<1>2. f[Cardinality(DOMAIN m)] = g[Cardinality(DOMAIN m)]
  BY <1>1, WalkUnique
<1> QED
  BY <1>2, WalkChosen DEF f

\* Where the nodes within S lead to S again, the walk finds nodes of S.
LEMMA WalkWithin ==
  ASSUME NEW m, NEW h, NEW w, NEW end, NEW S, Cardinality(DOMAIN m) \in Nat,
         \A x \in S \cup {h} : m[x][w] \in S \cup {end, NULL}
  PROVE  Walk(m, h, w, end) \in Seq(S)
<1>. DEFINE C == Cardinality(DOMAIN m)
            Next1(s) == WalkNext(m, h, w, end, s)
            Upto(n, g) == /\ g \in [0 .. n -> Seq(S)]
                          /\ \A i \in 0 .. n : g[i] = IF i = 0 THEN <<>> ELSE Next1(g[i - 1])
            T == {n \in Nat : ~\E g : Upto(n, g)}
<1>1. ASSUME NEW s \in Seq(S) PROVE Next1(s) \in Seq(S)
  <2>. DEFINE x == IF s = <<>> THEN h ELSE s[Len(s)]
              e == m[x][w]
  <2>1. x \in S \cup {h}
    <3>1. CASE s = <<>>
      BY <3>1
    <3>2. CASE s # <<>>
      <4>1. Len(s) \in 1 .. Len(s)
        BY <3>2
      <4> QED
        BY <4>1, <3>2
    <3> QED
      BY <3>1, <3>2
  <2>2. e \in S \cup {end, NULL}
    BY <2>1
  <2>3. Next1(s) = IF e \in {end, NULL} THEN s ELSE Append(s, e)
    BY DEF WalkNext
  <2>. HIDE DEF e, Next1
  <2> QED
    BY <2>2, <2>3
<1>. HIDE DEF Next1
<1>2. T = {}
  <2>1. SUFFICES ASSUME T # {} PROVE FALSE
    OBVIOUS
  <2>2. PICK n \in T : \A k \in T : n <= k
    <3>1. T \subseteq Nat
      OBVIOUS
    <3>. HIDE DEF T
    <3> QED
      BY <2>1, <3>1, NatLeast
  <2>3. n \in Nat /\ ~\E g : Upto(n, g)
    OBVIOUS
  <2>4. CASE n = 0
    <3>1. <<>> \in Seq(S)
      OBVIOUS
    <3>2. Upto(0, [i \in 0 .. 0 |-> <<>>])
      BY <3>1
    <3> QED
      BY <2>3, <2>4, <3>2
  <2>5. CASE n # 0
    <3>1. n - 1 \in Nat /\ n - 1 \notin T
      <4>1. n - 1 \in Nat /\ ~(n <= n - 1)
        BY <2>3, <2>5
      <4>. HIDE DEF T
      <4> QED
        BY <2>2, <4>1
    <3>2. PICK g : Upto(n - 1, g)
      BY <3>1
    <3>3. g[n - 1] \in Seq(S)
      BY <3>1, <3>2
    <3>. DEFINE gg == [i \in 0 .. n |-> IF i = n THEN Next1(g[n - 1]) ELSE g[i]]
    <3>4. gg \in [0 .. n -> Seq(S)]
      BY <1>1, <2>3, <3>2, <3>3
    <3>5. ASSUME NEW i \in 0 .. n
          PROVE  gg[i] = IF i = 0 THEN <<>> ELSE Next1(gg[i - 1])
      <4>1. CASE i = n
        <5>1. gg[n] = Next1(g[n - 1]) /\ gg[n - 1] = g[n - 1]
          BY <2>3, <2>5
        <5> QED
          BY <2>5, <4>1, <5>1
      <4>2. CASE i # n
        <5>1. i \in 0 .. n - 1 /\ (i # 0 => i - 1 \in 0 .. n /\ i - 1 # n)
          BY <2>3, <4>2
        <5>2. gg[i] = g[i] /\ (i # 0 => gg[i - 1] = g[i - 1])
          BY <4>2, <5>1
        <5>. HIDE DEF gg
        <5> QED
          BY <3>2, <5>1, <5>2
      <4> QED
        BY <4>1, <4>2
    <3>6. Upto(n, gg)
      BY <3>4, <3>5
    <3> QED
      BY <2>3, <3>6
  <2> QED
    BY <2>4, <2>5
<1>3. PICK g : Upto(C, g)
  BY <1>2
<1>4. IsWalk(m, h, w, end, C, g)
  BY <1>3 DEF IsWalk, Next1
<1>5. g[C] \in Seq(S)
  BY <1>3
<1> QED
  BY <1>4, <1>5, WalkIs

\* list_for_each from the head of a region passes nodes of the region only.
LEMMA WalkInRegion ==
  ASSUME NEW N, NEW m \in [N -> Pairs(N)], IsFiniteSet(N), NEW H, NEW S, Region(m, H, S)
  PROVE  Range(Listed(m, H)) \subseteq S
<1>1. Cardinality(DOMAIN m) \in Nat
  BY FS_CardinalityType
<1>2. \A x \in S \cup {H} : m[x][2] \in S \cup {H, NULL}
  BY DEF Region
<1>3. Listed(m, H) \in Seq(S)
  BY <1>1, <1>2, WalkWithin DEF Listed
<1> QED
  BY <1>3 DEF Range

\* The nodes of a list with ends h and e, in order: every link is there both ways.
Chain(m, h, e, L, f) ==
  /\ f[0] = h /\ f[L + 1] = e
  /\ \A i, j \in 0 .. L + 1 : f[i] = f[j] => i = j
  /\ \A i \in 0 .. L : m[f[i]][1] = f[i + 1] /\ m[f[i + 1]][2] = f[i]
  /\ m[h][2] = NULL /\ m[e][1] = NULL

\* The walk along a chain passes its inner nodes in their order.
LEMMA WalkOfChain ==
  ASSUME NEW N, NEW m \in [N -> Pairs(N)], IsFiniteSet(N), NULL \notin N,
         NEW h, NEW e, NEW L \in Nat, NEW f \in [0 .. L + 1 -> N], Chain(m, h, e, L, f)
  PROVE  Walk(m, h, 1, e) = [i \in 1 .. L |-> f[i]]
<1>. DEFINE C == Cardinality(N)
            Up(n) == [i \in 1 .. n |-> f[i]]
            g == [n \in 0 .. C |-> IF n <= L THEN Up(n) ELSE Up(L)]
<1>1. C \in Nat /\ DOMAIN m = N
  BY FS_CardinalityType
<1>2. L <= C
  <2>1. Up(L) \in Injection(1 .. L, N)
    BY DEF Chain, Injection, IsInjective
  <2>2. Cardinality(1 .. L) <= C
    BY <2>1, FS_Injection
  <2>3. Cardinality(1 .. L) = L
    BY FS_Interval
  <2> QED
    BY <2>2, <2>3
<1>3. ASSUME NEW n \in Nat, n <= L
      PROVE  /\ Up(n) \in Seq(N) /\ Len(Up(n)) = n
             /\ (IF Up(n) = <<>> THEN h ELSE Up(n)[Len(Up(n))]) = f[n]
  <2>1. Up(n) \in Seq(N) /\ Len(Up(n)) = n
    BY <1>3
  <2>2. CASE n = 0
    <3>1. Up(n) = <<>> /\ f[0] = h
      BY <2>1, <2>2 DEF Chain
    <3>. HIDE DEF Up
    <3> QED
      BY <2>1, <2>2, <3>1
  <2>3. CASE n # 0
    <3>1. Up(n) # <<>> /\ Up(n)[n] = f[n]
      BY <1>3, <2>1, <2>3
    <3>. HIDE DEF Up
    <3> QED
      BY <2>1, <3>1
  <2> QED
    BY <2>2, <2>3
<1>4. ASSUME NEW n \in Nat, n < L
      PROVE  WalkNext(m, h, 1, e, Up(n)) = Up(n + 1)
  <2>1. m[f[n]][1] = f[n + 1] /\ f[n + 1] \in N /\ f[n + 1] # e
    BY <1>4 DEF Chain
  <2>2. f[n + 1] \notin {e, NULL}
    BY <2>1
  <2>3. WalkNext(m, h, 1, e, Up(n)) = Append(Up(n), f[n + 1])
    <3>1. (IF Up(n) = <<>> THEN h ELSE Up(n)[Len(Up(n))]) = f[n]
      <4>. HIDE DEF Up
      <4> QED
        BY <1>3, <1>4
    <3>. DEFINE s == Up(n)
    <3>. HIDE DEF s
    <3>2. (IF s = <<>> THEN h ELSE s[Len(s)]) = f[n]
      BY <3>1 DEF s
    <3>3. WalkNext(m, h, 1, e, s) = Append(s, f[n + 1])
      BY <2>1, <2>2, <3>2 DEF WalkNext
    <3> QED
      BY <3>3 DEF s
  <2>4. Append(Up(n), f[n + 1]) = Up(n + 1)
    BY <1>3, <1>4
  <2> QED
    BY <2>3, <2>4
<1>5. WalkNext(m, h, 1, e, Up(L)) = Up(L)
  <2>1. m[f[L]][1] = e
    BY DEF Chain
  <2>. HIDE DEF Up
  <2> QED
    BY <1>3, <2>1 DEF WalkNext
<1>6. Up(0) = <<>>
  BY <1>3
<1>7. ASSUME NEW n \in 0 .. C
      PROVE  g[n] = IF n = 0 THEN <<>> ELSE WalkNext(m, h, 1, e, g[n - 1])
  <2>. HIDE DEF Up
  <2> QED
    BY <1>1, <1>4, <1>5, <1>6
<1>8. IsWalk(m, h, 1, e, C, g)
  BY <1>7 DEF IsWalk
<1>9. g[C] = Up(L)
  BY <1>1, <1>2
<1> QED
  BY <1>1, <1>8, <1>9, WalkIs

\* S is what lies between the ends h and e.
ChainOf(N, m, h, e, S) ==
  \E L \in Nat : \E f \in [0 .. L + 1 -> N] : S = {f[i] : i \in 1 .. L} /\ Chain(m, h, e, L, f)

\* The walk along a chain finds the nodes of the chain, and all of them.
LEMMA ChainWalked ==
  ASSUME NEW N, NEW m \in [N -> Pairs(N)], IsFiniteSet(N), NULL \notin N,
         NEW h, NEW e, NEW S, ChainOf(N, m, h, e, S)
  PROVE  Range(Walk(m, h, 1, e)) = S
<1>0. PICK L \in Nat :
        \E f \in [0 .. L + 1 -> N] : S = {f[i] : i \in 1 .. L} /\ Chain(m, h, e, L, f)
  BY DEF ChainOf
<1>1. PICK f \in [0 .. L + 1 -> N] : S = {f[i] : i \in 1 .. L} /\ Chain(m, h, e, L, f)
  BY <1>0
<1>2. Walk(m, h, 1, e) = [i \in 1 .. L |-> f[i]]
  BY <1>1, WalkOfChain
<1> QED
  BY <1>1, <1>2 DEF Range

\* The ends of a chain are two nodes outside it, and the head has nothing before it.
LEMMA ChainEnds ==
  ASSUME NEW N, NEW m, NEW h, NEW e, NEW S, ChainOf(N, m, h, e, S)
  PROVE  /\ h # e /\ h \notin S /\ e \notin S /\ h \in N /\ e \in N /\ S \subseteq N
         /\ m[h][2] = NULL
<1>0. PICK L \in Nat :
        \E f \in [0 .. L + 1 -> N] : S = {f[i] : i \in 1 .. L} /\ Chain(m, h, e, L, f)
  BY DEF ChainOf
<1>1. PICK f \in [0 .. L + 1 -> N] : S = {f[i] : i \in 1 .. L} /\ Chain(m, h, e, L, f)
  BY <1>0
<1>2. 0 \in 0 .. L + 1 /\ L + 1 \in 0 .. L + 1 /\ 0 # L + 1
  OBVIOUS
<1>3. ASSUME NEW i \in 1 .. L PROVE i \in 0 .. L + 1 /\ i # 0 /\ i # L + 1
  OBVIOUS
<1> QED
  BY <1>1, <1>2, <1>3 DEF Chain

\* A chain depends on the words of its own nodes only.
LEMMA ChainKept ==
  ASSUME NEW N, NEW m, NEW mm, NEW h, NEW e, NEW S, ChainOf(N, m, h, e, S),
         Same(m, mm, S \cup {h, e})
  PROVE  ChainOf(N, mm, h, e, S)
<1>0. PICK L \in Nat :
        \E f \in [0 .. L + 1 -> N] : S = {f[i] : i \in 1 .. L} /\ Chain(m, h, e, L, f)
  BY DEF ChainOf
<1>1. PICK f \in [0 .. L + 1 -> N] : S = {f[i] : i \in 1 .. L} /\ Chain(m, h, e, L, f)
  BY <1>0
<1>2. ASSUME NEW i \in 0 .. L + 1 PROVE f[i] \in S \cup {h, e}
  <2>1. i = 0 \/ i = L + 1 \/ i \in 1 .. L
    OBVIOUS
  <2> QED
    BY <1>1, <2>1 DEF Chain
<1>3. ASSUME NEW i \in 0 .. L
      PROVE  mm[f[i]][1] = f[i + 1] /\ mm[f[i + 1]][2] = f[i]
  <2>1. i \in 0 .. L + 1 /\ i + 1 \in 0 .. L + 1
    OBVIOUS
  <2> QED
    BY <1>1, <1>2, <2>1 DEF Chain, Same
<1>4. Chain(mm, h, e, L, f)
  BY <1>1, <1>3 DEF Chain, Same
<1> QED
  BY <1>1, <1>4 DEF ChainOf

\* dlist_init makes a chain with nothing between its ends.
LEMMA ChainStarted ==
  ASSUME NEW N, NEW m \in [N -> Pairs(N)], NEW h \in N, NEW e \in N, h # e
  PROVE  /\ ChainOf(N, dlist_init(m, h, e), h, e, {})
         /\ dlist_init(m, h, e) \in [N -> Pairs(N)]
         /\ Same(m, dlist_init(m, h, e), N \ {h, e})
<1>. DEFINE d == dlist_init(m, h, e)
            f == [i \in 0 .. 0 + 1 |-> IF i = 0 THEN h ELSE e]
<1>1. /\ d \in [N -> Pairs(N)]
      /\ \A x \in N : d[x] = IF x = h THEN <<e, NULL>> ELSE IF x = e THEN <<NULL, h>> ELSE m[x]
  BY InitWords
<1>. HIDE DEF d
<1>2. f \in [0 .. 0 + 1 -> N] /\ {} = {f[i] : i \in 1 .. 0}
  OBVIOUS
<1>3. Chain(d, h, e, 0, f)
  BY <1>1 DEF Chain
<1>4. ChainOf(N, d, h, e, {})
  BY <1>2, <1>3 DEF ChainOf
<1> QED
  BY <1>1, <1>4 DEF d, Same

\* dlist_add puts a node from outside behind the head and writes nowhere else.
LEMMA ChainAdded ==
  ASSUME NEW N, NEW m \in [N -> Pairs(N)], NEW h, NEW e, NEW S, ChainOf(N, m, h, e, S),
         NEW b \in N, b \notin S \cup {h, e}
  PROVE  /\ ChainOf(N, dlist_add(m, h, b), h, e, S \cup {b})
         /\ dlist_add(m, h, b) \in [N -> Pairs(N)]
         /\ Same(m, dlist_add(m, h, b), N \ (S \cup {h, e, b}))
         /\ SecondIs(dlist_add(m, h, b), b, h)
<1>. DEFINE d == dlist_add(m, h, b)
<1>0. PICK L \in Nat :
        \E f \in [0 .. L + 1 -> N] : S = {f[i] : i \in 1 .. L} /\ Chain(m, h, e, L, f)
  BY DEF ChainOf
<1>1. PICK f \in [0 .. L + 1 -> N] : S = {f[i] : i \in 1 .. L} /\ Chain(m, h, e, L, f)
  BY <1>0
<1>2. /\ h \in N /\ f[1] \in N /\ m[h][1] = f[1] /\ f[1] # h /\ f[1] # b
      /\ f[1] \in S \cup {e}
  <2>1. f[0] = h /\ m[f[0]][1] = f[0 + 1] /\ f[0] # f[1] /\ f[0] \in N /\ f[1] \in N
    BY <1>1 DEF Chain
  <2>2. f[1] \in S \cup {e}
    <3>1. 1 \in 1 .. L \/ 1 = L + 1
      OBVIOUS
    <3> QED
      BY <1>1, <3>1 DEF Chain
  <2> QED
    BY <2>1, <2>2
<1>3. /\ d \in [N -> Pairs(N)]
      /\ \A x \in N : d[x] = << IF x = h THEN b ELSE IF x = b THEN f[1] ELSE m[x][1],
                               IF x = b THEN h ELSE IF x = f[1] THEN b ELSE m[x][2] >>
  BY <1>2, AddWords
<1>. HIDE DEF d
<1>. DEFINE ff == [i \in 0 .. (L + 1) + 1 |->
                     IF i = 0 THEN h ELSE IF i = 1 THEN b ELSE f[i - 1]]
<1>4. ff \in [0 .. (L + 1) + 1 -> N]
  BY <1>2
<1>5. /\ ff[0] = h /\ ff[1] = b
      /\ \A i \in 1 .. L + 1 : i + 1 \in 0 .. (L + 1) + 1 /\ ff[i + 1] = f[i]
      /\ \A i \in 0 .. (L + 1) + 1 : i = 0 \/ i = 1 \/ (i - 1 \in 1 .. L + 1 /\ ff[i] = f[i - 1])
  OBVIOUS
<1>6. \A i \in 1 .. L + 1 : f[i] \in N /\ f[i] # h /\ f[i] # b /\ f[i] \in S \cup {e}
  <2>1. ASSUME NEW i \in 1 .. L + 1
        PROVE  f[i] \in N /\ f[i] # h /\ f[i] # b /\ f[i] \in S \cup {e}
    <3>1. i \in 0 .. L + 1 /\ i # 0 /\ (i \in 1 .. L \/ i = L + 1)
      OBVIOUS
    <3> QED
      BY <1>1, <3>1 DEF Chain
  <2> QED
    BY <2>1
<1>7. S \cup {b} = {ff[i] : i \in 1 .. L + 1}
  <2>1. ASSUME NEW i \in 1 .. L PROVE f[i] \in {ff[j] : j \in 1 .. L + 1}
    <3>1. i + 1 \in 1 .. L + 1 /\ ff[i + 1] = f[i]
      BY <1>5
    <3> QED
      BY <3>1
  <2>2. b \in {ff[j] : j \in 1 .. L + 1}
    BY <1>5
  <2>3. ASSUME NEW i \in 1 .. L + 1 PROVE ff[i] \in S \cup {b}
    <3>1. i = 1 \/ (i - 1 \in 1 .. L /\ ff[i] = f[i - 1])
      BY <1>5
    <3> QED
      BY <1>1, <1>5, <3>1
  <2>. HIDE DEF ff
  <2> QED
    BY <1>1, <2>1, <2>2, <2>3
<1>8. Chain(d, h, e, L + 1, ff)
  <2>1. ff[0] = h /\ ff[(L + 1) + 1] = e
    BY <1>1 DEF Chain
  <2>2. ASSUME NEW i \in 0 .. (L + 1) + 1, NEW j \in 0 .. (L + 1) + 1, ff[i] = ff[j]
        PROVE  i = j
    <3>1. b # h
      OBVIOUS
    <3>2. \A p, q \in 1 .. L + 1 : f[p] = f[q] => p = q
      BY <1>1 DEF Chain
    <3>. HIDE DEF ff
    <3> QED
      BY <1>5, <1>6, <2>2, <3>1, <3>2
  <2>3. ASSUME NEW i \in 0 .. L + 1
        PROVE  d[ff[i]][1] = ff[i + 1] /\ d[ff[i + 1]][2] = ff[i]
    <3>1. CASE i = 0
      <4>1. ff[i] = h /\ ff[i + 1] = b
        BY <3>1
      <4> QED
        BY <1>2, <1>3, <4>1
    <3>2. CASE i = 1
      <4>1. ff[i] = b /\ ff[i + 1] = f[1]
        BY <3>2
      <4> QED
        BY <1>2, <1>3, <4>1
    <3>3. CASE i \notin {0, 1}
      <4>1. i - 1 \in 1 .. L /\ i - 1 \in 0 .. L /\ i \in 1 .. L + 1 /\ i - 1 \in 1 .. L + 1
            /\ i # 1 /\ (i - 1) + 1 = i
        BY <3>3
      <4>2. ff[i] = f[i - 1] /\ ff[i + 1] = f[i]
        BY <3>3, <4>1
      <4>3. m[f[i - 1]][1] = f[i] /\ m[f[i]][2] = f[i - 1] /\ f[i] # f[1]
        <5>1. i \in 0 .. L + 1 /\ 1 \in 0 .. L + 1
          BY <4>1
        <5>2. m[f[i - 1]][1] = f[(i - 1) + 1] /\ m[f[(i - 1) + 1]][2] = f[i - 1]
          BY <1>1, <4>1 DEF Chain
        <5> QED
          BY <1>1, <4>1, <5>1, <5>2 DEF Chain
      <4>. HIDE DEF ff
      <4> QED
        BY <1>3, <1>6, <4>1, <4>2, <4>3
    <3> QED
      BY <3>1, <3>2, <3>3
  <2>4. d[h][2] = NULL /\ d[e][1] = NULL
    <3>1. e \in N /\ e # h /\ e # b /\ f[1] # h
      BY <1>1, <1>2, <1>6 DEF Chain
    <3> QED
      BY <1>1, <1>2, <1>3, <3>1 DEF Chain
  <2> QED
    BY <2>1, <2>2, <2>3, <2>4 DEF Chain
<1>9. ChainOf(N, d, h, e, S \cup {b})
  <2>1. L + 1 \in Nat
    OBVIOUS
  <2>. HIDE DEF ff
  <2> QED
    BY <1>4, <1>7, <1>8, <2>1 DEF ChainOf
<1>10. ASSUME NEW x \in N \ (S \cup {h, e, b}) PROVE d[x] = m[x]
  <2>1. x # h /\ x # b /\ x # f[1]
    BY <1>2
  <2>2. d[x] = <<m[x][1], m[x][2]>>
    BY <1>3, <2>1
  <2> QED
    BY <2>2, PairEqual
<1>11. d[b][2] = h
  BY <1>3
<1> QED
  BY <1>3, <1>9, <1>10, <1>11 DEF d, Same, SecondIs

\* dlist_remove of the node before the tail, and what it leaves alone.
LEMMA ChainTaken ==
  ASSUME NEW N, NEW m \in [N -> Pairs(N)], NEW h, NEW e, NEW S, ChainOf(N, m, h, e, S), S # {}
  PROVE  /\ m[e][2] \in S
         /\ ChainOf(N, dlist_remove(m, m[e][2]), h, e, S \ {m[e][2]})
         /\ dlist_remove(m, m[e][2]) \in [N -> Pairs(N)]
         /\ Same(m, dlist_remove(m, m[e][2]), N \ (S \cup {h, e}))
<1>. DEFINE o == m[e][2]
            d == dlist_remove(m, o)
<1>0. PICK L \in Nat :
        \E f \in [0 .. L + 1 -> N] : S = {f[i] : i \in 1 .. L} /\ Chain(m, h, e, L, f)
  BY DEF ChainOf
<1>1. PICK f \in [0 .. L + 1 -> N] : S = {f[i] : i \in 1 .. L} /\ Chain(m, h, e, L, f)
  BY <1>0
<1>2. L \in Nat \ {0} /\ L \in 1 .. L /\ L - 1 \in Nat /\ L - 1 \in 0 .. L + 1 /\ L \in 0 .. L + 1
  BY <1>1
<1>3. o = f[L] /\ o \in S /\ o \in N /\ f[L + 1] = e /\ e \in N /\ f[0] = h /\ h \in N
  BY <1>1, <1>2 DEF Chain
<1>4. m[o][1] = e /\ m[o][2] = f[L - 1] /\ f[L - 1] \in N /\ f[L - 1] \in S \cup {h}
  <2>1. m[f[L - 1]][1] = f[(L - 1) + 1] /\ m[f[(L - 1) + 1]][2] = f[L - 1]
    <3>1. L - 1 \in 0 .. L
      BY <1>2
    <3> QED
      BY <1>1, <3>1 DEF Chain
  <2>2. m[f[L]][1] = f[L + 1]
    BY <1>1, <1>2 DEF Chain
  <2>3. L - 1 = 0 \/ L - 1 \in 1 .. L
    BY <1>2
  <2> QED
    BY <1>1, <1>2, <1>3, <2>1, <2>2, <2>3
<1>5. /\ d \in [N -> Pairs(N)]
      /\ \A x \in N : d[x] = << IF x = f[L - 1] THEN e ELSE m[x][1],
                               IF x = e THEN f[L - 1] ELSE m[x][2] >>
  <2>1. /\ d \in [N -> Pairs(N)]
        /\ \A x \in N : d[x] = Unlinked(m, o, x)
    BY <1>3, RemoveWords
  <2>. HIDE DEF d, o
  <2> QED
    BY <1>4, <2>1 DEF Unlinked
<1>. HIDE DEF d
<1>. DEFINE ff == [i \in 0 .. (L - 1) + 1 |-> IF i = L THEN e ELSE f[i]]
<1>6. ff \in [0 .. (L - 1) + 1 -> N]
  BY <1>2, <1>3
<1>7. /\ ff[L] = e
      /\ \A i \in 0 .. L - 1 : ff[i] = f[i] /\ i \in 0 .. L + 1 /\ i # L
      /\ \A i \in 0 .. (L - 1) + 1 : i = L \/ i \in 0 .. L - 1
  BY <1>2
<1>8. S \ {o} = {ff[i] : i \in 1 .. L - 1}
  <2>1. ASSUME NEW i \in 1 .. L PROVE f[i] = o \/ f[i] \in {ff[j] : j \in 1 .. L - 1}
    <3>1. i = L \/ (i \in 1 .. L - 1 /\ ff[i] = f[i])
      BY <1>2, <1>7
    <3>. HIDE DEF ff
    <3> QED
      BY <1>3, <3>1
  <2>2. ASSUME NEW i \in 1 .. L - 1 PROVE ff[i] \in S /\ ff[i] # o
    <3>1. i \in 1 .. L /\ ff[i] = f[i] /\ i \in 0 .. L + 1 /\ i # L
      BY <1>2, <1>7
    <3>. HIDE DEF ff
    <3> QED
      BY <1>1, <1>2, <1>3, <3>1 DEF Chain
  <2>. HIDE DEF ff
  <2> QED
    BY <1>1, <2>1, <2>2
<1>9. Chain(d, h, e, L - 1, ff)
  <2>1. ff[0] = h /\ ff[(L - 1) + 1] = e
    BY <1>2, <1>3
  <2>2. ASSUME NEW i \in 0 .. (L - 1) + 1, NEW j \in 0 .. (L - 1) + 1, ff[i] = ff[j]
        PROVE  i = j
    <3>1. \A p \in 0 .. L - 1 : f[p] # e
      <4>1. ASSUME NEW p \in 0 .. L - 1 PROVE f[p] # e
        <5>1. p \in 0 .. L + 1 /\ L + 1 \in 0 .. L + 1 /\ p # L + 1
          BY <1>2
        <5> QED
          BY <1>1, <1>3, <5>1 DEF Chain
      <4> QED
        BY <4>1
    <3>2. \A p, q \in 0 .. L - 1 : f[p] = f[q] => p = q
      BY <1>1, <1>7 DEF Chain
    <3>. HIDE DEF ff
    <3> QED
      BY <1>7, <2>2, <3>1, <3>2
  <2>3. ASSUME NEW i \in 0 .. L - 1
        PROVE  d[ff[i]][1] = ff[i + 1] /\ d[ff[i + 1]][2] = ff[i]
    <3>1. i \in 0 .. L /\ i \in 0 .. L + 1 /\ i + 1 \in 0 .. L + 1 /\ i # L /\ i # L + 1
          /\ i + 1 # L + 1 /\ L + 1 \in 0 .. L + 1
      BY <1>2
    <3>2. f[i] \in N /\ f[i + 1] \in N /\ ff[i] = f[i] /\ f[i] # e /\ f[i + 1] # e
      BY <1>1, <1>3, <1>7, <3>1 DEF Chain
    <3>3. m[f[i]][1] = f[i + 1] /\ m[f[i + 1]][2] = f[i]
      BY <1>1, <3>1 DEF Chain
    <3>4. CASE i = L - 1
      <4>1. ff[i + 1] = e /\ f[i] = f[L - 1]
        BY <1>2, <3>4
      <4>. HIDE DEF ff
      <4> QED
        BY <1>3, <1>5, <3>2, <4>1
    <3>5. CASE i # L - 1
      <4>1. i + 1 \in 0 .. L - 1
        BY <1>2, <3>5
      <4>2. ff[i + 1] = f[i + 1]
        BY <1>7, <4>1
      <4>3. f[i] # f[L - 1]
        BY <1>1, <1>2, <3>1, <3>5 DEF Chain
      <4>. HIDE DEF ff
      <4> QED
        BY <1>5, <3>2, <3>3, <4>2, <4>3
    <3> QED
      BY <3>4, <3>5
  <2>4. d[h][2] = NULL /\ d[e][1] = NULL
    <3>1. h # e /\ e # f[L - 1]
      <4>1. 0 \in 0 .. L - 1 /\ L - 1 \in 0 .. L - 1 /\ L + 1 \in 0 .. L + 1
            /\ 0 # L + 1 /\ L - 1 # L + 1 /\ 0 \in 0 .. L + 1
        BY <1>2
      <4> QED
        BY <1>1, <1>2, <1>3, <4>1 DEF Chain
    <3>2. m[h][2] = NULL /\ m[e][1] = NULL
      BY <1>1 DEF Chain
    <3> QED
      BY <1>3, <1>5, <3>1, <3>2
  <2> QED
    BY <2>1, <2>2, <2>3, <2>4 DEF Chain
<1>10. ChainOf(N, d, h, e, S \ {o})
  <2>. HIDE DEF ff, o
  <2> QED
    BY <1>2, <1>6, <1>8, <1>9 DEF ChainOf
<1>11. ASSUME NEW x \in N \ (S \cup {h, e}) PROVE d[x] = m[x]
  <2>1. x # e /\ x # f[L - 1]
    BY <1>4
  <2>2. d[x] = <<m[x][1], m[x][2]>>
    BY <1>5, <2>1
  <2> QED
    BY <2>2, PairEqual
<1> QED
  BY <1>3, <1>5, <1>10, <1>11 DEF d, Same

=============================================================================
