-------------------------- MODULE GlobalHeapProofs --------------------------
(***************************************************************************)
(* What GlobalHeap keeps for every number of pools, threads, pages and     *)
(* span lists.  The inductive invariant IInv says of each page who may use *)
(* it: SpanInv for the pages of spans, UnmappedInv and ReserveInv for the  *)
(* pages that are in no span yet, PlaceInv for the place of each span.     *)
(***************************************************************************)
EXTENDS GlobalHeap, TLAPS

\* The pages of a span lie below free_start and are mapped to its header, so
\* no page is in two spans.
SpanInv ==
  \A s \in Spans :
    /\ page_num[s] >= 1
    /\ s + page_num[s] <= free_start
    /\ \A i \in SpanRun(s) : span_map[i] = s

\* Fresh and reserved pages are mapped to no span.
UnmappedInv ==
  /\ \A i \in Pages : i >= free_start => span_map[i] = NoSpan
  /\ \A p \in Pools : \A i \in ChunkRest(p) : span_map[i] = NoSpan
  /\ \A h \in heads : \A i \in HeadRun(h) : span_map[i] = NoSpan

\* Reservations lie below free_start and do not overlap.
ReserveInv ==
  /\ free_start <= pool_end
  /\ \A p \in Pools : s_free[p] <= s_end[p] /\ s_end[p] <= free_start
  /\ \A h \in heads : h + INIT_HEAD_SPAN_NUM <= free_start
  /\ \A p, q \in Pools : p # q => s_end[p] <= s_free[q] \/ s_end[q] <= s_free[p]
  /\ \A h, g \in heads : h # g => \/ h + INIT_HEAD_SPAN_NUM <= g
                                  \/ g + INIT_HEAD_SPAN_NUM <= h
  /\ \A p \in Pools, h \in heads : \/ s_end[p] <= h
                                   \/ h + INIT_HEAD_SPAN_NUM <= s_free[p]

\* What each place holds is a span of the size that the place is for.
SizeInv ==
  /\ \A s \in live : s \in Spans /\ page_num[s] > 1
  /\ \A p \in Pools : \A s \in small[p] : s \in Spans /\ page_num[s] = 1
  /\ \A t \in Threads : freeing[t] # NoSpan =>
       freeing[t] \in Spans /\ page_num[freeing[t]] \in 2 .. SPAN_CLASS_NUM
  /\ \A k \in Classes : \A s \in span_free_list[k] : s \in Spans /\ page_num[s] = k + 1

\* A span is in one place.
PlaceInv ==
  /\ \A p \in Pools : live \cap small[p] = {}
  /\ \A t \in Threads : freeing[t] \notin live
  /\ \A k \in Classes : live \cap span_free_list[k] = {}
  /\ \A p, q \in Pools : p # q => small[p] \cap small[q] = {}
  /\ \A p \in Pools, t \in Threads : freeing[t] \notin small[p]
  /\ \A p \in Pools, k \in Classes : small[p] \cap span_free_list[k] = {}
  /\ \A t, u \in Threads : t # u /\ freeing[t] # NoSpan => freeing[t] # freeing[u]
  /\ \A t \in Threads, k \in Classes : freeing[t] \notin span_free_list[k]
  /\ \A j, k \in Classes : j # k => span_free_list[j] \cap span_free_list[k] = {}

\* A span that has a list is in some place.
AccountInv ==
  \A s \in Spans : page_num[s] <= SPAN_CLASS_NUM =>
    \/ s \in live
    \/ \E p \in Pools : s \in small[p]
    \/ \E t \in Threads : s = freeing[t]
    \/ \E k \in Classes : s \in span_free_list[k]

\* The inductive invariant.
IInv ==
  TypeOK /\ SpanInv /\ UnmappedInv /\ ReserveInv /\ SizeInv /\ PlaceInv /\ AccountInv

-----------------------------------------------------------------------------
(* Carving and mapping *)

\* Carving takes pages from free_start on and keeps the heap within its map,
\* whether it grows the heap or not (mpool_grow).
LEMMA CarveFacts ==
  ASSUME TypeOK, ReserveInv, NEW n \in 1 .. POOL_PAGES, Carve(n)
  PROVE  /\ Base(n) \in Pages
         /\ free_start <= Base(n)
         /\ free_start' = Base(n) + n
         /\ free_start' \in Nat
         /\ free_start' <= pool_end'
         /\ pool_end' \in 0 .. MAP_PAGES
  BY CountAssumption, PoolAssumption DEF TypeOK, ReserveInv, Carve, Base, Fits, Pages

\* Mapping unmapped pages below the new free_start to a header of that size
\* keeps the spans right and adds one.
LEMMA NewSpan ==
  ASSUME TypeOK, SpanInv, NEW s \in Pages, NEW n \in 1 .. SPAN_CLASS_NUM + 1,
         free_start' \in Nat, free_start <= free_start', s + n <= free_start',
         free_start' <= MAP_PAGES,
         \A i \in s .. s + n - 1 : span_map[i] = NoSpan,
         span_map' = Mapped(s, n),
         page_num' = [page_num EXCEPT ![s] = n]
  PROVE  /\ span_map' \in [Pages -> Pages \cup {NoSpan}]
         /\ page_num' \in [Pages -> 0 .. SPAN_CLASS_NUM + 1]
         /\ SpanInv'
         /\ s \notin Spans
         /\ Spans' = Spans \cup {s}
         /\ page_num'[s] = n
         /\ \A u \in Spans : page_num'[u] = page_num[u]
         /\ \A i \in Pages : i \notin s .. s + n - 1 => span_map'[i] = span_map[i]
<1>1. /\ span_map' \in [Pages -> Pages \cup {NoSpan}]
      /\ page_num' \in [Pages -> 0 .. SPAN_CLASS_NUM + 1]
  BY DEF TypeOK, Mapped
<1>2. s \notin Spans
  <2>1. s \in s .. s + n - 1
    BY DEF Pages
  <2> QED BY <2>1 DEF Spans, NoSpan, Pages
<1>3. \A i \in Pages : span_map'[i] = IF i \in s .. s + n - 1 THEN s ELSE span_map[i]
  BY DEF Mapped
<1>4. Spans' = Spans \cup {s}
  <2>1. ASSUME NEW u \in Pages PROVE span_map'[u] = u <=> span_map[u] = u \/ u = s
    BY <1>3, <2>1 DEF Pages, NoSpan
  <2> QED BY <2>1 DEF Spans
<1>5. page_num'[s] = n /\ \A u \in Spans : page_num'[u] = page_num[u]
  BY <1>2 DEF TypeOK, Spans
<1>6. SpanInv'
  <2> SUFFICES ASSUME NEW u \in Spans'
               PROVE  /\ page_num'[u] >= 1
                      /\ u + page_num'[u] <= free_start'
                      /\ \A i \in u .. u + page_num'[u] - 1 : span_map'[i] = u
    BY DEF SpanInv, SpanRun
  <2>1. CASE u = s
    <3>1. \A i \in s .. s + n - 1 : i \in Pages
      BY PoolAssumption DEF Pages
    <3> QED BY <2>1, <1>5, <1>3, <3>1
  <2>2. CASE u \in Spans
    <3>1. /\ page_num[u] \in Nat /\ page_num[u] >= 1
          /\ u + page_num[u] <= free_start
          /\ \A i \in u .. u + page_num[u] - 1 : span_map[i] = u
          /\ u \in Pages /\ u \in Nat /\ free_start \in Nat
      BY <2>2, CountAssumption DEF SpanInv, SpanRun, TypeOK, Spans, Pages
    <3>2. \A i \in u .. u + page_num[u] - 1 : i \in Pages
      BY <3>1, PoolAssumption DEF Pages
    <3>3. u # NoSpan
      BY <3>1 DEF Pages, NoSpan
    <3>4. ASSUME NEW i \in u .. u + page_num[u] - 1 PROVE span_map'[i] = u
      BY <3>1, <3>2, <3>3, <1>3
    <3>5. page_num'[u] = page_num[u]
      BY <1>5, <2>2
    <3>6. u + page_num[u] <= free_start'
      BY <3>1
    <3> QED BY <3>1, <3>4, <3>5, <3>6
  <2> QED BY <2>1, <2>2, <1>4
<1> QED BY <1>1, <1>2, <1>3, <1>4, <1>5, <1>6

-----------------------------------------------------------------------------
(* span_get_from_mpool *)

\* What the callers of SpanGetFromMpool(index, s) rely on.
SpanGiven(index, s) ==
  /\ free_start' \in Nat /\ pool_end' \in 0 .. MAP_PAGES
  /\ span_map' \in [Pages -> Pages \cup {NoSpan}]
  /\ page_num' \in [Pages -> 0 .. SPAN_CLASS_NUM + 1]
  /\ span_free_list' \in [Classes -> SUBSET Pages]
  /\ SpanInv' /\ UnmappedInv' /\ ReserveInv'
  /\ s \in Spans' /\ page_num'[s] = index + 1
  /\ Spans \subseteq Spans'
  /\ \A u \in Spans' \ Spans : u = s \/ \E k \in Classes : u \in span_free_list'[k]
  /\ \A k \in Classes : \A u \in span_free_list[k] :
       u = s \/ \E j \in Classes : u \in span_free_list'[j]
  /\ \A u \in Spans : (\A k \in Classes : u \notin span_free_list[k]) =>
       /\ u # s
       /\ page_num'[u] = page_num[u]
       /\ \A k \in Classes : u \notin span_free_list'[k]
  /\ \A k \in Classes : \A u \in span_free_list'[k] : u \in Spans' /\ page_num'[u] = k + 1
  /\ \A k \in Classes : s \notin span_free_list'[k]
  /\ \A j, k \in Classes : j # k => span_free_list'[j] \cap span_free_list'[k] = {}

\* Reservations stay apart and below free_start as free_start advances.
LEMMA ReserveKept ==
  ASSUME TypeOK, ReserveInv, free_start' \in Nat,
         free_start <= free_start', free_start' <= pool_end',
         UNCHANGED <<heads, s_free, s_end>>
  PROVE  ReserveInv'
<1>1. /\ free_start \in Nat /\ INIT_HEAD_SPAN_NUM \in Nat
      /\ \A h \in heads : h \in Nat
      /\ \A q \in Pools : s_free[q] \in Nat /\ s_end[q] \in Nat
  BY CountAssumption DEF TypeOK, Pages
<1>2. \A q \in Pools : s_free[q] <= s_end[q] /\ s_end[q] <= free_start'
  BY <1>1 DEF ReserveInv
<1>3. \A h \in heads : h + INIT_HEAD_SPAN_NUM <= free_start'
  BY <1>1 DEF ReserveInv
<1>4. heads' = heads /\ s_free' = s_free /\ s_end' = s_end
  OBVIOUS
<1>5. /\ \A p, q \in Pools : p # q => s_end[p] <= s_free[q] \/ s_end[q] <= s_free[p]
      /\ \A h, g \in heads : h # g => \/ h + INIT_HEAD_SPAN_NUM <= g
                                      \/ g + INIT_HEAD_SPAN_NUM <= h
      /\ \A p \in Pools, h \in heads : \/ s_end[p] <= h
                                       \/ h + INIT_HEAD_SPAN_NUM <= s_free[p]
  BY DEF ReserveInv
<1> QED BY <1>2, <1>3, <1>4, <1>5, Zenon DEF ReserveInv

\* A span of fresh pages.
LEMMA FreshSpanGiven ==
  ASSUME IInv, NEW index \in 0 .. SPAN_CLASS_NUM, NEW s \in Pages,
         FreshSpan(index, s), UNCHANGED <<heads, s_free, s_end>>
  PROVE  SpanGiven(index, s)
<1> DEFINE n == index + 1
<1>0. /\ n \in 1 .. POOL_PAGES /\ n \in 1 .. SPAN_CLASS_NUM + 1
      /\ TypeOK /\ SpanInv /\ UnmappedInv /\ ReserveInv /\ SizeInv /\ PlaceInv
  BY CountAssumption, PoolAssumption DEF IInv
<1>1. /\ s = Base(n) /\ Carve(n) /\ span_map' = Mapped(s, n)
      /\ page_num' = [page_num EXCEPT ![s] = n] /\ span_free_list' = span_free_list
  BY DEF FreshSpan, PageNum
<1>2. /\ free_start <= s /\ free_start' = s + n /\ free_start' \in Nat
      /\ free_start' <= pool_end' /\ pool_end' \in 0 .. MAP_PAGES
      /\ s \in Nat /\ free_start \in Nat
  BY <1>0, <1>1, CarveFacts DEF TypeOK, Pages
<1>3. \A i \in s .. s + n - 1 : i \in Pages /\ span_map[i] = NoSpan
  BY <1>0, <1>2, PoolAssumption DEF UnmappedInv, Pages
<1>4. /\ free_start <= free_start' /\ s + n <= free_start' /\ free_start' <= MAP_PAGES
  BY <1>0, <1>2, PoolAssumption
<1> HIDE DEF n
<1>5. /\ span_map' \in [Pages -> Pages \cup {NoSpan}]
      /\ page_num' \in [Pages -> 0 .. SPAN_CLASS_NUM + 1]
      /\ SpanInv'
      /\ s \notin Spans
      /\ Spans' = Spans \cup {s}
      /\ page_num'[s] = n
      /\ \A u \in Spans : page_num'[u] = page_num[u]
      /\ \A i \in Pages : i \notin s .. s + n - 1 => span_map'[i] = span_map[i]
  BY <1>0, <1>1, <1>2, <1>3, <1>4, NewSpan
<1>6. ReserveInv'
  BY <1>0, <1>2, <1>4, ReserveKept
<1>7. UnmappedInv'
  <2>1. ASSUME NEW i \in Pages, i < free_start \/ i >= free_start'
        PROVE span_map'[i] = span_map[i]
    BY <2>1, <1>2, <1>5, <1>0 DEF Pages
  <2>2. \A i \in Pages : i >= free_start' => span_map'[i] = NoSpan
    BY <2>1, <1>0, <1>2, <1>4 DEF UnmappedInv, Pages
  <2>3. ASSUME NEW q \in Pools, NEW i \in s_free[q] .. s_end[q] - 1
        PROVE span_map'[i] = NoSpan
    <3>1. i \in Pages /\ i < free_start
      BY <1>0, <1>2, <1>4, PoolAssumption DEF ReserveInv, TypeOK, Pages
    <3> QED BY <3>1, <2>1, <1>0 DEF UnmappedInv, ChunkRest
  <2>4. ASSUME NEW h \in heads, NEW i \in HeadRun(h)
        PROVE span_map'[i] = NoSpan
    <3>1. i \in Pages /\ i < free_start
      BY <1>0, <1>2, <1>4, PoolAssumption, CountAssumption DEF ReserveInv, TypeOK, Pages, HeadRun
    <3> QED BY <3>1, <2>1, <1>0 DEF UnmappedInv
  <2> QED BY <2>2, <2>3, <2>4 DEF UnmappedInv, ChunkRest, HeadRun
<1>8. \A k \in Classes : span_free_list[k] \subseteq Spans
  BY <1>0 DEF SizeInv
<1>9. span_free_list' \in [Classes -> SUBSET Pages]
  BY <1>0, <1>1 DEF TypeOK
<1>10. page_num'[s] = index + 1
  BY <1>5 DEF n
<1>11. \A k \in Classes : \A u \in span_free_list[k] : u \in Spans /\ page_num'[u] = k + 1
  BY <1>5, <1>8, <1>0 DEF SizeInv
<1>12. \A j, k \in Classes : j # k => span_free_list[j] \cap span_free_list[k] = {}
  BY <1>0 DEF PlaceInv
<1> QED BY <1>1, <1>2, <1>5, <1>6, <1>7, <1>8, <1>9, <1>10, <1>11, <1>12 DEF SpanGiven

\* A listed span that is exactly long enough is taken as it is.
LEMMA WholeSpanGiven ==
  ASSUME IInv, NEW index \in 0 .. SPAN_CLASS_NUM, NEW s \in Pages,
         NEW k \in Classes, s \in span_free_list[k], page_num[s] = index + 1,
         span_free_list' = [span_free_list EXCEPT ![k] = @ \ {s}],
         UNCHANGED <<free_start, pool_end, span_map, page_num, heads, s_free, s_end>>
  PROVE  SpanGiven(index, s)
<1>0. /\ TypeOK /\ SpanInv /\ UnmappedInv /\ ReserveInv /\ SizeInv /\ PlaceInv
  BY DEF IInv
<1>1. /\ SpanInv' /\ Spans' = Spans
  BY <1>0 DEF SpanInv, Spans, SpanRun
<1>2. UnmappedInv'
  BY <1>0 DEF UnmappedInv, ChunkRest, HeadRun
<1>3. ReserveInv'
  BY <1>0, ReserveKept DEF ReserveInv, TypeOK
<1>4. /\ span_free_list' \in [Classes -> SUBSET Pages]
      /\ \A j \in Classes : span_free_list'[j] =
           IF j = k THEN span_free_list[k] \ {s} ELSE span_free_list[j]
  BY <1>0 DEF TypeOK
<1>5. /\ \A j \in Classes : \A u \in span_free_list[j] : u \in Spans /\ page_num[u] = j + 1
      /\ \A i, j \in Classes : i # j => span_free_list[i] \cap span_free_list[j] = {}
  BY <1>0 DEF SizeInv, PlaceInv
<1>6. \A j \in Classes : s \notin span_free_list'[j]
  BY <1>4, <1>5
<1>7. /\ \A j \in Classes : \A u \in span_free_list'[j] : u \in Spans' /\ page_num'[u] = j + 1
      /\ \A i, j \in Classes : i # j => span_free_list'[i] \cap span_free_list'[j] = {}
  BY <1>1, <1>4, <1>5
<1>8. \A j \in Classes : \A u \in span_free_list[j] :
        u = s \/ \E m \in Classes : u \in span_free_list'[m]
  BY <1>4
<1>9. \A u \in Spans : (\A j \in Classes : u \notin span_free_list[j]) =>
        /\ u # s
        /\ \A j \in Classes : u \notin span_free_list'[j]
  BY <1>4
<1>10. s \in Spans
  BY <1>5
<1>11. /\ free_start' \in Nat /\ pool_end' \in 0 .. MAP_PAGES
       /\ span_map' \in [Pages -> Pages \cup {NoSpan}]
       /\ page_num' \in [Pages -> 0 .. SPAN_CLASS_NUM + 1]
  BY <1>0 DEF TypeOK
<1>12. page_num' = page_num
  OBVIOUS
<1> QED BY <1>1, <1>2, <1>3, <1>4, <1>6, <1>7, <1>8, <1>9, <1>10, <1>11, <1>12 DEF SpanGiven

\* A longer listed span is split; the rest becomes a listed span (span_split).
LEMMA SplitSpanGiven ==
  ASSUME IInv, NEW index \in 0 .. SPAN_CLASS_NUM, NEW s \in Pages,
         NEW k \in Classes, s \in span_free_list[k], page_num[s] > index + 1,
         page_num' = [page_num EXCEPT ![s] = index + 1,
                                      ![s + (index + 1)] = page_num[s] - (index + 1)],
         span_map' = Mapped(s + (index + 1), page_num[s] - (index + 1)),
         span_free_list' = [[span_free_list EXCEPT ![k] = @ \ {s}]
                              EXCEPT ![page_num[s] - (index + 1) - 1] = @ \cup {s + (index + 1)}],
         UNCHANGED <<free_start, pool_end, heads, s_free, s_end>>
  PROVE  SpanGiven(index, s)
<1> DEFINE n == index + 1
           r == s + n
           d == page_num[s] - n
<1>0. /\ TypeOK /\ SpanInv /\ UnmappedInv /\ ReserveInv /\ SizeInv /\ PlaceInv
  BY DEF IInv
<1>1. /\ \A j \in Classes : \A u \in span_free_list[j] : u \in Spans /\ page_num[u] = j + 1
      /\ \A i, j \in Classes : i # j => span_free_list[i] \cap span_free_list[j] = {}
  BY <1>0 DEF SizeInv, PlaceInv
<1>2. /\ s \in Spans /\ page_num[s] = k + 1 /\ page_num[s] \in Nat /\ s \in Nat
      /\ n \in Nat /\ n \in 1 .. SPAN_CLASS_NUM
      /\ d \in Nat /\ d \in 1 .. SPAN_CLASS_NUM - 1 /\ d - 1 \in Classes /\ d - 1 # k
      /\ r \in Nat /\ r = s + n /\ d = page_num[s] - n /\ r + d = s + page_num[s]
  BY <1>1, CountAssumption DEF Classes, Pages
<1>p. page_num' = [page_num EXCEPT ![s] = n, ![r] = d]
  OBVIOUS
<1>l. span_free_list' = [[span_free_list EXCEPT ![k] = @ \ {s}] EXCEPT ![d - 1] = @ \cup {r}]
  OBVIOUS
<1>m. span_map' = Mapped(r, d)
  OBVIOUS
<1>3. \A i \in Pages : span_map'[i] = IF i \in r .. r + d - 1 THEN r ELSE span_map[i]
  BY <1>m DEF Mapped
<1> HIDE DEF n, r, d
<1>4. /\ s + page_num[s] <= free_start /\ free_start \in Nat /\ free_start <= MAP_PAGES
      /\ \A i \in s .. s + page_num[s] - 1 : i \in Pages /\ span_map[i] = s
  <2>1. free_start <= pool_end /\ pool_end <= MAP_PAGES /\ free_start \in Nat /\ pool_end \in Nat
    BY <1>0, PoolAssumption DEF TypeOK, ReserveInv
  <2>2. s + page_num[s] <= free_start /\ \A i \in s .. s + page_num[s] - 1 : span_map[i] = s
    BY <1>0, <1>2 DEF SpanInv, SpanRun
  <2> QED BY <2>1, <2>2, <1>2, PoolAssumption DEF Pages
<1>5. /\ r \in Pages /\ r \notin Spans /\ r # s /\ r \in s .. s + page_num[s] - 1
  <2>1. r \in s .. s + page_num[s] - 1 /\ r # s
    BY <1>2
  <2> QED BY <2>1, <1>4 DEF Spans
<1>6. /\ span_map' \in [Pages -> Pages \cup {NoSpan}]
      /\ page_num' \in [Pages -> 0 .. SPAN_CLASS_NUM + 1]
      /\ page_num'[s] = n /\ page_num'[r] = d
      /\ \A u \in Pages \ {s, r} : page_num'[u] = page_num[u]
  <2>1. n \in 0 .. SPAN_CLASS_NUM + 1 /\ d \in 0 .. SPAN_CLASS_NUM + 1
    BY <1>2, CountAssumption
  <2>2. page_num \in [Pages -> 0 .. SPAN_CLASS_NUM + 1] /\ span_map \in [Pages -> Pages \cup {NoSpan}]
    BY <1>0 DEF TypeOK
  <2>3. /\ page_num' \in [Pages -> 0 .. SPAN_CLASS_NUM + 1]
        /\ page_num'[s] = n /\ page_num'[r] = d
        /\ \A u \in Pages \ {s, r} : page_num'[u] = page_num[u]
    BY <1>5, <1>p, <2>1, <2>2
  <2>4. span_map' \in [Pages -> Pages \cup {NoSpan}]
    BY <1>5, <1>m, <2>2 DEF Mapped
  <2> QED BY <2>3, <2>4
<1>7. \A i \in r .. r + d - 1 : i \in s .. s + page_num[s] - 1 /\ i # s
  BY <1>2, <1>5
<1>8. Spans' = Spans \cup {r}
  <2>1. ASSUME NEW u \in Pages PROVE span_map'[u] = u <=> span_map[u] = u \/ u = r
    <3>1. CASE u \in r .. r + d - 1
      BY <3>1, <1>4, <1>3, <1>7
    <3>2. CASE u \notin r .. r + d - 1
      <4>1. u # r
        BY <3>2, <1>2, <1>5 DEF Pages
      <4> QED BY <3>2, <4>1, <1>3
    <3> QED BY <3>1, <3>2
  <2> QED BY <2>1, <1>5 DEF Spans
<1>9. \A u \in Spans : u # s => \A i \in u .. u + page_num[u] - 1 :
        i \in Pages /\ span_map[i] = u /\ span_map'[i] = u
  <2> SUFFICES ASSUME NEW u \in Spans, u # s, NEW i \in u .. u + page_num[u] - 1
               PROVE  i \in Pages /\ span_map[i] = u /\ span_map'[i] = u
    OBVIOUS
  <2>1. u \in Pages /\ u \in Nat /\ u + page_num[u] <= free_start /\ span_map[i] = u
        /\ page_num[u] \in Nat
    <3>1. u \in Pages /\ u \in Nat
      BY DEF Spans, Pages
    <3>2. page_num[u] \in 0 .. SPAN_CLASS_NUM + 1
      BY <3>1, <1>0 DEF TypeOK
    <3>3. page_num[u] \in Nat
      BY <3>2, CountAssumption
    <3>4. u + page_num[u] <= free_start /\ span_map[i] = u
      BY <1>0 DEF SpanInv, SpanRun
    <3> QED BY <3>1, <3>3, <3>4
  <2>2. i \in Pages
    BY <2>1, <1>4, PoolAssumption DEF Pages
  <2>3. i \notin r .. r + d - 1
    BY <2>1, <1>7, <1>4
  <2> QED BY <2>1, <2>2, <2>3, <1>3
<1>10. SpanInv'
  <2> SUFFICES ASSUME NEW u \in Spans'
               PROVE  /\ page_num'[u] >= 1
                      /\ u + page_num'[u] <= free_start'
                      /\ \A i \in u .. u + page_num'[u] - 1 : span_map'[i] = u
    BY DEF SpanInv, SpanRun
  <2>1. CASE u = s
    <3>1. ASSUME NEW i \in s .. s + n - 1
          PROVE  i \in s .. s + page_num[s] - 1 /\ i \notin r .. r + d - 1
      BY <1>2
    <3>2. \A i \in s .. s + n - 1 : span_map'[i] = s
      BY <3>1, <1>4, <1>3
    <3>3. s + n <= free_start'
      BY <1>2, <1>4
    <3> QED BY <2>1, <3>2, <3>3, <1>6, <1>2
  <2>2. CASE u = r
    <3>1. r + d <= free_start'
      BY <1>2, <1>4
    <3>2. \A i \in r .. r + d - 1 : span_map'[i] = r
      BY <1>4, <1>3, <1>7
    <3> QED BY <2>2, <3>1, <3>2, <1>6, <1>2
  <2>3. CASE u \in Spans /\ u # s
    <3>1. u # r /\ u \in Pages
      BY <2>3, <1>5 DEF Spans
    <3>2. page_num'[u] = page_num[u]
      BY <2>3, <3>1, <1>6
    <3>3. page_num[u] >= 1 /\ u + page_num[u] <= free_start
      BY <1>0, <2>3 DEF SpanInv
    <3> QED BY <2>3, <3>2, <3>3, <1>9
  <2> QED BY <2>1, <2>2, <2>3, <1>8
<1>11. UnmappedInv'
  <2>1. ASSUME NEW i \in Pages, span_map[i] = NoSpan PROVE span_map'[i] = NoSpan
    <3>1. s # NoSpan
      BY <1>2 DEF NoSpan
    <3>2. i \notin r .. r + d - 1
      BY <2>1, <3>1, <1>7, <1>4
    <3> QED BY <2>1, <3>2, <1>3
  <2>2. \A i \in Pages : i >= free_start' => span_map'[i] = NoSpan
    BY <2>1, <1>0 DEF UnmappedInv
  <2>3. ASSUME NEW q \in Pools, NEW i \in s_free[q] .. s_end[q] - 1
        PROVE span_map'[i] = NoSpan
    <3>1. s_free[q] \in Nat /\ s_end[q] \in Nat
      BY <1>0, PoolAssumption DEF TypeOK
    <3>2. s_end[q] <= free_start
      BY <1>0 DEF ReserveInv
    <3>3. i \in Pages
      BY <2>3, <3>1, <3>2, <1>4, PoolAssumption DEF Pages
    <3> QED BY <3>3, <2>1, <1>0 DEF UnmappedInv, ChunkRest
  <2>4. ASSUME NEW h \in heads, NEW i \in HeadRun(h)
        PROVE span_map'[i] = NoSpan
    <3>1. i \in Pages
      BY <1>0, <1>4, PoolAssumption, CountAssumption DEF ReserveInv, TypeOK, Pages, HeadRun
    <3> QED BY <3>1, <2>1, <1>0 DEF UnmappedInv
  <2> QED BY <2>2, <2>3, <2>4 DEF UnmappedInv, ChunkRest, HeadRun
<1>12. ReserveInv'
  BY <1>0, ReserveKept DEF ReserveInv, TypeOK
<1>13. /\ span_free_list' \in [Classes -> SUBSET Pages]
       /\ \A j \in Classes : span_free_list'[j] =
            IF j = k THEN span_free_list[k] \ {s}
            ELSE IF j = d - 1 THEN span_free_list[j] \cup {r} ELSE span_free_list[j]
  <2> DEFINE cut == [span_free_list EXCEPT ![k] = @ \ {s}]
  <2>1. span_free_list \in [Classes -> SUBSET Pages]
    BY <1>0 DEF TypeOK
  <2>2. /\ cut \in [Classes -> SUBSET Pages]
        /\ \A j \in Classes : cut[j] = IF j = k THEN span_free_list[k] \ {s} ELSE span_free_list[j]
    BY <2>1
  <2>3. span_free_list' = [cut EXCEPT ![d - 1] = cut[d - 1] \cup {r}]
    BY <1>l
  <2>4. cut[d - 1] \cup {r} \in SUBSET Pages
    BY <1>2, <1>5, <2>2
  <2> HIDE DEF cut
  <2>5. \A j \in Classes : span_free_list'[j] = IF j = d - 1 THEN cut[j] \cup {r} ELSE cut[j]
    BY <2>2, <2>3, <2>4
  <2>6. span_free_list' \in [Classes -> SUBSET Pages]
    BY <2>2, <2>3, <2>4
  <2> QED BY <1>2, <2>2, <2>5, <2>6
<1>14. \A j \in Classes : r \notin span_free_list[j]
  BY <1>1, <1>5
<1>15. \A j \in Classes : s \notin span_free_list'[j]
  BY <1>1, <1>5, <1>13
<1>16. ASSUME NEW j \in Classes, NEW u \in span_free_list'[j]
       PROVE  u \in Spans' /\ page_num'[u] = j + 1
  <2>1. CASE u = r
    BY <2>1, <1>2, <1>6, <1>8, <1>13, <1>14 DEF Classes
  <2>2. CASE u # r
    <3>1. u \in span_free_list[j] /\ u # s
      BY <2>2, <1>13, <1>15
    <3> QED BY <2>2, <3>1, <1>1, <1>6, <1>8 DEF Spans
  <2> QED BY <2>1, <2>2
<1>17. \A i, j \in Classes : i # j => span_free_list'[i] \cap span_free_list'[j] = {}
  <2> SUFFICES ASSUME NEW i \in Classes, NEW j \in Classes, i # j,
                      NEW u \in span_free_list'[i], u \in span_free_list'[j]
               PROVE  FALSE
    OBVIOUS
  <2>1. CASE u = r
    <3>1. i = d - 1 /\ j = d - 1
      BY <2>1, <1>13, <1>14
    <3> QED BY <3>1
  <2>2. CASE u # r
    <3>1. u \in span_free_list[i] /\ u \in span_free_list[j]
      BY <2>2, <1>13
    <3> QED BY <3>1, <1>1
  <2> QED BY <2>1, <2>2
<1>18. \A j \in Classes : \A u \in span_free_list[j] :
         u = s \/ \E m \in Classes : u \in span_free_list'[m]
  BY <1>13
<1>19. ASSUME NEW u \in Spans, \A j \in Classes : u \notin span_free_list[j]
       PROVE  /\ u # s
              /\ page_num'[u] = page_num[u]
              /\ \A j \in Classes : u \notin span_free_list'[j]
  <2>1. u # s /\ u # r /\ u \in Pages
    BY <1>19, <1>5 DEF Spans
  <2>2. page_num'[u] = page_num[u]
    BY <2>1, <1>6
  <2>3. \A j \in Classes : u \notin span_free_list'[j]
    BY <1>19, <2>1, <1>13
  <2> QED BY <2>1, <2>2, <2>3
<1>20. \E j \in Classes : r \in span_free_list'[j]
  BY <1>2, <1>13
<1>21. free_start' \in Nat /\ pool_end' \in 0 .. MAP_PAGES
  BY <1>0 DEF TypeOK
<1>22. page_num'[s] = index + 1
  BY <1>6 DEF n
<1>23. /\ s \in Spans' /\ Spans \subseteq Spans'
       /\ \A u \in Spans' \ Spans : u = s \/ \E j \in Classes : u \in span_free_list'[j]
  BY <1>2, <1>8, <1>20
<1>24. \A j \in Classes : \A u \in span_free_list'[j] : u \in Spans' /\ page_num'[u] = j + 1
  BY <1>16
<1>25. \A u \in Spans : (\A j \in Classes : u \notin span_free_list[j]) =>
         /\ u # s
         /\ page_num'[u] = page_num[u]
         /\ \A j \in Classes : u \notin span_free_list'[j]
  BY <1>19
<1> QED
  BY <1>6, <1>10, <1>11, <1>12, <1>13, <1>15, <1>17, <1>18, <1>21, <1>22, <1>23, <1>24, <1>25,
     Zenon DEF SpanGiven

\* Whatever way the span is found.
LEMMA SpanGet ==
  ASSUME IInv, NEW index \in 0 .. SPAN_CLASS_NUM, NEW s \in Pages,
         SpanGetFromMpool(index, s), UNCHANGED <<heads, s_free, s_end>>
  PROVE  SpanGiven(index, s)
<1>1. CASE FreshSpan(index, s)
  BY <1>1, FreshSpanGiven
<1>2. CASE ListedSpan(index, s)
  <2>1. PICK k \in Classes :
          /\ FirstClass(index, k)
          /\ s \in span_free_list[k]
          /\ LET n    == index + 1
                 diff == page_num[s] - n
                 unlinked == [span_free_list EXCEPT ![k] = @ \ {s}]
             IN IF diff > 0
                THEN /\ page_num' = [page_num EXCEPT ![s] = n, ![s + n] = diff]
                     /\ span_map' = Mapped(s + n, diff)
                     /\ span_free_list' = [unlinked EXCEPT ![diff - 1] = @ \cup {s + n}]
                ELSE /\ UNCHANGED <<page_num, span_map>>
                     /\ span_free_list' = unlinked
    BY <1>2 DEF ListedSpan, Unlinked, Split, RestClass
  <2>2. /\ page_num[s] = k + 1 /\ k \in Nat /\ index <= k /\ index \in Nat
    BY <2>1, CountAssumption DEF IInv, SizeInv, FirstClass, Classes
  <2>3. UNCHANGED <<free_start, pool_end>>
    BY <1>2 DEF ListedSpan, Unlinked, Split, RestClass
  <2>4. CASE page_num[s] = index + 1
    <3>1. ~(page_num[s] - (index + 1) > 0)
      BY <2>4, <2>2
    <3> QED BY <2>1, <2>3, <2>4, <3>1, WholeSpanGiven
  <2>5. CASE page_num[s] > index + 1
    <3>1. page_num[s] - (index + 1) > 0
      BY <2>5, <2>2
    <3> QED BY <2>1, <2>3, <2>5, <3>1, SplitSpanGiven
  <2> QED BY <2>2, <2>4, <2>5
<1> QED BY <1>1, <1>2 DEF SpanGetFromMpool

-----------------------------------------------------------------------------
(* Init and the actions keep IInv *)

\* The invariant holds when m_pool_init is done.
LEMMA InitIInv == Init => IInv
<1> SUFFICES ASSUME Init PROVE IInv
  OBVIOUS
<1>1. Spans = {}
  BY DEF Init, Spans, Pages, NoSpan
<1>2. TypeOK
  BY CountAssumption, PoolAssumption DEF Init, TypeOK, NoSpan
<1>3. UnmappedInv
  BY DEF Init, UnmappedInv, ChunkRest
<1>4. ReserveInv
  BY PoolAssumption DEF Init, ReserveInv
<1>5. SizeInv /\ PlaceInv
  BY DEF Init, SizeInv, PlaceInv, NoSpan
<1> QED BY <1>1, <1>2, <1>3, <1>4, <1>5 DEF IInv, SpanInv, AccountInv

\* Reserving n fresh pages leaves spans and places alone.
LEMMA CarveKeeps ==
  ASSUME IInv, NEW n \in 1 .. POOL_PAGES, Carve(n),
         UNCHANGED <<span_map, page_num, span_free_list, live, freeing, small>>
  PROVE  SpanInv' /\ SizeInv' /\ PlaceInv' /\ AccountInv' /\ Spans' = Spans
<1>1. TypeOK /\ SpanInv /\ ReserveInv /\ SizeInv /\ PlaceInv /\ AccountInv
  BY DEF IInv
<1>2. Spans' = Spans
  BY DEF Spans
<1>3. free_start <= free_start' /\ free_start \in Nat /\ free_start' \in Nat
  BY <1>1, CarveFacts DEF TypeOK, Pages
<1>4. SpanInv'
  <2> SUFFICES ASSUME NEW s \in Spans
               PROVE  /\ page_num[s] >= 1 /\ s + page_num[s] <= free_start'
                      /\ \A i \in SpanRun(s) : span_map[i] = s
    BY <1>2 DEF SpanInv, SpanRun
  <2>1. s \in Pages /\ s \in Nat
    BY DEF Spans, Pages
  <2>2. page_num[s] \in 0 .. SPAN_CLASS_NUM + 1 /\ page_num[s] \in Nat
    BY <1>1, <2>1, CountAssumption DEF TypeOK
  <2>3. s + page_num[s] <= free_start
    BY <1>1 DEF SpanInv
  <2> QED BY <1>1, <1>3, <2>1, <2>2, <2>3 DEF SpanInv
<1>5. SizeInv' /\ PlaceInv' /\ AccountInv'
  BY <1>1, <1>2 DEF SizeInv, PlaceInv, AccountInv
<1> QED BY <1>2, <1>4, <1>5

\* The head pool reserves pages for s_pool structs (head_pool_grow).
LEMMA HeadPoolGrowKeeps ==
  ASSUME IInv, NEW slots \in 0 .. HEADS_PER_GROW, HeadPoolGrow(slots), UNCHANGED <<spool, users>>,
         created' \in 0 .. S_POOL_NUM
  PROVE  IInv'
<1> DEFINE b == Base(INIT_HEAD_SPAN_NUM)
<1>1. TypeOK /\ SpanInv /\ UnmappedInv /\ ReserveInv /\ SizeInv /\ PlaceInv /\ AccountInv
  BY DEF IInv
<1>2. INIT_HEAD_SPAN_NUM \in 1 .. POOL_PAGES /\ INIT_HEAD_SPAN_NUM \in Nat
  BY CountAssumption, PoolAssumption
<1>3. /\ heads' = heads \cup {b} /\ head_slots' = slots
      /\ Carve(INIT_HEAD_SPAN_NUM)
      /\ UNCHANGED <<span_map, page_num, span_free_list, live, freeing, small, s_free, s_end, inited, stuck>>
  BY DEF HeadPoolGrow, spool, users
<1>4. /\ b \in Pages /\ free_start <= b /\ free_start' = b + INIT_HEAD_SPAN_NUM
      /\ free_start' \in Nat /\ free_start' <= pool_end' /\ pool_end' \in 0 .. MAP_PAGES
      /\ b \in Nat /\ free_start \in Nat
  BY <1>1, <1>2, <1>3, CarveFacts DEF TypeOK, Pages
<1> HIDE DEF b
<1>5. SpanInv' /\ SizeInv' /\ PlaceInv' /\ AccountInv'
  BY <1>2, <1>3, CarveKeeps
<1>6. TypeOK'
  BY <1>1, <1>3, <1>4 DEF TypeOK
<1>7. UnmappedInv'
  <2>1. \A i \in b .. b + INIT_HEAD_SPAN_NUM - 1 : i \in Pages /\ i >= free_start
    BY <1>2, <1>4, PoolAssumption DEF Pages
  <2>2. \A i \in HeadRun(b) : span_map[i] = NoSpan
    BY <1>1, <2>1 DEF UnmappedInv, HeadRun
  <2>3. \A i \in Pages : i >= free_start' => span_map[i] = NoSpan
    BY <1>1, <1>2, <1>4 DEF UnmappedInv, Pages
  <2> QED BY <1>1, <1>3, <2>2, <2>3 DEF UnmappedInv, ChunkRest, HeadRun
<1>8. ReserveInv'
  <2>1. /\ \A h \in heads : h \in Nat
        /\ \A q \in Pools : s_free[q] \in Nat /\ s_end[q] \in Nat
    BY <1>1 DEF TypeOK, Pages
  <2>2. \A q \in Pools : s_free[q] <= s_end[q] /\ s_end[q] <= free_start' /\ s_end[q] <= b
    BY <2>1, <1>1, <1>2, <1>4 DEF ReserveInv
  <2>3. \A h \in heads : h + INIT_HEAD_SPAN_NUM <= free_start' /\ h + INIT_HEAD_SPAN_NUM <= b
    BY <2>1, <1>1, <1>2, <1>4 DEF ReserveInv
  <2>4. b + INIT_HEAD_SPAN_NUM <= free_start'
    BY <1>2, <1>4
  <2>5. \A h \in heads' : h + INIT_HEAD_SPAN_NUM <= free_start'
    BY <1>3, <2>3, <2>4
  <2>6. \A h, g \in heads' : h # g => h + INIT_HEAD_SPAN_NUM <= g \/ g + INIT_HEAD_SPAN_NUM <= h
    BY <1>1, <1>3, <2>3 DEF ReserveInv
  <2>7. \A q \in Pools, h \in heads' : s_end[q] <= h \/ h + INIT_HEAD_SPAN_NUM <= s_free[q]
    BY <1>1, <1>3, <2>2 DEF ReserveInv
  <2>8. \A q, u \in Pools : q # u => s_end[q] <= s_free[u] \/ s_end[u] <= s_free[q]
    BY <1>1 DEF ReserveInv
  <2> QED BY <1>3, <1>4, <2>2, <2>5, <2>6, <2>7, <2>8 DEF ReserveInv
<1> QED BY <1>5, <1>6, <1>7, <1>8 DEF IInv

\* The reservations of global_init keep it.
LEMMA StartUpKeeps == ASSUME IInv, MHeadPoolInit \/ SPoolHeadGet PROVE IInv'
<1>1. CASE MHeadPoolInit
  <2>1. HEADS_PER_GROW \in 0 .. HEADS_PER_GROW /\ created' \in 0 .. S_POOL_NUM
    BY <1>1, CountAssumption DEF IInv, TypeOK, MHeadPoolInit
  <2> QED BY <1>1, <2>1, HeadPoolGrowKeeps DEF MHeadPoolInit
<1>2. CASE SPoolHeadGet
  <2>1. created' \in 0 .. S_POOL_NUM
    BY <1>2, CountAssumption DEF IInv, TypeOK, SPoolHeadGet
  <2>2. CASE head_slots = 0 /\ HeadPoolGrow(HEADS_PER_GROW - 1)
    <3>1. HEADS_PER_GROW - 1 \in 0 .. HEADS_PER_GROW
      BY CountAssumption
    <3> QED BY <1>2, <2>1, <2>2, <3>1, HeadPoolGrowKeeps DEF SPoolHeadGet
  <2>3. CASE head_slots > 0 /\ head_slots' = head_slots - 1 /\ UNCHANGED <<heads, mpool>>
    <3>1. UNCHANGED <<heads, free_start, pool_end, span_map, page_num, span_free_list, inited,
                      s_free, s_end, small, stuck, live, freeing>>
      BY <1>2, <2>3 DEF SPoolHeadGet, mpool, spool, users
    <3>2. head_slots' \in 0 .. HEADS_PER_GROW
      BY <2>3, CountAssumption DEF IInv, TypeOK
    <3>3. TypeOK'
      BY <2>1, <3>1, <3>2 DEF IInv, TypeOK
    <3>4. Spans' = Spans
      BY <3>1 DEF Spans
    <3>5. SpanInv' /\ UnmappedInv' /\ ReserveInv'
      BY <3>1, <3>4 DEF IInv, SpanInv, UnmappedInv, ReserveInv, SpanRun, ChunkRest, HeadRun
    <3>6. SizeInv' /\ PlaceInv' /\ AccountInv'
      BY <3>1, <3>4 DEF IInv, SizeInv, PlaceInv, AccountInv
    <3> QED BY <3>3, <3>5, <3>6 DEF IInv
  <2> QED BY <1>2, <2>2, <2>3 DEF SPoolHeadGet
<1> QED BY <1>1, <1>2

\* A small heap reserves its chunk (s_pool_init).
LEMMA SPoolInitKeeps == ASSUME IInv, NEW p \in Pools, SPoolInit(p) PROVE IInv'
<1> DEFINE N == INIT_S_POOL_SPAN_NUM
           b == Base(N)
<1>1. TypeOK /\ SpanInv /\ UnmappedInv /\ ReserveInv /\ SizeInv /\ PlaceInv /\ AccountInv
  BY DEF IInv
<1>2. N \in 1 .. POOL_PAGES /\ N \in Nat
  BY CountAssumption, PoolAssumption
<1>3. /\ Carve(N)
      /\ s_free' = [s_free EXCEPT ![p] = b]
      /\ s_end' = [s_end EXCEPT ![p] = b + N]
      /\ inited' = [inited EXCEPT ![p] = TRUE]
      /\ UNCHANGED <<span_map, page_num, span_free_list, heads, head_slots, created,
                     live, freeing, small, stuck>>
  BY DEF SPoolInit, boot, users
<1>4. /\ b \in Pages /\ free_start <= b /\ free_start' = b + N
      /\ free_start' \in Nat /\ free_start' <= pool_end' /\ pool_end' \in 0 .. MAP_PAGES
      /\ b \in Nat /\ free_start \in Nat
  BY <1>1, <1>2, <1>3, CarveFacts DEF TypeOK, Pages
<1> HIDE DEF b, N
<1>5. SpanInv' /\ SizeInv' /\ PlaceInv' /\ AccountInv'
  BY <1>2, <1>3, CarveKeeps
<1>6. /\ TypeOK'
      /\ \A q \in Pools : /\ s_free'[q] = IF q = p THEN b ELSE s_free[q]
                          /\ s_end'[q] = IF q = p THEN b + N ELSE s_end[q]
  <2>1. b + N \in Nat
    BY <1>2, <1>4
  <2> QED BY <1>1, <1>3, <1>4, <2>1 DEF TypeOK
<1>7. UnmappedInv'
  <2>1. \A i \in b .. b + N - 1 : i \in Pages /\ i >= free_start
    BY <1>2, <1>4, PoolAssumption DEF Pages
  <2>2. \A i \in b .. b + N - 1 : span_map[i] = NoSpan
    BY <1>1, <2>1 DEF UnmappedInv
  <2>3. \A i \in Pages : i >= free_start' => span_map[i] = NoSpan
    BY <1>1, <1>2, <1>4 DEF UnmappedInv, Pages
  <2>4. \A q \in Pools : \A i \in s_free'[q] .. s_end'[q] - 1 : span_map[i] = NoSpan
    <3> SUFFICES ASSUME NEW q \in Pools, NEW i \in s_free'[q] .. s_end'[q] - 1
                 PROVE  span_map[i] = NoSpan
      OBVIOUS
    <3>1. CASE q = p
      <4>1. s_free'[q] = b /\ s_end'[q] = b + N
        BY <3>1, <1>6
      <4>2. i \in b .. b + N - 1
        BY <4>1, <1>2, <1>4
      <4> QED BY <4>2, <2>2
    <3>2. CASE q # p
      <4>1. i \in s_free[q] .. s_end[q] - 1
        BY <3>2, <1>6
      <4> QED BY <4>1, <1>1 DEF UnmappedInv, ChunkRest
    <3> QED BY <3>1, <3>2
  <2> QED BY <1>1, <1>3, <2>3, <2>4 DEF UnmappedInv, ChunkRest, HeadRun
<1>8. ReserveInv'
  <2>1. /\ INIT_HEAD_SPAN_NUM \in Nat
        /\ \A h \in heads : h \in Nat
        /\ \A q \in Pools : s_free[q] \in Nat /\ s_end[q] \in Nat
    BY <1>1, CountAssumption DEF TypeOK, Pages
  <2>2. \A q \in Pools : s_free[q] <= s_end[q] /\ s_end[q] <= free_start' /\ s_end[q] <= b
    BY <2>1, <1>1, <1>2, <1>4 DEF ReserveInv
  <2>3. \A h \in heads : h + INIT_HEAD_SPAN_NUM <= free_start' /\ h + INIT_HEAD_SPAN_NUM <= b
    BY <2>1, <1>1, <1>2, <1>4 DEF ReserveInv
  <2>4. b <= b + N /\ b + N <= free_start'
    BY <1>2, <1>4
  <2>5. \A q \in Pools : s_free'[q] <= s_end'[q] /\ s_end'[q] <= free_start'
    BY <1>6, <2>2, <2>4
  <2>6. \A q, u \in Pools : q # u => s_end'[q] <= s_free'[u] \/ s_end'[u] <= s_free'[q]
    <3>1. \A q, u \in Pools : q # u => s_end[q] <= s_free[u] \/ s_end[u] <= s_free[q]
      BY <1>1 DEF ReserveInv
    <3> QED BY <1>6, <2>2, <3>1
  <2>7. \A q \in Pools, h \in heads : s_end'[q] <= h \/ h + INIT_HEAD_SPAN_NUM <= s_free'[q]
    <3>1. \A q \in Pools, h \in heads : s_end[q] <= h \/ h + INIT_HEAD_SPAN_NUM <= s_free[q]
      BY <1>1 DEF ReserveInv
    <3> QED BY <1>6, <2>3, <3>1
  <2>8. \A h, g \in heads : h # g => h + INIT_HEAD_SPAN_NUM <= g \/ g + INIT_HEAD_SPAN_NUM <= h
    BY <1>1 DEF ReserveInv
  <2> QED BY <1>3, <1>4, <2>3, <2>5, <2>6, <2>7, <2>8 DEF ReserveInv
<1> QED BY <1>5, <1>6, <1>7, <1>8 DEF IInv

\* large_malloc
LEMMA LargeMallocKeeps ==
  ASSUME IInv, NEW index \in LargeIndexes, LargeMalloc(index) PROVE IInv'
<1>1. TypeOK /\ SpanInv /\ UnmappedInv /\ ReserveInv /\ SizeInv /\ PlaceInv /\ AccountInv
  BY DEF IInv
<1>2. index \in 0 .. SPAN_CLASS_NUM /\ index \in Nat /\ index >= 1
  BY LargeAssumption, CountAssumption
<1>3. PICK s \in Pages : SpanGetFromMpool(index, s) /\ live' = live \cup {s}
  BY DEF LargeMalloc
<1>4. UNCHANGED <<heads, head_slots, created, inited, s_free, s_end, small, stuck, freeing>>
  BY DEF LargeMalloc, boot, spool
<1>5. SpanGiven(index, s)
  BY <1>2, <1>3, <1>4, SpanGet
<1>6. TypeOK'
  BY <1>1, <1>3, <1>4, <1>5 DEF TypeOK, SpanGiven
<1>7. SpanInv' /\ UnmappedInv' /\ ReserveInv'
  BY <1>5 DEF SpanGiven
<1>8. /\ s \in Spans' /\ page_num'[s] = index + 1 /\ page_num'[s] > 1
      /\ Spans \subseteq Spans'
      /\ \A u \in Spans' \ Spans : u = s \/ \E k \in Classes : u \in span_free_list'[k]
      /\ \A k \in Classes : \A u \in span_free_list[k] :
           u = s \/ \E j \in Classes : u \in span_free_list'[j]
      /\ \A k \in Classes : \A u \in span_free_list'[k] : u \in Spans' /\ page_num'[u] = k + 1
      /\ \A k \in Classes : s \notin span_free_list'[k]
      /\ \A j, k \in Classes : j # k => span_free_list'[j] \cap span_free_list'[k] = {}
  BY <1>2, <1>5 DEF SpanGiven
<1>9. ASSUME NEW u \in Spans, \A k \in Classes : u \notin span_free_list[k]
      PROVE  u # s /\ page_num'[u] = page_num[u] /\ \A k \in Classes : u \notin span_free_list'[k]
  BY <1>5, <1>9 DEF SpanGiven
<1>10. \A u \in live : u \in Spans' /\ page_num'[u] = page_num[u] /\ page_num[u] > 1
                       /\ u # s /\ \A k \in Classes : u \notin span_free_list'[k]
  <2>1. \A u \in live : u \in Spans /\ page_num[u] > 1 /\ \A k \in Classes : u \notin span_free_list[k]
    BY <1>1 DEF SizeInv, PlaceInv
  <2> QED BY <2>1, <1>8, <1>9
<1>11. \A q \in Pools : \A u \in small[q] : u \in Spans' /\ page_num'[u] = page_num[u] /\ page_num[u] = 1
                       /\ u # s /\ \A k \in Classes : u \notin span_free_list'[k]
  <2>1. \A q \in Pools : \A u \in small[q] :
          u \in Spans /\ page_num[u] = 1 /\ \A k \in Classes : u \notin span_free_list[k]
    BY <1>1 DEF SizeInv, PlaceInv
  <2> QED BY <2>1, <1>8, <1>9
<1>12. \A t \in Threads : freeing[t] # NoSpan =>
          freeing[t] \in Spans' /\ page_num'[freeing[t]] = page_num[freeing[t]]
          /\ page_num[freeing[t]] \in 2 .. SPAN_CLASS_NUM
          /\ freeing[t] # s /\ \A k \in Classes : freeing[t] \notin span_free_list'[k]
  <2>1. \A t \in Threads : freeing[t] # NoSpan =>
          freeing[t] \in Spans /\ page_num[freeing[t]] \in 2 .. SPAN_CLASS_NUM
          /\ \A k \in Classes : freeing[t] \notin span_free_list[k]
    BY <1>1 DEF SizeInv, PlaceInv
  <2> QED BY <2>1, <1>8, <1>9
<1>13. NoSpan # s /\ NoSpan \notin live /\ \A k \in Classes : NoSpan \notin span_free_list'[k]
  BY <1>1, <1>6 DEF TypeOK, NoSpan, Pages
<1>14. SizeInv'
  BY <1>3, <1>4, <1>8, <1>10, <1>11, <1>12 DEF SizeInv
<1>15. PlaceInv'
  BY <1>1, <1>3, <1>4, <1>8, <1>10, <1>11, <1>12, <1>13 DEF PlaceInv
<1>16. AccountInv'
  <2> SUFFICES ASSUME NEW u \in Spans', page_num'[u] <= SPAN_CLASS_NUM
               PROVE  \/ u \in live' \/ \E q \in Pools : u \in small[q]
                      \/ \E t \in Threads : u = freeing[t]
                      \/ \E k \in Classes : u \in span_free_list'[k]
    BY <1>4 DEF AccountInv
  <2>1. CASE u = s
    BY <2>1, <1>3
  <2>2. CASE u \notin Spans /\ u # s
    BY <2>2, <1>8
  <2>3. CASE u \in Spans /\ \E k \in Classes : u \in span_free_list[k]
    BY <2>3, <1>3, <1>8
  <2>4. CASE u \in Spans /\ \A k \in Classes : u \notin span_free_list[k]
    BY <2>4, <1>1, <1>3, <1>9 DEF AccountInv
  <2> QED BY <2>1, <2>2, <2>3, <2>4
<1> QED BY <1>6, <1>7, <1>14, <1>15, <1>16 DEF IInv

\* A small heap cuts the next page of its chunk.
LEMMA ChunkSpanKeeps ==
  ASSUME IInv, NEW p \in Pools, ChunkSpan(p),
         UNCHANGED <<heads, head_slots, created, inited, s_end, stuck, live, freeing>>
  PROVE  IInv'
<1> DEFINE s == s_free[p]
<1>1. TypeOK /\ SpanInv /\ UnmappedInv /\ ReserveInv /\ SizeInv /\ PlaceInv /\ AccountInv
  BY DEF IInv
<1>2. /\ s + 1 <= s_end[p]
      /\ s_free' = [s_free EXCEPT ![p] = @ + 1]
      /\ page_num' = [page_num EXCEPT ![s] = 1]
      /\ span_map' = Mapped(s, 1)
      /\ small' = [small EXCEPT ![p] = @ \cup {s}]
      /\ UNCHANGED <<free_start, pool_end, span_free_list>>
  BY DEF ChunkSpan
<1>3. /\ s \in Nat /\ s_end[p] \in Nat /\ s_end[p] <= free_start /\ free_start \in Nat
      /\ free_start <= pool_end /\ free_start <= MAP_PAGES /\ s \in Pages
  BY <1>1, <1>2, PoolAssumption DEF TypeOK, ReserveInv, Pages
<1>4. \A q \in Pools : s_free[q] \in Nat /\ s_end[q] \in Nat
  BY <1>1 DEF TypeOK
<1>5. \A q \in Pools : /\ s_free'[q] = IF q = p THEN s + 1 ELSE s_free[q]
                       /\ small'[q] = IF q = p THEN small[p] \cup {s} ELSE small[q]
  BY <1>1, <1>2 DEF TypeOK
<1> HIDE DEF s
<1>6. /\ \A i \in s .. s + 1 - 1 : i = s
      /\ span_map[s] = NoSpan
  <2>1. s \in ChunkRest(p)
    BY <1>2, <1>3 DEF ChunkRest, s
  <2> QED BY <1>1, <1>3, <2>1 DEF UnmappedInv
<1>7. 1 \in 1 .. SPAN_CLASS_NUM + 1 /\ s + 1 <= free_start'
  BY <1>2, <1>3, CountAssumption
<1>8. /\ span_map' \in [Pages -> Pages \cup {NoSpan}]
      /\ page_num' \in [Pages -> 0 .. SPAN_CLASS_NUM + 1]
      /\ SpanInv'
      /\ s \notin Spans
      /\ Spans' = Spans \cup {s}
      /\ page_num'[s] = 1
      /\ \A u \in Spans : page_num'[u] = page_num[u]
      /\ \A i \in Pages : i \notin s .. s + 1 - 1 => span_map'[i] = span_map[i]
  <2>1. \A i \in s .. s + 1 - 1 : span_map[i] = NoSpan
    BY <1>6
  <2>2. free_start' \in Nat /\ free_start <= free_start' /\ free_start' <= MAP_PAGES
    BY <1>2, <1>3
  <2> QED BY <1>1, <1>2, <1>3, <1>7, <2>1, <2>2, NewSpan
<1>9. \A i \in Pages : i # s => span_map'[i] = span_map[i]
  BY <1>6, <1>8
<1>10. TypeOK'
  <2>1. s_free' \in [Pools -> Nat] /\ small' \in [Pools -> SUBSET Pages]
    BY <1>1, <1>2, <1>3 DEF TypeOK, s
  <2> QED BY <1>1, <1>2, <1>8, <2>1 DEF TypeOK
<1>11. UnmappedInv'
  <2>1. \A i \in Pages : i >= free_start' => span_map'[i] = NoSpan
    BY <1>1, <1>2, <1>3, <1>9 DEF UnmappedInv
  <2>2. ASSUME NEW q \in Pools, NEW i \in s_free'[q] .. s_end[q] - 1
        PROVE  span_map'[i] = NoSpan
    <3>1. i \in s_free[q] .. s_end[q] - 1 /\ i \in Pages
      <4>1. s_free[q] <= s_free'[q] /\ s_free[q] \in Nat /\ s_end[q] <= free_start /\ s_free'[q] \in Nat
        BY <1>1, <1>3, <1>4, <1>5 DEF ReserveInv, s
      <4> QED BY <4>1, <1>3, <1>4, PoolAssumption DEF Pages
    <3>2. i # s
      <4>1. CASE q = p
        <5>1. s_free'[q] = s + 1
          BY <4>1, <1>5
        <5> QED BY <5>1, <1>3
      <4>2. CASE q # p
        <5>1. s_end[q] <= s \/ s_end[p] <= s_free[q]
          BY <4>2, <1>1 DEF ReserveInv, s
        <5> QED BY <5>1, <3>1, <1>2, <1>3, <1>4
      <4> QED BY <4>1, <4>2
    <3>3. span_map[i] = NoSpan
      BY <3>1, <1>1 DEF UnmappedInv, ChunkRest
    <3> QED BY <3>1, <3>2, <3>3, <1>9
  <2>3. ASSUME NEW h \in heads, NEW i \in h .. h + INIT_HEAD_SPAN_NUM - 1
        PROVE  span_map'[i] = NoSpan
    <3>1. h \in Nat /\ INIT_HEAD_SPAN_NUM \in Nat /\ h + INIT_HEAD_SPAN_NUM <= free_start
      BY <1>1, CountAssumption DEF TypeOK, Pages, ReserveInv
    <3>2. i \in Pages
      BY <3>1, <1>3, PoolAssumption DEF Pages
    <3>3. s_end[p] <= h \/ h + INIT_HEAD_SPAN_NUM <= s
      BY <1>1 DEF ReserveInv, s
    <3>4. i # s
      BY <3>1, <3>3, <1>2, <1>3
    <3> QED BY <3>2, <3>4, <1>1, <1>9 DEF UnmappedInv, HeadRun
  <2> QED BY <2>1, <2>2, <2>3 DEF UnmappedInv, ChunkRest, HeadRun
<1>12. ReserveInv'
  <2>1. \A q \in Pools : s_free[q] <= s_free'[q] /\ s_free'[q] <= s_end[q] /\ s_end[q] <= free_start
                         /\ s_free'[q] \in Nat
    BY <1>1, <1>2, <1>3, <1>4, <1>5 DEF ReserveInv, s
  <2>2. \A q, u \in Pools : q # u => s_end[q] <= s_free'[u] \/ s_end[u] <= s_free'[q]
    <3>1. \A q, u \in Pools : q # u => s_end[q] <= s_free[u] \/ s_end[u] <= s_free[q]
      BY <1>1 DEF ReserveInv
    <3> QED BY <3>1, <2>1, <1>4
  <2>3. \A q \in Pools, h \in heads : s_end[q] <= h \/ h + INIT_HEAD_SPAN_NUM <= s_free'[q]
    <3>1. \A h \in heads : h \in Nat /\ h + INIT_HEAD_SPAN_NUM \in Nat
      BY <1>1, CountAssumption DEF TypeOK, Pages
    <3> QED BY <3>1, <2>1, <1>1, <1>4 DEF ReserveInv
  <2> QED BY <1>1, <1>2, <2>1, <2>2, <2>3 DEF ReserveInv
<1>13. /\ s \notin live /\ \A t \in Threads : freeing[t] # s
       /\ \A q \in Pools : s \notin small[q]
       /\ \A k \in Classes : s \notin span_free_list[k]
  <2>1. s # NoSpan
    BY <1>3 DEF NoSpan
  <2> QED BY <2>1, <1>1, <1>8 DEF SizeInv
<1>14. SizeInv'
  BY <1>1, <1>2, <1>5, <1>8 DEF SizeInv
<1>15. PlaceInv'
  BY <1>1, <1>2, <1>5, <1>13 DEF PlaceInv
<1>16. AccountInv'
  <2>1. \A q \in Pools : small[q] \subseteq small'[q]
    BY <1>5
  <2>2. s \in small'[p]
    BY <1>5
  <2> QED BY <1>1, <1>2, <1>8, <2>1, <2>2 DEF AccountInv
<1> QED BY <1>8, <1>10, <1>11, <1>12, <1>14, <1>15, <1>16 DEF IInv

\* A small heap whose chunk is used up takes a page from the global heap.
LEMMA HeapSpanKeeps ==
  ASSUME IInv, NEW p \in Pools, HeapSpan(p),
         UNCHANGED <<heads, head_slots, created, inited, s_end, stuck, live, freeing>>
  PROVE  IInv'
<1>1. TypeOK /\ SpanInv /\ UnmappedInv /\ ReserveInv /\ SizeInv /\ PlaceInv /\ AccountInv
  BY DEF IInv
<1>2. PICK s \in Pages : SpanGetFromMpool(0, s) /\ small' = [small EXCEPT ![p] = @ \cup {s}]
  BY DEF HeapSpan
<1>3. s_free' = s_free
  BY DEF HeapSpan
<1>4. SpanGiven(0, s)
  <2>1. 0 \in 0 .. SPAN_CLASS_NUM
    BY CountAssumption
  <2> QED BY <2>1, <1>2, <1>3, SpanGet
<1>5. \A q \in Pools : small'[q] = IF q = p THEN small[p] \cup {s} ELSE small[q]
  BY <1>1, <1>2 DEF TypeOK
<1>6. TypeOK'
  <2>1. small' \in [Pools -> SUBSET Pages]
    BY <1>1, <1>2 DEF TypeOK
  <2> QED BY <1>1, <1>3, <1>4, <2>1 DEF TypeOK, SpanGiven
<1>7. SpanInv' /\ UnmappedInv' /\ ReserveInv'
  BY <1>4 DEF SpanGiven
<1>8. /\ s \in Spans' /\ page_num'[s] = 1
      /\ Spans \subseteq Spans'
      /\ \A u \in Spans' \ Spans : u = s \/ \E k \in Classes : u \in span_free_list'[k]
      /\ \A k \in Classes : \A u \in span_free_list[k] :
           u = s \/ \E j \in Classes : u \in span_free_list'[j]
      /\ \A k \in Classes : \A u \in span_free_list'[k] : u \in Spans' /\ page_num'[u] = k + 1
      /\ \A k \in Classes : s \notin span_free_list'[k]
      /\ \A j, k \in Classes : j # k => span_free_list'[j] \cap span_free_list'[k] = {}
  BY <1>4 DEF SpanGiven
<1>9. ASSUME NEW u \in Spans, \A k \in Classes : u \notin span_free_list[k]
      PROVE  u # s /\ page_num'[u] = page_num[u] /\ \A k \in Classes : u \notin span_free_list'[k]
  BY <1>4, <1>9 DEF SpanGiven
<1>10. \A u \in live : u \in Spans' /\ page_num'[u] = page_num[u] /\ page_num[u] > 1
                       /\ u # s /\ \A k \in Classes : u \notin span_free_list'[k]
  <2>1. \A u \in live : u \in Spans /\ page_num[u] > 1 /\ \A k \in Classes : u \notin span_free_list[k]
    BY <1>1 DEF SizeInv, PlaceInv
  <2> QED BY <2>1, <1>8, <1>9
<1>11. \A q \in Pools : \A u \in small[q] : u \in Spans' /\ page_num'[u] = page_num[u] /\ page_num[u] = 1
                       /\ u # s /\ \A k \in Classes : u \notin span_free_list'[k]
  <2>1. \A q \in Pools : \A u \in small[q] :
          u \in Spans /\ page_num[u] = 1 /\ \A k \in Classes : u \notin span_free_list[k]
    BY <1>1 DEF SizeInv, PlaceInv
  <2> QED BY <2>1, <1>8, <1>9
<1>12. \A t \in Threads : freeing[t] # NoSpan =>
          freeing[t] \in Spans' /\ page_num'[freeing[t]] = page_num[freeing[t]]
          /\ page_num[freeing[t]] \in 2 .. SPAN_CLASS_NUM
          /\ freeing[t] # s /\ \A k \in Classes : freeing[t] \notin span_free_list'[k]
  <2>1. \A t \in Threads : freeing[t] # NoSpan =>
          freeing[t] \in Spans /\ page_num[freeing[t]] \in 2 .. SPAN_CLASS_NUM
          /\ \A k \in Classes : freeing[t] \notin span_free_list[k]
    BY <1>1 DEF SizeInv, PlaceInv
  <2> QED BY <2>1, <1>8, <1>9
<1>13. NoSpan # s /\ NoSpan \notin live /\ \A k \in Classes : NoSpan \notin span_free_list'[k]
  BY <1>1, <1>6 DEF TypeOK, NoSpan, Pages
<1>14. SizeInv'
  BY <1>5, <1>8, <1>10, <1>11, <1>12 DEF SizeInv
<1>15. PlaceInv'
  BY <1>1, <1>5, <1>8, <1>10, <1>11, <1>12, <1>13 DEF PlaceInv
<1>16. AccountInv'
  <2> SUFFICES ASSUME NEW u \in Spans', page_num'[u] <= SPAN_CLASS_NUM
               PROVE  \/ u \in live \/ \E q \in Pools : u \in small'[q]
                      \/ \E t \in Threads : u = freeing[t]
                      \/ \E k \in Classes : u \in span_free_list'[k]
    BY DEF AccountInv
  <2>0. /\ s \in small'[p]
        /\ \A q \in Pools : small[q] \subseteq small'[q]
    BY <1>5
  <2>1. CASE u = s
    BY <2>0, <2>1
  <2>2. CASE u \notin Spans /\ u # s
    BY <2>2, <1>8
  <2>3. CASE u \in Spans /\ u # s /\ \E k \in Classes : u \in span_free_list[k]
    BY <2>3, <1>8
  <2>4. CASE u \in Spans /\ \A k \in Classes : u \notin span_free_list[k]
    BY <2>0, <2>4, <1>1, <1>9 DEF AccountInv
  <2> QED BY <2>1, <2>2, <2>3, <2>4
<1> QED BY <1>6, <1>7, <1>14, <1>15, <1>16 DEF IInv

\* A page that a small heap takes from its chunk or from the global heap keeps it.
LEMMA SmallSpanKeeps == ASSUME IInv, NEW p \in Pools, SmallSpan(p) PROVE IInv'
  BY ChunkSpanKeeps, HeapSpanKeeps DEF SmallSpan, boot, users

\* mem_free of a large block, up to the lock.
LEMMA MemFreeKeeps ==
  ASSUME IInv, NEW t \in Threads, NEW s \in live, MemFree(t, s) PROVE IInv'
<1>1. TypeOK /\ SpanInv /\ UnmappedInv /\ ReserveInv /\ SizeInv /\ PlaceInv /\ AccountInv
  BY DEF IInv
<1>2. s \in Spans /\ s \in Pages /\ span_map[s] = s /\ page_num[s] > 1
  BY <1>1 DEF SizeInv, Spans
<1>3. /\ live' = live \ {s} /\ freeing[t] = NoSpan
      /\ \/ page_num[s] \in 2 .. SPAN_CLASS_NUM /\ freeing' = [freeing EXCEPT ![t] = s]
         \/ page_num[s] > SPAN_CLASS_NUM /\ freeing' = freeing
      /\ UNCHANGED <<free_start, pool_end, span_map, page_num, span_free_list,
                     heads, head_slots, created, inited, s_free, s_end, small, stuck>>
  BY <1>2 DEF MemFree, mpool, boot, spool
<1>4. \A u \in Threads : freeing'[u] = freeing[u] \/ (u = t /\ freeing'[u] = s /\ page_num[s] \in 2 .. SPAN_CLASS_NUM)
  BY <1>1, <1>3 DEF TypeOK
<1>5. TypeOK'
  <2>1. freeing' \in [Threads -> Pages \cup {NoSpan}] /\ live' \subseteq Pages
    BY <1>1, <1>2, <1>3 DEF TypeOK
  <2> QED BY <1>1, <1>3, <2>1 DEF TypeOK
<1>6. Spans' = Spans
  BY <1>3 DEF Spans
<1>7. SpanInv' /\ UnmappedInv' /\ ReserveInv'
  BY <1>1, <1>3, <1>6 DEF SpanInv, UnmappedInv, ReserveInv, SpanRun, ChunkRest, HeadRun
<1>8. SizeInv'
  BY <1>1, <1>2, <1>3, <1>4, <1>6 DEF SizeInv
<1>9. PlaceInv'
  <2>1. \A u \in Threads : freeing[u] # s
    BY <1>1 DEF PlaceInv
  <2>2. \A u \in Threads : freeing'[u] \notin live'
    BY <1>1, <1>3, <1>4 DEF PlaceInv
  <2>3. \A u, w \in Threads : u # w /\ freeing'[u] # NoSpan => freeing'[u] # freeing'[w]
    BY <1>1, <1>3, <1>4, <2>1 DEF PlaceInv
  <2>4. /\ \A p \in Pools, u \in Threads : freeing'[u] \notin small[p]
        /\ \A u \in Threads, k \in Classes : freeing'[u] \notin span_free_list[k]
    BY <1>1, <1>4 DEF PlaceInv
  <2> QED BY <1>1, <1>3, <2>2, <2>3, <2>4 DEF PlaceInv
<1>10. AccountInv'
  <2>1. page_num[s] <= SPAN_CLASS_NUM => s = freeing'[t]
    BY <1>1, <1>2, <1>3, CountAssumption DEF TypeOK
  <2>2. \A u \in Threads : freeing[u] # NoSpan => freeing'[u] = freeing[u]
    BY <1>1, <1>3 DEF TypeOK
  <2>3. \A u \in Spans : u # NoSpan
    BY DEF Spans, Pages, NoSpan
  <2>4. ASSUME NEW u \in Spans, page_num[u] <= SPAN_CLASS_NUM
        PROVE  \/ u \in live' \/ \E q \in Pools : u \in small[q]
               \/ \E w \in Threads : u = freeing'[w]
               \/ \E k \in Classes : u \in span_free_list[k]
    BY <1>1, <1>3, <2>1, <2>2, <2>3, <2>4 DEF AccountInv
  <2> QED BY <1>3, <1>6, <2>4 DEF AccountInv
<1> QED BY <1>5, <1>7, <1>8, <1>9, <1>10 DEF IInv

\* large_block_free links the span under its size.
LEMMA LargeBlockFreeKeeps == ASSUME IInv, NEW t \in Threads, LargeBlockFree(t) PROVE IInv'
<1> DEFINE s == freeing[t]
           c == page_num[freeing[t]] - 1
<1>1. TypeOK /\ SpanInv /\ UnmappedInv /\ ReserveInv /\ SizeInv /\ PlaceInv /\ AccountInv
  BY DEF IInv
<1>2. /\ s # NoSpan /\ freeing' = [freeing EXCEPT ![t] = NoSpan]
      /\ span_free_list' = [span_free_list EXCEPT ![c] = @ \cup {s}]
      /\ UNCHANGED <<free_start, pool_end, span_map, page_num, heads, head_slots, created,
                     inited, s_free, s_end, small, stuck, live>>
  BY DEF LargeBlockFree, boot, spool
<1>3. /\ s \in Spans /\ s \in Pages /\ c \in Classes /\ page_num[s] = c + 1
  BY <1>1, <1>2, CountAssumption DEF SizeInv, Spans, Classes
<1>4. /\ \A k \in Classes : span_free_list'[k] =
           IF k = c THEN span_free_list[k] \cup {s} ELSE span_free_list[k]
      /\ span_free_list' \in [Classes -> SUBSET Pages]
  BY <1>1, <1>2, <1>3 DEF TypeOK
<1>5. /\ \A u \in Threads : freeing'[u] = IF u = t THEN NoSpan ELSE freeing[u]
      /\ freeing' \in [Threads -> Pages \cup {NoSpan}]
  BY <1>1, <1>2 DEF TypeOK
<1>6. s = freeing[t]
  OBVIOUS
<1> HIDE DEF s, c
<1>7. TypeOK'
  BY <1>1, <1>2, <1>4, <1>5 DEF TypeOK
<1>8. Spans' = Spans
  BY <1>2 DEF Spans
<1>9. SpanInv' /\ UnmappedInv' /\ ReserveInv'
  BY <1>1, <1>2, <1>8 DEF SpanInv, UnmappedInv, ReserveInv, SpanRun, ChunkRest, HeadRun
<1>10. SizeInv'
  BY <1>1, <1>2, <1>3, <1>4, <1>5, <1>8 DEF SizeInv
<1>11. PlaceInv'
  <2>1. /\ s \notin live /\ \A p \in Pools : s \notin small[p]
        /\ \A k \in Classes : s \notin span_free_list[k]
        /\ \A u \in Threads : u # t => freeing[u] # s
    BY <1>1, <1>2, <1>6 DEF PlaceInv
  <2>2. /\ NoSpan \notin live /\ \A p \in Pools : NoSpan \notin small[p]
        /\ \A k \in Classes : NoSpan \notin span_free_list'[k]
    BY <1>1, <1>4 DEF TypeOK, NoSpan, Pages
  <2> QED BY <1>1, <1>2, <1>4, <1>5, <2>1, <2>2 DEF PlaceInv
<1>12. AccountInv'
  <2>1. \A k \in Classes : span_free_list[k] \subseteq span_free_list'[k]
    BY <1>4
  <2>2. s \in span_free_list'[c]
    BY <1>3, <1>4
  <2>3. ASSUME NEW u \in Spans, page_num[u] <= SPAN_CLASS_NUM
        PROVE  \/ u \in live \/ \E q \in Pools : u \in small[q]
               \/ \E w \in Threads : u = freeing'[w]
               \/ \E k \in Classes : u \in span_free_list'[k]
    BY <1>1, <1>3, <1>5, <1>6, <2>1, <2>2, <2>3 DEF AccountInv
  <2> QED BY <1>2, <1>8, <2>3 DEF AccountInv
<1> QED BY <1>7, <1>9, <1>10, <1>11, <1>12 DEF IInv

\* A small heap gives a one-page span back.
LEMMA SmallReturnKeeps ==
  ASSUME IInv, NEW p \in Pools, NEW s \in small[p], SmallReturn(p, s) PROVE IInv'
<1>1. TypeOK /\ SpanInv /\ UnmappedInv /\ ReserveInv /\ SizeInv /\ PlaceInv /\ AccountInv
  BY DEF IInv
<1>2. s \in Spans /\ s \in Pages /\ page_num[s] = 1 /\ 0 \in Classes /\ page_num[s] - 1 = 0
  BY <1>1, CountAssumption DEF SizeInv, Spans, Classes
<1>3. /\ small' = [small EXCEPT ![p] = @ \ {s}]
      /\ span_free_list' = [span_free_list EXCEPT ![0] = @ \cup {s}]
      /\ stuck' = stuck \cup {p}
      /\ UNCHANGED <<free_start, pool_end, span_map, page_num, heads, head_slots, created,
                     inited, s_free, s_end, live, freeing>>
  BY <1>2 DEF SmallReturn, boot, users
<1>4. /\ \A k \in Classes : span_free_list'[k] =
           IF k = 0 THEN span_free_list[k] \cup {s} ELSE span_free_list[k]
      /\ span_free_list' \in [Classes -> SUBSET Pages]
  BY <1>1, <1>2, <1>3 DEF TypeOK
<1>5. /\ \A q \in Pools : small'[q] = IF q = p THEN small[p] \ {s} ELSE small[q]
      /\ small' \in [Pools -> SUBSET Pages]
  BY <1>1, <1>3 DEF TypeOK
<1>6. TypeOK'
  BY <1>1, <1>3, <1>4, <1>5 DEF TypeOK
<1>7. Spans' = Spans
  BY <1>3 DEF Spans
<1>8. SpanInv' /\ UnmappedInv' /\ ReserveInv'
  BY <1>1, <1>3, <1>7 DEF SpanInv, UnmappedInv, ReserveInv, SpanRun, ChunkRest, HeadRun
<1>9. SizeInv'
  BY <1>1, <1>2, <1>3, <1>4, <1>5, <1>7 DEF SizeInv
<1>10. PlaceInv'
  <2>1. /\ s \notin live /\ \A q \in Pools : q # p => s \notin small[q]
        /\ \A k \in Classes : s \notin span_free_list[k]
        /\ \A u \in Threads : freeing[u] # s
    BY <1>1 DEF PlaceInv
  <2> QED BY <1>1, <1>3, <1>4, <1>5, <2>1 DEF PlaceInv
<1>11. AccountInv'
  <2>1. \A k \in Classes : span_free_list[k] \subseteq span_free_list'[k]
    BY <1>4
  <2>2. s \in span_free_list'[0] /\ 0 \in Classes
    BY <1>2, <1>4
  <2>3. \A q \in Pools : \A u \in small[q] : u = s \/ u \in small'[q]
    BY <1>5
  <2>4. ASSUME NEW u \in Spans, page_num[u] <= SPAN_CLASS_NUM
        PROVE  \/ u \in live \/ \E q \in Pools : u \in small'[q]
               \/ \E w \in Threads : u = freeing[w]
               \/ \E k \in Classes : u \in span_free_list'[k]
    BY <1>1, <2>1, <2>2, <2>3, <2>4 DEF AccountInv
  <2> QED BY <1>3, <1>7, <2>4 DEF AccountInv
<1> QED BY <1>6, <1>8, <1>9, <1>10, <1>11 DEF IInv

\* Every step keeps the invariant.
LEMMA NextIInv == IInv /\ [Next]_vars => IInv'
<1> SUFFICES ASSUME IInv, [Next]_vars PROVE IInv'
  OBVIOUS
<1>1. CASE MHeadPoolInit
  BY <1>1, StartUpKeeps
<1>2. CASE SPoolHeadGet
  BY <1>2, StartUpKeeps
<1>3. CASE \E p \in Pools : SPoolInit(p) \/ SmallSpan(p)
  BY <1>3, SPoolInitKeeps, SmallSpanKeeps
<1>4. CASE \E p \in Pools : \E s \in small[p] : SmallReturn(p, s)
  BY <1>4, SmallReturnKeeps
<1>5. CASE \E index \in LargeIndexes : LargeMalloc(index)
  BY <1>5, LargeMallocKeeps
<1>6. CASE \E t \in Threads : \E s \in live : MemFree(t, s)
  BY <1>6, MemFreeKeeps
<1>7. CASE \E t \in Threads : LargeBlockFree(t)
  BY <1>7, LargeBlockFreeKeeps
<1>8. CASE UNCHANGED vars
  <2>1. UNCHANGED <<free_start, pool_end, span_map, page_num, span_free_list, heads, head_slots,
                    created, inited, s_free, s_end, small, stuck, live, freeing>>
    BY <1>8 DEF vars, mpool, boot, spool, users
  <2>2. Spans' = Spans
    BY <2>1 DEF Spans
  <2>3. TypeOK' /\ SpanInv' /\ UnmappedInv' /\ ReserveInv'
    BY <2>1, <2>2 DEF IInv, TypeOK, SpanInv, UnmappedInv, ReserveInv, SpanRun, ChunkRest, HeadRun
  <2>4. SizeInv' /\ PlaceInv' /\ AccountInv'
    BY <2>1, <2>2 DEF IInv, SizeInv, PlaceInv, AccountInv
  <2> QED BY <2>3, <2>4 DEF IInv
<1> QED BY <1>1, <1>2, <1>3, <1>4, <1>5, <1>6, <1>7, <1>8 DEF Next

\* IInv holds in every reachable state.
THEOREM Invariance == Spec => []IInv
  BY InitIInv, NextIInv, PTL DEF Spec

\* Every variable keeps its type.
THEOREM TypeCorrect == Spec => []TypeOK
<1>1. IInv => TypeOK
  BY DEF IInv
<1> QED BY <1>1, Invariance, PTL

-----------------------------------------------------------------------------
(* The properties that GlobalHeap states *)

\* No page is in two spans.
THEOREM SpansStayApart == Spec => []SpansApart
<1>1. IInv => SpansApart
  <2> SUFFICES ASSUME IInv, NEW s \in Spans, NEW u \in Spans, NEW i \in SpanRun(s), i \in SpanRun(u)
               PROVE  s = u
    BY DEF SpansApart
  <2>1. span_map[i] = s /\ span_map[i] = u
    BY DEF IInv, SpanInv
  <2> QED BY <2>1
<1> QED BY <1>1, Invariance, PTL

\* Reserved and fresh pages are in no span, and in one reservation only.
THEOREM ReservesStayApart == Spec => []ReservesApart
<1>1. IInv => ReservesApart
  <2> SUFFICES ASSUME IInv PROVE ReservesApart
    OBVIOUS
  <2>1. TypeOK /\ SpanInv /\ UnmappedInv /\ ReserveInv
    BY DEF IInv
  <2>2. /\ INIT_HEAD_SPAN_NUM \in Nat /\ free_start \in Nat /\ pool_end \in Nat
        /\ free_start <= pool_end /\ pool_end <= MAP_PAGES
        /\ \A h \in heads : h \in Nat /\ h + INIT_HEAD_SPAN_NUM <= free_start
    BY <2>1, CountAssumption, PoolAssumption DEF TypeOK, Pages, ReserveInv
  <2>3. \A p \in Pools : s_free[p] \in Nat /\ s_end[p] \in Nat /\ s_end[p] <= free_start
    BY <2>1 DEF TypeOK, ReserveInv
  <2>4. ASSUME NEW s \in Spans, NEW i \in SpanRun(s)
        PROVE  span_map[i] # NoSpan
    BY <2>1 DEF SpanInv, Spans, Pages, NoSpan
  <2>5. \A i \in FreshRun : i \in Pages /\ i >= free_start
    BY <2>2, PoolAssumption DEF FreshRun, Pages
  <2>6. \A s \in Spans : /\ SpanRun(s) \cap FreshRun = {}
                         /\ \A p \in Pools : SpanRun(s) \cap ChunkRest(p) = {}
                         /\ \A h \in heads : SpanRun(s) \cap HeadRun(h) = {}
    BY <2>1, <2>4, <2>5 DEF UnmappedInv
  <2>7. \A p \in Pools : ChunkRest(p) \cap FreshRun = {}
    BY <2>2, <2>3 DEF ChunkRest, FreshRun
  <2>8. ASSUME NEW p \in Pools, NEW q \in Pools \ {p} PROVE ChunkRest(p) \cap ChunkRest(q) = {}
    <3>1. s_end[p] <= s_free[q] \/ s_end[q] <= s_free[p]
      BY <2>1 DEF ReserveInv
    <3> QED BY <3>1, <2>3 DEF ChunkRest
  <2>9. ASSUME NEW p \in Pools, NEW h \in heads PROVE ChunkRest(p) \cap HeadRun(h) = {}
    <3>1. s_end[p] <= h \/ h + INIT_HEAD_SPAN_NUM <= s_free[p]
      BY <2>1 DEF ReserveInv
    <3> QED BY <3>1, <2>2, <2>3 DEF ChunkRest, HeadRun
  <2>10. \A h \in heads : HeadRun(h) \cap FreshRun = {}
    BY <2>2 DEF HeadRun, FreshRun
  <2>11. ASSUME NEW h \in heads, NEW g \in heads \ {h} PROVE HeadRun(h) \cap HeadRun(g) = {}
    <3>1. h + INIT_HEAD_SPAN_NUM <= g \/ g + INIT_HEAD_SPAN_NUM <= h
      BY <2>1 DEF ReserveInv
    <3> QED BY <3>1, <2>2 DEF HeadRun
  <2> QED BY <2>6, <2>7, <2>8, <2>9, <2>10, <2>11 DEF ReservesApart
<1> QED BY <1>1, Invariance, PTL

\* Every span that is somewhere is a span of span_map.
LEMMA PlacedAreSpans ==
  ASSUME IInv PROVE live \cup SmallSpans \cup InFlight \cup Listed \subseteq Spans
  BY DEF IInv, SizeInv, SmallSpans, InFlight, Listed

\* The map leads from every page of a span to its header.
THEOREM MapStaysCorrect == Spec => []MapCorrect
<1>1. IInv => MapCorrect
  <2> SUFFICES ASSUME IInv, NEW s \in live \cup SmallSpans \cup InFlight \cup Listed
               PROVE  page_num[s] > 0 /\ \A i \in SpanRun(s) : i \in Pages /\ span_map[i] = s
    BY DEF MapCorrect
  <2>1. s \in Spans /\ s \in Nat /\ s \in Pages
    BY PlacedAreSpans DEF Spans, Pages
  <2>2. page_num[s] >= 1 /\ s + page_num[s] <= free_start /\ page_num[s] \in Nat
        /\ free_start \in Nat /\ free_start <= MAP_PAGES
    BY <2>1, CountAssumption, PoolAssumption DEF IInv, SpanInv, ReserveInv, TypeOK
  <2>3. \A i \in SpanRun(s) : i \in Pages
    BY <2>1, <2>2, PoolAssumption DEF SpanRun, Pages
  <2> QED BY <2>1, <2>2, <2>3 DEF IInv, SpanInv
<1> QED BY <1>1, Invariance, PTL

\* A span is with one holder, or in one list.
THEOREM PlacesStayApart == Spec => []OnePlace
<1>1. IInv => OnePlace
  BY DEF IInv, PlaceInv, OnePlace, SmallSpans, InFlight, Listed
<1> QED BY <1>1, Invariance, PTL

\* A list holds spans of one size.
THEOREM ListsStaySized == Spec => []ListedSizes
<1>1. IInv => ListedSizes
  BY DEF IInv, SizeInv, ListedSizes
<1> QED BY <1>1, Invariance, PTL

\* No span that a list exists for is lost.
THEOREM SpansStayAccounted == Spec => []SpansAccounted
<1>1. IInv => SpansAccounted
  <2> SUFFICES ASSUME IInv, NEW s \in Spans, page_num[s] <= SPAN_CLASS_NUM
               PROVE  s \in live \cup SmallSpans \cup InFlight \cup Listed
    BY DEF SpansAccounted
  <2>1. s # NoSpan
    BY DEF Spans, Pages, NoSpan
  <2> QED BY <2>1 DEF IInv, AccountInv, SmallSpans, InFlight, Listed
<1> QED BY <1>1, Invariance, PTL

-----------------------------------------------------------------------------
(* Steps: what a held span keeps, and the page allocator that is implemented *)

\* What the page allocator's held stands for: the spans that were granted.
Held == live \cup SmallSpans

\* What a step does to the spans that are held: it adds one, gives one back,
\* or leaves them.
HeldStep ==
  \/ \E s \in Spans' \ Held : Held' = Held \cup {s}
  \/ \E s \in Held : Held' = Held \ {s}
  \/ Held' = Held

\* A page that a chunk has not used is no span.
LEMMA ChunkPage ==
  ASSUME IInv, NEW p \in Pools, s_free[p] + 1 <= s_end[p]
  PROVE  s_free[p] \in Pages /\ span_map[s_free[p]] = NoSpan
<1>1. /\ s_free[p] \in Nat /\ s_end[p] \in Nat /\ s_end[p] <= free_start /\ free_start \in Nat
      /\ free_start <= pool_end /\ pool_end <= MAP_PAGES /\ pool_end \in Nat
  BY PoolAssumption DEF IInv, TypeOK, ReserveInv
<1>2. s_free[p] \in ChunkRest(p)
  BY <1>1 DEF ChunkRest
<1> QED BY <1>1, <1>2, PoolAssumption DEF IInv, UnmappedInv, Pages

\* A step neither moves nor resizes a span that is held.
LEMMA HeldKept ==
  ASSUME IInv, [Next]_vars
  PROVE  (\A u \in Held : u \in Spans' /\ page_num'[u] = page_num[u]) /\ HeldStep
<1>1. \A u \in Held : u \in Spans /\ \A k \in Classes : u \notin span_free_list[k]
  BY DEF Held, SmallSpans, IInv, SizeInv, PlaceInv
<1>2. ASSUME UNCHANGED <<span_map, page_num>>
      PROVE  /\ \A u \in Held : u \in Spans' /\ page_num'[u] = page_num[u]
             /\ Spans' = Spans
  BY <1>1, <1>2 DEF Spans
<1>3. ASSUME NEW index \in 0 .. SPAN_CLASS_NUM, NEW s \in Pages,
             SpanGetFromMpool(index, s), UNCHANGED <<heads, s_free, s_end>>
      PROVE  /\ \A u \in Held : u \in Spans' /\ page_num'[u] = page_num[u]
             /\ s \in Spans' \ Held
  <2>1. SpanGiven(index, s)
    BY <1>3, SpanGet
  <2> QED BY <2>1, <1>1 DEF SpanGiven
<1>4. CASE MHeadPoolInit \/ SPoolHeadGet
  <2>1. UNCHANGED <<span_map, page_num, live, small>>
    BY <1>4 DEF MHeadPoolInit, SPoolHeadGet, HeadPoolGrow, mpool, spool, users
  <2>2. Held' = Held
    BY <2>1 DEF Held, SmallSpans
  <2> QED BY <1>2, <2>1, <2>2 DEF HeldStep
<1>5. ASSUME NEW p \in Pools, SPoolInit(p)
      PROVE  (\A u \in Held : u \in Spans' /\ page_num'[u] = page_num[u]) /\ HeldStep
  <2>1. UNCHANGED <<span_map, page_num, live, small>>
    BY <1>5 DEF SPoolInit, users
  <2>2. Held' = Held
    BY <2>1 DEF Held, SmallSpans
  <2> QED BY <1>2, <2>1, <2>2 DEF HeldStep
<1>6. ASSUME NEW p \in Pools, SmallSpan(p)
      PROVE  (\A u \in Held : u \in Spans' /\ page_num'[u] = page_num[u]) /\ HeldStep
  <2>0. /\ UNCHANGED <<heads, s_end, live>>
        /\ small \in [Pools -> SUBSET Pages] /\ page_num \in [Pages -> 0 .. SPAN_CLASS_NUM + 1]
    BY <1>6 DEF SmallSpan, boot, users, IInv, TypeOK
  <2>1. ASSUME NEW s, small' = [small EXCEPT ![p] = @ \cup {s}] PROVE Held' = Held \cup {s}
    BY <2>0, <2>1 DEF Held, SmallSpans
  <2>2. CASE ChunkSpan(p)
    <3> DEFINE s == s_free[p]
    <3>1. s \in Pages /\ span_map[s] = NoSpan
      BY <2>2, ChunkPage DEF ChunkSpan
    <3>2. /\ page_num' = [page_num EXCEPT ![s] = 1] /\ span_map' = Mapped(s, 1)
          /\ small' = [small EXCEPT ![p] = @ \cup {s}]
      BY <2>2 DEF ChunkSpan
    <3> HIDE DEF s
    <3>3. s \notin Spans
      BY <3>1 DEF Spans, Pages, NoSpan
    <3>4. \A u \in Pages : u # s => u \notin s .. s + 1 - 1
      BY <3>1 DEF Pages
    <3>5. \A u \in Held : u \in Spans' /\ page_num'[u] = page_num[u]
      BY <1>1, <2>0, <3>2, <3>3, <3>4 DEF Spans, Mapped
    <3>6. s \in s .. s + 1 - 1
      BY <3>1 DEF Pages
    <3>7. s \in Spans'
      BY <3>1, <3>2, <3>6 DEF Spans, Mapped
    <3> QED BY <1>1, <2>1, <3>2, <3>3, <3>5, <3>7 DEF HeldStep
  <2>3. CASE HeapSpan(p)
    <3>1. PICK s \in Pages : SpanGetFromMpool(0, s) /\ small' = [small EXCEPT ![p] = @ \cup {s}]
      BY <2>3 DEF HeapSpan
    <3>2. s_free' = s_free /\ 0 \in 0 .. SPAN_CLASS_NUM
      BY <2>3, CountAssumption DEF HeapSpan
    <3>3. /\ \A u \in Held : u \in Spans' /\ page_num'[u] = page_num[u]
          /\ s \in Spans' \ Held
      BY <1>3, <2>0, <3>1, <3>2
    <3> QED BY <2>1, <3>1, <3>3 DEF HeldStep
  <2> QED BY <1>6, <2>2, <2>3 DEF SmallSpan
<1>7. ASSUME NEW p \in Pools, NEW s \in small[p], SmallReturn(p, s)
      PROVE  (\A u \in Held : u \in Spans' /\ page_num'[u] = page_num[u]) /\ HeldStep
  <2>1. UNCHANGED <<span_map, page_num, live>> /\ small' = [small EXCEPT ![p] = @ \ {s}]
        /\ small \in [Pools -> SUBSET Pages]
    BY <1>7 DEF SmallReturn, users, IInv, TypeOK
  <2>2. s \in Held /\ s \notin live /\ \A q \in Pools : q # p => s \notin small[q]
    BY DEF Held, SmallSpans, IInv, PlaceInv
  <2>3. \A q \in Pools : small'[q] = IF q = p THEN small[q] \ {s} ELSE small[q]
    BY <2>1
  <2>4. Held' = Held \ {s}
    BY <2>1, <2>2, <2>3 DEF Held, SmallSpans
  <2> QED BY <1>2, <2>1, <2>2, <2>4 DEF HeldStep
<1>8. ASSUME NEW index \in LargeIndexes, LargeMalloc(index)
      PROVE  (\A u \in Held : u \in Spans' /\ page_num'[u] = page_num[u]) /\ HeldStep
  <2>1. PICK s \in Pages : SpanGetFromMpool(index, s) /\ live' = live \cup {s}
    BY <1>8 DEF LargeMalloc
  <2>2. UNCHANGED <<heads, s_free, s_end, small>> /\ index \in 0 .. SPAN_CLASS_NUM
    BY <1>8, LargeAssumption, CountAssumption DEF LargeMalloc, boot, spool
  <2>3. /\ \A u \in Held : u \in Spans' /\ page_num'[u] = page_num[u]
        /\ s \in Spans' \ Held
    BY <1>3, <2>1, <2>2
  <2>4. Held' = Held \cup {s}
    BY <2>1, <2>2 DEF Held, SmallSpans
  <2> QED BY <2>3, <2>4 DEF HeldStep
<1>9. ASSUME NEW t \in Threads, NEW s \in live, MemFree(t, s)
      PROVE  (\A u \in Held : u \in Spans' /\ page_num'[u] = page_num[u]) /\ HeldStep
  <2>1. UNCHANGED <<span_map, page_num, small>> /\ live' = live \ {s}
    BY <1>9 DEF MemFree, mpool, spool
  <2>2. s \in Held /\ \A q \in Pools : s \notin small[q]
    BY DEF Held, SmallSpans, IInv, PlaceInv
  <2>3. Held' = Held \ {s}
    BY <2>1, <2>2 DEF Held, SmallSpans
  <2> QED BY <1>2, <2>1, <2>2, <2>3 DEF HeldStep
<1>10. CASE (\E t \in Threads : LargeBlockFree(t)) \/ UNCHANGED vars
  <2>1. UNCHANGED <<span_map, page_num, live, small>>
    BY <1>10 DEF LargeBlockFree, spool, vars, mpool, users
  <2>2. Held' = Held
    BY <2>1 DEF Held, SmallSpans
  <2> QED BY <1>2, <2>1, <2>2 DEF HeldStep
<1> QED BY <1>4, <1>5, <1>6, <1>7, <1>8, <1>9, <1>10 DEF Next

\* The header that a free reads without the lock is the one the block was given with.
THEOREM HeaderStaysStable == Spec => HeaderStable
<1>1. ASSUME IInv, [Next]_vars, NEW s \in live \cup SmallSpans
      PROVE  page_num'[s] = page_num[s] /\ \A i \in SpanRun(s) : span_map'[i] = span_map[i]
  <2>1. s \in Spans' /\ page_num'[s] = page_num[s] /\ s \in Spans
    BY <1>1, HeldKept, PlacedAreSpans DEF Held
  <2>2. IInv'
    BY <1>1, NextIInv
  <2>3. \A i \in SpanRun(s) : span_map'[i] = s
    BY <2>1, <2>2 DEF IInv, SpanInv, SpanRun
  <2>4. \A i \in SpanRun(s) : span_map[i] = s
    BY <1>1, <2>1 DEF IInv, SpanInv
  <2> QED BY <2>1, <2>3, <2>4
<1>2. IInv /\ [Next]_vars =>
        [\A s \in live \cup SmallSpans :
           s \in live' \cup SmallSpans' =>
             /\ page_num'[s] = page_num[s]
             /\ \A i \in SpanRun(s) : span_map'[i] = span_map[i]]_vars
  BY <1>1
<1> QED BY <1>2, Invariance, PTL DEF Spec, HeaderStable

\* Every step of the heap is a step of a page allocator, or none.
LEMMA StepImplements ==
  ASSUME IInv, [Next]_vars
  PROVE  PA!Next \/ granted' = granted
<1>0. granted = {[first |-> s, units |-> page_num[s]] : s \in Held}
  BY DEF granted, Held
<1>1. granted' = {[first |-> s, units |-> page_num'[s]] : s \in Held'}
  BY DEF granted, Held
<1>2. \A u \in Held : u \in Spans' /\ page_num'[u] = page_num[u]
  BY HeldKept
<1>3. \A u \in Spans' : /\ u \in Nat /\ page_num'[u] \in Nat \ {0}
                        /\ \A i \in u .. u + page_num'[u] - 1 : span_map'[i] = u
  <2>1. IInv'
    BY NextIInv
  <2>2. \A u \in Spans' : u \in Pages /\ u \in Nat
    BY DEF Spans, Pages
  <2>3. \A u \in Spans' : page_num'[u] \in Nat \ {0}
    BY <2>1, <2>2, CountAssumption DEF IInv, TypeOK, SpanInv
  <2> QED BY <2>1, <2>2, <2>3 DEF IInv, SpanInv, SpanRun
<1>4. ASSUME NEW s \in Spans' \ Held, Held' = Held \cup {s} PROVE PA!Grant
  <2> DEFINE g == [first |-> s, units |-> page_num'[s]]
  <2>1. granted' = granted \cup {g}
    BY <1>0, <1>1, <1>2, <1>4
  <2>2. g.first \in Nat /\ g.units \in Nat \ {0}
    BY <1>3
  <2>3. ASSUME NEW h \in granted PROVE PA!Apart(g, h)
    <3>1. PICK u \in Held : h = [first |-> u, units |-> page_num[u]]
      BY <1>0, <2>3
    <3>2. u \in Spans' /\ page_num'[u] = page_num[u] /\ u # s
      BY <1>2, <1>4
    <3>3. ~(s <= u /\ u <= s + page_num'[s] - 1) /\ ~(u <= s /\ s <= u + page_num'[u] - 1)
      <4>1. \A i \in s .. s + page_num'[s] - 1 : span_map'[i] = s
        BY <1>3
      <4>2. \A i \in u .. u + page_num'[u] - 1 : span_map'[i] = u
        BY <1>3, <3>2
      <4>3. /\ s \in Nat /\ u \in Nat /\ page_num'[s] \in Nat \ {0} /\ page_num'[u] \in Nat \ {0}
            /\ s \in s .. s + page_num'[s] - 1 /\ u \in u .. u + page_num'[u] - 1
        BY <1>3, <3>2
      <4> QED BY <3>2, <4>1, <4>2, <4>3
    <3>4. s + page_num'[s] <= u \/ u + page_num[u] <= s
      BY <1>3, <3>2, <3>3
    <3> QED BY <3>1, <3>4 DEF PA!Apart
  <2>4. g \in granted'
    BY <2>1
  <2> QED BY <2>1, <2>2, <2>3, <2>4 DEF PA!Grant
<1>5. ASSUME NEW s \in Held, Held' = Held \ {s} PROVE PA!Release
  <2> DEFINE g == [first |-> s, units |-> page_num[s]]
  <2>1. g \in granted
    BY <1>0
  <2>2. granted' = granted \ {g}
    BY <1>0, <1>1, <1>2, <1>5
  <2> QED BY <2>1, <2>2 DEF PA!Release
<1>6. CASE Held' = Held
  BY <1>0, <1>1, <1>2, <1>6
<1> QED BY <1>4, <1>5, <1>6, HeldKept DEF HeldStep, PA!Next

\* The global heap implements the page allocator.
THEOREM Refinement == Spec => ImplementsPageAllocator
<1>1. Init => PA!Init
  BY DEF Init, PA!Init, granted, SmallSpans
<1>2. IInv /\ [Next]_vars => [PA!Next]_granted
  BY StepImplements
<1> QED BY <1>1, <1>2, Invariance, PTL DEF Spec, ImplementsPageAllocator, PA!Spec

=============================================================================
