-------------------------------- MODULE Links --------------------------------
(***************************************************************************)
(* The two kinds of linked list of the allocators, as writes of pointer    *)
(* words.  A memory maps every node to its two words: previous and next of *)
(* a list_head, next and previous of a dlist_t.  A node can be in lists of *)
(* both kinds, one after the other, and the words of one are then read as  *)
(* those of the other.                                                     *)
(***************************************************************************)
EXTENDS Integers, FiniteSets, Sequences

NULL == <<>>

INIT_LIST_HEAD(m, h) == [m EXCEPT ![h] = <<h, h>>]

\* __list_add
Insert(m, new, prev, next) ==
  [m EXCEPT ![new][2] = next, ![next][1] = new, ![prev][2] = new, ![new][1] = prev]

list_add(m, new, head)      == Insert(m, new, head, m[head][2])
list_add_tail(m, new, head) == Insert(m, new, m[head][1], head)

\* list_del, and the null pointers that it would write through.
list_del(m, e)   == [m EXCEPT ![m[e][1]][2] = m[e][2], ![m[e][2]][1] = m[e][1]]
Loose(m, e)      == NULL \in {m[e][1], m[e][2]}
list_empty(m, h) == m[h] = <<h, h>>

dlist_init(m, head, tail) == [m EXCEPT ![head] = <<tail, NULL>>, ![tail] = <<NULL, head>>]

dlist_add(m, head, e) ==
  [m EXCEPT ![head][1] = e, ![e] = <<m[head][1], head>>, ![m[head][1]][2] = e]

\* Mutant: the previous node keeps its next.
dlist_removeHalf(m, e) == [m EXCEPT ![m[e][1]][2] = m[e][2]]

dlist_remove(m, e) == [m EXCEPT ![m[e][2]][1] = m[e][1], ![m[e][1]][2] = m[e][2]]

\* What a loop along word w finds after h, up to the node end.
Walk(m, h, w, end) ==
  LET step[n \in 0 .. Cardinality(DOMAIN m)] ==
        IF n = 0 THEN <<>>
        ELSE LET s == step[n - 1]
                 e == m[IF s = <<>> THEN h ELSE s[Len(s)]][w]
             IN IF e \in {end, NULL} THEN s ELSE Append(s, e)
  IN step[Cardinality(DOMAIN m)]

\* list_for_each
Listed(m, h) == Walk(m, h, 2, h)

=============================================================================
