------------------------------ MODULE TmrProofs ------------------------------
(***************************************************************************)
(* Proofs about Tmr: with one reader at a time triple redundancy works, at *)
(* whatever moment of MEM_Read a byte is hit.                              *)
(***************************************************************************)
EXTENDS Tmr, TLAPS

\* At most one thread reads the block.
OneReader == \A t, u \in Threads : t = u

\* Somebody reads only what the application has, and has no result yet.
ReadersWait ==
  /\ taken \/ ~initialised
  /\ \A t \in Threads : stage[t] # 0 => taken /\ result[t] = "none"

\* One of the two copies of pair i does not hold the data.
Spoiled(i) == copy[Left(i)] # data \/ copy[Right(i)] # data

\* What the comparisons made so far say of the copies as they are now.  A pair
\* that was found different holds a spoiled copy.  A pair that was found equal
\* and is spoiled was hit since then, so that all comparisons before were equal.
PastKnown(t) ==
  \A i \in Pairs : i < stage[t] /\ initialised =>
    /\ compare[t][i] = 1 => Spoiled(i)
    /\ compare[t][i] = 0 /\ Spoiled(i) =>
         ~clean[t] /\ \A j \in Pairs : j < i => compare[t][j] = 0

\* The inductive invariant.
IInv ==
  /\ TypeOK /\ ReadersWait /\ Recoverable /\ ReadCorrect
  /\ \A t \in Threads : PastKnown(t)

-----------------------------------------------------------------------------
\* There are three copies and three pairs of them.
LEMMA PairsAre == Pairs = {1, 2, 3} /\ Copies = {1, 2, 3}
  BY DEF Pairs, Copies

\* Recoverable spelled out.
LEMMA TwoOfThree ==
  ASSUME initialised
  PROVE  Recoverable <=> \/ copy[1] = data /\ copy[2] = data
                         \/ copy[1] = data /\ copy[3] = data
                         \/ copy[2] = data /\ copy[3] = data
  BY PairsAre DEF Recoverable

\* The invariant holds at the start.
LEMMA InitIInv == Init => IInv
<1> SUFFICES ASSUME Init PROVE IInv
  OBVIOUS
<1>1. TypeOK
  <2>1. taken \in BOOLEAN /\ initialised \in BOOLEAN /\ clean \in [Threads -> BOOLEAN]
    BY Zenon DEF Init
  <2> QED
    BY <2>1, TmrAssumption DEF Init, TypeOK
<1>2. ReadersWait /\ ReadCorrect
  BY DEF Init, ReadersWait, ReadCorrect
<1>3. Recoverable
  BY DEF Init, Recoverable
<1>4. ASSUME NEW t \in Threads PROVE PastKnown(t)
  BY DEF Init, PastKnown
<1> QED
  BY <1>1, <1>2, <1>3, <1>4 DEF IInv

\* Every step keeps the types, with any number of readers.
LEMMA NextTypeOK == TypeOK /\ [Next]_vars => TypeOK'
<1> SUFFICES ASSUME TypeOK, [Next]_vars PROVE TypeOK'
  OBVIOUS
<1>1. CASE MemMalloc
  BY <1>1 DEF MemMalloc, TypeOK
<1>2. CASE MemFree
  <2>1. taken' \in BOOLEAN /\ initialised' \in BOOLEAN
    BY <1>2, Zenon DEF MemFree
  <2> QED
    BY <1>2, <2>1, TmrAssumption DEF MemFree, Forget, TypeOK
<1>3. CASE DataBlockInit
  BY <1>3, TmrAssumption DEF DataBlockInit, Forget, TypeOK
<1>4. ASSUME NEW n \in Bytes, MemCalloc(n) PROVE TypeOK'
  <2>1. PICK old \in [Copies -> [Bytes -> Values]] : copy' = Cleared(old, n)
    BY <1>4 DEF MemCalloc
  <2>2. copy' \in [Copies -> [Bytes -> Values]]
    BY <2>1, TmrAssumption, PairsAre DEF Cleared
  <2> QED
    BY <1>4, <2>2 DEF MemCalloc, TypeOK, Bytes
<1>5. ASSUME NEW n \in Bytes, NEW source \in [1 .. n -> Values], MemWrite(n, source)
      PROVE  TypeOK'
  <2>1. \A old \in [Bytes -> Values] : Overlay(old, source) \in [Bytes -> Values]
    BY DEF Overlay
  <2> QED
    BY <1>5, <2>1, TmrAssumption DEF MemWrite, Forget, TypeOK, Bytes
<1>6. ASSUME NEW c \in Copies, NEW k \in Bytes, NEW v \in Values, Upset(c, k, v)
      PROVE  TypeOK'
  BY <1>6 DEF Upset, TypeOK
<1>7. ASSUME NEW t \in Threads, ReadBegin(t) PROVE TypeOK'
  BY <1>7 DEF ReadBegin, TypeOK
<1>8. ASSUME NEW t \in Threads, Compare(t) PROVE TypeOK'
  BY <1>8 DEF Compare, Differ, TypeOK, Pairs
<1>9. ASSUME NEW t \in Threads, Decide(t) PROVE TypeOK'
  <2>1. \A i : Repaired(i) \in [Copies -> [Bytes -> Values]]
    BY PairsAre DEF Repaired, TypeOK
  <2> QED
    BY <1>9, <2>1 DEF Decide, TypeOK
<1>10. CASE UNCHANGED vars
  BY <1>10 DEF vars, TypeOK
<1> QED
  BY <1>1, <1>2, <1>3, <1>4, <1>5, <1>6, <1>7, <1>8, <1>9, <1>10 DEF Next

\* A block that somebody reads stays as it is, but for particles and repairs.
LEMMA ApplicationKeeps ==
  ASSUME IInv, TypeOK',
         \/ MemMalloc \/ MemFree \/ DataBlockInit
         \/ \E n \in Bytes : MemCalloc(n) \/ \E source \in [1 .. n -> Values] : MemWrite(n, source)
  PROVE  IInv'
<1>1. NobodyReads /\ UNCHANGED <<stage, compare, clean>>
  <2>1. CASE taken
    BY <2>1 DEF MemMalloc, MemFree, DataBlockInit, MemCalloc, MemWrite
  <2>2. CASE ~taken
    BY <2>2 DEF IInv, ReadersWait, NobodyReads, MemMalloc, MemFree, DataBlockInit, MemCalloc, MemWrite
  <2> QED
    BY <2>1, <2>2
<1>2. \A t \in Threads : PastKnown(t)'
  <2> SUFFICES ASSUME NEW t \in Threads, NEW i \in Pairs, i < stage'[t] PROVE FALSE
    BY DEF PastKnown
  <2>1. stage'[t] = 0
    BY <1>1 DEF NobodyReads
  <2> QED
    BY <2>1, PairsAre
<1>3. CASE MemMalloc \/ \E n \in Bytes : MemCalloc(n)
  <2>1. taken' /\ ~initialised' /\ result' = result
    BY <1>3 DEF MemMalloc, MemCalloc, IInv, ReadersWait
  <2> QED
    BY <1>1, <1>2, <2>1 DEF IInv, ReadersWait, Recoverable, ReadCorrect, NobodyReads
<1>4. CASE MemFree
  <2>1. ~initialised' /\ \A t \in Threads : result'[t] = "none"
    BY <1>4 DEF MemFree, Forget
  <2> QED
    BY <1>1, <1>2, <2>1 DEF IInv, ReadersWait, Recoverable, ReadCorrect, NobodyReads
<1>5. CASE DataBlockInit
  <2>1. taken' /\ \A t \in Threads : result'[t] = "none"
    BY <1>5 DEF DataBlockInit, Forget
  <2>2. copy'[1] = data' /\ copy'[2] = data'
    BY <1>5, PairsAre DEF DataBlockInit
  <2> QED
    BY <1>1, <1>2, <2>1, <2>2, PairsAre DEF IInv, ReadersWait, Recoverable, ReadCorrect, NobodyReads
<1>6. ASSUME NEW n \in Bytes, NEW source \in [1 .. n -> Values], MemWrite(n, source)
      PROVE  IInv'
  <2>1. taken' /\ initialised' = initialised /\ \A t \in Threads : result'[t] = "none"
    BY <1>6 DEF MemWrite, Forget
  <2>2. \A c \in Copies : copy[c] = data => copy'[c] = data'
    BY <1>6 DEF MemWrite
  <2>3. Recoverable'
    BY <2>1, <2>2 DEF IInv, Recoverable
  <2> QED
    BY <1>1, <1>2, <2>1, <2>3 DEF IInv, ReadersWait, ReadCorrect, NobodyReads
<1> QED
  BY <1>3, <1>4, <1>5, <1>6

\* When the copies agree they all hold the data, so every comparison made so
\* far was equal: that remains true of the pairs when one byte is hit.
LEMMA UpsetKeeps ==
  ASSUME IInv, TypeOK', NEW c \in Copies, NEW k \in Bytes, NEW v \in Values, Upset(c, k, v)
  PROVE  IInv'
<1>1. initialised /\ \A d \in Copies : copy[d] = data
  BY PairsAre DEF Upset, Agree, IInv, Recoverable
<1>2. \A d \in Copies : d # c => copy'[d] = data'
  BY <1>1 DEF Upset, IInv, TypeOK
<1>3. Recoverable'
  BY <1>2, PairsAre DEF Recoverable
<1>4. UNCHANGED <<taken, initialised, data, stage, compare, result>>
      /\ \A t \in Threads : ~clean'[t]
  BY DEF Upset
<1>5. ASSUME NEW t \in Threads PROVE PastKnown(t)'
  <2> SUFFICES ASSUME NEW i \in Pairs, i < stage[t]
               PROVE  compare[t][i] # 1 /\ \A j \in Pairs : j < i => compare[t][j] = 0
    BY <1>4 DEF PastKnown
  <2>1. \A j \in Pairs : ~Spoiled(j)
    BY <1>1, PairsAre DEF Spoiled, Left, Right
  <2>2. \A j \in Pairs : j < stage[t] => compare[t][j] # 1
    BY <1>1, <2>1 DEF IInv, PastKnown
  <2>3. compare[t] \in [Pairs -> {0, 1}] /\ stage[t] \in 0 .. 4
    BY DEF IInv, TypeOK
  <2>4. \A j \in Pairs : compare[t][j] \in {0, 1}
    BY <2>3
  <2> QED
    BY <2>2, <2>3, <2>4, PairsAre
<1> QED
  BY <1>3, <1>4, <1>5 DEF IInv, ReadersWait, ReadCorrect

\* A read that begins knows nothing yet.
LEMMA ReadBeginKeeps ==
  ASSUME IInv, TypeOK', NEW t \in Threads, ReadBegin(t)
  PROVE  IInv'
<1>1. ReadersWait' /\ ReadCorrect'
  BY DEF ReadBegin, IInv, ReadersWait, ReadCorrect, TypeOK
<1>2. Recoverable'
  BY DEF ReadBegin, IInv, Recoverable
<1>3. ASSUME NEW u \in Threads PROVE PastKnown(u)'
  <2>1. CASE u = t
    BY <2>1, PairsAre DEF ReadBegin, PastKnown, IInv, TypeOK
  <2>2. CASE u # t
    BY <2>2 DEF ReadBegin, PastKnown, IInv, TypeOK, Spoiled
  <2> QED
    BY <2>1, <2>2
<1> QED
  BY <1>1, <1>2, <1>3 DEF IInv

\* Two copies hold the data, so a pair that is equal is not spoiled.
LEMMA CompareKeeps ==
  ASSUME IInv, TypeOK', NEW t \in Threads, Compare(t)
  PROVE  IInv'
<1>1. ReadersWait' /\ ReadCorrect' /\ Recoverable'
  BY PairsAre DEF Compare, IInv, ReadersWait, ReadCorrect, Recoverable, TypeOK
<1>2. ASSUME NEW u \in Threads PROVE PastKnown(u)'
  <2>1. CASE u # t
    BY <2>1 DEF Compare, PastKnown, IInv, TypeOK, Spoiled
  <2>2. CASE u = t
    <3> DEFINE i == stage[t]
    <3>1. /\ i \in Pairs /\ stage'[t] = i + 1
          /\ compare'[t] = [compare[t] EXCEPT ![i] = Differ(i)]
          /\ UNCHANGED <<copy, initialised, data, clean>>
      BY DEF Compare, IInv, TypeOK
    <3>2. initialised => (Differ(i) = 1 => Spoiled(i)) /\ (Differ(i) = 0 => ~Spoiled(i))
      BY <3>1, TwoOfThree, PairsAre DEF Differ, Spoiled, Left, Right, IInv
    <3>3. compare'[t][i] = Differ(i) /\ \A j \in Pairs : j # i => compare'[t][j] = compare[t][j]
      BY <3>1 DEF IInv, TypeOK
    <3> QED
      BY <2>2, <3>1, <3>2, <3>3, PairsAre DEF PastKnown, IInv, Spoiled
  <2> QED
    BY <2>1, <2>2
<1> QED
  BY <1>1, <1>2 DEF IInv

\* The decision copies from a block that holds the data, or onto one that is
\* spoiled already.
LEMMA DecideKeeps ==
  ASSUME OneReader, IInv, TypeOK', NEW t \in Threads, Decide(t)
  PROVE  IInv'
<1> DEFINE cmp == compare[t]
<1>1. /\ stage[t] = 4 /\ UNCHANGED <<taken, initialised, data, compare, clean>>
      /\ stage' = [stage EXCEPT ![t] = 0]
      /\ \A u \in Threads : u = t
  BY DEF Decide, OneReader
<1>2. cmp[1] \in {0, 1} /\ cmp[2] \in {0, 1} /\ cmp[3] \in {0, 1}
  BY PairsAre DEF IInv, TypeOK
<1>3. ReadersWait'
  BY <1>1 DEF IInv, ReadersWait, TypeOK
<1>4. ASSUME NEW u \in Threads PROVE PastKnown(u)'
  BY <1>1, PairsAre DEF PastKnown, IInv, TypeOK
<1>5. ASSUME initialised
      PROVE  /\ cmp[1] = 1 => copy[1] # data \/ copy[2] # data
             /\ cmp[2] = 1 => copy[1] # data \/ copy[3] # data
             /\ cmp[3] = 1 => copy[2] # data \/ copy[3] # data
             /\ cmp[3] = 0 /\ (copy[2] # data \/ copy[3] # data) =>
                  ~clean[t] /\ cmp[1] = 0 /\ cmp[2] = 0
             /\ cmp[2] = 0 /\ (copy[1] # data \/ copy[3] # data) => ~clean[t] /\ cmp[1] = 0
             /\ cmp[1] = 0 /\ (copy[1] # data \/ copy[2] # data) => ~clean[t]
  BY <1>1, <1>5, PairsAre DEF IInv, PastKnown, Spoiled, Left, Right
<1>6. ASSUME initialised
      PROVE  /\ \/ copy'[1] = data /\ copy'[2] = data
                \/ copy'[1] = data /\ copy'[3] = data
                \/ copy'[2] = data /\ copy'[3] = data
             /\ clean[t] => copy'[1] = data /\ result'[t] = "ptr"
  <2>1. \/ copy[1] = data /\ copy[2] = data
        \/ copy[1] = data /\ copy[3] = data
        \/ copy[2] = data /\ copy[3] = data
    BY <1>6, TwoOfThree DEF IInv
  <2>2. CASE \A p \in Pairs : cmp[p] = 0
    <3>1. copy' = copy /\ result'[t] = "ptr"
      BY <2>2, PairsAre DEF Decide, IInv, TypeOK, Index
    <3>2. clean[t] => copy[1] = data
      BY <2>2, <1>5, <1>6, PairsAre
    <3> QED
      BY <2>1, <3>1, <3>2
  <2>3. CASE \E p \in Pairs : cmp[p] = 1
    <3>1. Index(cmp) # 0
      BY <1>2, <1>5, <1>6, <2>1 DEF Index
    <3>2. copy' = Repaired(Index(cmp)) /\ result'[t] = "ptr"
      BY <2>3, <3>1, PairsAre DEF Decide, IInv, TypeOK
    <3>3. CASE cmp[3] = 0
      <4>1. copy'[1] = copy[2] /\ copy'[2] = copy[2] /\ copy'[3] = copy[3]
        BY <3>2, <3>3, PairsAre DEF Index, Repaired, IInv, TypeOK
      <4>2. copy[2] = data /\ copy[3] = data
        BY <1>2, <1>5, <1>6, <2>3, <3>3, PairsAre
      <4> QED
        BY <3>2, <4>1, <4>2
    <3>4. CASE cmp[3] # 0 /\ cmp[2] = 0
      <4>1. copy'[1] = copy[1] /\ copy'[2] = copy[1] /\ copy'[3] = copy[3]
        BY <3>2, <3>4, PairsAre DEF Index, Repaired, IInv, TypeOK
      <4>2. copy[1] = data
        BY <1>2, <1>5, <1>6, <2>1, <3>4
      <4> QED
        BY <3>2, <4>1, <4>2
    <3>5. CASE cmp[3] # 0 /\ cmp[2] # 0
      <4>1. copy'[1] = copy[1] /\ copy'[2] = copy[2] /\ copy'[3] = copy[1]
        BY <3>1, <3>2, <3>5, <1>2, PairsAre DEF Index, Repaired, IInv, TypeOK
      <4>2. copy[1] = data /\ copy[2] = data
        BY <1>2, <1>5, <1>6, <2>1, <3>5
      <4> QED
        BY <3>2, <4>1, <4>2
    <3> QED
      BY <3>3, <3>4, <3>5
  <2> QED
    BY <2>2, <2>3, <1>2, PairsAre
<1>7. Recoverable' /\ ReadCorrect'
  BY <1>1, <1>6, PairsAre DEF Recoverable, ReadCorrect
<1> QED
  BY <1>3, <1>4, <1>7 DEF IInv

\* With one reader every step keeps the invariant.
LEMMA NextIInv == OneReader /\ IInv /\ [Next]_vars => IInv'
<1> SUFFICES ASSUME OneReader, IInv, [Next]_vars PROVE IInv'
  OBVIOUS
<1>1. TypeOK'
  BY NextTypeOK DEF IInv
<1>2. CASE \/ MemMalloc \/ MemFree \/ DataBlockInit
           \/ \E n \in Bytes : MemCalloc(n) \/ \E source \in [1 .. n -> Values] : MemWrite(n, source)
  BY <1>1, <1>2, ApplicationKeeps
<1>3. CASE \E c \in Copies, k \in Bytes, v \in Values : Upset(c, k, v)
  BY <1>1, <1>3, UpsetKeeps
<1>4. CASE \E t \in Threads : ReadBegin(t) \/ Compare(t) \/ Decide(t)
  BY <1>1, <1>4, ReadBeginKeeps, CompareKeeps, DecideKeeps
<1>5. CASE UNCHANGED vars
  BY <1>5 DEF vars, IInv, TypeOK, ReadersWait, Recoverable, ReadCorrect, PastKnown, Spoiled
<1> QED
  BY <1>2, <1>3, <1>4, <1>5 DEF Next

-----------------------------------------------------------------------------
\* Every variable keeps its type, with any number of readers.
THEOREM TmrTypeCorrect == Spec => []TypeOK
<1>1. Init => TypeOK
  BY InitIInv DEF IInv
<1> QED
  BY <1>1, NextTypeOK, PTL DEF Spec

\* The inductive invariant, for one reader.
THEOREM TmrInvariance == ASSUME OneReader PROVE Spec => []IInv
  BY InitIInv, NextIInv, PTL DEF Spec

\* With one reader two copies hold the data at every moment.
THEOREM StaysRecoverable == ASSUME OneReader PROVE Spec => []Recoverable
<1>1. IInv => Recoverable
  BY DEF IInv
<1> QED
  BY <1>1, TmrInvariance, PTL

\* With one reader a read that no hit disturbs returns the data.
THEOREM ReadsAreCorrect == ASSUME OneReader PROVE Spec => []ReadCorrect
<1>1. IInv => ReadCorrect
  BY DEF IInv
<1> QED
  BY <1>1, TmrInvariance, PTL

=============================================================================
