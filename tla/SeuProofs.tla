------------------------------ MODULE SeuProofs ------------------------------
(***************************************************************************)
(* Proofs about Seu: with one reader at a time a write that found the      *)
(* block intact and its parity bytes zero protects it, for a copy of any   *)
(* size and at whatever moment of MEM_Read and MEM_Write a bit is hit,     *)
(* except in the first copy between its memcpy and its count.              *)
(***************************************************************************)
EXTENDS Seu, FiniteSetTheorems, TLAPS

\* At most one thread reads the block.
OneReader == \A t, u \in Threads : t = u

\* Somebody reads only what the application has, and has not returned yet.
ReadersWait ==
  /\ taken \/ ~initialised
  /\ \A t \in Threads : stage[t] # 0 => taken /\ ~done[t]

\* Somebody writes only what the application has and nobody reads.
WritersWait ==
  wstage # 0 => /\ taken /\ source \subseteq 1 .. size
                /\ \A t \in Threads : stage[t] = 0 /\ ~done[t]

\* The block is one that the properties speak about.
Guarded == initialised /\ sealed

\* get_bit_time over a copy once the MEM_Write under way has returned.
FinalBitTime(c) == (Cardinality(Ones(c)) + Parity(c)) % 2

\* What Recoverable says, of the copies as they will be.  No step of MEM_Write
\* changes that; a hit changes it for one copy.
Protected ==
  Guarded => /\ \A c \in Copies : FinalBitTime(c) = 1 => Ones(c) = data
             /\ \E c \in Copies : FinalBitTime(c) = 1

\* Until the first copy is counted it holds the data.
FirstCopy == Guarded /\ wstage \in {1, 2} => ones[1] = data

\* What the counts of t say of the copies as they are now: a copy that is still
\* to be overwritten is spoiled and the other one is not, and nothing is hit
\* until then; a copy that t need not overwrite was not spoiled when counted.
CountsKnown(t) ==
  Guarded /\ wstage = 0 =>
    /\ stage[t] \in {2, 3} /\ count[t][1] = 0 => BitTime(1) = 0 /\ BitTime(2) = 1
    /\ stage[t] \in {3, 4} /\ count[t][2] = 0 => BitTime(2) = 0 /\ BitTime(1) = 1
    /\ clean[t] /\ stage[t] \in {2, 3} /\ count[t][1] = 1 => BitTime(1) = 1
    /\ clean[t] /\ stage[t] = 4 => BitTime(1) = 1

\* The inductive invariant.
IInv ==
  /\ TypeOK /\ ReadersWait /\ WritersWait /\ Protected /\ FirstCopy /\ ReadCorrect
  /\ \A t \in Threads : CountsKnown(t)

-----------------------------------------------------------------------------
\* A copy has finitely many one-bits.
LEMMA BitSets ==
  ASSUME NEW S \in SUBSET Bits
  PROVE  IsFiniteSet(S) /\ Cardinality(S) \in Nat
<1>1. IsFiniteSet(Bits)
  BY SeuAssumption, FS_Interval DEF Bits
<1>2. IsFiniteSet(S)
  BY <1>1, FS_Subset
<1> QED
  BY <1>2, FS_CardinalityType

\* get_bit_time returns a parity.
LEMMA BitTimeType ==
  ASSUME TypeOK, NEW c \in Copies
  PROVE  BitTime(c) \in {0, 1}
<1>1. Cardinality(ones[c]) \in Nat /\ parity[c] \in {0, 1}
  BY BitSets DEF TypeOK
<1> QED
  BY <1>1 DEF BitTime

\* One bit more or less changes the parity.
LEMMA OneBit ==
  ASSUME NEW S \in SUBSET Bits, NEW k \in Bits, NEW T, NEW p \in {0, 1},
         T = IF k \in S THEN S \ {k} ELSE S \cup {k}
  PROVE  (Cardinality(T) + p) % 2 = 1 - ((Cardinality(S) + p) % 2)
<1>1. IsFiniteSet(S) /\ Cardinality(S) \in Nat
  BY BitSets
<1>2. CASE k \in S
  <2>1. Cardinality(S \ {k}) = Cardinality(S) - 1
    BY <1>1, <1>2, FS_RemoveElement
  <2>2. Cardinality(S \ {k}) \in Nat
    BY BitSets
  <2> QED
    BY <1>1, <1>2, <2>1, <2>2
<1>3. CASE k \notin S
  <2>1. Cardinality(S \cup {k}) = Cardinality(S) + 1
    BY <1>1, <1>3, FS_AddElement
  <2> QED
    BY <1>1, <1>3, <2>1
<1> QED
  BY <1>2, <1>3

\* What odd_check writes into a zero byte makes the number of ones odd.
LEMMA OddCheckSeals ==
  ASSUME NEW S \in SUBSET Bits
  PROVE  (Cardinality(S) + OddCheck(Cardinality(S), 0)) % 2 = 1
<1>1. Cardinality(S) \in Nat
  BY BitSets
<1> QED
  BY <1>1 DEF OddCheck

\* odd_check looks at its count modulo 2 only.
LEMMA OddCheckModulo ==
  ASSUME NEW n \in Nat, NEW old
  PROVE  OddCheck(n % 2, old) = OddCheck(n, old)
BY DEF OddCheck

\* While nobody writes the copies are what they will be.
LEMMA AtRest == wstage = 0 => (Protected <=> Recoverable)
BY DEF Protected, Recoverable, Guarded, FinalBitTime, BitTime, Ones, Parity, Sealing

\* The invariant holds at the start.
LEMMA InitIInv == Init => IInv
<1> SUFFICES ASSUME Init PROVE IInv
  OBVIOUS
<1>1. ~Guarded /\ \A t \in Threads : ~done[t] /\ stage[t] = 0
  BY DEF Init, Guarded
<1>2. TypeOK
  <2>1. /\ taken \in BOOLEAN /\ initialised \in BOOLEAN /\ sealed \in BOOLEAN
        /\ done \in [Threads -> BOOLEAN] /\ clean \in [Threads -> BOOLEAN]
    BY Zenon DEF Init
  <2> QED
    BY <2>1, SeuAssumption DEF Init, TypeOK
<1> QED
  BY <1>1, <1>2 DEF Init, IInv, ReadersWait, WritersWait, Protected, FirstCopy, ReadCorrect,
                    CountsKnown, Guarded

\* Every step keeps the types, with any number of readers.
LEMMA NextTypeOK == TypeOK /\ [Next]_vars => TypeOK'
<1> SUFFICES ASSUME TypeOK, [Next]_vars PROVE TypeOK'
  OBVIOUS
<1>1. CASE MemMalloc
  BY <1>1 DEF MemMalloc, TypeOK, write
<1>2. CASE MemFree
  <2>1. /\ taken' \in BOOLEAN /\ initialised' \in BOOLEAN
        /\ sealed' \in BOOLEAN /\ done' \in [Threads -> BOOLEAN]
    BY <1>2, Zenon DEF MemFree, Forget
  <2> QED
    BY <1>2, <2>1 DEF MemFree, TypeOK, write
<1>3. CASE DataBlockInit
  <2>1. /\ initialised' \in BOOLEAN
        /\ sealed' \in BOOLEAN /\ done' \in [Threads -> BOOLEAN]
    BY <1>3, Zenon DEF DataBlockInit, Forget
  <2> QED
    BY <1>3, <2>1 DEF DataBlockInit, TypeOK, write
<1>4. ASSUME NEW n \in Bits, NEW new \in SUBSET (1 .. n), MemWrite(n, new)
      PROVE  TypeOK'
  <2>1. new \subseteq Bits /\ n \in 0 .. N
    BY SeuAssumption DEF Bits
  <2>2. \A old \in SUBSET Bits : Overlay(old, n, new) \in SUBSET Bits
    BY <2>1 DEF Overlay
  <2>3. sealed' \in BOOLEAN /\ done' \in [Threads -> BOOLEAN]
    BY <1>4, Zenon DEF MemWrite, Forget
  <2>4. ones' \in [Copies -> SUBSET Bits] /\ data' \in SUBSET Bits
    BY <1>4, <2>2 DEF MemWrite, TypeOK
  <2>5. taken' \in BOOLEAN /\ initialised' \in BOOLEAN
    BY <1>4 DEF MemWrite, TypeOK
  <2> QED
    BY <1>4, <2>1, <2>3, <2>4, <2>5 DEF MemWrite, TypeOK
<1>10. CASE WriteSecond
  <2>1. ones' \in [Copies -> SUBSET Bits]
    BY <1>10 DEF WriteSecond, Overlay, TypeOK
  <2> QED
    BY <1>10, <2>1 DEF WriteSecond, TypeOK
<1>11. CASE CountFirst
  <2>1. Cardinality(ones[1]) \in Nat
    BY BitSets DEF TypeOK, Copies
  <2>2. counted' \in {0, 1}
    BY <1>11, <2>1 DEF CountFirst
  <2> QED
    BY <1>11, <2>2 DEF CountFirst, TypeOK
<1>12. CASE Seal
  <2>1. parity' \in [Copies -> {0, 1}]
    BY <1>12 DEF Seal, OddCheck, TypeOK
  <2>2. /\ wstage' \in 0 .. 4 /\ size' \in 0 .. N
        /\ source' \in SUBSET Bits /\ counted' \in {0, 1}
    BY <1>12, SeuAssumption DEF Seal, TypeOK
  <2> QED
    BY <1>12, <2>1, <2>2 DEF Seal, TypeOK
<1>5. ASSUME NEW c \in Copies, Upset(c) PROVE TypeOK'
  <2>1. clean' \in [Threads -> BOOLEAN]
    BY <1>5, Zenon DEF Upset
  <2>2. ones' \in [Copies -> SUBSET Bits]
    BY <1>5 DEF Upset, TypeOK
  <2>4. parity' \in [Copies -> {0, 1}]
    BY <1>5 DEF Upset, TypeOK
  <2>3. sealed' \in BOOLEAN
    BY <1>5 DEF Upset, TypeOK
  <2> QED
    BY <1>5, <2>1, <2>2, <2>3, <2>4 DEF Upset, TypeOK, write
<1>6. ASSUME NEW t \in Threads, ReadBegin(t) PROVE TypeOK'
  BY <1>6 DEF ReadBegin, TypeOK, write
<1>7. ASSUME NEW t \in Threads, CountBits(t) PROVE TypeOK'
  <2>1. stage[t] \in Copies /\ BitTime(stage[t]) \in {0, 1}
    BY <1>7, BitTimeType DEF CountBits
  <2> QED
    BY <1>7, <2>1 DEF CountBits, TypeOK, Copies, write
<1>8. ASSUME NEW t \in Threads, Restore(t) PROVE TypeOK'
  <2>1. stage[t] - 2 \in Copies /\ 3 - (stage[t] - 2) \in Copies
    BY <1>8 DEF Restore, Copies, TypeOK
  <2>2. ones' \in [Copies -> SUBSET Bits] /\ parity' \in [Copies -> {0, 1}]
    BY <1>8, <2>1 DEF Restore, OntoCopy, TypeOK
  <2>3. done' \in [Threads -> BOOLEAN]
    BY <1>8 DEF Restore, TypeOK
  <2> QED
    BY <1>8, <2>2, <2>3 DEF Restore, TypeOK, write
<1>9. CASE UNCHANGED vars
  BY <1>9 DEF vars, write, TypeOK
<1> QED
  BY <1>1, <1>2, <1>3, <1>4, <1>5, <1>6, <1>7, <1>8, <1>9, <1>10, <1>11, <1>12 DEF Next

\* The application takes, frees and initialises the block only while nobody reads
\* or writes it.
LEMMA ApplicationKeeps ==
  ASSUME IInv, TypeOK', MemMalloc \/ MemFree \/ DataBlockInit
  PROVE  IInv'
<1>1. Idle /\ UNCHANGED <<stage, count, clean, write>>
  <2>1. CASE taken
    BY <2>1 DEF MemMalloc, MemFree, DataBlockInit
  <2>2. CASE ~taken
    BY <2>2 DEF IInv, ReadersWait, WritersWait, Idle, MemMalloc, MemFree, DataBlockInit
  <2> QED
    BY <2>1, <2>2
<1>2. ~(initialised' /\ sealed')
  BY DEF MemMalloc, MemFree, DataBlockInit, IInv, ReadersWait
<1>3. /\ Protected' /\ FirstCopy' /\ ReadCorrect' /\ \A t \in Threads : CountsKnown(t)'
  BY <1>2 DEF Protected, FirstCopy, ReadCorrect, CountsKnown, Guarded
<1>4. ReadersWait' /\ WritersWait'
  <2>1. wstage' = 0 /\ \A t \in Threads : stage'[t] = 0
    BY <1>1 DEF Idle, write
  <2>2. taken' \/ ~initialised'
    BY DEF MemMalloc, MemFree, DataBlockInit, IInv, ReadersWait
  <2> QED
    BY <2>1, <2>2 DEF ReadersWait, WritersWait
<1> QED
  BY <1>3, <1>4 DEF IInv

\* A write that seals the block will leave both copies with an odd number of ones.
LEMMA MemWriteKeeps ==
  ASSUME IInv, TypeOK', NEW n \in Bits, NEW new \in SUBSET (1 .. n), MemWrite(n, new)
  PROVE  IInv'
<1>1. /\ taken' /\ wstage' = 1 /\ size' = n /\ source' = new /\ parity' = parity
      /\ \A t \in Threads : stage'[t] = 0 /\ ~done'[t]
  BY DEF MemWrite, Forget, Idle
<1>2. ASSUME sealed', NEW c \in Copies PROVE Ones(c)' = data' /\ FinalBitTime(c)' = 1
  <2>1. ones[1] = data /\ ones[2] = data /\ parity[c] = 0
    BY <1>2 DEF MemWrite, Copies
  <2>2. ones'[1] = data' /\ ones'[2] = data /\ data' = Overlay(data, n, new)
    BY <2>1 DEF MemWrite, IInv, TypeOK, Copies
  <2>3. Ones(c)' = data'
    BY <1>1, <2>2 DEF Ones, Copies
  <2>4. Parity(c)' = OddCheck(Cardinality(data'), 0)
    BY <1>1, <2>1, <2>2 DEF Parity, Sealing, Counted
  <2>5. data' \in SUBSET Bits
    BY DEF TypeOK
  <2> QED
    BY <2>3, <2>4, <2>5, OddCheckSeals DEF FinalBitTime
<1>3. Protected'
  BY <1>2 DEF Protected, Guarded, Copies
<1>4. FirstCopy'
  BY <1>1, <1>2 DEF FirstCopy, Guarded, Ones, Copies
<1> QED
  BY <1>1, <1>3, <1>4 DEF IInv, ReadersWait, WritersWait, ReadCorrect, CountsKnown

\* The steps of a write bring the copies nearer to what they will be.
LEMMA WritingKeeps ==
  ASSUME IInv, TypeOK', WriteSecond \/ CountFirst \/ Seal
  PROVE  IInv'
<1>1. /\ wstage # 0 /\ UNCHANGED <<taken, initialised, data, sealed, stage, count, done, clean>>
      /\ ones'[1] = ones[1]
      /\ wstage' # 0 => source' = source /\ size' = size
      /\ wstage' \in {1, 2} => wstage \in {1, 2}
  BY DEF WriteSecond, CountFirst, Seal, Copies, IInv, TypeOK
<1>2. ASSUME NEW c \in Copies PROVE Ones(c)' = Ones(c)
  BY DEF WriteSecond, CountFirst, Seal, Ones, Copies, IInv, TypeOK
<1>3. ASSUME NEW c \in Copies PROVE Parity(c)' = Parity(c)
  <2>1. CASE WriteSecond
    BY <1>1, <2>1 DEF WriteSecond, Parity, Sealing, Counted
  <2>2. CASE CountFirst
    <3>1. Cardinality(ones[1]) \in Nat
      BY BitSets DEF IInv, TypeOK, Copies
    <3>2. Sealing(c) /\ Sealing(c)' /\ parity' = parity
          /\ Counted = Cardinality(ones[1]) /\ Counted' = Cardinality(ones[1]) % 2
      BY <2>2 DEF CountFirst, Sealing, Counted
    <3> QED
      BY <3>1, <3>2, OddCheckModulo DEF Parity
  <2>3. CASE Seal
    <3>1. CASE wstage = 3
      BY <2>3, <3>1 DEF Seal, Parity, Sealing, Counted, Copies, IInv, TypeOK
    <3>2. CASE wstage = 4
      BY <2>3, <3>2 DEF Seal, Parity, Sealing, Counted, Copies, IInv, TypeOK
    <3> QED
      BY <2>3, <3>1, <3>2 DEF Seal, Copies, IInv, TypeOK
  <2> QED
    BY <2>1, <2>2, <2>3
<1>4. Protected'
  BY <1>1, <1>2, <1>3 DEF IInv, Protected, Guarded, FinalBitTime, Copies
<1>5. FirstCopy' /\ ReadersWait' /\ WritersWait' /\ ReadCorrect'
  BY <1>1 DEF IInv, FirstCopy, ReadersWait, WritersWait, ReadCorrect, Guarded
<1>6. ASSUME NEW t \in Threads PROVE CountsKnown(t)'
  <2>1. stage'[t] = 0
    BY <1>1 DEF IInv, WritersWait
  <2> QED
    BY <2>1 DEF CountsKnown
<1> QED
  BY <1>4, <1>5, <1>6 DEF IInv

\* When the copies will agree neither is spoiled, so nothing is left to overwrite;
\* the copy that is hit becomes even, unless the write still overwrites the bit,
\* and the other one stays odd.
LEMMA UpsetKeeps ==
  ASSUME IInv, TypeOK', NEW c \in Copies, Upset(c)
  PROVE  IInv'
<1>1. /\ UNCHANGED <<taken, initialised, data, stage, count, done, wstage, size, source, counted>>
      /\ sealed' => sealed
      /\ \A t \in Threads : ~clean'[t]
  <2>1. sealed \in BOOLEAN
    BY DEF IInv, TypeOK
  <2>2. sealed' => sealed
    BY <2>1 DEF Upset
  <2> QED
    BY <2>2 DEF Upset, write
<1>2. FinalBitTime(1) = FinalBitTime(2)
  BY DEF Upset, Agree, FinalBitTime
<1>3. Guarded => FinalBitTime(1) = 1 /\ FinalBitTime(2) = 1 /\ Ones(1) = data /\ Ones(2) = data
  BY <1>2 DEF IInv, Protected, Copies
<1>4. CASE \E k \in Bits : ones' = [ones EXCEPT ![c] = IF k \in @ THEN @ \ {k} ELSE @ \cup {k}]
           /\ UNCHANGED parity /\ sealed' = (sealed /\ ~(c = 1 /\ wstage \in {1, 2}))
  <2>1. PICK k \in Bits :
               /\ ones' = [ones EXCEPT ![c] = IF k \in @ THEN @ \ {k} ELSE @ \cup {k}]
               /\ UNCHANGED parity /\ sealed' = (sealed /\ ~(c = 1 /\ wstage \in {1, 2}))
    BY <1>4
  <2>2. ones'[c] = (IF k \in ones[c] THEN ones[c] \ {k} ELSE ones[c] \cup {k})
        /\ \A d \in Copies : d # c => ones'[d] = ones[d]
    BY <2>1 DEF IInv, TypeOK
  <2> SUFFICES ASSUME Guarded' PROVE IInv'
    BY <1>1 DEF IInv, ReadersWait, WritersWait, Protected, FirstCopy, ReadCorrect, CountsKnown,
               Guarded
  <2>3. Guarded /\ (c = 1 => wstage \notin {1, 2})
    BY <1>1, <2>1 DEF Guarded
  <2>4. wstage \in {1, 2} => ones'[1] = ones[1]
    BY <2>2, <2>3 DEF Copies
  <2>5. ASSUME NEW d \in Copies PROVE Parity(d)' = Parity(d)
    BY <1>1, <2>1, <2>4 DEF Parity, Sealing, Counted
  <2>6. ASSUME NEW d \in Copies, d # c PROVE Ones(d)' = Ones(d)
    BY <1>1, <2>2, <2>6 DEF Ones
  <2>7. Ones(c)' = Ones(c) \/ FinalBitTime(c)' # 1
    <3>1. CASE wstage = 1 /\ c = 2
      <4>1. Ones(c) = Overlay(ones[c], size, source) /\ Ones(c)' = Overlay(ones'[c], size, source)
        BY <1>1, <3>1 DEF Ones
      <4>2. CASE k \in 1 .. size
        BY <2>2, <4>1, <4>2 DEF Overlay
      <4>3. CASE k \notin 1 .. size
        <5> DEFINE S == Ones(c)
                   T == Ones(c)'
        <5>1. k \notin source
          BY <3>1, <4>3 DEF IInv, WritersWait
        <5>2. T = IF k \in S THEN S \ {k} ELSE S \cup {k}
          BY <2>2, <4>1, <4>3, <5>1 DEF Overlay
        <5>3. S \in SUBSET Bits
          BY <1>3, <2>3 DEF IInv, TypeOK, Copies
        <5>4. Parity(c) \in {0, 1}
          BY <3>1 DEF Parity, OddCheck, IInv, TypeOK
        <5>5. FinalBitTime(c)' = (Cardinality(T) + Parity(c)) % 2
          BY <2>5 DEF FinalBitTime
        <5>6. FinalBitTime(c) = (Cardinality(S) + Parity(c)) % 2
          BY DEF FinalBitTime
        <5> HIDE DEF S, T
        <5>7. (Cardinality(T) + Parity(c)) % 2 = 1 - ((Cardinality(S) + Parity(c)) % 2)
          BY <5>2, <5>3, <5>4, OneBit
        <5>8. FinalBitTime(c)' = 1 - FinalBitTime(c)
          BY <5>5, <5>6, <5>7
        <5>9. FinalBitTime(c) = 1
          BY <1>3, <2>3 DEF Copies
        <5> QED
          BY <5>8, <5>9
      <4> QED
        BY <4>2, <4>3
    <3>2. CASE ~(wstage = 1 /\ c = 2)
      <4> DEFINE S == Ones(c)
                 T == Ones(c)'
      <4>1. S = ones[c] /\ T = ones'[c]
        BY <1>1, <3>2 DEF Ones
      <4>2. T = IF k \in S THEN S \ {k} ELSE S \cup {k}
        BY <2>2, <4>1
      <4>3. S \in SUBSET Bits
        BY <4>1 DEF IInv, TypeOK
      <4>4. Parity(c) \in {0, 1}
        BY DEF Parity, OddCheck, IInv, TypeOK
      <4>5. FinalBitTime(c)' = (Cardinality(T) + Parity(c)) % 2
        BY <2>5 DEF FinalBitTime
      <4>6. FinalBitTime(c) = (Cardinality(S) + Parity(c)) % 2
        BY DEF FinalBitTime
      <4> HIDE DEF S, T
      <4>7. (Cardinality(T) + Parity(c)) % 2 = 1 - ((Cardinality(S) + Parity(c)) % 2)
        BY <4>2, <4>3, <4>4, OneBit
      <4>8. FinalBitTime(c)' = 1 - FinalBitTime(c)
        BY <4>5, <4>6, <4>7
      <4>9. FinalBitTime(c) = 1
        BY <1>3, <2>3 DEF Copies
      <4> QED
        BY <4>8, <4>9
    <3> QED
      BY <3>1, <3>2
  <2>8. \A d \in Copies : d # c => FinalBitTime(d)' = FinalBitTime(d)
    BY <2>5, <2>6 DEF FinalBitTime
  <2>9. Protected'
    BY <1>1, <1>3, <2>3, <2>6, <2>7, <2>8 DEF Protected, Copies
  <2>10. FirstCopy'
    BY <1>1, <2>3, <2>4 DEF IInv, FirstCopy, Guarded
  <2>11. ASSUME NEW t \in Threads PROVE CountsKnown(t)'
    <3>1. CASE wstage = 0
      <4>1. FinalBitTime(1) = BitTime(1) /\ FinalBitTime(2) = BitTime(2)
        BY <3>1 DEF FinalBitTime, BitTime, Ones, Parity, Sealing
      <4>2. ~(stage[t] \in {2, 3} /\ count[t][1] = 0) /\ ~(stage[t] \in {3, 4} /\ count[t][2] = 0)
        BY <1>3, <2>3, <3>1, <4>1 DEF IInv, CountsKnown
      <4> QED
        BY <1>1, <4>2 DEF CountsKnown
    <3>2. CASE wstage # 0
      BY <1>1, <3>2 DEF CountsKnown
    <3> QED
      BY <3>1, <3>2
  <2> QED
    BY <1>1, <2>9, <2>10, <2>11 DEF IInv, ReadersWait, WritersWait, ReadCorrect
<1>5. CASE parity' = [parity EXCEPT ![c] = 1 - @] /\ UNCHANGED <<ones, sealed>>
  <2>1. parity'[c] = 1 - parity[c] /\ parity[c] \in {0, 1} /\ Guarded' = Guarded
        /\ \A d \in Copies : d # c => parity'[d] = parity[d]
    BY <1>1, <1>5 DEF IInv, TypeOK, Guarded
  <2>2. ASSUME NEW d \in Copies PROVE Ones(d)' = Ones(d)
    BY <1>1, <1>5 DEF Ones
  <2>3. Counted' = Counted
    BY <1>1, <1>5 DEF Counted
  <2>4. ASSUME NEW d \in Copies, d # c PROVE Parity(d)' = Parity(d)
    BY <1>1, <2>1, <2>3, <2>4 DEF Parity, Sealing
  <2>5. Protected'
    <3>1. \A d \in Copies : d # c => FinalBitTime(d)' = FinalBitTime(d)
      BY <2>2, <2>4 DEF FinalBitTime
    <3> QED
      BY <1>1, <1>3, <2>1, <2>2, <3>1 DEF Protected, Copies
  <2>6. FirstCopy'
    BY <1>1, <1>5, <2>1 DEF IInv, FirstCopy
  <2>7. ASSUME NEW t \in Threads PROVE CountsKnown(t)'
    <3>1. CASE wstage = 0 /\ Guarded
      <4>1. FinalBitTime(1) = BitTime(1) /\ FinalBitTime(2) = BitTime(2)
        BY <3>1 DEF FinalBitTime, BitTime, Ones, Parity, Sealing
      <4>2. ~(stage[t] \in {2, 3} /\ count[t][1] = 0) /\ ~(stage[t] \in {3, 4} /\ count[t][2] = 0)
        BY <1>3, <3>1, <4>1 DEF IInv, CountsKnown
      <4> QED
        BY <1>1, <4>2 DEF CountsKnown
    <3>2. CASE ~(wstage = 0 /\ Guarded)
      BY <1>1, <2>1, <3>2 DEF CountsKnown
    <3> QED
      BY <3>1, <3>2
  <2> QED
    BY <1>1, <2>5, <2>6, <2>7 DEF IInv, ReadersWait, WritersWait, ReadCorrect
<1> QED
  BY <1>4, <1>5 DEF Upset

\* A read that begins knows nothing yet.
LEMMA ReadBeginKeeps ==
  ASSUME IInv, TypeOK', NEW t \in Threads, ReadBegin(t)
  PROVE  IInv'
<1>1. ReadersWait' /\ WritersWait' /\ FirstCopy' /\ ReadCorrect' /\ Protected'
  BY DEF ReadBegin, IInv, ReadersWait, WritersWait, FirstCopy, ReadCorrect, Protected, TypeOK,
         FinalBitTime, Ones, Parity, Sealing, Counted, Guarded, write
<1>2. ASSUME NEW u \in Threads PROVE CountsKnown(u)'
  BY DEF ReadBegin, CountsKnown, IInv, TypeOK, Guarded, BitTime, write
<1> QED
  BY <1>1, <1>2 DEF IInv

\* A count tells the parity of a copy as it is now.
LEMMA CountBitsKeeps ==
  ASSUME OneReader, IInv, TypeOK', NEW t \in Threads, CountBits(t)
  PROVE  IInv'
<1> DEFINE c == stage[t]
<1>0. wstage = 0 /\ UNCHANGED <<wstage, size, source, counted>> /\ Recoverable
  BY AtRest DEF CountBits, IInv, WritersWait, Copies, write
<1>1. /\ c \in Copies /\ \A u \in Threads : u = t
      /\ UNCHANGED <<taken, ones, parity, initialised, data, sealed, done, clean>>
      /\ stage'[t] = c + 1
      /\ count'[t][c] = BitTime(c) /\ \A d \in Copies : d # c => count'[t][d] = count[t][d]
  BY DEF CountBits, OneReader, IInv, TypeOK
<1>2. ReadersWait' /\ WritersWait' /\ FirstCopy' /\ ReadCorrect' /\ Protected'
  BY <1>0, <1>1 DEF IInv, ReadersWait, WritersWait, FirstCopy, ReadCorrect, Protected, FinalBitTime,
                    Ones, Parity, Sealing, Guarded, Copies
<1>3. BitTime(1) \in {0, 1} /\ BitTime(2) \in {0, 1}
  BY BitTimeType DEF IInv, Copies
<1>4. Guarded => BitTime(1) = 1 \/ BitTime(2) = 1
  BY <1>0 DEF Recoverable, Guarded, Copies
<1>5. BitTime(1)' = BitTime(1) /\ BitTime(2)' = BitTime(2)
  BY <1>1 DEF BitTime
<1>6. CountsKnown(t)'
  <2>1. CASE c = 1
    BY <1>0, <1>1, <1>3, <1>4, <1>5, <2>1 DEF CountsKnown, Guarded, Copies
  <2>2. CASE c = 2
    BY <1>0, <1>1, <1>3, <1>4, <1>5, <2>2 DEF CountsKnown, Guarded, Copies, IInv
  <2> QED
    BY <1>1, <2>1, <2>2 DEF Copies
<1> QED
  BY <1>1, <1>2, <1>6 DEF IInv

\* What is copied onto a spoiled copy is the copy that is not.
LEMMA RestoreKeeps ==
  ASSUME OneReader, IInv, TypeOK', NEW t \in Threads, Restore(t)
  PROVE  IInv'
<1>0. PICK c \in Copies : c = stage[t] - 2
  BY DEF Restore
<1>1. /\ stage[t] = c + 2 /\ 3 - c \in Copies /\ \A u \in Threads : u = t
      /\ UNCHANGED <<taken, initialised, data, sealed, count, clean>>
      /\ stage'[t] = IF c = 1 THEN 4 ELSE 0
      /\ c = 1 => done' = done
      /\ wstage = 0 /\ UNCHANGED <<wstage, size, source, counted>>
  BY <1>0 DEF write, WritersWait, Restore, OneReader, IInv, TypeOK, Copies
<1>2. BitTime(1) \in {0, 1} /\ BitTime(2) \in {0, 1} /\ count[t][1] \in {0, 1} /\ count[t][2] \in {0, 1}
  BY BitTimeType DEF IInv, TypeOK, Copies
<1>7. Recoverable
  BY <1>1, AtRest DEF IInv
<1>8. (Protected' <=> Recoverable') /\ FirstCopy' /\ WritersWait'
  BY <1>1 DEF Protected, FirstCopy, WritersWait, Recoverable, Guarded, FinalBitTime, BitTime, Ones,
              Parity, Sealing
<1>5. taken /\ ~done[t]
  BY <1>1 DEF IInv, ReadersWait, Copies
<1>6. stage'[t] # 0 => ~done'[t]
  BY <1>1, <1>5
<1>3. CASE count[t][c] = 0
  <2>1. /\ ones'[c] = ones[3 - c] /\ parity'[c] = parity[3 - c]
        /\ ones'[3 - c] = ones[3 - c] /\ parity'[3 - c] = parity[3 - c]
    BY <1>0, <1>1, <1>3 DEF Restore, OntoCopy, IInv, TypeOK, Copies
  <2>2. BitTime(c)' = BitTime(3 - c) /\ BitTime(3 - c)' = BitTime(3 - c)
    BY <2>1 DEF BitTime
  <2>3. Guarded => BitTime(3 - c) = 1 /\ ones[3 - c] = data
    BY <1>1, <1>3, <1>7 DEF IInv, CountsKnown, Recoverable, Guarded, Copies
  <2>4. Recoverable'
    BY <1>1, <2>1, <2>2, <2>3 DEF Recoverable, Guarded, Copies
  <2>5. ReadCorrect'
    BY <1>1, <2>1, <2>3 DEF ReadCorrect, Guarded, Copies
  <2>6. CountsKnown(t)'
    <3>1. CASE c = 1
      <4>1. Guarded => count[t][2] = 1
        BY <1>1, <1>2, <1>3, <3>1 DEF IInv, CountsKnown
      <4> QED
        BY <1>1, <2>2, <2>3, <3>1, <4>1 DEF CountsKnown, Guarded
    <3>2. CASE c = 2
      BY <1>1, <3>2 DEF CountsKnown
    <3> QED
      BY <1>1, <3>1, <3>2 DEF Copies
  <2>7. ReadersWait'
    BY <1>1, <1>5, <1>6 DEF ReadersWait, IInv
  <2> QED
    BY <1>1, <1>8, <2>4, <2>5, <2>6, <2>7 DEF IInv
<1>4. CASE count[t][c] # 0
  <2>1. UNCHANGED <<ones, parity>>
    BY <1>0, <1>4 DEF Restore
  <2>2. BitTime(1)' = BitTime(1) /\ BitTime(2)' = BitTime(2)
    BY <2>1 DEF BitTime
  <2>3. Recoverable'
    BY <1>1, <1>7, <2>1, <2>2 DEF Recoverable, Copies
  <2>4. ReadCorrect'
    <3>1. CASE c = 1
      BY <1>1, <1>5, <3>1 DEF ReadCorrect
    <3>2. CASE c = 2
      <4>1. clean[t] /\ Guarded => BitTime(1) = 1
        BY <1>1, <3>2 DEF IInv, CountsKnown
      <4> QED
        BY <1>1, <1>7, <2>1, <4>1 DEF IInv, ReadCorrect, Recoverable, Guarded, Copies
    <3> QED
      BY <3>1, <3>2 DEF Copies
  <2>5. CountsKnown(t)'
    BY <1>1, <1>2, <1>4, <2>2 DEF IInv, CountsKnown, Guarded, Copies
  <2>6. ReadersWait'
    BY <1>1, <1>5, <1>6 DEF ReadersWait, IInv
  <2> QED
    BY <1>1, <1>8, <2>3, <2>4, <2>5, <2>6 DEF IInv
<1> QED
  BY <1>3, <1>4

\* With one reader every step keeps the invariant.
LEMMA NextIInv == OneReader /\ IInv /\ [Next]_vars => IInv'
<1> SUFFICES ASSUME OneReader, IInv, [Next]_vars PROVE IInv'
  OBVIOUS
<1>1. TypeOK'
  BY NextTypeOK DEF IInv
<1>2. CASE MemMalloc \/ MemFree \/ DataBlockInit
  BY <1>1, <1>2, ApplicationKeeps
<1>6. CASE \E n \in Bits : \E new \in SUBSET (1 .. n) : MemWrite(n, new)
  BY <1>1, <1>6, MemWriteKeeps
<1>7. CASE WriteSecond \/ CountFirst \/ Seal
  BY <1>1, <1>7, WritingKeeps
<1>3. CASE \E c \in Copies : Upset(c)
  BY <1>1, <1>3, UpsetKeeps
<1>4. CASE \E t \in Threads : ReadBegin(t) \/ CountBits(t) \/ Restore(t)
  BY <1>1, <1>4, ReadBeginKeeps, CountBitsKeeps, RestoreKeeps
<1>5. CASE UNCHANGED vars
  BY <1>5 DEF vars, write, IInv, TypeOK, ReadersWait, WritersWait, Protected, FirstCopy, ReadCorrect,
              CountsKnown, Guarded, BitTime, FinalBitTime, Ones, Parity, Sealing, Counted
<1> QED
  BY <1>2, <1>3, <1>4, <1>5, <1>6, <1>7 DEF Next

-----------------------------------------------------------------------------
\* Every variable keeps its type, with any number of readers.
THEOREM SeuTypeCorrect == Spec => []TypeOK
<1>1. Init => TypeOK
  BY InitIInv DEF IInv
<1> QED
  BY <1>1, NextTypeOK, PTL DEF Spec

\* The inductive invariant, for one reader.
THEOREM SeuInvariance == ASSUME OneReader PROVE Spec => []IInv
  BY InitIInv, NextIInv, PTL DEF Spec

\* With one reader a sealed block that is not being written always has a copy with
\* an odd number of ones, and such a copy holds the data, unless the first copy was
\* hit between its memcpy and the count of the write that sealed it.
THEOREM StaysRecoverable == ASSUME OneReader PROVE Spec => []Recoverable
<1>1. IInv => Recoverable
  <2>1. CASE wstage = 0
    BY <2>1, AtRest DEF IInv
  <2>2. CASE wstage # 0
    BY <2>2 DEF Recoverable
  <2> QED
    BY <2>1, <2>2
<1> QED
  BY <1>1, SeuInvariance, PTL

\* With one reader a read of such a block that no hit disturbs restores the data,
\* with the same exception.
THEOREM ReadsAreCorrect == ASSUME OneReader PROVE Spec => []ReadCorrect
<1>1. IInv => ReadCorrect
  BY DEF IInv
<1> QED
  BY <1>1, SeuInvariance, PTL

=============================================================================
