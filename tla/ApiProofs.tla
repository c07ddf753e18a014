------------------------------ MODULE ApiProofs ------------------------------
(***************************************************************************)
(* The sizes of memmalloc are right for every size and every width of      *)
(* size_t: a block has room for its copies, and mem_free finds the way     *)
(* back.                                                                   *)
(***************************************************************************)
EXTENDS Api, TLAPS

\* The sizes of the header file that the arithmetic below needs as numbers.
Constants == PAGE_SIZE = 4096 /\ HEADER = 72 /\ SMALL_GAP = 16 /\ SPAN_CLASS_NUM = 256
             /\ SMALL_BLOCK = 4024 /\ LARGE_BLOCK = 1048576

\* A block and its header as mem_malloc made them, and what mem_realloc, which
\* changes only the size asked for, may have made of it.
HeaderOK ==
  /\ block.n \in Nat /\ block.m \in 1 .. SIZE_MAX /\ block.kept \in BOOLEAN
  /\ block = [n |-> block.n, m |-> block.m, kept |-> block.kept,
               block_index |-> BlockIndex(block.m), page_num |-> PageNum(block.m)]

\* A block that no mem_realloc has kept has the size that its call works out.
Fresh == held /\ ~block.kept => block.m = Need(block.n)

\* The inductive invariant.
IInv == HeaderOK /\ Fresh /\ build \in Builds /\ held \in BOOLEAN /\ crashed \in BOOLEAN

\* The assumption on the sizes, in numbers.
LEMMA ConstantValues == Constants
BY DEF Constants, PAGE_SIZE, HEADER, SMALL_GAP, SPAN_CLASS_NUM, SMALL_BLOCK, LARGE_BLOCK

\* A number that fits is not cut.
LEMMA NotCut == ASSUME NEW a \in Nat, NEW s \in Nat, a <= s PROVE a % (s + 1) = a
OBVIOUS

\* A size cut to the width of size_t is in its range.
LEMMA CutRange == ASSUME NEW a \in Nat, NEW s \in Nat PROVE a % (s + 1) \in 0 .. s
OBVIOUS

\* A class holds what it is asked for, and so does a span.
LEMMA ClassHolds ==
  ASSUME NEW m \in Nat, m > 0, m <= 4024
  PROVE  /\ (m - 1) \div 16 \in 0 .. 251
         /\ ((m - 1) \div 16 + 1) * 16 >= m
OBVIOUS

\* A large block's span has 2 to 257 pages and holds the block after its header.
LEMMA SpanHolds ==
  ASSUME NEW m \in Nat, m > 4024, m <= 1048576
  PROVE  /\ (m + 72) \div 4096 + 1 \in 2 .. 257
         /\ ((m + 72) \div 4096 + 1) * 4096 - 72 >= m
OBVIOUS


-----------------------------------------------------------------------------
(* What a header says *)

\* The three kinds of header.
LEMMA HeaderKinds ==
  ASSUME NEW m \in Nat
  PROVE  /\ m <= 4024 => BlockIndex(m) = (m - 1) \div 16 /\ PageNum(m) = 1
         /\ m > 4024 => BlockIndex(m) = -1
         /\ m > 4024 /\ m <= 1048576 => PageNum(m) = (m + 72) \div 4096 + 1
         /\ m > 1048576 => PageNum(m) = 0
<1>1. m > 4024 => ~(m <= 4024)
  OBVIOUS
<1>2. m > 1048576 => ~(m <= 4024) /\ ~(m <= 1048576)
  OBVIOUS
<1> QED
  BY <1>1, <1>2, ConstantValues DEF BlockIndex, PageNum, size_cls, SpanPages, Constants

\* The class and the pages that mem_malloc works out from a size stay in range.
LEMMA KindRange ==
  ASSUME NEW m \in Nat, m > 0
  PROVE  BlockIndex(m) \in -1 .. 251 /\ PageNum(m) \in 0 .. 257
<1>1. CASE m <= 4024
  BY <1>1, HeaderKinds, ClassHolds
<1>2. CASE m > 4024 /\ m <= 1048576
  BY <1>2, HeaderKinds, SpanHolds
<1>3. CASE m > 1048576
  BY <1>3, HeaderKinds
<1> QED
  BY <1>1, <1>2, <1>3

\* The same of the block, whatever mem_realloc did to it.
LEMMA BlockKinds ==
  ASSUME HeaderOK
  PROVE  /\ block.n \in Nat /\ block.m \in Nat /\ block.m > 0 /\ block.m \in 1 .. SIZE_MAX /\ block.kept \in BOOLEAN
         /\ block.block_index = BlockIndex(block.m) /\ block.page_num = PageNum(block.m)
<1>1. /\ block.n \in Nat /\ block.m \in 1 .. SIZE_MAX /\ block.kept \in BOOLEAN
      /\ block = [n |-> block.n, m |-> block.m, kept |-> block.kept,
                  block_index |-> BlockIndex(block.m), page_num |-> PageNum(block.m)]
  BY DEF HeaderOK
<1>2. SIZE_MAX \in Nat
  BY ApiAssumption
<1> QED
  BY <1>1, <1>2

\* The types of the block's fields follow from the header being the right one.
LEMMA BlockType ==
  ASSUME HeaderOK
  PROVE  block \in [n : Nat, m : 1 .. SIZE_MAX, kept : BOOLEAN, block_index : -1 .. 251,
                    page_num : 0 .. 257]
<1>1. BlockIndex(block.m) \in -1 .. 251 /\ PageNum(block.m) \in 0 .. 257
  BY BlockKinds, KindRange
<1>2. block = [n |-> block.n, m |-> block.m, kept |-> block.kept,
               block_index |-> BlockIndex(block.m), page_num |-> PageNum(block.m)]
  BY DEF HeaderOK
<1> QED
  BY <1>1, <1>2, BlockKinds

\* The bytes of a block with a header are at least those mem_malloc asked for.
LEMMA BytesHold ==
  ASSUME NEW b, b.m \in Nat, b.m > 0,
         b.block_index = BlockIndex(b.m), b.page_num = PageNum(b.m), b.page_num # 0
  PROVE  Bytes(b) \in Nat /\ Bytes(b) >= b.m
<1> DEFINE m == b.m
<1>1. m \in Nat
  OBVIOUS
<1>2. Bytes(b) = IF BlockIndex(m) # -1 THEN (BlockIndex(m) + 1) * 16
                 ELSE PageNum(m) * 4096 - 72
  BY ConstantValues DEF Bytes, Constants
<1> HIDE DEF m
<1>3. CASE m <= 4024
  <2>1. BlockIndex(m) = (m - 1) \div 16 /\ PageNum(m) = 1
    BY <1>1, <1>3, HeaderKinds
  <2>2. (m - 1) \div 16 \in 0 .. 251 /\ ((m - 1) \div 16 + 1) * 16 >= m
    BY <1>1, <1>3, ClassHolds DEF m
  <2>3. BlockIndex(m) \in 0 .. 251 /\ (BlockIndex(m) + 1) * 16 >= m /\ PageNum(m) # 0
    BY <2>1, <2>2
  <2> QED
    BY <1>1, <1>2, <2>3 DEF m
<1>4. CASE m > 4024 /\ m <= 1048576
  <2>1. BlockIndex(m) = -1 /\ PageNum(m) = (m + 72) \div 4096 + 1
    BY <1>1, <1>4, HeaderKinds
  <2>2. (m + 72) \div 4096 + 1 \in 2 .. 257 /\ ((m + 72) \div 4096 + 1) * 4096 - 72 >= m
    BY <1>1, <1>4, SpanHolds
  <2> QED
    BY <1>2, <2>1, <2>2 DEF m
<1>5. CASE m > 1048576
  BY <1>1, <1>5, HeaderKinds DEF m
<1> QED
  BY <1>1, <1>3, <1>4, <1>5

-----------------------------------------------------------------------------
(* The invariant *)

\* The copies of the three builds.
LEMMA BuildCopies ==
  ASSUME build \in Builds
  PROVE  \/ build = "plain" /\ Copies = 1 /\ Parity = 0
         \/ build = "TMR" /\ Copies = 3 /\ Parity = 0
         \/ build = "SEU" /\ Copies = 2 /\ Parity = 1
BY ApiAssumption DEF Copies, Parity

\* What a call asks for, cut to size_t, and unchanged unless it wraps around.
LEMMA NeedRange ==
  ASSUME build \in Builds, NEW n \in Nat
  PROVE  /\ Asked(n) \in Nat
         /\ Need(n) \in 0 .. SIZE_MAX
         /\ ~Wraps(n) => Need(n) = Asked(n)
<1>1. Asked(n) \in Nat
  BY BuildCopies DEF Asked
<1>2. SIZE_MAX \in Nat
  BY ApiAssumption
<1>3. Need(n) = Asked(n) % (SIZE_MAX + 1)
  BY DEF Need
<1> QED
  BY <1>1, <1>2, <1>3, NotCut, CutRange DEF Wraps

\* Whatever asks for a block gets a good one, or the process ends.
LEMMA NewBlockOK ==
  ASSUME IInv, NEW n \in Nat, NewBlock(n)
  PROVE  IInv'
<1> DEFINE m == Need(n)
<1>1. m \in 0 .. SIZE_MAX /\ (~Wraps(n) => m = Asked(n))
  BY NeedRange DEF IInv
<1>2. build' = build /\ n > 0
  BY DEF NewBlock
<1>3. CASE Need(n) = 0
  <2>1. block' = block /\ held' = held /\ crashed' = TRUE
    BY <1>3 DEF NewBlock
  <2> QED
    BY <2>1, <1>2 DEF IInv, HeaderOK, Fresh, Need, Asked, Copies, Parity
<1>4. CASE m # 0
  <2>1. block' = Header(n, m) /\ held' = TRUE /\ crashed' = crashed
    BY <1>4 DEF NewBlock
  <2> HIDE DEF m
  <2>2. /\ block'.n = n /\ block'.m = m /\ block'.kept = FALSE
        /\ block'.block_index = BlockIndex(m) /\ block'.page_num = PageNum(m)
    BY <2>1 DEF Header
  <2>3. HeaderOK'
    BY <1>1, <1>4, <2>1, <2>2, ApiAssumption DEF HeaderOK, Header
  <2>4. Fresh'
    BY <1>2, <2>1, <2>2 DEF Fresh, m, Need, Asked, Copies, Parity
  <2> QED
    BY <1>2, <2>1, <2>3, <2>4 DEF IInv
<1> QED
  BY <1>3, <1>4

\* mem_realloc keeps a block as it is, whatever it promises.
LEMMA KeepOK ==
  ASSUME IInv, NEW n \in Nat, ReallocKeep(n)
  PROVE  IInv'
<1>1. /\ n > 0 /\ held /\ build' = build /\ held' = held /\ crashed' = crashed
      /\ n > LARGE_BLOCK \/ block.page_num # 0
      /\ Keeps(block, n)
      /\ block' = [block EXCEPT !.n = n, !.kept = TRUE]
  BY DEF ReallocKeep, Compares
<1>2. HeaderOK
  BY DEF IInv
<1>3. block' = [n |-> n, m |-> block.m, kept |-> TRUE,
                block_index |-> BlockIndex(block.m), page_num |-> PageNum(block.m)]
  <2>1. block \in [n : Nat, m : 1 .. SIZE_MAX, kept : BOOLEAN, block_index : -1 .. 251,
                   page_num : 0 .. 257]
    BY <1>2, BlockType
  <2>2. block.block_index = BlockIndex(block.m) /\ block.page_num = PageNum(block.m)
    BY <1>2, BlockKinds
  <2>3. block' = [n |-> n, m |-> block.m, kept |-> TRUE,
                  block_index |-> block.block_index, page_num |-> block.page_num]
    BY <1>1, <2>1
  <2> QED
    BY <2>2, <2>3
<1>4. HeaderOK'
  BY <1>2, <1>3, BlockKinds DEF HeaderOK
<1>5. Fresh'
  BY <1>3 DEF Fresh
<1> QED
  BY <1>1, <1>4, <1>5 DEF IInv

\* The invariant holds at the start.
LEMMA InitOK == Init => IInv
<1> SUFFICES ASSUME Init PROVE IInv
  OBVIOUS
<1>1. build \in Builds /\ block = Header(1, 1) /\ held = FALSE /\ crashed = FALSE
  BY DEF Init
<1>2. /\ block.n = 1 /\ block.m = 1 /\ block.kept = FALSE
      /\ block = [n |-> 1, m |-> 1, kept |-> FALSE, block_index |-> BlockIndex(1),
                  page_num |-> PageNum(1)]
  BY <1>1 DEF Header
<1>3. HeaderOK
  BY <1>2, ApiAssumption, ConstantValues DEF HeaderOK, Constants
<1> QED
  BY <1>1, <1>3 DEF IInv, Fresh

\* Every call keeps the invariant.
LEMMA StepOK == IInv /\ [Next]_vars => IInv'
<1> SUFFICES ASSUME IInv, [Next]_vars PROVE IInv'
  OBVIOUS
<1> USE DEF IInv
<1>0. \A n \in Sizes : n \in Nat
  BY ApiAssumption
<1>1. CASE \E n \in Sizes : MemMalloc(n)
  BY <1>0, <1>1, NewBlockOK DEF MemMalloc
<1>2. CASE \E num \in {2, 3}, n \in Sizes : MemCalloc(num, n)
  <2>1. PICK num \in {2, 3}, n \in Sizes : MemCalloc(num, n)
    BY <1>2
  <2>2. num * n \in Nat
    BY <1>0
  <2> QED
    BY <2>1, <2>2, NewBlockOK DEF MemCalloc, MemMalloc
<1>3. CASE MemFree \/ \E n \in Sizes : ReallocCrash(n)
  <2>1. block' = block /\ build' = build /\ held' \in BOOLEAN /\ (held' => held)
        /\ crashed' \in BOOLEAN
    BY <1>3 DEF MemFree, ReallocCrash
  <2> QED
    BY <2>1 DEF HeaderOK, Fresh, Need, Asked, Copies, Parity
<1>4. CASE \E n \in Sizes : ReallocKeep(n)
  BY <1>0, <1>4, KeepOK
<1>5. CASE \E n \in Sizes : ReallocMove(n)
  BY <1>0, <1>5, NewBlockOK DEF ReallocMove
<1>6. CASE UNCHANGED vars
  BY <1>6 DEF vars, HeaderOK, Fresh, Need, Asked, Copies, Parity
<1> QED
  BY <1>1, <1>2, <1>3, <1>4, <1>5, <1>6 DEF Next, MemRealloc, ReallocFree

-----------------------------------------------------------------------------
\* Headers say what mem_malloc did, for every build, size and width of size_t.
THEOREM ApiInvariance == Spec => []IInv
BY InitOK, StepOK, PTL DEF Spec

\* The block and its header keep their types.
THEOREM ApiTypeCorrect == Spec => []TypeOK
<1>1. IInv => TypeOK
  <2> SUFFICES ASSUME IInv PROVE TypeOK
    OBVIOUS
  <2>1. HeaderOK
    BY DEF IInv
  <2> QED
    BY <2>1, BlockType, ConstantValues DEF IInv, TypeOK, Constants
<1> QED
  BY <1>1, ApiInvariance, PTL

\* Every copy fits into the small or large block that a call returns.
THEOREM CopiesFit == Spec => []RoomForCopies
<1>1. IInv => RoomForCopies
  <2> SUFFICES ASSUME IInv, held, ~block.kept, ~Wraps(block.n), block.page_num # 0
               PROVE  CopySize(block) >= block.n + Parity
    BY DEF RoomForCopies
  <2>1. HeaderOK
    BY DEF IInv
  <2>2. /\ block.n \in Nat /\ block.m \in Nat /\ block.m > 0
        /\ block.block_index = BlockIndex(block.m) /\ block.page_num = PageNum(block.m)
    BY <2>1, BlockKinds
  <2>3. block.m = Asked(block.n)
    BY <2>2, NeedRange DEF IInv, Fresh
  <2>4. Bytes(block) \in Nat /\ Bytes(block) >= (block.n + Parity) * Copies
    BY <2>2, <2>3, BytesHold DEF Asked
  <2>5. \/ Copies = 1 /\ Parity = 0
        \/ Copies = 3 /\ Parity = 0
        \/ Copies = 2 /\ Parity = 1
    <3>1. build \in Builds
      BY DEF IInv
    <3> QED
      BY <3>1, BuildCopies
  <2>6. CopySize(block) = Bytes(block) \div Copies
    BY DEF CopySize
  <2> HIDE DEF IInv, HeaderOK
  <2> QED
    BY <2>2, <2>4, <2>5, <2>6
<1> QED
  BY <1>1, ApiInvariance, PTL

\* A freed block goes back to the allocator it came from.
THEOREM FreesMatch == Spec => []FreeMatches
<1>1. IInv => FreeMatches
  <2> SUFFICES ASSUME IInv PROVE FreeMatches
    OBVIOUS
  <2> DEFINE m == block.m
  <2>1. m \in Nat /\ m > 0 /\ block.page_num = PageNum(m)
    BY BlockKinds DEF IInv
  <2>2. /\ m <= 4024 => PageNum(m) = 1
        /\ m > 4024 /\ m <= 1048576 => PageNum(m) \in 2 .. 257
        /\ m > 1048576 => PageNum(m) = 0
    BY <2>1, HeaderKinds, SpanHolds
  <2>3. /\ Routed(block) = IF PageNum(m) = 0 THEN "huge" ELSE IF PageNum(m) = 1 THEN "small"
                           ELSE IF PageNum(m) <= 256 THEN "large" ELSE "none"
        /\ Routing(m) = IF m <= 4024 THEN "small" ELSE IF m <= 1048576 THEN "large" ELSE "huge"
    BY <2>1, ConstantValues DEF Routed, Routing, Constants
  <2> HIDE DEF m
  <2>4. Routed(block) = IF PageNum(m) = 257 THEN "none" ELSE Routing(m)
    <3>1. CASE m <= 4024
      BY <2>1, <2>2, <2>3, <3>1
    <3>2. CASE m > 4024 /\ m <= 1048576
      BY <2>1, <2>2, <2>3, <3>2
    <3>3. CASE m > 1048576
      BY <2>1, <2>2, <2>3, <3>3
    <3> QED
      BY <2>1, <3>1, <3>2, <3>3
  <2> QED
    BY <2>1, <2>4, ConstantValues DEF FreeMatches, Constants, m
<1> QED
  BY <1>1, ApiInvariance, PTL

=============================================================================
