---------------------------- MODULE TrSizesProofs ----------------------------
(***************************************************************************)
(* Proofs about TrSizes, for requests of any size and mappings at any      *)
(* page: maps_init makes no class too many and every size gets the least   *)
(* class that holds it; the header of a block is found from its address;   *)
(* the copies of a small block lie inside it.                              *)
(*                                                                         *)
(* The tables: sizes of classes grow by 8 at least, and by 512 from 1024   *)
(* on, which are the steps of the two maps; so class, which moves on by    *)
(* one at most at each step, never falls behind.  The blocks: the i-th     *)
(* block of a chunk starts i sizes after the header, so the remainder that *)
(* TR_Write and TR_Read take is the distance from the start of the block.  *)
(***************************************************************************)
EXTENDS TrSizes, TLAPS

\* The constants, evaluated.
LEMMA Constants == /\ HEADER = 96 /\ PAGE_SIZE = 4096 /\ CHUNK_DATA_SIZE = 65536
                   /\ CHUNK_SIZE = 65632 /\ DEFAULT_BLOCK_CLASS = 48 /\ MAP_SIZE = 128
  BY DEF HEADER, PAGE_SIZE, CHUNK_DATA_SIZE, CHUNK_SIZE, DEFAULT_BLOCK_CLASS, MAP_SIZE

\* The ranges of the tables.
LEMMA ClassRange == /\ \A c \in Int : c \in Classes <=> 0 <= c /\ c <= 47
                    /\ \A c \in Classes : c \in Int
  BY DEF Classes, DEFAULT_BLOCK_CLASS

\* The entries of the two tables, as bounds.
LEMMA EntryRange == /\ \A j \in Int : j \in Entries <=> 0 <= j /\ j <= 127
                    /\ \A j \in Entries : j \in Int
  BY DEF Entries, MAP_SIZE

\* The sizes of blocks, as bounds.
LEMMA SizeRange == /\ \A z \in Int : z \in BlockSizes <=> 0 <= z /\ z <= 65536
                   /\ \A z \in BlockSizes : z \in Int
<1>1. CHUNK_DATA_SIZE = 65536
  BY Constants
<1>2. \A z \in Int : z \in 0 .. 65536 <=> 0 <= z /\ z <= 65536
  OBVIOUS
<1> QED
  BY <1>1, <1>2 DEF BlockSizes

\* The ranges of the tables and classes, as bounds.
LEMMA Ranges == /\ \A c \in Int : c \in Classes <=> 0 <= c /\ c <= 47
                /\ \A j \in Int : j \in Entries <=> 0 <= j /\ j <= 127
                /\ \A z \in Int : z \in BlockSizes <=> 0 <= z /\ z <= 65536
                /\ Classes \subseteq Int /\ Entries \subseteq Int /\ BlockSizes \subseteq Int
  BY ClassRange, EntryRange, SizeRange

\* Remainders: an offset into a block, into a chunk, and the last block of a chunk.
LEMMA InBlock == ASSUME NEW i \in Nat, NEW s \in Nat \ {0}, NEW o \in 0 .. s - 1
                 PROVE  (i * s + o) % s = o
  OBVIOUS

\* What division with a remainder says.
LEMMA Division == ASSUME NEW x \in Nat, NEW s \in Nat \ {0}
                  PROVE  /\ x \div s \in Nat /\ x % s \in 0 .. s - 1
                         /\ x = (x \div s) * s + (x % s)
  OBVIOUS

\* Under a multiple of c, a remainder by c gives back the offset.
LEMMA InMultiple == ASSUME NEW c \in Nat \ {0}, NEW a \in Nat, a % c = 0, NEW x \in 0 .. c - 1
                    PROVE  (a + x) % c = x
<1>1. PICK q \in Nat : a = q * c
  <2>1. a = (a \div c) * c + (a % c) /\ a \div c \in Nat
    BY Division
  <2>2. (a \div c) * c \in Nat
    BY <2>1
  <2>3. a = (a \div c) * c
    BY <2>1, <2>2
  <2> QED
    BY <2>1, <2>3
<1>2. (q * c + x) % c = x
  BY InBlock
<1> QED
  BY <1>1, <1>2

\* Any address in a chunk leads to the chunk's header.
LEMMA InChunk == ASSUME NEW a \in Nat, a % CHUNK_SIZE = 0, NEW x \in 0 .. CHUNK_SIZE - 1
                 PROVE  HeaderOf(a + x) = a
<1>1. CHUNK_SIZE \in Nat \ {0}
  BY Constants
<1>2. (a + x) % CHUNK_SIZE = x
  BY <1>1, InMultiple
<1> QED
  BY <1>1, <1>2 DEF HeaderOf

\* Rounding up gives a multiple of CHUNK_SIZE that is less than a chunk further.
LEMMA Multiple == ASSUME NEW s \in Nat
                  PROVE  /\ RoundUp(s) \in Nat /\ RoundUp(s) % CHUNK_SIZE = 0
                         /\ s <= RoundUp(s) /\ RoundUp(s) < s + 65632
  BY Constants DEF RoundUp

\* The last of the blocks that a chunk is cut into ends inside it.
LEMMA LastFits == ASSUME NEW m \in Nat, NEW s \in 1 .. m
                  PROVE  /\ m \div s \in Nat \ {0}
                         /\ (m \div s - 1) * s + s <= m
<1>1. PICK q \in Nat, r \in 0 .. s - 1 : m \div s = q /\ m = q * s + r
  BY Division
<1>2. q # 0
  BY <1>1
<1>3. (q - 1) * s + s = q * s
  OBVIOUS
<1>4. q * s <= m
  <2>1. q * s \in Nat
    OBVIOUS
  <2> QED
    BY <1>1, <2>1
<1> QED
  BY <1>1, <1>2, <1>3, <1>4

-----------------------------------------------------------------------------
(* The invariant. *)

\* What is true of the size of every class, and of two that follow each other.
Good(z)   == z \in Int /\ 16 <= z /\ z <= 65536 /\ z % 8 = 0 /\ (z >= 1024 => z % 512 = 0)
Gap(y, z) == y + 8 <= z /\ (y >= 1024 => y + 512 <= z)

\* In a table f the classes below k have their sizes.
Filled(f, k) == /\ \A c \in 0 .. k - 1 : Good(f[c])
                /\ \A c \in 0 .. k - 2 : Gap(f[c], f[c + 1])

\* Where the second loop can be at the start of a turn.
HalfWay == <<class, size>> \in {<<31, 256>>, <<33, 512>>, <<35, 1024>>, <<37, 2048>>, <<39, 4096>>,
                                <<41, 8192>>, <<43, 16384>>, <<45, 32768>>, <<47, 65536>>}

\* How far maps_init has filled cls2size.
BuildInv ==
  /\ loop = "by8" => /\ class \in 0 .. 31 /\ size = 16 + 8 * class /\ Filled(cls2size, class)
                      /\ (class > 0 => cls2size[class - 1] = size - 8)
  /\ loop = "byHalf" => HalfWay /\ Filled(cls2size, class) /\ cls2size[class - 1] = size
  /\ loop \in {"map", "map2", "done"} => Filled(cls2size, 47) /\ cls2size[46] = 65536

\* In the table t, c is the least class that holds m.
Least(t, c, m) == t[c] >= m /\ (c > 0 => t[c - 1] < m)

\* The entries of f for sizes up to m are right.
Mapped(t, f, m)  == \A j \in 0 .. 127 : 8 * (j + 1) <= m => Least(t, f[j], 8 * (j + 1))
Mapped2(t, f, m) == \A j \in 2 .. 127 : 512 * (j + 1) <= m => Least(t, f[j], 512 * (j + 1))

\* How far it has filled sizemap and sizemap2: every entry has the least class.
MapInv ==
  /\ loop = "map" => /\ class \in 0 .. 46 /\ size \in 8 .. 1032 /\ size % 8 = 0
                     /\ Least(cls2size, class, size - 8) /\ Mapped(cls2size, sizemap, size - 8)
  /\ loop = "map2" => /\ class \in 0 .. 46
                      /\ size \in Int /\ 1024 <= size /\ size <= 66048 /\ size % 512 = 0
                      /\ cls2size[class] >= 1024
                      /\ Least(cls2size, class, IF size = 1024 THEN 1024 ELSE size - 512)
                      /\ Mapped(cls2size, sizemap, 1024)
                      /\ Mapped2(cls2size, sizemap2, size - 512)
  /\ loop = "done" => Mapped(cls2size, sizemap, 1024) /\ Mapped2(cls2size, sizemap2, 65536)

\* Where a small block lies in its chunk.
SmallBlock ==
  /\ blk.from = Chunk /\ blk.to = Chunk + CHUNK_SIZE
  /\ blk.size \in Nat \ {0} /\ Asked(blk.n) <= blk.size
  /\ \E i \in Nat : /\ blk.addr = Chunk + HEADER + i * blk.size
                    /\ i * blk.size + blk.size <= CHUNK_DATA_SIZE

\* Where a large block lies in its mapping.
LargeBlock ==
  /\ blk.from \in Nat /\ blk.to = blk.from + blk.size
  /\ blk.size = Asked(blk.n) + HEADER + CHUNK_SIZE
  /\ blk.addr = RoundUp(blk.from) + HEADER

\* The block is where its allocation put it, and the copies are stretches of it, apart.
BlkInv ==
  /\ blk # NoBlock => /\ blk.n \in Nat /\ blk.large \in BOOLEAN
                      /\ IF blk.large THEN LargeBlock ELSE SmallBlock
  /\ \A r \in touched : r[1] >= blk.addr /\ r[2] < blk.addr + blk.size
  /\ \A r, s \in touched : r # s => r[2] < s[1] \/ s[2] < r[1]

\* The inductive invariant.
IInv == TypeOK /\ BuildInv /\ MapInv /\ BlkInv

-----------------------------------------------------------------------------
\* The loops of maps_init keep the invariant.
LEMMA InitInv == Init => IInv
<1> SUFFICES ASSUME Init PROVE IInv
  OBVIOUS
<1>1. TypeOK
  BY Constants, Ranges DEF Init, TypeOK
<1>2. BuildInv
  BY DEF Init, BuildInv, Filled
<1>3. MapInv
  BY DEF Init, MapInv
<1>4. BlkInv
  BY DEF Init, BlkInv
<1> QED
  BY <1>1, <1>2, <1>3, <1>4 DEF IInv

\* What the loops do not touch.
LEMMA BlkSame == IInv /\ UNCHANGED <<blk, touched>> => BlkInv'
<1> SUFFICES ASSUME BlkInv, blk' = blk, touched' = touched PROVE BlkInv'
  BY DEF IInv
<1>1. SmallBlock' <=> SmallBlock
  BY DEF SmallBlock
<1>2. LargeBlock' <=> LargeBlock
  BY DEF LargeBlock
<1> QED
  BY <1>1, <1>2 DEF BlkInv

\* A turn of the first loop of maps_init.
LEMMA By8Inv == IInv /\ By8 => IInv'
<1> SUFFICES ASSUME IInv, By8 PROVE IInv'
  OBVIOUS
<1>1. class \in 0 .. 30 /\ size = 16 + 8 * class
  <2>1. loop = "by8" /\ size <= 256
    BY DEF By8
  <2> QED
    BY <2>1 DEF IInv, BuildInv
<1>2. /\ loop' = "by8" /\ class' = class + 1 /\ size' = size + 8
      /\ cls2size'[class] = size
      /\ \A c \in 0 .. class - 1 : cls2size'[c] = cls2size[c]
  <2>1. cls2size \in [Classes -> BlockSizes] /\ class \in Classes
    BY <1>1, Ranges DEF IInv, TypeOK
  <2>2. loop' = "by8" /\ class' = class + 1 /\ size' = size + 8
    BY DEF By8
  <2>3. cls2size' = [cls2size EXCEPT ![class] = size]
    BY DEF By8
  <2>4. \A c \in 0 .. class - 1 : c \in Classes /\ c # class
    BY <1>1, Ranges
  <2> QED
    BY <2>1, <2>2, <2>3, <2>4
<1>3. TypeOK'
  BY <1>1, Ranges, Constants DEF IInv, TypeOK, By8
<1>4. Good(size)
  BY <1>1 DEF Good
<1>5. Filled(cls2size', class + 1)
  <2>1. Filled(cls2size, class) /\ (class > 0 => cls2size[class - 1] = size - 8)
    <3>1. loop = "by8"
      BY DEF By8
    <3> QED
      BY <3>1 DEF IInv, BuildInv
  <2>2. ASSUME NEW c \in 0 .. class PROVE Good(cls2size'[c])
    BY <1>1, <1>2, <1>4, <2>1 DEF Filled
  <2>3. ASSUME NEW c \in 0 .. class - 1 PROVE Gap(cls2size'[c], cls2size'[c + 1])
    <3>1. CASE c = class - 1
      BY <1>1, <1>2, <2>1, <3>1 DEF Gap
    <3>2. CASE c < class - 1
      BY <1>1, <1>2, <2>1, <3>2 DEF Filled
    <3> QED
      BY <1>1, <3>1, <3>2
  <2> QED
    BY <1>1, <2>2, <2>3 DEF Filled
<1>6. BuildInv'
  BY <1>1, <1>2, <1>5 DEF BuildInv
<1>7. MapInv' /\ BlkInv'
  BY <1>2, BlkSame DEF MapInv, By8
<1> QED
  BY <1>3, <1>6, <1>7 DEF IInv

\* The classes between the powers of two.
LEMMA ByHalfInv == IInv /\ ByHalf => IInv'
<1> SUFFICES ASSUME IInv, ByHalf PROVE IInv'
  OBVIOUS
<1>1. /\ class \in 31 .. 45 /\ size \in 256 .. 32768 /\ Filled(cls2size, class)
      /\ cls2size[class - 1] = size
      /\ size \in {256, 512, 1024, 2048, 4096, 8192, 16384, 32768}
      /\ <<class + 2, size * 2>> \in {<<33, 512>>, <<35, 1024>>, <<37, 2048>>, <<39, 4096>>,
                                      <<41, 8192>>, <<43, 16384>>, <<45, 32768>>, <<47, 65536>>}
  BY DEF IInv, BuildInv, HalfWay, ByHalf, Below
<1>2. /\ Good(size + size \div 2) /\ Good(size * 2)
      /\ Gap(size, size + size \div 2) /\ Gap(size + size \div 2, size * 2)
  <2>1. \E h \in {128, 256, 512, 1024, 2048, 4096, 8192, 16384} : size = 2 * h /\ size \div 2 = h
    BY <1>1
  <2>2. PICK h \in {128, 256, 512, 1024, 2048, 4096, 8192, 16384} : size = 2 * h /\ size \div 2 = h
    BY <2>1
  <2>3. Good(3 * h) /\ Good(4 * h) /\ Gap(2 * h, 3 * h) /\ Gap(3 * h, 4 * h)
    BY <2>2 DEF Good, Gap
  <2>4. size + size \div 2 = 3 * h /\ size * 2 = 4 * h /\ size = 2 * h
    BY <2>2
  <2> QED
    BY <2>3, <2>4
<1>3. /\ loop' = "byHalf" /\ class' = class + 2 /\ size' = size * 2
      /\ cls2size'[class] = size + size \div 2 /\ cls2size'[class + 1] = size * 2
      /\ \A c \in 0 .. class - 1 : cls2size'[c] = cls2size[c]
  BY <1>1, Ranges DEF IInv, TypeOK, ByHalf
<1>4. TypeOK'
  BY <1>1, Ranges, Constants DEF IInv, TypeOK, ByHalf
<1>5. Filled(cls2size', class + 2)
  <2>1. ASSUME NEW c \in 0 .. class + 1 PROVE Good(cls2size'[c])
    BY <1>1, <1>2, <1>3 DEF Filled
  <2>2. ASSUME NEW c \in 0 .. class PROVE Gap(cls2size'[c], cls2size'[c + 1])
    <3>1. CASE c \in {class - 1, class}
      BY <1>1, <1>2, <1>3, <3>1
    <3>2. CASE c < class - 1
      BY <1>1, <1>3, <3>2 DEF Filled
    <3> QED
      BY <1>1, <3>1, <3>2
  <2> QED
    BY <1>1, <2>1, <2>2 DEF Filled
<1>6. BuildInv'
  BY <1>1, <1>3, <1>5 DEF BuildInv, HalfWay
<1>7. MapInv' /\ BlkInv'
  BY <1>3, BlkSame DEF MapInv, ByHalf
<1> QED
  BY <1>4, <1>6, <1>7 DEF IInv

\* What filled tables say of a class and of two that follow each other.
LEMMA FilledFacts ==
  Filled(cls2size, 47) => /\ \A c \in 0 .. 46 : cls2size[c] \in Int /\ 16 <= cls2size[c]
                          /\ \A c \in 0 .. 45 : Gap(cls2size[c], cls2size[c + 1])
<1>1. \A z : Good(z) => z \in Int /\ 16 <= z
  BY DEF Good
<1> QED
  BY <1>1 DEF Filled

\* One turn of either loop finds the least class for size, d above the last one.
LEMMA ReachedLeast ==
  ASSUME Filled(cls2size, 47), cls2size[46] = 65536, class \in 0 .. 46,
         size \in Nat, 0 < size, size <= 65536,
         NEW d \in Nat, Least(cls2size, class, size - d),
         d <= 8 \/ (cls2size[class] >= 1024 /\ d <= 512)
  PROVE  Reached \in 0 .. 46 /\ Least(cls2size, Reached, size)
<1>1. cls2size[class] \in Int
  BY FilledFacts
<1>2. CASE size > cls2size[class]
  <2>1. class \in 0 .. 45 /\ Reached = class + 1
    BY <1>1, <1>2 DEF Reached
  <2>2. Gap(cls2size[class], cls2size[class + 1]) /\ cls2size[class + 1] \in Int
    BY <2>1, FilledFacts
  <2>3. cls2size[class + 1] >= size
    BY <1>1, <2>2 DEF Gap, Least
  <2> QED
    BY <1>1, <1>2, <2>1, <2>3 DEF Least
<1>3. CASE ~(size > cls2size[class])
  <2>1. Reached = class
    BY <1>3 DEF Reached
  <2>2. class > 0 => cls2size[class - 1] \in Int /\ cls2size[class - 1] < size - d
    BY FilledFacts DEF Least
  <2> QED
    BY <1>1, <1>3, <2>1, <2>2 DEF Least
<1> QED
  BY <1>2, <1>3

\* A turn of the loop that fills sizemap.
LEMMA MapStepInv == IInv /\ Map => IInv'
<1> SUFFICES ASSUME IInv, Map PROVE IInv'
  OBVIOUS
<1>1. loop = "map" /\ size <= 1024
  BY DEF Map
<1>2. /\ class \in 0 .. 46 /\ size \in 8 .. 1024 /\ size % 8 = 0
      /\ Least(cls2size, class, size - 8) /\ Mapped(cls2size, sizemap, size - 8)
      /\ Filled(cls2size, 47) /\ cls2size[46] = 65536
  BY <1>1 DEF IInv, BuildInv, MapInv
<1>3. Reached \in 0 .. 46 /\ Least(cls2size, Reached, size)
  BY <1>2, ReachedLeast
<1>4. PICK k \in 0 .. 127 : size = 8 * (k + 1) /\ (size - 1) \div 8 = k
  BY <1>2
<1>5. /\ loop' = "map" /\ size' = size + 8 /\ class' = Reached
      /\ cls2size' = cls2size /\ sizemap2' = sizemap2
      /\ sizemap' = [sizemap EXCEPT ![k] = Reached]
  BY <1>1, <1>4 DEF Map
<1>6. /\ sizemap \in [Entries -> Classes] /\ k \in Entries /\ Reached \in Classes
      /\ \A j \in 0 .. 127 : j \in Entries
  BY <1>3, Ranges DEF IInv, TypeOK
<1>7. TypeOK'
  BY <1>2, <1>3, <1>5, <1>6, Constants DEF IInv, TypeOK
<1>8. Mapped(cls2size', sizemap', size)
  <2> SUFFICES ASSUME NEW j \in 0 .. 127, 8 * (j + 1) <= size
               PROVE  Least(cls2size, sizemap'[j], 8 * (j + 1))
    BY <1>5 DEF Mapped
  <2>1. CASE j = k
    BY <1>3, <1>4, <1>5, <1>6, <2>1
  <2>2. CASE j # k
    <3>1. 8 * (j + 1) <= size - 8
      BY <1>4, <2>2
    <3>2. sizemap'[j] = sizemap[j]
      BY <1>5, <1>6, <2>2
    <3> QED
      BY <1>2, <3>1, <3>2 DEF Mapped
  <2> QED
    BY <2>1, <2>2
<1>9. size' - 8 = size /\ size' % 8 = 0 /\ size' \in 8 .. 1032
  BY <1>2, <1>5
<1>10. MapInv'
  BY <1>3, <1>5, <1>8, <1>9 DEF MapInv
<1>11. BuildInv'
  BY <1>2, <1>5 DEF BuildInv
<1> QED
  BY <1>7, <1>10, <1>11, BlkSame DEF IInv, Map

\* A turn of the loop that fills sizemap2.
LEMMA Map2StepInv == IInv /\ Map2 => IInv'
<1> SUFFICES ASSUME IInv, Map2 PROVE IInv'
  OBVIOUS
<1>1. loop = "map2" /\ size <= 65536
  BY DEF Map2
<1>2. /\ class \in 0 .. 46 /\ size \in Int /\ 1024 <= size /\ size <= 65536 /\ size % 512 = 0
      /\ cls2size[class] >= 1024
      /\ Least(cls2size, class, IF size = 1024 THEN 1024 ELSE size - 512)
      /\ Mapped(cls2size, sizemap, 1024) /\ Mapped2(cls2size, sizemap2, size - 512)
      /\ Filled(cls2size, 47) /\ cls2size[46] = 65536
  BY <1>1 DEF IInv, BuildInv, MapInv
<1>3. Reached \in 0 .. 46 /\ Least(cls2size, Reached, size)
  <2>1. CASE size = 1024
    <3>1. Least(cls2size, class, size - 0)
      BY <1>2, <2>1
    <3> QED
      BY <1>2, <3>1, ReachedLeast
  <2>2. CASE size # 1024
    BY <1>2, <2>2, ReachedLeast
  <2> QED
    BY <2>1, <2>2
<1>4. PICK k \in 1 .. 127 : size = 512 * (k + 1) /\ (size - 1) \div 512 = k
  BY <1>2
<1>5. /\ loop' = "map2" /\ size' = size + 512 /\ class' = Reached
      /\ cls2size' = cls2size /\ sizemap' = sizemap
      /\ sizemap2' = [sizemap2 EXCEPT ![k] = Reached]
  <2>1. /\ sizemap2' = [sizemap2 EXCEPT ![(size - 1) \div 512] = Reached]
        /\ size' = size + 512 /\ class' = Reached
        /\ loop' = loop /\ cls2size' = cls2size /\ sizemap' = sizemap
    BY DEF Map2
  <2>2. (size - 1) \div 512 = k
    BY <1>4
  <2>3. sizemap2' = [sizemap2 EXCEPT ![k] = Reached]
    BY <2>1, <2>2, Zenon
  <2>4. loop = "map2"
    BY <1>1
  <2> QED
    BY <2>1, <2>3, <2>4, Zenon
<1>6. /\ sizemap2 \in [Entries -> Classes] /\ k \in Entries /\ Reached \in Classes
      /\ \A j \in 2 .. 127 : j \in Entries
  BY <1>3, Ranges DEF IInv, TypeOK
<1>7. TypeOK'
  BY <1>2, <1>3, <1>5, <1>6, Constants DEF IInv, TypeOK
<1>8. Mapped2(cls2size', sizemap2', size)
  <2> SUFFICES ASSUME NEW j \in 2 .. 127, 512 * (j + 1) <= size
               PROVE  Least(cls2size, sizemap2'[j], 512 * (j + 1))
    BY <1>5 DEF Mapped2
  <2>1. CASE j = k
    BY <1>3, <1>4, <1>5, <1>6, <2>1
  <2>2. CASE j # k
    <3>1. 512 * (j + 1) <= size - 512
      BY <1>4, <2>2
    <3>2. sizemap2'[j] = sizemap2[j]
      BY <1>5, <1>6, <2>2
    <3> QED
      BY <1>2, <3>1, <3>2 DEF Mapped2
  <2> QED
    BY <2>1, <2>2
<1>9. size' - 512 = size /\ size' % 512 = 0 /\ size' \in Int /\ 1024 < size' /\ size' <= 66048
  BY <1>2, <1>5
<1>10. cls2size[Reached] >= 1024
  <2>1. cls2size[Reached] \in Int
    BY <1>2, <1>3, FilledFacts
  <2> QED
    BY <1>2, <1>3, <2>1 DEF Least
<1>11. MapInv'
  BY <1>2, <1>3, <1>5, <1>8, <1>9, <1>10 DEF MapInv
<1>12. BuildInv'
  BY <1>2, <1>5 DEF BuildInv
<1> QED
  BY <1>7, <1>11, <1>12, BlkSame DEF IInv, Map2

\* The end of each loop is where the next one starts.
LEMMA TurnInv == IInv /\ Turn => IInv'
<1> SUFFICES ASSUME IInv, Turn PROVE IInv'
  OBVIOUS
<1>1. cls2size' = cls2size /\ sizemap' = sizemap /\ sizemap2' = sizemap2
  BY DEF Turn, tables
<1>2. CASE loop = "by8" /\ size > 256 /\ loop' = "byHalf" /\ size' = 256 /\ class' = class
  <2>1. class = 31 /\ Filled(cls2size, 31) /\ cls2size[30] = 256
    BY <1>2 DEF IInv, BuildInv
  <2>2. BuildInv'
    BY <1>1, <1>2, <2>1 DEF BuildInv, HalfWay
  <2>3. TypeOK' /\ MapInv'
    BY <1>1, <1>2 DEF IInv, TypeOK, MapInv
  <2> QED
    BY <2>2, <2>3, BlkSame DEF IInv, Turn
<1>3. CASE loop = "byHalf" /\ ~Below(65536) /\ loop' = "map" /\ size' = 8 /\ class' = 0
  <2>1. class = 47 /\ Filled(cls2size, 47) /\ cls2size[46] = 65536
    BY <1>3 DEF IInv, BuildInv, HalfWay, Below
  <2>2. BuildInv'
    BY <1>1, <1>3, <2>1 DEF BuildInv
  <2>3. TypeOK'
    BY <1>1, <1>3, Constants DEF IInv, TypeOK
  <2>4. cls2size[0] \in Int /\ 16 <= cls2size[0]
    BY <2>1, FilledFacts
  <2>5. Least(cls2size, 0, 0) /\ Mapped(cls2size, sizemap, 0)
    BY <2>4 DEF Least, Mapped
  <2>6. MapInv'
    BY <1>1, <1>3, <2>5 DEF MapInv
  <2> QED
    BY <2>2, <2>3, <2>6, BlkSame DEF IInv, Turn
<1>4. CASE loop = "map" /\ size > 1024 /\ loop' = "map2" /\ size' = 1024 /\ class' = class
  <2>1. /\ class \in 0 .. 46 /\ size = 1032 /\ Filled(cls2size, 47) /\ cls2size[46] = 65536
        /\ Least(cls2size, class, 1024) /\ Mapped(cls2size, sizemap, 1024)
    BY <1>4 DEF IInv, BuildInv, MapInv
  <2>2. BuildInv'
    BY <1>1, <1>4, <2>1 DEF BuildInv
  <2>3. TypeOK'
    BY <1>1, <1>4 DEF IInv, TypeOK
  <2>4. cls2size[class] >= 1024 /\ Mapped2(cls2size, sizemap2, 512)
    BY <2>1 DEF Least, Mapped2
  <2>5. MapInv'
    BY <1>1, <1>4, <2>1, <2>4 DEF MapInv
  <2> QED
    BY <2>2, <2>3, <2>5, BlkSame DEF IInv, Turn
<1>5. CASE loop = "map2" /\ size > 65536 /\ loop' = "done" /\ size' = 0 /\ class' = 0
  <2>1. /\ size = 66048 /\ Filled(cls2size, 47) /\ cls2size[46] = 65536
        /\ Mapped(cls2size, sizemap, 1024) /\ Mapped2(cls2size, sizemap2, 65536)
    BY <1>5 DEF IInv, BuildInv, MapInv
  <2>2. BuildInv' /\ MapInv'
    BY <1>1, <1>5, <2>1 DEF BuildInv, MapInv
  <2>3. TypeOK'
    BY <1>1, <1>5, Constants DEF IInv, TypeOK
  <2> QED
    BY <2>2, <2>3, BlkSame DEF IInv, Turn
<1> QED
  BY <1>2, <1>3, <1>4, <1>5 DEF Turn

-----------------------------------------------------------------------------
\* The tables, once maps_init is done: Least for every size.
LEMMA DoneLeast ==
  ASSUME IInv, loop = "done", NEW m \in Nat \ {0}, m <= 65536
  PROVE  Least(cls2size, size2cls(m), m) /\ size2cls(m) \in Classes
<1>1. /\ sizemap \in [Entries -> Classes] /\ sizemap2 \in [Entries -> Classes]
      /\ Mapped(cls2size, sizemap, 1024) /\ Mapped2(cls2size, sizemap2, 65536)
      /\ Filled(cls2size, 47)
  BY DEF IInv, TypeOK, MapInv, BuildInv
<1>2. \A z : Good(z) => z \in Int /\ z % 8 = 0 /\ (z >= 1024 => z % 512 = 0)
  BY DEF Good
<1>3. \A c \in Classes : /\ c \in Int /\ cls2size[c] \in Int
                         /\ c > 0 => c - 1 \in 0 .. 46 /\ Good(cls2size[c - 1])
  <2>1. \A c \in Classes : c \in Int /\ cls2size[c] \in Int
    <3>1. \A c \in Classes : cls2size[c] \in BlockSizes
      BY DEF IInv, TypeOK
    <3> QED
      BY <3>1, ClassRange, SizeRange
  <2>2. \A c \in Classes : c > 0 => c - 1 \in 0 .. 46
    BY Ranges
  <2>3. \A c \in 0 .. 46 : Good(cls2size[c])
    BY <1>1 DEF Filled
  <2> QED
    BY <2>1, <2>2, <2>3
<1>4. CASE m <= 1024
  <2>1. PICK j \in 0 .. 127 : (m - 1) \div 8 = j /\ 8 * j < m /\ m <= 8 * (j + 1)
    BY <1>4
  <2>2. size2cls(m) = sizemap[j]
    BY <1>4, <2>1 DEF size2cls
  <2>3. j \in Entries /\ sizemap[j] \in Classes /\ Least(cls2size, sizemap[j], 8 * (j + 1))
    BY <1>1, <2>1, Ranges DEF Mapped
  <2>4. ASSUME sizemap[j] > 0 PROVE cls2size[sizemap[j] - 1] <= 8 * j
    <3> DEFINE z == cls2size[sizemap[j] - 1]
    <3>1. z < 8 * (j + 1) /\ z \in Int /\ z % 8 = 0
      BY <1>2, <1>3, <2>3, <2>4 DEF Least
    <3> HIDE DEF z
    <3>2. z <= 8 * j
      BY <3>1
    <3> QED
      BY <3>2 DEF z
  <2>5. sizemap[j] \in Int /\ cls2size[sizemap[j]] \in Int
    BY <1>3, <2>3
  <2>6. sizemap[j] > 0 => cls2size[sizemap[j] - 1] \in Int
    BY <1>2, <1>3, <2>3
  <2>7. Least(cls2size, sizemap[j], m)
    BY <2>1, <2>3, <2>4, <2>5, <2>6 DEF Least
  <2> QED
    BY <2>2, <2>3, <2>7
<1>5. CASE ~(m <= 1024)
  <2>1. PICK j \in 2 .. 127 : (m - 1) \div 512 = j /\ 512 * j < m /\ m <= 512 * (j + 1)
    BY <1>5
  <2>2. size2cls(m) = sizemap2[j]
    BY <1>5, <2>1 DEF size2cls
  <2>3. j \in Entries /\ sizemap2[j] \in Classes /\ Least(cls2size, sizemap2[j], 512 * (j + 1))
    BY <1>1, <2>1, Ranges DEF Mapped2
  <2>4. ASSUME sizemap2[j] > 0 PROVE cls2size[sizemap2[j] - 1] < m
    <3> DEFINE z == cls2size[sizemap2[j] - 1]
    <3>1. z < 512 * (j + 1) /\ z \in Int /\ (z >= 1024 => z % 512 = 0)
      BY <1>2, <1>3, <2>3, <2>4 DEF Least
    <3> HIDE DEF z
    <3>2. z < 1024 \/ z <= 512 * j
      BY <3>1
    <3>3. z < m
      BY <1>5, <2>1, <3>1, <3>2
    <3> QED
      BY <3>3 DEF z
  <2>5. Least(cls2size, sizemap2[j], m)
    BY <1>3, <2>1, <2>3, <2>4 DEF Least
  <2> QED
    BY <2>2, <2>3, <2>5
<1> QED
  BY <1>4, <1>5

\* Every block that is cut off a chunk fits in it.
LEMMA SmallInv ==
  ASSUME IInv, NEW n \in Sizes, TrMallocSmall(n)
  PROVE  IInv'
<1> DEFINE m == Asked(n)
           c == size2cls(m)
           s == cls2size[c]
<1>1. n \in Nat /\ m \in Nat \ {0}
  BY TrSizesAssumption DEF Asked
<1>2. PICK i \in 0 .. blk_cnt(c) - 1 :
      /\ loop = "done" /\ c < DEFAULT_BLOCK_CLASS
      /\ blk' = [n |-> n, size |-> s, large |-> FALSE, addr |-> BlockOf(c, i),
                 from |-> Chunk, to |-> Chunk + CHUNK_SIZE]
      /\ touched' = {} /\ UNCHANGED <<loop, class, size, cls2size, sizemap, sizemap2>>
  BY DEF TrMallocSmall, tables
<1>3. m <= 65536
  BY <1>1, <1>2 DEF size2cls, LARGE_CLASS, DEFAULT_BLOCK_CLASS
<1>4. c \in Classes /\ s >= m
  BY <1>1, <1>2, <1>3, DoneLeast DEF Least
<1>5. s \in Nat \ {0} /\ s <= CHUNK_DATA_SIZE
  <2>1. s \in Int /\ s <= 65536
    <3>1. s \in BlockSizes
      BY <1>4 DEF IInv, TypeOK
    <3> QED
      BY <3>1, SizeRange
  <2> HIDE DEF s, m
  <2> QED
    BY <1>1, <1>4, <2>1, Constants
<1>6. i \in Nat /\ i * s + s <= CHUNK_DATA_SIZE
  <2> HIDE DEF s
  <2>1. CHUNK_DATA_SIZE \in Nat /\ s \in 1 .. CHUNK_DATA_SIZE
    <3>1. CHUNK_DATA_SIZE \in Nat
      BY Constants
    <3> QED
      BY <1>5, <3>1
  <2>2. blk_cnt(c) = CHUNK_DATA_SIZE \div s
    BY DEF blk_cnt, s
  <2>3. blk_cnt(c) \in Nat \ {0} /\ (blk_cnt(c) - 1) * s + s <= CHUNK_DATA_SIZE
    BY <2>1, <2>2, LastFits
  <2>4. i \in Nat /\ i <= blk_cnt(c) - 1
    BY <1>2, <2>3
  <2> HIDE DEF c
  <2>5. \A x, y, z \in Nat : x <= y => x * z <= y * z
    OBVIOUS
  <2>6. i * s <= (blk_cnt(c) - 1) * s
    BY <1>5, <2>3, <2>4, <2>5
  <2>7. i * s \in Nat /\ (blk_cnt(c) - 1) * s \in Nat
    BY <1>5, <2>3, <2>4
  <2> QED
    BY <1>5, <2>1, <2>3, <2>4, <2>6, <2>7
<1>7. BlockOf(c, i) = Chunk + HEADER + i * s
  BY DEF BlockOf
<1> HIDE DEF c, s, m
<1>8. SmallBlock'
  BY <1>2, <1>4, <1>5, <1>6, <1>7 DEF SmallBlock, m
<1>9. BlkInv'
  BY <1>1, <1>2, <1>8 DEF BlkInv
<1>10. TypeOK' /\ BuildInv' /\ MapInv'
  BY <1>2 DEF IInv, TypeOK, BuildInv, MapInv, HalfWay
<1> QED
  BY <1>9, <1>10 DEF IInv

\* A large block lies in its mapping behind the first multiple of CHUNK_SIZE.
LEMMA LargeInv ==
  ASSUME IInv, NEW n \in Sizes, NEW start \in Starts, TrMallocLarge(n, start)
  PROVE  IInv'
<1>1. n \in Nat /\ start \in Nat
  BY TrSizesAssumption
<1>2. /\ blk' = [n |-> n, size |-> Asked(n) + HEADER + CHUNK_SIZE, large |-> TRUE,
                 addr |-> RoundUp(start) + HEADER, from |-> start,
                 to |-> start + (Asked(n) + HEADER + CHUNK_SIZE)]
      /\ touched' = {} /\ UNCHANGED <<loop, class, size, cls2size, sizemap, sizemap2>>
  BY DEF TrMallocLarge, tables
<1>3. LargeBlock'
  BY <1>1, <1>2 DEF LargeBlock
<1>4. BlkInv'
  BY <1>1, <1>2, <1>3 DEF BlkInv
<1>5. TypeOK' /\ BuildInv' /\ MapInv'
  BY <1>2 DEF IInv, TypeOK, BuildInv, MapInv, HalfWay
<1> QED
  BY <1>4, <1>5 DEF IInv

\* Where TR_Write and TR_Read find a small block, from a pointer into it.
LEMMA Found ==
  ASSUME BlkInv, blk # NoBlock, ~blk.large, NEW o \in Nat, o < blk.n \/ o = 0
  PROVE  /\ HeaderOf(blk.addr + o) = Chunk /\ StartOf(blk.addr + o) = blk.addr
         /\ blk.addr \in Nat /\ blk.size \in Nat \ {0} /\ blk.n \in Nat
         /\ Third \in Nat /\ Third >= blk.n /\ 3 * Third <= blk.size
<1>1. SmallBlock /\ blk.n \in Nat /\ Chunk \in Nat /\ Chunk % CHUNK_SIZE = 0
  BY TrSizesAssumption DEF BlkInv
<1>2. PICK i \in Nat : /\ blk.addr = Chunk + HEADER + i * blk.size
                       /\ i * blk.size + blk.size <= CHUNK_DATA_SIZE
  BY <1>1 DEF SmallBlock
<1> DEFINE s == blk.size
           n == blk.n
           a == blk.addr
<1>3. s \in Nat \ {0} /\ Asked(n) <= s /\ n \in Nat
  BY <1>1 DEF SmallBlock
<1>4. i * s \in Nat
  BY <1>3
<1> DEFINE b == i * s
<1>5. b \in Nat /\ a = Chunk + HEADER + b /\ b + s <= CHUNK_DATA_SIZE
  BY <1>2, <1>4
<1>6. (b + o) % s = o
  <2>1. o \in 0 .. s - 1
    BY <1>3 DEF Asked
  <2> QED
    BY <1>3, <2>1, InBlock
<1>7. Third = s \div 3 /\ StartOf(a + o) = (a + o) - (((a + o) - HeaderOf(a + o) - HEADER) % s)
  BY Zenon DEF Third, StartOf
<1>8. o < n \/ o = 0
  OBVIOUS
<1> HIDE DEF b, s, n, a
<1>9. o < s
  BY <1>3, <1>8 DEF Asked
<1>10. HEADER + b + o \in 0 .. CHUNK_SIZE - 1 /\ a + o = Chunk + (HEADER + b + o)
  <2>1. HEADER \in Nat /\ CHUNK_DATA_SIZE \in Nat /\ CHUNK_SIZE = CHUNK_DATA_SIZE + HEADER
    BY Constants
  <2> QED
    BY <1>1, <1>3, <1>5, <1>9, <2>1
<1>11. HeaderOf(a + o) = Chunk
  BY <1>1, <1>10, InChunk
<1>12. (a + o) - HeaderOf(a + o) - HEADER = b + o
  BY <1>1, <1>5, <1>11, Constants
<1>13. StartOf(a + o) = a /\ a \in Nat
  BY <1>1, <1>5, <1>6, <1>7, <1>12, Constants
<1>14. s \div 3 \in Nat /\ s \div 3 >= n /\ 3 * (s \div 3) <= s
  BY <1>3 DEF Asked
<1> QED
  BY <1>3, <1>7, <1>11, <1>13, <1>14 DEF s, n, a

\* tr_free keeps the tables.
LEMMA FreeInv == IInv /\ TrFree => IInv'
<1> SUFFICES ASSUME IInv, TrFree PROVE IInv'
  OBVIOUS
<1>1. blk' = NoBlock /\ touched' = {}
      /\ UNCHANGED <<loop, class, size, cls2size, sizemap, sizemap2>>
  BY DEF TrFree, tables
<1>2. BlkInv'
  BY <1>1 DEF BlkInv
<1>3. TypeOK' /\ BuildInv' /\ MapInv'
  BY <1>1 DEF IInv, TypeOK, BuildInv, MapInv, HalfWay
<1> QED
  BY <1>2, <1>3 DEF IInv

\* TR_Read and TR_Write touch three disjoint stretches of the block.
LEMMA UseInv == ASSUME IInv, NEW o \in Nat, Use(o) PROVE IInv'
<1>1. /\ UNCHANGED <<loop, class, size, cls2size, sizemap, sizemap2, blk>>
      /\ blk # NoBlock /\ ~blk.large /\ o < blk.n /\ BlkInv
      /\ TrRead(o) \/ \E n \in {1, blk.n - o} : TrWrite(o, n)
  BY DEF Use, TrRead, TrWrite, tables, IInv
<1> DEFINE a == blk.addr
           t == Third
           s == blk.size
<1>2. /\ StartOf(a + o) = a /\ a \in Nat /\ s \in Nat \ {0} /\ blk.n \in Nat
      /\ t \in Nat /\ t >= blk.n /\ 3 * t <= s
  BY <1>1, Found
<1>3. PICK l \in Nat, h \in Nat :
        /\ l <= h /\ h < t
        /\ touched' = {<<a + k * t + l, a + k * t + h>> : k \in 0 .. 2}
  <2>1. CASE TrRead(o)
    <3>1. touched' = {<<a + k * t, a + (k + 1) * t - 1>> : k \in 0 .. 2}
      BY <1>2, <2>1 DEF TrRead
    <3>2. \A k \in 0 .. 2 : a + k * t = a + k * t + 0 /\ a + (k + 1) * t - 1 = a + k * t + (t - 1)
      BY <1>2
    <3>3. touched' = {<<a + k * t + 0, a + k * t + (t - 1)>> : k \in 0 .. 2}
      BY <3>1, <3>2
    <3> QED
      BY <1>1, <1>2, <3>3
  <2>2. CASE \E n \in {1, blk.n - o} : TrWrite(o, n)
    <3>1. PICK n \in {1, blk.n - o} : TrWrite(o, n)
      BY <2>2
    <3>2. touched' = {<<a + k * t + (a + o - a), a + k * t + (a + o - a) + n - 1>> : k \in 0 .. 2}
      BY <1>2, <3>1 DEF TrWrite
    <3>3. n \in Nat \ {0} /\ o + n - 1 < t
      BY <1>1, <1>2
    <3>4. \A k \in 0 .. 2 : /\ a + k * t + (a + o - a) = a + k * t + o
                            /\ a + k * t + (a + o - a) + n - 1 = a + k * t + (o + n - 1)
      BY <1>2, <3>3
    <3>5. touched' = {<<a + k * t + o, a + k * t + (o + n - 1)>> : k \in 0 .. 2}
      BY <3>2, <3>4
    <3> QED
      BY <3>3, <3>5
  <2> QED
    BY <1>1, <2>1, <2>2
<1> HIDE DEF a, t, s
<1>4. \A r \in touched' : \E k \in 0 .. 2 : r = <<a + k * t + l, a + k * t + h>>
  BY <1>3
<1>5. ASSUME NEW r \in touched' PROVE r[1] >= a /\ r[2] < a + s
  BY <1>2, <1>3, <1>4
<1>6. ASSUME NEW r \in touched', NEW q \in touched', r # q PROVE r[2] < q[1] \/ q[2] < r[1]
  <2>1. PICK j \in 0 .. 2 : r = <<a + j * t + l, a + j * t + h>>
    BY <1>4
  <2>2. PICK k \in 0 .. 2 : q = <<a + k * t + l, a + k * t + h>>
    BY <1>4
  <2>3. j # k
    BY <1>6, <2>1, <2>2
  <2> QED
    BY <1>2, <1>3, <2>1, <2>2, <2>3
<1>7. BlkInv'
  <2>1. (SmallBlock' <=> SmallBlock) /\ (LargeBlock' <=> LargeBlock)
    BY <1>1 DEF SmallBlock, LargeBlock
  <2> QED
    BY <1>1, <1>5, <1>6, <2>1 DEF BlkInv, a, s
<1>8. TypeOK' /\ BuildInv' /\ MapInv'
  BY <1>1 DEF IInv, TypeOK, BuildInv, MapInv, HalfWay
<1> QED
  BY <1>7, <1>8 DEF IInv

-----------------------------------------------------------------------------
\* Every step keeps the invariant.
LEMMA NextInv == IInv /\ [Next]_vars => IInv'
<1> SUFFICES ASSUME IInv, [Next]_vars PROVE IInv'
  OBVIOUS
<1>1. CASE By8 \/ ByHalf \/ Map \/ Map2 \/ Turn \/ TrFree
  BY <1>1, By8Inv, ByHalfInv, MapStepInv, Map2StepInv, TurnInv, FreeInv
<1>2. CASE \E n \in Sizes : TrMallocSmall(n) \/ (\E s \in Starts : TrMallocLarge(n, s))
  BY <1>2, SmallInv, LargeInv
<1>3. CASE \E m \in Sizes, d \in {0, 1} : m - d \in Nat /\ Use(m - d)
  BY <1>3, UseInv
<1>4. CASE UNCHANGED vars
  <2>1. UNCHANGED <<loop, class, size, cls2size, sizemap, sizemap2, blk, touched>>
    BY <1>4 DEF vars, tables
  <2> QED
    BY <2>1, BlkSame DEF IInv, TypeOK, BuildInv, MapInv, HalfWay
<1> QED
  BY <1>1, <1>2, <1>3, <1>4 DEF Next

\* maps_init makes no class past the last one that a heap has a list for, and
\* never indexes sizemap2 past its end.
THEOREM TypeCorrect == Spec => []TypeOK
<1>1. IInv => TypeOK
  BY DEF IInv
<1> QED
  BY <1>1, InitInv, NextInv, PTL DEF Spec

\* maps_init: every size that the tables cover gets the least class that holds
\* it.
THEOREM LeastClasses == Spec => []LeastClass
<1>1. IInv => LeastClass
  <2> SUFFICES ASSUME IInv, loop = "done", NEW m \in 1 .. CHUNK_DATA_SIZE
               PROVE  LET c == size2cls(m)
                      IN  cls2size[c] >= m /\ (c > 0 => cls2size[c - 1] < m)
    BY DEF LeastClass
  <2>1. m \in Nat \ {0} /\ m <= 65536
    <3>1. CHUNK_DATA_SIZE = 65536
      BY Constants
    <3> QED
      BY <3>1
  <2> QED
    BY <2>1, DoneLeast DEF Least
<1> QED
  BY <1>1, InitInv, NextInv, PTL DEF Spec

\* chunk_extract_header: tr_free finds the header of every block of any size.
THEOREM HeadersAreFound == Spec => []HeaderFound
<1>1. IInv => HeaderFound
  <2> SUFFICES ASSUME IInv, blk # NoBlock
               PROVE  /\ HeaderOf(blk.addr) = (IF blk.large THEN blk.addr - HEADER ELSE blk.from)
                      /\ HeaderOf(blk.addr) >= blk.from
                      /\ blk.addr + (IF blk.large THEN Asked(blk.n) ELSE blk.size) <= blk.to
    BY DEF HeaderFound
  <2>1. CASE blk.large
    <3>1. LargeBlock /\ blk.n \in Nat
      BY <2>1 DEF IInv, BlkInv
    <3>2. /\ RoundUp(blk.from) \in Nat /\ RoundUp(blk.from) % CHUNK_SIZE = 0
          /\ blk.from <= RoundUp(blk.from) /\ RoundUp(blk.from) < blk.from + CHUNK_SIZE
      BY <3>1, Multiple, Constants DEF LargeBlock
    <3>3. HEADER \in 0 .. CHUNK_SIZE - 1
      BY Constants
    <3>4. HeaderOf(blk.addr) = RoundUp(blk.from)
      BY <3>1, <3>2, <3>3, InChunk DEF LargeBlock
    <3>5. Asked(blk.n) \in Nat /\ HEADER \in Nat /\ CHUNK_SIZE \in Nat
      BY <3>1, Constants DEF Asked
    <3> QED
      BY <2>1, <3>1, <3>2, <3>4, <3>5 DEF LargeBlock
  <2>2. CASE ~blk.large
    <3>1. SmallBlock /\ BlkInv /\ Chunk \in Nat
      BY <2>2, TrSizesAssumption DEF IInv, BlkInv
    <3>2. HeaderOf(blk.addr + 0) = Chunk /\ blk.addr \in Nat /\ blk.size \in Nat
      BY <2>2, <3>1, Found
    <3>3. HeaderOf(blk.addr) = Chunk
      BY <3>2
    <3>4. PICK i \in Nat : /\ blk.addr = Chunk + HEADER + i * blk.size
                           /\ i * blk.size + blk.size <= CHUNK_DATA_SIZE
      BY <3>1 DEF SmallBlock
    <3>5. HEADER \in Nat /\ CHUNK_DATA_SIZE \in Nat /\ CHUNK_SIZE = CHUNK_DATA_SIZE + HEADER
      BY Constants
    <3>6. i * blk.size \in Nat
      BY <3>2
    <3>7. blk.addr + blk.size <= Chunk + CHUNK_SIZE
      BY <3>1, <3>2, <3>4, <3>5, <3>6
    <3> QED
      BY <2>2, <3>1, <3>3, <3>7 DEF SmallBlock
  <2>3. blk.large \in BOOLEAN
    BY DEF IInv, BlkInv
  <2> QED
    BY <2>1, <2>2, <2>3
<1> QED
  BY <1>1, InitInv, NextInv, PTL DEF Spec

\* TR_Write and TR_Read: from any pointer into a small block of any size the
\* copies are disjoint, inside the block and large enough.
THEOREM CopiesAreInside == Spec => []CopiesInside
<1>1. IInv => CopiesInside
  <2> SUFFICES ASSUME IInv PROVE CopiesInside
    OBVIOUS
  <2>1. BlkInv
    BY DEF IInv
  <2>2. ASSUME blk # NoBlock PROVE Third >= blk.n
    <3>1. CASE blk.large
      <4>1. LargeBlock /\ blk.n \in Nat
        BY <2>1, <2>2, <3>1 DEF BlkInv
      <4>2. HEADER \in Nat /\ CHUNK_SIZE \in Nat
        BY Constants
      <4>3. blk.size \in Nat /\ blk.size >= 3 * blk.n
        BY <4>1, <4>2 DEF LargeBlock, Asked
      <4> QED
        BY <4>1, <4>3 DEF Third
    <3>2. CASE ~blk.large
      <4>1. Third >= blk.n
        BY <2>1, <2>2, <3>2, Found, 0 \in Nat
      <4> QED
        BY <4>1
    <3> QED
      BY <3>1, <3>2
  <2> QED
    BY <2>1, <2>2 DEF BlkInv, CopiesInside
<1> QED
  BY <1>1, InitInv, NextInv, PTL DEF Spec

=============================================================================
