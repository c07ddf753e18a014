--------------------------------- MODULE Tmr ---------------------------------
(***************************************************************************)
(* One block of memmalloc built with TMR: mem_malloc makes room for three  *)
(* copies, MEM_Write stores all of them, MEM_Read compares them two by two *)
(* and overwrites the one that differs.                                    *)
(*                                                                         *)
(* A step of MEM_Read is one memcmp, or the decision with its memcpy.      *)
(* Bytes are members of Values.  A particle may hit a byte between any two *)
(* steps, but not again before the three copies agree: that is what triple *)
(* redundancy is meant for.  The application does not write or free a      *)
(* block while somebody reads it; several threads may read it at a time.   *)
(***************************************************************************)
EXTENDS Integers

CONSTANTS
  Threads,      \* threads that read the block
  bsize,        \* bytes of a copy
  Values, Zero  \* what a byte holds; the zero byte

ASSUME TmrAssumption == bsize \in Nat \ {0} /\ Zero \in Values

Bytes  == 1 .. bsize
Copies == 1 .. 3
Pairs  == 1 .. 3

\* The comparisons of MEM_Read, in their order.
Left(i)  == IF i = 3 THEN 2 ELSE 1
Right(i) == IF i = 1 THEN 2 ELSE 3

VARIABLES
  taken,       \* the application has the block
  copy,        \* the three copies
  initialised, \* data_block_init was called since mem_malloc
  data,        \* what was last written to an initialised block
  stage,       \* comparison a thread is at; 0 not in MEM_Read, 4 at the decision
  compare,     \* compare[] of MEM_Read
  result,      \* what the last MEM_Read of a thread returned
  clean        \* no byte was hit since it began

vars == <<taken, copy, initialised, data, stage, compare, result, clean>>

Init ==
  /\ taken = FALSE
  /\ copy = [c \in Copies |-> [k \in Bytes |-> Zero]]
  /\ initialised = FALSE
  /\ data = [k \in Bytes |-> Zero]
  /\ stage = [t \in Threads |-> 0]
  /\ compare = [t \in Threads |-> [i \in Pairs |-> 0]]
  /\ result = [t \in Threads |-> "none"]
  /\ clean = [t \in Threads |-> FALSE]

NobodyReads == \A t \in Threads : stage[t] = 0
Forget      == result' = [t \in Threads |-> "none"]
Agree       == \A c \in Copies : copy[c] = copy[1]

-----------------------------------------------------------------------------
\* A block comes with whatever its bytes held before: list pointers in its
\* first bytes, and what an earlier owner left.
MemMalloc ==
  /\ ~taken /\ taken' = TRUE
  /\ copy' \in [Copies -> [Bytes -> Values]]
  /\ UNCHANGED <<initialised, data, stage, compare, result, clean>>

\* bzero(addr, num * size), which reaches no further than the first copy.
Cleared(old, n) == [old EXCEPT ![1] = [k \in Bytes |-> IF k <= n THEN Zero ELSE @[k]]]

\* mem_calloc of n bytes.
MemCalloc(n) ==
  /\ ~taken /\ taken' = TRUE
  /\ \E old \in [Copies -> [Bytes -> Values]] : copy' = Cleared(old, n)
  /\ UNCHANGED <<initialised, data, stage, compare, result, clean>>

MemFree ==
  /\ taken /\ NobodyReads
  /\ taken' = FALSE /\ initialised' = FALSE
  /\ Forget
  /\ UNCHANGED <<copy, data, stage, compare, clean>>

\* data_block_init: memset of the whole block.
DataBlockInit ==
  /\ taken /\ NobodyReads
  /\ copy' = [c \in Copies |-> [k \in Bytes |-> Zero]]
  /\ data' = [k \in Bytes |-> Zero]
  /\ initialised' = TRUE
  /\ Forget
  /\ UNCHANGED <<taken, stage, compare, clean>>

\* Overwrites the first bytes of old.
Overlay(old, source) == [k \in Bytes |-> IF k \in DOMAIN source THEN source[k] ELSE old[k]]

\* MEM_Write of n bytes at the start of the block.
MemWrite(n, source) ==
  /\ taken /\ NobodyReads
  /\ copy' = [c \in Copies |-> Overlay(copy[c], source)]
  /\ data' = Overlay(data, source)
  /\ Forget
  /\ UNCHANGED <<taken, initialised, stage, compare, clean>>

\* A particle changes a byte.
Upset(c, k, v) ==
  /\ initialised /\ Agree
  /\ v # copy[c][k]
  /\ copy' = [copy EXCEPT ![c][k] = v]
  /\ clean' = [t \in Threads |-> FALSE]
  /\ UNCHANGED <<taken, initialised, data, stage, compare, result>>

-----------------------------------------------------------------------------
(* MEM_Read *)

ReadBegin(t) ==
  /\ taken /\ stage[t] = 0
  /\ stage' = [stage EXCEPT ![t] = 1]
  /\ compare' = [compare EXCEPT ![t] = [i \in Pairs |-> 0]]
  /\ clean' = [clean EXCEPT ![t] = TRUE]
  /\ result' = [result EXCEPT ![t] = "none"]
  /\ UNCHANGED <<taken, copy, initialised, data>>

Differ(i) == IF copy[Left(i)] = copy[Right(i)] THEN 0 ELSE 1

Compare(t) ==
  LET i == stage[t] IN
  /\ i \in Pairs
  /\ compare' = [compare EXCEPT ![t][i] = Differ(i)]
  /\ stage' = [stage EXCEPT ![t] = i + 1]
  /\ UNCHANGED <<taken, copy, initialised, data, result, clean>>

\* Mutant: the first pair that was equal.
IndexFirst(cmp) ==
  IF cmp[1] = 0 THEN 1 ELSE IF cmp[2] = 0 THEN 2 ELSE IF cmp[3] = 0 THEN 3 ELSE 0

\* The last pair that was equal, 0 if none was.
Index(cmp) ==
  IF cmp[3] = 0 THEN 3 ELSE IF cmp[2] = 0 THEN 2 ELSE IF cmp[1] = 0 THEN 1 ELSE 0

\* Mutant: the first block is never repaired.
RepairedNot(i) ==
  IF i = 1 THEN [copy EXCEPT ![3] = copy[1]]
  ELSE IF i = 2 THEN [copy EXCEPT ![2] = copy[1]]
  ELSE copy

\* The block that is not in pair i is overwritten by one that is.
Repaired(i) ==
  IF i = 1 THEN [copy EXCEPT ![3] = copy[1]]
  ELSE IF i = 2 THEN [copy EXCEPT ![2] = copy[1]]
  ELSE [copy EXCEPT ![1] = copy[2]]

Decide(t) ==
  LET cmp == compare[t]
      i   == Index(cmp)
  IN /\ stage[t] = 4
     /\ stage' = [stage EXCEPT ![t] = 0]
     /\ \/ /\ \A p \in Pairs : cmp[p] = 0
           /\ result' = [result EXCEPT ![t] = "ptr"]
           /\ UNCHANGED copy
        \/ /\ i = 0
           /\ result' = [result EXCEPT ![t] = "null"]
           /\ UNCHANGED copy
        \/ /\ i # 0 /\ \E p \in Pairs : cmp[p] = 1
           /\ result' = [result EXCEPT ![t] = "ptr"]
           /\ copy' = Repaired(i)
     /\ UNCHANGED <<taken, initialised, data, compare, clean>>

-----------------------------------------------------------------------------
Next ==
  \/ MemMalloc \/ MemFree \/ DataBlockInit
  \/ \E n \in Bytes : MemCalloc(n) \/ \E source \in [1 .. n -> Values] : MemWrite(n, source)
  \/ \E c \in Copies, k \in Bytes, v \in Values : Upset(c, k, v)
  \/ \E t \in Threads : ReadBegin(t) \/ Compare(t) \/ Decide(t)

Spec == Init /\ [][Next]_vars

-----------------------------------------------------------------------------
(* Properties *)

\* The type of every variable.
TypeOK ==
  /\ taken \in BOOLEAN /\ initialised \in BOOLEAN
  /\ copy \in [Copies -> [Bytes -> Values]]
  /\ data \in [Bytes -> Values]
  /\ stage \in [Threads -> 0 .. 4]
  /\ compare \in [Threads -> [Pairs -> {0, 1}]]
  /\ result \in [Threads -> {"none", "ptr", "null"}]
  /\ clean \in [Threads -> BOOLEAN]

\* Two copies always hold the data, whenever the particles hit: a read never
\* spreads a changed byte, even if it compared before the byte changed.
Recoverable ==
  initialised => \E c, d \in Copies : c # d /\ copy[c] = data /\ copy[d] = data

\* A read during which no byte is hit returns the block, with its data in the
\* first copy.
ReadCorrect ==
  \A t \in Threads : initialised /\ clean[t] /\ result[t] # "none" =>
                       result[t] = "ptr" /\ copy[1] = data

=============================================================================
