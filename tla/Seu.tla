--------------------------------- MODULE Seu ---------------------------------
(***************************************************************************)
(* One block of memmalloc built with SEU: two copies, each with a parity   *)
(* byte at its end that makes the number of ones in the copy odd.  A read  *)
(* overwrites a copy whose number of ones is even with the other one.      *)
(*                                                                         *)
(* A copy is the set of its bits that are one; of the parity byte only the *)
(* parity counts.  As in Tmr a step of MEM_Read is one pass over a copy,   *)
(* and so is one of MEM_Write.  A particle may hit a bit between any two   *)
(* steps once the hit before it is repaired, and nobody writes or frees a  *)
(* block while somebody else reads or writes it.                           *)
(***************************************************************************)
EXTENDS Integers, FiniteSets

CONSTANTS
  Threads,  \* threads that read the block
  N         \* bits of a copy before its parity byte

ASSUME SeuAssumption == N \in Nat \ {0}

Bits   == 1 .. N
Copies == {1, 2}

VARIABLES
  taken,       \* the application has the block
  ones,        \* the bits of a copy that are one
  parity,      \* the parity of its parity byte
  initialised, \* data_block_init was called since mem_malloc
  data,        \* what was last written to an initialised block
  sealed,      \* MEM_Write was called since; its last call found data unspoiled and
               \* both parity bytes zero, and nothing hit the first copy between
               \* its memcpy and its count
  stage,       \* pass a thread is at; 0 not in MEM_Read
  count,       \* count1 and count2 of MEM_Read, modulo 2
  done,        \* the last MEM_Read of a thread returned
  clean,       \* no bit was hit since it began
  wstage,      \* the step MEM_Write has made last; 0 nobody is in MEM_Write
  size,        \* bits it writes
  source,      \* which of them are one
  counted      \* its count, modulo 2

write == <<wstage, size, source, counted>>
vars  == <<taken, ones, parity, initialised, data, sealed, stage, count, done, clean, write>>

Init ==
  /\ taken = FALSE
  /\ ones = [c \in Copies |-> {}] /\ parity = [c \in Copies |-> 0]
  /\ initialised = FALSE /\ data = {} /\ sealed = FALSE
  /\ stage = [t \in Threads |-> 0]
  /\ count = [t \in Threads |-> [c \in Copies |-> 0]]
  /\ done = [t \in Threads |-> FALSE]
  /\ clean = [t \in Threads |-> FALSE]
  /\ wstage = 0 /\ size = 0 /\ source = {} /\ counted = 0

Idle   == wstage = 0 /\ \A t \in Threads : stage[t] = 0
Forget == done' = [t \in Threads |-> FALSE]

\* get_bit_time over a whole copy, modulo 2.
BitTime(c) == (Cardinality(ones[c]) + parity[c]) % 2

-----------------------------------------------------------------------------
\* A block comes with whatever its bytes held before.
MemMalloc ==
  /\ ~taken /\ taken' = TRUE
  /\ ones' \in [Copies -> SUBSET Bits] /\ parity' \in [Copies -> {0, 1}]
  /\ UNCHANGED <<initialised, data, sealed, stage, count, done, clean, write>>

MemFree ==
  /\ taken /\ Idle
  /\ taken' = FALSE /\ initialised' = FALSE /\ sealed' = FALSE
  /\ Forget
  /\ UNCHANGED <<ones, parity, data, stage, count, clean, write>>

DataBlockInit ==
  /\ taken /\ Idle
  /\ ones' = [c \in Copies |-> {}] /\ parity' = [c \in Copies |-> 0]
  /\ initialised' = TRUE /\ data' = {} /\ sealed' = FALSE
  /\ Forget
  /\ UNCHANGED <<taken, stage, count, clean, write>>

-----------------------------------------------------------------------------
(* MEM_Write *)

\* Mutant: the test the other way round.
OddCheckReversed(n, old) == IF n % 2 = 1 THEN 1 ELSE old

\* odd_check writes 1 if the count is even; else it clears its own pointer,
\* and the byte keeps what it held.
OddCheck(n, old) == IF n % 2 = 0 THEN 1 ELSE old

Overlay(old, n, new) == (old \ (1 .. n)) \cup new

\* The first n bits of the first copy are written.
MemWrite(n, new) ==
  /\ taken /\ Idle
  /\ ones' = [ones EXCEPT ![1] = Overlay(@, n, new)]
  /\ data' = Overlay(data, n, new)
  /\ sealed' = \A c \in Copies : ones[c] = data /\ parity[c] = 0
  /\ wstage' = 1 /\ size' = n /\ source' = new
  /\ Forget
  /\ UNCHANGED <<taken, parity, initialised, stage, count, clean, counted>>

\* Then those of the second copy.
WriteSecond ==
  /\ wstage = 1 /\ wstage' = 2
  /\ ones' = [ones EXCEPT ![2] = Overlay(@, size, source)]
  /\ UNCHANGED <<taken, parity, initialised, data, sealed, stage, count, done, clean,
                 size, source, counted>>

\* get_bit_time over the data of the first copy, the only count there is.
CountFirst ==
  /\ wstage = 2 /\ wstage' = 3
  /\ counted' = Cardinality(ones[1]) % 2
  /\ UNCHANGED <<taken, ones, parity, initialised, data, sealed, stage, count, done, clean,
                 size, source>>

\* odd_check on the parity byte of the first copy, then on that of the second.
Seal ==
  LET c == wstage - 2 IN
  /\ c \in Copies
  /\ parity' = [parity EXCEPT ![c] = OddCheck(counted, @)]
  /\ IF c = 1
     THEN wstage' = 4 /\ UNCHANGED <<size, source, counted>>
     ELSE wstage' = 0 /\ size' = 0 /\ source' = {} /\ counted' = 0
  /\ UNCHANGED <<taken, ones, initialised, data, sealed, stage, count, done, clean>>

\* What a copy holds once the MEM_Write under way returns, if there is one.
Ones(c)    == IF wstage = 1 /\ c = 2 THEN Overlay(ones[c], size, source) ELSE ones[c]
Counted    == IF wstage \in {1, 2} THEN Cardinality(ones[1]) ELSE counted
Sealing(c) == wstage \in 1 .. 3 \/ (wstage = 4 /\ c = 2)
Parity(c)  == IF Sealing(c) THEN OddCheck(Counted, parity[c]) ELSE parity[c]
Agree      == Ones(1) = Ones(2) /\ Parity(1) = Parity(2)

\* A particle changes a bit of the data, or one of the parity byte.
Upset(c) ==
  /\ initialised /\ Agree
  /\ \/ /\ \E k \in Bits : ones' = [ones EXCEPT ![c] = IF k \in @ THEN @ \ {k} ELSE @ \cup {k}]
        /\ sealed' = (sealed /\ ~(c = 1 /\ wstage \in {1, 2}))
        /\ UNCHANGED parity
     \/ /\ parity' = [parity EXCEPT ![c] = 1 - @]
        /\ UNCHANGED <<ones, sealed>>
  /\ clean' = [t \in Threads |-> FALSE]
  /\ UNCHANGED <<taken, initialised, data, stage, count, done, write>>

-----------------------------------------------------------------------------
(* MEM_Read *)

ReadBegin(t) ==
  /\ taken /\ wstage = 0 /\ stage[t] = 0
  /\ stage' = [stage EXCEPT ![t] = 1]
  /\ count' = [count EXCEPT ![t] = [c \in Copies |-> 0]]
  /\ done' = [done EXCEPT ![t] = FALSE]
  /\ clean' = [clean EXCEPT ![t] = TRUE]
  /\ UNCHANGED <<taken, ones, parity, initialised, data, sealed, write>>

\* count1, then count2.
CountBits(t) ==
  LET c == stage[t] IN
  /\ c \in Copies
  /\ count' = [count EXCEPT ![t][c] = BitTime(c)]
  /\ stage' = [stage EXCEPT ![t] = c + 1]
  /\ UNCHANGED <<taken, ones, parity, initialised, data, sealed, done, clean, write>>

\* Mutant: memcpy with its arguments swapped.
OntoOther(x, c) == [x EXCEPT ![3 - c] = x[c]]

\* memcpy of the other copy onto c.
OntoCopy(x, c) == [x EXCEPT ![c] = x[3 - c]]

\* If count1 is even the second copy goes onto the first; then the same for
\* count2 the other way.
Restore(t) ==
  LET c == stage[t] - 2 IN
  /\ c \in Copies
  /\ IF count[t][c] = 0
     THEN ones' = OntoCopy(ones, c) /\ parity' = OntoCopy(parity, c)
     ELSE UNCHANGED <<ones, parity>>
  /\ stage' = [stage EXCEPT ![t] = IF c = 1 THEN 4 ELSE 0]
  /\ done' = IF c = 2 THEN [done EXCEPT ![t] = TRUE] ELSE done
  /\ UNCHANGED <<taken, initialised, data, sealed, count, clean, write>>

-----------------------------------------------------------------------------
Next ==
  \/ MemMalloc \/ MemFree \/ DataBlockInit
  \/ \E n \in Bits : \E new \in SUBSET (1 .. n) : MemWrite(n, new)
  \/ WriteSecond \/ CountFirst \/ Seal
  \/ \E c \in Copies : Upset(c)
  \/ \E t \in Threads : ReadBegin(t) \/ CountBits(t) \/ Restore(t)

Spec == Init /\ [][Next]_vars

-----------------------------------------------------------------------------
(* Properties *)

\* The type of every variable.
TypeOK ==
  /\ taken \in BOOLEAN /\ initialised \in BOOLEAN
  /\ ones \in [Copies -> SUBSET Bits] /\ parity \in [Copies -> {0, 1}]
  /\ data \in SUBSET Bits
  /\ sealed \in BOOLEAN
  /\ stage \in [Threads -> 0 .. 4]
  /\ count \in [Threads -> [Copies -> {0, 1}]]
  /\ done \in [Threads -> BOOLEAN]
  /\ clean \in [Threads -> BOOLEAN]
  /\ wstage \in 0 .. 4 /\ size \in 0 .. N /\ source \in SUBSET Bits /\ counted \in {0, 1}

\* A write that found both copies intact and both parity bytes zero, as
\* data_block_init leaves them, protects the block once it has returned: whenever
\* the particles hit, during the write too, a copy with an odd number of ones
\* holds the data, and there is one.  The exception is a hit in the first copy
\* between its memcpy and the count, which seals it into both parity bytes.
Recoverable ==
  initialised /\ sealed /\ wstage = 0 =>
    /\ \A c \in Copies : BitTime(c) = 1 => ones[c] = data
    /\ \E c \in Copies : BitTime(c) = 1

\* After such a write a read that no hit disturbs restores the data, with the
\* same exception.
ReadCorrect ==
  \A t \in Threads : initialised /\ sealed /\ clean[t] /\ done[t] => ones[1] = data

=============================================================================
