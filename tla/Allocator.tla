------------------------------ MODULE Allocator ------------------------------
(***************************************************************************)
(* What an allocator promises its clients, whatever it does inside: a      *)
(* grant is a run of consecutive units of memory, no unit is ever in two   *)
(* grants that are held at the same time, and a grant keeps its units      *)
(* until its client gives it back.  GlobalHeap implements it with pages    *)
(* for units, SmallHeap with bytes, TrHeap with units of a chunk's data.   *)
(***************************************************************************)
EXTENDS Integers

VARIABLE held      \* the grants that clients hold, as [first, units] records

\* Two runs share no unit.
Apart(a, b) == \/ a.first + a.units <= b.first
               \/ b.first + b.units <= a.first

Init == held = {}

\* The allocator hands out a run that no client holds a unit of.
Grant == \E g \in held' :
           /\ g.first \in Nat
           /\ g.units \in Nat \ {0}
           /\ \A h \in held : Apart(g, h)
           /\ held' = held \cup {g}

\* A client gives back one of its runs.
Release == \E g \in held : held' = held \ {g}

Next == Grant \/ Release

Spec == Init /\ [][Next]_held

=============================================================================
