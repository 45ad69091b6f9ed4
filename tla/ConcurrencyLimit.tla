-------------------------- MODULE ConcurrencyLimit --------------------------
(***************************************************************************)
(* What a bulkhead promises to the backend behind it: never more than      *)
(* Slots callers are inside at a time.  Everything else, who waits, who is *)
(* turned away and in which order, is left open.                           *)
(***************************************************************************)
EXTENDS Integers, FiniteSets

CONSTANTS Callers, Slots

VARIABLE inside

Init == inside = {}

Enter(c) ==
  /\ c \notin inside
  /\ Cardinality(inside) < Slots
  /\ inside' = inside \cup {c}

Leave(c) ==
  /\ c \in inside
  /\ inside' = inside \ {c}

Next == \E c \in Callers : Enter(c) \/ Leave(c)

Spec == Init /\ [][Next]_inside
=============================================================================
