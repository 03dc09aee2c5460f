----------------------------- MODULE Interning ------------------------------
(***************************************************************************)
(* What the database promises of its identifiers (src/db/Database.hpp:     *)
(* AddFunctionName and AddStack return the identifier of a value, the same *)
(* for the same value): values get the identifiers 1, 2, ... in the order  *)
(* in which they are first added.  A value that reached the disk keeps its *)
(* identifier for ever; a crash of the machine takes back the values added *)
(* after the last that did.                                                *)
(***************************************************************************)
EXTENDS Integers, Sequences, SequencesExt

VARIABLES
    values,   \* the value of each identifier
    safe      \* the identifiers up to this one are on the disk

Init == values = << >> /\ safe = 0

Add ==
    /\ Len(values') = Len(values) + 1
    /\ values' = Append(values, Last(values'))
    /\ ~Contains(values, Last(values'))
    /\ UNCHANGED safe

Sync == safe' = Len(values) /\ UNCHANGED values

Lose == values' = SubSeq(values, 1, safe) /\ UNCHANGED safe

Next == Add \/ Sync \/ Lose

Spec == Init /\ [][Next]_<<values, safe>>
=============================================================================
