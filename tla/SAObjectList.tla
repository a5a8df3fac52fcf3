---------------------------- MODULE SAObjectList ----------------------------
(***************************************************************************)
(* What SA__LinkedList<T> (include/SA.h) promises its users: the objects   *)
(* it holds form one sequence, in the order they were added; adding puts   *)
(* an object at the end, removing takes exactly that object out and leaves *)
(* the order of the others alone.  No cells, no tail, no size field.       *)
(***************************************************************************)
EXTENDS SequencesExt

CONSTANT Object      \* the T objects a list can hold

VARIABLE items       \* the objects held, oldest first

Held == ToSet(items)

Init == items = <<>>

\* A new object is allocated and appended.
Add(n) ==
    /\ n \notin Held
    /\ items' = Append(items, n)

\* One object is destroyed and taken out, wherever it stands.
Drop(n) ==
    /\ n \in Held
    /\ items' = Remove(items, n)

Next == \E n \in Object : Add(n) \/ Drop(n)

Spec == Init /\ [][Next]_items
=============================================================================
