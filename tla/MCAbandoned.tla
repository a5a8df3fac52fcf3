----------------------------- MODULE MCAbandoned -----------------------------
(* AbandonedList and its properties for TLC: the small instance. *)
EXTENDS AbandonedProps, TLC

Symmetry == Permutations(Thread) \cup Permutations(Segment)
=============================================================================
