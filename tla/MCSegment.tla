------------------------------ MODULE MCSegment ------------------------------
(***************************************************************************)
(* SegmentSpans for TLC.                                                   *)
(***************************************************************************)
EXTENDS SegmentProps, TLC

Symmetry == Permutations(Thread)
AllOptions == {o \in Option : o.pinned => ~o.decommit /\ o.delay = "now"}
=============================================================================
