---------------------------- MODULE AbandonedSet ----------------------------
(***************************************************************************)
(* What the abandoned list promises: a segment belongs to one thread, or   *)
(* is abandoned and will be taken by one thread, or is not mapped at all.  *)
(***************************************************************************)
CONSTANTS Thread, Segment, Abandoned, Unmapped

VARIABLE place           \* where each segment is

TypeOK == place \in [Segment -> Thread \cup {Abandoned, Unmapped}]

Init == place = [s \in Segment |-> Unmapped]

\* One segment at a time goes from a thread to everybody or away, or back.
Move(before, after) ==
    \E s \in Segment, t \in Thread :
        /\ {before[s], after[s]} \in {{t, Abandoned}, {t, Unmapped}}
        /\ after = [before EXCEPT ![s] = after[s]]

Next == \E before \in {place}, after \in {place'} : Move(before, after)

Spec == Init /\ [][Next]_place
=============================================================================
