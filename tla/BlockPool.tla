------------------------------ MODULE BlockPool ------------------------------
(***************************************************************************)
(* What malloc and free promise the program, whatever thread calls them    *)
(* and whatever the allocator does in between: malloc hands out a block of *)
(* the allocator's stock, a held block is never in stock, and it is held   *)
(* until the program frees it.                                             *)
(***************************************************************************)
CONSTANT Block

VARIABLES
    live,      \* the blocks the program holds
    stock      \* the blocks in the allocator's hands

vars == <<live, stock>>

\* A freed block need not be in stock at once, it may have to travel first.
Stocked == stock' \subseteq Block \ live'

Init == live = {} /\ stock \subseteq Block

Malloc == \E b \in stock : live' = live \cup {b} /\ Stocked

Free == \E b \in live : live' = live \ {b} /\ Stocked

Restock == live' = live /\ Stocked

Spec == Init /\ [][Malloc \/ Free \/ Restock]_vars
=============================================================================
