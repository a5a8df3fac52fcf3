------------------------------ MODULE MCMemory ------------------------------
(***************************************************************************)
(* ArenaTable for TLC: two threads and an address space of five segments.  *)
(***************************************************************************)
EXTENDS ArenaTableProps, TLC

Plain == [NoCall EXCEPT !.op = "alloc", !.size = Block, !.align = Block]
MCCalls ==
    {[Plain EXCEPT !.commit = TRUE, !.large = TRUE],
     [Plain EXCEPT !.size = 2 * Block + 1],
     [Plain EXCEPT !.align = 2 * Block, !.offset = Block, !.commit = TRUE],
     [Plain EXCEPT !.id = 1],
     [Plain EXCEPT !.op = "reserve", !.exclusive = TRUE],
     [Plain EXCEPT !.op = "manage", !.node = 1],
     [Plain EXCEPT !.op = "huge", !.size = 2 * Block]}

MCReserve == [n \in 0..MaxArenas |-> 2 * Block]
MCNumaNode == [t \in Thread |-> 0]
Symmetry == Permutations(Thread)
=============================================================================
