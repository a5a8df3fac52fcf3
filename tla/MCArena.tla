------------------------------ MODULE MCArena ------------------------------
(***************************************************************************)
(* Arena for TLC.                                                          *)
(***************************************************************************)
EXTENDS ArenaProps, TLC

Threads == Permutations(Thread)

\* All kinds of arena with all purge options.  What is initially zero does not
\* matter to purges, nor do they to pinned arenas.  If memory is decommitted, an
\* arena that starts committed also gets to where the others start; if it never
\* is, the arena that starts committed stays so.
AllOptions == {o \in Option :
    /\ o.zero = (o.delay # "later")
    /\ o.pinned => o.committed /\ o.recommit /\ o.delay = "now"
    /\ ~o.pinned => o.committed = o.recommit}

\* The default: purges are delayed, and decommitted memory is committed again.
DefaultOptions == {o \in Option :
    ~o.pinned /\ o.committed /\ o.zero /\ o.recommit /\ o.delay = "later"}
=============================================================================
