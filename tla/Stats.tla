-------------------------------- MODULE Stats --------------------------------
(***************************************************************************)
(* The counts of alloc_hook_stats.c: those of the process, which every     *)
(* thread updates with atomics, and those of a thread, which it adds to    *)
(* the process's when it ends or is asked to.  Two of them stand for all:  *)
(* `threads', kept by the process only, and `pages', kept by each thread   *)
(* and, for abandoned pages, by the process.                               *)
(***************************************************************************)
EXTENDS CallStack

CONSTANT Tld    \* the thread-local data that hold statistics

VARIABLES
    total,      \* _alloc_hook_stats_main
    local       \* tld->stats.pages

statVars == <<total, local>>

Stat == {"threads", "pages"}
Field == {"allocated", "current", "freed", "peak"}
Count == [Field -> Int]
Zero == [f \in Field |-> 0]

StatsTypeOK == total \in [Stat -> Count] /\ local \in [Tld -> Count]
StatsInit == total = [s \in Stat |-> Zero] /\ local = [d \in Tld |-> Zero]

Larger(a, b) == IF a > b THEN a ELSE b
Flow(n) == IF n > 0 THEN "allocated" ELSE "freed"
Amount(n) == IF n > 0 THEN n ELSE -n

\* The thread-local branch of alloc_hook_stat_update.
Updated(c, n) ==
    [c EXCEPT !.current = @ + n, !.peak = Larger(@, c.current + n), ![Flow(n)] = @ + Amount(n)]

\* The atomic branch: the current amount, then the peak, then what came or went.
StatUpdate(t) ==
    /\ Now(t, "stat")
    /\ LET s == Arg(t, 1)
           n == Arg(t, 2)
           x == total[s].current + n IN
       /\ total' = [total EXCEPT ![s].current = x]
       /\ Then(t, <<<<"peak", s, x>>, <<"flow", s, n>>>>)
    /\ UNCHANGED local

\* alloc_hook_atomic_maxi64_relaxed: what to do once the peak has been read.
Raise(t, s, x) ==
    Then(t, IF total[s].peak < x THEN <<<<"peakCas", s, total[s].peak, x>>>> ELSE <<>>)

PeakLoad(t) == Now(t, "peak") /\ Raise(t, Arg(t, 1), Arg(t, 2)) /\ UNCHANGED statVars

\* Mutant of Unchanged: the peak is stored whatever it is by now.
Overwrites(peak, seen) == TRUE

\* Whether the compare-and-swap succeeds.
Unchanged(peak, seen) == peak = seen

PeakCas(t) ==
    /\ Now(t, "peakCas")
    /\ LET s == Arg(t, 1)
           x == Arg(t, 3) IN
       \/ /\ Unchanged(total[s].peak, Arg(t, 2))
          /\ total' = [total EXCEPT ![s].peak = x]
          /\ Then(t, <<>>)
       \/ /\ ~Unchanged(total[s].peak, Arg(t, 2))
          /\ Raise(t, s, x)
          /\ UNCHANGED total
    /\ UNCHANGED local

StatFlow(t) ==
    /\ Now(t, "flow")
    /\ LET s == Arg(t, 1)
           n == Arg(t, 2) IN
       total' = [total EXCEPT ![s][Flow(n)] = @ + Amount(n)]
    /\ Then(t, <<>>)
    /\ UNCHANGED local

\* alloc_hook_stats_merge_from: each field is added by itself, then all are cleared.
StatsMerge(t) ==
    /\ Now(t, "merge")
    /\ LET d == Arg(t, 1)
           some == local[d].allocated # 0 \/ local[d].freed # 0 IN
       Then(t, (IF some THEN <<<<"add", d, "allocated">>, <<"add", d, "current">>,
                               <<"add", d, "freed">>, <<"add", d, "peak">>>> ELSE <<>>)
               \o <<<<"clear", d>>>>)
    /\ UNCHANGED statVars

StatAdd(t) ==
    /\ Now(t, "add")
    /\ LET f == Arg(t, 2) IN
       total' = [total EXCEPT !["pages"][f] = @ + local[Arg(t, 1)][f]]
    /\ Then(t, <<>>)
    /\ UNCHANGED local

StatsClear(t) ==
    /\ Now(t, "clear")
    /\ local' = [local EXCEPT ![Arg(t, 1)] = Zero]
    /\ Then(t, <<>>)
    /\ UNCHANGED total

\* alloc_hook_stats_reset.
StatsReset(t) ==
    /\ Now(t, "stats_reset")
    /\ total' = [s \in Stat |-> Zero]
    /\ local' = [local EXCEPT ![Arg(t, 1)] = Zero]
    /\ Then(t, <<>>)

StatStep(t) ==
    \/ StatUpdate(t) \/ PeakLoad(t) \/ PeakCas(t) \/ StatFlow(t)
    \/ StatsMerge(t) \/ StatAdd(t) \/ StatsClear(t) \/ StatsReset(t)
=============================================================================
