---------------------------- MODULE BitmapProps ----------------------------
(***************************************************************************)
(* What makes the bitmap correct.                                          *)
(***************************************************************************)
EXTENDS Bitmap

\* The bits of its run that are 1 for a thread that is in the middle of
\* claiming, rolling back or clearing it.
Taken(t) == {b \in pc[t].run :
    \/ pc[t].at = "take" /\ b[1] < pc[t].f
    \/ pc[t].at = "back" /\ b[1] <= pc[t].f
    \/ pc[t].at = "unclaim" /\ b[1] >= pc[t].f}

\* All bits that are 1 because of t.
Own(t) == Taken(t) \cup UNION held[t]

\* Every 1 has one thread that answers for it, and one run of that thread: a
\* search that failed, whatever it met on the way, leaves no bit behind
\* (bitmap.c:262-288), and no bit is in two claims.
BitsAccounted ==
    /\ map = LeftOver \cup UNION {Own(t) : t \in Thread}
    /\ \A t \in Thread : Own(t) \cap LeftOver = {}
    /\ \A t, u \in Thread : t # u => Own(t) \cap Own(u) = {}
    /\ \A t \in Thread : \A r \in held[t] :
        /\ r \cap Taken(t) = {}
        /\ \A s \in held[t] : r # s => r \cap s = {}

\* A run begins in field idx and fills the fields between its first and last.
Spread(c) ==
    /\ \A b \in c.run : b[1] >= c.idx
    /\ \A i \in Field :
        i > c.idx /\ (\E b \in c.run : b[1] > i) => FieldBits(i) \subseteq c.run

\* What holds of a thread's place in the code and its run.
Placed(c) ==
    /\ c.at \notin {"idle", "unclaim"} => c.count > 0 /\ c.left > 0
    /\ c.at \in {"cas", "ahead", "take", "back"} => c.run \in Runs
    /\ c.at \in {"ahead", "take", "back"} => c.f >= c.idx /\ Spread(c)
    /\ c.at = "ahead" => c.f > c.idx
    /\ c.at \in {"ahead", "take", "unclaim"} => \E b \in c.run : b[1] >= c.f
    /\ c.at = "back" => \E b \in c.run : b[1] > c.f

\* The inductive invariant.
IInv ==
    /\ TypeOK
    /\ BitsAccounted
    /\ \A t \in Thread : held[t] \subseteq Runs /\ Placed(pc[t])

\* bitmap.c:227, 250, 272 and 278: the scan stays in the bitmap, and what is
\* rolled back is still claimed, an intermediate field as a whole.  And
\* arena.c:664: who frees a run finds all its bits 1.
AssertionsHold == \A t \in Thread :
    /\ pc[t].at \in {"ahead", "take"} => pc[t].f \in Field
    /\ pc[t].at = "back" =>
        (IF pc[t].f > pc[t].idx THEN FieldBits(pc[t].f) ELSE Part(t, pc[t].f))
            \subseteq map
    /\ pc[t].at = "unclaim" => Taken(t) \subseteq map
    /\ \A r \in held[t] : r \subseteq map

\* Threads that claim and unclaim see a pool of disjoint ranges of blocks.
Pool == INSTANCE BitPool WITH Range <- {r \in Runs : r \cap LeftOver = {}}
ImplementsPool == Pool!Spec

\* The run of n bits from p on is zero; if n is at most two, it lies in one field.
Findable(p, n) ==
    /\ Run(p, n) \cap map = {}
    /\ n <= 2 => \E i \in Field : Run(p, n) \subseteq FieldBits(i)
Available(n) == \E p \in 0..(Size - n) : Findable(p, n)

\* A search of a thread whose call no other overlapped fails only when there is
\* nothing to find: skipping over 1s, counting the zeros at the end of a field
\* and the test for the end of the bitmap (bitmap.c:79-90, 207-232) miss no run.
SearchIsComplete == [][\A t \in alone :
    pc[t].at \in {"load", "cas", "scan", "ahead"} /\ pc'[t] = Idle
        /\ held'[t] = held[t] => ~Available(pc[t].count)]_vars

\* Why it does: no run begins in the fields that it has been to.
Barren(j, n) ==
    \A p \in 0..(Size - n) : j * Bits <= p /\ p < j * Bits + Bits => ~Findable(p, n)

\* The fields that a search has yet to visit, the one it is at included.
Unvisited(c) ==
    {j \in Field : (IF c.idx <= j THEN j - c.idx ELSE j + Fields - c.idx) < c.left}

\* What a search that is alone knows: the runs it has seen are still there, so that it
\* never rolls back.
Sought(c) ==
    /\ c.at \in {"load", "cas", "scan", "ahead"} =>
        \A j \in Field \ Unvisited(c) : Barren(j, c.count)
    /\ c.at = "load" => ~c.nested
    /\ c.at = "cas" => c.run \cap map = {}
    /\ c.at \in {"scan", "ahead"} => c.count > 2 /\ FreeRuns(c.idx, c.count, 0) = {}
    /\ c.at = "ahead" =>
        /\ \E k \in 1..Bits : LeadingZeros(c.idx, k) /\ c.start = c.idx * Bits + Bits - k
        /\ c.run = Run(c.start, c.count)
        /\ \A b \in c.run : b[1] < c.f => b \notin map
    /\ c.at = "take" => \A b \in c.run : b[1] >= c.f => b \notin map
    /\ c.at # "back"

Undisturbed == \A t \in alone :
    Sought(pc[t]) /\ \A u \in Thread \ {t} : pc[u] = Idle
=============================================================================
