------------------------------- MODULE Bitmap -------------------------------
(***************************************************************************)
(* The concurrent bitmap of alloc_hook_bitmap.c, as the arenas use it for  *)
(* blocks_inuse: find and claim a run of zero bits, inside one field or    *)
(* across fields with rollback, claim a given run, unclaim a run.          *)
(*                                                                         *)
(* A bit is <<field, bit in the field>>, and the bitmap is the set of bits *)
(* that are 1.  One action is one atomic access to one field.  A loop      *)
(* around a CAS that sets bits which it found to be zero is one step: it   *)
(* ends when it sets them or reads one of them as 1, and an attempt that   *)
(* failed for another bit of the field changes nothing.                    *)
(***************************************************************************)
EXTENDS Integers, FiniteSets

CONSTANTS
    Thread,
    Bits,      \* ALLOC_HOOK_BITMAP_FIELD_BITS
    Fields,    \* field_count of the arena
    Blocks,    \* block_count of the arena; the bits behind are left over
    Counts,    \* bound: the lengths of the runs that are asked for
    Starts,    \* bound: the fields searches start at
    MaxHeld    \* bound: how many runs a thread holds

ASSUME BitmapAssumption ==
    /\ Bits \in Nat \ {0} /\ Fields \in Nat \ {0}
    /\ Blocks \in 1..(Fields * Bits) /\ Blocks > (Fields - 1) * Bits
    /\ Counts \subseteq Nat \ {0} /\ Starts \subseteq 0..(Fields - 1)
    /\ MaxHeld \in Nat

VARIABLES
    map,       \* the bits that are 1
    held,      \* the runs each thread has claimed and not given up
    pc,        \* where each thread is
    alone      \* history: the thread whose call nobody else's overlapped

vars == <<map, held, pc, alone>>

Field == 0..(Fields - 1)
Bit == Field \X (0..(Bits - 1))

\* alloc_hook_bitmap_index_create
Index(b) == b[1] * Bits + b[2]

FieldBits(i) == {i} \X (0..(Bits - 1))

Size == Fields * Bits

\* The n bits from index p on (bitmap_mask_, in one field or over several).
Run(p, n) == {b \in Bit : p <= Index(b) /\ Index(b) < p + n}

Runs == UNION {{Run(p, n) : p \in 0..(Size - n)} : n \in 1..Size}

\* The bits behind the last block, which the arena claims for itself.
LeftOver == {b \in Bit : Index(b) >= Blocks}

Label == {"idle", "load", "cas", "scan", "ahead", "take", "back", "unclaim"}

\* idx and left: the field the search is at and how many it has yet to visit.
\* run is the run a thread is after, or gives up; f the field in it where it
\* is.  nested: the search inside a field was called by the one across fields.
Control ==
    [at : Label, count : Nat, idx : Field, left : 0..Fields, start : 0..Size,
     run : SUBSET Bit, f : 0..Fields, retries : 0..3, nested : BOOLEAN]

Idle == [at |-> "idle", count |-> 0, idx |-> 0, left |-> 0, start |-> 0,
         run |-> {}, f |-> 0, retries |-> 0, nested |-> FALSE]

TypeOK ==
    /\ map \subseteq Bit
    /\ held \in [Thread -> SUBSET SUBSET Bit]
    /\ pc \in [Thread -> Control]
    /\ alone \subseteq Thread

Init ==
    /\ map = LeftOver
    /\ held = [t \in Thread |-> {}]
    /\ pc = [t \in Thread |-> Idle]
    /\ alone = {}

\* t's call begins: it is alone if no other call is under way, and then it
\* stays so until the next call begins.
Enter(t) ==
    alone' = IF \A u \in Thread : pc[u] = Idle THEN {t} ELSE {}

-----------------------------------------------------------------------------
(* _alloc_hook_bitmap_try_find_from_claim_across                           *)

\* Mutant of FreeRuns: it stops before the last place in the field.
FreeRunsShort(i, n, p) ==
    {q \in (i * Bits)..(i * Bits + Bits - n - 1) :
        p <= q /\ Run(q, n) \cap map = {}}

\* The free runs of n bits inside field i, from index p on: the code
\* skips to the first zero, then behind the last 1 that is in the way.
FreeRuns(i, n, p) ==
    {q \in (i * Bits)..(i * Bits + Bits - n) : p <= q /\ Run(q, n) \cap map = {}}

\* The next field to visit, or the end of the search without success.  Short
\* runs never cross fields, and long ones always do.
Visit(c, idx, left) ==
    IF left = 0 THEN Idle
    ELSE [Idle EXCEPT !.at = IF c.count <= 2 \/ c.count <= Bits THEN "load" ELSE "scan",
                      !.count = c.count, !.idx = idx, !.left = left]

Advance(c) == Visit(c, (c.idx + 1) % Fields, c.left - 1)

\* try_find_claim_field found nothing: cross into the next fields, unless the
\* run is short or that is where the call came from.
InsideFails(c) ==
    IF c.count <= 2 \/ c.nested THEN Advance(c)
    ELSE [Idle EXCEPT !.at = "scan", !.count = c.count, !.idx = c.idx,
                      !.left = c.left]

Find(t, n, i) ==
    /\ pc[t] = Idle /\ Cardinality(held[t]) < MaxHeld
    /\ pc' = [pc EXCEPT ![t] = Visit([Idle EXCEPT !.count = n], i, Fields)]
    /\ Enter(t)
    /\ UNCHANGED <<map, held>>

\* try_find_claim_field: the first free run of the field from index p on, or
\* none.
Inside(t, p) ==
    LET free == FreeRuns(pc[t].idx, pc[t].count, p)
    IN  \/ /\ free = {}
           /\ pc' = [pc EXCEPT ![t] = InsideFails(@)]
        \/ \E q \in free :
              /\ \A r \in free : q <= r
              /\ pc' = [pc EXCEPT ![t].at = "cas", ![t].start = q,
                                  ![t].run = Run(q, pc[t].count)]

Load(t) ==
    /\ pc[t].at = "load"
    /\ Inside(t, 0)
    /\ UNCHANGED <<map, held, alone>>

\* Claim the run, or go on from there with what the field is now.
Cas(t) ==
    /\ pc[t].at = "cas"
    /\ \/ /\ pc[t].run \cap map = {}
          /\ map' = map \cup pc[t].run
          /\ held' = [held EXCEPT ![t] = @ \cup {pc[t].run}]
          /\ pc' = [pc EXCEPT ![t] = Idle]
       \/ /\ pc[t].run \cap map # {}
          /\ Inside(t, pc[t].start)
          /\ UNCHANGED <<map, held>>
    /\ UNCHANGED alone

\* alloc_hook_clz: the last k bits of field i are zero, and no more.
LeadingZeros(i, k) ==
    /\ {b \in FieldBits(i) : b[2] >= Bits - k} \cap map = {}
    /\ k = Bits \/ <<i, Bits - k - 1>> \in map

\* _alloc_hook_divide_up
DivideUp(n, k) == (n + k - 1) \div k

\* try_find_claim_field_across: the run starts with the zeros at the end of
\* the field and goes on in the fields behind.
Scan(t) ==
    /\ pc[t].at = "scan"
    /\ \E initial \in 0..Bits :
        LET c     == pc[t]
            start == c.idx * Bits + Bits - initial
            short == DivideUp(c.count - initial, Bits) >= Fields - c.idx
        IN  /\ LeadingZeros(c.idx, initial)
            /\ pc' = [pc EXCEPT ![t] =
                 IF initial >= c.count
                   THEN [c EXCEPT !.at = "load", !.nested = TRUE]
                 ELSE IF initial = 0 \/ short THEN Advance(c)
                 ELSE [c EXCEPT !.at = "ahead", !.start = start,
                                !.run = Run(start, c.count), !.f = c.idx + 1]]
    /\ UNCHANGED <<map, held, alone>>

\* The part of t's run that lies in field i, and whether that is the last one.
Part(t, i) == {b \in pc[t].run : b[1] = i}
LastField(t, i) == \A b \in pc[t].run : b[1] <= i

\* scan ahead: one field is read at a time.
Ahead(t) ==
    /\ pc[t].at = "ahead"
    /\ LET f == pc[t].f
       IN  pc' = [pc EXCEPT ![t] =
             IF Part(t, f) \cap map # {} THEN Advance(@)
             ELSE IF LastField(t, f) THEN [@ EXCEPT !.at = "take", !.f = pc[t].idx]
             ELSE [@ EXCEPT !.f = f + 1]]
    /\ UNCHANGED <<map, held, alone>>

\* After a rollback, up to three more attempts.
Retry(c) ==
    IF c.retries <= 2
      THEN [Idle EXCEPT !.at = "scan", !.count = c.count, !.idx = c.idx,
                        !.left = c.left, !.retries = c.retries + 1]
      ELSE Advance(c)

\* Mutants of Take: the rollback starts with the field it failed to claim; the
\* bits are set without a look at what they were.
TakeBackTooMuch(t) ==
    /\ pc[t].at = "take"
    /\ LET f == pc[t].f
       IN  \/ /\ Part(t, f) \cap map = {}
              /\ map' = map \cup Part(t, f)
              /\ IF LastField(t, f)
                   THEN /\ held' = [held EXCEPT ![t] = @ \cup {pc[t].run}]
                        /\ pc' = [pc EXCEPT ![t] = Idle]
                   ELSE /\ pc' = [pc EXCEPT ![t].f = f + 1]
                        /\ UNCHANGED held
           \/ /\ Part(t, f) \cap map # {}
              /\ pc' = [pc EXCEPT ![t].at = "back"]
              /\ UNCHANGED <<map, held>>
    /\ UNCHANGED alone
TakeBlindly(t) ==
    /\ pc[t].at = "take"
    /\ map' = map \cup Part(t, pc[t].f)
    /\ IF LastField(t, pc[t].f)
         THEN /\ held' = [held EXCEPT ![t] = @ \cup {pc[t].run}]
              /\ pc' = [pc EXCEPT ![t] = Idle]
         ELSE /\ pc' = [pc EXCEPT ![t].f = @ + 1]
              /\ UNCHANGED held
    /\ UNCHANGED alone

\* Claim the part in one field: the run's bits there must be zero, which in an
\* intermediate field is all of it.
Take(t) ==
    /\ pc[t].at = "take"
    /\ LET f == pc[t].f
       IN  \/ /\ Part(t, f) \cap map = {}
              /\ map' = map \cup Part(t, f)
              /\ IF LastField(t, f)
                   THEN /\ held' = [held EXCEPT ![t] = @ \cup {pc[t].run}]
                        /\ pc' = [pc EXCEPT ![t] = Idle]
                   ELSE /\ pc' = [pc EXCEPT ![t].f = f + 1]
                        /\ UNCHANGED held
           \/ /\ Part(t, f) \cap map # {}
              /\ pc' = [pc EXCEPT ![t] =
                   IF f = @.idx THEN Retry(@)
                   ELSE [@ EXCEPT !.at = "back", !.f = f - 1]]
              /\ UNCHANGED <<map, held>>
    /\ UNCHANGED alone

\* Roll back field by field, down to the first: an intermediate field is set
\* to 0, in the first the bits of the run are cleared.
Back(t) ==
    /\ pc[t].at = "back"
    /\ LET f == pc[t].f
       IN  /\ map' = map \ (IF f > pc[t].idx THEN FieldBits(f) ELSE Part(t, f))
           /\ pc' = [pc EXCEPT ![t] = IF f > @.idx THEN [@ EXCEPT !.f = f - 1]
                                      ELSE Retry(@)]
    /\ UNCHANGED <<held, alone>>

-----------------------------------------------------------------------------
\* try_claim of n bits from index p on, in one field.
TryClaim(t, p, n) ==
    /\ pc[t] = Idle /\ Cardinality(held[t]) < MaxHeld
    /\ (p % Bits) + n <= Bits
    /\ Run(p, n) \cap map = {}
    /\ map' = map \cup Run(p, n)
    /\ held' = [held EXCEPT ![t] = @ \cup {Run(p, n)}]
    /\ Enter(t)
    /\ UNCHANGED pc

\* Clear the bits of r that lie in field f.
ClearField(t, r, f) ==
    /\ map' = map \ {b \in r : b[1] = f}
    /\ pc' = [pc EXCEPT ![t] =
         IF \E b \in r : b[1] > f
           THEN [Idle EXCEPT !.at = "unclaim", !.run = r, !.f = f + 1]
           ELSE Idle]

\* unclaim (unclaim_across) of a run: the thread gives it up with the first
\* field it clears.
Unclaim(t, r) ==
    /\ pc[t] = Idle /\ r \in held[t]
    /\ held' = [held EXCEPT ![t] = @ \ {r}]
    /\ \E f \in Field :
        /\ \E b \in r : b[1] = f
        /\ \A b \in r : b[1] >= f
        /\ ClearField(t, r, f)
    /\ Enter(t)

UnclaimNext(t) ==
    /\ pc[t].at = "unclaim"
    /\ ClearField(t, pc[t].run, pc[t].f)
    /\ UNCHANGED <<held, alone>>

-----------------------------------------------------------------------------
Step(t) ==
    \/ \E n \in Counts, i \in Starts : Find(t, n, i)
    \/ Load(t) \/ Cas(t) \/ Scan(t) \/ Ahead(t) \/ Take(t) \/ Back(t)
    \/ \E p \in 0..(Size - 1), n \in 1..Bits : TryClaim(t, p, n)
    \/ \E r \in held[t] : Unclaim(t, r)
    \/ UnclaimNext(t)

Next == \E t \in Thread : Step(t)

Spec == Init /\ [][Next]_vars
=============================================================================
