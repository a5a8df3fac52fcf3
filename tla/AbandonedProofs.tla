-------------------------- MODULE AbandonedProofs ---------------------------
(***************************************************************************)
(* Theorems about AbandonedList: its inductive invariant, that readers are *)
(* safe, that a pop alone finds what there is, and that the list is a set. *)
(***************************************************************************)
EXTENDS AbandonedProps, FiniteSetTheorems, TLAPS

-----------------------------------------------------------------------------
(* What the links of segments reach.                                       *)

Links == [Segment -> Segment \cup {Null}]
Cell == Segment \cup {Null}

\* R has the first segment, and with each but the last the next one.
Closed(R, link, first, last) ==
    /\ R \subseteq Segment /\ first \in R \cup {Null}
    /\ \A r \in R \ {last} : link[r] \in R \cup {Null}

\* What is reached is closed, and the least set that is.
LEMMA ReachLeast ==
    ASSUME NEW link \in Links, NEW f \in Cell, NEW l
    PROVE  /\ Closed(Reach(link, f, l), link, f, l)
           /\ \A R : Closed(R, link, f, l) => Reach(link, f, l) \subseteq R
<1>1. \A R : Closed(R, link, f, l) => Reach(link, f, l) \subseteq R
  BY DEF Reach, Closed
<1>2. f \in Reach(link, f, l) \cup {Null}
  BY DEF Reach, Cell
<1>3. ASSUME NEW r \in Reach(link, f, l) \ {l}, link[r] # Null
      PROVE  link[r] \in Reach(link, f, l)
  <2>1. r \in Segment /\ link[r] \in Segment
    BY <1>3 DEF Reach, Links
  <2>2. ASSUME NEW R \in SUBSET Segment, f \in R \cup {Null},
               \A q \in R \ {l} : link[q] \in R \cup {Null}
        PROVE  link[r] \in R
    <3>1. r \in R
      BY <2>2 DEF Reach
    <3> QED
      BY <1>3, <2>2, <3>1
  <2> QED
    BY <2>1, <2>2 DEF Reach
<1> QED
  BY <1>1, <1>2, <1>3 DEF Closed, Reach

LEMMA ReachNull ==
    ASSUME NEW link \in Links, NEW l
    PROVE  Reach(link, Null, l) = {}
<1>1. Closed({}, link, Null, l)
  BY DEF Closed
<1> QED
  BY <1>1, ReachLeast DEF Cell

\* Links that nobody follows on the way do not matter.
LEMMA ReachSame ==
    ASSUME NEW link \in Links, NEW k \in Links, NEW f \in Cell, NEW l,
           \A s \in Reach(link, f, l) \ {l} : k[s] = link[s]
    PROVE  Reach(k, f, l) = Reach(link, f, l)
<1> DEFINE A == Reach(link, f, l)
           B == Reach(k, f, l)
<1>1. Closed(A, link, f, l) /\ Closed(B, k, f, l)
  BY ReachLeast
<1>2. Closed(A, k, f, l)
  BY <1>1 DEF Closed
<1>3. B \subseteq A
  BY <1>2, ReachLeast
<1>4. Closed(B, link, f, l)
  BY <1>1, <1>3 DEF Closed
<1>5. A \subseteq B
  BY <1>4, ReachLeast
<1> QED
  BY <1>3, <1>5

LEMMA ReachFirst ==
    ASSUME NEW link \in Links, NEW f \in Segment, NEW l, l # f
    PROVE  Reach(link, f, l) = {f} \cup Reach(link, link[f], l)
<1> DEFINE A == Reach(link, f, l)
           B == Reach(link, link[f], l)
<1>1. Closed(A, link, f, l)
  BY ReachLeast DEF Cell
<1>2. Closed(B, link, link[f], l)
  BY ReachLeast DEF Cell, Links
<1>3. Closed({f} \cup B, link, f, l)
  BY <1>2 DEF Closed
<1>4. A \subseteq {f} \cup B
  BY <1>3, ReachLeast DEF Cell
<1>5. f \in A /\ Closed(A, link, link[f], l)
  BY <1>1, AbandonedAssumption DEF Closed
<1>6. B \subseteq A
  BY <1>5, ReachLeast DEF Cell, Links
<1> QED
  BY <1>4, <1>5, <1>6

\* A chain is what leads to one of its segments and what comes after it.
LEMMA ReachJoin ==
    ASSUME NEW link \in Links, NEW f \in Cell, NEW l, l \in Reach(link, f, l)
    PROVE  Reach(link, f, Null) = Reach(link, f, l) \cup Reach(link, link[l], Null)
<1> DEFINE A == Reach(link, f, l)
           B == Reach(link, link[l], Null)
           C == Reach(link, f, Null)
<1>1. l \in Segment
  BY DEF Reach
<1>2. Closed(A, link, f, l) /\ Closed(B, link, link[l], Null) /\ Closed(C, link, f, Null)
  BY <1>1, ReachLeast DEF Cell, Links
<1>3. Closed(A \cup B, link, f, Null)
  BY <1>2 DEF Closed
<1>4. C \subseteq A \cup B
  BY <1>3, ReachLeast
<1>5. Closed(C, link, f, l)
  BY <1>2, AbandonedAssumption DEF Closed
<1>6. A \subseteq C
  BY <1>5, ReachLeast
<1>7. Closed(C, link, link[l], Null)
  BY <1>1, <1>2, <1>6, AbandonedAssumption DEF Closed
<1>8. B \subseteq C
  BY <1>1, <1>7, ReachLeast DEF Cell, Links
<1> QED
  BY <1>4, <1>6, <1>8

\* A segment without a link ends the chain wherever one would stop.
LEMMA ReachEnd ==
    ASSUME NEW link \in Links, NEW f \in Cell, NEW l, link[l] = Null
    PROVE  Reach(link, f, l) = Reach(link, f, Null)
<1>1. \A R : Closed(R, link, f, l) <=> Closed(R, link, f, Null)
  BY AbandonedAssumption DEF Closed
<1> QED
  BY <1>1, ReachLeast

\* In a chain that ends no segment comes back to itself.
LEMMA NoCycle ==
    ASSUME NEW link \in Links, NEW f \in Segment,
           NEW e \in Reach(link, f, Null), link[e] = Null
    PROVE  f \notin Reach(link, link[f], Null)
<1> SUFFICES ASSUME f \in Reach(link, link[f], Null)
             PROVE  FALSE
  OBVIOUS
<1> DEFINE C(s) == Reach(link, s, Null)
           R == {s \in C(f) : f \in C(s)}
<1>1. C(Null) = {}
  BY ReachNull
<1>2. \A s \in Segment : C(s) = {s} \cup C(link[s])
  BY ReachFirst, AbandonedAssumption
<1>3. Closed(C(f), link, f, Null)
  BY ReachLeast DEF Cell
<1>4. ASSUME NEW s \in R PROVE link[s] \in R
  <2>1. s \in Segment /\ s \in C(f) /\ f \in C(s)
    BY <1>3, <1>4 DEF Closed
  <2>2. f \in C(link[s])
    BY <1>2, <2>1
  <2>3. link[s] # Null
    BY <1>1, <2>2
  <2>4. link[s] \in C(f)
    BY <1>3, <2>1, <2>3, AbandonedAssumption DEF Closed
  <2> QED
    BY <2>2, <2>4
<1>5. f \in R
  BY <1>2
<1>6. Closed(R, link, f, Null)
  BY <1>3, <1>4, <1>5 DEF Closed
<1>7. e \in R
  BY <1>6, ReachLeast DEF Cell
<1>8. e \in Segment /\ f \in C(e)
  BY <1>3, <1>7 DEF Closed
<1>9. f = e
  BY <1>1, <1>2, <1>8
<1> QED
  BY <1>1, <1>9

-----------------------------------------------------------------------------
(* What a step leaves to the other threads.                                *)

LEMMA Typed ==
    ASSUME TypeOK
    PROVE  /\ next \in Links /\ abandoned.ptr \in Cell /\ visited \in Cell
           /\ \A t \in Thread : /\ pc[t] \in Control /\ pc[t].seg \in Cell
                                /\ pc[t].anext \in Cell /\ pc[t].ts \in Tagged
                                /\ pc[t].ts.ptr \in Cell
BY DEF TypeOK, Links, Cell, Tagged, Control

\* The others are where they were.
LEMMA StepIs ==
    ASSUME TypeOK, NEW t \in Thread, NEW c \in Control, Step(t, c)
    PROVE  /\ pc' \in [Thread -> Control] /\ pc'[t] = c
           /\ \A u \in Thread \ {t} :
                  /\ pc'[u].at = pc[u].at /\ pc'[u].call = pc[u].call
                  /\ pc'[u].ts = pc[u].ts /\ pc'[u].seg = pc[u].seg
                  /\ pc'[u].anext = pc[u].anext /\ pc'[u].calm = FALSE
<1>1. \A u \in Thread : [pc[u] EXCEPT !.calm = FALSE] \in Control
  BY Typed DEF Control
<1>2. pc' \in [Thread -> Control]
  BY <1>1 DEF Step
<1>3. pc'[t] = c
  BY DEF Step
<1>4. ASSUME NEW u \in Thread \ {t}
      PROVE  /\ pc'[u].at = pc[u].at /\ pc'[u].call = pc[u].call
             /\ pc'[u].ts = pc[u].ts /\ pc'[u].seg = pc[u].seg
             /\ pc'[u].anext = pc[u].anext /\ pc'[u].calm = FALSE
  <2>1. pc'[u] = [pc[u] EXCEPT !.calm = FALSE] /\ pc[u] \in Control
    BY Typed DEF Step
  <2> QED
    BY <2>1 DEF Control
<1> QED
  BY <1>2, <1>3, <1>4

\* The step writes no link and no owner but those of x, which is no segment of the
\* shared chains and none of another thread.
Touches(t, x) ==
    /\ next' \in Links /\ threadId' \in [Segment -> Thread \cup {NoThread}]
    /\ \A s \in Segment \ {x} : next'[s] = next[s] /\ threadId'[s] = threadId[s]
    /\ x \in Segment => threadId'[x] \in {t, NoThread}
    /\ x \notin Shared
    /\ \A u \in Thread \ {t} : x \notin Mine(u)

LEMMA MayTouch ==
    ASSUME OneHome, NEW t \in Thread, NEW x, x \in Mine(t) \/ x \notin mapped
    PROVE  x \notin Shared /\ \A u \in Thread \ {t} : x \notin Mine(u)
BY DEF OneHome

LEMMA OthersStay ==
    ASSUME IInv, NEW t \in Thread, NEW c \in Control, Step(t, c),
           NEW x, Touches(t, x)
    PROVE  /\ Reach(next', abandoned.ptr, Null) = Chain(abandoned.ptr)
           /\ Reach(next', visited, Null) = Chain(visited)
           /\ \A u \in Thread \ {t} : Held(u)' = Held(u) /\ Grabbed(u)' = Grabbed(u)
<1>1. TypeOK
  BY DEF IInv
<1>2. Reach(next', abandoned.ptr, Null) = Chain(abandoned.ptr)
  <2>1. \A s \in Reach(next, abandoned.ptr, Null) \ {Null} : next'[s] = next[s]
    BY DEF Touches, Shared, Chain, Reach
  <2> QED
    BY <1>1, <2>1, Typed, ReachSame DEF Chain, Touches
<1>3. Reach(next', visited, Null) = Chain(visited)
  <2>1. \A s \in Reach(next, visited, Null) \ {Null} : next'[s] = next[s]
    BY DEF Touches, Shared, Chain, Reach
  <2> QED
    BY <1>1, <2>1, Typed, ReachSame DEF Chain, Touches
<1>4. ASSUME NEW u \in Thread \ {t}
      PROVE  Held(u)' = Held(u) /\ Grabbed(u)' = Grabbed(u)
  <2>1. /\ pc'[u].at = pc[u].at /\ pc'[u].seg = pc[u].seg
        /\ pc'[u].anext = pc[u].anext
    BY <1>1, StepIs
  <2>2. \A s \in Segment : threadId'[s] = u <=> threadId[s] = u
    BY AbandonedAssumption DEF Touches, Mine, Held, Holds
  <2>3. Held(u)' = Held(u)
    BY <2>1, <2>2 DEF Held, Holds
  <2>4. CASE pc[u].at \notin MovingAt
    BY <2>1, <2>3, <2>4 DEF Grabbed
  <2>5. CASE pc[u].at \in MovingAt
    <3> DEFINE f == pc[u].seg
               l == pc[u].anext
    <3>1. Grabbed(u) = Reach(next, f, l)
      BY <2>5 DEF Grabbed
    <3>2. \A s \in Reach(next, f, l) \ {l} : next'[s] = next[s]
      BY <3>1 DEF Touches, Mine, Reach
    <3>3. Reach(next', f, l) = Reach(next, f, l)
      BY <1>1, <3>2, Typed, ReachSame DEF Touches
    <3> QED
      BY <2>1, <2>3, <2>5, <3>1, <3>3 DEF Grabbed
  <2> QED
    BY <2>4, <2>5
<1> QED
  BY <1>2, <1>3, <1>4

\* The link and the owner of what another thread has are as they were.
LEMMA OthersKeep ==
    ASSUME NEW t \in Thread, NEW x, Touches(t, x), NEW u \in Thread \ {t},
           NEW s \in Mine(u)
    PROVE  s \in Segment /\ next'[s] = next[s] /\ threadId'[s] = threadId[s]
BY DEF Touches, Mine, Held, Grabbed, Reach

LEMMA OthersLinked ==
    ASSUME IInv, NEW t \in Thread, NEW c \in Control, Step(t, c),
           NEW x, Touches(t, x),
           abandoned' = abandoned \/ \A u \in Thread : pc[u].ts # abandoned'
    PROVE  \A u \in Thread \ {t} : Shape(pc[u])' /\ Linked(u)'
<1> SUFFICES ASSUME NEW u \in Thread \ {t}
             PROVE  Shape(pc[u])' /\ Linked(u)'
  OBVIOUS
<1>1. TypeOK /\ Shape(pc[u]) /\ Linked(u)
  BY DEF IInv
<1>2. /\ pc'[u].at = pc[u].at /\ pc'[u].call = pc[u].call
      /\ pc'[u].ts = pc[u].ts /\ pc'[u].seg = pc[u].seg
      /\ pc'[u].anext = pc[u].anext
  BY <1>1, StepIs
<1>3. Grabbed(u)' = Grabbed(u)
  BY OthersStay
<1>4. \A s \in Mine(u) : next'[s] = next[s]
  BY OthersKeep
<1>5. Shape(pc[u])'
  BY <1>1, <1>2 DEF Shape
<1>6. pc[u].at \in HandAt \ {"leave"} => next'[pc[u].seg] = next[pc[u].seg]
  <2>1. pc[u].at \in HandAt \ {"leave"} => pc[u].seg \in Mine(u)
    BY <1>1, Typed DEF Mine, Held, Holds, Shape, Cell
  <2> QED
    BY <1>4, <2>1
<1>7. pc[u].at = "take" /\ abandoned' = pc[u].ts => pc[u].anext = next'[pc[u].ts.ptr]
  <2> SUFFICES ASSUME pc[u].at = "take", abandoned' = pc[u].ts
               PROVE  pc[u].anext = next'[pc[u].ts.ptr]
    OBVIOUS
  <2>1. abandoned = pc[u].ts /\ pc[u].ts.ptr \in Segment
    BY <1>1, Typed DEF Shape, Cell
  <2>2. pc[u].ts.ptr \in Chain(abandoned.ptr)
    BY <1>1, <2>1, Typed, ReachLeast, AbandonedAssumption DEF Closed, Chain
  <2>3. pc[u].ts.ptr # x
    BY <2>2 DEF Touches, Shared
  <2> QED
    BY <1>1, <2>1, <2>3 DEF Linked, Touches
<1>8. pc[u].at \in {"swap", "swapCas", "prepend"} => Ends(pc[u].seg)'
  <2> SUFFICES ASSUME pc[u].at \in {"swap", "swapCas", "prepend"}
               PROVE  Ends(pc[u].seg)'
    OBVIOUS
  <2>1. pc[u].anext = Null /\ pc[u].seg # Null /\ Ends(pc[u].seg)
    BY <1>1 DEF Shape, Linked, MovingAt
  <2>2. PICK e \in Chain(pc[u].seg) : next[e] = Null
    BY <2>1 DEF Ends
  <2>3. e \in Grabbed(u)
    BY <2>1, <2>2 DEF Grabbed, Chain, MovingAt
  <2>4. next'[e] = Null /\ e \in Grabbed(u)'
    BY <1>3, <1>4, <2>2, <2>3 DEF Mine
  <2>5. e \in Chain(pc[u].seg)'
    BY <1>2, <2>1, <2>4 DEF Grabbed, Chain, MovingAt
  <2> QED
    BY <2>4, <2>5 DEF Ends
<1>9. pc[u].at \in {"splice", "prependCas"} =>
          pc[u].anext \in Grabbed(u)' /\ next'[pc[u].anext] = next[pc[u].anext]
  BY <1>1, <1>3, <1>4 DEF Linked, Mine
<1>10. Linked(u)'
  BY <1>1, <1>2, <1>6, <1>7, <1>8, <1>9 DEF Linked, HandAt
<1> QED
  BY <1>5, <1>10

\* No segment goes that somebody reads.
LEMMA OthersRead ==
    ASSUME IInv, NEW t \in Thread, NEW c \in Control, Step(t, c),
           \A s \in mapped \ mapped' : pc[t].at = "unmap" /\ s = pc[t].seg,
           c.at = "unmap" => \A u \in Thread : pc[u].at # "next"
    PROVE  \A u \in Thread \ {t} : Reading(u)' /\ Alone(u)'
<1>1. TypeOK /\ \A u \in Thread : Reading(u)
  BY DEF IInv
<1>2. pc'[t] = c /\ \A u \in Thread \ {t} :
          pc'[u].at = pc[u].at /\ pc'[u].ts = pc[u].ts /\ pc'[u].seg = pc[u].seg
              /\ pc'[u].calm = FALSE
  BY <1>1, StepIs
<1>3. ASSUME NEW u \in Thread \ {t} PROVE Reading(u)'
  BY <1>1, <1>2 DEF Reading
<1>4. ASSUME NEW u \in Thread \ {t} PROVE Alone(u)'
  BY <1>2 DEF Alone
<1> QED
  BY <1>3, <1>4

LEMMA StillUnlinked ==
    ASSUME IInv, NEW t \in Thread, NEW c \in Control, Step(t, c),
           NEW x, Touches(t, x),
           x \in Segment /\ threadId'[x] # NoThread => next'[x] = Null,
           c.at \in HandAt /\ c.seg # Null => threadId'[c.seg] = NoThread
    PROVE  Unlinked'
<1>1. TypeOK /\ Unlinked
  BY DEF IInv
<1>2. pc'[t] = c /\ \A u \in Thread \ {t} : pc'[u].at = pc[u].at /\ pc'[u].seg = pc[u].seg
  BY <1>1, StepIs
<1>3. ASSUME NEW s \in Segment, threadId'[s] # NoThread PROVE next'[s] = Null
  BY <1>1, <1>3 DEF Unlinked, Touches
<1>4. ASSUME NEW u \in Thread \ {t}, pc[u].at \in HandAt, pc[u].seg # Null
      PROVE  threadId'[pc[u].seg] = NoThread
  <2>1. pc[u].seg \in Mine(u)
    BY <1>1, <1>4, Typed DEF Mine, Held, Holds, Cell
  <2> QED
    BY <1>1, <1>4, <2>1, OthersKeep DEF Unlinked
<1> QED
  BY <1>2, <1>3, <1>4 DEF Unlinked

-----------------------------------------------------------------------------
(* What the step itself has to show.                                       *)

\* The places of the segments that t may move, and all of these.
Fits(t) ==
    /\ Chain(abandoned.ptr) \cap Chain(visited) = {}
    /\ Shared \subseteq mapped
    /\ Held(t) \cap Grabbed(t) = {}
    /\ Mine(t) \subseteq mapped \ Shared
Movable(t) == Shared \cup Mine(t) \cup (Segment \ mapped)

LEMMA HomesKept ==
    ASSUME OneHome, TypeOK, TypeOK', NEW t \in Thread,
           \A u \in Thread \ {t} : Held(u)' = Held(u) /\ Grabbed(u)' = Grabbed(u),
           Fits(t)', Movable(t)' = Movable(t)
    PROVE  OneHome'
<1>1. \A u \in Thread : Mine(u) \subseteq Segment /\ Mine(u)' \subseteq Segment
  BY DEF Mine, Held, Grabbed, Reach
<1>2. ASSUME NEW u \in Thread \ {t}
      PROVE  /\ (Held(u) \cap Grabbed(u))' = {} /\ Mine(u)' = Mine(u)
             /\ Mine(u) \cap Movable(t) = {}
  <2>1. Mine(u) \subseteq mapped \ Shared /\ Mine(u) \cap Mine(t) = {}
        /\ Held(u) \cap Grabbed(u) = {}
    BY DEF OneHome
  <2> QED
    BY <2>1 DEF Mine, Movable
<1>3. ASSUME NEW u \in Thread \ {t}
      PROVE  Mine(u)' \subseteq (mapped \ Shared)' /\ Mine(t)' \cap Mine(u)' = {}
  <2>1. Mine(u)' \cap Movable(t)' = {}
    BY <1>2
  <2>2. Shared' \cup Mine(t)' \cup (Segment \ mapped') \subseteq Movable(t)'
    BY DEF Movable
  <2> QED
    BY <1>1, <2>1, <2>2
<1>4. ASSUME NEW u \in Thread \ {t}, NEW v \in Thread \ {u}
      PROVE  Mine(u)' \cap Mine(v)' = {}
  BY <1>2, <1>3 DEF OneHome
<1>5. mapped' \subseteq Shared' \cup UNION {Mine(u)' : u \in Thread}
  <2> SUFFICES ASSUME NEW s \in mapped', s \notin Shared', s \notin Mine(t)'
               PROVE  \E u \in Thread : s \in Mine(u)'
    OBVIOUS
  <2>1. s \in Segment /\ s \notin Movable(t)'
    BY DEF Movable, TypeOK
  <2>2. s \in mapped /\ s \notin Shared /\ s \notin Mine(t)
    BY <2>1 DEF Movable
  <2>3. PICK u \in Thread \ {t} : s \in Mine(u)
    BY <2>2 DEF OneHome
  <2> QED
    BY <1>2, <2>3
<1>6. Fits(t)' => /\ (Chain(abandoned.ptr) \cap Chain(visited))' = {}
                  /\ (Shared \subseteq mapped)' /\ (Held(t) \cap Grabbed(t))' = {}
                  /\ (Mine(t) \subseteq mapped \ Shared)'
  BY DEF Fits
<1> QED
  BY <1>2, <1>3, <1>4, <1>5, <1>6 DEF OneHome

Reader == {t \in Thread : pc[t].at \in ReadAt}

LEMMA ReadersFinite ==
    IsFiniteSet(Reader) /\ Cardinality(Reader) \in 0..Cardinality(Thread)
<1>1. IsFiniteSet(Thread) /\ Reader \subseteq Thread
  BY AbandonedAssumption DEF Reader
<1>2. IsFiniteSet(Reader) /\ Cardinality(Reader) <= Cardinality(Thread)
  BY <1>1, FS_Subset
<1>3. Cardinality(Reader) \in Nat /\ Cardinality(Thread) \in Nat
  BY <1>1, <1>2, FS_CardinalityType
<1> QED
  BY <1>2, <1>3

LEMMA StillCounted ==
    ASSUME IInv, NEW t \in Thread, NEW c \in Control, Step(t, c), readers' = readers,
           c.at \in ReadAt <=> pc[t].at \in ReadAt
    PROVE  Counted'
<1>1. pc'[t] = c /\ \A u \in Thread \ {t} : pc'[u].at = pc[u].at
  BY StepIs DEF IInv
<1>2. {u \in Thread : pc'[u].at \in ReadAt} = {u \in Thread : pc[u].at \in ReadAt}
  BY <1>1
<1> QED
  BY <1>2 DEF IInv, Counted

LEMMA StepHolds ==
    ASSUME IInv, NEW t \in Thread, NEW c \in Control, Step(t, c),
           NEW x, Touches(t, x), TypeOK',
           abandoned' = abandoned \/ \A u \in Thread : pc[u].ts # abandoned',
           \A s \in mapped \ mapped' : pc[t].at = "unmap" /\ s = pc[t].seg,
           c.at = "unmap" => \A u \in Thread : pc[u].at # "next",
           x \in Segment /\ threadId'[x] # NoThread => next'[x] = Null,
           c.at \in HandAt /\ c.seg # Null => threadId'[c.seg] = NoThread,
           Fits(t)', Movable(t)' = Movable(t),
           Ends(abandoned.ptr)', Ends(visited)',
           Counted', Shape(c), Linked(t)', Reading(t)', Alone(t)'
    PROVE  IInv'
<1>1. OneHome'
  BY OthersStay, HomesKept DEF IInv
<1>2. Unlinked'
  BY StillUnlinked
<1>3. \A u \in Thread \ {t} : Shape(pc[u])' /\ Linked(u)'
  BY OthersLinked
<1>4. \A u \in Thread \ {t} : Reading(u)' /\ Alone(u)'
  BY OthersRead
<1>5. Shape(pc[t])'
  <2>1. pc'[t] = c
    BY StepIs DEF IInv
  <2> QED
    BY <2>1 DEF Shape
<1> QED
  BY <1>1, <1>2, <1>3, <1>4, <1>5 DEF IInv

\* The tag of a compare-and-swap that succeeds is in nobody's copy.
LEMMA TagIsNew ==
    ASSUME TypeOK, NEW t \in Thread, abandoned = pc[t].ts
    PROVE  NewTag(abandoned) \in Tag /\ \A u \in Thread : pc[u].ts.tag # NewTag(abandoned)
<1> DEFINE f == [u \in Thread |-> pc[u].ts.tag]
           T == {pc[u].ts.tag : u \in Thread}
           last == Tags - 1
<1>1. IsFiniteSet(T) /\ Cardinality(T) <= Cardinality(Thread)
  <2>1. f \in Surjection(Thread, T)
    BY DEF Surjection
  <2> HIDE DEF f, T
  <2> QED
    BY <2>1, AbandonedAssumption, FS_Surjection
<1>2. Tags \in Nat /\ Cardinality(Thread) < Tags /\ Cardinality(Thread) \in Nat
      /\ Cardinality(T) \in Nat
  <2> HIDE DEF T
  <2> QED
    BY <1>1, AbandonedAssumption, FS_CardinalityType
<1>3. IsFiniteSet(Tag) /\ Cardinality(Tag) = Tags
  <2>1. Tag = 0..last /\ last \in Int /\ 0 \in Int /\ last >= 0
    BY <1>2 DEF Tag
  <2>2. IsFiniteSet(0..last)
        /\ Cardinality(0..last) = IF 0 > last THEN 0 ELSE last - 0 + 1
    <3> HIDE DEF last
    <3> QED
      BY <2>1, FS_Interval
  <2> QED
    BY <1>2, <2>1, <2>2
<1>4. PICK n \in Tag : n \notin T
  <2>1. ~ (Tag \subseteq T)
    <3> SUFFICES ASSUME Tag \subseteq T PROVE FALSE
      OBVIOUS
    <3>1. Cardinality(Tag) <= Cardinality(T)
      BY <1>1, FS_Subset
    <3> QED
      BY <1>1, <1>2, <1>3, <3>1
  <2> QED
    BY <2>1
<1>5. n \in Tag \ {abandoned.tag} /\ \A u \in Thread : pc[u].ts.tag # n
  BY <1>4
<1>6. \E m \in Tag \ {abandoned.tag} : \A u \in Thread : pc[u].ts.tag # m
  BY <1>5
<1> QED
  BY <1>6 DEF NewTag
  
\* It succeeds with a value that nobody has a copy of, or t has a new copy.
LEMMA CasIs ==
    ASSUME TypeOK, NEW t \in Thread, NEW s \in Cell,
           NEW success \in Control, NEW failure \in Control, Cas(t, s, success, failure)
    PROVE  \/ /\ abandoned = pc[t].ts /\ abandoned' \in Tagged /\ abandoned'.ptr = s
              /\ \A u \in Thread : pc[u].ts # abandoned'
              /\ Step(t, success)
           \/ /\ abandoned # pc[t].ts /\ abandoned' = abandoned
              /\ [failure EXCEPT !.ts = abandoned] \in Control
              /\ Step(t, [failure EXCEPT !.ts = abandoned])
<1>1. CASE abandoned = pc[t].ts
  <2>1. abandoned' = [ptr |-> s, tag |-> NewTag(abandoned)] /\ Step(t, success)
    BY <1>1 DEF Cas, TaggedSegment
  <2>2. NewTag(abandoned) \in Tag /\ \A u \in Thread : pc[u].ts.tag # NewTag(abandoned)
    BY <1>1, TagIsNew
  <2>3. abandoned' \in Tagged /\ abandoned'.ptr = s /\ abandoned'.tag = NewTag(abandoned)
    BY <2>1, <2>2 DEF Tagged, Cell
  <2> QED
    BY <1>1, <2>1, <2>2, <2>3
<1>2. CASE abandoned # pc[t].ts
  BY <1>2 DEF Cas, Control, TypeOK
<1> QED
  BY <1>1, <1>2

-----------------------------------------------------------------------------
(* Steps that change no link, no owner and no list.                        *)

LEMMA QuietHolds ==
    ASSUME IInv, NEW t \in Thread, NEW c \in Control, Step(t, c),
           UNCHANGED <<abandoned, visited, next, threadId, mapped>>,
           c.at = "unmap" => \A u \in Thread : pc[u].at # "next",
           c.at \in HandAt /\ c.seg # Null <=> pc[t].at \in HandAt /\ pc[t].seg # Null,
           c.at \in HandAt /\ c.seg # Null => c.seg = pc[t].seg,
           c.at \in MovingAt <=> pc[t].at \in MovingAt,
           c.at \in MovingAt => Reach(next, c.seg, c.anext) = Grabbed(t),
           readers' \in 0..Cardinality(Thread), Counted',
           Shape(c), Linked(t)', Reading(t)', Alone(t)'
    PROVE  IInv'
<1>1. TypeOK /\ OneHome /\ Unlinked /\ Ends(abandoned.ptr) /\ Ends(visited)
  BY DEF IInv
<1>2. pc' \in [Thread -> Control] /\ pc'[t] = c
  BY <1>1, StepIs
<1>3. TypeOK'
  BY <1>1, <1>2 DEF TypeOK
<1>4. Touches(t, Null)
  <2>1. \A u \in Thread : Null \notin Mine(u)
    BY AbandonedAssumption DEF Mine, Held, Grabbed, Reach
  <2>2. Null \notin Shared
    BY AbandonedAssumption DEF Shared, Chain, Reach
  <2> QED
    BY <1>1, <2>1, <2>2, AbandonedAssumption, Typed DEF Touches, TypeOK
<1>5. Held(t)' = Held(t)
  <2>1. \A s \in Segment : pc'[t].seg = s /\ pc'[t].at \in HandAt
                             <=> pc[t].seg = s /\ pc[t].at \in HandAt
    BY <1>2, AbandonedAssumption
  <2> QED
    BY <2>1 DEF Held, Holds
<1>6. Grabbed(t)' = Grabbed(t)
  BY <1>2 DEF Grabbed
<1>7. Shared' = Shared /\ Chain(abandoned.ptr)' = Chain(abandoned.ptr)
      /\ Chain(visited)' = Chain(visited)
  BY DEF Shared, Chain
<1>8. Fits(t)' /\ Movable(t)' = Movable(t)
  BY <1>1, <1>5, <1>6, <1>7 DEF Fits, Movable, Mine, OneHome
<1>9. Ends(abandoned.ptr)' /\ Ends(visited)'
  BY <1>1, <1>7 DEF Ends
<1>10. c.at \in HandAt /\ c.seg # Null => threadId'[c.seg] = NoThread
  BY <1>1 DEF Unlinked
<1> QED
  BY <1>3, <1>4, <1>8, <1>9, <1>10, StepHolds, AbandonedAssumption

\* What a thread finds at the head of the list is not about to go.
LEMMA HeadStays ==
    ASSUME IInv, abandoned.ptr # Null
    PROVE  /\ abandoned.ptr \in Chain(abandoned.ptr) /\ abandoned.ptr \in mapped
           /\ \A u \in Thread : pc[u].at = "unmap" => pc[u].seg # abandoned.ptr
<1>1. TypeOK /\ OneHome /\ abandoned.ptr \in Segment
  BY Typed DEF IInv, Cell
<1>2. abandoned.ptr \in Chain(abandoned.ptr)
  BY <1>1, Typed, ReachLeast DEF Closed, Chain
<1>3. abandoned.ptr \in mapped
  BY <1>1, <1>2 DEF OneHome, Shared
<1>4. ASSUME NEW u \in Thread, pc[u].at = "unmap" PROVE pc[u].seg # abandoned.ptr
  <2>1. pc[u].seg = abandoned.ptr => abandoned.ptr \in Mine(u)
    BY <1>1, <1>4 DEF Mine, Held, Holds, HandAt
  <2> QED
    BY <1>1, <1>2, <2>1 DEF OneHome, Shared
<1> QED
  BY <1>2, <1>3, <1>4

LEMMA LoadedReads ==
    ASSUME IInv, NEW t \in Thread, NEW c \in Control, Step(t, c),
           UNCHANGED <<abandoned, mapped>>,
           c.at = "next" => c.ts = abandoned /\ abandoned.ptr # Null
    PROVE  Reading(t)'
<1>1. pc'[t] = c /\ \A u \in Thread \ {t} : pc'[u].at = pc[u].at /\ pc'[u].seg = pc[u].seg
  BY StepIs DEF IInv
<1> QED
  BY <1>1, HeadStays DEF Reading

\* Where only the place of a thread changes, and what it has is settled.
Settled == {"idle", "unmap", "revisit", "pop", "enter", "load", "leave", "empty", "clear",
            "await", "visitLink", "link"}

LEMMA SettledLinks ==
    ASSUME TypeOK, NEW t \in Thread, NEW c \in Control, Step(t, c), c.at \in Settled
    PROVE  Linked(t)' /\ Reading(t)'
<1>1. pc'[t] = c
  BY StepIs
<1> QED
  BY <1>1 DEF Linked, Reading, Settled

\* The others stay idle, so that a call stays alone.
LEMMA AloneStays ==
    ASSUME IInv, NEW t \in Thread, NEW c \in Control, Step(t, c),
           c.calm => pc[t].calm
    PROVE  /\ pc'[t] = c
           /\ c.calm => /\ \A u \in Thread \ {t} : pc'[u].at = "idle"
                        /\ pc[t].at = "revisit" /\ pc[t].call # "force" => abandoned.ptr = Null
                        /\ pc[t].at \in {"enter", "load"} => abandoned.ptr # Null
                        /\ pc[t].at \in {"next", "take"} => abandoned = pc[t].ts
                        /\ pc[t].at = "leave" => pc[t].seg # Null
<1>1. Alone(t) /\ TypeOK
  BY DEF IInv
<1>2. pc'[t] = c /\ \A u \in Thread \ {t} : pc'[u].at = pc[u].at
  BY <1>1, StepIs
<1> QED
  BY <1>1, <1>2 DEF Alone

\* The control state of t at another place.
LEMMA PlaceSet ==
    ASSUME TypeOK, NEW t \in Thread, NEW a \in Label, NEW c, c = [pc[t] EXCEPT !.at = a]
    PROVE  /\ c \in Control /\ c.at = a /\ c.call = pc[t].call /\ c.ts = pc[t].ts
           /\ c.seg = pc[t].seg /\ c.anext = pc[t].anext /\ c.calm = pc[t].calm
BY Typed DEF Control

LEMMA AwaitHolds == ASSUME IInv, NEW t \in Thread, Await(t) PROVE IInv'
<1> DEFINE c == [pc[t] EXCEPT !.at = "unmap"]
<1>1. TypeOK /\ Counted /\ Shape(pc[t])
  BY DEF IInv
<1>2. /\ pc[t].at = "await" /\ readers = 0 /\ Step(t, c)
      /\ UNCHANGED <<abandoned, visited, next, threadId, mapped, readers>>
  BY DEF Await, Goto
<1>3. /\ c \in Control /\ c.at = "unmap" /\ c.call = pc[t].call /\ c.ts = pc[t].ts
      /\ c.seg = pc[t].seg /\ c.anext = pc[t].anext /\ c.calm = pc[t].calm
  BY <1>1, PlaceSet DEF Label
<1> HIDE DEF c
<1>4. \A u \in Thread : pc[u].at # "next"
  <2>1. Cardinality(Reader) = 0
    BY <1>1, <1>2 DEF Counted, Reader
  <2>2. Reader = {}
    BY <2>1, ReadersFinite, FS_EmptySet
  <2> QED
    BY <2>2 DEF Reader, ReadAt
<1>5. Counted'
  BY <1>2, <1>3, StillCounted DEF ReadAt
<1>6. Linked(t)' /\ Reading(t)'
  BY <1>1, <1>2, <1>3, SettledLinks DEF Settled
<1>7. Shape(c)
  BY <1>1, <1>2, <1>3 DEF Shape, HandAt, MovingAt
<1>8. Alone(t)'
  BY <1>2, <1>3, AloneStays DEF Alone
<1>9. readers' \in 0..Cardinality(Thread)
  BY <1>1, <1>2 DEF TypeOK
<1> QED
  BY <1>2, <1>3, <1>4, <1>5, <1>6, <1>7, <1>8, <1>9, QuietHolds DEF HandAt, MovingAt

\* A step that counts no reader in or out.
LEMMA QuietStep ==
    ASSUME IInv, NEW t \in Thread, NEW c \in Control, Step(t, c),
           UNCHANGED <<abandoned, visited, next, threadId, mapped, readers>>,
           c.at # "unmap", c.at \in ReadAt <=> pc[t].at \in ReadAt,
           c.at \in HandAt /\ c.seg # Null <=> pc[t].at \in HandAt /\ pc[t].seg # Null,
           c.at \in HandAt /\ c.seg # Null => c.seg = pc[t].seg,
           c.at \in MovingAt <=> pc[t].at \in MovingAt,
           c.at \in MovingAt => Reach(next, c.seg, c.anext) = Grabbed(t),
           Shape(c), Linked(t)', Reading(t)', Alone(t)'
    PROVE  IInv'
<1>1. Counted'
  BY StillCounted
<1>2. readers' \in 0..Cardinality(Thread)
  BY DEF IInv, TypeOK
<1> QED
  BY <1>1, <1>2, QuietHolds

LEMMA PopHolds == ASSUME IInv, NEW t \in Thread, Pop(t) PROVE IInv'
<1> DEFINE a == IF abandoned.ptr = Null THEN "revisit" ELSE "enter"
           c == [pc[t] EXCEPT !.at = a]
<1>1. TypeOK /\ Shape(pc[t])
  BY DEF IInv
<1>2. /\ pc[t].at = "pop" /\ Step(t, c) /\ a \in {"revisit", "enter"}
      /\ a = "revisit" <=> abandoned.ptr = Null
      /\ UNCHANGED <<abandoned, visited, next, threadId, mapped, readers>>
  BY DEF Pop, Goto
<1> HIDE DEF a
<1>3. /\ c \in Control /\ c.at = a /\ c.call = pc[t].call /\ c.ts = pc[t].ts
      /\ c.seg = pc[t].seg /\ c.anext = pc[t].anext /\ c.calm = pc[t].calm
  BY <1>1, <1>2, PlaceSet DEF Label
<1> HIDE DEF c
<1>4. Linked(t)' /\ Reading(t)'
  BY <1>1, <1>2, <1>3, SettledLinks DEF Settled
<1>5. Shape(c)
  BY <1>1, <1>2, <1>3 DEF Shape, HandAt, MovingAt
<1>6. Alone(t)'
  BY <1>2, <1>3, AloneStays DEF Alone
<1> QED
  BY <1>2, <1>3, <1>4, <1>5, <1>6, QuietStep DEF HandAt, MovingAt, ReadAt

\* The head of the list, and what the thread does next.
LEMMA LoadedIs ==
    ASSUME IInv, NEW t \in Thread, pc[t].at \in {"load", "take"}, NEW c, c = Loaded(t)
    PROVE  /\ c \in Control /\ c.call = pc[t].call /\ c.ts = abandoned
           /\ c.seg = Null /\ pc[t].seg = Null /\ c.anext = Null /\ c.calm = pc[t].calm
           /\ c.at \in {"leave", "next"} /\ (c.at = "leave" <=> abandoned.ptr = Null)
           /\ Shape(c)
<1>1. TypeOK /\ Shape(pc[t])
  BY DEF IInv
<1>2. pc[t].seg = Null /\ abandoned \in Tagged
  BY <1>1 DEF Shape, HandAt, MovingAt, TypeOK
<1>3. /\ c \in Control /\ c.call = pc[t].call /\ c.ts = abandoned
      /\ c.seg = Null /\ c.anext = Null /\ c.calm = pc[t].calm
      /\ c.at \in {"leave", "next"} /\ (c.at = "leave" <=> abandoned.ptr = Null)
  BY <1>1, <1>2, Typed DEF Control, Label, Loaded
<1>4. Shape(c)
  BY <1>3 DEF Shape, HandAt, MovingAt
<1> QED
  BY <1>2, <1>3, <1>4

LEMMA LoadedHolds ==
    ASSUME IInv, NEW t \in Thread, pc[t].at \in {"load", "take"},
           NEW c, c = Loaded(t), Step(t, c),
           pc[t].at = "take" => abandoned # pc[t].ts,
           UNCHANGED <<abandoned, visited, next, threadId, mapped, readers>>
    PROVE  IInv'
<1>1. /\ c \in Control /\ c.call = pc[t].call /\ c.ts = abandoned
      /\ c.seg = Null /\ pc[t].seg = Null /\ c.anext = Null /\ c.calm = pc[t].calm
      /\ c.at \in {"leave", "next"} /\ (c.at = "leave" <=> abandoned.ptr = Null)
      /\ Shape(c)
  BY LoadedIs
<1>2. Reading(t)'
  BY <1>1, LoadedReads
<1>3. Linked(t)'
  BY <1>1, StepIs DEF IInv, Linked
<1>4. Alone(t)'
  BY <1>1, AloneStays DEF Alone
<1> QED
  BY <1>1, <1>2, <1>3, <1>4, QuietStep DEF HandAt, MovingAt, ReadAt

LEMMA LoadHolds == ASSUME IInv, NEW t \in Thread, Load(t) PROVE IInv'
BY LoadedHolds DEF Load

LEMMA ReadNextHolds == ASSUME IInv, NEW t \in Thread, ReadNext(t) PROVE IInv'
<1> DEFINE c == [pc[t] EXCEPT !.at = "take", !.anext = next[pc[t].ts.ptr]]
<1>1. TypeOK /\ Shape(pc[t])
  BY DEF IInv
<1>2. /\ pc[t].at = "next" /\ Step(t, c)
      /\ UNCHANGED <<abandoned, visited, next, threadId, mapped, readers>>
  BY DEF ReadNext
<1>3. pc[t].ts.ptr \in Segment /\ next[pc[t].ts.ptr] \in Cell
  BY <1>1, <1>2, Typed DEF Shape, Cell, Links
<1>4. /\ c \in Control /\ c.at = "take" /\ c.call = pc[t].call /\ c.ts = pc[t].ts
      /\ c.seg = pc[t].seg /\ c.anext = next[pc[t].ts.ptr] /\ c.calm = pc[t].calm
  BY <1>1, <1>3, Typed DEF Control, Label, Cell
<1> HIDE DEF c
<1>5. pc'[t] = c
  BY <1>1, <1>2, <1>4, StepIs
<1>6. Linked(t)' /\ Reading(t)'
  BY <1>2, <1>4, <1>5 DEF Linked, Reading
<1>7. Shape(c)
  BY <1>1, <1>2, <1>4 DEF Shape, HandAt, MovingAt
<1>8. Alone(t)'
  BY <1>2, <1>4, AloneStays DEF Alone
<1> QED
  BY <1>2, <1>4, <1>6, <1>7, <1>8, QuietStep DEF HandAt, MovingAt, ReadAt

LEMMA SwapHolds == ASSUME IInv, NEW t \in Thread, Swap(t) PROVE IInv'
<1> DEFINE c == [pc[t] EXCEPT !.at = IF abandoned.ptr = Null THEN "swapCas" ELSE "prepend",
                              !.ts = abandoned]
<1>1. TypeOK /\ Shape(pc[t]) /\ Linked(t)
  BY DEF IInv
<1>2. /\ pc[t].at = "swap" /\ Step(t, c)
      /\ UNCHANGED <<abandoned, visited, next, threadId, mapped, readers>>
  BY DEF Swap
<1>3. /\ c \in Control /\ c.at \in {"swapCas", "prepend"} /\ c.call = pc[t].call
      /\ c.ts = abandoned /\ (c.at = "swapCas" => abandoned.ptr = Null)
      /\ c.seg = pc[t].seg /\ c.anext = pc[t].anext /\ c.calm = pc[t].calm
  BY <1>1, Typed DEF Control, Label, TypeOK
<1> HIDE DEF c
<1>4. pc'[t] = c
  BY <1>1, <1>2, <1>3, StepIs
<1>5. Ends(pc[t].seg)'
  BY <1>1, <1>2, <1>3, <1>4 DEF Linked, Ends, Chain
<1>6. Linked(t)' /\ Reading(t)'
  BY <1>2, <1>3, <1>4, <1>5 DEF Linked, Reading
<1>7. Shape(c)
  BY <1>1, <1>2, <1>3 DEF Shape, HandAt, MovingAt
<1>8. Alone(t)'
  BY <1>2, <1>3, AloneStays DEF Alone
<1>9. Reach(next, c.seg, c.anext) = Grabbed(t)
  BY <1>2, <1>3 DEF Grabbed, MovingAt
<1> QED
  BY <1>2, <1>3, <1>6, <1>7, <1>8, <1>9, QuietStep DEF HandAt, MovingAt, ReadAt

\* The walk to the last one finds it.
LEMMA PrependHolds == ASSUME IInv, NEW t \in Thread, Prepend(t) PROVE IInv'
<1> DEFINE l == Last(pc[t].seg)
           c == [pc[t] EXCEPT !.at = "splice", !.ts = abandoned, !.anext = l]
<1>1. TypeOK /\ Shape(pc[t]) /\ Linked(t)
  BY DEF IInv
<1>2. /\ pc[t].at = "prepend" /\ Step(t, c)
      /\ UNCHANGED <<abandoned, visited, next, threadId, mapped, readers>>
  BY DEF Prepend
<1>3. pc[t].seg # Null /\ pc[t].anext = Null /\ Ends(pc[t].seg)
  BY <1>1, <1>2 DEF Shape, Linked, MovingAt
<1>4. l \in Chain(pc[t].seg) /\ next[l] = Null
  BY <1>3 DEF Ends, Last
<1>5. l \in Segment
  BY <1>4 DEF Chain, Reach
<1> HIDE DEF l
<1>6. Reach(next, pc[t].seg, l) = Chain(pc[t].seg) /\ Grabbed(t) = Chain(pc[t].seg)
  BY <1>1, <1>2, <1>3, <1>4, Typed, ReachEnd DEF Chain, Grabbed, MovingAt
<1>7. /\ c \in Control /\ c.at = "splice" /\ c.call = pc[t].call /\ c.ts = abandoned
      /\ c.seg = pc[t].seg /\ c.anext = l /\ c.calm = pc[t].calm
  BY <1>1, <1>5, Typed DEF Control, Label, TypeOK
<1> HIDE DEF c
<1>8. pc'[t] = c
  BY <1>1, <1>2, <1>7, StepIs
<1>9. l \in Grabbed(t)'
  BY <1>2, <1>4, <1>6, <1>7, <1>8 DEF Grabbed, MovingAt
<1>10. Linked(t)' /\ Reading(t)'
  BY <1>7, <1>8, <1>9 DEF Linked, Reading
<1>11. Shape(c)
  BY <1>3, <1>7 DEF Shape, HandAt, MovingAt
<1>12. Alone(t)'
  BY <1>2, <1>7, AloneStays DEF Alone
<1> QED
  BY <1>2, <1>6, <1>7, <1>10, <1>11, <1>12, QuietStep DEF HandAt, MovingAt, ReadAt

LEMMA IdleIs ==
    /\ Idle \in Control /\ Idle.at = "idle" /\ Idle.call = "none" /\ Idle.ts = NoTag
    /\ Idle.seg = Null /\ Idle.anext = Null /\ Idle.calm = FALSE
    /\ NoTag \in Tagged
<1>1. Tags \in Nat /\ Tags > 0
  BY AbandonedAssumption, FS_CardinalityType
<1>2. NoTag \in Tagged
  BY <1>1 DEF NoTag, Tagged, Tag
<1> QED
  BY <1>2 DEF Idle, Control, Label, Call

LEMMA StartCallHolds ==
    ASSUME IInv, NEW t \in Thread, NEW call \in Call \ {"none"}, StartCall(t, call)
    PROVE  IInv'
<1> DEFINE a == IF call = "force" THEN "revisit" ELSE "pop"
           m == \A u \in Thread \ {t} : pc[u].at = "idle"
           c == [Idle EXCEPT !.at = a, !.call = call, !.calm = m]
<1>1. TypeOK /\ Shape(pc[t])
  BY DEF IInv
<1>2. /\ pc[t].at = "idle" /\ Step(t, c) /\ a \in {"revisit", "pop"} /\ m \in BOOLEAN
      /\ a = "revisit" => call = "force"
      /\ UNCHANGED <<abandoned, visited, next, threadId, mapped, readers>>
  BY DEF StartCall
<1>3. m => \A u \in Thread \ {t} : pc[u].at = "idle"
  OBVIOUS
<1> HIDE DEF a, m
<1>4. /\ c \in Control /\ c.at = a /\ c.call = call /\ c.ts = NoTag
      /\ c.seg = Null /\ c.anext = Null /\ c.calm = m
  BY <1>2, IdleIs DEF Control, Label
<1> HIDE DEF c
<1>5. Linked(t)' /\ Reading(t)'
  BY <1>1, <1>2, <1>4, SettledLinks DEF Settled
<1>6. Shape(c)
  BY <1>2, <1>4 DEF Shape, HandAt, MovingAt
<1>7. pc'[t] = c /\ \A u \in Thread \ {t} : pc'[u].at = pc[u].at
  BY <1>1, <1>2, <1>4, StepIs
<1>8. Alone(t)'
  BY <1>2, <1>3, <1>4, <1>7 DEF Alone
<1> QED
  BY <1>2, <1>4, <1>5, <1>6, <1>8, QuietStep DEF HandAt, MovingAt, ReadAt

LEMMA ReturnHolds == ASSUME IInv, NEW t \in Thread, Return(t) PROVE IInv'
<1>1. TypeOK
  BY DEF IInv
<1>2. /\ pc[t].at \in {"empty", "pop"} /\ Step(t, Idle)
      /\ UNCHANGED <<abandoned, visited, next, threadId, mapped, readers>>
  BY DEF Return
<1>3. Linked(t)' /\ Reading(t)'
  BY <1>1, <1>2, IdleIs, SettledLinks DEF Settled
<1>4. Shape(Idle)
  BY IdleIs DEF Shape, HandAt, MovingAt
<1>5. Alone(t)'
  BY <1>1, <1>2, IdleIs, StepIs DEF Alone
<1> QED
  BY <1>2, <1>3, <1>4, <1>5, IdleIs, QuietStep DEF HandAt, MovingAt, ReadAt

LEMMA EnterHolds == ASSUME IInv, NEW t \in Thread, Enter(t) PROVE IInv'
<1> DEFINE c == [pc[t] EXCEPT !.at = "load"]
<1>1. TypeOK /\ Counted /\ Shape(pc[t])
  BY DEF IInv
<1>2. /\ pc[t].at = "enter" /\ Step(t, c) /\ readers' = readers + 1
      /\ UNCHANGED <<abandoned, visited, next, threadId, mapped>>
  BY DEF Enter, Goto
<1>3. /\ c \in Control /\ c.at = "load" /\ c.call = pc[t].call /\ c.ts = pc[t].ts
      /\ c.seg = pc[t].seg /\ c.anext = pc[t].anext /\ c.calm = pc[t].calm
  BY <1>1, PlaceSet DEF Label
<1> HIDE DEF c
<1>4. pc'[t] = c /\ \A u \in Thread \ {t} : pc'[u].at = pc[u].at
  BY <1>1, <1>2, <1>3, StepIs
<1>5. Reader' = Reader \cup {t} /\ t \notin Reader
  BY <1>2, <1>3, <1>4 DEF Reader, ReadAt
<1>6. Cardinality(Reader') = readers'
  BY <1>1, <1>2, <1>5, ReadersFinite, FS_AddElement DEF Counted, Reader
<1>7. Counted'
  BY <1>6 DEF Counted, Reader
<1>8. readers' \in 0..Cardinality(Thread)
  <2>1. Reader' \subseteq Thread /\ IsFiniteSet(Thread)
    BY AbandonedAssumption DEF Reader
  <2>2. Cardinality(Reader') <= Cardinality(Thread)
    BY <2>1, FS_Subset
  <2> QED
    BY <1>1, <1>2, <1>6, <2>1, <2>2, FS_CardinalityType DEF TypeOK
<1>9. Linked(t)' /\ Reading(t)'
  BY <1>1, <1>2, <1>3, SettledLinks DEF Settled
<1>10. Shape(c)
  BY <1>1, <1>2, <1>3 DEF Shape, HandAt, MovingAt
<1>11. Alone(t)'
  BY <1>2, <1>3, AloneStays DEF Alone
<1> QED
  BY <1>2, <1>3, <1>7, <1>8, <1>9, <1>10, <1>11, QuietHolds DEF HandAt, MovingAt

LEMMA LeaveHolds == ASSUME IInv, NEW t \in Thread, Leave(t) PROVE IInv'
<1> DEFINE a == IF pc[t].seg = Null THEN "empty" ELSE "clear"
           c == [pc[t] EXCEPT !.at = a, !.ts = NoTag]
<1>1. TypeOK /\ Counted /\ Shape(pc[t])
  BY DEF IInv
<1>2. /\ pc[t].at = "leave" /\ Step(t, c) /\ readers' = readers - 1
      /\ a \in {"empty", "clear"} /\ (a = "empty" <=> pc[t].seg = Null)
      /\ UNCHANGED <<abandoned, visited, next, threadId, mapped>>
  BY DEF Leave
<1> HIDE DEF a
<1>3. /\ c \in Control /\ c.at = a /\ c.call = pc[t].call /\ c.ts = NoTag
      /\ c.seg = pc[t].seg /\ c.anext = pc[t].anext /\ c.calm = pc[t].calm
  BY <1>1, <1>2, Typed, IdleIs DEF Control, Label
<1> HIDE DEF c
<1>4. pc'[t] = c /\ \A u \in Thread \ {t} : pc'[u].at = pc[u].at
  BY <1>1, <1>2, <1>3, StepIs
<1>5. Reader' = Reader \ {t} /\ t \in Reader
  BY <1>2, <1>3, <1>4 DEF Reader, ReadAt
<1>6. Cardinality(Reader') = readers'
  BY <1>1, <1>2, <1>5, ReadersFinite, FS_RemoveElement DEF Counted, Reader
<1>7. Counted'
  BY <1>6 DEF Counted, Reader
<1>8. readers' \in 0..Cardinality(Thread)
  <2>1. Reader' \subseteq Thread /\ IsFiniteSet(Thread)
    BY AbandonedAssumption DEF Reader
  <2>2. Cardinality(Reader') <= Cardinality(Thread) /\ IsFiniteSet(Reader')
    BY <2>1, FS_Subset
  <2> QED
    BY <1>6, <2>1, <2>2, FS_CardinalityType
<1>9. Linked(t)' /\ Reading(t)'
  BY <1>1, <1>2, <1>3, SettledLinks DEF Settled
<1>10. Shape(c)
  BY <1>1, <1>2, <1>3 DEF Shape, HandAt, MovingAt
<1>11. Alone(t)'
  BY <1>2, <1>3, AloneStays DEF Alone
<1>12. c.at \in HandAt /\ c.seg # Null <=> pc[t].at \in HandAt /\ pc[t].seg # Null
  BY <1>2, <1>3 DEF HandAt
<1> QED
  BY <1>2, <1>3, <1>7, <1>8, <1>9, <1>10, <1>11, <1>12, QuietHolds DEF MovingAt

LEMMA VisitHolds == ASSUME IInv, NEW t \in Thread, Visit(t) PROVE IInv'
<1> DEFINE c == [pc[t] EXCEPT !.at = "visitLink", !.anext = visited]
<1>1. TypeOK /\ Shape(pc[t])
  BY DEF IInv
<1>2. /\ pc[t].at = "have" /\ Step(t, c)
      /\ UNCHANGED <<abandoned, visited, next, threadId, mapped, readers>>
  BY DEF Visit
<1>3. /\ c \in Control /\ c.at = "visitLink" /\ c.call = pc[t].call /\ c.ts = pc[t].ts
      /\ c.seg = pc[t].seg /\ c.anext = visited /\ c.calm = pc[t].calm
  BY <1>1, Typed DEF Control, Label, TypeOK
<1> HIDE DEF c
<1>4. Linked(t)' /\ Reading(t)'
  BY <1>1, <1>2, <1>3, SettledLinks DEF Settled
<1>5. Shape(c)
  BY <1>1, <1>2, <1>3 DEF Shape, HandAt, MovingAt
<1>6. Alone(t)'
  BY <1>2, <1>3, AloneStays DEF Alone
<1> QED
  BY <1>2, <1>3, <1>4, <1>5, <1>6, QuietStep DEF HandAt, MovingAt, ReadAt

-----------------------------------------------------------------------------
(* Steps that write a link.                                                *)

\* The chains that the step does not write to still end.
LEMMA EndsStay ==
    ASSUME IInv, NEW t \in Thread, NEW c \in Control, Step(t, c),
           NEW x, Touches(t, x)
    PROVE  /\ abandoned'.ptr = abandoned.ptr =>
                  Ends(abandoned.ptr)' /\ Chain(abandoned.ptr)' = Chain(abandoned.ptr)
           /\ visited' = visited => Ends(visited)' /\ Chain(visited)' = Chain(visited)
<1>1. /\ Reach(next', abandoned.ptr, Null) = Chain(abandoned.ptr)
      /\ Reach(next', visited, Null) = Chain(visited)
  BY OthersStay
<1>2. Ends(abandoned.ptr) /\ Ends(visited)
  BY DEF IInv
<1>3. \A s \in Shared : next'[s] = next[s]
  BY DEF Touches, Shared, Chain, Reach
<1>4. ASSUME abandoned'.ptr = abandoned.ptr
      PROVE  Ends(abandoned.ptr)' /\ Chain(abandoned.ptr)' = Chain(abandoned.ptr)
  <2>1. Chain(abandoned.ptr)' = Chain(abandoned.ptr)
    BY <1>1, <1>4 DEF Chain
  <2> QED
    BY <1>2, <1>3, <1>4, <2>1 DEF Ends, Shared
<1>5. ASSUME visited' = visited
      PROVE  Ends(visited)' /\ Chain(visited)' = Chain(visited)
  <2>1. Chain(visited)' = Chain(visited)
    BY <1>1, <1>5 DEF Chain
  <2> QED
    BY <1>2, <1>3, <1>5, <2>1 DEF Ends, Shared
<1> QED
  BY <1>4, <1>5

\* Who has a segment is its owner, if it has one.
LEMMA MineOwned ==
    ASSUME IInv, NEW t \in Thread, NEW x \in Mine(t)
    PROVE  x \in Segment /\ threadId[x] \in {t, NoThread}
           /\ (x \in Grabbed(t) => threadId[x] = NoThread)
<1>1. x \in Segment
  BY DEF Mine, Held, Grabbed, Reach
<1>2. threadId[x] \in Thread => x \in Held(threadId[x])
  BY <1>1 DEF Held, Holds
<1>3. threadId[x] \in Thread \cup {NoThread}
  BY <1>1 DEF IInv, TypeOK
<1> QED
  BY <1>1, <1>2, <1>3 DEF IInv, OneHome, Mine

LEMMA WriteHolds ==
    ASSUME IInv, NEW t \in Thread, NEW c \in Control, Step(t, c),
           NEW x \in Mine(t), threadId[x] = NoThread,
           NEW y \in Cell, next' = [next EXCEPT ![x] = y],
           UNCHANGED <<abandoned, visited, threadId, mapped, readers>>,
           c.at # "unmap", c.at \in ReadAt <=> pc[t].at \in ReadAt,
           c.at \in HandAt /\ c.seg # Null <=> pc[t].at \in HandAt /\ pc[t].seg # Null,
           c.at \in HandAt /\ c.seg # Null => c.seg = pc[t].seg,
           Grabbed(t)' = Grabbed(t),
           Shape(c), Linked(t)', Reading(t)', Alone(t)'
    PROVE  IInv'
<1>1. TypeOK /\ OneHome /\ Unlinked
  BY DEF IInv
<1>2. pc' \in [Thread -> Control] /\ pc'[t] = c
  BY <1>1, StepIs
<1>3. x \in Segment
  BY MineOwned
<1>4. next' \in Links /\ \A s \in Segment \ {x} : next'[s] = next[s]
  BY <1>1, <1>3, Typed DEF Links, Cell
<1>5. TypeOK'
  BY <1>1, <1>2, <1>4 DEF TypeOK, Links
<1>6. Touches(t, x)
  BY <1>1, <1>4, MayTouch DEF Touches, TypeOK
<1>7. Held(t)' = Held(t)
  <2>1. \A s \in Segment : pc'[t].seg = s /\ pc'[t].at \in HandAt
                             <=> pc[t].seg = s /\ pc[t].at \in HandAt
    BY <1>2, AbandonedAssumption
  <2> QED
    BY <2>1 DEF Held, Holds
<1>8. /\ Ends(abandoned.ptr)' /\ Chain(abandoned.ptr)' = Chain(abandoned.ptr)
      /\ Ends(visited)' /\ Chain(visited)' = Chain(visited)
  BY <1>6, EndsStay
<1>9. Fits(t)' /\ Movable(t)' = Movable(t)
  BY <1>1, <1>7, <1>8 DEF Fits, Movable, Mine, OneHome, Shared
<1>10. c.at \in HandAt /\ c.seg # Null => threadId'[c.seg] = NoThread
  BY <1>1 DEF Unlinked
<1>11. Counted'
  BY StillCounted
<1> QED
  BY <1>5, <1>6, <1>8, <1>9, <1>10, <1>11, StepHolds

\* t writes the link of the segment in its hands.
LEMMA InHand ==
    ASSUME IInv, NEW t \in Thread, pc[t].at \in HandAt \ {"leave"}
    PROVE  /\ pc[t].seg \in Segment /\ pc[t].seg \in Mine(t) /\ pc[t].seg \in Held(t)
           /\ threadId[pc[t].seg] = NoThread /\ Grabbed(t) = {}
<1>1. TypeOK /\ Shape(pc[t]) /\ Unlinked
  BY DEF IInv
<1>2. pc[t].seg \in Segment
  BY <1>1, Typed DEF Shape, Cell
<1> QED
  BY <1>1, <1>2, AbandonedAssumption DEF Mine, Held, Holds, Grabbed, HandAt, MovingAt, Unlinked

LEMMA HandWrites ==
    ASSUME IInv, NEW t \in Thread, pc[t].at \in HandAt \ {"leave"},
           NEW a \in {"push", "have", "visitCas"}, NEW y \in Cell,
           Step(t, [pc[t] EXCEPT !.at = a]), next' = [next EXCEPT ![pc[t].seg] = y],
           UNCHANGED <<abandoned, visited, threadId, mapped, readers>>,
           a # "visitCas" => pc[t].anext = Null,
           CASE a = "push" -> y = pc[t].ts.ptr
             [] a = "have" -> y = Null
             [] a = "visitCas" -> y = pc[t].anext
    PROVE  IInv'
<1> DEFINE c == [pc[t] EXCEPT !.at = a]
<1>1. TypeOK /\ Shape(pc[t]) /\ Step(t, c)
  BY DEF IInv
<1>2. /\ c \in Control /\ c.at = a /\ c.call = pc[t].call /\ c.ts = pc[t].ts
      /\ c.seg = pc[t].seg /\ c.anext = pc[t].anext /\ c.calm = pc[t].calm
  BY <1>1, PlaceSet DEF Label
<1> HIDE DEF c
<1>3. /\ pc[t].seg \in Segment /\ pc[t].seg \in Mine(t)
      /\ threadId[pc[t].seg] = NoThread /\ Grabbed(t) = {}
  BY InHand
<1>4. pc'[t] = c
  BY <1>1, <1>2, StepIs
<1>5. next'[pc[t].seg] = y
  BY <1>1, <1>3 DEF TypeOK
<1>6. Linked(t)' /\ Reading(t)'
  BY <1>2, <1>4, <1>5 DEF Linked, Reading
<1>7. Grabbed(t)' = Grabbed(t)
  BY <1>2, <1>3, <1>4 DEF Grabbed, MovingAt
<1>8. Shape(c)
  BY <1>1, <1>2 DEF Shape, HandAt, MovingAt
<1>9. Alone(t)'
  BY <1>1, <1>2, AloneStays DEF Alone
<1>10. c.at \in HandAt /\ c.seg # Null /\ c.at \notin ReadAt /\ pc[t].at \notin ReadAt
  BY <1>2, <1>3, AbandonedAssumption DEF HandAt, ReadAt
<1> QED
  BY <1>1, <1>2, <1>3, <1>6, <1>7, <1>8, <1>9, <1>10, AbandonedAssumption, WriteHolds
     DEF HandAt, ReadAt

LEMMA HandHolds ==
    ASSUME IInv, NEW t \in Thread, Link(t) \/ Clear(t) \/ VisitLink(t)
    PROVE  IInv'
<1>1. TypeOK /\ Shape(pc[t]) /\ pc[t].ts.ptr \in Cell /\ pc[t].anext \in Cell /\ Null \in Cell
  BY Typed DEF IInv, Cell
<1>2. CASE Link(t)
  <2>1. pc[t].at \in HandAt \ {"leave"} /\ pc[t].anext = Null
    BY <1>1, <1>2 DEF Link, Shape, HandAt
  <2> QED
    BY <1>1, <1>2, <2>1, HandWrites DEF Link, Goto
<1>3. CASE Clear(t)
  <2>1. pc[t].at \in HandAt \ {"leave"} /\ pc[t].anext = Null
    BY <1>1, <1>3 DEF Clear, Shape, HandAt
  <2> QED
    BY <1>1, <1>3, <2>1, HandWrites DEF Clear, Goto
<1>4. CASE VisitLink(t)
  <2>1. pc[t].at \in HandAt \ {"leave"}
    BY <1>4 DEF VisitLink, HandAt
  <2> QED
    BY <1>1, <1>4, <2>1, HandWrites DEF VisitLink, Goto
<1> QED
  BY <1>2, <1>3, <1>4

\* The last one of the visited segments gets the list behind it.
LEMMA SpliceHolds == ASSUME IInv, NEW t \in Thread, Splice(t) PROVE IInv'
<1> DEFINE c == [pc[t] EXCEPT !.at = "prependCas"]
<1>1. TypeOK /\ Shape(pc[t]) /\ Linked(t)
  BY DEF IInv
<1>2. /\ pc[t].at = "splice" /\ Step(t, c)
      /\ next' = [next EXCEPT ![pc[t].anext] = pc[t].ts.ptr] /\ pc[t].ts.ptr \in Cell
      /\ UNCHANGED <<abandoned, visited, threadId, mapped, readers>>
  BY <1>1, Typed DEF Splice, Goto
<1>3. /\ c \in Control /\ c.at = "prependCas" /\ c.call = pc[t].call /\ c.ts = pc[t].ts
      /\ c.seg = pc[t].seg /\ c.anext = pc[t].anext /\ c.calm = pc[t].calm
  BY <1>1, PlaceSet DEF Label
<1> HIDE DEF c
<1>4. pc[t].anext \in Grabbed(t) /\ pc[t].anext \in Mine(t)
  BY <1>1, <1>2 DEF Linked, Mine
<1>5. pc[t].anext \in Segment /\ threadId[pc[t].anext] = NoThread
  BY <1>4, MineOwned
<1>6. pc'[t] = c
  BY <1>1, <1>2, <1>3, StepIs
<1>7. /\ next'[pc[t].anext] = pc[t].ts.ptr /\ next' \in Links
      /\ \A s \in Segment \ {pc[t].anext} : next'[s] = next[s]
  BY <1>1, <1>2, <1>5, Typed DEF Links, Cell
<1>8. Grabbed(t)' = Grabbed(t)
  <2> DEFINE f == pc[t].seg
             l == pc[t].anext
  <2>1. \A s \in Reach(next, f, l) \ {l} : next'[s] = next[s]
    BY <1>7 DEF Reach
  <2>2. f \in Cell /\ next \in Links
    BY <1>1, Typed
  <2>3. Reach(next', f, l) = Reach(next, f, l)
    BY <1>7, <2>1, <2>2, ReachSame
  <2> QED
    BY <1>2, <1>3, <1>6, <2>3 DEF Grabbed, MovingAt
<1>9. Linked(t)' /\ Reading(t)'
  BY <1>3, <1>4, <1>6, <1>7, <1>8 DEF Linked, Reading
<1>10. Shape(c)
  BY <1>1, <1>2, <1>3 DEF Shape, HandAt, MovingAt
<1>11. Alone(t)'
  BY <1>2, <1>3, AloneStays DEF Alone
<1> QED
  BY <1>2, <1>3, <1>4, <1>5, <1>8, <1>9, <1>10, <1>11, WriteHolds DEF HandAt, ReadAt

-----------------------------------------------------------------------------
(* Steps that change an owner, or map and unmap memory.                    *)

\* A segment that t owns comes into its hands, or the other way round, unlinked.
LEMMA OwnHolds ==
    ASSUME IInv, NEW t \in Thread, NEW c \in Control, Step(t, c),
           NEW x \in Segment, NEW o \in {t, NoThread},
           threadId' = [threadId EXCEPT ![x] = o],
           next' = [next EXCEPT ![x] = Null] \/ (next' = next /\ next[x] = Null),
           UNCHANGED <<abandoned, visited, mapped, readers>>,
           \/ pc[t].at \notin HandAt /\ threadId[x] = t
              /\ c.at \in HandAt /\ c.seg = x /\ o = NoThread
           \/ pc[t].at \in HandAt /\ pc[t].seg = x /\ c.at \notin HandAt /\ o = t,
           c.at \in Settled, {c.at, pc[t].at} \cap (ReadAt \cup MovingAt \cup {"unmap"}) = {},
           Shape(c), Alone(t)'
    PROVE  IInv'
<1>1. TypeOK /\ OneHome /\ Unlinked
  BY DEF IInv
<1>2. pc' \in [Thread -> Control] /\ pc'[t] = c
  BY <1>1, StepIs
<1>3. x \in Held(t) /\ x \in Mine(t)
  BY DEF Held, Holds, Mine
<1>4. /\ next' \in Links /\ next'[x] = Null
      /\ \A s \in Segment \ {x} : next'[s] = next[s]
  BY <1>1, Typed DEF Links, Cell
<1>5. /\ threadId' \in [Segment -> Thread \cup {NoThread}] /\ threadId'[x] = o
      /\ \A s \in Segment \ {x} : threadId'[s] = threadId[s]
  BY <1>1 DEF TypeOK
<1>6. TypeOK'
  BY <1>1, <1>2, <1>4, <1>5 DEF TypeOK, Links
<1>7. Touches(t, x)
  BY <1>1, <1>3, <1>4, <1>5, MayTouch DEF Touches
<1>8. Held(t)' = Held(t)
  <2>1. \A s \in Segment \ {x} : s \in Held(t)' <=> s \in Held(t)
    BY <1>2, <1>5 DEF Held, Holds
  <2>2. x \in Held(t)'
    BY <1>2, <1>5 DEF Held, Holds
  <2> QED
    BY <1>3, <2>1, <2>2 DEF Held
<1>9. Grabbed(t) = {} /\ Grabbed(t)' = {}
  BY <1>2 DEF Grabbed
<1>10. /\ Ends(abandoned.ptr)' /\ Chain(abandoned.ptr)' = Chain(abandoned.ptr)
       /\ Ends(visited)' /\ Chain(visited)' = Chain(visited)
  BY <1>7, EndsStay
<1>11. Fits(t)' /\ Movable(t)' = Movable(t)
  BY <1>1, <1>8, <1>9, <1>10 DEF Fits, Movable, Mine, OneHome, Shared
<1>12. Linked(t)' /\ Reading(t)'
  BY <1>1, SettledLinks
<1>13. Counted'
  BY StillCounted
<1>14. c.at \in HandAt /\ c.seg # Null => threadId'[c.seg] = NoThread
  BY <1>5
<1> QED
  BY <1>4, <1>6, <1>7, <1>10, <1>11, <1>12, <1>13, <1>14, StepHolds

LEMMA FreeHolds ==
    ASSUME IInv, NEW t \in Thread, NEW s \in Segment, Free(t, s) PROVE IInv'
<1> DEFINE c == [Idle EXCEPT !.at = "await", !.seg = s]
<1>1. TypeOK /\ Unlinked
  BY DEF IInv
<1>2. /\ pc[t].at = "idle" /\ threadId[s] = t /\ Step(t, c)
      /\ threadId' = [threadId EXCEPT ![s] = NoThread]
      /\ UNCHANGED <<abandoned, visited, next, mapped, readers>>
  BY DEF Free
<1>3. c \in Control /\ c.at = "await" /\ c.seg = s /\ c.anext = Null /\ c.calm = FALSE
  BY IdleIs DEF Control, Label
<1> HIDE DEF c
<1>4. next[s] = Null
  BY <1>1, <1>2, AbandonedAssumption DEF Unlinked
<1>5. Shape(c)
  BY <1>3, AbandonedAssumption DEF Shape, HandAt, MovingAt
<1>6. Alone(t)'
  BY <1>1, <1>2, <1>3, StepIs DEF Alone
<1> QED
  BY <1>2, <1>3, <1>4, <1>5, <1>6, OwnHolds DEF HandAt, MovingAt, ReadAt, Settled

LEMMA AbandonHolds ==
    ASSUME IInv, NEW t \in Thread, NEW s \in Segment, Abandon(t, s) PROVE IInv'
<1> DEFINE c == [Idle EXCEPT !.at = "link", !.seg = s, !.ts = abandoned]
<1>1. TypeOK /\ abandoned \in Tagged
  BY DEF IInv, TypeOK
<1>2. /\ pc[t].at = "idle" /\ threadId[s] = t /\ Step(t, c)
      /\ threadId' = [threadId EXCEPT ![s] = NoThread]
      /\ next' = [next EXCEPT ![s] = Null]
      /\ UNCHANGED <<abandoned, visited, mapped, readers>>
  BY DEF Abandon
<1>3. c \in Control /\ c.at = "link" /\ c.seg = s /\ c.anext = Null /\ c.calm = FALSE
  BY <1>1, IdleIs DEF Control, Label
<1> HIDE DEF c
<1>4. Shape(c)
  BY <1>3, AbandonedAssumption DEF Shape, HandAt, MovingAt
<1>5. Alone(t)'
  BY <1>1, <1>2, <1>3, StepIs DEF Alone
<1> QED
  BY <1>2, <1>3, <1>4, <1>5, OwnHolds DEF HandAt, MovingAt, ReadAt, Settled

\* segment_reclaim frees the segment, or makes it the thread's own.
LEMMA ReclaimHolds == ASSUME IInv, NEW t \in Thread, Reclaim(t) PROVE IInv'
<1>1. TypeOK /\ Shape(pc[t]) /\ Linked(t)
  BY DEF IInv
<1>2. pc[t].at = "have" /\ UNCHANGED <<abandoned, visited, next, mapped, readers>>
  BY DEF Reclaim
<1>3. pc[t].seg \in Segment /\ next[pc[t].seg] = Null /\ pc[t].anext = Null
  BY <1>1, <1>2, InHand DEF HandAt, Linked, Shape
<1>4. CASE Goto(t, "await") /\ UNCHANGED threadId
  <2> DEFINE c == [pc[t] EXCEPT !.at = "await"]
  <2>1. /\ c \in Control /\ c.at = "await" /\ c.seg = pc[t].seg /\ c.anext = pc[t].anext
        /\ c.calm = pc[t].calm
    BY <1>1, PlaceSet DEF Label
  <2>2. Step(t, c)
    BY <1>4 DEF Goto
  <2> HIDE DEF c
  <2>3. Linked(t)' /\ Reading(t)'
    BY <1>1, <2>1, <2>2, SettledLinks DEF Settled
  <2>4. Shape(c)
    BY <1>1, <1>2, <2>1 DEF Shape, HandAt, MovingAt
  <2>5. Alone(t)'
    BY <1>2, <2>1, <2>2, AloneStays DEF Alone
  <2> QED
    BY <1>2, <1>4, <2>1, <2>2, <2>3, <2>4, <2>5, QuietStep DEF HandAt, MovingAt, ReadAt
<1>5. ASSUME NEW c, c = [pc[t] EXCEPT !.at = "pop", !.seg = Null] \/ c = Idle,
             Step(t, c), threadId' = [threadId EXCEPT ![pc[t].seg] = t]
      PROVE  IInv'
  <2>1. /\ c \in Control /\ c.at \in {"pop", "idle"} /\ c.seg = Null /\ c.anext = Null
        /\ c.calm => pc[t].calm
    BY <1>1, <1>3, <1>5, Typed, IdleIs DEF Control, Label, Cell
  <2>2. Shape(c)
    BY <2>1 DEF Shape, HandAt, MovingAt
  <2>3. Alone(t)'
    BY <1>2, <1>5, <2>1, AloneStays DEF Alone
  <2> QED
    BY <1>2, <1>3, <1>5, <2>1, <2>2, <2>3, OwnHolds DEF HandAt, MovingAt, ReadAt, Settled
<1> QED
  BY <1>4, <1>5 DEF Reclaim

LEMMA AllocHolds ==
    ASSUME IInv, NEW t \in Thread, NEW s \in Segment, Alloc(t, s) PROVE IInv'
<1>1. TypeOK /\ OneHome /\ Shape(pc[t])
  BY DEF IInv
<1>2. /\ pc[t].at = "idle" /\ s \notin mapped /\ Step(t, Idle)
      /\ mapped' = mapped \cup {s}
      /\ threadId' = [threadId EXCEPT ![s] = t]
      /\ next' = [next EXCEPT ![s] = Null]
      /\ UNCHANGED <<abandoned, visited, readers>>
  BY DEF Alloc
<1>3. pc' \in [Thread -> Control] /\ pc'[t] = Idle
  BY <1>1, <1>2, IdleIs, StepIs
<1>4. /\ next' \in Links /\ next'[s] = Null
      /\ \A r \in Segment \ {s} : next'[r] = next[r]
  BY <1>1, <1>2, Typed DEF Links, Cell
<1>5. /\ threadId' \in [Segment -> Thread \cup {NoThread}] /\ threadId'[s] = t
      /\ \A r \in Segment \ {s} : threadId'[r] = threadId[r]
  BY <1>1, <1>2 DEF TypeOK
<1>6. TypeOK'
  BY <1>1, <1>2, <1>3, <1>4, <1>5 DEF TypeOK, Links
<1>7. Touches(t, s)
  BY <1>1, <1>2, <1>4, <1>5, MayTouch DEF Touches
<1>8. Held(t)' = Held(t) \cup {s}
  BY <1>2, <1>3, <1>5, IdleIs DEF Held, Holds, HandAt
<1>9. Grabbed(t) = {} /\ Grabbed(t)' = {}
  BY <1>2, <1>3, IdleIs DEF Grabbed, MovingAt
<1>10. /\ Ends(abandoned.ptr)' /\ Chain(abandoned.ptr)' = Chain(abandoned.ptr)
       /\ Ends(visited)' /\ Chain(visited)' = Chain(visited)
  BY <1>2, <1>7, IdleIs, EndsStay
<1>11. s \notin Shared /\ Shared' = Shared
  BY <1>7, <1>10 DEF Touches, Shared
<1>12. Fits(t)' /\ Movable(t)' = Movable(t)
  BY <1>1, <1>2, <1>8, <1>9, <1>10, <1>11 DEF Fits, Movable, Mine, OneHome
<1>13. Linked(t)' /\ Reading(t)'
  BY <1>1, <1>2, IdleIs, SettledLinks DEF Settled
<1>14. Counted'
  BY <1>2, IdleIs, StillCounted DEF ReadAt
<1>15. Alone(t)' /\ Shape(Idle)
  BY <1>3, IdleIs DEF Alone, Shape, HandAt, MovingAt
<1> QED
  BY <1>2, <1>4, <1>6, <1>7, <1>10, <1>12, <1>13, <1>14, <1>15, IdleIs, StepHolds DEF HandAt

LEMMA UnmapHolds == ASSUME IInv, NEW t \in Thread, Unmap(t) PROVE IInv'
<1> DEFINE s == pc[t].seg
           c == IF pc[t].call = "none" THEN Idle
                ELSE [Idle EXCEPT !.at = "pop", !.call = pc[t].call, !.calm = pc[t].calm]
<1>1. TypeOK /\ OneHome /\ Shape(pc[t])
  BY DEF IInv
<1>2. /\ pc[t].at = "unmap" /\ Step(t, c) /\ mapped' = mapped \ {s}
      /\ UNCHANGED <<abandoned, visited, next, threadId, readers>>
  BY DEF Unmap
<1>3. /\ c \in Control /\ c.at \in {"idle", "pop"} /\ c.seg = Null /\ c.anext = Null
      /\ c.calm => pc[t].calm
  BY <1>1, Typed, IdleIs DEF Control, Label, Call, Cell
<1>4. s \in Segment /\ s \in Mine(t) /\ s \in Held(t) /\ threadId[s] = NoThread
      /\ Grabbed(t) = {}
  BY <1>2, InHand DEF HandAt
<1> HIDE DEF c, s
<1>5. pc' \in [Thread -> Control] /\ pc'[t] = c
  BY <1>1, <1>2, <1>3, StepIs
<1>6. TypeOK'
  BY <1>1, <1>2, <1>5 DEF TypeOK
<1>7. Touches(t, s)
  BY <1>1, <1>2, <1>4, Typed, MayTouch DEF Touches, TypeOK
<1>8. Held(t)' = Held(t) \ {s}
  BY <1>2, <1>3, <1>4, <1>5, AbandonedAssumption DEF Held, Holds, HandAt, s
<1>9. Grabbed(t)' = {}
  BY <1>3, <1>5 DEF Grabbed, MovingAt
<1>10. /\ Ends(abandoned.ptr)' /\ Chain(abandoned.ptr)' = Chain(abandoned.ptr)
       /\ Ends(visited)' /\ Chain(visited)' = Chain(visited)
  BY <1>2, <1>3, <1>7, EndsStay
<1>11. s \notin Shared /\ Shared' = Shared
  BY <1>7, <1>10 DEF Touches, Shared
<1>12. Fits(t)' /\ Movable(t)' = Movable(t)
  BY <1>1, <1>2, <1>4, <1>8, <1>9, <1>10, <1>11 DEF Fits, Movable, Mine, OneHome
<1>13. Linked(t)' /\ Reading(t)'
  BY <1>1, <1>2, <1>3, SettledLinks DEF Settled
<1>14. Counted'
  BY <1>2, <1>3, StillCounted DEF ReadAt
<1>15. Shape(c)
  BY <1>3 DEF Shape, HandAt, MovingAt
<1>16. Alone(t)'
  BY <1>2, <1>3, AloneStays DEF Alone
<1>17. \A r \in mapped \ mapped' : pc[t].at = "unmap" /\ r = pc[t].seg
  BY <1>2 DEF s
<1>18. abandoned' = abandoned /\ c.at # "unmap" /\ threadId'[s] = NoThread
       /\ c.at \notin HandAt
  BY <1>2, <1>3, <1>4 DEF HandAt
<1> QED
  BY <1>2, <1>3, <1>6, <1>7, <1>10, <1>12, <1>13, <1>14, <1>15, <1>16, <1>17, <1>18, StepHolds

-----------------------------------------------------------------------------
(* Steps that change where a list begins.                                  *)

LEMMA ListHolds ==
    ASSUME IInv, NEW t \in Thread, NEW c \in Control, Step(t, c),
           UNCHANGED <<next, threadId, mapped, readers>>,
           abandoned' \in Tagged, visited' \in Cell,
           abandoned' = abandoned \/ \A u \in Thread : pc[u].ts # abandoned',
           c.at # "unmap", c.at \in ReadAt <=> pc[t].at \in ReadAt,
           c.at \in HandAt /\ c.seg # Null => threadId[c.seg] = NoThread,
           Fits(t)', Movable(t)' = Movable(t),
           Ends(abandoned.ptr)', Ends(visited)',
           Shape(c), Linked(t)', Reading(t)', Alone(t)'
    PROVE  IInv'
<1>1. TypeOK
  BY DEF IInv
<1>2. pc' \in [Thread -> Control]
  BY <1>1, StepIs
<1>3. TypeOK'
  BY <1>1, <1>2 DEF TypeOK, Cell
<1>4. Touches(t, Null)
  <2>1. \A u \in Thread : Null \notin Mine(u)
    BY AbandonedAssumption DEF Mine, Held, Grabbed, Reach
  <2>2. Null \notin Shared
    BY AbandonedAssumption DEF Shared, Chain, Reach
  <2> QED
    BY <1>1, <2>1, <2>2, AbandonedAssumption, Typed DEF Touches, TypeOK
<1>5. Counted'
  BY StillCounted
<1> QED
  BY <1>3, <1>4, <1>5, AbandonedAssumption, StepHolds

\* A chain with one more segment in front.
LEMMA Pushed ==
    ASSUME TypeOK, NEW s \in Segment, NEW f \in Cell, next[s] = f, Ends(f)
    PROVE  Chain(s) = {s} \cup Chain(f) /\ Ends(s)
<1>1. Chain(s) = {s} \cup Chain(f)
  BY Typed, ReachFirst, AbandonedAssumption DEF Chain
<1>2. Ends(s)
  BY <1>1 DEF Ends
<1> QED
  BY <1>1, <1>2

LEMMA PushHolds == ASSUME IInv, NEW t \in Thread, Push(t) PROVE IInv'
<1> DEFINE s == pc[t].seg
           failure == [pc[t] EXCEPT !.at = "link"]
           c == [failure EXCEPT !.ts = abandoned]
<1>1. TypeOK /\ OneHome /\ Shape(pc[t]) /\ Linked(t)
      /\ Ends(abandoned.ptr) /\ Ends(visited)
  BY DEF IInv
<1>2. /\ pc[t].at = "push" /\ Cas(t, s, Idle, failure)
      /\ UNCHANGED <<visited, next, threadId, mapped, readers>>
  BY DEF Push
<1>3. s \in Segment /\ s \in Mine(t) /\ s \in Held(t) /\ threadId[s] = NoThread
      /\ Grabbed(t) = {} /\ s \in Cell
  BY <1>2, InHand DEF HandAt, Cell
<1>4. failure \in Control /\ failure.at = "link" /\ failure.seg = s
      /\ failure.anext = pc[t].anext /\ failure.calm = pc[t].calm
  BY <1>1, PlaceSet DEF Label
<1>5. pc[t].anext = Null /\ next[s] = pc[t].ts.ptr
  BY <1>1, <1>2 DEF Shape, Linked
<1> HIDE DEF s, failure
<1>6. ASSUME abandoned # pc[t].ts, UNCHANGED abandoned, c \in Control, Step(t, c)
      PROVE  IInv'
  <2>1. c.at = "link" /\ c.seg = s /\ c.anext = Null /\ c.calm = pc[t].calm
    BY <1>4, <1>5 DEF Control
  <2> HIDE DEF c
  <2>2. Linked(t)' /\ Reading(t)'
    BY <1>1, <1>6, <2>1, SettledLinks DEF Settled
  <2>3. Shape(c)
    BY <1>3, <2>1, AbandonedAssumption DEF Shape, HandAt, MovingAt
  <2>4. Alone(t)'
    BY <1>2, <1>6, <2>1, AloneStays DEF Alone
  <2> QED
    BY <1>2, <1>3, <1>6, <2>1, <2>2, <2>3, <2>4, QuietStep, AbandonedAssumption
       DEF HandAt, MovingAt, ReadAt, s
<1>7. ASSUME abandoned = pc[t].ts, abandoned' \in Tagged, abandoned'.ptr = s,
             \A u \in Thread : pc[u].ts # abandoned', Step(t, Idle)
      PROVE  IInv'
  <2>1. Chain(s) = {s} \cup Chain(abandoned.ptr) /\ Ends(s)
    BY <1>1, <1>3, <1>5, <1>7, Typed, Pushed
  <2>2. Chain(abandoned.ptr)' = {s} \cup Chain(abandoned.ptr)
        /\ Chain(visited)' = Chain(visited)
    BY <1>2, <1>7, <2>1 DEF Chain
  <2>3. Ends(abandoned.ptr)' /\ Ends(visited)'
    BY <1>1, <1>2, <1>7, <2>1 DEF Ends, Chain
  <2>4. pc'[t] = Idle
    BY <1>1, <1>7, IdleIs, StepIs
  <2>5. Held(t)' = Held(t) \ {s} /\ Grabbed(t)' = {}
    BY <1>2, <1>3, <2>4, IdleIs, AbandonedAssumption
       DEF Held, Holds, Grabbed, HandAt, MovingAt, s
  <2>6. Fits(t)' /\ Movable(t)' = Movable(t)
    BY <1>1, <1>2, <1>3, <2>2, <2>5 DEF Fits, Movable, Mine, Shared, OneHome
  <2>7. Linked(t)' /\ Reading(t)'
    BY <1>1, <1>7, IdleIs, SettledLinks DEF Settled
  <2>8. Shape(Idle) /\ Alone(t)'
    BY <2>4, IdleIs DEF Shape, HandAt, MovingAt, Alone
  <2> QED
    BY <1>1, <1>2, <1>7, <2>3, <2>6, <2>7, <2>8, Typed, IdleIs, ListHolds DEF HandAt, ReadAt
<1> QED
  BY <1>1, <1>2, <1>3, <1>4, <1>6, <1>7, IdleIs, CasIs

\* What abandoned_visited_revisit comes back to.
LEMMA RevisitDoneIs ==
    ASSUME IInv, NEW t \in Thread, NEW c, c = RevisitDone(t)
    PROVE  /\ c \in Control /\ c.seg = Null /\ c.anext = pc[t].anext
           /\ c.calm = pc[t].calm /\ c.at \in {"empty", "enter", "pop"}
           /\ c.at = "empty" => pc[t].at = "revisit" /\ pc[t].call # "force"
           /\ c.at = "enter" => pc[t].at # "revisit"
<1> DEFINE r == Revisited(t)
<1>1. TypeOK
  BY DEF IInv
<1>2. /\ r \in Control /\ r.seg = Null /\ r.anext = pc[t].anext /\ r.calm = pc[t].calm
      /\ r.at \in {"empty", "enter"} /\ (r.at = "empty" <=> pc[t].at = "revisit")
  BY <1>1, Typed, IdleIs DEF Revisited, Control, Label, Cell
<1>3. CASE pc[t].call = "force"
  <2>1. c = [r EXCEPT !.at = "pop", !.call = "collect"]
    BY <1>3 DEF RevisitDone, ForceRevisited
  <2> HIDE DEF r
  <2> QED
    BY <1>2, <2>1 DEF Control, Label, Call
<1>4. CASE pc[t].call # "force"
  <2>1. c = r
    BY <1>4 DEF RevisitDone
  <2> HIDE DEF r
  <2> QED
    BY <1>2, <1>4, <2>1
<1> QED
  BY <1>3, <1>4

\* The visited list is empty, or all of it comes to t.
LEMMA RevisitHolds == ASSUME IInv, NEW t \in Thread, Revisit(t) PROVE IInv'
<1>1. TypeOK /\ OneHome /\ Shape(pc[t]) /\ Ends(abandoned.ptr) /\ Ends(visited)
  BY DEF IInv
<1>2. /\ pc[t].at = "revisit" /\ visited' = Null
      /\ UNCHANGED <<abandoned, next, threadId, mapped, readers>>
  BY DEF Revisit
<1>3. pc[t].anext = Null
  BY <1>1, <1>2 DEF Shape
<1>4. CASE visited = Null
  <2> DEFINE c == RevisitDone(t)
  <2>1. Step(t, c)
    BY <1>4 DEF Revisit
  <2>2. /\ c \in Control /\ c.seg = Null /\ c.anext = pc[t].anext
        /\ c.calm = pc[t].calm /\ c.at \in {"empty", "enter", "pop"}
        /\ c.at = "empty" => pc[t].at = "revisit" /\ pc[t].call # "force"
        /\ c.at = "enter" => pc[t].at # "revisit"
    BY RevisitDoneIs
  <2> HIDE DEF c
  <2>3. Linked(t)' /\ Reading(t)'
    BY <1>1, <2>1, <2>2, SettledLinks DEF Settled
  <2>4. Shape(c)
    BY <1>3, <2>2 DEF Shape, HandAt, MovingAt
  <2>5. Alone(t)'
    BY <1>2, <1>4, <2>1, <2>2, AloneStays DEF Alone
  <2> QED
    BY <1>2, <1>4, <2>1, <2>2, <2>3, <2>4, <2>5, QuietStep DEF HandAt, MovingAt, ReadAt
<1>5. CASE visited # Null
  <2> DEFINE c == [pc[t] EXCEPT !.at = "swap", !.seg = visited]
  <2>1. Step(t, c)
    BY <1>5 DEF Revisit
  <2>2. visited \in Cell /\ Null \in Cell /\ visited \in Segment
    BY <1>1, <1>5, Typed DEF Cell
  <2>3. /\ c \in Control /\ c.at = "swap" /\ c.seg = visited /\ c.anext = Null
        /\ c.calm = pc[t].calm
    BY <1>1, <1>3, <2>2, Typed DEF Control, Label, Cell
  <2> HIDE DEF c
  <2>4. pc'[t] = c
    BY <1>1, <2>1, <2>3, StepIs
  <2>5. Chain(visited)' = {} /\ Chain(abandoned.ptr)' = Chain(abandoned.ptr)
    BY <1>1, <1>2, Typed, ReachNull DEF Chain
  <2>6. Held(t)' = Held(t) /\ Grabbed(t) = {} /\ Grabbed(t)' = Chain(visited)
    BY <1>2, <2>3, <2>4 DEF Held, Holds, Grabbed, Chain, HandAt, MovingAt
  <2>7. Fits(t)' /\ Movable(t)' = Movable(t)
    BY <1>1, <1>2, <2>5, <2>6 DEF Fits, Movable, Mine, Shared, OneHome
  <2>8. Ends(abandoned.ptr)' /\ Ends(visited)'
    BY <1>1, <1>2 DEF Ends, Chain
  <2>9. Ends(pc[t].seg)'
    BY <1>1, <1>2, <2>3, <2>4 DEF Ends, Chain
  <2>10. Linked(t)' /\ Reading(t)'
    BY <2>3, <2>4, <2>9 DEF Linked, Reading
  <2>11. Shape(c)
    BY <1>5, <2>3 DEF Shape, HandAt, MovingAt
  <2>12. Alone(t)'
    BY <1>2, <2>1, <2>3, AloneStays DEF Alone
  <2> QED
    BY <1>1, <1>2, <2>1, <2>2, <2>3, <2>7, <2>8, <2>10, <2>11, <2>12, ListHolds
       DEF HandAt, ReadAt, TypeOK
<1> QED
  BY <1>4, <1>5

\* The visited segments are on the abandoned list at once.
LEMMA MovedHolds ==
    ASSUME IInv, NEW t \in Thread, pc[t].at \in MovingAt,
           NEW c \in Control, Step(t, c), c.at \in {"enter", "pop"}, c.seg = Null,
           c.anext = Null, c.calm = pc[t].calm,
           UNCHANGED <<visited, next, threadId, mapped, readers>>,
           abandoned' \in Tagged, abandoned'.ptr = pc[t].seg,
           \A u \in Thread : pc[u].ts # abandoned',
           Chain(pc[t].seg) = Grabbed(t) \cup Chain(abandoned.ptr), Ends(pc[t].seg)
    PROVE  IInv'
<1>1. TypeOK /\ OneHome /\ Shape(pc[t]) /\ Ends(visited) /\ visited \in Cell
  BY Typed DEF IInv
<1>2. pc'[t] = c /\ pc[t].at \notin HandAt /\ pc[t].seg # Null
  BY <1>1, StepIs DEF HandAt, MovingAt, Shape
<1>3. Chain(abandoned.ptr)' = Grabbed(t) \cup Chain(abandoned.ptr)
      /\ Chain(visited)' = Chain(visited)
  BY DEF Chain
<1>4. Ends(abandoned.ptr)' /\ Ends(visited)'
  BY <1>1 DEF Ends, Chain
<1>5. Held(t)' = Held(t) /\ Grabbed(t)' = {}
  BY <1>2 DEF Held, Holds, Grabbed, HandAt, MovingAt
<1>6. Fits(t)' /\ Movable(t)' = Movable(t)
  BY <1>1, <1>3, <1>5 DEF Fits, Movable, Mine, Shared, OneHome
<1>7. Linked(t)' /\ Reading(t)'
  BY <1>1, SettledLinks DEF Settled
<1>8. Shape(c)
  BY DEF Shape, HandAt, MovingAt
<1>9. Alone(t)'
  BY <1>2, AloneStays DEF Alone
<1> QED
  BY <1>1, <1>4, <1>6, <1>7, <1>8, <1>9, ListHolds DEF HandAt, MovingAt, ReadAt

LEMMA SwapCasHolds == ASSUME IInv, NEW t \in Thread, SwapCas(t) PROVE IInv'
<1> DEFINE success == RevisitDone(t)
           failure == [pc[t] EXCEPT !.at = "prepend"]
           c == [failure EXCEPT !.ts = abandoned]
<1>1. TypeOK /\ Shape(pc[t]) /\ Linked(t) /\ pc[t].seg \in Cell
  BY Typed DEF IInv
<1>2. /\ pc[t].at = "swapCas" /\ Cas(t, pc[t].seg, success, failure)
      /\ UNCHANGED <<visited, next, threadId, mapped, readers>>
  BY DEF SwapCas
<1>3. /\ pc[t].seg # Null /\ pc[t].anext = Null /\ pc[t].ts.ptr = Null
      /\ Ends(pc[t].seg) /\ Grabbed(t) = Chain(pc[t].seg)
  BY <1>1, <1>2 DEF Shape, Linked, Grabbed, Chain, MovingAt
<1>4. /\ success \in Control /\ success.seg = Null /\ success.anext = pc[t].anext
      /\ success.calm = pc[t].calm /\ success.at \in {"enter", "pop"}
  BY <1>2, RevisitDoneIs
<1>5. failure \in Control /\ failure.at = "prepend" /\ failure.seg = pc[t].seg
      /\ failure.anext = pc[t].anext /\ failure.calm = pc[t].calm
  BY <1>1, PlaceSet DEF Label
<1> HIDE DEF success, failure
<1>6. ASSUME abandoned # pc[t].ts, UNCHANGED abandoned, c \in Control, Step(t, c)
      PROVE  IInv'
  <2>1. c.at = "prepend" /\ c.seg = pc[t].seg /\ c.anext = Null /\ c.calm = pc[t].calm
    BY <1>3, <1>5 DEF Control
  <2> HIDE DEF c
  <2>2. pc'[t] = c
    BY <1>1, <1>6, StepIs
  <2>3. Ends(pc[t].seg)'
    BY <1>2, <1>3, <2>1, <2>2 DEF Ends, Chain
  <2>4. Linked(t)' /\ Reading(t)'
    BY <2>1, <2>2, <2>3 DEF Linked, Reading
  <2>5. Shape(c)
    BY <1>3, <2>1 DEF Shape, HandAt, MovingAt
  <2>6. Alone(t)'
    BY <1>2, <1>6, <2>1, AloneStays DEF Alone
  <2>7. Reach(next, c.seg, c.anext) = Grabbed(t)
    BY <1>3, <2>1 DEF Chain
  <2> QED
    BY <1>2, <1>6, <2>1, <2>4, <2>5, <2>6, <2>7, QuietStep DEF HandAt, MovingAt, ReadAt
<1>7. ASSUME abandoned = pc[t].ts, abandoned' \in Tagged, abandoned'.ptr = pc[t].seg,
             \A u \in Thread : pc[u].ts # abandoned', Step(t, success)
      PROVE  IInv'
  <2>1. Chain(abandoned.ptr) = {}
    BY <1>1, <1>3, <1>7, Typed, ReachNull DEF Chain
  <2>2. pc[t].at \in MovingAt
    BY <1>2 DEF MovingAt
  <2> QED
    BY <1>2, <1>3, <1>4, <1>7, <2>1, <2>2, MovedHolds
<1> QED
  BY <1>1, <1>2, <1>4, <1>5, <1>6, <1>7, CasIs

LEMMA PrependCasHolds == ASSUME IInv, NEW t \in Thread, PrependCas(t) PROVE IInv'
<1> DEFINE done == RevisitDone(t)
           success == [done EXCEPT !.anext = Null]
           failure == [pc[t] EXCEPT !.at = "splice"]
           c == [failure EXCEPT !.ts = abandoned]
           l == pc[t].anext
<1>1. TypeOK /\ Shape(pc[t]) /\ Linked(t) /\ pc[t].seg \in Cell /\ Ends(abandoned.ptr)
  BY Typed DEF IInv
<1>2. /\ pc[t].at = "prependCas" /\ Cas(t, pc[t].seg, success, failure)
      /\ UNCHANGED <<visited, next, threadId, mapped, readers>>
  BY DEF PrependCas
<1>3. /\ pc[t].seg # Null /\ l \in Grabbed(t) /\ next[l] = pc[t].ts.ptr
      /\ Grabbed(t) = Reach(next, pc[t].seg, l)
  BY <1>1, <1>2 DEF Shape, Linked, Grabbed, MovingAt
<1>4. /\ done \in Control /\ done.seg = Null
      /\ done.calm = pc[t].calm /\ done.at \in {"enter", "pop"}
  BY <1>2, RevisitDoneIs
<1> HIDE DEF done
<1>5. /\ success \in Control /\ success.seg = Null /\ success.anext = Null
      /\ success.calm = pc[t].calm /\ success.at \in {"enter", "pop"}
  BY <1>4 DEF Control
<1>6. failure \in Control /\ failure.at = "splice" /\ failure.seg = pc[t].seg
      /\ failure.anext = l /\ failure.calm = pc[t].calm
  BY <1>1, PlaceSet DEF Label
<1> HIDE DEF success, failure
<1>7. ASSUME abandoned # pc[t].ts, UNCHANGED abandoned, c \in Control, Step(t, c)
      PROVE  IInv'
  <2>1. c.at = "splice" /\ c.seg = pc[t].seg /\ c.anext = l /\ c.calm = pc[t].calm
    BY <1>6 DEF Control
  <2> HIDE DEF c
  <2>2. pc'[t] = c
    BY <1>1, <1>7, StepIs
  <2>3. l \in Grabbed(t)'
    BY <1>2, <1>3, <2>1, <2>2 DEF Grabbed, MovingAt
  <2>4. Linked(t)' /\ Reading(t)'
    BY <2>1, <2>2, <2>3 DEF Linked, Reading
  <2>5. Shape(c)
    BY <1>3, <2>1 DEF Shape, HandAt, MovingAt
  <2>6. Alone(t)'
    BY <1>2, <1>7, <2>1, AloneStays DEF Alone
  <2> QED
    BY <1>2, <1>3, <1>7, <2>1, <2>4, <2>5, <2>6, QuietStep DEF HandAt, MovingAt, ReadAt
<1>8. ASSUME abandoned = pc[t].ts, abandoned' \in Tagged, abandoned'.ptr = pc[t].seg,
             \A u \in Thread : pc[u].ts # abandoned', Step(t, success)
      PROVE  IInv'
  <2>1. Chain(pc[t].seg) = Grabbed(t) \cup Chain(abandoned.ptr)
    BY <1>1, <1>3, <1>8, Typed, ReachJoin DEF Chain
  <2>2. Ends(pc[t].seg)
    <3>1. CASE abandoned.ptr = Null
      BY <1>3, <1>8, <2>1, <3>1 DEF Ends
    <3>2. CASE abandoned.ptr # Null
      BY <1>1, <2>1, <3>2 DEF Ends
    <3> QED
      BY <3>1, <3>2
  <2>3. pc[t].at \in MovingAt
    BY <1>2 DEF MovingAt
  <2> QED
    BY <1>2, <1>5, <1>8, <2>1, <2>2, <2>3, MovedHolds
<1> QED
  BY <1>1, <1>2, <1>5, <1>6, <1>7, <1>8, CasIs

\* A pop that succeeds has read the link as it is: the tag is the same.
LEMMA TakeHolds == ASSUME IInv, NEW t \in Thread, Take(t) PROVE IInv'
<1> DEFINE h == pc[t].ts.ptr
           f == pc[t].anext
           c == [pc[t] EXCEPT !.at = "leave", !.seg = h, !.anext = Null]
           failure == Loaded(t)
<1>1. TypeOK /\ OneHome /\ Shape(pc[t]) /\ Linked(t) /\ f \in Cell
      /\ Ends(abandoned.ptr) /\ Ends(visited)
  BY Typed DEF IInv
<1>2. /\ pc[t].at = "take" /\ Cas(t, f, c, failure)
      /\ UNCHANGED <<visited, next, threadId, mapped, readers>>
  BY DEF Take
<1>3. h \in Segment /\ h # Null /\ Null \in Cell
  BY <1>1, <1>2, Typed DEF Shape, Cell
<1>4. /\ c \in Control /\ c.at = "leave" /\ c.seg = h /\ c.anext = Null
      /\ c.calm = pc[t].calm
  BY <1>1, <1>3, Typed DEF Control, Label, Cell
<1>5. failure \in Control /\ [failure EXCEPT !.ts = abandoned] = failure
  <2>1. failure \in Control /\ failure.ts = abandoned
    BY <1>2, LoadedIs
  <2> HIDE DEF failure
  <2> QED
    BY <2>1 DEF Control
<1> HIDE DEF c
<1>6. ASSUME abandoned # pc[t].ts, UNCHANGED abandoned, Step(t, failure)
      PROVE  IInv'
  BY <1>2, <1>6, LoadedHolds
<1>7. ASSUME abandoned = pc[t].ts, abandoned' \in Tagged, abandoned'.ptr = f,
             \A u \in Thread : pc[u].ts # abandoned', Step(t, c)
      PROVE  IInv'
  <2>1. f = next[h] /\ h = abandoned.ptr
    BY <1>1, <1>2, <1>7 DEF Linked
  <2>2. PICK e \in Chain(h) : next[e] = Null
    BY <1>1, <1>3, <2>1 DEF Ends
  <2>3. Chain(h) = {h} \cup Chain(f)
    BY <1>1, <1>3, <2>1, Typed, ReachFirst DEF Chain
  <2>4. h \notin Chain(f)
    BY <1>1, <1>3, <2>1, <2>2, Typed, NoCycle DEF Chain
  <2>5. Ends(f)
    <3>1. CASE e = h
      BY <2>1, <2>2, <3>1 DEF Ends
    <3>2. CASE e # h
      BY <2>2, <2>3, <3>2 DEF Ends
    <3> QED
      BY <3>1, <3>2
  <2>6. Chain(abandoned.ptr)' = Chain(abandoned.ptr) \ {h}
        /\ Chain(visited)' = Chain(visited)
    BY <1>2, <1>7, <2>1, <2>3, <2>4 DEF Chain
  <2>7. Ends(abandoned.ptr)' /\ Ends(visited)'
    BY <1>1, <1>2, <1>7, <2>5 DEF Ends, Chain
  <2>8. pc'[t] = c
    BY <1>1, <1>4, <1>7, StepIs
  <2>9. pc[t].seg = Null
    BY <1>1, <1>2 DEF Shape, HandAt, MovingAt
  <2>10. Held(t)' = Held(t) \cup {h} /\ Grabbed(t) = {} /\ Grabbed(t)' = {}
    BY <1>2, <1>3, <1>4, <2>8 DEF Held, Holds, Grabbed, HandAt, MovingAt
  <2>11. h \in Chain(abandoned.ptr) /\ h \in Shared
    BY <2>1, <2>3 DEF Shared
  <2>12. Fits(t)' /\ Movable(t)' = Movable(t)
    BY <1>1, <1>2, <1>3, <2>6, <2>10, <2>11 DEF Fits, Movable, Mine, Shared, OneHome
  <2>13. threadId[h] = NoThread
    <3>1. threadId[h] \in Thread => h \in Mine(threadId[h])
      BY <1>3 DEF Mine, Held, Holds
    <3> QED
      BY <1>1, <1>3, <2>11, <3>1 DEF OneHome, TypeOK
  <2>14. Linked(t)' /\ Reading(t)'
    BY <1>1, <1>4, <1>7, SettledLinks DEF Settled
  <2>15. Shape(c)
    BY <1>4 DEF Shape, HandAt, MovingAt
  <2>16. Alone(t)'
    BY <1>2, <1>3, <1>4, <1>7, AloneStays DEF Alone
  <2> QED
    BY <1>1, <1>2, <1>4, <1>7, <2>7, <2>12, <2>13, <2>14, <2>15, <2>16, Typed, ListHolds
       DEF HandAt, ReadAt
<1> HIDE DEF failure, f
<1> QED
  BY <1>1, <1>2, <1>4, <1>5, <1>6, <1>7, CasIs

LEMMA VisitCasHolds == ASSUME IInv, NEW t \in Thread, VisitCas(t) PROVE IInv'
<1> DEFINE s == pc[t].seg
<1>1. TypeOK /\ OneHome /\ Shape(pc[t]) /\ Linked(t)
      /\ Ends(abandoned.ptr) /\ Ends(visited) /\ visited \in Cell
  BY Typed DEF IInv
<1>2. /\ pc[t].at = "visitCas"
      /\ UNCHANGED <<abandoned, next, threadId, mapped, readers>>
  BY DEF VisitCas
<1>3. s \in Segment /\ s \in Mine(t) /\ s \in Held(t) /\ threadId[s] = NoThread
      /\ Grabbed(t) = {} /\ s \in Cell /\ s # Null
  BY <1>2, InHand, AbandonedAssumption DEF HandAt, Cell
<1>4. next[s] = pc[t].anext
  BY <1>1, <1>2 DEF Linked
<1>5. CASE visited = pc[t].anext
  <2> DEFINE c == [pc[t] EXCEPT !.at = "pop", !.seg = Null, !.anext = Null]
  <2>1. visited' = s /\ Step(t, c)
    BY <1>5 DEF VisitCas
  <2>2. /\ c \in Control /\ c.at = "pop" /\ c.seg = Null /\ c.anext = Null
        /\ c.calm = pc[t].calm
    BY <1>1, Typed DEF Control, Label
  <2> HIDE DEF c
  <2>3. Chain(s) = {s} \cup Chain(visited) /\ Ends(s)
    BY <1>1, <1>3, <1>4, <1>5, Pushed
  <2>4. Chain(visited)' = {s} \cup Chain(visited)
        /\ Chain(abandoned.ptr)' = Chain(abandoned.ptr)
    BY <1>2, <2>1, <2>3 DEF Chain
  <2>5. Ends(abandoned.ptr)' /\ Ends(visited)'
    BY <1>1, <1>2, <2>1, <2>3 DEF Ends, Chain
  <2>6. pc'[t] = c
    BY <1>1, <2>1, <2>2, StepIs
  <2>7. Held(t)' = Held(t) \ {s} /\ Grabbed(t)' = {}
    BY <1>2, <1>3, <2>2, <2>6, AbandonedAssumption
       DEF Held, Holds, Grabbed, HandAt, MovingAt
  <2>8. Fits(t)' /\ Movable(t)' = Movable(t)
    BY <1>1, <1>2, <1>3, <2>4, <2>7 DEF Fits, Movable, Mine, Shared, OneHome
  <2>9. Linked(t)' /\ Reading(t)'
    BY <1>1, <2>1, <2>2, SettledLinks DEF Settled
  <2>10. Shape(c)
    BY <2>2 DEF Shape, HandAt, MovingAt
  <2>11. Alone(t)'
    BY <1>2, <2>1, <2>2, AloneStays DEF Alone
  <2> QED
    BY <1>1, <1>2, <1>3, <2>1, <2>2, <2>5, <2>8, <2>9, <2>10, <2>11, ListHolds
       DEF HandAt, ReadAt, TypeOK
<1>6. CASE visited # pc[t].anext
  <2> DEFINE c == [pc[t] EXCEPT !.at = "visitLink", !.anext = visited]
  <2>1. visited' = visited /\ Step(t, c)
    BY <1>6 DEF VisitCas
  <2>2. /\ c \in Control /\ c.at = "visitLink" /\ c.seg = s /\ c.anext = visited
        /\ c.calm = pc[t].calm
    BY <1>1, Typed DEF Control, Label, Cell
  <2> HIDE DEF c
  <2>3. Linked(t)' /\ Reading(t)'
    BY <1>1, <2>1, <2>2, SettledLinks DEF Settled
  <2>4. Shape(c)
    BY <1>3, <2>2 DEF Shape, HandAt, MovingAt
  <2>5. Alone(t)'
    BY <1>2, <2>1, <2>2, AloneStays DEF Alone
  <2> QED
    BY <1>2, <1>3, <2>1, <2>2, <2>3, <2>4, <2>5, QuietStep DEF HandAt, MovingAt, ReadAt
<1> QED
  BY <1>5, <1>6

-----------------------------------------------------------------------------
(* The inductive invariant.                                                *)

LEMMA InitHolds == Init => IInv
<1> SUFFICES ASSUME Init PROVE IInv
  OBVIOUS
<1>1. /\ abandoned = NoTag /\ visited = Null /\ next = [s \in Segment |-> Null]
      /\ threadId = [s \in Segment |-> NoThread] /\ mapped = {} /\ readers = 0
      /\ \A t \in Thread : pc[t] = Idle
      /\ pc \in [Thread -> Control] /\ abandoned.ptr = Null
  BY IdleIs DEF Init, NoTag
<1>2. Cardinality(Thread) \in Nat
  BY AbandonedAssumption, FS_CardinalityType
<1>3. TypeOK
  BY <1>1, <1>2, IdleIs DEF TypeOK
<1>4. Chain(Null) = {}
  BY <1>3, Typed, ReachNull DEF Chain
<1>5. \A t \in Thread : Held(t) = {} /\ Grabbed(t) = {}
  BY <1>1, IdleIs, AbandonedAssumption DEF Held, Holds, Grabbed, HandAt, MovingAt
<1>6. OneHome
  BY <1>1, <1>4, <1>5 DEF OneHome, Shared, Mine
<1>7. Unlinked
  BY <1>1, IdleIs DEF Unlinked
<1>8. Counted
  <2>1. {t \in Thread : pc[t].at \in ReadAt} = {}
    BY <1>1, IdleIs DEF ReadAt
  <2> QED
    BY <1>1, <2>1, FS_EmptySet DEF Counted
<1>9. Ends(abandoned.ptr) /\ Ends(visited)
  BY <1>1 DEF Ends
<1>10. \A t \in Thread : Shape(pc[t]) /\ Linked(t) /\ Reading(t) /\ Alone(t)
  BY <1>1, IdleIs DEF Shape, Linked, Reading, Alone, HandAt, MovingAt
<1> QED
  BY <1>3, <1>6, <1>7, <1>8, <1>9, <1>10 DEF IInv

LEMMA NextHolds == IInv /\ [Next]_vars => IInv'
<1> SUFFICES ASSUME IInv, [Next]_vars PROVE IInv'
  OBVIOUS
<1>1. ASSUME NEW t \in Thread, NEW s \in Segment, Alloc(t, s) \/ Free(t, s) \/ Abandon(t, s)
      PROVE  IInv'
  BY <1>1, AllocHolds, FreeHolds, AbandonHolds
<1>2. ASSUME NEW t \in Thread, NEW call \in Call \ {"none"}, StartCall(t, call)
      PROVE  IInv'
  BY <1>2, StartCallHolds
<1>3. ASSUME NEW t \in Thread,
             Link(t) \/ Push(t) \/ Revisit(t) \/ Swap(t) \/ SwapCas(t) \/ Prepend(t)
             \/ Splice(t) \/ PrependCas(t)
      PROVE  IInv'
  BY <1>3, HandHolds, PushHolds, RevisitHolds, SwapHolds, SwapCasHolds, PrependHolds,
     SpliceHolds, PrependCasHolds
<1>4. ASSUME NEW t \in Thread,
             Pop(t) \/ Enter(t) \/ Load(t) \/ ReadNext(t) \/ Take(t) \/ Leave(t) \/ Clear(t)
             \/ Return(t)
      PROVE  IInv'
  BY <1>4, PopHolds, EnterHolds, LoadHolds, ReadNextHolds, TakeHolds, LeaveHolds, HandHolds,
     ReturnHolds
<1>5. ASSUME NEW t \in Thread,
             Reclaim(t) \/ Visit(t) \/ VisitLink(t) \/ VisitCas(t) \/ Await(t) \/ Unmap(t)
      PROVE  IInv'
  BY <1>5, ReclaimHolds, VisitHolds, HandHolds, VisitCasHolds, AwaitHolds, UnmapHolds
<1>6. CASE UNCHANGED vars
  <2>1. UNCHANGED <<abandoned, visited, next, threadId, mapped, readers, pc>>
    BY <1>6 DEF vars
  <2>2. /\ \A f : Chain(f)' = Chain(f) /\ Ends(f)' = Ends(f)
        /\ \A t \in Thread : Held(t)' = Held(t) /\ Grabbed(t)' = Grabbed(t)
    BY <2>1 DEF Chain, Ends, Held, Holds, Grabbed
  <2>3. TypeOK' /\ OneHome' /\ Unlinked' /\ Counted'
    BY <2>1, <2>2 DEF IInv, TypeOK, OneHome, Shared, Mine, Unlinked, Counted
  <2>4. \A t \in Thread : Shape(pc[t])' /\ Linked(t)' /\ Reading(t)' /\ Alone(t)'
    BY <2>1, <2>2 DEF IInv, Shape, Linked, Reading, Alone
  <2> QED
    BY <2>1, <2>2, <2>3, <2>4 DEF IInv
<1> QED
  BY <1>1, <1>2, <1>3, <1>4, <1>5, <1>6 DEF Next

\* The inductive invariant: each segment has one home, lists come to an end, and what a
\* thread has read of the list is true for as long as the tag says so.
THEOREM Invariance == Spec => []IInv
BY InitHolds, NextHolds, PTL DEF Spec

\* A pop never follows a link in memory that is gone; a segment comes out of the list
\* without link and owner (the assertions of abandoned_push and segment_reclaim).
THEOREM ReadersAlwaysSafe == Spec => []ReadersSafe
<1>1. IInv => ReadersSafe
  <2> SUFFICES ASSUME IInv, NEW t \in Thread
               PROVE  /\ TypeOK
                      /\ pc[t].at = "next" => pc[t].ts.ptr \in mapped
                      /\ pc[t].at = "have" => /\ next[pc[t].seg] = Null
                                              /\ threadId[pc[t].seg] = NoThread
                      /\ pc[t].at = "idle" =>
                             \A s \in Segment : threadId[s] = t => next[s] = Null
    BY DEF ReadersSafe, IInv
  <2>1. TypeOK /\ Linked(t) /\ Reading(t) /\ Unlinked
    BY DEF IInv
  <2>2. pc[t].at = "have" => threadId[pc[t].seg] = NoThread
    BY InHand DEF HandAt
  <2> QED
    BY <2>1, <2>2, AbandonedAssumption DEF Linked, Reading, Unlinked
<1> QED
  BY <1>1, Invariance, PTL

\* A pop that is alone and finds nothing leaves nothing.
THEOREM AlwaysDrained == Spec => []DrainedWhenAlone
<1>1. IInv => DrainedWhenAlone
  <2> SUFFICES ASSUME IInv, NEW t \in Thread, pc[t].at = "empty", pc[t].calm
               PROVE  Listed = {}
    BY DEF DrainedWhenAlone
  <2>1. TypeOK /\ Alone(t)
    BY DEF IInv
  <2>2. Chain(abandoned.ptr) = {} /\ Chain(visited) = {}
    BY <2>1, Typed, ReachNull DEF Alone, Chain
  <2>3. \A u \in Thread : Grabbed(u) = {}
    BY <2>1 DEF Alone, Grabbed, MovingAt
  <2> QED
    BY <2>2, <2>3 DEF Listed
<1> QED
  BY <1>1, Invariance, PTL

-----------------------------------------------------------------------------
(* The list is a set.                                                      *)

\* Where a segment is, by the threads that hold it.
Seated(s) ==
    /\ DOMAIN Place = Segment
    /\ \A t \in Thread : s \in Held(t) => Place[s] = t
    /\ s \notin mapped => Place[s] = "unmapped"
    /\ s \in mapped /\ (\A t \in Thread : s \notin Held(t)) => Place[s] = "abandoned"

LEMMA PlaceIs == ASSUME IInv, NEW s \in Segment PROVE Seated(s)
<1> DEFINE places == Places(s, Listed)
<1>1. OneHome /\ Listed = Shared \cup UNION {Grabbed(t) : t \in Thread}
  BY DEF IInv, Listed, Shared
<1>2. /\ Place = [r \in Segment |->
            IF Cardinality(Places(r, Listed)) = 1
              THEN CHOOSE p \in Places(r, Listed) : TRUE ELSE "lost"]
      /\ Place[s] = IF Cardinality(places) = 1 THEN CHOOSE p \in places : TRUE ELSE "lost"
  BY DEF Place
<1>3. ASSUME NEW p, places = {p} PROVE Place[s] = p
  <2>1. Cardinality(places) = 1
    BY <1>3, FS_Singleton
  <2> HIDE DEF places
  <2> QED
    BY <1>2, <1>3, <2>1
<1>4. places = {t \in Thread : s \in Held(t)}
               \cup (IF s \in Listed THEN {"abandoned"} ELSE {})
               \cup (IF s \notin mapped THEN {"unmapped"} ELSE {})
  BY DEF Places, Held
<1> HIDE DEF places
<1>5. ASSUME NEW t \in Thread, s \in Held(t) PROVE Place[s] = t
  <2>1. \A u \in Thread : s \in Held(u) => u = t
    BY <1>1, <1>5 DEF OneHome, Mine
  <2>2. s \notin Listed /\ s \in mapped
    BY <1>1, <1>5 DEF OneHome, Mine
  <2>3. places = {t}
    BY <1>4, <1>5, <2>1, <2>2
  <2> QED
    BY <1>3, <2>3
<1>6. ASSUME s \notin mapped PROVE Place[s] = "unmapped"
  <2>1. s \notin Listed /\ \A u \in Thread : s \notin Held(u)
    BY <1>1, <1>6 DEF OneHome, Mine
  <2>2. places = {"unmapped"}
    BY <1>4, <1>6, <2>1
  <2> QED
    BY <1>3, <2>2
<1>7. ASSUME s \in mapped, \A t \in Thread : s \notin Held(t) PROVE Place[s] = "abandoned"
  <2>1. s \in Listed
    BY <1>1, <1>7 DEF OneHome, Mine
  <2>2. places = {"abandoned"}
    BY <1>4, <1>7, <2>1
  <2> QED
    BY <1>3, <2>2
<1> QED
  BY <1>2, <1>5, <1>6, <1>7 DEF Seated

LEMMA PlaceBefore == IInv => \A s \in Segment : Seated(s)
BY PlaceIs

LEMMA PlaceAfter == IInv' => (\A s \in Segment : Seated(s))'
BY PlaceBefore, PTL

\* A step of t changes at most where x is: whether it is mapped only with who has it.
Moves(t, x) ==
    /\ \A u \in Thread \ {t} : Held(u)' = Held(u)
    /\ \A s \in Segment \ {x} :
           (s \in Held(t)' <=> s \in Held(t)) /\ (s \in mapped' <=> s \in mapped)
    /\ (x \in Held(t)' <=> x \in Held(t)) => (x \in mapped' <=> x \in mapped)

LEMMA MovesOne ==
    ASSUME IInv, IInv', NEW t \in Thread, NEW x, Moves(t, x)
    PROVE  [Set!Next]_Place
<1>1. \A s \in Segment : Seated(s) /\ Seated(s)'
  BY PlaceIs, PlaceAfter
<1>2. /\ Place = [s \in Segment |-> Place[s]]
      /\ Place' = [s \in Segment |-> Place'[s]]
  BY DEF Place
<1>3. OneHome /\ OneHome'
  BY DEF IInv
<1>4. \A u \in Thread : Held(u) \subseteq mapped /\ (Held(u) \subseteq mapped)'
  BY <1>3 DEF OneHome, Mine
<1>5. ASSUME NEW s \in Segment, s \in Held(t)' <=> s \in Held(t),
             s \in mapped' <=> s \in mapped
      PROVE  Place'[s] = Place[s]
  <2>1. \A u \in Thread : s \in Held(u)' <=> s \in Held(u)
    BY <1>5 DEF Moves
  <2>2. CASE \E u \in Thread : s \in Held(u)
    BY <1>1, <2>1, <2>2 DEF Seated
  <2>3. CASE \A u \in Thread : s \notin Held(u)
    BY <1>1, <1>5, <2>1, <2>3 DEF Seated
  <2> QED
    BY <2>2, <2>3
<1>6. CASE x \in Segment /\ ~(x \in Held(t)' <=> x \in Held(t))
  <2>1. Place' = [Place EXCEPT ![x] = Place'[x]]
    <3>1. \A s \in Segment \ {x} : Place'[s] = Place[s]
      BY <1>5 DEF Moves
    <3> QED
      BY <1>2, <1>6, <3>1
  <2>2. \A u \in Thread \ {t} : x \notin Held(u) /\ x \notin Held(u)'
    BY <1>3, <1>6 DEF OneHome, Mine, Moves
  <2>3. CASE x \in Held(t)
    <3>1. Place[x] = t /\ Place'[x] \in {"abandoned", "unmapped"}
      BY <1>1, <1>6, <2>2, <2>3 DEF Seated
    <3> QED
      BY <1>6, <2>1, <3>1 DEF Set!Next, Set!Move
  <2>4. CASE x \in Held(t)'
    <3>1. Place'[x] = t /\ Place[x] \in {"abandoned", "unmapped"}
      BY <1>1, <1>6, <2>2, <2>4 DEF Seated
    <3> QED
      BY <1>6, <2>1, <3>1 DEF Set!Next, Set!Move
  <2> QED
    BY <1>6, <2>3, <2>4
<1>7. CASE x \notin Segment \/ (x \in Held(t)' <=> x \in Held(t))
  <2>1. \A s \in Segment : Place'[s] = Place[s]
    BY <1>5, <1>7 DEF Moves
  <2> QED
    BY <1>2, <2>1
<1> QED
  BY <1>6, <1>7

\* A thread takes or gives up at most one segment, if owners and memory stay.
LEMMA HandMoves ==
    ASSUME IInv, NEW t \in Thread, NEW c \in Control, Step(t, c),
           UNCHANGED <<threadId, mapped>>,
           pc[t].at \notin HandAt \/ c.at \notin HandAt \/ c.seg = pc[t].seg
    PROVE  \E x \in Cell : Moves(t, x)
<1>1. TypeOK
  BY DEF IInv
<1>2. pc'[t] = c /\ \A u \in Thread \ {t} : pc'[u].at = pc[u].at /\ pc'[u].seg = pc[u].seg
  BY <1>1, StepIs
<1>3. \A u \in Thread \ {t} : Held(u)' = Held(u)
  BY <1>2 DEF Held, Holds
<1>4. PICK x \in Cell : x = IF pc[t].at \in HandAt THEN pc[t].seg ELSE c.seg
  BY <1>1, Typed DEF Control, Cell
<1>5. \A s \in Segment \ {x} : s \in Held(t)' <=> s \in Held(t)
  BY <1>2, <1>4 DEF Held, Holds
<1> QED
  BY <1>3, <1>5 DEF Moves

\* Segments that are allocated, made the thread's own, or that it gives back.
LEMMA OwnerMoves ==
    ASSUME IInv, NEW t \in Thread, NEW c \in Control, Step(t, c), NEW x \in Segment,
           NEW o \in {t, NoThread}, threadId' = [threadId EXCEPT ![x] = o],
           x \in Held(t) \/ x \notin mapped,
           pc[t].at \in HandAt => pc[t].seg = x, c.at \in HandAt => c.seg = x,
           \A s \in Segment \ {x} : s \in mapped' <=> s \in mapped,
           (x \in mapped' <=> x \in mapped) \/ ~(x \in Held(t)' <=> x \in Held(t))
    PROVE  Moves(t, x)
<1>1. TypeOK /\ OneHome
  BY DEF IInv
<1>2. pc'[t] = c /\ \A u \in Thread \ {t} : pc'[u].at = pc[u].at /\ pc'[u].seg = pc[u].seg
  BY <1>1, StepIs
<1>3. threadId'[x] = o /\ \A s \in Segment \ {x} : threadId'[s] = threadId[s]
  BY <1>1 DEF TypeOK
<1>4. \A u \in Thread \ {t} : x \notin Held(u)
  BY <1>1 DEF OneHome, Mine
<1>5. ASSUME NEW u \in Thread \ {t} PROVE Held(u)' = Held(u)
  <2>1. o # u /\ threadId[x] # u
    BY <1>4, AbandonedAssumption DEF Held, Holds
  <2> QED
    BY <1>2, <1>3, <2>1 DEF Held, Holds
<1>6. \A s \in Segment \ {x} : s \in Held(t)' <=> s \in Held(t)
  BY <1>2, <1>3 DEF Held, Holds
<1> QED
  BY <1>5, <1>6 DEF Moves

LEMMA CasMoves ==
    ASSUME IInv, NEW t \in Thread, NEW s, NEW success, NEW failure,
           UNCHANGED <<threadId, mapped>>, Cas(t, s, success, failure),
           NEW c, c = [failure EXCEPT !.ts = abandoned],
           success \in Control, c \in Control,
           pc[t].at \notin HandAt \/ success.at \notin HandAt \/ success.seg = pc[t].seg,
           pc[t].at \notin HandAt \/ c.at \notin HandAt \/ c.seg = pc[t].seg
    PROVE  \E x \in Cell : Moves(t, x)
BY HandMoves DEF Cas

LEMMA ListMoves ==
    ASSUME IInv, NEW t \in Thread,
           Push(t) \/ SwapCas(t) \/ PrependCas(t) \/ Take(t) \/ VisitCas(t) \/ Revisit(t)
    PROVE  \E x \in Cell : Moves(t, x)
<1>1. TypeOK /\ Shape(pc[t]) /\ Null \in Cell /\ visited \in Cell /\ abandoned \in Tagged
  BY Typed DEF IInv, Cell, TypeOK
<1>2. CASE Push(t)
  <2> DEFINE failure == [pc[t] EXCEPT !.at = "link"]
             c == [failure EXCEPT !.ts = abandoned]
  <2>1. c \in Control /\ c.seg = pc[t].seg
    BY <1>1, Typed DEF Control, Label
  <2>2. Cas(t, pc[t].seg, Idle, failure) /\ UNCHANGED <<threadId, mapped>>
    BY <1>2 DEF Push
  <2>3. Idle \in Control /\ Idle.at \notin HandAt
    BY <1>1, IdleIs DEF Idle, HandAt
  <2>4. c = [failure EXCEPT !.ts = abandoned]
    OBVIOUS
  <2> HIDE DEF failure, c
  <2> QED
    BY <2>1, <2>2, <2>3, <2>4, CasMoves
<1>3. CASE SwapCas(t)
  <2> DEFINE success == RevisitDone(t)
             failure == [pc[t] EXCEPT !.at = "prepend"]
             c == [failure EXCEPT !.ts = abandoned]
  <2>1. c \in Control /\ success \in Control
    <3>1. c \in Control
      BY <1>1, Typed DEF Control, Label
    <3>2. success \in Control
      BY <1>1, RevisitDoneIs
    <3> QED
      BY <3>1, <3>2
  <2>2. /\ pc[t].at = "swapCas" /\ Cas(t, pc[t].seg, success, failure)
        /\ UNCHANGED <<threadId, mapped>>
    BY <1>3 DEF SwapCas
  <2> HIDE DEF success, failure
  <2> QED
    BY <2>1, <2>2, CasMoves DEF HandAt
<1>4. CASE PrependCas(t)
  <2> DEFINE done == RevisitDone(t)
             success == [done EXCEPT !.anext = Null]
             failure == [pc[t] EXCEPT !.at = "splice"]
             c == [failure EXCEPT !.ts = abandoned]
  <2>1. c \in Control
    BY <1>1, Typed DEF Control, Label
  <2>2. success \in Control
    <3>1. done \in Control
      BY RevisitDoneIs
    <3> HIDE DEF done
    <3> QED
      BY <1>1, <3>1 DEF Control, Cell
  <2>3. /\ pc[t].at = "prependCas" /\ Cas(t, pc[t].seg, success, failure)
        /\ UNCHANGED <<threadId, mapped>>
    BY <1>4 DEF PrependCas
  <2> HIDE DEF success, failure
  <2> QED
    BY <2>1, <2>2, <2>3, CasMoves DEF HandAt
<1>5. CASE Take(t)
  <2> DEFINE success == [pc[t] EXCEPT !.at = "leave", !.seg = pc[t].ts.ptr, !.anext = Null]
             failure == Loaded(t)
             c == [failure EXCEPT !.ts = abandoned]
  <2>1. success \in Control
    BY <1>1, Typed DEF Control, Label, Cell
  <2>2. /\ pc[t].at = "take" /\ Cas(t, pc[t].anext, success, failure)
        /\ UNCHANGED <<threadId, mapped>>
    BY <1>5 DEF Take
  <2>3. failure \in Control
    BY <2>2, LoadedIs
  <2> HIDE DEF success, failure
  <2>4. c \in Control
    BY <1>1, <2>3 DEF Control
  <2> QED
    BY <2>1, <2>2, <2>4, CasMoves DEF HandAt
<1>6. CASE VisitCas(t)
  <2>1. pc[t].at = "visitCas" /\ UNCHANGED <<threadId, mapped>>
    BY <1>6 DEF VisitCas
  <2>2. PICK c : /\ Step(t, c)
                 /\ \/ c = [pc[t] EXCEPT !.at = "pop", !.seg = Null, !.anext = Null]
                    \/ c = [pc[t] EXCEPT !.at = "visitLink", !.anext = visited]
    BY <1>6 DEF VisitCas
  <2>3. c \in Control /\ (c.at = "pop" \/ c.seg = pc[t].seg)
    BY <1>1, <2>2, Typed DEF Control, Label, Cell
  <2> QED
    BY <2>1, <2>2, <2>3, HandMoves DEF HandAt
<1>7. CASE Revisit(t)
  <2>1. pc[t].at = "revisit" /\ UNCHANGED <<threadId, mapped>>
    BY <1>7 DEF Revisit
  <2>2. PICK c : /\ Step(t, c)
                 /\ c = RevisitDone(t) \/ c = [pc[t] EXCEPT !.at = "swap", !.seg = visited]
    BY <1>7 DEF Revisit
  <2>3. c \in Control
    <3>1. RevisitDone(t) \in Control
      BY RevisitDoneIs
    <3>2. [pc[t] EXCEPT !.at = "swap", !.seg = visited] \in Control
      BY <1>1, Typed DEF Control, Label, Cell
    <3> QED
      BY <2>2, <3>1, <3>2
  <2> QED
    BY <2>1, <2>2, <2>3, HandMoves DEF HandAt
<1> QED
  BY <1>2, <1>3, <1>4, <1>5, <1>6, <1>7

LEMMA QuietMoves ==
    ASSUME IInv, NEW t \in Thread, UNCHANGED <<threadId, mapped>>,
           \/ \E at \in Label : Goto(t, at)
           \/ Swap(t) \/ Prepend(t) \/ Load(t) \/ ReadNext(t) \/ Leave(t) \/ Visit(t)
           \/ Return(t) \/ \E call \in Call : StartCall(t, call)
    PROVE  \E x \in Cell : Moves(t, x)
<1>1. TypeOK /\ abandoned \in Tagged /\ visited \in Cell /\ next \in Links /\ Null \in Cell
  BY Typed DEF IInv, TypeOK, Cell
<1>2. ASSUME NEW at \in Label, Goto(t, at) PROVE \E x \in Cell : Moves(t, x)
  <2> DEFINE c == [pc[t] EXCEPT !.at = at]
  <2>1. c \in Control /\ c.seg = pc[t].seg
    BY <1>1, Typed DEF Control
  <2>2. Step(t, c)
    BY <1>2 DEF Goto
  <2> HIDE DEF c
  <2> QED
    BY <2>1, <2>2, HandMoves
<1>3. CASE Swap(t) \/ Visit(t)
  <2>1. PICK c : Step(t, c) /\ \/ \E at \in {"swapCas", "prepend"} :
                                      c = [pc[t] EXCEPT !.at = at, !.ts = abandoned]
                               \/ c = [pc[t] EXCEPT !.at = "visitLink", !.anext = visited]
    BY <1>3 DEF Swap, Visit
  <2>2. c \in Control /\ c.seg = pc[t].seg
    BY <1>1, <2>1, Typed DEF Control, Label, Cell
  <2> QED
    BY <2>1, <2>2, HandMoves
<1>4. CASE Prepend(t)
  <2> DEFINE last == Last(pc[t].seg)
             c == [pc[t] EXCEPT !.at = "splice", !.ts = abandoned, !.anext = last]
  <2>1. pc[t].at = "prepend" /\ Step(t, c)
    BY <1>4 DEF Prepend
  <2>2. last \in Cell
    <3>1. Shape(pc[t]) /\ Linked(t)
      BY DEF IInv
    <3>2. \E r \in Chain(pc[t].seg) : next[r] = Null
      BY <2>1, <3>1 DEF Shape, Linked, Ends, MovingAt
    <3>3. last \in Chain(pc[t].seg)
      BY <3>2 DEF Last
    <3> QED
      BY <3>3 DEF Chain, Reach, Cell
  <2> HIDE DEF last
  <2>3. c \in Control /\ c.seg = pc[t].seg
    BY <1>1, <2>2, Typed DEF Control, Label, Cell
  <2> HIDE DEF c
  <2> QED
    BY <2>1, <2>3, HandMoves
<1>5. CASE Load(t)
  <2>1. pc[t].at = "load" /\ Step(t, Loaded(t))
    BY <1>5 DEF Load
  <2>2. Loaded(t) \in Control
    BY <2>1, LoadedIs
  <2> QED
    BY <2>1, <2>2, HandMoves DEF HandAt
<1>6. CASE ReadNext(t)
  <2> DEFINE c == [pc[t] EXCEPT !.at = "take", !.anext = next[pc[t].ts.ptr]]
  <2>1. pc[t].at = "next" /\ Step(t, c)
    BY <1>6 DEF ReadNext
  <2>2. next[pc[t].ts.ptr] \in Cell
    <3>1. Shape(pc[t])
      BY DEF IInv
    <3> QED
      BY <1>1, <2>1, <3>1, Typed DEF Shape, Links, Cell
  <2>3. c \in Control
    BY <1>1, <2>2, Typed DEF Control, Label, Cell
  <2> HIDE DEF c
  <2> QED
    BY <2>1, <2>3, HandMoves DEF HandAt
<1>7. CASE Leave(t)
  <2>1. PICK at \in Label : Step(t, [pc[t] EXCEPT !.at = at, !.ts = NoTag])
    BY <1>7 DEF Leave, Label
  <2> DEFINE c == [pc[t] EXCEPT !.at = at, !.ts = NoTag]
  <2>2. c \in Control /\ c.seg = pc[t].seg
    BY <1>1, IdleIs, Typed DEF Control
  <2> HIDE DEF c
  <2> QED
    BY <2>1, <2>2, HandMoves DEF c
<1>8. CASE Return(t)
  <2>1. pc[t].at \notin HandAt /\ Step(t, Idle)
    BY <1>8 DEF Return, HandAt
  <2> QED
    BY <2>1, IdleIs, HandMoves
<1>9. ASSUME NEW call \in Call, StartCall(t, call) PROVE \E x \in Cell : Moves(t, x)
  <2>1. PICK at \in Label, calm \in BOOLEAN :
            Step(t, [Idle EXCEPT !.at = at, !.call = call, !.calm = calm])
    BY <1>9 DEF StartCall, Label
  <2> DEFINE c == [Idle EXCEPT !.at = at, !.call = call, !.calm = calm]
  <2>2. c \in Control /\ pc[t].at = "idle"
    BY <1>9, IdleIs DEF Control, StartCall
  <2> HIDE DEF c
  <2> QED
    BY <2>1, <2>2, HandMoves DEF c, HandAt
<1> QED
  BY <1>2, <1>3, <1>4, <1>5, <1>6, <1>7, <1>8, <1>9

\* Memory that comes or goes, and segments that get or lose an owner.
LEMMA OwnMoves ==
    ASSUME IInv, NEW t \in Thread, NEW s \in Segment,
           Alloc(t, s) \/ Free(t, s) \/ Abandon(t, s)
    PROVE  Moves(t, s)
<1>1. TypeOK /\ pc[t].at = "idle" /\ abandoned \in Tagged
  BY DEF IInv, TypeOK, Alloc, Free, Abandon
<1>2. CASE Alloc(t, s)
  <2>1. /\ Step(t, Idle) /\ s \notin mapped /\ mapped' = mapped \cup {s}
        /\ threadId' = [threadId EXCEPT ![s] = t]
    BY <1>2 DEF Alloc
  <2>2. s \notin Held(t) /\ s \in Held(t)'
    <3>1. OneHome /\ threadId'[s] = t
      BY <1>1, <2>1 DEF IInv, TypeOK
    <3> QED
      BY <2>1, <3>1 DEF OneHome, Mine, Held, Holds
  <2> QED
    BY <1>1, <2>1, <2>2, IdleIs, OwnerMoves DEF HandAt
<1>3. CASE Free(t, s)
  <2> DEFINE c == [Idle EXCEPT !.at = "await", !.seg = s]
  <2>1. /\ Step(t, c) /\ threadId[s] = t /\ mapped' = mapped
        /\ threadId' = [threadId EXCEPT ![s] = NoThread]
    BY <1>3 DEF Free
  <2>2. c \in Control /\ c.seg = s
    BY IdleIs DEF Control, Label
  <2>3. s \in Held(t) /\ pc[t].at \notin HandAt /\ NoThread \in {t, NoThread}
    BY <1>1, <2>1 DEF Held, Holds, HandAt
  <2> HIDE DEF c
  <2> QED
    BY <2>1, <2>2, <2>3, OwnerMoves
<1>4. CASE Abandon(t, s)
  <2> DEFINE c == [Idle EXCEPT !.at = "link", !.seg = s, !.ts = abandoned]
  <2>1. /\ Step(t, c) /\ threadId[s] = t /\ mapped' = mapped
        /\ threadId' = [threadId EXCEPT ![s] = NoThread]
    BY <1>4 DEF Abandon
  <2>2. c \in Control /\ c.seg = s
    BY <1>1, IdleIs DEF Control, Label
  <2>3. s \in Held(t) /\ pc[t].at \notin HandAt /\ NoThread \in {t, NoThread}
    BY <1>1, <2>1 DEF Held, Holds, HandAt
  <2> HIDE DEF c
  <2> QED
    BY <2>1, <2>2, <2>3, OwnerMoves
<1> QED
  BY <1>2, <1>3, <1>4

LEMMA ReclaimMoves ==
    ASSUME IInv, NEW t \in Thread, Reclaim(t) PROVE \E x \in Cell : Moves(t, x)
<1>1. TypeOK /\ pc[t].at = "have" /\ mapped' = mapped
  BY DEF IInv, Reclaim
<1>2. pc[t].seg \in Segment /\ pc[t].seg \in Held(t)
  BY <1>1, InHand DEF HandAt
<1>3. CASE Goto(t, "await") /\ UNCHANGED threadId
  BY <1>1, <1>3, QuietMoves DEF Label
<1>4. ASSUME NEW c, c = [pc[t] EXCEPT !.at = "pop", !.seg = Null] \/ c = Idle,
             Step(t, c), threadId' = [threadId EXCEPT ![pc[t].seg] = t]
      PROVE  Moves(t, pc[t].seg)
  <2>1. c \in Control /\ c.at \notin HandAt
    BY <1>1, <1>4, Typed, IdleIs DEF Control, Label, Cell, HandAt
  <2> QED
    BY <1>1, <1>2, <1>4, <2>1, OwnerMoves
<1> QED
  BY <1>2, <1>3, <1>4 DEF Reclaim, Cell

LEMMA UnmapMoves ==
    ASSUME IInv, NEW t \in Thread, Unmap(t) PROVE \E x \in Cell : Moves(t, x)
<1> DEFINE s == pc[t].seg
           c == IF pc[t].call = "none" THEN Idle
                ELSE [Idle EXCEPT !.at = "pop", !.call = pc[t].call, !.calm = pc[t].calm]
<1>1. TypeOK /\ OneHome
  BY DEF IInv
<1>2. /\ pc[t].at = "unmap" /\ Step(t, c) /\ mapped' = mapped \ {s} /\ threadId' = threadId
  BY DEF Unmap
<1>3. c \in Control /\ c.at \notin HandAt
  BY <1>1, Typed, IdleIs DEF Control, Label, HandAt
<1>4. s \in Segment /\ s \in Held(t) /\ threadId[s] = NoThread
  BY <1>2, InHand DEF HandAt
<1> HIDE DEF c, s
<1>5. threadId' = [threadId EXCEPT ![s] = NoThread]
  BY <1>1, <1>2, <1>4 DEF TypeOK
<1>6. s \notin Held(t)'
  <2>1. pc'[t] = c
    BY <1>1, <1>2, <1>3, StepIs
  <2> QED
    BY <1>2, <1>3, <1>4, <2>1, AbandonedAssumption DEF Held, Holds
<1>7. pc[t].seg = s
  BY DEF s
<1>8. Moves(t, s)
  BY <1>2, <1>3, <1>4, <1>5, <1>6, <1>7, OwnerMoves
<1> QED
  BY <1>4, <1>8 DEF Cell

\* Every step is one of the set's, or none.
LEMMA NextMoves == IInv /\ IInv' /\ [Next]_vars => [Set!Next]_Place
<1> SUFFICES ASSUME IInv, IInv', [Next]_vars PROVE [Set!Next]_Place
  OBVIOUS
<1>1. ASSUME NEW t \in Thread, NEW s \in Segment, Alloc(t, s) \/ Free(t, s) \/ Abandon(t, s)
      PROVE  [Set!Next]_Place
  BY <1>1, OwnMoves, MovesOne
<1>2. ASSUME NEW t \in Thread, NEW call \in Call \ {"none"}, StartCall(t, call)
      PROVE  [Set!Next]_Place
  BY <1>2, QuietMoves, MovesOne DEF StartCall
<1>3. ASSUME NEW t \in Thread,
             Push(t) \/ SwapCas(t) \/ PrependCas(t) \/ Take(t) \/ VisitCas(t) \/ Revisit(t)
      PROVE  [Set!Next]_Place
  BY <1>3, ListMoves, MovesOne
<1>4. ASSUME NEW t \in Thread,
             Link(t) \/ Splice(t) \/ Pop(t) \/ Enter(t) \/ Clear(t) \/ VisitLink(t) \/ Await(t)
      PROVE  [Set!Next]_Place
  <2>1. UNCHANGED <<threadId, mapped>> /\ \E at \in Label : Goto(t, at)
    BY <1>4 DEF Link, Splice, Pop, Enter, Clear, VisitLink, Await, Label
  <2> QED
    BY <2>1, QuietMoves, MovesOne
<1>5. ASSUME NEW t \in Thread,
             Swap(t) \/ Prepend(t) \/ Load(t) \/ ReadNext(t) \/ Leave(t) \/ Visit(t) \/ Return(t)
      PROVE  [Set!Next]_Place
  <2>1. UNCHANGED <<threadId, mapped>>
    BY <1>5 DEF Swap, Prepend, Load, ReadNext, Leave, Visit, Return
  <2> QED
    BY <1>5, <2>1, QuietMoves, MovesOne
<1>6. ASSUME NEW t \in Thread, Reclaim(t) \/ Unmap(t)
      PROVE  [Set!Next]_Place
  BY <1>6, ReclaimMoves, UnmapMoves, MovesOne
<1>7. CASE UNCHANGED vars
  <2>1. UNCHANGED <<abandoned, visited, next, threadId, mapped, readers, pc>>
    BY <1>7 DEF vars
  <2>2. \A t \in Thread : Held(t)' = Held(t)
    BY <2>1 DEF Held, Holds
  <2>3. \A s \in Segment : Seated(s) /\ Seated(s)'
    BY PlaceIs, PlaceAfter
  <2>4. \A s \in Segment : Place'[s] = Place[s]
    BY <2>1, <2>2, <2>3 DEF Seated
  <2>5. /\ Place = [s \in Segment |-> Place[s]]
        /\ Place' = [s \in Segment |-> Place'[s]]
    BY DEF Place
  <2> QED
    BY <2>4, <2>5
<1> QED
  BY <1>1, <1>2, <1>3, <1>4, <1>5, <1>6, <1>7 DEF Next

LEMMA InitPlace == Init => Set!Init
<1> SUFFICES ASSUME Init PROVE Set!Init
  OBVIOUS
<1>1. IInv /\ mapped = {}
  BY InitHolds DEF Init
<1>2. \A s \in Segment : Place[s] = "unmapped"
  BY <1>1, PlaceIs DEF Seated
<1> QED
  BY <1>2 DEF Set!Init, Place

\* With tags and readers as the code has them, the lock-free list is a set: a segment
\* goes between one thread and the list, or comes and goes with its thread.
THEOREM SetRefinement == Spec => ImplementsSet
<1>1. Init => Set!Init
  BY InitPlace
<1>2. IInv /\ IInv' /\ [Next]_vars => [Set!Next]_Place
  BY NextMoves
<1> QED
  BY <1>1, <1>2, Invariance, PTL DEF Spec, ImplementsSet, Set!Spec
=============================================================================
