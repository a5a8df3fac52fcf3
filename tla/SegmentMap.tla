----------------------------- MODULE SegmentMap -----------------------------
(***************************************************************************)
(* alloc_hook_segment_map.c: a bit for each segment-sized part of the      *)
(* address space, set if a segment begins there, in words of Width bits,   *)
(* and the search for the segment that a pointer lies in.                  *)
(*                                                                         *)
(* A map is the set of the indices whose bit is set; the address of a      *)
(* segment is its index.                                                   *)
(***************************************************************************)
EXTENDS Integers, FiniteSetsExt

CONSTANTS Width     \* ALLOC_HOOK_INTPTR_BITS

ASSUME WidthAssumption == Width \in Nat \ {0}

NoSegment == -1

\* segment_map_index_of
WordOf(s) == s \div Width
WordBits(map, w) == {s \in map : WordOf(s) = w}

\* The loop of segment_of goes down while the word is not zero, or to the first
\* word: where it stops.
LowIndex(map, w) ==
    Max({0} \cup {v \in 0..(w - 1) : WordBits(map, v) = {}})

\* Where the search for the segment of a pointer into part s ends: in s itself, at
\* the highest bit below s in its word, or in the word where the loop stops.
Candidate(map, s) ==
    LET lobits == {b \in WordBits(map, WordOf(s)) : b < s}
        lomask == WordBits(map, LowIndex(map, WordOf(s)))
    IN  IF s \in map THEN s
        ELSE IF lobits # {} THEN Max(lobits)
        ELSE IF WordOf(s) = 0 \/ lomask = {} THEN NoSegment
        ELSE Max(lomask)

\* segment_of: size says how many parts the segment at a bit has.
SegmentOf(map, size, s) ==
    LET c == Candidate(map, s)
    IN  IF c = NoSegment THEN NoSegment
        ELSE IF c + size[c] <= s THEN NoSegment     \* outside the range
        ELSE c
=============================================================================
