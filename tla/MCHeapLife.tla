----------------------------- MODULE MCHeapLife -----------------------------
(***************************************************************************)
(* HeapLife for TLC: the small instances.                                  *)
(***************************************************************************)
EXTENDS HeapLifeInv, TLC

CONSTANTS t1, t2, t3, h1, h2, h3, s1, s2, p1, p2, p3, b1, b2, b3

MCBacking == [t \in Thread |-> IF t = t1 THEN h1 ELSE IF t = t2 THEN h2 ELSE h3]
OneSegment == [p \in Page |-> s1]
OnePage == [b \in Block |-> p1]

\* Every thread makes every call; or t1 stays, t2 comes and goes, and t3 only frees
\* what they allocated.
EveryCall == [t \in Thread |-> AllCalls]
Foreign == [t \in Thread |-> CASE t = t1 -> {"malloc", "free"}
                              [] t = t2 -> {"malloc", "free", "done"}
                              [] t = t3 -> {"free"}]
=============================================================================
