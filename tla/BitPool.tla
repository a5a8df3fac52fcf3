------------------------------ MODULE BitPool ------------------------------
(***************************************************************************)
(* What a concurrent bitmap promises: threads claim ranges of blocks and   *)
(* give them up again, and no block is in two ranges that are held.        *)
(***************************************************************************)
CONSTANTS Thread, Range

VARIABLE held            \* the ranges each thread holds

TypeOK == held \in [Thread -> SUBSET Range]

Init == held = [t \in Thread |-> {}]

\* The blocks somebody holds.
Claimed == UNION {UNION held[t] : t \in Thread}

Claim(t, r) ==
    /\ r \in Range /\ r \cap Claimed = {}
    /\ held' = [held EXCEPT ![t] = @ \cup {r}]

Release(t, r) == held' = [held EXCEPT ![t] = @ \ {r}]

\* One thread claims or releases one range, the one by which what it holds
\* differs before and after.
Next == \E t \in Thread :
    \/ \E r \in held'[t] \ held[t] : Claim(t, r)
    \/ \E r \in held[t] \ held'[t] : Release(t, r)

Spec == Init /\ [][Next]_held
=============================================================================
