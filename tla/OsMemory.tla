------------------------------ MODULE OsMemory ------------------------------
(***************************************************************************)
(* alloc_hook_os.c over the mmap primitives of alloc_hook_prim_unix.c: how *)
(* a thread gets aligned memory from the OS, with each system call a step  *)
(* of its own.  ArenaTable starts these steps and goes on where they leave *)
(* a thread, at "got" or at "failed".                                      *)
(*                                                                         *)
(* The unit is an OS page.  Every range that the callers commit, decommit  *)
(* or free begins and ends at a page, so that os_page_align_areax changes  *)
(* nothing and is left out.  A large OS page and a huge one are as big as  *)
(* a segment.  munmap of mapped memory succeeds.                           *)
(***************************************************************************)
EXTENDS Integers, FiniteSetsExt

CONSTANTS
    Thread,
    Pages,      \* the pages of the address space
    Block,      \* pages of a segment, an arena block, a large or a huge OS page
    HugeArea,   \* where the area for huge pages begins
    Retry,      \* how often no large pages are tried after a failure
    DEBUG       \* ALLOC_HOOK_DEBUG: decommitted memory has to be committed again

ASSUME OsAssumption ==
    /\ {Pages, Block, HugeArea, Retry} \subseteq Nat /\ Block > 1
    /\ HugeArea % Block = 0 /\ DEBUG \in BOOLEAN

VARIABLES
    mem,        \* what the OS has at each page
    tryOk,      \* large_page_try_ok
    hugeStart,  \* alloc_hook_huge_start
    pc          \* where each thread is and what it has in hand

Page == 0..(Pages - 1)
NoPage == -1
Span(p, n) == p..(p + n - 1)
Mapped == {q \in Page : mem[q] # "free"}

AlignUp(n, a) == ((n + a - 1) \div a) * a

\* os_good_alloc_size: bigger sizes are rounded in bigger steps.
GoodSize(n) == IF n < 2 * Block THEN n ELSE AlignUp(n, Block)

\* os_use_large_page
UseLarge(n, a) == n % Block = 0 /\ a % Block = 0

Fits(n) == {p \in Page : p + n <= Pages /\ \A q \in Span(p, n) : mem[q] = "free"}

\* Bound on what the OS does: where it maps n pages, the lowest place of each
\* alignment.
Places(n) ==
    {Min(S) : S \in {{p \in Fits(n) : p % (2 * Block) = r} : r \in {0, 1, Block}} \ {{}}}

Map(p, n, commit) ==
    [q \in Page |-> IF q \in Span(p, n) THEN (IF commit THEN "rw" ELSE "none")
                    ELSE mem[q]]
Unmap(S) == [q \in Page |-> IF q \in S THEN "free" ELSE mem[q]]
Protect(S, access) == [q \in Page |-> IF q \in S THEN access ELSE mem[q]]

\* prim_decommit: a release build leaves the access as it is.
Decommit(p, n) == IF DEBUG THEN Protect(Span(p, n), "none") ELSE mem

-----------------------------------------------------------------------------
(* os_alloc_aligned and os_alloc_aligned_at_offset.  ask: the pages to get *)
(* with alignment align, of which the first skip are not wanted; lo, n:    *)
(* the mapped range in hand.                                               *)

Set(t, c) == pc' = [pc EXCEPT ![t] = c]

\* The start of a call, with size pages of which the one at offset is aligned.
AskOs(c, size, align, offset, commit, large) ==
    LET extra == AlignUp(offset, align) - offset
    IN  [c EXCEPT !.at = "map", !.ask = GoodSize(size + extra), !.align = align,
                  !.skip = extra, !.commit = commit, !.large = large /\ commit]

Fails(t) == Set(t, [pc[t] EXCEPT !.at = "failed", !.n = 0])

\* unix_mmap: large pages if they may be used and did not fail lately; otherwise,
\* or if they fail, regular pages, which madvise may make large.
LargePages(c, tried) ==
    IF ~(c.large /\ UseLarge(c.ask, c.align)) THEN tried = "no" /\ UNCHANGED tryOk
    ELSE IF tryOk > 0 THEN tried = "advised" /\ tryOk' = tryOk - 1
    ELSE \/ tried = "large" /\ UNCHANGED tryOk
         \/ tried = "advised" /\ tryOk' = Retry

\* The first try, with a hint that the OS need not follow.
PrimAlloc(t) ==
    /\ pc[t].at = "map"
    /\ \E tried \in {"no", "advised", "large"} :
         /\ LargePages(pc[t], tried)
         /\ \/ \E p \in Places(pc[t].ask) :
               \E l \in (IF tried = "large" THEN {TRUE}
                         ELSE IF tried = "advised" THEN BOOLEAN ELSE {FALSE}) :
                 /\ mem' = Map(p, pc[t].ask, pc[t].commit)
                 /\ Set(t, [pc[t] EXCEPT
                        !.at = IF p % pc[t].align = 0 THEN "have" ELSE "misaligned",
                        !.lo = p, !.n = pc[t].ask, !.pinned = l])
            \/ /\ tried # "large"
               /\ Fails(t) /\ UNCHANGED mem
    /\ UNCHANGED hugeStart

\* Not aligned: free it,
FreeMisaligned(t) ==
    /\ pc[t].at = "misaligned"
    /\ mem' = Unmap(Span(pc[t].lo, pc[t].n))
    /\ Set(t, [pc[t] EXCEPT !.at = "over", !.n = 0])
    /\ UNCHANGED <<tryOk, hugeStart>>

\* map so much that an aligned part lies in it,
OverAllocate(t) ==
    LET c == pc[t]
    IN  /\ c.at = "over"
        /\ \/ \E p \in Places(c.ask + c.align) :
                /\ mem' = Map(p, c.ask + c.align, c.commit)
                /\ Set(t, [c EXCEPT !.at = "pre", !.lo = p, !.n = c.ask + c.align,
                                    !.pinned = FALSE])
           \/ Fails(t) /\ UNCHANGED mem
        /\ UNCHANGED <<tryOk, hugeStart>>

\* unmap what lies before that part
FreePre(t) ==
    LET c == pc[t]
        aligned == AlignUp(c.lo, c.align)
    IN  /\ c.at = "pre"
        /\ mem' = Unmap(c.lo..(aligned - 1))
        /\ Set(t, [c EXCEPT !.at = "post", !.lo = aligned, !.n = c.n - (aligned - c.lo)])
        /\ UNCHANGED <<tryOk, hugeStart>>

\* Mutant of FreePost: the rest stays.
KeepPost(t) ==
    /\ pc[t].at = "post"
    /\ Set(t, [pc[t] EXCEPT !.at = "have", !.n = pc[t].ask])
    /\ UNCHANGED <<mem, tryOk, hugeStart>>

\* and what lies after it.
FreePost(t) ==
    LET c == pc[t]
    IN  /\ c.at = "post"
        /\ mem' = Unmap(Span(c.lo + c.ask, c.n - c.ask))
        /\ Set(t, [c EXCEPT !.at = "have", !.n = c.ask])
        /\ UNCHANGED <<tryOk, hugeStart>>

\* Mutant of SkipExtra: the page at the offset is decommitted too.
SkipTooMuch(t) ==
    /\ pc[t].at = "have"
    /\ mem' = IF pc[t].commit /\ pc[t].skip > 1 THEN Decommit(pc[t].lo, pc[t].skip + 1)
              ELSE mem
    /\ Set(t, [pc[t] EXCEPT !.at = "got"])
    /\ UNCHANGED <<tryOk, hugeStart>>

\* Decommit the pages before the offset, unless it is only one.
SkipExtra(t) ==
    /\ pc[t].at = "have"
    /\ mem' = IF pc[t].commit /\ pc[t].skip > 1 THEN Decommit(pc[t].lo, pc[t].skip)
              ELSE mem
    /\ Set(t, [pc[t] EXCEPT !.at = "got"])
    /\ UNCHANGED <<tryOk, hugeStart>>

\* os_free_ex of memory whose memid has a base: size is rounded as it was when the
\* memory was allocated.
OsExtent(base, p, size) == Span(base, GoodSize(size) + (p - base))

-----------------------------------------------------------------------------
(* os_alloc_huge_os_pages: ask pages in units of Block, each mapped on its *)
(* own at the next address of a range that was claimed before.             *)

\* The loop of os_claim_huge_pages up to its CAS,
LoadHugeStart(t) ==
    /\ pc[t].at = "claim"
    /\ Set(t, [pc[t] EXCEPT !.at = "claimCas", !.lo = hugeStart])
    /\ UNCHANGED <<mem, tryOk, hugeStart>>

\* and the CAS; if it fails, once more with what is there.
ClaimHuge(t) ==
    LET start == IF pc[t].lo = 0 THEN HugeArea ELSE pc[t].lo
    IN  /\ pc[t].at = "claimCas"
        /\ IF hugeStart = pc[t].lo
           THEN /\ hugeStart' = start + pc[t].ask
                /\ Set(t, [pc[t] EXCEPT !.at = "huge", !.lo = start, !.n = 0])
           ELSE /\ Set(t, [pc[t] EXCEPT !.lo = hugeStart])
                /\ UNCHANGED hugeStart
        /\ UNCHANGED <<mem, tryOk>>

\* The loop ends with all pages, on a timeout or on a failure.
HugeDone(c) ==
    [c EXCEPT !.at = IF c.n = 0 THEN "failed" ELSE "got", !.commit = TRUE,
              !.pinned = TRUE, !.ask = c.n, !.skip = 0]

AllocHuge(t) ==
    LET c    == pc[t]
        addr == c.lo + c.n
        more == [c EXCEPT !.n = c.n + Block]
    IN  /\ c.at = "huge"
        /\ \/ /\ addr \in Fits(Block)
              /\ mem' = Map(addr, Block, TRUE)
              /\ \/ Set(t, HugeDone(more))      \* all, or a timeout
                 \/ more.n < c.ask /\ Set(t, more)
           \/ \E p \in Places(Block) \ {addr} :
                /\ mem' = Map(p, Block, TRUE)
                /\ Set(t, [c EXCEPT !.at = "stray", !.stray = p])
           \/ Set(t, HugeDone(c)) /\ UNCHANGED mem
        /\ UNCHANGED <<tryOk, hugeStart>>

\* A page that is not at the next address is given back.
FreeStray(t) ==
    /\ pc[t].at = "stray"
    /\ mem' = Unmap(Span(pc[t].stray, Block))
    /\ Set(t, HugeDone([pc[t] EXCEPT !.stray = NoPage]))
    /\ UNCHANGED <<tryOk, hugeStart>>

\* os_free_huge_os_pages: one page at a time.
FreeHuge(t) ==
    LET c == pc[t]
    IN  /\ c.at = "freeHuge" /\ c.n >= Block
        /\ mem' = Unmap(Span(c.lo, Block))
        /\ Set(t, [c EXCEPT !.lo = c.lo + Block, !.n = c.n - Block])
        /\ UNCHANGED <<tryOk, hugeStart>>

OsStep(t) ==
    \/ PrimAlloc(t) \/ FreeMisaligned(t) \/ OverAllocate(t) \/ FreePre(t)
    \/ FreePost(t) \/ SkipExtra(t) \/ LoadHugeStart(t) \/ ClaimHuge(t)
    \/ AllocHuge(t) \/ FreeStray(t) \/ FreeHuge(t)
=============================================================================
