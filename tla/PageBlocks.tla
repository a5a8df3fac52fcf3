----------------------------- MODULE PageBlocks -----------------------------
(***************************************************************************)
(* What the pointers of the program mean: alloc_hook_alloc.c and           *)
(* alloc_hook_alloc_aligned.c above the lists of ThreadFree.  Blocks have  *)
(* addresses and contents here, a padding behind what was asked for, and   *)
(* objects that begin inside a block because of their alignment; free and  *)
(* realloc have to find the block again.                                   *)
(*                                                                         *)
(* One heap with one page of each block size.  The build is that of        *)
(* CMakeLists.txt: ALLOC_HOOK_DEBUG 3, and ALLOC_HOOK_SECURE 4, where any  *)
(* block of a fresh page may be the first.  A call is one step: what a     *)
(* free by another thread reads of the page changes only when the page has *)
(* no block in use.                                                        *)
(***************************************************************************)
EXTENDS Integers, FiniteSetsExt

CONSTANTS
    BlockSizes,     \* the sizes of blocks for which there is a page
    Reserved,       \* how many blocks the page of each size has
    Requests,       \* bound: the sizes that the program asks for
    Alignments,     \* bound: the alignments
    Offsets,        \* bound: the offsets that are to be aligned
    MaxLive         \* bound: how many objects the program has at once

ASSUME PageBlocksAssumption ==
    /\ \A s \in BlockSizes : s \in 16..128 /\ s % 16 = 0
    /\ Reserved \in [BlockSizes -> Nat]
    /\ MaxLive \in Nat /\ Requests \cup Offsets \subseteq Nat
    /\ \A a \in Alignments : a \in {2^k : k \in 0..8}

Ptr == 8            \* sizeof(void*), and of alloc_hook_block_t
Padding == 8        \* ALLOC_HOOK_PADDING_SIZE
MaxAlignSize == 16  \* ALLOC_HOOK_MAX_ALIGN_SIZE
Guarantee == 8 * MaxAlignSize
SmallMax == 128 * Ptr
Slice == 65536      \* ALLOC_HOOK_SEGMENT_SLICE_SIZE

VARIABLES
    lists,      \* the lists and the has_aligned flags of the pages
    content,    \* what is in each block
    live        \* the objects of the program

vars == <<lists, content, live>>

AlignUp(n, a) == ((n + a - 1) \div a) * a

\* page_queue's bin: two words apart, up to 16 words.
BlockSize(n) == IF n <= Ptr THEN Ptr ELSE AlignUp(n, 2 * Ptr)

\* segment_page_start: pages begin at slices, small blocks a few blocks later.
PageStart(s) == s * Slice + (IF s <= 64 THEN 3 * s ELSE s)

\* segment_page_of: the page of an address, by the size of its blocks.
PageOf(p) == p \div Slice
BlocksOf(s) == {PageStart(s) + k * s : k \in 0..(Reserved[s] - 1)}
Block == UNION {BlocksOf(s) : s \in BlockSizes}

\* page_usable_block_size
Usable(b) == PageOf(b) - Padding

\* A byte holds what the program wrote there -- its offset in the object -- or:
Zero == -1
Junk == -2          \* uninitialized, freed, or a link of a list
Fill == -3          \* ALLOC_HOOK_DEBUG_PADDING
Byte == Nat \cup {Zero, Junk, Fill}

\* stock: in free or local_free; thread, delayed: freed by another thread.
Lists ==
    [stock : SUBSET Block, thread : SUBSET Block, delayed : SUBSET Block,
     aligned : SUBSET BlockSizes]

\* What a block in use or in a delayed list holds; delta: in its padding.
ContentOf(b) == [delta : 0..Usable(b), byte : [0..(Usable(b) - 1) -> Byte]]
Blank == [delta |-> 0]

\* wrote: the program wrote the bytes below; history of a zeroed object: from vague
\* to zeroTo its bytes have never been in use, so that they have to be zero.
Object ==
    [p : Nat, size : Nat, wrote : Nat, vague : Nat, zeroTo : Nat]

TypeOK ==
    /\ lists \in Lists
    /\ \A b \in Block : content[b] = Blank \/ content[b] \in ContentOf(b)
    /\ live \subseteq Object /\ Cardinality(live) <= MaxLive

Init ==
    /\ lists = [stock |-> Block, thread |-> {}, delayed |-> {}, aligned |-> {}]
    /\ content = [b \in Block |-> Blank]
    /\ live = {}

-----------------------------------------------------------------------------
(* From a pointer to its block                                             *)

\* page_ptr_unalign
Unalign(p) == p - ((p - PageStart(PageOf(p))) % PageOf(p))

\* free_generic and usable_size: only a page with aligned objects is looked at.
BlockAt(p) == IF PageOf(p) \in lists.aligned THEN Unalign(p) ELSE p

\* usable_size: what was asked for, from p on.
UsableSize(p) ==
    LET b == BlockAt(p) IN Usable(b) - content[b].delta - (p - b)

-----------------------------------------------------------------------------
(* Taking blocks and giving them back                                      *)

\* Mutant of FreedLocal: the flag goes with any block.
FreedClears(l, b) ==
    [l EXCEPT !.stock = @ \cup {b}, !.aligned = @ \ {PageOf(b)}]

\* free of a block by its owner; with the last one the page is retired.
FreedLocal(l, b) ==
    LET all  == l.stock \cup {b}
        page == PageOf(b)
    IN  [l EXCEPT !.stock = all,
                  !.aligned = IF BlocksOf(page) \subseteq all THEN @ \ {page} ELSE @]

\* malloc_generic: first the delayed blocks, whose pages are collected and retired
\* when they are empty, then the page that is asked for.
Generic(l, s) ==
    LET pages == {PageOf(b) : b \in l.delayed}
        all   == l.stock \cup l.delayed \cup
                 {b \in l.thread : PageOf(b) \in pages \cup {s}}
    IN  [stock |-> all, thread |-> l.thread \ all, delayed |-> {},
         aligned |-> {a \in l.aligned : a \in pages => ~(BlocksOf(a) \subseteq all)}]

\* A block that page_malloc may take from lists l.
Popped(l, s) ==
    {[lists |-> [l EXCEPT !.stock = @ \ {b}], block |-> b] :
        b \in {f \in l.stock : PageOf(f) = s}}

\* malloc of size bytes and the padding: at once or by malloc_generic.
Found(size) ==
    LET s == BlockSize((IF size = 0 THEN Ptr ELSE size) + Padding)
    IN  Popped(lists, s) \cup Popped(Generic(lists, s), s)

\* page_malloc, the contents: zeroed or not, and the padding filled at its start.
Fresh(b, asked, zero) ==
    LET size  == IF asked = 0 THEN Ptr ELSE asked
        delta == Usable(b) - size
        fill  == size..(size + Min({delta, MaxAlignSize}) - 1)
        other == IF zero THEN Zero ELSE Junk
    IN  [delta |-> delta,
         byte |-> [i \in 0..(Usable(b) - 1) |-> IF i \in fill THEN Fill ELSE other]]

\* Mutant of Shrunk: the padding stays.
NotShrunk(c, b, size) == c

\* padding_shrink: at least size bytes are in use.
Shrunk(c, b, size) == [c EXCEPT !.delta = Min({@, Usable(b) - size})]

\* A result of an allocation: where the object begins, and what page_malloc is told.
Result(x, p, asked) ==
    [lists |-> IF p = x.block THEN x.lists
               ELSE [x.lists EXCEPT !.aligned = @ \cup {PageOf(x.block)}],
     block |-> x.block, p |-> p, asked |-> asked]

\* heap_malloc_zero
Plain(size) == {Result(x, x.block, size) : x \in Found(size)}

\* heap_malloc_zero_aligned_at.  If a free block happens to fit it is taken; some
\* sizes fit in any case; otherwise a larger block is taken.
AlignedAt(size, align, offset) ==
    LET padsize == size + Padding
        over    == size + align - 1
        head    == {x \in Popped(lists, BlockSize(padsize)) :
                       /\ padsize <= SmallMax /\ align <= padsize
                       /\ (x.block + offset) % align = 0}
    IN  {Result(x, x.block, size) : x \in head} \cup
        (IF offset = 0 /\ align <= padsize /\ padsize <= Guarantee /\ padsize % align = 0
         THEN Plain(size)
         ELSE {Result(x, AlignUp(x.block + offset, align) - offset, over) :
                  x \in Found(over)})

\* heap_malloc_aligned: small objects of common alignments are aligned anyway.
Aligned(size, align) ==
    IF align = Ptr \/ (align = MaxAlignSize /\ size > MaxAlignSize \div 2)
    THEN Plain(size)
    ELSE AlignedAt(size, align, 0)

\* The contents of the block of result x, of an allocation of size bytes.
Filled(x, size, zero) ==
    LET c == Fresh(x.block, x.asked, zero)
    IN  IF x.p = x.block THEN c ELSE Shrunk(c, x.block, x.p - x.block + size)

-----------------------------------------------------------------------------
(* The calls                                                               *)

NewObject(x, size, zero) ==
    [p |-> x.p, size |-> size, wrote |-> 0, vague |-> 0,
     zeroTo |-> IF zero THEN x.asked - (x.p - x.block) ELSE 0]

\* What the blocks hold when that of x holds c; those in a free list hold nothing.
Holding(x, c, l) ==
    [b \in Block |-> IF b = x.block THEN c ELSE IF b \in l.stock THEN Blank ELSE content[b]]

Allocate(x, size, zero) ==
    /\ Cardinality(live) < MaxLive
    /\ lists' = x.lists
    /\ content' = Holding(x, Filled(x, size, zero), x.lists)
    /\ live' = live \cup {NewObject(x, size, zero)}

\* malloc and calloc
Malloc(size, zero) == \E x \in Plain(size) : Allocate(x, size, zero)

\* malloc_aligned, and those with an offset or zeroed
MallocAligned(size, align, offset, zero) ==
    \E x \in AlignedAt(size, align, offset) \cup
             (IF offset = 0 /\ ~zero THEN Aligned(size, align) ELSE {}) :
        Allocate(x, size, zero)

\* The program writes all that malloc_usable_size grants.
Write(o) ==
    LET b   == BlockAt(o.p)
        n   == UsableSize(o.p)
        off == o.p - b
    IN  /\ o.wrote < n
        /\ content' = [content EXCEPT ![b].byte =
              [i \in DOMAIN @ |-> IF i \in off..(off + n - 1) THEN i - off ELSE @[i]]]
        /\ live' = (live \ {o}) \cup {[o EXCEPT !.wrote = n]}
        /\ UNCHANGED lists

\* free by the thread of the heap
Free(o) ==
    LET b == BlockAt(o.p)
    IN  /\ lists' = FreedLocal(lists, b)
        /\ content' = [content EXCEPT ![b] = Blank]
        /\ live' = live \ {o}

\* free_block_mt: what is freed is overwritten and linked into one of two lists.
FreeMt(o) ==
    LET b      == BlockAt(o.p)
        c      == Shrunk(content[b], b, Ptr)
        n      == Max({Ptr, Usable(b) - c.delta})
        linked == [i \in DOMAIN c.byte |-> IF i < n THEN Junk ELSE c.byte[i]]
    IN  /\ live' = live \ {o}
        /\ \/ /\ lists' = [lists EXCEPT !.delayed = @ \cup {b}]
              /\ content' = [content EXCEPT ![b] = [c EXCEPT !.byte = linked]]
           \/ /\ lists' = [lists EXCEPT !.thread = @ \cup {b}]
              /\ content' = [content EXCEPT ![b] = Blank]

\* collect: all lists, and pages without a block in use are freed.
HeapCollect ==
    LET all == lists.stock \cup lists.thread \cup lists.delayed
    IN  /\ lists' = [stock |-> all, thread |-> {}, delayed |-> {},
                     aligned |-> {s \in lists.aligned : ~(BlocksOf(s) \subseteq all)}]
        /\ content' = [b \in Block |-> IF b \in all THEN Blank ELSE content[b]]
        /\ UNCHANGED live

-----------------------------------------------------------------------------
(* Reallocation                                                            *)

\* Does realloc leave the object where it is?  Not more than half may be waste.
Fits(n, usable) == n <= usable /\ n >= usable - usable \div 2

\* What a zeroing realloc clears: also the last word, where there may be padding.
Cleared(n, usable, zero) ==
    IF zero /\ n > usable THEN Max({usable - Ptr, 0})..(n - 1) ELSE {}

\* The bytes of object o that n bytes at offset off of a block take over.
Carried(o, n, off) ==
    LET was == o.p - BlockAt(o.p)
    IN  [i \in off..(off + Min({n, UsableSize(o.p)}) - 1) |->
            content[BlockAt(o.p)].byte[i - off + was]]

\* Mutant of Copied: the object is copied first and then cleared.
ClearedLast(c, x, o, n, clear) ==
    LET off  == x.p - x.block
        copy == Carried(o, n, off)
    IN  [c EXCEPT !.byte = [i \in DOMAIN @ |->
            IF i - off \in clear THEN Zero ELSE IF i \in DOMAIN copy THEN copy[i] ELSE @[i]]]

\* The new block, once it is cleared and what was in use of object o is copied.
Copied(c, x, o, n, clear) ==
    LET off  == x.p - x.block
        copy == Carried(o, n, off)
    IN  [c EXCEPT !.byte = [i \in DOMAIN @ |->
            IF i \in DOMAIN copy THEN copy[i] ELSE IF i - off \in clear THEN Zero ELSE @[i]]]

Resized(o, p, n, zeroTo) ==
    LET top == Max({o.size, o.wrote})
    IN  [o EXCEPT !.p = p, !.size = n, !.wrote = Min({@, n}), !.zeroTo = zeroTo,
                  !.vague = Min({zeroTo, IF n < top THEN Max({@, top}) ELSE @})]

\* The object gets n bytes and stays.
Stay(o, n) ==
    /\ live' = (live \ {o}) \cup {Resized(o, o.p, n, o.zeroTo)}
    /\ UNCHANGED <<lists, content>>

\* It is copied to x, and freed where it was.
Move(o, x, n, zero, clear) ==
    LET usable == UsableSize(o.p)
        b      == BlockAt(o.p)
        after  == FreedLocal(x.lists, b)
        zeroTo == IF zero /\ o.zeroTo >= Min({n, usable}) THEN n ELSE Min({o.zeroTo, n})
    IN  /\ lists' = after
        /\ content' = Holding(x, Copied(Filled(x, n, FALSE), x, o, n, clear), after)
        /\ live' = (live \ {o}) \cup {Resized(o, x.p, n, zeroTo)}

\* realloc and rezalloc
Realloc(o, n, zero) ==
    LET usable == UsableSize(o.p)
    IN  IF n > 0 /\ n <= usable /\ n >= usable \div 2
        THEN Stay(o, n)
        ELSE \E x \in Plain(n) :
                Move(o, x, n, zero, IF n = 0 THEN {0} ELSE Cleared(n, usable, zero))

\* realloc_aligned_at and rezalloc_aligned_at
ReallocAlignedAt(o, n, align, offset, zero) ==
    LET usable == UsableSize(o.p)
    IN  IF align <= Ptr THEN Realloc(o, n, zero)
        ELSE IF Fits(n, usable) /\ (o.p + offset) % align = 0
        THEN Stay(o, n)
        ELSE \E x \in AlignedAt(n, align, offset) :
                Move(o, x, n, zero, Cleared(n, usable, zero))

\* realloc_aligned and rezalloc_aligned: with the offset that p has.
ReallocAligned(o, n, align, zero) ==
    ReallocAlignedAt(o, n, align, o.p % align, zero)

-----------------------------------------------------------------------------

\* Zeroing reallocs are for objects that have been zeroed (alloc_hook_c.h:222-226).
Next ==
    \/ \E n \in Requests, zero \in BOOLEAN :
          \/ Malloc(n, zero)
          \/ \E a \in Alignments, off \in Offsets : MallocAligned(n, a, off, zero)
    \/ \E o \in live :
          \/ Write(o) \/ Free(o) \/ FreeMt(o)
          \/ \E n \in Requests, zero \in {FALSE, o.zeroTo > 0} :
                \/ Realloc(o, n, zero)
                \/ \E a \in Alignments :
                      \/ ReallocAligned(o, n, a, zero)
                      \/ \E off \in Offsets : ReallocAlignedAt(o, n, a, off, zero)
    \/ HeapCollect

Spec == Init /\ [][Next]_vars
=============================================================================
