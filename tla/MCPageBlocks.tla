---------------------------- MODULE MCPageBlocks ----------------------------
(***************************************************************************)
(* PageBlocks for TLC, with its properties: the program has the memory it  *)
(* asked for, with what it wrote there, and is never told that it wrote    *)
(* too far when it did not.                                                *)
(***************************************************************************)
EXTENDS PageBlocks

\* Two blocks where objects may begin inside, and one for the small objects.
OneSmall == [s \in BlockSizes |-> IF s = 16 THEN 1 ELSE 2]

\* Result x of an allocation is aligned, and inside the usable part of its block.
Good(x, n, align, offset) ==
    /\ (x.p + offset) % align = 0
    /\ Unalign(x.p) = x.block /\ x.p + n <= x.block + Usable(x.block)

\* Whoever has a pointer of the program finds the block it lies in, by the flag of the
\* page that says whether pointers into blocks have to be looked for (alloc.c:510,
\* 634) and that is set by one object and cleared when the page was empty.  The block
\* belongs to no other object and to no list, and the object is inside what
\* usable_size reports.  Whatever an aligned allocation could return now is aligned,
\* and inside its block.
PointersSound ==
    /\ TypeOK
    /\ \A o \in live :
          LET b == BlockAt(o.p)
          IN  /\ b = Unalign(o.p) /\ b \in Block
              /\ b \notin lists.stock \cup lists.thread \cup lists.delayed
              /\ o.size <= UsableSize(o.p) /\ o.p + UsableSize(o.p) <= b + Usable(b)
    /\ \A o, w \in live : Unalign(o.p) = Unalign(w.p) => o = w
    /\ \A n \in Requests, a \in Alignments :
          /\ \A x \in Aligned(n, a) : Good(x, n, a, 0)
          /\ \A off \in Offsets : \A x \in AlignedAt(n, a, off) : Good(x, n, a, off)

\* The check of the padding (check_padding: when a block is freed, by its owner or by
\* another thread, and again when its owner takes it from the delayed list) never
\* reports a program that wrote no more than usable_size grants: the first bytes
\* after what is in use are as they were filled -- also where the link of the delayed
\* list needs more room than the program asked for.
PaddingIntact ==
    \A b \in {Unalign(o.p) : o \in live} \cup lists.delayed :
        LET c == content[b]
            from == Usable(b) - c.delta
        IN  \A i \in from..(from + Min({c.delta, MaxAlignSize}) - 1) : c.byte[i] = Fill

\* What the program wrote is there, wherever realloc and realloc_aligned have carried
\* it, whichever objects came and went; and what calloc and the zeroing reallocs have
\* to clear, and the program has not used, is zero.
ContentsKept ==
    \A o \in live :
        LET b == Unalign(o.p)
            at(i) == content[b].byte[i + (o.p - b)]
        IN  /\ \A i \in 0..(o.wrote - 1) : at(i) = i
            /\ \A i \in Max({o.wrote, o.vague})..(Min({o.size, o.zeroTo}) - 1) :
                  at(i) = Zero
=============================================================================
