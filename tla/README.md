# StackAllocator in TLA+

A verification development for this repository: TLA+ modules for its concurrent
and stateful parts, TLC configurations that check them on small instances, and
proofs about them for every size.

The repository holds two programs:

- **alloc_hook** (`src/alloc_hook`), a thread-aware `malloc` replacement: mimalloc
  2.1 with its names changed. It is where the hard behaviour is, and most of this
  development is about it.
- **SA** (`src/include/SA.h`), a C++ header of allocators that track what they
  allocate. The header of this commit does not compile as it stands (SA.h:106
  declares a member of the incomplete type `Mallocator<uint8_t>`, and the
  `operator new` overrides call `singleton.mallocator.alloc`, SA.h:1049, which no
  class has). What is modelled is what its text says the rest does.

## The system

### alloc_hook

| part | state | operations | interacts with |
|---|---|---|---|
| page (`page.c`, `alloc.c`) | free, local_free and thread_free lists, `used`, `capacity`, the delayed flag in the low bits of `xthread_free`, `xheap` | malloc, free, foreign free, collect, extend, retire, to_full, unfull | heap queues; other threads push on `xthread_free` by CAS |
| heap (`heap.c`, `page_queue.c`) | page queues by size, full queue, `thread_delayed_free`, `no_reclaim` | new, delete, destroy, collect, absorb | its thread; other threads push on `thread_delayed_free` |
| thread, process (`init.c`) | default and backing heap, `tld`, cache of thread data, pthread key, count of threads | load, init, done, exit | abandons its heap's pages; leaves thread data to threads that start |
| segment (`segment.c`) | slices grouped in spans and pages, `thread_id`, `used`, `abandoned`, commit and purge masks | span allocation, page free, abandon, reclaim, purge | arenas, OS, abandoned list |
| abandoned list (`segment.c`) | `abandoned` (tagged pointer), `abandoned_visited`, counts, readers | push, pop, revisit | every thread that searches for memory |
| arena (`arena.c`), bitmap (`bitmap.c`) | blocks in use, dirty, committed, to purge | allocate, free, purge, reserve | segments, OS |
| arena table (`arena.c`) | `arenas`, their count, the memory of each | reserve, manage, choose, destroy | OS; every thread that needs a segment |
| segment map (`segment_map.c`) | a bit for each segment-sized part of memory | enter, clear, look up | `is_in_heap_region`, checks of pointers |
| OS and primitives (`os.c`, `prim_unix.c`) | `large_page_try_ok`, `huge_start` | allocate (aligned, at an offset, large, huge), free, commit, decommit | the system calls |
| pointers (`alloc.c`, `alloc_aligned.c`) | has_aligned, padding | aligned allocation, usable size, realloc | pages |
| options and output (`options.c`) | each option's value and state, limits of messages, the delayed output | get, set, warning, register output | every part |
| statistics (`stats.c`) | counts per thread and of the process | update, merge, reset | every part |
| random (`random.c`) | | | |

Blocks move between owners like this: a thread frees a block of its own page on
`local_free`. Another thread frees it on the page's `thread_free` list -- except
that the first such free of a page goes to the owning *heap's*
`thread_delayed_free` list, so that the owner hears of it even if the page is in
the full queue. Two bits of `xthread_free` say which: USE_DELAYED_FREE,
DELAYED_FREEING (a thread is between its two CASes), NO_DELAYED_FREE,
NEVER_DELAYED_FREE (the page has no heap to go to). When a thread ends, its pages
with live blocks are abandoned with their segment; a thread that needs memory
reclaims the segment.

**Hard behaviour.** A foreign free is several CASes with the owner free to
collect, free the page, delete the heap or end in between (alloc.c:429-467, whose
comments state the races that must not happen). The waits on DELAYED_FREEING spin
or give up after four tries. Blocks must not be lost, handed out twice, or stay
in a list nobody reads. The hazards are listed line by line in `PROJECT.json`.

**What makes it correct.** malloc never returns a block that is in use (pages);
no freed block is lost and each comes back in time (pages, heaps); nobody pushes
to a heap that is gone (heaps, threads); a page in use is owned by its segment's
thread or abandoned, never both (segments); a claimed range of bits belongs to
one claimer and a failed claim leaves no bit behind (bitmaps, arenas); a popped
segment is in nobody else's hands (abandoned list); each page of memory has one
holder, whatever call of the OS fails (OS, arena table); a pointer of the program
finds its block and its contents (pointers); thread data has one owner, an option
one value, and no output or count is lost between threads (process).

### SA

| part | state | operations |
|---|---|---|
| `SA__LinkedList<T>` | cells with `node` and `next`, `tail`, `size` | append, find, find_or_add, remove |
| `Mallocator`, `TrackedMallocator` | `pointers`, `memory_usage` | allocate, deallocate |
| `TrackedAllocator` | `tracked_pointers`: PointerInfos with their owners (`refs`) and a destructor | alloc, adopt, dealloc, release, destructor |
| `TrackedAllocatorWithMemUsage` | `memory_usage`, a mutex object | the same, with accounting |
| operator new override, logging, hex dump, demo | | |

**Hard behaviour.** Every operation takes one recursive mutex, but `alloc` takes
it twice, and `bad_alloc` leaves it locked. Removing a list node runs a user's
destructor while the list is half changed. Ownership is shared, and addresses
come back from calloc while stale entries still name them.

## Modules

| module | what it is | code |
|---|---|---|
| `BlockPool` | abstract: malloc takes a block of the stock, free gives it up | the promise of malloc and free |
| `ThreadFree` | state; malloc, free, foreign free, delayed frees, the search for a page | alloc.c, page.c, parts of heap.c, segment.c |
| `HeapLife` | collect, heap_new, heap_delete, thread exit, abandoned segments; `Spec` | heap.c, init.c, segment.c, page_queue.c |
| `HeapLifeProps` | the properties of the two, fairness | |
| `HeapLifeInv` | the inductive invariant of the delayed-free protocol | |
| `HeapLifeProofs` | theorems: blocks have one place; the protocol of delayed frees | |
| `MCHeapLife` | instances for TLC | |
| `BitPool` | abstract: threads claim disjoint ranges and give them up | what bitmaps and arenas promise |
| `Bitmap` | search in a field and across fields, claim, rollback, unclaim | bitmap.c, as arena.c calls it |
| `BitmapProps`, `MCBitmap` | properties, the inductive invariant; instances for TLC | |
| `BitmapProofs` | theorems | |
| `Arena` | allocation, free, commit bits, purges now and later | arena.c, one arena |
| `ArenaProps`, `MCArena` | properties, the inductive invariant; kinds of arena and options for TLC | |
| `ArenaProofs` | theorems | |
| `SegmentSpans` | spans and pages of segments, commit and purge masks, abandon, check and reclaim | segment.c |
| `SegmentProps`, `MCSegment` | properties, the inductive invariant; kinds of memory and options for TLC | |
| `SegmentProofs` | theorems | |
| `AbandonedSet` | abstract: a segment is a thread's, abandoned, or not mapped | what the abandoned list promises |
| `AbandonedList` | tagged stack, visited list, readers | segment.c:980-1206 |
| `AbandonedProps`, `MCAbandoned` | properties, the inductive invariant; symmetry for TLC | |
| `AbandonedProofs` | theorems | |
| `OsMemory` | aligned, large and huge allocation, each system call a step | os.c, prim_unix.c |
| `SegmentMap` | the search for the segment of an address | segment_map.c |
| `ArenaTable` | composes the two: the choice between arenas and the OS, reservation, registration, destruction | arena.c, segment.c |
| `ArenaTableProps`, `MCMemory` | properties, the inductive invariant; calls for TLC | |
| `ArenaTableProofs` | theorems | |
| `PageBlocks`, `MCPageBlocks` | addresses and contents of blocks: aligned allocation, padding, realloc; properties | alloc.c, alloc_aligned.c |
| `CallStack` | the calls of threads as sequences of steps | |
| `Messages` | options, warnings, delayed output | options.c |
| `Stats` | counts, merging, reset | stats.c |
| `Process` | composes the three: loading, threads, the cache of thread data, exit | init.c, prim_unix.c |
| `ProcessProps`, `MCProcess` | properties, the inductive invariant; programs and environments for TLC | |
| `ProcessProofs` | theorems | |
| `SAObjectList` | abstract: a sequence of objects | what the list promises |
| `SALinkedList`, `MCSALinkedList` | the list's cells, its assertions, re-entrant destructors | SA.h:196-353 |
| `SATracker` | tracked allocators from several threads | SA.h:551-1012 |
| `SATrackerProps` | properties, which are inductive together | |
| `SATrackerProofs` | theorems | |

`PROJECT.json` maps each definition to its lines.

### From code to model: ThreadFree and HeapLife

A page record has the fields of `alloc_hook_page_t` that matter; `capacity` is
the set of blocks ever put on its free list. A thread's `pc` record says between
which two accesses to shared memory it is, with its local variables. Each action
is **one access to memory that other threads use**, together with the owner's
private work up to the next one:

- foreign free: `FreeMt` (the CAS on `xthread_free`), `LoadHeap` (the racy read),
  `PushDelayed`, `ResetFlag`;
- delayed frees: `TakeDelayed`, then per block `TryUse` and `FreeDelayed`, or
  `Reinsert`; `DelayedDone` goes round again where the code does;
- search: `FindPage`, `FindExtend`, `ToFull`, `FindFresh`, `FindFails`;
- collection: `NeverDelayed`, `NeverDone`, `PageCollect`, `PagesDone`, `CollectDone`;
- abandoned segments: `PopAbandoned`, `CheckFree`, `Claim`, `PushVisited`,
  `SetHeap`, `AllowDelayed`, `GatherPage`, `ReclaimDone`, `AllReclaimed`;
- heap delete: `AppendPage`, `AppendSpin`, `AppendDone`.

What is abstracted, and why that keeps the behaviour:

- *Lists are sets.* thread_free and thread_delayed_free are stacks that are only
  pushed to by CAS and only taken as a whole, so no step depends on their order
  and no CAS can succeed on a recycled head with a wrong next. The page queues
  are searched from their head in the code and in any order in the model, which
  allows more.
- *A CAS loop is its successful CAS.* A failed attempt changes nothing.
- *A collection of a page is one step.* Its only shared access is the CAS that
  takes thread_free.
- *try_use_delayed_free* spins up to four times. The step is taken when the flag
  allows it (`TryUse`) or the block is put back at once (`Reinsert`), which
  covers every number of tries.
- *Retirement.* page_retire keeps the only page of a queue for some collections.
  In the model the page keeps `used = 0` until a collection frees it.
- *The reclaim heuristics* (how many segments to try, how often one was visited)
  are a free choice between claiming and putting back, within the code's guards.
- *Debug build.* The assertions are those of the build with ALLOC_HOOK_DEBUG; a
  forced collection of the main thread reclaims all (heap.c:129-138 differs from
  NDEBUG only in also counting ABANDON, which the main thread never does).
- The user's deferred_free callback is not modelled; it may only call malloc and
  free, which the owner can do before each collection anyway.

### From code to model: Bitmap

The bitmap is the set `map` of the bits that are 1, a bit is a pair of its field
and its place there, and each action is **one atomic access to one field**:

- `Find` begins a search; `Load` is the load of `try_find_claim_field`, `Cas` its
  compare-and-swap, which goes on from the value it read when it fails;
- `Scan`, `Ahead`, `Take`, `Back` are `try_find_claim_field_across`: the zeros at
  the end of the first field, the fields behind it one by one, then the claims in
  the same order, and the rollback down to the first field with `Retry`;
- `TryClaim`, `Unclaim`, `UnclaimNext` are a claim in one field and the clearing
  of a run field by field.

What is abstracted:

- *Skipping.* The loop over bit positions with its jump over the last 1 in the
  way (bitmap.c:79-90) is `FreeRuns`, the free runs of the field, of which the
  first is taken. `SearchIsComplete` says that this loses nothing.
- *CAS loops.* A loop that sets bits it has read as 0 ends when it sets them or
  reads one of them as 1; the attempts between, which fail for some other bit,
  change nothing. The loop and its first load are one step.
- *An intermediate field* is set to all ones by a CAS from 0 and back to 0 by a
  plain store (bitmap.c:280). `Back` stores 0, as the code does: that this clears
  nobody else's bit is part of what is proved.

`nested` tells a search inside a field that the one across fields called
(bitmap.c:213, whose comment says that this does not happen: it does when other
threads free bits in between). `alone` is history: whose call no other overlaps.

### From code to model: Arena

The arena's four bitmaps are sets of blocks in one field, so each range access is
one atomic step; what happens when a range crosses fields is Bitmap's matter.
`Alloc` .. `Describe` are `arena_try_alloc_at`, `Free` .. `Release` are
`arena_free`, `Guard` .. `Rearm` are `arenas_try_purge` and `arena_try_purge`;
`Collect` forces the latter. Again an action is one access to memory that other
threads use at that time: the dirty and committed bits of a block are used by
nobody but who has claimed it, so they go with the neighbouring access.

- *Time.* `expire` says that `purge_expire` is not 0. Whether it has come, or the
  purge is forced, is a free choice in `Due`. Its load and CAS are one step: a CAS
  that fails only leaves the purge to the thread that set it.
- *Options.* What kind of arena it is, whether decommit or reset is used and the
  sign of the purge delay are chosen in `Init` and kept (`opt`).
- *The user of a range* is a segment. A segment of one block commits and purges
  parts of it through its own masks (`Commit`, `Decommit`); a huge one does not.
- *The OS* (`os`) commits or fails to; no platform of prim/ reports committed
  memory as zero, so `is_zero` of a commit is false.

The choice between several arenas, their reservation, registration and destruction
are in ArenaTable. Left-over blocks are in Bitmap.

### From code to model: SegmentSpans

A segment is a record with the slices of `alloc_hook_segment_t`; a slice has
`count`, `offset` (in slices) and what `xblock_size` tells: free, no head, or a
page. There is one entry more than slices, as in the code, for the last back offset
of a huge page. `Coalesced`, `Split`, `SpanAllocated`, `PageClear`, ... are the
functions of the same names, on a segment and the queues of a thread.

Only its owner touches an owned segment, so each call of the owner is one step
(`Find`, `PageFree`, `PageAbandon`, `SegmentAlloc`, `HugeAlloc`). The walks over a
segment in `check_free` and `reclaim` collect what other threads free meanwhile,
so there each slice is one step (`CheckSlice`, `ReclaimSlice`), between which
`FreeBlocks` may go on. What is abstracted:

- *Blocks*: a page has blocks in use (`live`) or not; `heap` are the pages in a
  queue of a heap. Freeing the last block, and the owner allocating again in a page
  not yet freed, are steps of their own. Their lists are ThreadFree's matter.
- *Masks*: COMMIT_SIZE is the size of a slice (types.h:357), so a mask is a set of
  slices, and the rounding of `segment_commit_mask` does nothing. `os` is what the
  OS has committed; a commit may fail whenever a slice is not committed.
- *Time*: `expire` says that `purge_expire` is not 0; whether it has come or is long
  past is a free choice.
- *Order*: the order in a queue, the number of tries and of visits, and whether a
  segment suits a heap are left open.
- *Threads*: a thread that has ended begins again as another one; `Ended` owns what
  it left.

Left out: guard pages (ALLOC_HOOK_SECURE), the calculation of sizes and large
alignments, ALLOC_HOOK_HUGE_PAGE_ABANDON (off by default, types.h:96). The abandoned list is a
set here and in HeapLife; AbandonedList shows that it is one.

### From code to model: AbandonedList

Each access to `abandoned`, `abandoned_visited`, `abandoned_next`, `thread_id` and
`abandoned_readers` is a step: `Link`, `Push` (the loop of abandoned_push), `Revisit`
.. `PrependCas` (abandoned_visited_revisit, whose second half pushes the whole visited
list in front of what is there; its walk to the last one is `Last` of the `Chain`, the least
set closed under the links), `Pop` .. `Return` (abandoned_pop), `VisitLink`,
`VisitCas` (visited_push), `Await`, `Unmap` (the wait before a segment's memory goes).
A CAS compares pointer and tag. `Alloc` reuses memory at the same address, which is
what the tags are for. Whether a popped segment is reclaimed, freed or put on the
visited list is a free choice here; SegmentSpans and HeapLife decide it.

`Place` maps this to AbandonedSet: where a segment is follows from the links of memory,
and "lost" is no place of AbandonedSet, so a segment in two lists or in none
violates the refinement.

### From code to model: OsMemory, SegmentMap, ArenaTable

The unit is a page of the OS; a segment, an arena block, a large and a huge page are
`Block` pages. `mem` says what the OS has at each page. A thread's `pc` carries the call
and what it has in hand. `AskOs` starts an aligned allocation; `PrimAlloc` is mmap, with
the large pages that are tried at most every `Retry` times, `FreeMisaligned`,
`OverAllocate`, `FreePre`, `FreePost` the second attempt of os_prim_alloc_aligned,
`SkipExtra` the part before an offset. `ClaimHuge` .. `FreeHuge` are
alloc_huge_os_pagesx, page by page. At "got" or "failed" ArenaTable goes on:
`CountArenas`, `TryArena`, `ReserveArena`, `Fallback` are arena_alloc_aligned,
`AllocMeta` .. `StoreArena` and `UndoManage` .. `UndoHuge` are manage_os_memory_ex2 and arena_add,
`CommitInfo`, `Enter`, `BeginFree` the ends of segment_os_alloc and segment_os_free.

- *Addresses.* mmap returns any of three places: the lowest ones that fit at two
  segments, at one but not two, and a page behind a segment's begin (`Places`). The
  address hint of os_get_aligned_hint asks for one of them.
- *Sizes.* A free recomputes the size by os_good_alloc_size of the size plus the
  alignment offset (os.c:157, `OsExtent`). This agrees with what was mapped since the offset and the
  extra are multiples of a segment: GoodSize(size + extra) = GoodSize(size) + extra.
- *Of an arena* only the blocks in use are kept; their other bits are in Arena.
  Where several runs are free any may be taken.
- munmap does not fail. The other platforms' ways to give memory back as a whole are
  left out, and the static area for descriptors: they ask for an alignment that
  it does not have (arena.c:152).

`Accounted` counts, for each page, who holds it. `lost` are the descriptors that the
code forgets when the table is full (below), `external` what the program maps.

### From code to model: Messages, Stats, Process

A thread's `todo` (CallStack) holds the steps it still has to take, innermost call first,
so that calls nest as in the code: the first malloc of a thread initializes the
process, which reads options, which warn, which read options. Each step is one access
to shared memory. `Private` steps touch only what the thread owns; they are
taken at once, before any step of another thread, which changes no result since
nobody else can see them.

`Process` has the ways into thread_init (the constructor; malloc of a fresh thread, in
"early" programs before the constructor too), the pthread key with its
rounds of destructors, thread data from the cache or the OS, `CachePut` and
`CacheDrain`, and the exit. `program` is which calls each thread makes, so that the
run can be split; `drift`, `given` and `pages` are history.

What is assumed: other threads start only after the main thread has its heap; the program
sets an option only once loaded and while nobody lazily reads that option (if not,
the setting can be lost: below); the C runtime and output functions do not allocate;
destructors of other keys allocate only in the first round ("late" programs). A
value in the environment is absent, a number or neither; random numbers are
whether the OS has them.

### From code to model: PageBlocks

Here a block has an address and bytes, and a page of each size is at its own 64 KiB
slice. `stock` merges `free` and `local_free`: any block of it may be next, as in the
SECURE 4 build of CMakeLists.txt, where free lists are shuffled and extended bit by bit.
`thread` and `delayed` are the other two lists. An object of the program has its pointer,
the size asked for (`size`) and, as history, how much it wrote (`wrote`), from where its
contents are no longer defined (`vague`), and up to where the program may expect zeros
(`zeroTo`).

`Found` is page_malloc after a search, `Fresh` what it writes (zeros or junk, the
padding), `AlignedAt` alloc_aligned with its two fast paths and the over-allocation
that sets has_aligned, `Unalign` and `BlockAt` the way back from a pointer, `Shrunk`
padding_shrink, `Realloc`, `ReallocAlignedAt` and `ReallocAligned` the three forms of
realloc with and without zeroing. Zeroing reallocations are called for objects
that were allocated zeroed, as their documentation asks (alloc_hook_c.h:222-226).

A free by another thread is one step: its races are ThreadFree's matter. The delayed
list may be taken at any allocation (`Generic`), as malloc_generic does.
Alignments beyond ALLOC_HOOK_ALIGNMENT_MAX, which get a segment of their own, are left
out, and so are allocations that fail, which change nothing.

### From code to model: SA

`SALinkedList` keeps cells, `tail` and `size` as they are. A removal is two
actions around the user's destructor, which may call back into the list up to
`MaxDepth` deep. `remove_all` and `remove_all_pointers_except` are loops whose
frames lie under those of their removals (`BeginRemoveAll`, `RemoveNext`,
`RemovedAll`). `status` records a failed assertion or a use of freed memory;
the program stops there, so this run does not check deadlock.

With `HeadOnly` only the destructor of the first node calls back.
A nested call from another one leaves `tail` or `size` behind the cells: the assertions of
`verify_tail` (SA.h:206-216) fail, which HeadOnly = FALSE shows in a few steps.

`SATracker` keeps the lists as sequences and the locked regions as actions;
`alloc` is `Allocate` then `AllocRef`, and the destructors that take the lock
several times are several actions. `UserNew` and `UserFree` are the program's own
memory, which it may `adopt` or get by `release`.

## Runs

Every run is a search of all states.

| run | instance | asks |
|---|---|---|
| HeapLife_core | 2 threads, one of them the main thread, 3 heaps, one page of 2 blocks, all calls | all safety properties of the protocol; the refinement of BlockPool |
| HeapLife_live | 3 threads, fair: the owner, one that frees and ends, one that frees | every call returns; full pages come back; the meaning of NO_DELAYED_FREE with two foreign frees of one page |
| Bitmap_core | 2 threads, 3 fields of 3 bits, runs of 2, 3 and 5 bits | the bits' owners, the rollback's assertions, the search; the refinement of BitPool |
| Arena_core | 2 threads, 3 blocks, all kinds of arena and options | what a memid says; committed bits; the refinement of BitPool |
| Segment_core | 2 threads, a segment of 4 slices, pages of 1 and 2, huge pages of 2 and 4, all options | spans, queues, masks and owners; pages in use implement BitPool |
| Segment_doc_huge | the same | the page of a huge segment "cannot fail as we commit in advance": violated |
| Abandoned_core | 2 threads, 3 segments, 3 tags | readers never read freed memory; a pop alone finds what there is; the refinement of AbandonedSet |
| Memory_core | 2 threads, 9 pages, 2 arenas, 3 calls of seven kinds | every page has one holder; committed memory is accessible; arena ids; the segment map |
| Process_core | 3 threads, 5 programs, 2 environments | thread data, options, output, statistics |
| Blocks_core | 1 program with 2 objects, pages of 16- and 32-byte blocks | pointers find their blocks; padding; contents |
| SALinkedList_core | 4 objects, 3 cells, the destructor of the first node may call back | the list's assertions; the refinement of SAObjectList |
| SATracker_core | 2 threads, 2 owners, 2 addresses, calloc may fail | ownership of tracked addresses |

The finding in `PROJECT.json` quotes the line that the last kind contradicts.

**Bounds.** *HeapLife*: two blocks give a page that is empty, half full and full,
and a block on each of two lists at once; in HeapLife_live a third thread gives two
foreign frees of one page in flight, and the owner. What several pages in one segment add is
in SegmentSpans. No counter grows, so the constants are the only bounds (`Calls` restricts
which calls are made). *Bitmap*: 3 fields are a first, an intermediate and a last
one; a run of 5 bits spans all three, one of 3 fits or crosses, one of 2 never
crosses; 2 left-over bits end the last field. The arena's search starts at field
0 (arena.c:206, the other start is commented out); start 1 makes it wrap. A thread
holds at most `MaxHeld` = 2 runs. *Arena*: with 3 blocks a range of 2 overlaps every
other such range, and a purge mask can have one range, two, or a hole; each thread
has at most one memory. `MCArena` says why `AllOptions` leaves out some
combinations. *SegmentSpans*: behind the info slice are three more, the fewest with a
span that has a neighbour on both sides; pages of one and two slices leave a span
over, fill it, or do not fit; a huge page of 4 has more slices than the segment has
entries, one of 2 has not. The same with 5 slices, or with one thread, two
segments and one kind of memory, holds too, but takes long. *SATracker*: `MaxPointers` bounds the list that only grows by stale
addresses; byte counts wrap at `Word`.

*AbandonedList*: two threads and three segments give a pop that reads the link of a
segment which the other pops, pushes again elsewhere and frees. The code counts
2^25 tags round; the model takes it that no thread sleeps through all of them, and
gives a new value a tag that no thread has a copy of (`NewTag`), for which one tag
for each thread and one more are enough. *Memory*:
nine pages, two to a segment or block, leave room for four segments and one page at
an odd place, so that the OS returns misaligned memory; with `MaxArenas` = 2 and
`Spare` = 1 the table fills up; three calls let an arena be made, used and given up
while another thread makes one. The area for huge pages begins at a place that others
can take. *Process*: two calls in a thread's life, one failure of the OS, one slot in
the cache for two ending threads, two rounds of destructors. The five programs of
`MCProcess` each put together the calls that touch the same state (the cache; options
and output; statistics; the exit of the process; threads that follow each other); a
delayed buffer of 4 with messages of 2 and a prefix of 1 fills up. *PageBlocks*: the
sizes are in bytes and real. Objects with offset 8 in an alignment of 16 begin inside
a block; one of 4 bytes in a block of 16 has a padding that a delayed free must
shrink; one of 24 fills a block of 32 exactly; reallocations grow and shrink in place and
move. The sizes 16 and 32 of blocks have no rounding beyond a word, so the bins
of larger sizes do not occur.

All runs finish with their whole state space: about 1.0 million states each in
Memory_core and Process_core, 330,000 in Abandoned_core, 170,000 in SATracker_core,
50,000 in Blocks_core and 20,000 in SALinkedList_core and HeapLife_live. Memory_core
and Process_core do not check deadlock because the process ends there.

Safety alone is checked of heap_delete's wait for a foreign free (`AppendSpin`);
the live run has no new and delete.

**Fairness.** Inside the allocator a thread keeps running (`WF` of its steps):
scheduling by the OS. Leaving a loop over abandoned segments is strongly fair,
because each loop looks at a fixed number of segments (`max_tries`,
segment.c:1392 and 1431). The main thread's reclaim-all loop has no such number,
so it is left out of the liveness run. `FullPagesReturn` also needs a program that
goes on allocating, `KeepsAllocating`: nothing else collects a heap.

## Proofs

`HeapLifeProofs` proves, for any sets of threads, heaps, segments, pages and a
finite set of blocks (`ThreadFreeAssumption`, evaluated by TLC on each run):

- `Invariance`: the inductive invariant `IInv == TypeOK /\ Exclusive`;
- `TypeCorrect`: `TypeOK`, with `used \in Nat`;
- `BlocksExclusive`: `Exclusive`;
- `PoolRefinement`: `Spec` implements `BlockPool`.

The argument: `used` is exactly the number of blocks that are on neither of the
owner's lists, and a block that is with the program, on a heap's delayed list or
in a thread's hands is in no list of its page and in no second such place. TypeOK
alone is not inductive, since `used - 1` stays natural only because the block
freed is counted in it; nor is Exclusive without TypeOK. A page can be cleared
with `used = 0` because then nothing of it is away from its lists, so no claim
about a block elsewhere is broken. The protocol of the flag is not needed for this: whatever the
flag allows, a block has one place.

Each action has its own lemma-sized step; the steps on one page
(`Collected`, `FreedLocally`, `Popped`, `Extended`) are lemmas used by all.

Its second part proves the protocol itself, under the same assumption:

- `FullInvariance`: the inductive invariant `FullInv == IInv /\ Handover` (`HeapLifeInv`);
- `NoDelayedSound`: `NoDelayedOnlyWithDelayed`, a page whose flag says that its owner
  need not be told has a block on its way to the owner;
- `NothingIsLost`: `NothingLost`, each block is in use, in its page, or in a list or a hand
  from which somebody will take it;
- `AssertionsTrue`: `AssertionsHold` with `HeapsOutliveFrees`: the assertions of the
  code, among them that the heap a foreign free pushes on still exists;
- `OwnersAlwaysAgree`: `OwnersAgree`;
- `FlagIsKept`: the action property `FlagKept`, on who may change a flag.

The argument is about one race. A foreign free that finds USE_DELAYED_FREE claims
the page (DELAYED_FREEING), reads its heap, pushes the block there and resets the flag,
and the heap may be deleted or its thread end in between. `Claimed` and `FreerHeld`
say that the flag is one thread's claim, and that the heap it has read is still the
page's, or that of an owner who waits (`spin`) before it absorbs it. So the pages that
thread exit has marked never (`Ending`), and those that heap_delete has
moved (`Deleting`), have nobody inside the claim, and the list of the heap is empty when
it goes. `ListHeld` and `TakenHeld` say whose pages the blocks on delayed lists are of: of
the list's thread, and of the list's heap unless that is being deleted. `PageHeld`,
`HeapsHeld` and `SegmentsHeld` relate pages, heaps and segments to threads:
an owner of a page is alive, a page without heap is marked never, no two threads look at one
segment. `AtHome` and `AtSegment` are what each place of the code knows of its local variables.
`Returns` is what NO_DELAYED_FREE means, `OutIsAway` that no block falls out.
None of them is inductive without the others: a page goes from a heap to the abandoned
segments and to another heap, so the claim on it has to be followed through all three.

Each step has one lemma, `...Held`, and under it a part of Handover each. Most steps leave
most parts alone; one lemma for each part says what a step must not touch.

`BitmapProofs` proves, for any number of threads, fields, bits of a field, blocks
and held runs (`BitmapAssumption`, evaluated by TLC on Bitmap_core):

- `Invariance`: the inductive invariant `IInv`: `TypeOK`, `BitsAccounted`, and for
  each thread that it holds runs of the bitmap and that its place and its run fit
  (`Placed`);
- `TypeCorrect` and `AllBitsAccounted`: its parts;
- `AssertionsAlwaysHold`: `AssertionsHold`, the assertions of bitmap.c and the
  check for a double free in arena.c:664;
- `PoolRefinement`: `Spec` implements `BitPool` over the runs without left-over bits.
- `SearchesAreComplete`: `SearchIsComplete`, from the invariant `UndisturbedHolds` of
  the calls that no other overlaps.

The argument: each 1 has exactly one thread that answers for it, by a run that it
holds or by the part of a run that it has taken, or not yet given back
(`Taken`). A claim reads the bits it sets as 0, so nobody answers for them. The
rollback is the step that needs more than this: it stores 0 in a whole
intermediate field, so the invariant must say that such a field lies wholly in the
thread's run (`Spread`) and that all of it is among the bits it answers for.
`Spread` holds because a run that leaves a field begins with the last zeros of
it, an interval of indices: the lemmas about `Run`, `Index` and fields show that
an interval that has bits before and behind a field has all of it.

That a search overlooks nothing is an action property of its last step, about all that came
before. `Undisturbed` carries it: as long as a call is alone the other threads are idle,
no run of the length asked for begins in a field that the search has been to (`Barren`),
each field not yet visited is still counted in `left` (`Unvisited`), and the bits it has seen
free are free, so that it never rolls back. A field is done with for one of two reasons. A
run of one or two bits lies in one field, and `FreeRuns` found none in it (`BarrenShort`). A longer one
that begins in the field and leaves it must begin in the zeros at its end (`Crossing`), so there
are none, or the run would end behind the bitmap (`TooShort`), or a 1 in a field
behind is in its way, and then in the way of every run that begins later in those zeros
as well (`BarrenScan`).

`ArenaProofs` proves, for any number of threads and blocks, any kinds of arena and
options (`ArenaAssumption`):

- `Invariance`: the inductive invariant `IInv` of `ArenaProps`;
- `AllClaimsAccounted`, `MemidAlwaysTrue`, `CommittedAlwaysReal`: `ClaimsAccounted`,
  `MemidIsTrue`, `CommittedIsReal`;
- `PoolRefinement`: `Spec` implements `BitPool`, a purge being a claim like any other.

The argument: every set bit of `inuse` is claimed by one thread, by an allocation or by a purge
(`Mine`). What a step does to committed, dirty or purge bits, and to the memory of the
OS, it does to blocks of its own (`Own`), so what other threads were told of theirs stays
true (`InvStep`; `QuietStep` for those that touch no memory). The hard case is the purge
that the last user of some blocks has scheduled: it decommits only what it could
claim. That it claims what is there to claim needs the search for the runs of the purge mask
(`SeekFinds`), by the least block of the mask (`Least`). `Placed` says what a thread at
each place knows; that pinned memory is never purged keeps `committed` empty there.

`SegmentProofs` proves, for any sets of threads and segments, any numbers of slices, info slices
and slices that lead back, and any sizes of pages (`SegmentAssumption`):

- `Invariance`: the inductive invariant `IInv` of `SegmentProps`;
- `SpansAlwaysValid`, `MasksAlwaysValid`, `OwnersAlwaysOne`: `SpansValid`, `MasksValid`,
  `OneOwner`;
- `PoolRefinement`: `Spec` implements `BitPool`, a range being the slices of a page with live
  blocks.

The argument: `Heads`, the first slices of the spans, is what the walk of the code visits, each
step as long as the `slice_count` it reads. The model defines it by recursion; the proof turns
that into what can be said without one: the heads are the least set with the first slice
that has the next head with each head (`Closed`), and a set that *tiles* the entries (`Tiles`: it has 0,
no head lies inside the span of another, and each span ends at a head or at the end) is that
set (`TilesHeads`). So a step that changes several slices at once has to show only that the
heads from before, without those that were joined or with those that were made, tile the segment
again. Coalescing reads the slice before the span and follows its offset back. That it finds the
head of a free neighbour, and never the inside of a page, is why `Follows` is in the
invariant: the last slice of each free span, and as many slices of a page as can lead back, lead to the head.
`SpansCoalesced` is not inductive alone: a free span is put next to another while a page
is cleared, so the lemmas `Joins`, `Clears` and `Restores` speak of the segment *but for
the span at i*. A page is what is in use, whether its blocks are live or
not; that the slices of a live page are committed (`MasksFit` and `MasksBut`) survives a purge
because a purge takes only the slices of the span just freed.

The other half is that these operations on one segment are those of one thread. `Place` says that a
segment has an owner, is on the abandoned list, or is checked by the one thread that popped
it; `Walks` that a thread checking or reclaiming is at a head, and that a reclaim has in its
heap exactly the pages it has passed, which is what keeps `abandoned` equal to the number of pages that are
in no heap; `Kept` that an owner has pages of its segment in its heap unless the segment has none or is
just being reclaimed. With `Alone`, a step needs to look only at one segment, one queue
and one thread: `Ready` and `LocalStep` say what it must show, and each action has
one lemma that shows it. The queue of a thread is followed segment by segment (`Exchanged`).

For the refinement, a step either leaves the pages with live blocks alone (`Steady`), takes one
that `MadeIs` shows to be apart from the others, or gives one up; two pages of a segment are disjoint
because its spans tile it (`SpansApart`).

`SATrackerProofs` proves, for any threads, owners and addresses (`TrackerAssumption`):

- `Invariance`: `IInv == NoDangling /\ MallocatorKnows`, which is inductive;
- `NothingDangles`, `MallocatorAlwaysKnows`: its parts;
- `SharedAlwaysSurvives`: the action property `SharedSurvives`.

The argument: an operation changes the tracked list by adding an entry, replacing one
or dropping one (`AppendEntry`, `ReplaceEntry`, `DropEntry`), and each of these keeps
the list sound if the address concerned is nobody else's. The window between the two locks
of `alloc` is why the invariant speaks of addresses in flight (`FlightSound` in the
proof): calloc cannot return an address that is in flight, because it is allocated; and no
release or unref frees it, because it has no entry yet. The lemmas `RemoveAtIs` ..
`RemoveAllExceptIs` say what the operators on sequences return.

`AbandonedProofs` proves, for any finite set of threads, any segments and any number of tags
above that of the threads (`AbandonedAssumption`):

- `Invariance`: the inductive invariant `IInv` of `AbandonedProps`;
- `ReadersAlwaysSafe`, `AlwaysDrained`: `ReadersSafe`, `DrainedWhenAlone`;
- `SetRefinement`: `ImplementsSet`, the lock-free list is the set that HeapLife and
  SegmentSpans take it for.

The argument: `OneHome` says that a mapped segment is in exactly one place: the abandoned
chain, the visited chain, in a thread's hands (`Held`), or among the visited ones
that a thread moves over (`Grabbed`). What is in a chain depends on links all over memory, some of which are
written by threads that have popped a segment while others still read it. So the lemmas
`ReachLeast` .. `NoCycle` say when writing a link leaves a chain as it was, and what a chain
is without its first segment, or with another chain in front; that a chain ends (`Ends`) makes sure
that its first segment does not come again. The compare-and-swap of a pop is the hard step: it
installs a link that may have been read long ago. `Linked` says that this link is
still the right one *as long as the tag has not changed*: each change of `abandoned` takes a
tag that no thread has a copy of (`TagIsNew`: there is one, by counting), so the copies
taken before can never match again. `Reading` and `Counted` say why the wait for
readers suffices: a thread that may read a segment's link is counted, and when the count was
0 the segment was already out of the list, so who comes later does not find it. `Alone` follows one
undisturbed pop through its places. `StepHolds` is what every action has to show:
it writes only what is its own (`Touches`), so what the others know stays true
(`OthersStay`, `OthersLinked`, `OthersRead`). For the refinement, `PlaceIs` reads off the
invariant where each segment is, and a step changes who holds one segment at most (`Moves`).

That a tag is new is the assumption of `NewTag`, not of the code, which has 25 bits of tag and
counts up: with 2^25 changes of the list during one pop the same tag would come again.

`ArenaTableProofs` proves, for any numbers of pages, arenas and calls, any finite set of
threads and any system call that fails:

- `Invariance`: the inductive invariant `IInv` of `ArenaTableProps`;
- `MemoryAccounted`, `MemoryAccessible`, `TableAlwaysSound`, `MapAlwaysFinds`: `Accounted`,
  `Accessible`, `TableSound`, `MapFinds`.

The assumptions are `OsAssumption`, `WidthAssumption` and `ArenaTableAssumption`. The last
says of the calls what the callers see to: alignments and offsets
are those of whole segments (segment.c:806-813); an offset comes with a size of at least two
segments, so both are rounded in the same steps, `GoodSize(size + extra) = GoodSize(size) + extra`,
and a free, which recomputes what was mapped, gets it right; huge pages come whole. What
an arena reserves is in whole blocks (arena.c:351) and depends on the count of arenas only
(`Reserve`: it doubles with every eight of them).

The argument: `Accounted` is an equation of numbers, so what a page counts for is divided into what
no thread has in hand (`World`) and what the threads have (`Threads`); a step moves only
what its own thread has (`Load`), and shows that the world gains what the thread
loses (`TableStepInv`), or what the OS maps or takes (`OsStepInv` and the like). That a thread has no page twice
(`Once`) comes from `Accounted` itself, and so does that a page it gives back is
nobody else's. `Placed` says for each place of the code what the thread has in hand there: how
much was asked for, how it is aligned, and that the size a free would compute is the one mapped. `Real` says
that it can be accessed if it was asked to be. Segments of arenas have no
pages of their own, so counting does not keep them apart: `Apart` says that two threads
never have the same one, and `Sound` where it is. `Indices` says that a thread about to store an arena
has an index that no arena and no other such thread has; from it follows that `count`
is that of `TableSound`. One lemma for each action shows that it keeps all of it. `TableGrows`
and `TableShrinks` are about the blocks of one segment.

For the map, the parts of the segments are disjoint ranges (`PartsApart`, from the pages, which have one
holder, or from the blocks, which have one tenant). The search takes the last bit at or below the
address in its word, or in a lower word: if that is not the segment of the address, the address
lies in no segment (`CandidateIs`, `FoundIs`).

`ProcessProofs` proves, for any threads, thread data, slots of the cache, programs,
environments, options, and sizes of buffer and messages:

- `Invariance`: the inductive invariant `IInv` of `ProcessProps`;
- `ThreadDataAlwaysSound`, `OptionsAlwaysResolve`, `BufferAlwaysSound`: `ThreadDataSound`,
  `OptionsResolve`, `BufferSound`.

The assumptions are `MessagesAssumption` and `ProcessAssumption`. Two of their conjuncts matter: destructors of pthread keys run in two rounds or more (POSIX says four), since with one
the thread data that a destructor allocates late would stay; and no other thread ends the
process while the main thread still loads it.

What a thread still has to do is a sequence of steps, so the invariant speaks of sequences.
`StackInv` says which steps there are (`Frame`) and which may come above which
(`Over`): a step that copies or claims calls nothing, so it is only ever the first; above
the last step of `thread_done` come only steps that count; and the steps of loading are those
of the main thread. `FrameArgs` gives the arguments of a step from its name, and the
lemmas on `Then` say that what holds of each step of a thread holds still if it holds of those
that are put in front. `BootInv` says how far the process has started: before
`once` is set the main thread has only early steps ahead, and other threads exist only
when everything is there; so nobody but the main thread takes the main heap.

The argument for the thread data: `PlaceInv` is the property, each in one place; a thread
that has taken some from the cache or the OS has a step with it ahead (`InHand`), and no two
such steps, because these steps come first (`OwnNames`, `HeadNames`) or on the way out
of `thread_done`. `HeapInv` ties the heap of a thread to the value of its key, so
that a thread that has a heap when it ends has a destructor ahead that gives it
back; a thread without one has nothing of its own to lose.

For the output, `OutputInv` adds to the property where messages end relative to
`outLen`: a claim moves it on, so that the next one starts behind. For the options, `OptionStep` says what a
thread in the middle of reading one has in hand, and `ValueInv` what the option holds
meanwhile: two threads may read the same one, and both find the same. `LoadInv` says that the
main thread has the options not read yet ahead of it until all are read.

Some proofs need an induction over a number: `Least` (a nonempty set of numbers
has a least one) gives it by the least counterexample.

**Only model-checked.**

- Liveness (HeapLife_live), since the prover has no rules for fairness and ENABLED.
- `ThreadsCounted`, the statistics of the process: sums over thread data while some of it
  is being merged.
- Pointers and contents: arithmetic of addresses, with division by sizes that are
  not constants, which the solver does not decide.
- The list of SA: its cells are found by a recursion along their links, while
  destructors call back at any depth.

## Not modelled

See the components in `PROJECT.json`. Printing, clocks, system information and NUMA,
the platforms other than Unix, random numbers and the renamings of the entry points
keep no state that the modelled parts depend on. `destroy_on_exit`, reservations from
options and heap_destroy are planned. A double free or a write beyond an object
by the program is not in the inputs, so what the checks for them catch is not shown,
only that they never report a program that did neither (`PaddingIntact`).

## Also noticed

Comments and code that disagree where no run is about it:

- types.h:271 subtracts the length of thread_free in its formula for `capacity`;
  page.c:111-112 asserts it without, and that is the one that holds.
- arena.c:451 asserts `purge_decommits`; with that option off and a
  purge delay, freeing a partly committed segment schedules a purge that reaches
  the assertion.
- bitmap.c:213 (`nested` above).
- README.md:74 says that "the destructor `~Allocator` deallocates all allocated
  memory via the `alloc<T>()` function". `dealloc_all` (SA.h:922) unrefs one entry,
  the first in the list, whoever owns it: an allocator that goes leaves its other
  objects tracked (`DeallocAll` in SATracker).
- If the commit of the first page of a fresh segment fails (segment.c:778), the
  empty segment stays in the thread's queues. A later allocation may use it; but when
  the thread ends nothing frees it or abandons it (`thread_collect`, segment.c:403, has
  "nothing to do", and only a page that is freed or abandoned leads to the
  segment), so it is lost: in SegmentSpans its owner becomes `Ended`.
- SA.h:944-950: `onAlloc` is called before `count` is set, and the body of `onDealloc`
  is commented out, so the memory usage of README.md:84 is not kept; SA.h:1003
  deallocates the mutex with `sizeof(std::mutex)`, which `memory_usage` (SA.h:787)
  never counted.
- `no_reclaim` ("true if this heap should not reclaim abandoned pages", types.h:514; "or
  destroy is unsafe", heap.c:221) is only asked by a forced collection: the search of a
  heap made by heap_new reclaims abandoned pages all the same (segment.c:1389).
- arena.c:561 says "make sure to purge again in the future", but a range whose blocks
  cannot be claimed leaves `full_purge` true: its purge bits stay with
  `purge_expire` at 0, and nothing purges it until another free schedules a purge.
- SA.h:314: a destructor that calls `remove_node` from inside `remove_node` leaves tail and
  size wrong unless it is that of the first node (HeadOnly above).
- SA.h:774 throws `bad_alloc` while the mutex of the singleton is locked: no other thread
  gets it again (`AllocateThrows` in SATracker).
- init.c:251 zeroes thread data that comes from the cache, and its `memid` with it, so
  that the os_free of 267 and 272 does nothing later: the data leaks when the cache is
  full or drained.
- If heap_init fails, the thread is counted all the same, and the caller goes on with
  the empty heap, whose `tld` is null. A nested malloc in pthread_key_create counts
  the main thread twice; pthread_exit of the main thread calls thread_done in every
  round of destructors.
- options.c:28-31: an option set while another thread lazily reads it may fall back to its
  initial value. Threads that allocate before the constructor read the options early.
- options.c:198: a thread that has claimed room in the delayed output and not yet copied
  when it is flushed leaves its piece out. `max_errors` and `max_warnings` let one more
  message through than they say.
- stats.c:86: merging adds peaks, after which a peak may be below the current value.
- segment_map.c:107: the loop that looks for a lower word with a bit goes on while the word
  is *not* zero; a segment that begins in an earlier word is not found, and
  MapFinds says so ("or NoSegment").
- segment.c:1118: two threads that move the visited list subtract its count both.
- arena.c:692-694: arenas_unsafe_destroy frees the descriptors of arenas that it keeps, and
  sets the count to the index of the last one kept. arena.c:280 asserts that the count is
  within the table, which a failing arena_add exceeds for a moment; manage_os_memory_ex2
  forgets the descriptor then (`lost`). arena.c:308-329 reads entries up to such a
  count, beyond the table; the model takes an index there for one without an arena.
- os.c: the memory before an offset is decommitted even if it is pinned (356), and a failed
  commit of over-allocated memory is ignored on Windows (261).
- alloc_aligned.c: the zeroing reallocations clear an over-allocated block only up to the
  size asked for; a later one in place exposes what lies between that and the usable size
  (without padding, rezalloc too). `realloc_aligned` takes `p % align` as the offset of the previous
  allocation where `align - p % align` would be. `free_is_zero` is never true, since
  is_zero_init is only ever set to false (segment.c:998).

## Plan

1. *Done*: pages, heaps, threads and abandoned segments (`ThreadFree`,
   `HeapLife`), proofs of exclusiveness; SA list and tracker.
2. *Done*: `Bitmap` with its proofs; `Arena`, one arena; `SegmentSpans`.
3. *Done*: `AbandonedList` with the refinement of the set that `HeapLife` uses;
   memory below the segments (`OsMemory`, `SegmentMap`, `ArenaTable`); the process
   (`Messages`, `Stats`, `Process`); pointers and contents (`PageBlocks`).
4. *Done*: proofs of the delayed-free protocol (`HeapLifeProofs`), of `Arena`, of
   `SATracker`, of `AbandonedList` with its refinement of a set, of the segments with
   their refinement of a pool, of the memory below them (`ArenaTableProofs`), and
   of the process (`ProcessProofs`).
5. `PageQueue`: queue order, `pages_free_direct`, retire countdown and the bins of
   larger sizes; `heap_destroy`.
