--------------------------- MODULE SATrackerProps ---------------------------
(***************************************************************************)
(* What must hold of SATracker: its types, the safety of the tracked list  *)
(* and of the calloc'd addresses, and what a step may do to a shared       *)
(* object.                                                                 *)
(***************************************************************************)
EXTENDS SATracker

TrackedAddrs == {tracked[i].pointer : i \in DOMAIN tracked}

\* The threads between the two locks of alloc_internal: they hold an address that
\* allocate() handed out and whose entry is not made yet.
InFlight == {t \in Thread : pc[t].at = "ref"}

\* An entry carries a destructor and at least one owner, none twice, and its memory
\* has not been given back.
EntrySound(e) ==
    /\ heap[e.pointer] # "free"
    /\ e.deleter # "none"
    /\ e.refs # <<>> /\ IsInjective(e.refs)

\* No address is tracked by two entries, no tracked memory has been given back
\* to the C library, and an entry always carries a destructor and an owner: a
\* dealloc, a release or an allocator's destructor never meets a dangling or a
\* half-made PointerInfo (SA.h:583-686), whoever shares it. alloc_internal drops the
\* lock between allocate() and ref() (SA.h:939-942); in that window nobody else tracks,
\* adopts or receives the same address, so ref() makes a new entry and never inherits
\* the count, the destructor or the owners of an earlier object at that address.
NoDangling ==
    /\ TypeOK
    /\ \A i, j \in DOMAIN tracked :
          tracked[i].pointer = tracked[j].pointer => i = j
    /\ \A i \in DOMAIN tracked : EntrySound(tracked[i])
    /\ \A t \in InFlight :
          /\ heap[pc[t].ptr] = "calloc"
          /\ pc[t].ptr \notin TrackedAddrs
          /\ \A u \in InFlight \ {t} : pc[u].ptr # pc[t].ptr

\* `pointers` keeps the address of memory that was released or re-adopted, so
\* it may list an address that is somebody else's, or one address twice.  It
\* still never lacks the address of an object that only it can free: deallocate
\* is never refused with "could not be found in the list" (SA.h:831).  The same of
\* an address between the two locks of alloc_internal.
MallocatorKnows ==
    /\ \A i \in DOMAIN tracked :
          tracked[i].deleter = "mallocator" => Contains(pointers, tracked[i].pointer)
    /\ \A t \in InFlight : Contains(pointers, pc[t].ptr)

\* The inductive invariant: the two support each other.
IInv == NoDangling /\ MallocatorKnows

\* The step leaves shared objects alone: what it frees had one owner, and what it
\* takes off the list was not the global allocator's, unless it freed it.
KeptWhileShared ==
    \A i \in DOMAIN tracked :
        LET e     == tracked[i]
            freed == heap'[e.pointer] = "free"
        IN  /\ freed => Len(e.refs) = 1
            /\ Contains(e.refs, Global) /\ e.pointer \notin TrackedAddrs' =>
                  freed /\ e.refs = <<Global>>

\* Tracked memory is given back by its only owner, whatever others do meanwhile.
\* An object of the global allocator even stays in the list until then: release()
\* and the other allocators only take names of others off it (SA.h:643-650), so
\* what operator new returned is never handed to two parties to free.
SharedSurvives == [][KeptWhileShared]_vars
=============================================================================
