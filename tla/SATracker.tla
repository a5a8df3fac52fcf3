------------------------------ MODULE SATracker ------------------------------
(***************************************************************************)
(* TrackedAllocator and TrackedMallocator of include/SA.h: allocators that *)
(* share, under one recursive mutex, the list of tracked PointerInfos with *)
(* the allocators owning each, the list of calloc'd pointers, and the      *)
(* memory counters.                                                        *)
(*                                                                         *)
(* Every public operation runs inside one lock of the singleton mutex and  *)
(* is one action, except alloc_internal, which takes it twice: allocate()  *)
(* and then tracked_pointers.ref(), with other threads in between.  Lists  *)
(* are sequences here; SALinkedList models their cells.  sizeof(T) is 1    *)
(* for every T but std::mutex; byte counts are size_t and wrap at Word.    *)
(***************************************************************************)
EXTENDS Integers, SequencesExt

CONSTANTS
    Thread,       \* threads using the allocators
    Owner,        \* TrackedAllocator objects (addresses of allocators)
    Global,       \* GET_GLOBAL(): an Owner, or NoOwner without the override
    NoOwner,      \* nullptr as an allocator
    Addr,         \* addresses of user objects
    MemOwner,     \* the owners that are TrackedAllocatorWithMemUsage
    Count,        \* element counts passed to alloc
    MutexSize,    \* sizeof(std::mutex)
    Word,         \* size_t counts modulo Word
    MaxPointers,  \* bound: addresses kept in `pointers`, stale ones included
    NoThread,
    CallocFails   \* whether calloc may return nullptr

ASSUME TrackerAssumption ==
    /\ NoOwner \notin Owner /\ Global \in Owner \cup {NoOwner}
    /\ NoThread \notin Thread
    /\ MemOwner \subseteq Owner \ {Global}
    /\ Count \subseteq Nat
    /\ {MutexSize, Word, MaxPointers} \subseteq Nat \ {0}
    /\ CallocFails \in BOOLEAN

VARIABLES
    heap,         \* who holds each address: nobody, a TrackedMallocator, user
    tracked,      \* tracked_pointers: PointerInfos, oldest first
    pointers,     \* pointers: what TrackedMallocator::allocate returned
    memUsage,     \* SINGLETONS::memory_usage
    ownUsage,     \* TrackedAllocatorWithMemUsage::memory_usage of each owner
    exists,       \* the allocators constructed and not yet destructed
    pc,           \* what each thread is in the middle of
    holder        \* the thread an exception left holding the mutex

vars == <<heap, tracked, pointers, memUsage, ownUsage, exists, pc, holder>>

Idle == [at |-> "idle"]
Busy == [at : {"ref"}, ptr : Addr, owner : Owner, n : Count]
        \cup [at : {"mutex", "base"}, owner : Owner]

\* deleter: which destructor the PointerInfo carries -- "mallocator" hands the
\* memory back to TrackedMallocator, "user" calls the adopter's deleter.
PointerInfo == [pointer : Addr, count : Nat, refs : Seq(Owner),
                deleter : {"none", "mallocator", "user"}]

TypeOK ==
    /\ heap \in [Addr -> {"free", "calloc", "user"}]
    /\ tracked \in Seq(PointerInfo)
    /\ pointers \in Seq(Addr)
    /\ memUsage \in 0 .. Word - 1
    /\ ownUsage \in [Owner -> 0 .. Word - 1]
    /\ exists \subseteq Owner
    /\ pc \in [Thread -> {Idle} \cup Busy]
    /\ holder \in Thread \cup {NoThread}

\* The global allocator is a function-local static: it is there from the start
\* and outlives the others.
Init ==
    /\ heap = [a \in Addr |-> "free"]
    /\ tracked = <<>>
    /\ pointers = <<>>
    /\ memUsage = 0
    /\ ownUsage = [o \in Owner |-> 0]
    /\ exists = {Global} \ {NoOwner}
    /\ pc = [t \in Thread |-> Idle]
    /\ holder = NoThread

-----------------------------------------------------------------------------
\* singleton.mutex.lock() succeeds for t.
CanLock(t) == holder \in {NoThread, t}

Ready(t) == CanLock(t) /\ pc[t] = Idle

\* PTR_LL, a list of addresses: find_pointer, the find_or_add_pointer that ref
\* then fills in, remove_pointer, and remove_all_pointers_except.
FindPointer(list, p) == Contains(list, p)

FindOrAddPointer(list, p) == IF FindPointer(list, p) THEN list ELSE Append(list, p)

RemovePointer(list, p) == RemoveFirst(list, p)

RemoveAllPointersExcept(list, p) ==
    [k \in 1 .. Cardinality({i \in DOMAIN list : list[i] = p}) |-> p]

\* find_node over the tracked pointers: the first entry for a, 0 if none.
IndexOf(a) == SelectInSeq(tracked, LAMBDA e : e.pointer = a)

IsTracked(a) == IndexOf(a) # 0

\* PTRINFO_LL::ref by o; when o is the only owner, the caller then sets the
\* count and the destructor of the entry, also of one that was there before.
Ref(a, o, deleter) ==
    LET fresh    == [pointer |-> a, count |-> 0, refs |-> <<>>,
                     deleter |-> "none"]
        added(e) == [e EXCEPT !.refs = FindOrAddPointer(@, o)]
        done(e)  == IF added(e).refs # <<o>> THEN added(e)
                    ELSE [added(e) EXCEPT !.count = 1, !.deleter = deleter]
        i == IndexOf(a)
    IN  tracked' = IF i = 0 THEN Append(tracked, done(fresh))
                   ELSE [tracked EXCEPT ![i] = done(@)]

\* memory_usage += n and memory_usage -= n.
Plus(n) == memUsage' = (memUsage + n) % Word

Minus(n) == memUsage' = (memUsage - n) % Word

\* Mutant of Destroy: the first address of the list is taken off.
DestroyTakesFirst(e) ==
    LET returned == e.deleter = "mallocator" /\ FindPointer(pointers, e.pointer)
    IN  /\ heap' = IF e.deleter = "user" \/ returned
                      THEN [heap EXCEPT ![e.pointer] = "free"] ELSE heap
        /\ pointers' = IF returned THEN Tail(pointers) ELSE pointers
        /\ Minus(IF returned THEN e.count ELSE 0)

\* ~PointerInfo of an entry that still has its pointer: run the destructor it
\* carries.  TrackedMallocator::deallocate frees the memory only when it finds
\* the address among its pointers, and takes entry.count elements off.
Destroy(e) ==
    LET returned == e.deleter = "mallocator" /\ FindPointer(pointers, e.pointer)
    IN  /\ heap' = IF e.deleter = "user" \/ returned
                      THEN [heap EXCEPT ![e.pointer] = "free"] ELSE heap
        /\ pointers' = IF returned THEN RemovePointer(pointers, e.pointer)
                                   ELSE pointers
        /\ Minus(IF returned THEN e.count ELSE 0)

\* Mutant of Unref: the destroyed entry stays in the list.
UnrefKeepsEntry(i, o) ==
    LET e == tracked[i]
    IN  \/ e.refs = <<o>> /\ UNCHANGED tracked /\ Destroy(e)
        \/ /\ FindPointer(e.refs, o) /\ Len(e.refs) # 1
           /\ tracked' = [tracked EXCEPT ![i].refs = RemovePointer(@, o)]
           /\ UNCHANGED <<heap, pointers, memUsage>>
        \/ /\ ~FindPointer(e.refs, o)
           /\ UNCHANGED <<heap, tracked, pointers, memUsage>>

\* Mutant of Unref: the number of owners is not looked at.
UnrefAnyOwner(i, o) ==
    LET e == tracked[i]
    IN  \/ /\ FindPointer(e.refs, o)
           /\ tracked' = RemoveAt(tracked, i)
           /\ Destroy(e)
        \/ /\ ~FindPointer(e.refs, o)
           /\ UNCHANGED <<heap, tracked, pointers, memUsage>>

\* PTRINFO_LL::unref of the entry at index i by owner o: destroy it when o is
\* its only owner, otherwise just take o off; not an owner: nothing.
Unref(i, o) ==
    LET e == tracked[i]
    IN  \/ /\ e.refs = <<o>>
           /\ tracked' = RemoveAt(tracked, i)
           /\ Destroy(e)
        \/ /\ FindPointer(e.refs, o) /\ Len(e.refs) # 1
           /\ tracked' = [tracked EXCEPT ![i].refs = RemovePointer(@, o)]
           /\ UNCHANGED <<heap, pointers, memUsage>>
        \/ /\ ~FindPointer(e.refs, o)
           /\ UNCHANGED <<heap, tracked, pointers, memUsage>>

-----------------------------------------------------------------------------
\* No call of o is under way.
Quiet(o) == \A t \in Thread : pc[t] # Idle => pc[t].owner # o

\* An allocator object is constructed (also by a move: the base class has no
\* fields and what the source owns stays registered under its address).  A
\* TrackedAllocatorWithMemUsage allocates its mutex.
Create(o) ==
    /\ o \notin exists /\ Quiet(o)
    /\ o \in MemOwner => holder = NoThread
    /\ exists' = exists \cup {o}
    /\ ownUsage' = [ownUsage EXCEPT ![o] = 0]
    /\ Plus(IF o \in MemOwner THEN MutexSize ELSE 0)
    /\ UNCHANGED <<heap, tracked, pointers, pc, holder>>

\* alloc_internal, first lock: Mallocator::allocate with TrackedMallocator's
\* onAlloc.
Allocate(t, o, n) ==
    /\ Ready(t) /\ o \in exists
    /\ Len(pointers) < MaxPointers
    /\ \E a \in Addr :
        /\ heap[a] = "free"
        /\ heap' = [heap EXCEPT ![a] = "calloc"]
        /\ pointers' = Append(pointers, a)
        /\ pc' = [pc EXCEPT ![t] =
                    [at |-> "ref", ptr |-> a, owner |-> o, n |-> n]]
    /\ Plus(n)
    /\ UNCHANGED <<tracked, ownUsage, exists, holder>>

\* allocate when calloc fails and no new-handler is set: std::bad_alloc leaves
\* the function with the mutex still locked.
AllocateThrows(t) ==
    /\ CallocFails
    /\ Ready(t)
    /\ holder' = t
    /\ UNCHANGED <<heap, tracked, pointers, memUsage, ownUsage, exists, pc>>

\* alloc_internal, second lock.  A sole owner's onAlloc is given the entry's
\* count before the count is set, and the count is set to 1 whatever the number
\* of elements.
AllocRef(t) ==
    /\ CanLock(t) /\ pc[t].at = "ref"
    /\ LET a == pc[t].ptr
           o == pc[t].owner
           i == IndexOf(a)
           before == IF i = 0 \/ tracked[i].refs # <<o>> THEN 0
                     ELSE tracked[i].count
       IN  /\ Ref(a, o, "mallocator")
           /\ ownUsage' = [ownUsage EXCEPT ![o] =
                             IF o \in MemOwner THEN (@ + before) % Word ELSE @]
    /\ pc' = [pc EXCEPT ![t] = Idle]
    /\ UNCHANGED <<heap, pointers, memUsage, exists, holder>>

\* adopt: of memory the user owns, or of an object another allocator tracks.
Adopt(t, o, a) ==
    /\ Ready(t) /\ o \in exists
    /\ heap[a] = "user" \/ IsTracked(a)
    /\ Ref(a, o, "user")
    /\ UNCHANGED <<heap, pointers, memUsage, ownUsage, exists, pc, holder>>

\* release: the entry goes without its destructor, unless the global allocator
\* is among its owners: then only the others are taken off.
Release(t, a) ==
    /\ Ready(t) /\ IsTracked(a)
    /\ LET i == IndexOf(a)
       IN  \/ /\ FindPointer(tracked[i].refs, Global)
              /\ tracked' = [tracked EXCEPT ![i].refs =
                                RemoveAllPointersExcept(@, Global)]
              /\ UNCHANGED heap
           \/ /\ ~FindPointer(tracked[i].refs, Global)
              /\ tracked' = RemoveAt(tracked, i)
              /\ heap' = [heap EXCEPT ![a] = "user"]
    /\ UNCHANGED <<pointers, memUsage, ownUsage, exists, pc, holder>>

\* dealloc (and, on the global allocator, operator delete).
Dealloc(t, o, a) ==
    /\ Ready(t) /\ o \in exists /\ IsTracked(a)
    /\ Unref(IndexOf(a), o)
    /\ UNCHANGED <<ownUsage, exists, pc, holder>>

\* dealloc_all: its predicate `a != nullptr` picks the first entry of the list,
\* as no entry has a null pointer.
DeallocAll(o) ==
    IF tracked = <<>> THEN UNCHANGED <<heap, tracked, pointers, memUsage>>
                      ELSE Unref(1, o)

\* ~TrackedAllocator, or the first dealloc_all of ~TrackedAllocatorWithMemUsage.
\* No thread is inside a call of the allocator, and none may start one.
Destruct(t, o) ==
    /\ Ready(t) /\ o \in exists \ {Global} /\ Quiet(o)
    /\ DeallocAll(o)
    /\ exists' = exists \ {o}
    /\ pc' = IF o \in MemOwner
               THEN [pc EXCEPT ![t] = [at |-> "mutex", owner |-> o]] ELSE pc
    /\ UNCHANGED <<ownUsage, holder>>

\* ~TrackedAllocatorWithMemUsage hands its mutex back, giving sizeof(std::mutex)
\* for the number of mutexes.
DestructMutex(t) ==
    /\ CanLock(t) /\ pc[t].at = "mutex"
    /\ Minus(MutexSize * MutexSize)
    /\ pc' = [pc EXCEPT ![t].at = "base"]
    /\ UNCHANGED <<heap, tracked, pointers, ownUsage, exists, holder>>

\* Its base class destructor calls dealloc_all once more.
DestructBase(t) ==
    /\ CanLock(t) /\ pc[t].at = "base"
    /\ DeallocAll(pc[t].owner)
    /\ pc' = [pc EXCEPT ![t] = Idle]
    /\ UNCHANGED <<ownUsage, exists, holder>>

\* The user's own memory: new or malloc, and delete or free of memory that is
\* his -- his own, or an SA object he released.
UserNew(a) ==
    /\ heap[a] = "free"
    /\ heap' = [heap EXCEPT ![a] = "user"]
    /\ UNCHANGED <<tracked, pointers, memUsage, ownUsage, exists, pc,
                   holder>>

UserFree(a) ==
    /\ heap[a] = "user" /\ ~IsTracked(a)
    /\ heap' = [heap EXCEPT ![a] = "free"]
    /\ UNCHANGED <<tracked, pointers, memUsage, ownUsage, exists, pc,
                   holder>>

-----------------------------------------------------------------------------
Next ==
    \/ \E o \in Owner : Create(o)
    \/ \E t \in Thread : AllocateThrows(t) \/ AllocRef(t)
                         \/ DestructMutex(t) \/ DestructBase(t)
    \/ \E t \in Thread, o \in Owner :
        \/ \E n \in Count : Allocate(t, o, n)
        \/ \E a \in Addr : Adopt(t, o, a) \/ Dealloc(t, o, a)
        \/ Destruct(t, o)
    \/ \E t \in Thread, a \in Addr : Release(t, a)
    \/ \E a \in Addr : UserNew(a) \/ UserFree(a)

Spec == Init /\ [][Next]_vars
=============================================================================
