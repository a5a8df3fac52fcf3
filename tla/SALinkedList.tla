---------------------------- MODULE SALinkedList ----------------------------
(***************************************************************************)
(* SINGLETONS::SA__LinkedList<T> of include/SA.h: the singly linked list   *)
(* behind the per-type list, the TrackedMallocator pointers, the tracked   *)
(* pointers and every PointerInfo's owners.  The first cell is the list    *)
(* object itself; the other cells come from calloc and go back to free.    *)
(*                                                                         *)
(* Removing a node runs ~T() of the object it holds (dealloc, SA.h:189)    *)
(* BEFORE the node is unlinked, and ~T() is user code that may call back   *)
(* into the same list.  A removal is therefore two steps, BeginRemove and  *)
(* EndRemove, with a frame on a call stack in between; while a frame is    *)
(* open, the destructor may make whole calls of its own.  Removing all     *)
(* nodes, or all but one, is a loop of removals; its frame is the first.   *)
(***************************************************************************)
EXTENDS Naturals, SequencesExt

CONSTANTS
    Object,     \* the T objects
    Cell,       \* the addresses calloc can return for a list cell
    This,       \* the list object itself (`this`)
    Null,       \* nullptr
    MaxDepth,   \* bound: how many removals may be open at once (1: destructors
                \* never call back into the list)
    HeadOnly    \* TRUE: only a destructor run for the first node calls back

ASSUME ListAssumption ==
    /\ Null \notin Object \cup Cell \cup {This}
    /\ This \notin Cell
    /\ MaxDepth \in Nat \ {0}
    /\ HeadOnly \in BOOLEAN

VARIABLES
    next,       \* next field of each cell
    node,       \* node field of each cell
    tail,       \* tail field of the list object
    size,       \* size field of the list object
    alloc,      \* the calloc'd cells not yet freed
    frames,     \* removals whose destructor is running, innermost last
    status      \* "ok", "aborted" (an assert failed) or "corrupt" (a freed
                \* cell was used, or the wrong object was freed)

vars == <<next, node, tail, size, alloc, frames, status>>

Place == Cell \cup {This}

Frame == [kind : {"start"}, n : Object]
         \cup [kind : {"mid"}, n : Object, before : Place, found : Cell,
               link : Cell \cup {Null}]

\* The loops of remove_all and of remove_all_pointers_except.
LoopFrame == [kind : {"all"}] \cup [kind : {"except"}, keep : Object]

TypeOK ==
    /\ next \in [Place -> Cell \cup {Null}]
    /\ node \in [Place -> Object \cup {Null}]
    /\ tail \in Place \cup {Null}
    /\ size \in Nat
    /\ alloc \subseteq Cell
    /\ frames \in Seq(Frame \cup LoopFrame) /\ Len(frames) <= MaxDepth + 1
    /\ status \in {"ok", "aborted", "corrupt"}

-----------------------------------------------------------------------------
\* The cells a walk `current = current->next` from the list object visits.
Chain ==
    LET walk[i \in 0 .. Cardinality(Cell)] ==
            IF i = 0 THEN <<This>>
            ELSE LET w == walk[i - 1]
                 IN  IF next[Last(w)] = Null THEN w
                     ELSE Append(w, next[Last(w)])
    IN  walk[Cardinality(Cell)]

\* The index in Chain of the first node that holds one of `objects`, 0 when a
\* search that stops at the first empty node does not meet any.
PositionOf(objects) ==
    LET hits == {i \in DOMAIN Chain :
                    /\ node[Chain[i]] \in objects
                    /\ \A j \in 1 .. i - 1 : node[Chain[j]] # Null}
    IN  IF hits = {} THEN 0 ELSE Min(hits)

Position(n) == PositionOf({n})

\* The cells a search that ends at index i reads.
Visited(i) == ToSet(SubSeq(Chain, 1, i))

\* verify_tail: the assertions on size, tail and tail->next.
VerifyTail ==
    /\ size = 0 => tail = Null
    /\ size = 1 => tail = This
    /\ size \notin {0, 1} => tail # Null /\ tail # This /\ next[tail] = Null

\* The cells verify_tail dereferences.
VerifyReads == IF size \in {0, 1} \/ tail = Null THEN {} ELSE {tail}

\* How an operation that used the cells of `reads` ends when its assertions
\* come to `asserts`.  A failed assertion ends the program, so what the step
\* did after it is never looked at.
Verdict(reads, asserts) ==
    status' = IF ~(reads \subseteq alloc \cup {This}) THEN "corrupt"
              ELSE IF ~asserts THEN "aborted"
              ELSE "ok"

\* The removals that are open.
Removals == SelectSeq(frames, LAMBDA f : f.kind \in {"start", "mid"})

\* Who may call the list now: user code when nothing is open, the running
\* destructor otherwise.
Callable ==
    /\ status = "ok"
    /\ \/ frames = <<>>
       \/ /\ Removals # <<>> /\ Last(frames) = Last(Removals)
          /\ Len(Removals) < MaxDepth
          /\ HeadOnly => Last(frames).kind = "start"

BeingDestroyed == {f.n : f \in ToSet(Removals)}

-----------------------------------------------------------------------------
Init ==
    /\ next = [c \in Place |-> Null]
    /\ node = [c \in Place |-> Null]
    /\ tail = Null
    /\ size = 0
    /\ alloc = {}
    /\ frames = <<>>
    /\ status = "ok"

\* Mutant of LinkNew: tail is left behind.
LinkNewNoTail(last, n) ==
    /\ \E c \in Cell \ alloc :
          /\ next' = [next EXCEPT ![last] = c, ![c] = Null]
          /\ node' = [node EXCEPT ![c] = n]
          /\ alloc' = alloc \cup {c}
    /\ UNCHANGED tail

\* Link a calloc'd cell behind `last` and give it the new object.
LinkNew(last, n) ==
    \E c \in Cell \ alloc :
        /\ next' = [next EXCEPT ![last] = c, ![c] = Null]
        /\ node' = [node EXCEPT ![c] = n]
        /\ tail' = c
        /\ alloc' = alloc \cup {c}

\* append_node
AppendNode(n) ==
    /\ Callable
    /\ \A c \in Place : node[c] # n          \* onNodeAlloc: a new object
    /\ LET last == IF tail = Null THEN This ELSE tail
       IN  /\ \/ /\ node[last] = Null
                 /\ node' = [node EXCEPT ![last] = n]
                 /\ tail' = last
                 /\ UNCHANGED <<next, alloc>>
              \/ /\ node[last] # Null
                 /\ LinkNew(last, n)
           /\ size' = size + 1
           /\ Verdict({last} \cup VerifyReads, VerifyTail /\ VerifyTail')
    /\ UNCHANGED frames

\* find_or_add of an object the list does not hold, size > 0: the new cell is
\* linked behind `tail`, but the walk found the end by itself.
FindOrAddMiss(n) ==
    /\ Callable
    /\ size > 0
    /\ \A c \in Place : node[c] # n
    /\ LinkNew(tail, n)
    /\ size' = size + 1
    /\ Verdict(ToSet(Chain) \cup VerifyReads,
               VerifyTail /\ tail = Last(Chain) /\ VerifyTail')
    /\ UNCHANGED frames

\* find_node, and find_or_add of an object that is there: nothing changes, but
\* the walk reads the cells up to the hit and the assertions are evaluated.
Lookup(n) ==
    /\ Callable
    /\ Position(n) # 0
    /\ Verdict(Visited(Position(n)) \cup VerifyReads, VerifyTail)
    /\ UNCHANGED <<next, node, tail, size, alloc, frames>>

\* Mutant of Removing: tail stays on a last cell that goes.
RemovingKeepsTail(i) ==
    /\ frames' = Append(frames,
         IF i = 1 THEN [kind |-> "start", n |-> node[This]]
         ELSE [kind |-> "mid", n |-> node[Chain[i]], before |-> Chain[i - 1],
               found |-> Chain[i], link |-> next[Chain[i]]])
    /\ UNCHANGED tail

\* remove_node of the cell at index i, up to the point where ~T() runs.
Removing(i) ==
    LET found == Chain[i]
    IN  \/ /\ found = This                   \* remove_node_from_start
           /\ frames' = Append(frames, [kind |-> "start", n |-> node[found]])
           /\ UNCHANGED tail
        \/ /\ found # This
           /\ tail' = IF tail = found THEN Chain[i - 1] ELSE tail
           /\ frames' = Append(frames,
                  [kind |-> "mid", n |-> node[found], before |-> Chain[i - 1],
                   found |-> found, link |-> next[found]])

\* find_node, then remove_node.  A destructor does not remove the object it is
\* destroying.
BeginRemove(n) ==
    /\ Callable
    /\ Position(n) # 0
    /\ n \notin BeingDestroyed
    /\ Verdict(Visited(Position(n)) \cup VerifyReads, VerifyTail)
    /\ Removing(Position(n))
    /\ UNCHANGED <<next, node, size, alloc>>

\* remove_all, also of ~SA__LinkedList, begins.
BeginRemoveAll ==
    /\ status = "ok" /\ frames = <<>>
    /\ frames' = <<[kind |-> "all"]>>
    /\ Verdict(VerifyReads, VerifyTail)
    /\ UNCHANGED <<next, node, tail, size, alloc>>

\* PTR_LL::remove_all_pointers_except begins.
BeginRemoveAllExcept(keep) ==
    /\ status = "ok" /\ frames = <<>> /\ size # 0
    /\ frames' = <<[kind |-> "except", keep |-> keep]>>
    /\ UNCHANGED <<next, node, tail, size, alloc, status>>

\* A loop takes its next node; what destructors add on the way goes as well.
RemoveNext ==
    /\ status = "ok" /\ frames # <<>>
    /\ \/ /\ Last(frames).kind = "all" /\ size # 0
          /\ Verdict(VerifyReads, VerifyTail)
          /\ Removing(1)
       \/ /\ Last(frames).kind = "except"
          /\ LET i == PositionOf(Object \ {Last(frames).keep})
             IN  /\ i # 0
                 /\ Verdict(Visited(i) \cup VerifyReads, VerifyTail)
                 /\ Removing(i)
    /\ UNCHANGED <<next, node, size, alloc>>

\* It ends when there is none left.
RemovedAll ==
    /\ status = "ok" /\ frames # <<>>
    /\ \/ Last(frames).kind = "all" /\ size = 0 /\ UNCHANGED status
       \/ /\ Last(frames).kind = "except"
          /\ PositionOf(Object \ {Last(frames).keep}) = 0
          /\ Verdict(ToSet(Chain) \cup VerifyReads, VerifyTail)
    /\ frames' = Front(frames)
    /\ UNCHANGED <<next, node, tail, size, alloc>>

\* The innermost removal ends: it used the cells of `reads` and freed the
\* object it found in `cell`, which must still be the one it destroyed.
Freed(cell, reads) ==
    /\ IF node[cell] = Last(frames).n /\ VerifyReads' \subseteq alloc' \cup {This}
         THEN Verdict(reads, VerifyTail')
         ELSE status' = "corrupt"
    /\ frames' = Front(frames)

Ending(kind) == status = "ok" /\ frames # <<>> /\ Last(frames).kind = kind

\* Move the second cell's content into the list object and free that cell.
UnlinkFirst ==
    \/ /\ next[This] # Null
       /\ LET old == next[This]
          IN  /\ node' = [node EXCEPT ![This] = node[old], ![old] = Null]
              /\ next' = [next EXCEPT ![This] = next[old], ![old] = Null]
              /\ tail' = IF tail = old THEN This ELSE tail
              /\ alloc' = alloc \ {old}
    \/ /\ next[This] = Null
       /\ node' = [node EXCEPT ![This] = Null]
       /\ tail' = Null
       /\ UNCHANGED <<next, alloc>>

\* remove_node_from_start after ~T(): free the object and take the cell out.
EndRemoveStart ==
    /\ Ending("start")
    /\ UnlinkFirst
    /\ size' = size - 1
    /\ Freed(This, {next[This]} \ {Null})

\* Mutant of EndRemoveMid: the cells behind the removed one are lost.
EndRemoveMidCuts ==
    /\ Ending("mid")
    /\ size' = size - 1
    /\ UNCHANGED tail
    /\ LET f == Last(frames)
       IN  /\ node' = [node EXCEPT ![f.found] = Null]
           /\ next' = [next EXCEPT ![f.before] = Null]
           /\ alloc' = alloc \ {f.found}
           /\ Freed(f.found, {f.found, f.before})

\* remove_node after ~T(): free the object and the cell, and link over it with
\* the next field read before ~T() ran.
EndRemoveMid ==
    /\ Ending("mid")
    /\ size' = size - 1
    /\ UNCHANGED tail
    /\ LET f == Last(frames)
       IN  /\ node' = [node EXCEPT ![f.found] = Null]
           /\ next' = [next EXCEPT ![f.before] = f.link]
           /\ alloc' = alloc \ {f.found}
           /\ Freed(f.found, {f.found, f.before})

Next ==
    \/ \E n \in Object : \/ AppendNode(n)
                         \/ FindOrAddMiss(n)
                         \/ Lookup(n)
                         \/ BeginRemove(n)
                         \/ BeginRemoveAllExcept(n)
    \/ BeginRemoveAll \/ RemoveNext \/ RemovedAll
    \/ EndRemoveStart \/ EndRemoveMid

Spec == Init /\ [][Next]_vars
=============================================================================
