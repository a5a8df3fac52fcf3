--------------------------- MODULE MCSALinkedList ---------------------------
(***************************************************************************)
(* SALinkedList for TLC, with its properties: the list implements the      *)
(* abstract sequence, its assertions hold, and no cell leaks.              *)
(***************************************************************************)
EXTENDS SALinkedList

\* The objects along the chain, oldest first: an object stays until EndRemove
\* has unlinked it.
Items == SelectSeq([i \in DOMAIN Chain |-> node[Chain[i]]],
                   LAMBDA x : x # Null)

Abstract == INSTANCE SAObjectList WITH items <- Items

\* Refinement: whatever sequence of calls is made, the linked cells hold the
\* sequence of objects the callers asked for -- nothing lost, nothing twice,
\* the order kept, also when a removal moves the second node's content into
\* the list object (remove_node_from_start).
ImplementsSequence == Abstract!Spec

\* The list never aborts its program: the assertions that verify_tail and find_or_add
\* make hold (SA.h:205-215, 242, 265).  No freed cell is read or freed again, and the
\* object a removal frees is the one whose destructor it ran (dealloc reads its pointer
\* again after the destructor, SA.h:191-193).  Between calls the calloc'd cells are
\* exactly the cells that can be walked to, one per object beyond the first, and size
\* counts the objects: no cell leaks and none is linked twice.
ListSound ==
    /\ TypeOK
    /\ status \notin {"aborted", "corrupt"}
    /\ frames = <<>> /\ status = "ok" =>
        /\ ToSet(Chain) \ {This} = alloc
        /\ Len(Items) = size
        /\ Cardinality(alloc) = (IF size = 0 THEN 0 ELSE size - 1)
        /\ next[Last(Chain)] = Null
=============================================================================
