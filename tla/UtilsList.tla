------------------------------ MODULE UtilsList ------------------------------
(***************************************************************************)
(* The doubly linked list: its nodes, the pointers between them and the    *)
(* traversal that calls a handle for each node.  The list's lock keeps the *)
(* operations apart; it is recursive, so that a handle may push to the     *)
(* list and remove the node it was called for.                             *)
(***************************************************************************)
EXTENDS Integers, Sequences

CONSTANTS
    Nodes,          \* addresses a node can have
    Vals,           \* what is kept in the list
    MaxLen,         \* max_len
    NULL

VARIABLES
    exists,         \* the list has been created, and not been destroyed
    heap,           \* the node at each address, also the last one freed
    allocated,      \* the addresses that are in use
    list,           \* head, tail, len
    iterator        \* direction, next, the node in hand; pc tells what runs

vars == <<exists, heap, allocated, list, iterator>>

Idle == [direction |-> "LIST_HEAD", next |-> NULL, node |-> NULL, pc |-> "idle"]

Init ==
    /\ exists = FALSE
    /\ heap = [n \in Nodes |-> [prev |-> NULL, next |-> NULL, val |-> NULL]]
    /\ allocated = {}
    /\ list = [head |-> NULL, tail |-> NULL, len |-> 0]
    /\ iterator = Idle

-------------------------------------------------------------------------------
\* utils_list_create, when the memory and the lock can be had; else there is no list.
Create ==
    /\ ~exists
    /\ exists' = TRUE
    /\ list' = [head |-> NULL, tail |-> NULL, len |-> 0]
    /\ UNCHANGED <<heap, allocated, iterator>>

\* The lock is free, or it is the handle that calls.
Callable == exists /\ iterator.pc \in {"idle", "handle"}

\* utils_list_push.
Push(v, n) ==
    /\ Callable
    /\ list.len < MaxLen
    /\ n \notin allocated
    /\ allocated' = allocated \cup {n}
    /\ heap' = [m \in Nodes |->
                   IF m = n
                   THEN [prev |-> IF list.len > 0 THEN list.tail ELSE NULL, next |-> NULL, val |-> v]
                   ELSE IF list.len > 0 /\ m = list.tail THEN [heap[m] EXCEPT !.next = n] ELSE heap[m]]
    /\ list' = [head |-> IF list.len > 0 THEN list.head ELSE n, tail |-> n, len |-> list.len + 1]
    /\ UNCHANGED <<exists, iterator>>

\* utils_list_pop.
Pop ==
    /\ exists /\ iterator.pc = "idle"
    /\ list.len > 0
    /\ LET n == list.head
           h == IF list.len > 1 THEN heap[n].next ELSE NULL
       IN  /\ list' = [head |-> h, tail |-> IF h = NULL THEN NULL ELSE list.tail, len |-> list.len - 1]
           /\ heap' = [m \in Nodes |-> IF m = n THEN [heap[m] EXCEPT !.prev = NULL, !.next = NULL]
                                       ELSE IF m = h THEN [heap[m] EXCEPT !.prev = NULL]
                                       ELSE heap[m]]
           /\ allocated' = allocated \ {n}
    /\ UNCHANGED <<exists, iterator>>

\* The pointers to a node are made to point past it.
Unlinked(n) ==
    [list EXCEPT !.head = IF heap[n].prev = NULL THEN heap[n].next ELSE @,
                 !.tail = IF heap[n].next = NULL THEN heap[n].prev ELSE @]

\* _list_remove: of any node while nothing is traversed (utils_list_remove), and of the
\* node in hand by its handle.
ListRemove(n) ==
    /\ Callable
    /\ n \in allocated
    /\ iterator.pc = "handle" => n = iterator.node
    /\ heap' = [m \in Nodes |->
                   [heap[m] EXCEPT !.next = IF m = heap[n].prev THEN heap[n].next ELSE @,
                                   !.prev = IF m = heap[n].next THEN heap[n].prev ELSE @]]
    /\ list' = [Unlinked(n) EXCEPT !.len = IF @ > 0 THEN @ - 1 ELSE @]
    /\ allocated' = allocated \ {n}
    /\ iterator' = [iterator EXCEPT !.node = NULL]
    /\ UNCHANGED exists

\* The nodes in their order, the head first: as many as the length has it.
Chain ==
    CHOOSE chain \in [1..list.len -> Nodes \cup {NULL}] :
        \A k \in 1..list.len :
            chain[k] = IF k = 1 THEN list.head
                       ELSE IF chain[k - 1] = NULL THEN NULL ELSE heap[chain[k - 1]].next

\* utils_list_destroy.
Destroy ==
    /\ exists /\ iterator.pc = "idle"
    /\ exists' = FALSE
    /\ allocated' = allocated \ {Chain[k] : k \in DOMAIN Chain}
    /\ list' = [head |-> NULL, tail |-> NULL, len |-> 0]
    /\ UNCHANGED <<heap, iterator>>

\* utils_list_process: before the first node, before each, and after the handle.
Process(direction) ==
    /\ exists /\ iterator.pc = "idle"
    /\ list.len > 0
    /\ iterator' = [Idle EXCEPT !.direction = direction,
                                !.next = IF direction = "LIST_HEAD" THEN list.head ELSE list.tail,
                                !.pc = "while"]
    /\ UNCHANGED <<exists, heap, allocated, list>>

NextOf_Head(n) == heap[n].next
NextOf(n)      == IF iterator.direction = "LIST_HEAD" THEN heap[n].next ELSE heap[n].prev

CallHandle ==
    /\ iterator.pc = "while"
    /\ iterator.next # NULL
    /\ iterator' = [iterator EXCEPT !.node = iterator.next,
                                    !.next = NextOf(iterator.next), !.pc = "handle"]
    /\ UNCHANGED <<exists, heap, allocated, list>>

HandleReturns(rc) ==
    /\ iterator.pc = "handle"
    /\ iterator' = IF rc = "LIST_TRAVERSE_BREAK" THEN Idle
                   ELSE [iterator EXCEPT !.node = NULL, !.pc = "while"]
    /\ UNCHANGED <<exists, heap, allocated, list>>

ProcessEnds ==
    /\ iterator.pc = "while"
    /\ iterator.next = NULL
    /\ iterator' = Idle
    /\ UNCHANGED <<exists, heap, allocated, list>>

Next ==
    \/ Create \/ Pop \/ Destroy \/ CallHandle \/ ProcessEnds
    \/ \E n \in Nodes : ListRemove(n) \/ \E v \in Vals : Push(v, n)
    \/ \E direction \in {"LIST_HEAD", "LIST_TAIL"} : Process(direction)
    \/ \E rc \in {"LIST_TRAVERSE_CONTINUE", "LIST_TRAVERSE_BREAK"} : HandleReturns(rc)

Spec == Init /\ [][Next]_vars

-------------------------------------------------------------------------------
(* Properties. *)

\* Where a node is in the list, 0 for none.
Place(n) == IF n \in {Chain[k] : k \in DOMAIN Chain}
            THEN CHOOSE k \in DOMAIN Chain : Chain[k] = n ELSE 0

\* The nodes in use are those of the chain, which runs back as it runs forth: none is
\* lost, none is in it after it was freed, and a traversal stands on one or at its end.
ChainHolds ==
    /\ {Chain[k] : k \in DOMAIN Chain} = allocated
    /\ \A k \in DOMAIN Chain :
           /\ heap[Chain[k]].prev = IF k = 1 THEN NULL ELSE Chain[k - 1]
           /\ heap[Chain[k]].next = IF k = list.len THEN NULL ELSE Chain[k + 1]
    /\ list.len > 0 => list.tail = Chain[list.len]
    /\ iterator.next \in allocated \cup {NULL}

\* The list is the sequence utils_list.h promises, also under a traversal.
Promised == INSTANCE ListSequence WITH
    items <- [k \in DOMAIN Chain |-> IF Chain[k] = NULL THEN NULL ELSE heap[Chain[k]].val],
    step  <- IF iterator.pc = "idle" THEN 0 ELSE IF iterator.direction = "LIST_HEAD" THEN 1 ELSE -1,
    hand  <- Place(iterator.node),
    turn  <- Place(iterator.next)
IsSequence == Promised!Spec
===============================================================================
