---------------------------- MODULE ListSequence ----------------------------
(***************************************************************************)
(* What utils_list.h promises: a list is a sequence of values.  A value is *)
(* pushed to its end and popped from its head; a traversal hands out one   *)
(* value after the other, from either end, and the value in hand may be    *)
(* removed, and others pushed, before the traversal goes on.               *)
(***************************************************************************)
EXTENDS Integers, Sequences, SequencesExt

CONSTANTS Vals, MaxLen

VARIABLES
    items,          \* the values, the head first
    step,           \* of a traversal from the head 1, from the tail -1, else 0
    hand, turn      \* where the value in hand is and the one that comes next, 0 for none

vars == <<items, step, hand, turn>>

Beside(i) == IF i + step \in DOMAIN items THEN i + step ELSE 0

Init == items = <<>> /\ step = 0 /\ hand = 0 /\ turn = 0

Push(v) ==
    /\ Len(items) < MaxLen
    /\ items' = Append(items, v)
    /\ UNCHANGED <<step, hand, turn>>

Pop ==
    /\ step = 0
    /\ items # <<>>
    /\ items' = Tail(items)
    /\ UNCHANGED <<step, hand, turn>>

\* A traversal may have only the value it has in hand removed under it.
Delete(i) ==
    /\ step # 0 => i = hand
    /\ items' = RemoveAt(items, i)
    /\ hand' = 0
    /\ turn' = IF turn > i THEN turn - 1 ELSE turn
    /\ UNCHANGED step

Clear == step = 0 /\ items' = <<>> /\ UNCHANGED <<step, hand, turn>>

Traverse ==
    /\ step = 0
    /\ items # <<>>
    /\ step' \in {1, -1}
    /\ turn' = IF step' = 1 THEN 1 ELSE Len(items)
    /\ UNCHANGED <<items, hand>>

HandOut ==
    /\ step # 0
    /\ hand' = turn
    /\ turn # 0
    /\ turn' = Beside(turn)
    /\ UNCHANGED <<items, step>>

\* At the end, or before it when the handle asks for that.
Leave ==
    /\ step # 0
    /\ step' = 0 /\ hand' = 0 /\ turn' = 0
    /\ UNCHANGED items

\* The handle has returned.
Return == hand' = 0 /\ UNCHANGED <<items, step, turn>>

Next ==
    \/ Pop \/ Clear \/ Traverse \/ HandOut \/ Leave \/ Return
    \/ \E v \in Vals : Push(v)
    \/ \E i \in DOMAIN items : Delete(i)

Spec == Init /\ [][Next]_vars
===============================================================================
