-------------------------------- MODULE Queue --------------------------------
(***************************************************************************)
(* The ring buffer of src/queue.hpp: "used" items starting at "head" in an *)
(* array that wraps around.                                                *)
(***************************************************************************)
EXTENDS Fifo

CONSTANT Item           \* the values of T that are pushed

ASSUME QueueAssumption ==
    /\ Size \in Nat \ {0}
    /\ NULL \notin Item

VARIABLES head, used, items

vars == <<head, used, items>>

Slot == 0 .. Size - 1

\* Mutant of At: counted from the slot behind the head.
AtNext(i) == (head + i + 1) % Size

\* The slot of the i-th item from the head, counted from 0.
At(i) == (head + i) % Size

\* The array of pointers is not initialized; no slot is read before it has been
\* written, so NULL stands for what is in it.
Init ==
    /\ head = 0
    /\ used = 0
    /\ items = [k \in Slot |-> NULL]

\* push(): a full queue returns false, which is no step.
Push(x) ==
    /\ used # Size
    /\ items' = [items EXCEPT ![At(used)] = x]
    /\ used' = used + 1
    /\ UNCHANGED head

\* Mutant of Pop: the head does not wrap around.
PopStraightOn ==
    /\ used # 0
    /\ items' = [items EXCEPT ![head] = NULL]
    /\ head' = head + 1
    /\ used' = used - 1

\* Mutant of Pop: the slot is not reset.
PopLeavingItem ==
    /\ used # 0
    /\ head' = (head + 1) % Size
    /\ used' = used - 1
    /\ UNCHANGED items

\* pop() and pop(item): the slot is reset behind the item.
Pop ==
    /\ used # 0
    /\ items' = [items EXCEPT ![head] = NULL]
    /\ head' = (head + 1) % Size
    /\ used' = used - 1

Found(x) == {i \in 0 .. used - 1 : items[At(i)] = x}

\* remove(item): everything behind the first occurrence moves up by one.
Remove(x) ==
    /\ Found(x) # {}
    /\ LET first == CHOOSE i \in Found(x) : \A j \in Found(x) : i <= j
           moved == [k \in Slot |->
                        IF \E i \in first .. used - 2 : k = At(i)
                        THEN items[(k + 1) % Size] ELSE items[k]]
       IN  items' = [moved EXCEPT ![At(used - 1)] = NULL]
    /\ UNCHANGED <<head, used>>

Next == Pop \/ \E x \in Item : Push(x) \/ Remove(x)

Spec == Init /\ [][Next]_vars

-----------------------------------------------------------------------------
TypeOK ==
    /\ head \in Slot
    /\ used \in 0 .. Size
    /\ items \in [Slot -> Item \cup {NULL}]

\* The queue as its callers see it.
Contents == [i \in 1 .. used |-> items[At(i - 1)]]

\* However often the queue has wrapped around, a slot that holds an item is one
\* of the "used" slots behind the head: popped or removed, a pointer is gone
\* from the array.
NothingLeftBehind ==
    \A k \in Slot : items[k] # NULL => \E i \in 0 .. used - 1 : k = At(i)

\* Over any number of turns around the array, push() and pop() are those of a
\* bounded FIFO queue, and remove() closes the gap it makes and leaves an empty
\* slot at the tail.
Abstract == INSTANCE BoundedFifo WITH q <- Contents

FifoButForRemove ==
    /\ Abstract!Init
    /\ [][Abstract!Next \/ \E x \in Item : Contents' = Shifted(Contents, x)]_vars
=============================================================================
