----------------------------- MODULE BoundedFifo -----------------------------
(***************************************************************************)
(* A bounded first-in first-out queue: what the server needs of its        *)
(* candidate queue.                                                        *)
(***************************************************************************)
EXTENDS Fifo

CONSTANT Item
VARIABLE q

Init == q = <<>>

Push(x) == Len(q) < Size /\ q' = Append(q, x)
Pop     == q # <<>> /\ q' = Tail(q)

Next == Pop \/ \E x \in Item : Push(x)

Spec == Init /\ [][Next]_q
=============================================================================
