-------------------------------- MODULE Fifo --------------------------------
(***************************************************************************)
(* The candidate queue of src/queue.hpp as its callers see it: a bounded   *)
(* sequence of pointers, oldest first.  The operators say what each method *)
(* does to that sequence; BoundedFifo makes a specification of them and    *)
(* Queue holds the ring buffer that implements it.                         *)
(***************************************************************************)
EXTENDS Integers, Sequences

CONSTANTS
    Size,       \* the template parameter N of Queue<T, N>
    NULL        \* T(), what an emptied slot holds

\* Mutant of Pushed: the item goes to the wrong end.
PushedInFront(s, x) == IF Len(s) = Size THEN s ELSE <<x>> \o s

\* push() drops the item when the queue is full, and says so.
Pushed(s, x) == IF Len(s) = Size THEN s ELSE Append(s, x)

\* Mutant of Popped: pop(item) forgets to call pop().
OnlyRead(s) == s

\* pop(item) hands out Head(s).
Popped(s) == Tail(s)

Occurs(s, x) == \E i \in 1 .. Len(s) : s[i] = x

FirstIndex(s, x) == CHOOSE i \in 1 .. Len(s) : s[i] = x /\ \A j \in 1 .. i-1 : s[j] # x

\* What remove() does: the items behind the occurrence move up, the slot of
\* the last one is reset, and "used" stays what it was, so that the queue is as
\* long as before; its comment promises that the occurrence is removed.
Shifted(s, x) ==
    IF ~Occurs(s, x) THEN s
    ELSE LET k == FirstIndex(s, x)
         IN  [i \in 1 .. Len(s) |-> IF i = Len(s) THEN NULL
                                    ELSE IF i < k THEN s[i] ELSE s[i+1]]
=============================================================================
