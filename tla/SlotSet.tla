------------------------------- MODULE SlotSet -------------------------------
(***************************************************************************)
(* What a pool of N slots promises: allocate() gives the lowest slot that   *)
(* is free, deallocate() frees a slot that is allocated and ignores any     *)
(* other address.  "inUse" is the set of the slots in use, "ret" what the   *)
(* last call returned.                                                      *)
(***************************************************************************)
EXTENDS Integers

CONSTANTS
    N,
    Addresses,      \* what may be passed to deallocate()
    NULL

VARIABLES inUse, ret

Slots == 0 .. N - 1

Init == inUse = {} /\ ret = NULL

Lowest(free) == {s \in free : \A t \in free : s <= t}

Allocate ==
    \/ \E s \in Lowest(Slots \ inUse) :
          inUse' = inUse \cup {s} /\ ret' = s
    \/ inUse = Slots /\ ret' = NULL /\ UNCHANGED inUse

Deallocate == \E a \in Addresses : inUse' = inUse \ {a} /\ ret' = NULL

Destroy == inUse' = {} /\ ret' = NULL

Next == Allocate \/ Deallocate \/ Destroy

Spec == Init /\ [][Next]_<<inUse, ret>>
=============================================================================
