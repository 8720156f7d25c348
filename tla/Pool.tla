-------------------------------- MODULE Pool --------------------------------
(***************************************************************************)
(* The allocator of src/pool.hpp: N slots, and one bit per slot packed into *)
(* words.  A word is the set of the positions of its set bits, counted from *)
(* the right; WordBits is 64 in the code and eight times TableBits, the     *)
(* width of the table that ends the search for a bit.                       *)
(***************************************************************************)
EXTENDS Integers, FiniteSets

CONSTANTS
    N,              \* the template parameter of Pool
    TableBits,      \* the table of find_first_set_bit has 2^TableBits entries (8)
    Addresses,      \* the addresses callers pass to deallocate(), as slot numbers
    NULL            \* nullptr

WordBits == 8 * TableBits

ASSUME PoolAssumption ==
    /\ N \in Nat \ {0}
    /\ TableBits \in Nat \ {0}
    /\ Addresses \subseteq Int
    /\ NULL \notin Int

VARIABLES
    num_allocated,
    used,           \* the words
    ret             \* what the last call returned; NULL also when it returns nothing

vars == <<num_allocated, used, ret>>

Slots == 0 .. N - 1
NUM_BITSETS == (N + WordBits - 1) \div WordBits
Words == 0 .. NUM_BITSETS - 1
Bits == 0 .. WordBits - 1

Init ==
    /\ num_allocated = 0
    /\ used = [i \in Words |-> {}]
    /\ ret = NULL

-----------------------------------------------------------------------------
Rightmost(bits) == {b \in bits : \A c \in bits : b <= c}

ShiftRight(bits, n) == {b - n : b \in {c \in bits : c >= n}}

\* A search in progress: the bits it looks at, "index" bits from the right.
\* If there are any in the upper part, the lower n bits are skipped.
Narrowed(s, n) ==
    LET temp == ShiftRight(s.bits, n)
    IN  IF temp # {} THEN [index |-> s.index + n, bits |-> temp] ELSE s

\* The table: the logarithm of a power of two, and zero anywhere else.
Logarithm(bits) ==
    IF \E b \in 0 .. TableBits - 1 : bits = {b}
    THEN CHOOSE b \in 0 .. TableBits - 1 : bits = {b} ELSE 0

\* Mutant of find_first_set_bit: the upper half is never looked at.
find_in_lower_half(bits) ==
    IF bits = {} THEN -1
    ELSE LET start == [index |-> 0, bits |-> Rightmost(bits)]
             last  == Narrowed(Narrowed(start, 2 * TableBits), TableBits)
         IN  last.index + Logarithm(last.bits)

find_first_set_bit(bits) ==
    IF bits = {} THEN -1
    ELSE LET start == [index |-> 0, bits |-> Rightmost(bits)]
             last  == Narrowed(Narrowed(Narrowed(start, 4 * TableBits),
                                        2 * TableBits), TableBits)
         IN  last.index + Logarithm(last.bits)

Word(index) == index \div WordBits
Bit(index) == index % WordBits

\* set_bit(index, val)
WithBit(index, val) ==
    [used EXCEPT ![Word(index)] = IF val THEN @ \cup {Bit(index)} ELSE @ \ {Bit(index)}]

get_bit(index) == Bit(index) \in used[Word(index)]

owned(addr) == addr \in Slots

allocated(addr) == owned(addr) /\ get_bit(addr)

have_free_space == num_allocated < N

\* The slot find_not_allocated() stops at: the first zero bit of the first word
\* that has one.
FoundSlots ==
    {i * WordBits + find_first_set_bit(Bits \ used[i]) :
        i \in {w \in Words : used[w] # Bits /\ \A h \in 0 .. w - 1 : used[h] = Bits}}

-----------------------------------------------------------------------------
Allocate ==
    \/ /\ num_allocated = N
       /\ ret' = NULL
       /\ UNCHANGED <<num_allocated, used>>
    \/ /\ num_allocated # N
       /\ \E addr \in FoundSlots :
             used' = WithBit(addr, TRUE) /\ ret' = addr
       /\ num_allocated' = num_allocated + 1

\* Mutant of Deallocate: an address is not checked for being allocated.
DeallocateAnyway(addr) ==
    /\ ret' = NULL
    /\ IF owned(addr)
       THEN num_allocated' = num_allocated - 1 /\ used' = WithBit(addr, FALSE)
       ELSE UNCHANGED <<num_allocated, used>>

Deallocate(addr) ==
    /\ ret' = NULL
    /\ IF allocated(addr)
       THEN num_allocated' = num_allocated - 1 /\ used' = WithBit(addr, FALSE)
       ELSE UNCHANGED <<num_allocated, used>>

Allocated == {s \in Slots : allocated(s)}

\* ~Pool(): whatever is allocated is deallocated.
Destroy ==
    /\ num_allocated' = num_allocated - Cardinality(Allocated)
    /\ used' = [i \in Words |-> {b \in used[i] : i * WordBits + b \notin Slots}]
    /\ ret' = NULL

Next == Allocate \/ Destroy \/ \E addr \in Addresses : Deallocate(addr)

Spec == Init /\ [][Next]_vars

-----------------------------------------------------------------------------
TypeOK ==
    /\ num_allocated \in 0 .. N
    /\ used \in [Words -> SUBSET Bits]
    /\ ret \in Slots \cup {NULL}

\* After any sequence of calls, freed twice or never allocated included, the
\* count is the number of set bits, none of which belongs to the unused part of
\* the last word.
CountMatchesBits ==
    /\ num_allocated = Cardinality(Allocated)
    /\ \A i \in Words : \A b \in used[i] : i * WordBits + b \in Slots

\* As long as the count says there is room, the walk over the words ends before
\* the array does, at a slot that exists and is free (the assertions of
\* pool.hpp:120 and pool.hpp:123, and that of set_bit).
RoomIsFound ==
    have_free_space =>
        \E addr \in FoundSlots : addr \in Slots /\ ~allocated(addr)

\* The words, the search for a bit and the count implement a set of slots, of
\* which the lowest free one is given out.
Abstract == INSTANCE SlotSet WITH inUse <- Allocated

ImplementsSlotSet == Abstract!Spec
=============================================================================
