------------------------------ MODULE PoolProofs ------------------------------
(***************************************************************************)
(* Proofs about Pool, for any number of slots and any width of the words:   *)
(* the search for a bit finds the first one, the count agrees with the bits, *)
(* and the pool implements SlotSet.                                          *)
(***************************************************************************)
EXTENDS Pool, FiniteSetTheorems, WellFoundedInduction, TLAPS

-----------------------------------------------------------------------------
(* Arithmetic of words and bits.                                            *)

LEMMA WordBitsPositive == WordBits \in Nat /\ WordBits >= 8
  BY PoolAssumption, SMT DEF WordBits

\* Every number divides into a quotient and a remainder.
LEMMA Division ==
  ASSUME NEW x \in Nat, NEW w \in Nat, w > 0
  PROVE  /\ x \div w \in Nat
         /\ x % w \in 0 .. w - 1
         /\ x = (x \div w) * w + (x % w)
  BY SMT

\* A larger quotient outweighs any remainder.
LEMMA QuotientsOrder ==
  ASSUME NEW i \in Nat, NEW j \in Nat, NEW w \in Nat, NEW b \in 0 .. w - 1,
         NEW c \in 0 .. w - 1, i < j
  PROVE  i * w + b < j * w + c
<1>1. (j - i) * w >= w
  BY SMT
<1>2. (j - i) * w = j * w - i * w
  BY SMT
<1>3. i * w \in Int /\ j * w \in Int
  BY SMT
<1> QED
  BY <1>1, <1>2, <1>3, SMT

LEMMA UniqueDivision ==
  ASSUME NEW i \in Nat, NEW j \in Nat, NEW w \in Nat, NEW b \in 0 .. w - 1,
         NEW c \in 0 .. w - 1, i * w + b = j * w + c
  PROVE  i = j /\ b = c
<1>1. ~ i < j
  BY QuotientsOrder, SMT
<1>2. ~ j < i
  BY QuotientsOrder, SMT
<1>3. i = j
  BY <1>1, <1>2, SMT
<1> QED
  BY <1>3, SMT

LEMMA WordCount ==
  /\ NUM_BITSETS \in Nat
  /\ N <= NUM_BITSETS * WordBits
<1> DEFINE w == WordBits
           x == N + w - 1
<1>1. w \in Nat /\ w > 0 /\ x \in Nat /\ N \in Nat
  BY WordBitsPositive, PoolAssumption, SMT
<1> HIDE DEF w
<1>2. /\ x \div w \in Nat
      /\ x % w \in 0 .. w - 1
      /\ x = (x \div w) * w + (x % w)
  BY <1>1, Division
<1>3. NUM_BITSETS = x \div w
  BY DEF NUM_BITSETS, w
<1>4. (x \div w) * w \in Int
  BY <1>1, <1>2, SMT
<1>5. N <= (x \div w) * w
  BY <1>1, <1>2, <1>4, SMT
<1> QED
  BY <1>2, <1>3, <1>5 DEF w

\* A slot number is a word and a bit of it.
LEMMA SlotSplit ==
  ASSUME NEW s \in Slots
  PROVE  /\ Word(s) \in Words
         /\ Bit(s) \in Bits
         /\ s = Word(s) * WordBits + Bit(s)
<1> DEFINE w == WordBits
           i == s \div w
<1>1. w \in Nat /\ w > 0 /\ s \in Nat /\ N \in Nat /\ s < N
  BY WordBitsPositive, PoolAssumption, SMT DEF Slots
<1>2. NUM_BITSETS \in Nat /\ N <= NUM_BITSETS * w
  BY WordCount
<1> HIDE DEF w
<1>3. i \in Nat /\ s % w \in 0 .. w - 1 /\ s = i * w + (s % w)
  BY <1>1, Division
<1>4. i < NUM_BITSETS
  <2> SUFFICES ASSUME NUM_BITSETS <= i PROVE FALSE
    BY <1>2, <1>3, SMT
  <2>1. (i - NUM_BITSETS) * w >= 0
    BY <1>1, <1>2, <1>3, SMT
  <2>2. (i - NUM_BITSETS) * w = i * w - NUM_BITSETS * w
    BY <1>1, <1>2, <1>3, SMT
  <2>3. i * w \in Int /\ NUM_BITSETS * w \in Int
    BY <1>1, <1>2, <1>3, SMT
  <2> QED
    BY <1>1, <1>2, <1>3, <2>1, <2>2, <2>3, SMT
<1>5. i \in Words
  BY <1>2, <1>3, <1>4, SMT DEF Words
<1> QED
  BY <1>3, <1>5 DEF Word, Bit, Bits, w

\* A word and a bit of it are a slot number when they denote a slot.
LEMMA SlotJoin ==
  ASSUME NEW i \in Words, NEW b \in Bits, i * WordBits + b \in Slots
  PROVE  Word(i * WordBits + b) = i /\ Bit(i * WordBits + b) = b
<1> DEFINE s == i * WordBits + b
<1>1. s \in Slots
  OBVIOUS
<1>2. /\ Word(s) \in Words
      /\ Bit(s) \in Bits
      /\ s = Word(s) * WordBits + Bit(s)
  BY <1>1, SlotSplit
<1>3. i \in Nat /\ Word(s) \in Nat
  BY <1>2, WordCount, SMT DEF Words
<1>4. i * WordBits + b = Word(s) * WordBits + Bit(s)
  BY <1>2
<1> HIDE DEF s
<1>5. i = Word(s) /\ b = Bit(s)
  BY <1>2, <1>3, <1>4, WordBitsPositive, UniqueDivision DEF Bits
<1> QED
  BY <1>5 DEF s

-----------------------------------------------------------------------------
(* The search for a bit.                                                    *)

\* A set of natural numbers that is not empty has a smallest element.
LEMMA Smallest ==
  ASSUME NEW T \in SUBSET Nat, T # {}
  PROVE  \E m \in T : \A k \in T : m <= k
<1> DEFINE R == OpToRel(<, Nat)
<1>1. IsWellFoundedOn(R, Nat)
  BY NatLessThanWellFounded
<1>2. PICK m \in T : \A k \in T : ~ (<<k, m>> \in R)
  <2> HIDE DEF R
  <2> QED
    BY <1>1, WFMin
<1>3. \A k \in T : ~ (k < m)
  BY <1>2 DEF OpToRel
<1>4. \A k \in T : m <= k
  BY <1>3, SMT
<1> QED
  BY <1>4

\* What a shift makes of a word with a single bit.
LEMMA ShiftOne ==
  ASSUME NEW b \in Nat, NEW n \in Nat
  PROVE  ShiftRight({b}, n) = IF b >= n THEN {b - n} ELSE {}
  BY SMT DEF ShiftRight

LEMMA NarrowOne ==
  ASSUME NEW k \in Nat, NEW b \in Nat, NEW n \in Nat
  PROVE  Narrowed([index |-> k, bits |-> {b}], n) =
            IF b >= n THEN [index |-> k + n, bits |-> {b - n}]
            ELSE [index |-> k, bits |-> {b}]
<1>1. ShiftRight({b}, n) = IF b >= n THEN {b - n} ELSE {}
  BY ShiftOne
<1>2. CASE b >= n
  BY <1>1, <1>2 DEF Narrowed
<1>3. CASE ~ (b >= n)
  BY <1>1, <1>3 DEF Narrowed
<1> QED
  BY <1>2, <1>3

LEMMA LogarithmOne ==
  ASSUME NEW b \in 0 .. TableBits - 1
  PROVE  Logarithm({b}) = b
<1>1. \E c \in 0 .. TableBits - 1 : {b} = {c}
  OBVIOUS
<1>2. \A c \in 0 .. TableBits - 1 : {b} = {c} => c = b
  OBVIOUS
<1>3. (CHOOSE c \in 0 .. TableBits - 1 : {b} = {c}) = b
  BY <1>1, <1>2
<1> QED
  BY <1>1, <1>3 DEF Logarithm

\* find_first_set_bit() returns the position of the lowest bit, whatever the
\* word: halves, quarters and table never lose it.
THEOREM FirstSetBit ==
  ASSUME NEW bits \in SUBSET Bits, bits # {}
  PROVE  /\ find_first_set_bit(bits) \in bits
         /\ \A c \in bits : find_first_set_bit(bits) <= c
<1>1. bits \in SUBSET Nat
  BY WordBitsPositive, SMT DEF Bits
<1>2. PICK b \in bits : \A c \in bits : b <= c
  BY <1>1, Smallest
<1>3. Rightmost(bits) = {b}
  <2>1. \A d \in Rightmost(bits) : d = b
    BY <1>1, <1>2, SMT DEF Rightmost
  <2>2. b \in Rightmost(bits)
    BY <1>2 DEF Rightmost
  <2> QED
    BY <2>1, <2>2
<1>4. b \in Nat /\ b < 8 * TableBits /\ TableBits \in Nat
  BY PoolAssumption, SMT DEF Bits, WordBits
<1> DEFINE T  == TableBits
           s0 == [index |-> 0, bits |-> Rightmost(bits)]
           s1 == Narrowed(s0, 4 * T)
           s2 == Narrowed(s1, 2 * T)
           s3 == Narrowed(s2, T)
<1>5. \E k \in Nat, c \in Nat :
          s1 = [index |-> k, bits |-> {c}] /\ k + c = b /\ c < 4 * T
  <2>1. s1 = IF b >= 4 * T THEN [index |-> 0 + 4 * T, bits |-> {b - 4 * T}]
             ELSE [index |-> 0, bits |-> {b}]
    BY <1>3, <1>4, NarrowOne
  <2>2. CASE b >= 4 * T
    <3>1. 4 * T \in Nat /\ b - 4 * T \in Nat
      BY <1>4, <2>2, SMT
    <3>2. 4 * T + (b - 4 * T) = b /\ b - 4 * T < 4 * T /\ 0 + 4 * T = 4 * T
      BY <1>4, SMT
    <3> QED BY <2>1, <2>2, <3>1, <3>2
  <2>3. CASE ~ (b >= 4 * T)
    <3>1. 0 \in Nat /\ b \in Nat /\ 0 + b = b /\ b < 4 * T
      BY <1>4, <2>3
    <3> QED BY <2>1, <2>3, <3>1
  <2> QED BY <2>2, <2>3
<1> HIDE DEF s1
<1>6. PICK k1 \in Nat, c1 \in Nat :
          s1 = [index |-> k1, bits |-> {c1}] /\ k1 + c1 = b /\ c1 < 4 * T
  BY <1>5
<1>7. \E k \in Nat, c \in Nat :
          s2 = [index |-> k, bits |-> {c}] /\ k + c = b /\ c < 2 * T
  <2>1. s2 = IF c1 >= 2 * T THEN [index |-> k1 + 2 * T, bits |-> {c1 - 2 * T}]
             ELSE [index |-> k1, bits |-> {c1}]
    BY <1>4, <1>6, NarrowOne
  <2>2. CASE c1 >= 2 * T
    <3>1. k1 + 2 * T \in Nat /\ c1 - 2 * T \in Nat
      BY <1>4, <1>6, <2>2, SMT
    <3>2. (k1 + 2 * T) + (c1 - 2 * T) = b /\ c1 - 2 * T < 2 * T
      BY <1>4, <1>6, SMT
    <3> QED BY <2>1, <2>2, <3>1, <3>2
  <2>3. CASE ~ (c1 >= 2 * T)
    <3>1. c1 < 2 * T
      BY <1>4, <2>3
    <3> QED BY <1>6, <2>1, <2>3, <3>1
  <2> QED BY <2>2, <2>3
<1> HIDE DEF s2
<1>8. PICK k2 \in Nat, c2 \in Nat :
          s2 = [index |-> k2, bits |-> {c2}] /\ k2 + c2 = b /\ c2 < 2 * T
  BY <1>7
<1>9. \E k \in Nat, c \in Nat :
          s3 = [index |-> k, bits |-> {c}] /\ k + c = b /\ c < T
  <2>1. s3 = IF c2 >= T THEN [index |-> k2 + T, bits |-> {c2 - T}]
             ELSE [index |-> k2, bits |-> {c2}]
    BY <1>4, <1>8, NarrowOne
  <2>2. CASE c2 >= T
    <3>1. k2 + T \in Nat /\ c2 - T \in Nat
      BY <1>4, <1>8, <2>2, SMT
    <3>2. (k2 + T) + (c2 - T) = b /\ c2 - T < T
      BY <1>4, <1>8, SMT
    <3> QED BY <2>1, <2>2, <3>1, <3>2
  <2>3. CASE ~ (c2 >= T)
    <3>1. c2 < T
      BY <1>4, <2>3
    <3> QED BY <1>8, <2>1, <2>3, <3>1
  <2> QED BY <2>2, <2>3
<1> HIDE DEF s3
<1>10. PICK k3 \in Nat, c3 \in Nat :
          s3 = [index |-> k3, bits |-> {c3}] /\ k3 + c3 = b /\ c3 < T
  BY <1>9
<1>11. find_first_set_bit(bits) = s3.index + Logarithm(s3.bits)
  BY DEF find_first_set_bit, s1, s2, s3
<1>12. Logarithm({c3}) = c3
  <2>1. c3 \in 0 .. TableBits - 1
    BY <1>4, <1>10
  <2> QED BY <2>1, LogarithmOne
<1>13. find_first_set_bit(bits) = b
  BY <1>10, <1>11, <1>12
<1> QED
  BY <1>2, <1>13
-----------------------------------------------------------------------------
(* The invariant.                                                           *)

Inv == TypeOK /\ CountMatchesBits

\* The slots in use, and what setting or clearing a bit does to them.
LEMMA SlotsFinite ==
  /\ IsFiniteSet(Slots)
  /\ Cardinality(Slots) = N
<1>1. N - 1 \in Int
  BY PoolAssumption, SMT
<1>2. IsFiniteSet(0 .. N - 1) /\ Cardinality(0 .. N - 1) = IF 0 > N - 1 THEN 0 ELSE N - 1 - 0 + 1
  BY <1>1, FS_Interval
<1> QED
  BY <1>2, PoolAssumption, SMT DEF Slots

LEMMA AllocatedFinite ==
  /\ IsFiniteSet(Allocated)
  /\ Cardinality(Allocated) \in Nat
  /\ Allocated # Slots => Cardinality(Allocated) < N
  /\ Allocated = Slots => Cardinality(Allocated) = N
<1>1. Allocated \in SUBSET Slots
  BY DEF Allocated
<1>2. /\ IsFiniteSet(Allocated)
      /\ Cardinality(Allocated) <= Cardinality(Slots)
      /\ Cardinality(Slots) = Cardinality(Allocated) => Slots = Allocated
  BY <1>1, SlotsFinite, FS_Subset
<1>3. Cardinality(Allocated) \in Nat
  BY <1>2, FS_CardinalityType
<1> QED
  BY <1>2, <1>3, SlotsFinite, PoolAssumption, SMT

LEMMA AllocatedMember ==
  ASSUME NEW s \in Slots
  PROVE  s \in Allocated <=> Bit(s) \in used[Word(s)]
  BY DEF Allocated, allocated, owned, get_bit

\* Setting or clearing the bit of a slot changes that slot and no other.
LEMMA WithBitAllocated ==
  ASSUME TypeOK, NEW addr \in Slots, NEW val \in BOOLEAN, used' = WithBit(addr, val)
  PROVE  /\ used' \in [Words -> SUBSET Bits]
         /\ Allocated' = IF val THEN Allocated \cup {addr} ELSE Allocated \ {addr}
         /\ \A i \in Words : \A b \in used'[i] :
                b \in used[i] \/ i * WordBits + b = addr
<1>1. /\ Word(addr) \in Words
      /\ Bit(addr) \in Bits
      /\ addr = Word(addr) * WordBits + Bit(addr)
  BY SlotSplit
<1>2. used \in [Words -> SUBSET Bits]
  BY DEF TypeOK
<1>3. used' \in [Words -> SUBSET Bits]
  BY <1>1, <1>2 DEF WithBit
<1>4. \A i \in Words : used'[i] = IF i # Word(addr) THEN used[i]
                                  ELSE IF val THEN used[i] \cup {Bit(addr)}
                                  ELSE used[i] \ {Bit(addr)}
  BY <1>1, <1>2 DEF WithBit
<1>5. ASSUME NEW s \in Slots
      PROVE  Bit(s) \in used'[Word(s)] <=>
                IF s = addr THEN val ELSE Bit(s) \in used[Word(s)]
  <2>1. /\ Word(s) \in Words
        /\ s = Word(s) * WordBits + Bit(s)
    BY SlotSplit
  <2>2. CASE s = addr
    BY <1>1, <1>4, <2>2
  <2>3. CASE s # addr
    <3>1. Word(s) # Word(addr) \/ Bit(s) # Bit(addr)
      BY <1>1, <2>1, <2>3
    <3>2. CASE Word(s) # Word(addr)
      BY <1>4, <2>1, <2>3, <3>2
    <3>3. CASE Word(s) = Word(addr) /\ Bit(s) # Bit(addr)
      <4>1. used'[Word(s)] = IF val THEN used[Word(s)] \cup {Bit(addr)}
                             ELSE used[Word(s)] \ {Bit(addr)}
        BY <1>4, <2>1, <3>3
      <4>2. Bit(s) \in used'[Word(s)] <=> Bit(s) \in used[Word(s)]
        BY <3>3, <4>1
      <4> QED BY <2>3, <4>2
    <3> QED BY <3>1, <3>2, <3>3
  <2> QED BY <2>2, <2>3
<1>6. \A s \in Slots : s \in Allocated' <=> Bit(s) \in used'[Word(s)]
  BY DEF Allocated, allocated, owned, get_bit, Word, Bit
<1>7. Allocated' \subseteq Slots /\ Allocated \subseteq Slots
  BY DEF Allocated
<1>8. Allocated' = IF val THEN Allocated \cup {addr} ELSE Allocated \ {addr}
  BY <1>5, <1>6, <1>7, AllocatedMember
<1>9. \A i \in Words : \A b \in used'[i] :
         b \in used[i] \/ i * WordBits + b = addr
  BY <1>1, <1>4
<1> QED
  BY <1>3, <1>8, <1>9

-----------------------------------------------------------------------------
(* The walk over the words.                                                 *)

FirstWords == {w \in Words : used[w] # Bits /\ \A h \in 0 .. w - 1 : used[h] = Bits}

\* The slot found is not above any slot that is free.
LEMMA FoundIsLowest ==
  ASSUME TypeOK, NEW addr \in FoundSlots
  PROVE  /\ addr \in Nat
         /\ \A t \in Slots \ Allocated : addr <= t
         /\ addr \in Slots => addr \notin Allocated
<1> DEFINE b(i) == find_first_set_bit(Bits \ used[i])
<1>1. PICK i \in FirstWords : addr = i * WordBits + b(i)
  BY DEF FoundSlots, FirstWords
<1>2. i \in Words /\ used[i] # Bits /\ \A h \in 0 .. i - 1 : used[h] = Bits
  BY <1>1 DEF FirstWords
<1>3. used[i] \in SUBSET Bits
  BY <1>2 DEF TypeOK
<1>4. Bits \ used[i] \in SUBSET Bits /\ Bits \ used[i] # {}
  BY <1>2, <1>3
<1>5. b(i) \in Bits \ used[i] /\ \A c \in Bits \ used[i] : b(i) <= c
  BY <1>4, FirstSetBit
<1> HIDE DEF b
<1>6. i \in Nat /\ i < NUM_BITSETS /\ NUM_BITSETS \in Nat
  BY <1>2, WordCount, SMT DEF Words
<1>7. i * WordBits \in Nat
  BY <1>6, WordBitsPositive, SMT
<1>8. b(i) \in Nat
  BY <1>5, WordBitsPositive, SMT DEF Bits
<1>9. addr \in Nat
  BY <1>1, <1>7, <1>8, SMT
<1>10. ASSUME NEW t \in Slots \ Allocated PROVE addr <= t
  <2>1. /\ Word(t) \in Words
        /\ Bit(t) \in Bits
        /\ t = Word(t) * WordBits + Bit(t)
    BY SlotSplit
  <2>2. Bit(t) \notin used[Word(t)]
    BY AllocatedMember
  <2>3. Word(t) \in Nat
    BY <2>1, WordCount, SMT DEF Words
  <2>4. ~ (Word(t) < i)
    <3> SUFFICES ASSUME Word(t) < i PROVE FALSE
      OBVIOUS
    <3>1. Word(t) \in 0 .. i - 1
      BY <1>6, <2>3, SMT
    <3> QED BY <1>2, <2>1, <2>2, <3>1
  <2>5. CASE Word(t) = i
    <3>1. b(i) <= Bit(t)
      BY <1>5, <2>1, <2>2, <2>5
    <3>2. Bit(t) \in Nat
      BY <2>1, WordBitsPositive, SMT DEF Bits
    <3> QED BY <1>1, <1>7, <1>8, <2>1, <2>5, <3>1, <3>2, SMT
  <2>6. CASE i < Word(t)
    <3>1. b(i) \in 0 .. WordBits - 1 /\ Bit(t) \in 0 .. WordBits - 1
      BY <1>5, <2>1 DEF Bits
    <3>2. i * WordBits + b(i) < Word(t) * WordBits + Bit(t)
      BY <1>6, <2>3, <2>6, <3>1, WordBitsPositive, QuotientsOrder
    <3>3. t \in Nat
      BY PoolAssumption, SMT DEF Slots
    <3> QED BY <1>1, <1>9, <2>1, <3>2, <3>3, SMT
  <2> QED BY <1>6, <2>3, <2>4, <2>5, <2>6, SMT
<1>11. ASSUME addr \in Slots PROVE addr \notin Allocated
  <2>1. Word(addr) = i /\ Bit(addr) = b(i)
    BY <1>1, <1>2, <1>5, <1>11, SlotJoin
  <2> QED BY <1>5, <1>11, <2>1, AllocatedMember
<1> QED
  BY <1>9, <1>10, <1>11

\* When the count leaves room, there is a slot to be found, and it is one of
\* the slots.
LEMMA FoundWhenRoom ==
  ASSUME Inv, num_allocated # N
  PROVE  /\ FoundSlots # {}
         /\ \A addr \in FoundSlots : addr \in Slots /\ addr \notin Allocated
<1>1. Allocated # Slots
  BY AllocatedFinite DEF Inv, CountMatchesBits
<1>2. PICK t \in Slots : t \notin Allocated
  BY <1>1 DEF Allocated
<1>3. Word(t) \in Words /\ Bit(t) \in Bits /\ Bit(t) \notin used[Word(t)]
  BY <1>2, SlotSplit, AllocatedMember
<1> DEFINE T == {w \in Words : used[w] # Bits}
<1>4. T \in SUBSET Nat /\ T # {}
  BY <1>3, WordCount, SMT DEF Words
<1>5. PICK m \in T : \A k \in T : m <= k
  <2> HIDE DEF T
  <2> QED BY <1>4, Smallest
<1>6. m \in Words /\ used[m] # Bits /\ \A h \in 0 .. m - 1 : used[h] = Bits
  <2>1. m \in Words /\ used[m] # Bits /\ NUM_BITSETS \in Nat
    BY <1>5, WordCount
  <2>2. ASSUME NEW h \in 0 .. m - 1, used[h] # Bits PROVE FALSE
    <3>1. h \in Words /\ h < m /\ h \in Nat /\ m \in Nat
      BY <2>1, <2>2, SMT DEF Words
    <3>2. m <= h
      BY <1>5, <2>2, <3>1
    <3> QED BY <3>1, <3>2, SMT
  <2> QED BY <2>1, <2>2
<1>7. FoundSlots # {}
  BY <1>6 DEF FoundSlots
<1>8. ASSUME NEW addr \in FoundSlots PROVE addr \in Slots /\ addr \notin Allocated
  <2>1. addr \in Nat /\ addr <= t /\ (addr \in Slots => addr \notin Allocated)
    BY <1>2, FoundIsLowest DEF Inv
  <2>2. addr \in Slots
    BY <2>1, PoolAssumption, SMT DEF Slots
  <2> QED BY <2>1, <2>2
<1> QED
  BY <1>7, <1>8

-----------------------------------------------------------------------------
(* The steps.                                                               *)

LEMMA InitInv == Init => Inv
<1> SUFFICES ASSUME Init PROVE Inv
  OBVIOUS
<1>1. Allocated = {}
  <2>1. \A s \in Slots : Word(s) \in Words
    BY SlotSplit
  <2>2. \A s \in Slots : used[Word(s)] = {}
    BY <2>1 DEF Init
  <2> QED BY <2>2, AllocatedMember DEF Allocated
<1>2. num_allocated = Cardinality(Allocated)
  BY <1>1, FS_EmptySet DEF Init
<1>3. TypeOK
  BY PoolAssumption DEF Init, TypeOK
<1>4. \A i \in Words : used[i] = {}
  BY DEF Init
<1> QED
  BY <1>2, <1>3, <1>4 DEF Inv, CountMatchesBits

\* allocate() either finds the pool full or adds the lowest free slot.
LEMMA AllocateStep ==
  ASSUME Inv, Allocate
  PROVE  /\ Inv'
         /\ \/ Allocated = Slots /\ ret' = NULL /\ Allocated' = Allocated
            \/ \E s \in Slots \ Allocated :
                  /\ \A t \in Slots \ Allocated : s <= t
                  /\ Allocated' = Allocated \cup {s}
                  /\ ret' = s
<1>1. CASE num_allocated = N /\ ret' = NULL /\ UNCHANGED <<num_allocated, used>>
  <2>1. Allocated' = Allocated
    BY <1>1 DEF Allocated, allocated, owned, get_bit
  <2>2. Allocated = Slots
    BY <1>1, AllocatedFinite, PoolAssumption, SMT DEF Inv, CountMatchesBits
  <2>3. Inv'
    BY <1>1, <2>1 DEF Inv, TypeOK, CountMatchesBits
  <2> QED BY <1>1, <2>1, <2>2, <2>3
<1>2. CASE /\ num_allocated # N
           /\ \E addr \in FoundSlots : used' = WithBit(addr, TRUE) /\ ret' = addr
           /\ num_allocated' = num_allocated + 1
  <2>1. PICK s \in FoundSlots : used' = WithBit(s, TRUE) /\ ret' = s
    BY <1>2
  <2>2. s \in Slots /\ s \notin Allocated
    BY <1>2, <2>1, FoundWhenRoom
  <2>3. \A t \in Slots \ Allocated : s <= t
    BY <2>1, FoundIsLowest DEF Inv
  <2>4. /\ used' \in [Words -> SUBSET Bits]
        /\ Allocated' = Allocated \cup {s}
        /\ \A i \in Words : \A b \in used'[i] : b \in used[i] \/ i * WordBits + b = s
    BY <2>1, <2>2, WithBitAllocated DEF Inv
  <2>5. Cardinality(Allocated \cup {s}) = Cardinality(Allocated) + 1
    BY <2>2, AllocatedFinite, FS_AddElement
  <2>6. num_allocated' = Cardinality(Allocated')
    BY <1>2, <2>4, <2>5 DEF Inv, CountMatchesBits
  <2>7. num_allocated' \in 0 .. N
    BY <1>2, PoolAssumption, SMT DEF Inv, TypeOK
  <2>8. Inv'
    BY <2>1, <2>2, <2>4, <2>6, <2>7 DEF Inv, TypeOK, CountMatchesBits
  <2> QED BY <2>1, <2>2, <2>3, <2>4, <2>8
<1> QED
  BY <1>1, <1>2 DEF Allocate

\* deallocate() removes a slot that is allocated and ignores anything else.
LEMMA DeallocateStep ==
  ASSUME Inv, NEW addr \in Addresses, Deallocate(addr)
  PROVE  Inv' /\ ret' = NULL /\ Allocated' = Allocated \ {addr}
<1>1. CASE allocated(addr)
  <2>1. addr \in Slots /\ addr \in Allocated
    BY <1>1 DEF allocated, owned, Allocated
  <2>2. num_allocated' = num_allocated - 1 /\ used' = WithBit(addr, FALSE) /\ ret' = NULL
    BY <1>1 DEF Deallocate
  <2>3. /\ used' \in [Words -> SUBSET Bits]
        /\ Allocated' = Allocated \ {addr}
        /\ \A i \in Words : \A b \in used'[i] : b \in used[i] \/ i * WordBits + b = addr
    BY <2>1, <2>2, WithBitAllocated DEF Inv
  <2>4. Cardinality(Allocated \ {addr}) = Cardinality(Allocated) - 1
    BY <2>1, AllocatedFinite, FS_RemoveElement
  <2>5. num_allocated' = Cardinality(Allocated') /\ Cardinality(Allocated) \in Nat
    BY <2>2, <2>3, <2>4, AllocatedFinite DEF Inv, CountMatchesBits
  <2>6. Cardinality(Allocated) # 0
    BY <2>1, AllocatedFinite, FS_EmptySet
  <2>7. num_allocated' \in 0 .. N
    BY <2>2, <2>5, <2>6, PoolAssumption, SMT DEF Inv, TypeOK, CountMatchesBits
  <2>8. Inv'
    BY <2>1, <2>2, <2>3, <2>5, <2>7 DEF Inv, TypeOK, CountMatchesBits
  <2> QED BY <2>2, <2>3, <2>8
<1>2. CASE ~ allocated(addr)
  <2>1. ret' = NULL /\ num_allocated' = num_allocated /\ used' = used
    BY <1>2 DEF Deallocate
  <2>2. Allocated' = Allocated
    BY <2>1 DEF Allocated, allocated, owned, get_bit
  <2>3. addr \notin Allocated
    BY <1>2 DEF Allocated
  <2>4. Inv'
    BY <2>1, <2>2 DEF Inv, TypeOK, CountMatchesBits
  <2> QED BY <2>1, <2>2, <2>3, <2>4
<1> QED
  BY <1>1, <1>2

\* The destructor leaves nothing allocated.
LEMMA DestroyStep ==
  ASSUME Inv, Destroy
  PROVE  Inv' /\ ret' = NULL /\ Allocated' = {}
<1>1. \A i \in Words : used'[i] = {}
  BY DEF Destroy, Inv, CountMatchesBits
<1>2. used' \in [Words -> SUBSET Bits]
  BY DEF Destroy, Inv, TypeOK
<1>3. Allocated' = {}
  <2>1. \A s \in Slots : Word(s) \in Words
    BY SlotSplit
  <2>2. \A s \in Slots : used'[Word(s)] = {}
    BY <1>1, <2>1
  <2> QED BY <2>2 DEF Allocated, allocated, owned, get_bit
<1>4. num_allocated' = 0
  BY AllocatedFinite DEF Destroy, Inv, CountMatchesBits
<1>5. num_allocated' = Cardinality(Allocated')
  BY <1>3, <1>4, FS_EmptySet
<1>6. TypeOK'
  BY <1>2, <1>4, PoolAssumption DEF TypeOK, Destroy
<1> QED
  BY <1>1, <1>3, <1>5, <1>6 DEF Inv, CountMatchesBits, Destroy

LEMMA NextInv == Inv /\ [Next]_vars => Inv'
<1> SUFFICES ASSUME Inv, [Next]_vars PROVE Inv'
  OBVIOUS
<1>1. CASE Allocate
  BY <1>1, AllocateStep
<1>2. CASE Destroy
  BY <1>2, DestroyStep
<1>3. CASE \E addr \in Addresses : Deallocate(addr)
  BY <1>3, DeallocateStep
<1>4. CASE UNCHANGED vars
  <2>1. Allocated' = Allocated
    BY <1>4 DEF vars, Allocated, allocated, owned, get_bit
  <2> QED BY <1>4, <2>1 DEF vars, Inv, TypeOK, CountMatchesBits
<1> QED
  BY <1>1, <1>2, <1>3, <1>4 DEF Next

-----------------------------------------------------------------------------
(* The theorems.                                                            *)

\* Words, count and results keep their types, whatever addresses callers free.
THEOREM TypeCorrect == Spec => []TypeOK
<1>1. Inv => TypeOK
  BY DEF Inv
<1> QED
  BY InitInv, NextInv, <1>1, PTL DEF Spec

\* Count and bits agree after any sequence of calls, for any N.
THEOREM CountIsRight == Spec => [](TypeOK /\ CountMatchesBits)
<1>1. Inv => TypeOK /\ CountMatchesBits
  BY DEF Inv
<1> QED
  BY InitInv, NextInv, <1>1, PTL DEF Spec

\* The walk over the words never leaves the array while there is room, for any N.
THEOREM RoomFound == Spec => []RoomIsFound
<1>1. Inv => RoomIsFound
  <2> SUFFICES ASSUME Inv, num_allocated < N
               PROVE  \E addr \in FoundSlots : addr \in Slots /\ ~allocated(addr)
    BY DEF RoomIsFound, have_free_space
  <2>1. num_allocated # N
    BY PoolAssumption, SMT DEF Inv, TypeOK
  <2>2. \A addr \in FoundSlots : addr \in Slots /\ addr \notin Allocated
    BY <2>1, FoundWhenRoom
  <2>3. FoundSlots # {}
    BY <2>1, FoundWhenRoom
  <2> QED BY <2>2, <2>3 DEF Allocated
<1> QED
  BY InitInv, NextInv, <1>1, PTL DEF Spec

\* The pool implements the set of slots it stands for in the server.
THEOREM PoolImplementsSlotSet == Spec => ImplementsSlotSet
<1>1. Init => Abstract!Init
  <2> SUFFICES ASSUME Init PROVE Allocated = {} /\ ret = NULL
    BY DEF Abstract!Init
  <2>1. \A s \in Slots : used[Word(s)] = {}
    BY SlotSplit DEF Init
  <2> QED BY <2>1, AllocatedMember DEF Init, Allocated
<1>2. Inv /\ [Next]_vars => [Abstract!Next]_<<Allocated, ret>>
  <2> SUFFICES ASSUME Inv, [Next]_vars
               PROVE  Abstract!Next \/ UNCHANGED <<Allocated, ret>>
    OBVIOUS
  <2> USE DEF Abstract!Next
  <2>0. Abstract!Slots = Slots
    BY DEF Abstract!Slots, Slots
  <2>1. CASE Allocate
    <3>1. CASE Allocated = Slots /\ ret' = NULL /\ Allocated' = Allocated
      BY <2>0, <3>1 DEF Abstract!Allocate
    <3>2. CASE \E s \in Slots \ Allocated :
                  /\ \A t \in Slots \ Allocated : s <= t
                  /\ Allocated' = Allocated \cup {s}
                  /\ ret' = s
      BY <2>0, <3>2 DEF Abstract!Allocate, Abstract!Lowest
    <3> QED BY <2>1, <3>1, <3>2, AllocateStep
  <2>2. CASE Destroy
    BY <2>2, DestroyStep DEF Abstract!Destroy
  <2>3. CASE \E addr \in Addresses : Deallocate(addr)
    <3>1. PICK addr \in Addresses : Deallocate(addr)
      BY <2>3
    <3>2. ret' = NULL /\ Allocated' = Allocated \ {addr}
      BY <3>1, DeallocateStep
    <3> QED BY <3>2 DEF Abstract!Deallocate
  <2>4. CASE UNCHANGED vars
    BY <2>4 DEF vars, Allocated, allocated, owned, get_bit
  <2> QED BY <2>1, <2>2, <2>3, <2>4 DEF Next
<1> QED
  BY InitInv, NextInv, <1>1, <1>2, PTL DEF Spec, ImplementsSlotSet, Abstract!Spec
=============================================================================
