------------------------------ MODULE QueueProofs ------------------------------
(***************************************************************************)
(* Proofs about Queue, for a ring of any size: the array holds the items in *)
(* use and nothing else, and its operations are those of a FIFO queue.      *)
(***************************************************************************)
EXTENDS Queue, WellFoundedInduction, TLAPS

-----------------------------------------------------------------------------
(* Places around the ring.                                                  *)

LEMMA Around ==
  \A n \in Nat \ {0} : \A a \in 0 .. 2 * n - 1 : a % n = IF a < n THEN a ELSE a - n
<1> SUFFICES ASSUME NEW n \in Nat \ {0}, NEW a \in 0 .. 2 * n - 1
             PROVE  a % n = IF a < n THEN a ELSE a - n
  OBVIOUS
<1> DEFINE q == a \div n
<1>1. q \in Nat /\ a % n \in 0 .. n - 1 /\ a = q * n + (a % n)
  BY SMT
<1> HIDE DEF q
<1>2. q < 2
  <2>1. SUFFICES ASSUME q >= 2 PROVE FALSE
    BY <1>1, SMT
  <2>2. (q - 2) * n >= 0 /\ (q - 2) * n = q * n - 2 * n
    BY <1>1, <2>1, SMT
  <2> QED
    BY <2>2, <1>1, SMT
<1>3. q = 0 \/ q = 1
  BY <1>1, <1>2, SMT
<1>4. CASE q = 0
  BY <1>1, <1>4, SMT
<1>5. CASE q = 1
  BY <1>1, <1>5, SMT
<1> QED
  BY <1>3, <1>4, <1>5

\* The i-th place from h on, for as many as there are.
LEMMA Place ==
  ASSUME NEW h \in Slot, NEW i \in 0 .. Size
  PROVE  /\ (h + i) % Size = IF h + i < Size THEN h + i ELSE h + i - Size
         /\ (h + i) % Size \in Slot
<1> DEFINE sum == h + i
<1>1. Size \in Nat \ {0} /\ sum \in 0 .. 2 * Size - 1
  BY QueueAssumption, SMT DEF Slot
<1> HIDE DEF sum
<1>2. \A a \in 0 .. 2 * Size - 1 : a % Size = IF a < Size THEN a ELSE a - Size
  BY <1>1, Around
<1>3. sum % Size = IF sum < Size THEN sum ELSE sum - Size
  BY <1>1, <1>2
<1> QED
  BY <1>1, <1>3, SMT DEF Slot, sum

LEMMA PlacesDiffer ==
  ASSUME NEW h \in Slot, NEW i \in 0 .. Size - 1, NEW j \in 0 .. Size - 1,
         (h + i) % Size = (h + j) % Size
  PROVE  i = j
<1>1. Size \in Nat /\ i \in 0 .. Size /\ j \in 0 .. Size
  BY QueueAssumption, SMT
<1>2. (h + i) % Size = IF h + i < Size THEN h + i ELSE h + i - Size
  BY <1>1, Place
<1>3. (h + j) % Size = IF h + j < Size THEN h + j ELSE h + j - Size
  BY <1>1, Place
<1> QED
  BY <1>1, <1>2, <1>3, SMT DEF Slot

\* The place behind the i-th is the one after it.
LEMMA NextPlace ==
  ASSUME NEW h \in Slot, NEW i \in 0 .. Size - 1
  PROVE  (((h + i) % Size) + 1) % Size = (h + (i + 1)) % Size
<1>1. Size \in Nat /\ Size > 0 /\ i \in 0 .. Size /\ i + 1 \in 0 .. Size /\ 1 \in 0 .. Size
  BY QueueAssumption, SMT
<1>2. /\ (h + i) % Size = IF h + i < Size THEN h + i ELSE h + i - Size
      /\ (h + i) % Size \in Slot
  BY <1>1, Place
<1>3. (h + (i + 1)) % Size = IF h + (i + 1) < Size THEN h + (i + 1) ELSE h + (i + 1) - Size
  BY <1>1, Place
<1>4. (((h + i) % Size) + 1) % Size
        = IF ((h + i) % Size) + 1 < Size THEN ((h + i) % Size) + 1 ELSE ((h + i) % Size) + 1 - Size
  BY <1>1, <1>2, Place
<1> QED
  BY <1>1, <1>2, <1>3, <1>4, SMT DEF Slot

\* The places from the one behind h are those from h on, one less in number.
LEMMA PlaceFromNext ==
  ASSUME NEW h \in Slot, NEW i \in 0 .. Size - 1
  PROVE  (((h + 1) % Size) + i) % Size = (h + (i + 1)) % Size
<1>1. Size \in Nat /\ Size > 0 /\ i \in 0 .. Size /\ i + 1 \in 0 .. Size /\ 1 \in 0 .. Size
  BY QueueAssumption, SMT
<1>2. /\ (h + 1) % Size = IF h + 1 < Size THEN h + 1 ELSE h + 1 - Size
      /\ (h + 1) % Size \in Slot
  BY <1>1, Place
<1>3. (h + (i + 1)) % Size = IF h + (i + 1) < Size THEN h + (i + 1) ELSE h + (i + 1) - Size
  BY <1>1, Place
<1>4. (((h + 1) % Size) + i) % Size
        = IF ((h + 1) % Size) + i < Size THEN ((h + 1) % Size) + i ELSE ((h + 1) % Size) + i - Size
  BY <1>1, <1>2, Place
<1> QED
  BY <1>1, <1>2, <1>3, <1>4, SMT DEF Slot

-----------------------------------------------------------------------------
(* The invariant.                                                           *)

IInv == TypeOK /\ NothingLeftBehind

LEMMA InitHolds == Init => IInv
  BY QueueAssumption, SMT DEF Init, IInv, TypeOK, NothingLeftBehind, Slot

LEMMA PushKeeps ==
  ASSUME IInv, NEW x \in Item, Push(x)
  PROVE  IInv'
<1>1. /\ head \in Slot /\ used \in 0 .. Size /\ items \in [Slot -> Item \cup {NULL}]
      /\ used # Size /\ used' = used + 1 /\ head' = head
      /\ items' = [items EXCEPT ![At(used)] = x]
  BY Zenon DEF IInv, TypeOK, Push
<1>2. Size \in Nat /\ used' \in 0 .. Size /\ used \in 0 .. used' - 1
  BY <1>1, QueueAssumption, SMT
<1>3. TypeOK'
  BY <1>1, <1>2, Zenon DEF TypeOK, Slot
<1>4. NothingLeftBehind'
  <2> SUFFICES ASSUME NEW k \in Slot, items'[k] # NULL
               PROVE  \E i \in 0 .. used' - 1 : k = At(i)'
    BY Zenon DEF NothingLeftBehind, Slot
  <2>1. CASE k = At(used)
    BY <1>1, <1>2, <2>1, Zenon DEF At
  <2>2. CASE k # At(used)
    <3>1. items[k] # NULL
      BY <1>1, <2>2, Zenon
    <3>2. PICK i \in 0 .. used - 1 : k = At(i)
      BY <3>1, Zenon DEF IInv, NothingLeftBehind
    <3>3. i \in 0 .. used' - 1
      BY <3>2, <1>1, <1>2, SMT
    <3> QED
      BY <3>2, <3>3, <1>1, Zenon DEF At
  <2> QED
    BY <2>1, <2>2
<1> QED
  BY <1>3, <1>4 DEF IInv

LEMMA PopKeeps ==
  ASSUME IInv, Pop
  PROVE  IInv'
<1>1. /\ head \in Slot /\ used \in 0 .. Size /\ items \in [Slot -> Item \cup {NULL}]
      /\ used # 0 /\ used' = used - 1 /\ head' = (head + 1) % Size
      /\ items' = [items EXCEPT ![head] = NULL]
  BY Zenon DEF IInv, TypeOK, Pop
<1>2. Size \in Nat /\ Size > 0 /\ used' \in 0 .. Size /\ 1 \in 0 .. Size /\ 0 \in 0 .. Size
  BY <1>1, QueueAssumption, SMT
<1>3. head' \in Slot
  BY <1>1, <1>2, Place
<1>4. TypeOK'
  BY <1>1, <1>2, <1>3, Zenon DEF TypeOK, Slot
<1>5. NothingLeftBehind'
  <2> SUFFICES ASSUME NEW k \in Slot, items'[k] # NULL
               PROVE  \E i \in 0 .. used' - 1 : k = At(i)'
    BY Zenon DEF NothingLeftBehind, Slot
  <2>1. k # head /\ items[k] # NULL
    BY <1>1, Zenon
  <2>2. PICK i \in 0 .. used - 1 : k = At(i)
    BY <2>1, Zenon DEF IInv, NothingLeftBehind
  <2>3. i # 0
    <3>1. (head + 0) % Size = IF head + 0 < Size THEN head + 0 ELSE head + 0 - Size
      BY <1>1, <1>2, Place
    <3>2. (head + 0) % Size = head
      BY <3>1, <1>1, <1>2, SMT DEF Slot
    <3> QED
      BY <3>2, <2>1, <2>2, Zenon DEF At
  <2>4. i - 1 \in 0 .. used' - 1 /\ i - 1 \in 0 .. Size - 1 /\ (i - 1) + 1 = i
    BY <2>2, <2>3, <1>1, <1>2, SMT
  <2>5. (head' + (i - 1)) % Size = (head + i) % Size
    <3>1. (((head + 1) % Size) + (i - 1)) % Size = (head + ((i - 1) + 1)) % Size
      BY <2>4, <1>1, PlaceFromNext
    <3> QED
      BY <3>1, <2>4, <1>1, Zenon
  <2> QED
    BY <2>2, <2>4, <2>5, Zenon DEF At
<1> QED
  BY <1>4, <1>5 DEF IInv

\* The first occurrence that remove() looks for is the least one.
LEMMA FirstFound ==
  ASSUME used \in 0 .. Size, NEW x \in Item, Found(x) # {}
  PROVE  LET first == CHOOSE i \in Found(x) : \A j \in Found(x) : i <= j
         IN  first \in Found(x) /\ \A j \in Found(x) : first <= j
<1>1. Found(x) \subseteq Nat
  BY QueueAssumption, SMT DEF Found
<1>2. IsWellFoundedOn(OpToRel(<, Nat), Nat)
  BY NatLessThanWellFounded
<1>3. PICK m \in Found(x) : \A k \in Found(x) : ~(<<k, m>> \in OpToRel(<, Nat))
  BY <1>1, <1>2, WFMin
<1>4. \A k \in Found(x) : ~(k < m)
  BY <1>1, <1>3 DEF OpToRel
<1>5. \A k \in Found(x) : m <= k
  BY <1>1, <1>4, SMT
<1> QED
  BY <1>5, Zenon

LEMMA RemoveKeeps ==
  ASSUME IInv, NEW x \in Item, Remove(x)
  PROVE  IInv'
<1> DEFINE first == CHOOSE i \in Found(x) : \A j \in Found(x) : i <= j
           moved == [k \in Slot |->
                        IF \E i \in first .. used - 2 : k = At(i)
                        THEN items[(k + 1) % Size] ELSE items[k]]
<1>1. /\ head \in Slot /\ used \in 0 .. Size /\ items \in [Slot -> Item \cup {NULL}]
      /\ used' = used /\ head' = head /\ Found(x) # {}
      /\ items' = [moved EXCEPT ![At(used - 1)] = NULL]
  BY Zenon DEF IInv, TypeOK, Remove
<1>2. first \in Found(x)
  BY <1>1, FirstFound
<1>3. first \in 0 .. used - 1
  BY <1>2, Zenon DEF Found
<1>4. \A k \in Slot : (k + 1) % Size \in Slot
  <2>1. 1 \in 0 .. Size
    BY QueueAssumption, SMT
  <2> QED
    BY <2>1, Place
<1>5. moved \in [Slot -> Item \cup {NULL}]
  BY <1>1, <1>4, Zenon
<1> HIDE DEF first
<1>6. TypeOK'
  BY <1>1, <1>5, Zenon DEF TypeOK, Slot
<1>7. NothingLeftBehind'
  <2> SUFFICES ASSUME NEW k \in Slot, items'[k] # NULL
               PROVE  \E i \in 0 .. used - 1 : k = At(i)
    BY <1>1, Zenon DEF NothingLeftBehind, Slot, At
  <2>1. moved[k] # NULL
    BY <1>1, <1>5, Zenon
  <2>2. CASE \E i \in first .. used - 2 : k = At(i)
    <3>1. PICK i \in first .. used - 2 : k = At(i)
      BY <2>2
    <3>2. i \in 0 .. used - 1
      BY <3>1, <1>1, <1>3, QueueAssumption, SMT
    <3> QED
      BY <3>1, <3>2
  <2>3. CASE ~ \E i \in first .. used - 2 : k = At(i)
    BY <2>1, <2>3, Zenon DEF IInv, NothingLeftBehind
  <2> QED
    BY <2>2, <2>3
<1> QED
  BY <1>6, <1>7 DEF IInv

\* The array holds pointers and nothing but the items in use, for a ring of any
\* size.
THEOREM Invariant == Spec => []IInv
<1>1. Init => IInv
  BY InitHolds
<1>2. IInv /\ [Next]_vars => IInv'
  <2> SUFFICES ASSUME IInv, [Next]_vars PROVE IInv'
    OBVIOUS
  <2>1. CASE Pop
    BY <2>1, PopKeeps
  <2>2. ASSUME NEW x \in Item, Push(x) PROVE IInv'
    BY <2>2, PushKeeps
  <2>3. ASSUME NEW x \in Item, Remove(x) PROVE IInv'
    BY <2>3, RemoveKeeps
  <2>4. CASE UNCHANGED vars
    BY <2>4 DEF vars, IInv, TypeOK, NothingLeftBehind, At
  <2> QED
    BY <2>1, <2>2, <2>3, <2>4, Zenon DEF Next
<1> QED
  BY <1>1, <1>2, PTL DEF Spec

\* Popped or removed, a pointer is gone from the array (Queue::pop, Queue::remove
\* reset the slot), however often the ring has wrapped around.
THEOREM NoPointerLeft == Spec => []NothingLeftBehind
<1>1. IInv => NothingLeftBehind
  BY DEF IInv
<1> QED
  BY <1>1, Invariant, PTL

THEOREM TypeCorrect == Spec => []TypeOK
<1>1. IInv => TypeOK
  BY DEF IInv
<1> QED
  BY <1>1, Invariant, PTL

-----------------------------------------------------------------------------
(* The queue as its callers see it.                                         *)

\* As many items as are in use, the one at the head first: a sequence, whatever
\* head, number and array are.
LEMMA ItemsInOrder ==
  ASSUME NEW h \in Slot, NEW u \in 0 .. Size, NEW a \in [Slot -> Item \cup {NULL}]
  PROVE  /\ [i \in 1 .. u |-> a[(h + (i - 1)) % Size]] \in Seq(Item \cup {NULL})
         /\ Len([i \in 1 .. u |-> a[(h + (i - 1)) % Size]]) = u
<1>1. u \in Nat
  BY QueueAssumption, SMT
<1>2. \A i \in 1 .. u : (h + (i - 1)) % Size \in Slot
  <2> SUFFICES ASSUME NEW i \in 1 .. u PROVE (h + (i - 1)) % Size \in Slot
    OBVIOUS
  <2>1. i - 1 \in 0 .. Size
    BY <1>1, QueueAssumption, SMT
  <2> QED
    BY <2>1, Place
<1> DEFINE at(i) == a[(h + (i - 1)) % Size]
<1>3. \A i \in 1 .. u : at(i) \in Item \cup {NULL}
  BY <1>2, Zenon
<1> HIDE DEF at
<1>4. /\ [i \in 1 .. u |-> at(i)] \in Seq(Item \cup {NULL})
      /\ Len([i \in 1 .. u |-> at(i)]) = u
  BY <1>1, <1>3, SMT
<1> QED
  BY <1>4 DEF at

LEMMA ContentsInOrder ==
  ASSUME head \in Slot, used \in 0 .. Size, items \in [Slot -> Item \cup {NULL}]
  PROVE  /\ Contents \in Seq(Item \cup {NULL}) /\ Len(Contents) = used
         /\ \A i \in 1 .. used : Contents[i] = items[At(i - 1)]
<1>1. /\ [i \in 1 .. used |-> items[(head + (i - 1)) % Size]] \in Seq(Item \cup {NULL})
      /\ Len([i \in 1 .. used |-> items[(head + (i - 1)) % Size]]) = used
  BY ItemsInOrder
<1> QED
  BY <1>1, Zenon DEF Contents, At

\* The same of the next state.
LEMMA NextContentsInOrder ==
  ASSUME head' \in Slot, used' \in 0 .. Size, items' \in [Slot -> Item \cup {NULL}]
  PROVE  /\ Contents' \in Seq(Item \cup {NULL}) /\ Len(Contents') = used'
         /\ \A i \in 1 .. used' : Contents'[i] = items'[(head' + (i - 1)) % Size]
<1>1. /\ [i \in 1 .. used' |-> items'[(head' + (i - 1)) % Size]] \in Seq(Item \cup {NULL})
      /\ Len([i \in 1 .. used' |-> items'[(head' + (i - 1)) % Size]]) = used'
  BY ItemsInOrder
<1> QED
  BY <1>1, Zenon DEF Contents, At

LEMMA PushAppends ==
  ASSUME IInv, NEW x \in Item, Push(x)
  PROVE  Abstract!Push(x)
<1>1. /\ head \in Slot /\ used \in 0 .. Size /\ items \in [Slot -> Item \cup {NULL}]
      /\ used # Size /\ used' = used + 1 /\ head' = head
      /\ items' = [items EXCEPT ![At(used)] = x] /\ TypeOK'
  BY PushKeeps, Zenon DEF IInv, TypeOK, Push
<1>2. /\ Contents \in Seq(Item \cup {NULL}) /\ Len(Contents) = used
      /\ \A i \in 1 .. used : Contents[i] = items[At(i - 1)]
  BY <1>1, ContentsInOrder
<1>3. /\ Contents' \in Seq(Item \cup {NULL}) /\ Len(Contents') = used + 1
      /\ \A i \in 1 .. used + 1 : Contents'[i] = items'[At(i - 1)]
  <2>1. head' \in Slot /\ used' \in 0 .. Size /\ items' \in [Slot -> Item \cup {NULL}]
    BY <1>1, Zenon DEF TypeOK, Slot
  <2> QED
    BY <2>1, <1>1, NextContentsInOrder, Zenon DEF At
<1>4. \A i \in 1 .. used : items'[At(i - 1)] = items[At(i - 1)]
  <2> SUFFICES ASSUME NEW i \in 1 .. used PROVE items'[At(i - 1)] = items[At(i - 1)]
    OBVIOUS
  <2>1. i - 1 \in 0 .. Size /\ i - 1 \in 0 .. Size - 1 /\ used \in 0 .. Size - 1 /\ i - 1 # used
    BY <1>1, QueueAssumption, SMT
  <2>2. At(i - 1) # At(used) /\ At(i - 1) \in Slot
    BY <2>1, <1>1, Place, PlacesDiffer, Zenon DEF At
  <2> QED
    BY <2>2, <1>1, Zenon
<1>5. items'[At(used)] = x /\ (used + 1) - 1 = used
  <2>1. At(used) \in Slot
    BY <1>1, Place DEF At
  <2> QED
    BY <2>1, <1>1, SMT
<1>6. Contents'[used + 1] = x
  <2>1. used + 1 \in 1 .. used + 1
    BY <1>1, QueueAssumption, SMT
  <2> QED
    BY <2>1, <1>3, <1>5, Zenon
<1>7. \A i \in 1 .. used : Contents'[i] = Contents[i]
  <2> SUFFICES ASSUME NEW i \in 1 .. used PROVE Contents'[i] = Contents[i]
    OBVIOUS
  <2>1. i \in 1 .. used + 1
    BY <1>1, QueueAssumption, SMT
  <2> QED
    BY <2>1, <1>2, <1>3, <1>4, Zenon
<1> HIDE DEF Contents
<1>8. Contents' = Append(Contents, x)
  BY <1>1, <1>2, <1>3, <1>6, <1>7, SMT
<1>9. Len(Contents) < Size
  BY <1>1, <1>2, QueueAssumption, SMT
<1> QED
  BY <1>8, <1>9 DEF Abstract!Push

LEMMA PopTakesFirst ==
  ASSUME IInv, Pop
  PROVE  Abstract!Pop
<1>1. /\ head \in Slot /\ used \in 0 .. Size /\ items \in [Slot -> Item \cup {NULL}]
      /\ used # 0 /\ used' = used - 1 /\ head' = (head + 1) % Size
      /\ items' = [items EXCEPT ![head] = NULL] /\ TypeOK'
  BY PopKeeps, Zenon DEF IInv, TypeOK, Pop
<1>2. /\ Contents \in Seq(Item \cup {NULL}) /\ Len(Contents) = used
      /\ \A i \in 1 .. used : Contents[i] = items[At(i - 1)]
  BY <1>1, ContentsInOrder
<1>3. /\ Contents' \in Seq(Item \cup {NULL}) /\ Len(Contents') = used - 1
      /\ \A i \in 1 .. used - 1 : Contents'[i] = items'[(head' + (i - 1)) % Size]
  <2>1. head' \in Slot /\ used' \in 0 .. Size /\ items' \in [Slot -> Item \cup {NULL}]
    BY <1>1, Zenon DEF TypeOK, Slot
  <2> QED
    BY <2>1, <1>1, NextContentsInOrder, Zenon DEF At
<1>4. \A i \in 1 .. used - 1 : Contents'[i] = Contents[i + 1]
  <2> SUFFICES ASSUME NEW i \in 1 .. used - 1 PROVE Contents'[i] = Contents[i + 1]
    OBVIOUS
  <2>1. /\ i - 1 \in 0 .. Size - 1 /\ (i - 1) + 1 = i /\ i \in 0 .. Size - 1 /\ i \in 0 .. Size
        /\ i # 0 /\ 0 \in 0 .. Size - 1 /\ 0 \in 0 .. Size /\ i + 1 \in 1 .. used
        /\ (i + 1) - 1 = i
    BY <1>1, QueueAssumption, SMT
  <2>2. (head' + (i - 1)) % Size = At(i)
    <3>1. (((head + 1) % Size) + (i - 1)) % Size = (head + ((i - 1) + 1)) % Size
      BY <2>1, <1>1, PlaceFromNext
    <3> QED
      BY <3>1, <2>1, <1>1, Zenon DEF At
  <2>3. (head + 0) % Size = head
    <3>1. (head + 0) % Size = IF head + 0 < Size THEN head + 0 ELSE head + 0 - Size
      BY <1>1, <2>1, Place
    <3> QED
      BY <3>1, <1>1, QueueAssumption, SMT DEF Slot
  <2>4. At(i) \in Slot /\ At(i) # head
    <3>1. (head + i) % Size # (head + 0) % Size
      BY <2>1, <1>1, PlacesDiffer
    <3>2. (head + i) % Size \in Slot
      BY <2>1, <1>1, Place
    <3> QED
      BY <3>1, <3>2, <2>3 DEF At
  <2>5. items'[At(i)] = items[At(i)]
    BY <2>4, <1>1, Zenon
  <2> QED
    BY <2>1, <2>2, <2>5, <1>2, <1>3, Zenon
<1> HIDE DEF Contents
<1>5. Contents' = Tail(Contents) /\ Contents # <<>>
  BY <1>1, <1>2, <1>3, <1>4, QueueAssumption, SMT
<1> QED
  BY <1>5 DEF Abstract!Pop

LEMMA RemoveShifts ==
  ASSUME IInv, NEW x \in Item, Remove(x)
  PROVE  Contents' = Shifted(Contents, x)
<1> DEFINE first == CHOOSE i \in Found(x) : \A j \in Found(x) : i <= j
           moved == [k \in Slot |->
                        IF \E i \in first .. used - 2 : k = At(i)
                        THEN items[(k + 1) % Size] ELSE items[k]]
<1>1. /\ head \in Slot /\ used \in 0 .. Size /\ items \in [Slot -> Item \cup {NULL}]
      /\ used' = used /\ head' = head /\ Found(x) # {}
      /\ items' = [moved EXCEPT ![At(used - 1)] = NULL] /\ TypeOK'
  BY RemoveKeeps, Zenon DEF IInv, TypeOK, Remove
<1>2. first \in Found(x) /\ \A j \in Found(x) : first <= j
  BY <1>1, FirstFound
<1> HIDE DEF first
<1>3. /\ Contents \in Seq(Item \cup {NULL}) /\ Len(Contents) = used
      /\ \A i \in 1 .. used : Contents[i] = items[At(i - 1)]
  BY <1>1, ContentsInOrder
<1>4. /\ Contents' \in Seq(Item \cup {NULL}) /\ Len(Contents') = used
      /\ \A i \in 1 .. used : Contents'[i] = items'[At(i - 1)]
  <2>1. head' \in Slot /\ used' \in 0 .. Size /\ items' \in [Slot -> Item \cup {NULL}]
    BY <1>1, Zenon DEF TypeOK, Slot
  <2> QED
    BY <2>1, <1>1, NextContentsInOrder, Zenon DEF At
<1>5. /\ used \in Nat /\ Size \in Nat /\ Size > 0 /\ first \in 0 .. used - 1
      /\ first \in Nat /\ items[At(first)] = x
      /\ \A j \in 0 .. used - 1 : j < first => items[At(j)] # x
  <2>1. used \in Nat /\ Size \in Nat /\ Size > 0
    BY <1>1, QueueAssumption, SMT
  <2>2. first \in 0 .. used - 1 /\ items[At(first)] = x
    BY <1>2, Zenon DEF Found
  <2>3. first \in Nat
    BY <2>1, <2>2, SMT
  <2>4. ASSUME NEW j \in 0 .. used - 1, j < first PROVE items[At(j)] # x
    <3>1. ~(first <= j)
      BY <2>1, <2>3, <2>4, SMT
    <3>2. j \notin Found(x)
      BY <3>1, <1>2
    <3> QED
      BY <3>2, Zenon DEF Found
  <2> QED
    BY <2>1, <2>2, <2>3, <2>4
<1>6. Occurs(Contents, x) /\ FirstIndex(Contents, x) = first + 1
  <2> DEFINE IsFirst(i) == Contents[i] = x /\ \A j \in 1 .. i - 1 : Contents[j] # x
  <2>1. first + 1 \in 1 .. used /\ (first + 1) - 1 = first
    BY <1>5, SMT
  <2>2. Contents[first + 1] = x
    BY <2>1, <1>3, <1>5, Zenon
  <2>3. ASSUME NEW j \in 1 .. used, j < first + 1 PROVE Contents[j] # x
    <3>1. j - 1 \in 0 .. used - 1 /\ j - 1 < first
      BY <2>3, <1>5, SMT
    <3> QED
      BY <3>1, <1>3, <1>5, Zenon
  <2>4. \A j \in 1 .. (first + 1) - 1 : Contents[j] # x
    <3> SUFFICES ASSUME NEW j \in 1 .. (first + 1) - 1 PROVE Contents[j] # x
      OBVIOUS
    <3>1. j \in 1 .. used /\ j < first + 1
      BY <1>5, SMT
    <3> QED
      BY <3>1, <2>3
  <2>5. \A i \in 1 .. used : IsFirst(i) => i = first + 1
    <3> SUFFICES ASSUME NEW i \in 1 .. used, IsFirst(i), i # first + 1 PROVE FALSE
      OBVIOUS
    <3>1. CASE i < first + 1
      BY <3>1, <2>3
    <3>2. CASE i > first + 1
      <4>1. first + 1 \in 1 .. i - 1
        BY <3>2, <1>5, SMT
      <4> QED
        BY <4>1, <2>2
    <3> QED
      BY <3>1, <3>2, <1>5, SMT
  <2>6. IsFirst(first + 1)
    BY <2>2, <2>4
  <2>7. (CHOOSE i \in 1 .. used : IsFirst(i)) = first + 1
    <3> HIDE DEF IsFirst
    <3> QED
      BY <2>1, <2>5, <2>6, Zenon
  <2> QED
    BY <2>1, <2>2, <2>7, <1>3, Zenon DEF Occurs, FirstIndex
<1>7. \A i \in 0 .. used - 1 : At(i) \in Slot
  <2> SUFFICES ASSUME NEW i \in 0 .. used - 1 PROVE At(i) \in Slot
    OBVIOUS
  <2>1. i \in 0 .. Size
    BY <1>1, <1>5, SMT
  <2> QED
    BY <2>1, <1>1, Place DEF At
<1>8. \A i, j \in 0 .. used - 1 : At(i) = At(j) => i = j
  <2> SUFFICES ASSUME NEW i \in 0 .. used - 1, NEW j \in 0 .. used - 1, At(i) = At(j)
               PROVE  i = j
    OBVIOUS
  <2>1. i \in 0 .. Size - 1 /\ j \in 0 .. Size - 1
    BY <1>1, <1>5, SMT
  <2> QED
    BY <2>1, <1>1, PlacesDiffer DEF At
<1>9. \A i \in 1 .. used : Contents'[i] = IF i = used THEN NULL
                                          ELSE IF i < first + 1 THEN Contents[i]
                                          ELSE Contents[i + 1]
  <2> SUFFICES ASSUME NEW i \in 1 .. used
               PROVE  Contents'[i] = IF i = used THEN NULL
                                     ELSE IF i < first + 1 THEN Contents[i]
                                     ELSE Contents[i + 1]
    OBVIOUS
  <2>1. i \in Nat /\ i - 1 \in 0 .. used - 1 /\ used - 1 \in 0 .. used - 1
    BY <1>5, SMT
  <2>2. At(i - 1) \in Slot /\ At(used - 1) \in Slot
    BY <2>1, <1>7
  <2>3. CASE i = used
    BY <2>2, <2>3, <1>1, <1>4, Zenon
  <2>4. ASSUME i # used PROVE Contents'[i] = moved[At(i - 1)]
    <3>1. i - 1 # used - 1
      BY <2>1, <2>4, <1>5, SMT
    <3>2. At(i - 1) # At(used - 1)
      BY <3>1, <2>1, <1>8
    <3> QED
      BY <3>2, <2>2, <1>1, <1>4, Zenon
  <2>5. CASE i # used /\ i < first + 1
    <3>1. ASSUME NEW j \in first .. used - 2 PROVE At(i - 1) # At(j)
      <4>1. j \in 0 .. used - 1 /\ i - 1 # j
        BY <2>1, <2>5, <1>5, SMT
      <4> QED
        BY <4>1, <2>1, <1>8
    <3>2. moved[At(i - 1)] = items[At(i - 1)]
      BY <3>1, <2>2, Zenon
    <3> QED
      BY <3>2, <2>4, <2>5, <1>3, Zenon
  <2>6. CASE i # used /\ ~(i < first + 1)
    <3>1. /\ i - 1 \in first .. used - 2 /\ i - 1 \in 0 .. Size - 1
          /\ i + 1 \in 1 .. used /\ (i - 1) + 1 = (i + 1) - 1
      BY <2>1, <2>6, <1>1, <1>5, SMT
    <3>2. moved[At(i - 1)] = items[(At(i - 1) + 1) % Size]
      BY <3>1, <2>2, Zenon
    <3>3. (At(i - 1) + 1) % Size = At((i + 1) - 1)
      <4>1. (((head + (i - 1)) % Size) + 1) % Size = (head + ((i - 1) + 1)) % Size
        BY <3>1, <1>1, NextPlace
      <4> QED
        BY <4>1, <3>1 DEF At
    <3>4. Contents[i + 1] = items[At((i + 1) - 1)]
      BY <3>1, <1>3
    <3> QED
      BY <3>2, <3>3, <3>4, <2>4, <2>6, Zenon
  <2> QED
    BY <2>3, <2>5, <2>6, Zenon
<1> HIDE DEF Contents
<1>10. Shifted(Contents, x) = [i \in 1 .. used |-> IF i = used THEN NULL
                                                  ELSE IF i < first + 1 THEN Contents[i]
                                                  ELSE Contents[i + 1]]
  BY <1>3, <1>6, Zenon DEF Shifted
<1>11. Contents' = [i \in 1 .. used |-> Contents'[i]]
  BY <1>4, <1>5, SMT
<1> QED
  BY <1>9, <1>10, <1>11, Zenon

\* Queue::push and Queue::pop are those of a bounded FIFO queue for a ring of any
\* size, and Queue::remove moves the items behind the first occurrence up and
\* leaves an empty slot in the last place.
THEOREM ImplementsFifo == Spec => FifoButForRemove
<1> DEFINE Step == Abstract!Next \/ \E x \in Item : Contents' = Shifted(Contents, x)
<1>1. Init => Abstract!Init
  <2> SUFFICES ASSUME Init PROVE Contents = <<>>
    BY DEF Abstract!Init
  <2>1. head \in Slot /\ used \in 0 .. Size /\ items \in [Slot -> Item \cup {NULL}] /\ used = 0
    BY InitHolds DEF IInv, TypeOK, Init
  <2>2. Contents \in Seq(Item \cup {NULL}) /\ Len(Contents) = 0
    BY <2>1, ContentsInOrder
  <2> HIDE DEF Contents
  <2> QED
    BY <2>2, SMT
<1>2. IInv /\ [Next]_vars => [Step]_vars
  <2> SUFFICES ASSUME IInv, Next PROVE Step
    OBVIOUS
  <2>1. CASE Pop
    BY <2>1, PopTakesFirst DEF Abstract!Next
  <2>2. ASSUME NEW x \in Item, Push(x) PROVE Step
    BY <2>2, PushAppends DEF Abstract!Next
  <2>3. ASSUME NEW x \in Item, Remove(x) PROVE Step
    BY <2>3, RemoveShifts
  <2> QED
    BY <2>1, <2>2, <2>3, Zenon DEF Next
<1> QED
  BY <1>1, <1>2, Invariant, PTL DEF Spec, FifoButForRemove
=============================================================================
