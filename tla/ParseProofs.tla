------------------------------ MODULE ParseProofs ------------------------------
(***************************************************************************)
(* Theorems about Parse: that numbers are read as what they are and never   *)
(* exceed their limit, that the cursor and the slices stay inside of any    *)
(* text, and that a head is accepted only when it has arrived.              *)
(*                                                                          *)
(* The functions of Parse that are defined by recursion are unfolded here   *)
(* in the same way each: a function that solves the recursive equation      *)
(* exists (Forward and Backward below), so the one that is chosen solves it. *)
(***************************************************************************)
EXTENDS Parse, WellFoundedInduction, SequenceTheorems, TLAPS

-----------------------------------------------------------------------------
(* Least numbers, and functions defined by recursion.                       *)

LEMMA Smallest ==
    ASSUME NEW T, T \subseteq Nat, T # {}
    PROVE  \E m \in T : \A k \in T : m <= k
<1> DEFINE R == OpToRel(<, Nat)
<1>1. IsWellFoundedOn(R, Nat)
  BY NatLessThanWellFounded
<1>2. PICK m \in T : \A k \in T : ~ (<<k, m>> \in R)
  <2> HIDE DEF R
  <2> QED BY <1>1, WFMin
<1>3. \A k \in T : ~ (k < m)
  BY <1>2 DEF OpToRel
<1>4. ASSUME NEW k \in T PROVE m <= k
  <2>1. m \in Nat /\ k \in Nat /\ ~ (k < m)
    BY <1>3
  <2> QED BY <2>1
<1> QED BY <1>4

LEMMA Largest ==
    ASSUME NEW n \in Nat, NEW T, T \subseteq 0 .. n, T # {}
    PROVE  \E m \in T : \A k \in T : k <= m
<1> DEFINE U == {n - k : k \in T}
<1>1. U \subseteq Nat /\ U # {}
  <2>1. \A k \in T : n - k \in Nat
    OBVIOUS
  <2>2. PICK k : k \in T
    OBVIOUS
  <2>3. n - k \in U
    BY <2>2
  <2> QED BY <2>1, <2>3
<1>2. PICK u \in U : \A k \in U : u <= k
  <2> HIDE DEF U
  <2> QED BY <1>1, Smallest
<1>3. PICK m \in T : u = n - m
  OBVIOUS
<1>4. \A k \in T : u <= n - k
  BY <1>2
<1>5. \A k \in T : k <= m
  BY <1>3, <1>4
<1> QED BY <1>5

\* A function whose value at k is made from the one at k - 1.
Forward(f, n, V, a, G) ==
    f \in [0 .. n -> V] /\ f[0] = a /\ \A k \in 1 .. n : f[k] = G[k][f[k - 1]]

LEMMA RecursionExists ==
    ASSUME NEW V, NEW n \in Nat, NEW a \in V, NEW G \in [1 .. n -> [V -> V]]
    PROVE  \E f : Forward(f, n, V, a, G)
<1> DEFINE Good(m, f) == Forward(f, m, V, a, G)
           T == {m \in 0 .. n : ~\E f : Good(m, f)}
<1>1. ASSUME T # {} PROVE FALSE
  <2>1. T \subseteq Nat
    OBVIOUS
  <2>2. PICK m \in T : \A k \in T : m <= k
    <3> HIDE DEF T
    <3> QED BY <1>1, <2>1, Smallest
  <2>3. CASE m = 0
    <3>1. Good(0, [i \in 0 .. 0 |-> a])
      BY DEF Forward
    <3> QED BY <2>2, <2>3, <3>1
  <2>4. CASE m # 0
    <3>1. m - 1 \in 0 .. n /\ m - 1 \notin T /\ m \in 1 .. n
      BY <2>2, <2>4
    <3>2. PICK f : Good(m - 1, f)
      BY <3>1
    <3> DEFINE g == [i \in 0 .. m |-> IF i = m THEN G[m][f[m - 1]] ELSE f[i]]
    <3>3. f[m - 1] \in V /\ G[m] \in [V -> V] /\ G[m][f[m - 1]] \in V
      BY <3>1, <3>2 DEF Forward
    <3>4. g \in [0 .. m -> V] /\ g[0] = a
      BY <3>1, <3>2, <3>3 DEF Forward
    <3>5. ASSUME NEW k \in 1 .. m PROVE g[k] = G[k][g[k - 1]]
      <4>1. CASE k = m
        BY <3>1, <4>1
      <4>2. CASE k # m
        BY <3>1, <3>2, <4>2 DEF Forward
      <4> QED BY <4>1, <4>2
    <3> HIDE DEF g
    <3>6. Good(m, g)
      BY <3>4, <3>5 DEF Forward
    <3> QED BY <2>2, <3>6
  <2> QED BY <2>3, <2>4
<1>2. n \notin T
  BY <1>1
<1>3. PICK f : Good(n, f)
  BY <1>2
<1> QED BY <1>3

\* A function whose value at o is made from the one at a place behind o.
Backward(f, first, last, V, more, next, base, G) ==
    /\ f \in [first .. last -> V]
    /\ \A o \in first .. last : f[o] = IF o \in more THEN G[o][f[next[o]]] ELSE base[o]

LEMMA BackwardExists ==
    ASSUME NEW V, NEW first \in Nat, NEW last \in Nat, first <= last,
           NEW more \in SUBSET (first .. last),
           NEW next \in [more -> first .. last], \A o \in more : o < next[o],
           NEW base \in [first .. last -> V], NEW G \in [first .. last -> [V -> V]]
    PROVE  \E f : Backward(f, first, last, V, more, next, base, G)
<1> DEFINE Value(o, f) == IF o \in more THEN G[o][f[next[o]]] ELSE base[o]
           Good(m, f) == f \in [m .. last -> V] /\ \A o \in m .. last : f[o] = Value(o, f)
           T == {m \in first .. last : ~\E f : Good(m, f)}
<1>1. ASSUME T # {} PROVE FALSE
  <2>1. T \subseteq 0 .. last
    OBVIOUS
  <2>2. PICK m \in T : \A k \in T : k <= m
    <3> HIDE DEF T
    <3> QED BY <1>1, <2>1, Largest
  <2>3. m \in first .. last
    OBVIOUS
  <2>4. ASSUME NEW f \in [m + 1 .. last -> V],
               \A o \in m + 1 .. last : f[o] = Value(o, f)
        PROVE  FALSE
    <3> DEFINE x == Value(m, f)
               g == [i \in m .. last |-> IF i = m THEN x ELSE f[i]]
    <3>1. x \in V
      <4>1. CASE m \in more
        <5>1. next[m] \in m + 1 .. last /\ G[m] \in [V -> V]
          BY <2>3, <4>1
        <5>2. f[next[m]] \in V
          BY <5>1
        <5> QED BY <4>1, <5>1, <5>2
      <4>2. CASE m \notin more
        BY <2>3, <4>2
      <4> QED BY <4>1, <4>2
    <3>2. g \in [m .. last -> V]
      <4> HIDE DEF x
      <4> QED BY SMTT(30), <2>3, <3>1
    <3>3. ASSUME NEW o \in m .. last PROVE g[o] = Value(o, g)
      <4>1. o \in more => next[o] \in m + 1 .. last
        BY <2>3
      <4>2. o \in more => g[next[o]] = f[next[o]]
        <5> HIDE DEF x
        <5> QED BY <2>3, <4>1
      <4>3. Value(o, g) = Value(o, f)
        BY <4>2
      <4>4. g[o] = Value(o, f)
        <5>1. CASE o = m
          BY <5>1
        <5>2. CASE o # m
          <6>1. o \in m + 1 .. last
            BY <2>3, <5>2
          <6>2. g[o] = f[o]
            <7> HIDE DEF x
            <7> QED BY <5>2
          <6> QED BY <2>4, <6>1, <6>2
        <5> QED BY <5>1, <5>2
      <4> QED BY <4>3, <4>4
    <3> HIDE DEF g, Value
    <3>4. Good(m, g)
      BY <3>2, <3>3
    <3> QED BY <2>2, <3>4
  <2>5. CASE m = last
    <3>1. [i \in {} |-> i] \in [m + 1 .. last -> V]
      BY <2>5
    <3> QED BY <2>4, <2>5, <3>1
  <2>6. CASE m # last
    <3>1. m + 1 \in first .. last
      BY <2>3, <2>6
    <3>2. m + 1 \notin T
      <4>1. ~ (m + 1 <= m)
        BY <2>3
      <4> HIDE DEF T
      <4> QED BY <2>2, <4>1
    <3>3. PICK f : Good(m + 1, f)
      BY <3>1, <3>2
    <3> QED BY <2>4, <3>3
  <2> QED BY <2>5, <2>6
<1>2. first \notin T
  BY <1>1
<1>3. PICK f : Good(first, f)
  BY <1>2
<1> QED BY <1>3 DEF Backward

-----------------------------------------------------------------------------
(* The scanner.                                                             *)

LEMMA SpanEnds ==
    ASSUME NEW text, Len(text) \in Nat, NEW off \in 0 .. Len(text), NEW chars
    PROVE  /\ span(text, off, chars) \in off .. Len(text)
           /\ \A i \in off .. span(text, off, chars) - 1 : text[i + 1] \in chars
           /\ ~next_in(text, span(text, off, chars), chars)
<1> DEFINE T == {end \in off .. Len(text) : ~next_in(text, end, chars)}
           Ends(end) == /\ \A i \in off .. end - 1 : text[i + 1] \in chars
                        /\ ~next_in(text, end, chars)
<1>1. T \subseteq Nat /\ T # {}
  <2>1. Len(text) \in T
    BY DEF next_in
  <2> QED BY <2>1
<1>2. PICK m \in T : \A k \in T : m <= k
  <2> HIDE DEF T
  <2> QED BY <1>1, Smallest
<1>3. Ends(m)
  <2>1. \A i \in off .. m - 1 : i \in off .. Len(text) /\ ~(m <= i)
    BY <1>2
  <2>2. \A i \in off .. m - 1 : next_in(text, i, chars)
    BY <1>2, <2>1
  <2> QED BY <1>2, <2>2 DEF next_in
<1>4. span(text, off, chars) = CHOOSE end \in off .. Len(text) : Ends(end)
  BY DEF span
<1>5. m \in off .. Len(text)
  BY <1>2
<1> HIDE DEF Ends
<1>6. span(text, off, chars) \in off .. Len(text) /\ Ends(span(text, off, chars))
  BY <1>3, <1>4, <1>5
<1> QED BY <1>6 DEF Ends

-----------------------------------------------------------------------------
(* Numbers.                                                                 *)

LEMMA DigitIsNumber ==
    ASSUME NEW c \in Digit
    PROVE  DigitValue(c) \in 0 .. 9
<1>1. PICK i \in 1 .. 10 : DigitChars[i] = c
  BY Zenon DEF Digit
<1>2. (CHOOSE j \in 1 .. 10 : DigitChars[j] = c) \in 1 .. 10
  BY Zenon, <1>1
<1> QED BY SMT, <1>2 DEF DigitValue

\* What one more digit makes of a value, without a limit and with one.
Longer(v, d, base) == v * base + d
Limited(v, d, base, max) == IF v = -1 \/ v > (max - d) \div base THEN -1 ELSE v * base + d

LEMMA LimitedRange ==
    ASSUME NEW base \in {10, 16}, NEW max \in Nat, NEW d \in 0 .. 9, NEW v \in -1 .. max
    PROVE  Limited(v, d, base, max) \in -1 .. max
<1>1. CASE base = 10
  BY SMT, <1>1 DEF Limited
<1>2. CASE base = 16
  BY SMT, <1>2 DEF Limited
<1> QED BY <1>1, <1>2

IsDigits(digits) == /\ Len(digits) \in Nat
                    /\ \A k \in 1 .. Len(digits) : DigitValue(digits[k]) \in 0 .. 9

\* Accumulated() is what its definition says: a solution of its recursive
\* equation exists, so the function it chooses is one.
LEMMA AccumulatedUnfolds ==
    ASSUME NEW digits, IsDigits(digits), NEW base \in {10, 16}, NEW max \in Nat
    PROVE  LET value == Accumulated(digits, base, max)
           IN  /\ value \in [0 .. Len(digits) -> -1 .. max]
               /\ value[0] = 0
               /\ \A k \in 1 .. Len(digits) :
                     value[k] = Limited(value[k - 1], DigitValue(digits[k]), base, max)
<1> DEFINE n == Len(digits)
           d(k) == DigitValue(digits[k])
           V == -1 .. max
           G == [k \in 1 .. n |-> [v \in V |-> Limited(v, d(k), base, max)]]
           Sol(f) == f = [k \in 0 .. n |->
                            IF k = 0 THEN 0
                            ELSE IF f[k - 1] = -1 \/ f[k - 1] > (max - d(k)) \div base THEN -1
                                 ELSE f[k - 1] * base + d(k)]
           Unfolded(f) == /\ f \in [0 .. n -> V]
                          /\ f[0] = 0
                          /\ \A k \in 1 .. n : f[k] = Limited(f[k - 1], d(k), base, max)
<1>1. n \in Nat /\ \A k \in 1 .. n : d(k) \in 0 .. 9
  BY DEF IsDigits
<1>2. Accumulated(digits, base, max) = CHOOSE g : Sol(g)
  BY DEF Accumulated
<1> HIDE DEF n, d
<1>3. G \in [1 .. n -> [V -> V]]
  BY <1>1, LimitedRange
<1>4. PICK f : Forward(f, n, V, 0, G)
  <2>1. 0 \in V
    OBVIOUS
  <2> HIDE DEF G, V
  <2> QED BY Zenon, <1>1, <1>3, <2>1, RecursionExists
<1>5. \A k \in 1 .. n : f[k] = Limited(f[k - 1], d(k), base, max)
  <2>1. \A k \in 1 .. n : f[k - 1] \in V
    BY <1>1, <1>4 DEF Forward
  <2> QED BY <1>4, <2>1 DEF Forward
<1>6. Sol(f)
  <2>1. ASSUME NEW k \in 0 .. n
        PROVE  f[k] = IF k = 0 THEN 0
                      ELSE IF f[k - 1] = -1 \/ f[k - 1] > (max - d(k)) \div base THEN -1
                           ELSE f[k - 1] * base + d(k)
    <3>1. CASE k = 0
      BY <1>4, <3>1 DEF Forward
    <3>2. CASE k # 0
      <4>1. k \in 1 .. n
        BY <1>1, <3>2
      <4> QED BY <1>5, <3>2, <4>1 DEF Limited
    <3> QED BY <3>1, <3>2
  <2> QED BY <1>4, <2>1 DEF Forward
<1>7. Sol(Accumulated(digits, base, max))
  <2> HIDE DEF Sol
  <2> QED BY <1>2, <1>6
<1>8. ASSUME NEW g, Sol(g) PROVE Unfolded(g)
  <2>1. DOMAIN g = 0 .. n
    BY <1>8
  <2>2. g[0] = 0
    BY <1>1, <1>8
  <2>3. \A k \in 1 .. n : g[k] = Limited(g[k - 1], d(k), base, max)
    BY <1>1, <1>8 DEF Limited
  <2>4. ASSUME NEW k \in 0 .. n PROVE g[k] = f[k]
    <3> DEFINE D == {i \in 0 .. n : g[i] # f[i]}
    <3>1. ASSUME D # {} PROVE FALSE
      <4>1. D \subseteq Nat
        BY <1>1
      <4>2. PICK m \in D : \A i \in D : m <= i
        <5> HIDE DEF D
        <5> QED BY <3>1, <4>1, Smallest
      <4>3. m # 0
        BY <1>4, <2>2 DEF Forward
      <4>4. m \in 1 .. n /\ m - 1 \in 0 .. n /\ m - 1 \notin D
        BY <1>1, <4>2, <4>3
      <4>5. g[m - 1] = f[m - 1]
        BY <4>4
      <4>6. g[m] = f[m]
        BY <1>5, <2>3, <4>4, <4>5
      <4> QED BY <4>6
    <3> QED BY <3>1
  <2>5. g = f
    BY <1>4, <1>8, <2>1, <2>4 DEF Forward
  <2> QED BY <1>4, <2>2, <2>3, <2>5 DEF Forward
<1>9. Unfolded(Accumulated(digits, base, max))
  <2> HIDE DEF Sol, Unfolded
  <2> QED BY <1>7, <1>8
<1> QED BY <1>9 DEF n, d

LEMMA LimitedExact ==
    ASSUME NEW base \in {10, 16}, NEW max \in Nat, NEW d \in 0 .. 9, NEW e \in Nat
    PROVE  Limited(IF e <= max THEN e ELSE -1, d, base, max) =
              IF e * base + d <= max THEN e * base + d ELSE -1
<1>1. CASE base = 10
  BY SMT, <1>1 DEF Limited
<1>2. CASE base = 16
  BY SMT, <1>2 DEF Limited
<1> QED BY <1>1, <1>2

\* The value that parse_u8_base10() and its siblings and content_length() hold
\* after each digit is the value of the digits so far, and they stop at the first
\* digit that takes it beyond the limit, for any number of digits: the test
\* against (max - digit) / base never lets it pass the limit or stops too early.
THEOREM NumeralExact ==
    ASSUME NEW digits, IsDigits(digits), NEW base \in {10, 16}, NEW max \in Nat,
           NEW exact \in [0 .. Len(digits) -> Nat], exact[0] = 0,
           \A k \in 1 .. Len(digits) : exact[k] = exact[k - 1] * base + DigitValue(digits[k])
    PROVE  \A k \in 0 .. Len(digits) :
              Accumulated(digits, base, max)[k] = IF exact[k] <= max THEN exact[k] ELSE -1
<1> DEFINE n == Len(digits)
           d(k) == DigitValue(digits[k])
           value == Accumulated(digits, base, max)
           As(k) == value[k] = IF exact[k] <= max THEN exact[k] ELSE -1
           D == {k \in 0 .. n : ~As(k)}
<1>1. n \in Nat /\ \A k \in 1 .. n : d(k) \in 0 .. 9
  BY DEF IsDigits
<1>2. value[0] = 0 /\ \A k \in 1 .. n : value[k] = Limited(value[k - 1], d(k), base, max)
  BY AccumulatedUnfolds
<1> HIDE DEF n, d, value
<1>3. exact[0] = 0 /\ \A k \in 1 .. n : exact[k] \in Nat /\ exact[k - 1] \in Nat
                                         /\ exact[k] = exact[k - 1] * base + d(k)
  <2>1. \A k \in 1 .. n : k - 1 \in 0 .. n /\ k \in 0 .. n
    BY <1>1
  <2> QED BY <2>1 DEF n, d
<1>4. ASSUME D # {} PROVE FALSE
  <2>1. D \subseteq Nat
    BY <1>1
  <2>2. PICK m \in D : \A i \in D : m <= i
    <3> HIDE DEF D
    <3> QED BY <1>4, <2>1, Smallest
  <2>3. As(0)
    BY <1>2, <1>3
  <2>4. m # 0 /\ m \in 0 .. n /\ ~As(m)
    <3>1. m \in 0 .. n /\ ~As(m)
      BY <2>2
    <3> HIDE DEF As
    <3> QED BY <2>3, <3>1
  <2>5. m \in 1 .. n /\ m - 1 \in 0 .. n
    BY <1>1, <2>4
  <2>6. As(m - 1)
    <3>1. ~ (m <= m - 1)
      BY <2>5
    <3> HIDE DEF As
    <3> QED BY <2>2, <2>5, <3>1
  <2>7. value[m] = Limited(value[m - 1], d(m), base, max)
    BY <1>2, <2>5
  <2>8. exact[m - 1] \in Nat /\ d(m) \in 0 .. 9 /\ exact[m] = exact[m - 1] * base + d(m)
    BY <1>1, <1>3, <2>5
  <2>9. value[m] = IF exact[m] <= max THEN exact[m] ELSE -1
    <3>1. value[m - 1] = IF exact[m - 1] <= max THEN exact[m - 1] ELSE -1
      BY Zenon, <2>6
    <3>2. Limited(IF exact[m - 1] <= max THEN exact[m - 1] ELSE -1, d(m), base, max) =
            IF exact[m - 1] * base + d(m) <= max THEN exact[m - 1] * base + d(m) ELSE -1
      <4> HIDE DEF As, D
      <4> QED BY Zenon, <2>8, LimitedExact
    <3> HIDE DEF As, D
    <3> QED BY Zenon, <2>7, <2>8, <3>1, <3>2
  <2> QED BY <2>4, <2>9
<1>5. \A k \in 0 .. n : As(k)
  BY <1>4
<1> QED BY <1>5 DEF n, value

LEMMA CountIn ==
    ASSUME NEW n \in Nat, NEW value, DOMAIN value = 0 .. n, value[0] # -1
    PROVE  /\ count_in(value) \in 0 .. n
           /\ value[count_in(value)] # -1
           /\ count_in(value) + 1 \in 0 .. n => value[count_in(value) + 1] = -1
<1> DEFINE P(k) == value[k] # -1 /\ (k + 1 \in DOMAIN value => value[k + 1] = -1)
           T == {k \in 0 .. n : value[k] # -1}
<1>1. T \subseteq 0 .. n /\ T # {}
  <2>1. 0 \in T
    OBVIOUS
  <2> QED BY <2>1
<1>2. PICK m \in T : \A k \in T : k <= m
  <2> HIDE DEF T
  <2> QED BY <1>1, Largest
<1>3. m \in 0 .. n /\ value[m] # -1
  BY <1>2
<1>4. m + 1 \in 0 .. n => value[m + 1] = -1
  <2>1. ~ (m + 1 <= m)
    BY <1>3
  <2> QED BY <1>2, <2>1
<1>5. \E k \in DOMAIN value : P(k)
  BY <1>3, <1>4
<1>6. count_in(value) = CHOOSE k \in DOMAIN value : P(k)
  BY DEF count_in
<1> HIDE DEF P
<1>7. count_in(value) \in DOMAIN value /\ P(count_in(value))
  BY Zenon, <1>5, <1>6
<1> QED BY <1>7 DEF P

\* The results a parser may have: it leaves the cursor between "off" and the end
\* of the text, and reads a value in S.
Results(text, off, S) ==
    [res: {"true"}, off: off .. Len(text), val: S]
        \cup [res: {"false"}, off: off .. Len(text)]
        \cup {Abort}

\* The digits a number is read from.
LEMMA DigitsOf ==
    ASSUME NEW text \in Seq(Char), NEW off \in 0 .. Len(text)
    PROVE  LET end == span(text, off, Digit)
               digits == SubSeq(text, off + 1, end)
           IN  end \in off .. Len(text) /\ IsDigits(digits) /\ Len(digits) = end - off
<1> DEFINE end == span(text, off, Digit)
           digits == SubSeq(text, off + 1, end)
<1>1. Len(text) \in Nat
  OBVIOUS
<1>2. end \in off .. Len(text) /\ \A i \in off .. end - 1 : text[i + 1] \in Digit
  BY <1>1, SpanEnds
<1> HIDE DEF end
<1>3. Len(digits) = end - off /\ \A k \in 1 .. end - off : digits[k] = text[off + k]
  BY <1>1, <1>2
<1>4. ASSUME NEW k \in 1 .. end - off PROVE digits[k] \in Digit
  <2>1. off + k - 1 \in off .. end - 1 /\ (off + k - 1) + 1 = off + k
    BY <1>1, <1>2
  <2>2. text[off + k] \in Digit
    BY <1>2, <2>1
  <2> QED BY <1>3, <2>2
<1> HIDE DEF digits
<1>5. IsDigits(digits)
  <2>1. Len(digits) \in Nat
    BY <1>1, <1>2, <1>3
  <2>2. \A k \in 1 .. Len(digits) : DigitValue(digits[k]) \in 0 .. 9
    BY <1>3, <1>4, DigitIsNumber
  <2> QED BY <2>1, <2>2 DEF IsDigits
<1> QED BY <1>2, <1>3, <1>5 DEF end, digits

LEMMA NumberRead ==
    ASSUME NEW text \in Seq(Char), NEW off \in 0 .. Len(text), NEW base \in {10, 16},
           NEW max \in Nat, max >= 9
    PROVE  /\ parse_number(text, off, base, max) \in Results(text, off, 0 .. max)
           /\ base = 10 => parse_number(text, off, base, max) # Abort
<1> DEFINE end == span(text, off, Digit)
           digits == SubSeq(text, off + 1, end)
           value == Accumulated(digits, base, max)
           n == Len(digits)
           count == count_in(value)
<1>1. end \in off .. Len(text) /\ IsDigits(digits) /\ n = end - off
  BY DigitsOf
<1> HIDE DEF end, digits
<1>2. /\ value \in [0 .. n -> -1 .. max]
      /\ value[0] = 0
      /\ \A k \in 1 .. n : value[k] = Limited(value[k - 1], DigitValue(digits[k]), base, max)
  BY <1>1, AccumulatedUnfolds
<1>3. n \in Nat /\ \A k \in 1 .. n : DigitValue(digits[k]) \in 0 .. 9
  BY <1>1 DEF IsDigits
<1>4. parse_number(text, off, base, max) = number_of(text, off, base, value)
  BY DEF parse_number, end, digits
<1> HIDE DEF value, n
<1>5. count \in 0 .. n /\ value[count] # -1 /\ (count + 1 \in 0 .. n => value[count + 1] = -1)
  <2>1. DOMAIN value = 0 .. n /\ value[0] # -1
    BY <1>2
  <2> QED BY Zenon, <1>3, <2>1, CountIn
<1> HIDE DEF count
<1>6. value[count] \in 0 .. max
  BY <1>2, <1>3, <1>5
<1>7. count + 1 \in 0 .. n => count # 0
  <2>1. ASSUME 1 \in 1 .. n PROVE value[1] # -1
    <3>1. DigitValue(digits[1]) \in 0 .. 9 /\ value[1] = Limited(0, DigitValue(digits[1]), base, max)
      BY <1>2, <1>3, <2>1
    <3>2. CASE base = 10
      BY SMTT(30), <3>1, <3>2 DEF Limited
    <3>3. CASE base = 16
      BY SMTT(30), <3>1, <3>3 DEF Limited
    <3> QED BY <3>2, <3>3
  <2> QED BY <1>3, <1>5, <2>1
<1>8. off + count \in off .. Len(text) /\ (count # 0 => off + count - 1 \in off .. Len(text))
  <2>1. Len(text) \in Nat
    OBVIOUS
  <2> QED BY <1>1, <1>5, <2>1
<1>9. DOMAIN value = 0 .. n
  BY <1>2
<1>10. CASE count + 1 \in 0 .. n
  <2>1. number_of(text, off, base, value) = Read(off + count - 1, value[count])
    BY <1>9, <1>10 DEF number_of, count
  <2> QED BY <1>4, <1>6, <1>7, <1>8, <1>10, <2>1 DEF Results, Read, Abort
<1>11. CASE count + 1 \notin 0 .. n
  <2>1. number_of(text, off, base, value) =
          IF base = 16 /\ next_in(text, off + count, HexLetter) THEN Abort
          ELSE IF count = 0 THEN Unread(off)
          ELSE Read(off + count, value[count])
    BY <1>9, <1>11 DEF number_of, count
  <2> QED BY <1>4, <1>6, <1>8, <2>1 DEF Results, Read, Unread, Abort
<1> QED BY <1>10, <1>11

-----------------------------------------------------------------------------
(* Addresses.                                                               *)

LEMMA Upwards ==
    ASSUME NEW n \in Nat, NEW T, 0 \in T, \A k \in 1 .. n : k - 1 \in T => k \in T
    PROVE  0 .. n \subseteq T
<1> DEFINE D == {k \in 0 .. n : k \notin T}
<1>1. ASSUME D # {} PROVE FALSE
  <2>1. D \subseteq Nat
    OBVIOUS
  <2>2. PICK m \in D : \A k \in D : m <= k
    <3> HIDE DEF D
    <3> QED BY <1>1, <2>1, Smallest
  <2>3. m \in 1 .. n /\ m - 1 \in 0 .. n /\ ~ (m <= m - 1)
    OBVIOUS
  <2>4. m - 1 \in T
    BY <2>2, <2>3
  <2> QED BY <2>3, <2>4
<1> QED BY <1>1

Limit(max) == max \in Nat /\ max >= 9

\* A group was read behind those of s, or none.
OneMore(r, s, text, from, base, max) ==
    /\ r \in Results(text, from, Seq(0 .. max))
    /\ base = 10 => r # Abort
    /\ r.res = "true" => Len(r.val) = Len(s.val) + 1

LEMMA GroupRead ==
    ASSUME NEW text \in Seq(Char), NEW from \in 0 .. Len(text), NEW sep, NEW base \in {10, 16},
           NEW max, Limit(max),
           NEW s \in [res: {"true"}, off: from .. Len(text), val: Seq(0 .. max)]
    PROVE  OneMore(next_group(text, s, sep, base, max), s, text, from, base, max)
<1> DEFINE at == IF s.val = <<>> THEN s.off ELSE s.off + 1
           number == parse_number(text, at, base, max)
           r == next_group(text, s, sep, base, max)
<1> SUFFICES OneMore(r, s, text, from, base, max)
  OBVIOUS
<1>1. r = IF s.val # <<>> /\ ~next_in(text, s.off, {sep}) THEN Unread(s.off)
          ELSE IF number.res = "true" THEN Read(number.off, Append(s.val, number.val))
          ELSE number
  BY DEF next_group, Then
<1> HIDE DEF r
<1>2. CASE s.val # <<>> /\ ~next_in(text, s.off, {sep})
  <2>1. s.off \in from .. Len(text)
    OBVIOUS
  <2>2. r = Unread(s.off)
    BY <1>1, <1>2
  <2> QED BY <2>1, <2>2 DEF Results, Unread, Abort, OneMore
<1>3. CASE ~(s.val # <<>> /\ ~next_in(text, s.off, {sep}))
  <2>1. at \in s.off .. Len(text)
    <3>1. Len(text) \in Nat
      OBVIOUS
    <3> QED BY <1>3, <3>1 DEF next_in
  <2> HIDE DEF at
  <2>2. s.off \in from .. Len(text) /\ s.val \in Seq(0 .. max) /\ Len(text) \in Nat
    OBVIOUS
  <2>3. at \in 0 .. Len(text)
    BY <2>1, <2>2
  <2>4. number \in Results(text, at, 0 .. max) /\ (base = 10 => number # Abort)
    BY <2>3, NumberRead DEF Limit
  <2> HIDE DEF number
  <2>5. at .. Len(text) \subseteq from .. Len(text)
    BY <2>1, <2>2
  <2>6. r = IF number.res = "true" THEN Read(number.off, Append(s.val, number.val)) ELSE number
    BY <1>1, <1>3
  <2>7. CASE number.res = "true"
    <3>1. number.off \in from .. Len(text) /\ number.val \in 0 .. max
      BY <2>4, <2>5, <2>7 DEF Results, Abort
    <3>2. Append(s.val, number.val) \in Seq(0 .. max) /\ Len(Append(s.val, number.val)) = Len(s.val) + 1
      BY <2>2, <3>1
    <3> QED BY <2>6, <2>7, <3>1, <3>2 DEF Results, Read, Abort, OneMore
  <2>8. CASE number.res # "true"
    <3>1. r = number
      BY <2>6, <2>8
    <3>2. number \in [res: {"false"}, off: at .. Len(text)] \/ number = Abort
      BY <2>4, <2>8 DEF Results
    <3>3. CASE number = Abort
      BY <2>4, <3>1, <3>3 DEF Results, Abort, OneMore
    <3>4. CASE number \in [res: {"false"}, off: at .. Len(text)]
      <4>1. number \in [res: {"false"}, off: from .. Len(text)]
        BY <2>5, <3>4
      <4>2. number # Abort
        BY <3>4 DEF Abort
      <4> QED BY <2>8, <3>1, <4>1, <4>2 DEF Results, OneMore
    <3> QED BY <3>2, <3>3, <3>4
  <2> QED BY <2>7, <2>8
<1> QED BY <1>2, <1>3

\* The octets that parse_ipv4() reads one behind another.
Octets(g, text, off) ==
    /\ g[0] = Read(off, <<>>)
    /\ \A i \in 1 .. 4 : g[i] = IF g[i - 1].res = "true"
                               THEN next_group(text, g[i - 1], ".", 10, UINT8_MAX) ELSE g[i - 1]
    /\ g[4] \in Results(text, off, Seq(0 .. UINT8_MAX)) \ {Abort}
    /\ g[4].res = "true" => Len(g[4].val) = 4

LEMMA IPv4Unfolds ==
    ASSUME NEW text \in Seq(Char), NEW off \in 0 .. Len(text)
    PROVE  \E g : Octets(g, text, off) /\ parse_ipv4(text, off) = g[4]
<1> DEFINE max == UINT8_MAX
           V == Results(text, off, Seq(0 .. max)) \ {Abort}
           step(v) == IF v.res = "true" THEN next_group(text, v, ".", 10, max) ELSE v
           G == [i \in 1 .. 4 |-> [v \in V |-> step(v)]]
           Sol(g) == g = [i \in 0 .. 4 |-> IF i = 0 THEN Read(off, <<>>) ELSE step(g[i - 1])]
           Counted(k, v) == v \in V /\ (v.res = "true" => Len(v.val) = k)
<1>1. parse_ipv4(text, off) = (CHOOSE g : Sol(g))[4]
  BY DEF parse_ipv4, Then
<1>2. ASSUME NEW v \in V PROVE step(v) \in V /\ (step(v).res = "true" => v.res = "true" /\ Len(step(v).val) = Len(v.val) + 1)
  <2>1. CASE v.res = "true"
    <3>1. v \in [res: {"true"}, off: off .. Len(text), val: Seq(0 .. max)]
      BY <2>1 DEF Results, Abort
    <3>2. Limit(max)
      BY LimitsAssumption DEF Limit
    <3> HIDE DEF max
    <3> DEFINE r == next_group(text, v, ".", 10, max)
    <3>3. OneMore(r, v, text, off, 10, max)
      BY <3>1, <3>2, GroupRead
    <3> HIDE DEF r
    <3>4. step(v) = r
      BY <2>1 DEF r
    <3> QED BY <2>1, <3>3, <3>4 DEF OneMore
  <2>2. CASE v.res # "true"
    BY <2>2
  <2> QED BY <2>1, <2>2
<1>3. Read(off, <<>>) \in V /\ Counted(0, Read(off, <<>>))
  BY DEF Results, Read, Abort
<1>4. PICK f : Forward(f, 4, V, Read(off, <<>>), G)
  <2>1. G \in [1 .. 4 -> [V -> V]]
    <3> HIDE DEF V, step
    <3> QED BY <1>2
  <2>2. 4 \in Nat
    OBVIOUS
  <2> HIDE DEF V, G
  <2> QED BY Zenon, <1>3, <2>1, <2>2, RecursionExists
<1>5. Sol(f)
  <2>1. \A i \in 1 .. 4 : i - 1 \in 0 .. 4
    OBVIOUS
  <2>2. \A i \in 1 .. 4 : f[i - 1] \in V /\ f[i] = G[i][f[i - 1]]
    <3> HIDE DEF V, G
    <3> QED BY Zenon, <1>4, <2>1 DEF Forward
  <2>3. \A i \in 1 .. 4 : f[i] = step(f[i - 1])
    <3> HIDE DEF V, step
    <3> QED BY <2>2
  <2>4. f = [i \in 0 .. 4 |-> f[i]] /\ f[0] = Read(off, <<>>)
    <3> HIDE DEF V, step, G
    <3> QED BY <1>4 DEF Forward
  <2>5. \A i \in 0 .. 4 : f[i] = IF i = 0 THEN Read(off, <<>>) ELSE step(f[i - 1])
    <3> HIDE DEF V, step, G
    <3> QED BY <2>3, <2>4
  <2> HIDE DEF step, V, G
  <2> QED BY <2>4, <2>5
<1>6. ASSUME NEW g, Sol(g) PROVE Counted(4, g[4])
  <2>1. g[0] = Read(off, <<>>) /\ \A i \in 1 .. 4 : g[i] = step(g[i - 1])
    <3> HIDE DEF step
    <3> QED BY <1>6
  <2> DEFINE T == {i \in 0 .. 4 : Counted(i, g[i])}
  <2>2. 0 \in T
    <3> HIDE DEF Counted
    <3> QED BY <1>3, <2>1
  <2>3. ASSUME NEW k \in 1 .. 4, k - 1 \in T PROVE k \in T
    <3>1. g[k - 1] \in V /\ (g[k - 1].res = "true" => Len(g[k - 1].val) = k - 1)
      BY Zenon, <2>3
    <3>2. g[k] = step(g[k - 1])
      BY <2>1
    <3> HIDE DEF V, step
    <3>3. Counted(k, g[k])
      BY <1>2, <3>1, <3>2
    <3> HIDE DEF Counted
    <3> QED BY <3>3
  <2>4. 0 .. 4 \subseteq T
    <3>1. 4 \in Nat /\ \A k \in 1 .. 4 : k - 1 \in T => k \in T
      BY <2>3
    <3> HIDE DEF T
    <3> QED BY <2>2, <3>1, Upwards
  <2>5. 4 \in T
    <3> HIDE DEF T
    <3> QED BY <2>4
  <2> HIDE DEF Counted
  <2> QED BY <2>5
<1>7. Sol(CHOOSE g : Sol(g))
  <2> HIDE DEF Sol
  <2> QED BY <1>5
<1>8. ASSUME NEW g, Sol(g) PROVE Octets(g, text, off)
  <2>1. g[0] = Read(off, <<>>) /\ \A i \in 1 .. 4 : g[i] = step(g[i - 1])
    <3> HIDE DEF step
    <3> QED BY <1>8
  <2>2. Counted(4, g[4])
    <3> HIDE DEF Sol, Counted
    <3> QED BY <1>6, <1>8
  <2> QED BY Zenon, <2>1, <2>2 DEF Octets
<1> HIDE DEF Sol
<1> QED BY Zenon, <1>1, <1>7, <1>8

LEMMA IPv4Bounded ==
    ASSUME NEW text \in Seq(Char), NEW off \in 0 .. Len(text)
    PROVE  /\ parse_ipv4(text, off) \in Results(text, off, [1 .. 4 -> 0 .. UINT8_MAX])
           /\ parse_ipv4(text, off) # Abort
<1> DEFINE max == UINT8_MAX
           r == parse_ipv4(text, off)
<1>1. /\ r \in Results(text, off, Seq(0 .. max)) \ {Abort}
      /\ r.res = "true" => Len(r.val) = 4
  BY Zenon, IPv4Unfolds DEF Octets
<1> HIDE DEF max, r
<1>2. \A s \in Seq(0 .. max) : Len(s) = 4 => s \in [1 .. 4 -> 0 .. max]
  <2>1. \A s \in Seq(0 .. max) : s \in [1 .. Len(s) -> 0 .. max]
    BY LenProperties
  <2> QED BY Zenon, <2>1
<1> QED BY <1>1, <1>2 DEF Results, Abort, max, r

Colons == <<":", ":">>

\* What groups16() returns: up to n groups, fewer only in front of "::".
UpTo(r, text, off, n, upto) ==
    /\ r \in Results(text, off, Seq(0 .. UINT16_MAX))
    /\ r.res = "true" => /\ Len(r.val) <= n
                         /\ Len(r.val) = n \/ (upto /\ sees(text, r.off, Colons))

\* The groups that groups16() reads one behind another.
Groups(g, text, off, n, upto) ==
    /\ g[0] = Read(off, <<>>)
    /\ \A i \in 1 .. n : g[i] = IF g[i - 1].res = "true"
                               THEN IF upto /\ sees(text, g[i - 1].off, Colons) THEN g[i - 1]
                                    ELSE next_group(text, g[i - 1], ":", 16, UINT16_MAX)
                               ELSE g[i - 1]
    /\ UpTo(g[n], text, off, n, upto)

LEMMA Groups16Unfold ==
    ASSUME NEW text \in Seq(Char), NEW off \in 0 .. Len(text), NEW n \in Nat, NEW upto \in BOOLEAN
    PROVE  \E g : Groups(g, text, off, n, upto) /\ groups16(text, off, n, upto) = g[n]
<1> DEFINE max == UINT16_MAX
           V == Results(text, off, Seq(0 .. max))
           step(v) == IF v.res = "true"
                      THEN IF upto /\ sees(text, v.off, Colons) THEN v
                           ELSE next_group(text, v, ":", 16, max)
                      ELSE v
           G == [i \in 1 .. n |-> [v \in V |-> step(v)]]
           Sol(g) == g = [i \in 0 .. n |-> IF i = 0 THEN Read(off, <<>>) ELSE step(g[i - 1])]
<1>1. groups16(text, off, n, upto) = (CHOOSE g : Sol(g))[n]
  BY DEF groups16, Then, Colons
<1>2. ASSUME NEW v \in V
      PROVE  /\ step(v) \in V
             /\ step(v).res = "true" =>
                   /\ v.res = "true"
                   /\ \/ step(v) = v /\ upto /\ sees(text, v.off, Colons)
                      \/ Len(step(v).val) = Len(v.val) + 1
  <2>1. CASE v.res = "true" /\ ~(upto /\ sees(text, v.off, Colons))
    <3>1. v \in [res: {"true"}, off: off .. Len(text), val: Seq(0 .. max)]
      BY <2>1 DEF Results, Abort
    <3>2. Limit(max)
      BY LimitsAssumption DEF Limit
    <3> HIDE DEF max
    <3> DEFINE r == next_group(text, v, ":", 16, max)
    <3>3. OneMore(r, v, text, off, 16, max)
      BY <3>1, <3>2, GroupRead
    <3> HIDE DEF r
    <3>4. step(v) = r
      BY <2>1 DEF r
    <3> QED BY <2>1, <3>3, <3>4 DEF OneMore
  <2>2. CASE ~(v.res = "true" /\ ~(upto /\ sees(text, v.off, Colons)))
    BY <2>2
  <2> QED BY <2>1, <2>2
<1>3. Read(off, <<>>) \in V /\ Len(Read(off, <<>>).val) = 0
  BY DEF Results, Read, Abort
<1>4. PICK f : Forward(f, n, V, Read(off, <<>>), G)
  <2>1. G \in [1 .. n -> [V -> V]]
    <3> HIDE DEF V, step
    <3> QED BY <1>2
  <2> HIDE DEF V, G
  <2> QED BY Zenon, <1>3, <2>1, RecursionExists
<1>5. Sol(f)
  <2>1. \A i \in 1 .. n : i - 1 \in 0 .. n
    OBVIOUS
  <2>2. \A i \in 1 .. n : f[i - 1] \in V /\ f[i] = G[i][f[i - 1]]
    <3> HIDE DEF V, G
    <3> QED BY Zenon, <1>4, <2>1 DEF Forward
  <2>3. \A i \in 1 .. n : f[i] = step(f[i - 1])
    <3> HIDE DEF V, step
    <3> QED BY <2>2
  <2>4. f = [i \in 0 .. n |-> f[i]] /\ f[0] = Read(off, <<>>)
    <3> HIDE DEF V, step, G
    <3> QED BY <1>4 DEF Forward
  <2>5. \A i \in 0 .. n : f[i] = IF i = 0 THEN Read(off, <<>>) ELSE step(f[i - 1])
    <3>1. \A i \in 0 .. n : i # 0 => i \in 1 .. n
      OBVIOUS
    <3> HIDE DEF V, step, G, Sol
    <3> QED BY Zenon, <2>3, <2>4, <3>1
  <2> HIDE DEF step, V, G
  <2> QED BY <2>4, <2>5
<1>6. ASSUME NEW g, Sol(g) PROVE UpTo(g[n], text, off, n, upto)
  <2>1. g[0] = Read(off, <<>>) /\ \A i \in 1 .. n : g[i] = step(g[i - 1])
    <3> HIDE DEF step
    <3> QED BY <1>6
  <2> DEFINE T == {i \in 0 .. n : UpTo(g[i], text, off, i, upto)}
  <2>2. 0 \in T
    <3>1. UpTo(Read(off, <<>>), text, off, 0, upto)
      BY <1>3 DEF UpTo
    <3> QED BY <2>1, <3>1
  <2>3. ASSUME NEW k \in 1 .. n, k - 1 \in T PROVE k \in T
    <3>1. g[k - 1] \in V /\ (g[k - 1].res = "true" =>
             /\ Len(g[k - 1].val) <= k - 1
             /\ Len(g[k - 1].val) = k - 1 \/ (upto /\ sees(text, g[k - 1].off, Colons)))
      BY Zenon, <2>3 DEF UpTo
    <3>2. g[k] = step(g[k - 1])
      BY <2>1
    <3>3. /\ g[k] \in V
          /\ g[k].res = "true" =>
                /\ g[k - 1].res = "true"
                /\ \/ g[k] = g[k - 1] /\ upto /\ sees(text, g[k - 1].off, Colons)
                   \/ Len(g[k].val) = Len(g[k - 1].val) + 1
      <4> HIDE DEF V, step
      <4> QED BY Zenon, <1>2, <3>1, <3>2
    <3>4. ASSUME g[k].res = "true"
          PROVE  Len(g[k].val) <= k /\ (Len(g[k].val) = k \/ (upto /\ sees(text, g[k].off, Colons)))
      <4>1. CASE g[k] = g[k - 1] /\ upto /\ sees(text, g[k - 1].off, Colons)
        <5>1. Len(g[k - 1].val) <= k - 1 /\ g[k - 1].val \in Seq(0 .. max)
          BY <3>1, <3>3, <3>4 DEF Results, Abort
        <5> HIDE DEF V, step, max
        <5>2. Len(g[k - 1].val) <= k
          BY <5>1
        <5> QED BY <4>1, <5>2
      <4>2. CASE Len(g[k].val) = Len(g[k - 1].val) + 1 /\ ~(upto /\ sees(text, g[k - 1].off, Colons))
        <5>1. Len(g[k - 1].val) = k - 1
          BY <3>1, <3>3, <3>4, <4>2
        <5> QED BY <4>2, <5>1
      <4>3. CASE Len(g[k].val) = Len(g[k - 1].val) + 1 /\ upto /\ sees(text, g[k - 1].off, Colons)
        <5>1. step(g[k - 1]) = g[k - 1]
          BY <3>3, <3>4, <4>3
        <5>2. g[k] = g[k - 1]
          BY <3>2, <5>1
        <5> QED BY <4>1, <4>3, <5>2
      <4> QED BY <3>3, <3>4, <4>1, <4>2, <4>3
    <3>5. UpTo(g[k], text, off, k, upto)
      BY Zenon, <3>3, <3>4 DEF UpTo
    <3> QED BY <3>5
  <2>4. 0 .. n \subseteq T
    <3>1. \A k \in 1 .. n : k - 1 \in T => k \in T
      BY <2>3
    <3> HIDE DEF T
    <3> QED BY <2>2, <3>1, Upwards
  <2>5. n \in T
    <3> HIDE DEF T
    <3> QED BY <2>4
  <2> QED BY Zenon, <2>5
<1>7. Sol(CHOOSE g : Sol(g))
  <2> HIDE DEF Sol
  <2> QED BY <1>5
<1>8. ASSUME NEW g, Sol(g) PROVE Groups(g, text, off, n, upto)
  <2>1. g[0] = Read(off, <<>>) /\ \A i \in 1 .. n : g[i] = step(g[i - 1])
    <3> HIDE DEF step
    <3> QED BY <1>8
  <2>2. UpTo(g[n], text, off, n, upto)
    <3> HIDE DEF Sol
    <3> QED BY <1>6, <1>8
  <2> QED BY Zenon, <2>1, <2>2 DEF Groups
<1> HIDE DEF Sol
<1> QED BY Zenon, <1>1, <1>7, <1>8

LEMMA Groups16Read ==
    ASSUME NEW text \in Seq(Char), NEW off \in 0 .. Len(text), NEW n \in Nat, NEW upto \in BOOLEAN
    PROVE  UpTo(groups16(text, off, n, upto), text, off, n, upto)
BY ZenonT(60), Groups16Unfold DEF Groups

LEMMA FilledRead ==
    ASSUME NEW max \in Nat, NEW head \in Seq(0 .. max), NEW tail \in Seq(0 .. max),
           Len(head) + Len(tail) <= 7
    PROVE  Filled(head, tail) \in [1 .. 8 -> 0 .. max]
<1> DEFINE zeros == [i \in 1 .. 8 - Len(head) - Len(tail) |-> 0]
<1>1. zeros \in Seq(0 .. max) /\ Len(zeros) = 8 - Len(head) - Len(tail)
  <2>1. 8 - Len(head) - Len(tail) \in Nat
    OBVIOUS
  <2>2. 0 \in 0 .. max
    OBVIOUS
  <2> QED BY <2>1, <2>2
<1>2. Filled(head, tail) = (head \o zeros) \o tail
  BY DEF Filled
<1> HIDE DEF zeros
<1>3. (head \o zeros) \o tail \in Seq(0 .. max) /\ Len((head \o zeros) \o tail) = 8
  BY <1>1
<1>4. \A s \in Seq(0 .. max) : s \in [1 .. Len(s) -> 0 .. max]
  BY LenProperties
<1> QED BY <1>2, <1>3, <1>4

LEMMA IPv6Bounded ==
    ASSUME NEW text \in Seq(Char), NEW off \in 0 .. Len(text)
    PROVE  parse_ipv6(text, off) \in Results(text, off, [1 .. 8 -> 0 .. UINT16_MAX])
<1> DEFINE max == UINT16_MAX
           head == groups16(text, off, 8, TRUE)
           at == head.off + 2
           left == 7 - Len(head.val)
           tail == groups16(text, at, left, FALSE)
<1>1. parse_ipv6(text, off) =
        IF head.res = "true"
        THEN IF Len(head.val) = 8 THEN head
             ELSE IF tail.res = "true" THEN Read(tail.off, Filled(head.val, tail.val)) ELSE tail
        ELSE head
  BY DEF parse_ipv6, Then
<1>2. UpTo(head, text, off, 8, TRUE)
  <2>1. 8 \in Nat /\ TRUE \in BOOLEAN
    OBVIOUS
  <2> QED BY Zenon, <2>1, Groups16Read
<1> HIDE DEF head
<1>3. Len(text) \in Nat /\ max \in Nat
  BY LimitsAssumption
<1>4. CASE head.res # "true"
  BY <1>1, <1>2, <1>4 DEF UpTo, Results, Abort
<1>5. CASE head.res = "true"
  <2>1. head \in [res: {"true"}, off: off .. Len(text), val: Seq(0 .. max)]
    BY <1>2, <1>5 DEF UpTo, Results, Abort
  <2>2. Len(head.val) <= 8 /\ (Len(head.val) = 8 \/ sees(text, head.off, Colons))
    BY <1>2, <1>5 DEF UpTo
  <2> HIDE DEF max
  <2>3. CASE Len(head.val) = 8
    <3>1. head.val \in [1 .. Len(head.val) -> 0 .. max]
      BY <2>1, LenProperties
    <3>2. head \in [res: {"true"}, off: off .. Len(text), val: [1 .. 8 -> 0 .. max]]
      BY <2>1, <2>3, <3>1
    <3> QED BY <1>1, <1>5, <2>3, <3>2 DEF Results, max
  <2>4. CASE Len(head.val) # 8
    <3>1. left \in Nat
      <4>1. Len(head.val) \in Nat
        BY <2>1
      <4> DEFINE length == Len(head.val)
      <4>2. length \in Nat /\ length <= 8 /\ length # 8
        BY Zenon, <2>2, <2>4, <4>1
      <4>3. left = 7 - length
        OBVIOUS
      <4> HIDE DEF length, left
      <4> QED BY <4>2, <4>3
    <3>2. at \in off .. Len(text)
      BY <1>3, <2>1, <2>2, <2>4 DEF sees, Colons
    <3>3. at \in 0 .. Len(text)
      BY <1>3, <3>2
    <3>4. left + Len(head.val) = 7
      BY <2>1
    <3> HIDE DEF at, left
    <3>5. UpTo(tail, text, at, left, FALSE)
      <4>1. FALSE \in BOOLEAN
        OBVIOUS
      <4> QED BY Zenon, <3>1, <3>3, <4>1, Groups16Read
    <3> HIDE DEF tail
    <3>6. at .. Len(text) \subseteq off .. Len(text)
      BY <1>3, <3>2
    <3>7. CASE tail.res = "true"
      <4>1. tail.off \in off .. Len(text) /\ tail.val \in Seq(0 .. max) /\ Len(tail.val) = left
        BY <3>5, <3>6, <3>7 DEF UpTo, Results, Abort, max
      <4>2. Filled(head.val, tail.val) \in [1 .. 8 -> 0 .. max]
        <5>1. head.val \in Seq(0 .. max) /\ Len(head.val) + Len(tail.val) <= 7
          BY <2>1, <3>4, <4>1
        <5> QED BY <1>3, <4>1, <5>1, FilledRead DEF max
      <4>3. parse_ipv6(text, off) = Read(tail.off, Filled(head.val, tail.val))
        BY <1>1, <1>5, <2>4, <3>7
      <4> QED BY <4>1, <4>2, <4>3 DEF Results, Read, max
    <3>8. CASE tail.res # "true"
      <4>1. tail \in [res: {"false"}, off: at .. Len(text)] \/ tail = Abort
        BY <3>5, <3>8 DEF UpTo, Results
      <4>2. tail \in [res: {"false"}, off: off .. Len(text)] \/ tail = Abort
        BY <3>6, <4>1
      <4>3. parse_ipv6(text, off) = tail
        BY <1>1, <1>5, <2>4, <3>8
      <4> QED BY <4>2, <4>3 DEF Results
    <3> QED BY <3>7, <3>8
  <2> QED BY <2>3, <2>4
<1> QED BY <1>4, <1>5

-----------------------------------------------------------------------------
(* URLs.                                                                    *)

LEMMA Opened ==
    ASSUME NEW text, NEW off, NEW S, NEW r \in Results(text, off, S), r.res = "true"
    PROVE  r.off \in off .. Len(text) /\ r.val \in S
BY DEF Results, Abort

LEMMA ReadResult ==
    ASSUME NEW text, NEW off, NEW S, NEW end \in off .. Len(text), NEW v \in S
    PROVE  Read(end, v) \in Results(text, off, S)
BY DEF Results, Read

LEMMA UnreadResult ==
    ASSUME NEW text, NEW off, NEW S, NEW end \in off .. Len(text)
    PROVE  Unread(end) \in Results(text, off, S)
BY DEF Results, Unread

LEMMA AbortResult ==
    ASSUME NEW text, NEW off, NEW S
    PROVE  Abort \in Results(text, off, S)
BY DEF Results

\* One parser behind another.
LEMMA Onward ==
    ASSUME NEW text \in Seq(Char), NEW off \in 0 .. Len(text), NEW S, NEW T,
           NEW first \in Results(text, off, S), NEW r,
           first.res = "true" => r \in Results(text, first.off, T),
           first.res # "true" => r = first
    PROVE  r \in Results(text, off, T)
<1>1. Len(text) \in Nat
  OBVIOUS
<1>2. CASE first.res = "true"
  <2>1. first.off .. Len(text) \subseteq off .. Len(text)
    BY <1>1, <1>2, Opened
  <2>2. r \in Results(text, first.off, T)
    BY <1>2
  <2> QED BY <2>1, <2>2 DEF Results
<1>3. CASE first.res # "true"
  BY <1>3 DEF Results
<1> QED BY <1>2, <1>3

\* Slices that lie inside of the text.
Inside(text) ==
    {s \in [str: {0}, off: 0 .. Len(text), len: 0 .. Len(text)] : s.off + s.len <= Len(text)}

LEMMA SliceInside ==
    ASSUME NEW text \in Seq(Char), NEW off \in 0 .. Len(text), NEW end \in off .. Len(text)
    PROVE  Slice(off, end) \in Inside(text) /\ NoSlice \in Inside(text)
BY DEF Slice, NoSlice, Inside

AnySlice == [str: Nat, off: Nat, len: Int]
Host(text) == [type: {"NAME", "IPV4", "IPV6"}, text: Inside(text)]
Authority(text) == [userinfo: AnySlice, host: Host(text), port: -1 .. UINT16_MAX]
URL(text) == [full: Inside(text), scheme: AnySlice, authority: Authority(text),
              path: Inside(text), query: Inside(text), fragment: Inside(text)]

LEMMA HostNameRead ==
    ASSUME NEW text \in Seq(Char), NEW off \in 0 .. Len(text)
    PROVE  host_name(text, off) \in Results(text, off, Host(text))
<1> DEFINE end == span(text, off, Unreserved \cup Subdelim)
<1>1. end \in off .. Len(text)
  <2>1. Len(text) \in Nat
    OBVIOUS
  <2> QED BY <2>1, SpanEnds
<1>2. host_name(text, off) = Read(end, [type |-> "NAME", text |-> Slice(off, end)])
  BY DEF host_name
<1> HIDE DEF end
<1>3. [type |-> "NAME", text |-> Slice(off, end)] \in Host(text)
  BY <1>1, SliceInside DEF Host
<1> QED BY <1>1, <1>2, <1>3, ReadResult

LEMMA HostRead ==
    ASSUME NEW text \in Seq(Char), NEW off \in 0 .. Len(text)
    PROVE  parse_host(text, off) \in Results(text, off, Host(text))
<1> DEFINE ip4 == parse_ipv4(text, off)
           ip6 == parse_ipv6(text, off)
           r == parse_host(text, off)
           closed == IF next_in(text, ip6.off, {"]"})
                     THEN Read(ip6.off + 1, [type |-> "IPV6", text |-> Slice(off, ip6.off)])
                     ELSE Unread(ip6.off)
<1> SUFFICES r \in Results(text, off, Host(text))
  OBVIOUS
<1>1. r = IF off = Len(text) THEN Unread(off)
          ELSE IF next_in(text, off, {"["})
          THEN IF ip6.res = "true" THEN closed ELSE ip6
          ELSE IF ~next_in(text, off, Digit) THEN host_name(text, off)
          ELSE IF ip4.res = "true" THEN Read(ip4.off, [type |-> "IPV4", text |-> Slice(off, ip4.off)])
          ELSE host_name(text, ip4.off)
  BY DEF parse_host, Then
<1>2. Len(text) \in Nat /\ off \in off .. Len(text)
  OBVIOUS
<1>3. ip6 \in Results(text, off, [1 .. 8 -> 0 .. UINT16_MAX])
  BY IPv6Bounded
<1>4. ip4 \in Results(text, off, [1 .. 4 -> 0 .. UINT8_MAX]) /\ ip4 # Abort
  BY IPv4Bounded
<1> HIDE DEF ip4, ip6, r
<1>5. Unread(off) \in Results(text, off, Host(text))
  BY <1>2, UnreadResult
<1>6. host_name(text, off) \in Results(text, off, Host(text))
  BY HostNameRead
<1>7. ip6.res = "true" => closed \in Results(text, ip6.off, Host(text))
  <2> SUFFICES ASSUME ip6.res = "true" PROVE closed \in Results(text, ip6.off, Host(text))
    OBVIOUS
  <2>1. ip6.off \in off .. Len(text) /\ ip6.off \in 0 .. Len(text) /\ ip6.off \in ip6.off .. Len(text)
    BY <1>2, <1>3, Opened
  <2>2. CASE next_in(text, ip6.off, {"]"})
    <3>1. ip6.off + 1 \in ip6.off .. Len(text)
      BY <1>2, <2>1, <2>2 DEF next_in
    <3>2. [type |-> "IPV6", text |-> Slice(off, ip6.off)] \in Host(text)
      BY <2>1, SliceInside DEF Host
    <3> QED BY <2>2, <3>1, <3>2, ReadResult
  <2>3. CASE ~next_in(text, ip6.off, {"]"})
    BY <2>1, <2>3, UnreadResult
  <2> QED BY <2>2, <2>3
<1>8. (IF ip6.res = "true" THEN closed ELSE ip6) \in Results(text, off, Host(text))
  <2> HIDE DEF closed
  <2> DEFINE c == IF ip6.res = "true" THEN closed ELSE ip6
  <2>1. /\ ip6.res = "true" => c \in Results(text, ip6.off, Host(text))
        /\ ip6.res # "true" => c = ip6
    BY <1>7
  <2> HIDE DEF c
  <2>2. c \in Results(text, off, Host(text))
    BY <1>3, <2>1, Onward
  <2> QED BY <2>2 DEF c
<1>9. ip4.off \in off .. Len(text) /\ ip4.off \in 0 .. Len(text)
  <2>1. ip4.off \in off .. Len(text)
    BY <1>4 DEF Results
  <2> QED BY <1>2, <2>1
<1>10. Read(ip4.off, [type |-> "IPV4", text |-> Slice(off, ip4.off)]) \in Results(text, off, Host(text))
  <2>1. [type |-> "IPV4", text |-> Slice(off, ip4.off)] \in Host(text)
    BY <1>9, SliceInside DEF Host
  <2> QED BY <1>9, <2>1, ReadResult
<1>11. host_name(text, ip4.off) \in Results(text, off, Host(text))
  <2>1. host_name(text, ip4.off) \in Results(text, ip4.off, Host(text))
    BY <1>9, HostNameRead
  <2>2. ip4.off .. Len(text) \subseteq off .. Len(text)
    BY <1>2, <1>9
  <2> QED BY <2>1, <2>2 DEF Results
<1> HIDE DEF closed
<1> QED BY Zenon, <1>1, <1>5, <1>6, <1>8, <1>10, <1>11

LEMMA UserInfoRead ==
    ASSUME NEW text \in Seq(Char), NEW off \in 0 .. Len(text)
    PROVE  parse_user_info(text, off) \in Results(text, off, AnySlice)
<1> DEFINE end == span(text, off, Unreserved \cup Subdelim \cup {":"})
<1>1. Len(text) \in Nat
  OBVIOUS
<1>2. end \in off .. Len(text)
  BY <1>1, SpanEnds
<1>3. parse_user_info(text, off) =
        IF end > off /\ next_in(text, end, {"@"})
        THEN Read(end + 1, Slice(off, Len(text))) ELSE Read(off, NoSlice)
  BY DEF parse_user_info
<1> HIDE DEF end
<1>4. Slice(off, Len(text)) \in AnySlice /\ NoSlice \in AnySlice
  BY <1>1 DEF Slice, NoSlice, AnySlice
<1>5. next_in(text, end, {"@"}) => end + 1 \in off .. Len(text)
  BY <1>1, <1>2 DEF next_in
<1>6. off \in off .. Len(text)
  BY <1>1
<1> QED BY <1>3, <1>4, <1>5, <1>6, ReadResult

LEMMA PortRead ==
    ASSUME NEW text \in Seq(Char), NEW off \in 0 .. Len(text)
    PROVE  parse_port(text, off) \in Results(text, off, -1 .. UINT16_MAX)
<1>1. Len(text) \in Nat /\ UINT16_MAX \in Nat /\ UINT16_MAX >= 9 /\ off \in off .. Len(text)
  BY LimitsAssumption
<1>2. -1 \in -1 .. UINT16_MAX
  BY <1>1
<1>3. CASE ~next_in(text, off, {":"})
  BY <1>1, <1>2, <1>3, ReadResult DEF parse_port
<1>4. CASE next_in(text, off, {":"})
  <2>1. off + 1 \in 0 .. Len(text) /\ off + 1 \in off .. Len(text)
    BY <1>1, <1>4 DEF next_in
  <2> DEFINE number == parse_number(text, off + 1, 10, UINT16_MAX)
  <2>2. number \in Results(text, off + 1, 0 .. UINT16_MAX)
    BY <1>1, <2>1, NumberRead
  <2>3. off + 1 .. Len(text) \subseteq off .. Len(text) /\ 0 .. UINT16_MAX \subseteq -1 .. UINT16_MAX
    BY <1>1
  <2>4. parse_port(text, off) = IF next_in(text, off + 1, Digit) THEN number ELSE Read(off + 1, -1)
    BY <1>4 DEF parse_port
  <2> HIDE DEF number
  <2>5. number \in Results(text, off, -1 .. UINT16_MAX)
    BY <2>2, <2>3 DEF Results
  <2>6. Read(off + 1, -1) \in Results(text, off, -1 .. UINT16_MAX)
    BY <1>2, <2>1, ReadResult
  <2> QED BY <2>4, <2>5, <2>6
<1> QED BY <1>3, <1>4

LEMMA AuthorityRead ==
    ASSUME NEW text \in Seq(Char), NEW off \in 0 .. Len(text)
    PROVE  parse_authority(text, off) \in Results(text, off, Authority(text))
<1> DEFINE info == parse_user_info(text, off)
           host == parse_host(text, info.off)
           port == parse_port(text, host.off)
           all == Read(port.off, [userinfo |-> info.val, host |-> host.val, port |-> port.val])
           behind_host == IF port.res = "true" THEN all ELSE port
           behind_info == IF host.res = "true" THEN behind_host ELSE host
           r == IF info.res = "true" THEN behind_info ELSE info
           T == Authority(text)
<1>1. parse_authority(text, off) = r
  BY DEF parse_authority, Then
<1>2. Len(text) \in Nat
  OBVIOUS
<1>3. info \in Results(text, off, AnySlice)
  BY UserInfoRead
<1> HIDE DEF info, T
<1>4. info.res = "true" => behind_info \in Results(text, info.off, T)
  <2> SUFFICES ASSUME info.res = "true" PROVE behind_info \in Results(text, info.off, T)
    OBVIOUS
  <2>1. info.off \in off .. Len(text) /\ info.val \in AnySlice
    BY <1>3, Opened
  <2>2. info.off \in 0 .. Len(text)
    BY <1>2, <2>1
  <2>3. host \in Results(text, info.off, Host(text))
    BY <2>2, HostRead
  <2> HIDE DEF host
  <2>4. host.res = "true" => behind_host \in Results(text, host.off, T)
    <3> SUFFICES ASSUME host.res = "true" PROVE behind_host \in Results(text, host.off, T)
      OBVIOUS
    <3>1. host.off \in info.off .. Len(text) /\ host.val \in Host(text)
      BY <2>3, Opened
    <3>2. host.off \in 0 .. Len(text)
      BY <1>2, <2>2, <3>1
    <3>3. port \in Results(text, host.off, -1 .. UINT16_MAX)
      BY <3>2, PortRead
    <3> HIDE DEF port
    <3>4. port.res = "true" => all \in Results(text, port.off, T)
      <4> SUFFICES ASSUME port.res = "true" PROVE all \in Results(text, port.off, T)
        OBVIOUS
      <4>1. port.off \in host.off .. Len(text) /\ port.val \in -1 .. UINT16_MAX
        BY <3>3, Opened
      <4>2. port.off \in port.off .. Len(text)
        BY <1>2, <3>2, <4>1
      <4>3. [userinfo |-> info.val, host |-> host.val, port |-> port.val] \in T
        BY <2>1, <3>1, <4>1 DEF T, Authority
      <4> QED BY <4>2, <4>3, ReadResult
    <3> HIDE DEF all
    <3>5. /\ port.res = "true" => behind_host \in Results(text, port.off, T)
          /\ port.res # "true" => behind_host = port
      BY <3>4
    <3> HIDE DEF behind_host
    <3> QED BY <3>2, <3>3, <3>5, Onward
  <2> HIDE DEF behind_host
  <2>5. /\ host.res = "true" => behind_info \in Results(text, host.off, T)
        /\ host.res # "true" => behind_info = host
    BY <2>4
  <2> HIDE DEF behind_info
  <2> QED BY <2>2, <2>3, <2>5, Onward
<1> HIDE DEF behind_info
<1>5. /\ info.res = "true" => r \in Results(text, info.off, T)
      /\ info.res # "true" => r = info
  BY <1>4
<1> HIDE DEF r
<1>6. r \in Results(text, off, T)
  BY <1>3, <1>5, Onward
<1> QED BY <1>1, <1>6 DEF T

LEMMA SchemeRead ==
    ASSUME NEW text \in Seq(Char), NEW off \in 0 .. Len(text)
    PROVE  /\ parse_scheme(text, off) \in Results(text, off, AnySlice)
           /\ parse_scheme(text, off).res = "true"
<1> DEFINE end == span(text, off, Upper \cup Digit \cup {"+", "-", "."})
<1>1. Len(text) \in Nat /\ off \in off .. Len(text)
  OBVIOUS
<1>2. end \in off .. Len(text)
  BY <1>1, SpanEnds
<1>3. parse_scheme(text, off) =
        IF next_in(text, off, Upper) /\ next_in(text, end, {":"})
        THEN Read(end + 1, [str |-> end + 1, off |-> off, len |-> end + 1 - off])
        ELSE Read(off, NoSlice)
  BY DEF parse_scheme
<1> HIDE DEF end
<1>4. [str |-> end + 1, off |-> off, len |-> end + 1 - off] \in AnySlice /\ NoSlice \in AnySlice
  BY <1>1, <1>2 DEF NoSlice, AnySlice
<1>5. next_in(text, end, {":"}) => end + 1 \in off .. Len(text)
  BY <1>1, <1>2 DEF next_in
<1>6. parse_scheme(text, off) \in Results(text, off, AnySlice)
  BY <1>1, <1>3, <1>4, <1>5, ReadResult
<1>7. parse_scheme(text, off).res = "true"
  BY <1>3 DEF Read
<1> QED BY <1>6, <1>7

LEMMA MarkedRead ==
    ASSUME NEW text \in Seq(Char), NEW off \in 0 .. Len(text), NEW mark
    PROVE  parse_marked(text, off, mark) \in Results(text, off, Inside(text))
<1>1. Len(text) \in Nat /\ off \in off .. Len(text)
  OBVIOUS
<1>2. CASE next_in(text, off, {mark})
  <2> DEFINE end == span(text, off + 1, Pchar \cup {"/", "?"})
  <2>1. off + 1 \in 0 .. Len(text)
    BY <1>1, <1>2 DEF next_in
  <2>2. end \in off + 1 .. Len(text)
    BY <1>1, <2>1, SpanEnds
  <2>3. parse_marked(text, off, mark) = Read(end, Slice(off + 1, end))
    BY <1>2 DEF parse_marked
  <2> HIDE DEF end
  <2>4. Slice(off + 1, end) \in Inside(text)
    BY <2>1, <2>2, SliceInside
  <2>5. end \in off .. Len(text)
    BY <1>1, <2>2
  <2> QED BY <2>3, <2>4, <2>5, ReadResult
<1>3. CASE ~next_in(text, off, {mark})
  <2>1. NoSlice \in Inside(text)
    BY <1>1, SliceInside
  <2> QED BY <1>1, <1>3, <2>1, ReadResult DEF parse_marked
<1> QED BY <1>2, <1>3

LEMMA Downwards ==
    ASSUME NEW first \in Nat, NEW last \in Nat, NEW T,
           \A k \in first .. last : (\A j \in k + 1 .. last : j \in T) => k \in T
    PROVE  first .. last \subseteq T
<1> DEFINE D == {k \in first .. last : k \notin T}
<1>1. ASSUME D # {} PROVE FALSE
  <2>1. D \subseteq 0 .. last
    OBVIOUS
  <2>2. PICK m \in D : \A k \in D : k <= m
    <3> HIDE DEF D
    <3> QED BY <1>1, <2>1, Largest
  <2>3. m \in first .. last /\ m \notin T
    OBVIOUS
  <2>4. ASSUME NEW j \in m + 1 .. last PROVE j \in T
    <3>1. j \in first .. last /\ ~ (j <= m)
      BY <2>3
    <3> QED BY <2>2, <3>1
  <2> QED BY <2>3, <2>4
<1> QED BY <1>1

\* Where the pieces of a path from each place on end.
Pieces(g, text, off) ==
    /\ \A o \in off .. Len(text) :
          g[o] = IF next_in(text, o, {"/"}) THEN g[span(text, o + 1, Pchar)] ELSE o
    /\ g[off] \in off .. Len(text)

LEMMA PathUnfolds ==
    ASSUME NEW text \in Seq(Char), NEW off \in 0 .. Len(text)
    PROVE  \E g : Pieces(g, text, off) /\ parse_path_abempty(text, off) = g[off]
<1> DEFINE n == Len(text)
           V == off .. n
           more == {o \in off .. n : next_in(text, o, {"/"})}
           end(o) == span(text, o + 1, Pchar)
           next == [o \in more |-> end(o)]
           base == [o \in off .. n |-> o]
           G == [o \in off .. n |-> [v \in V |-> v]]
           Sol(g) == g = [o \in off .. n |->
                            IF next_in(text, o, {"/"}) THEN g[span(text, o + 1, Pchar)] ELSE o]
<1>1. parse_path_abempty(text, off) = (CHOOSE g : Sol(g))[off]
  BY DEF parse_path_abempty
<1>2. n \in Nat /\ off \in Nat /\ off <= n /\ off \in off .. n
  OBVIOUS
<1>3. ASSUME NEW o \in more PROVE end(o) \in o + 1 .. n
  <2>1. o \in off .. n /\ next_in(text, o, {"/"})
    OBVIOUS
  <2>2. o + 1 \in 0 .. n
    BY <1>2, <2>1 DEF next_in
  <2> QED BY <1>2, <2>2, SpanEnds
<1> HIDE DEF n, end
<1>4. \A o \in more : end(o) \in off .. n /\ o < end(o)
  BY <1>2, <1>3
<1>5. PICK f : Backward(f, off, n, V, more, next, base, G)
  <2>1. more \in SUBSET (off .. n) /\ next \in [more -> off .. n] /\ \A o \in more : o < next[o]
    BY <1>4
  <2>2. base \in [off .. n -> V] /\ G \in [off .. n -> [V -> V]]
    OBVIOUS
  <2> HIDE DEF V, more, next, base, G
  <2> QED BY Zenon, <1>2, <2>1, <2>2, BackwardExists
<1>6. Sol(f)
  <2>1. \A o \in off .. n : f[o] \in V /\ f[o] = IF o \in more THEN G[o][f[next[o]]] ELSE base[o]
    <3> HIDE DEF V, more, next, base, G
    <3> QED BY <1>5 DEF Backward
  <2>2. ASSUME NEW o \in off .. n PROVE f[o] = IF o \in more THEN f[end(o)] ELSE o
    <3>1. CASE o \in more
      <4>1. next[o] = end(o) /\ end(o) \in off .. n
        BY <1>4, <3>1
      <4>2. f[end(o)] \in V
        BY <2>1, <4>1
      <4>3. G[o][f[end(o)]] = f[end(o)]
        BY <4>2
      <4> HIDE DEF V, more, next, base, G
      <4> QED BY <2>1, <3>1, <4>1, <4>3
    <3>2. CASE o \notin more
      BY <2>1, <3>2
    <3> QED BY <3>1, <3>2
  <2>3. f = [o \in off .. n |-> f[o]]
    <3> HIDE DEF V, more, next, base, G
    <3> QED BY <1>5 DEF Backward
  <2>4. \A o \in off .. n : f[o] = IF next_in(text, o, {"/"}) THEN f[span(text, o + 1, Pchar)] ELSE o
    BY <2>2 DEF end
  <2> HIDE DEF V, more, next, base, G
  <2> QED BY <2>3, <2>4
<1>7. ASSUME NEW g, Sol(g) PROVE g[off] \in off .. n
  <2>1. \A o \in off .. n : g[o] = IF o \in more THEN g[end(o)] ELSE o
    BY <1>7 DEF end
  <2> DEFINE T == {o \in off .. n : g[o] \in off .. n}
  <2>2. ASSUME NEW k \in off .. n, \A j \in k + 1 .. n : j \in T PROVE k \in T
    <3>1. CASE k \in more
      <4>1. end(k) \in T
        BY <1>3, <2>2, <3>1
      <4>2. g[k] = g[end(k)]
        BY <2>1, <3>1
      <4> QED BY <4>1, <4>2
    <3>2. CASE k \notin more
      BY <2>1, <3>2
    <3> QED BY <3>1, <3>2
  <2>3. off .. n \subseteq T
    <3> HIDE DEF T
    <3> QED BY <1>2, <2>2, Downwards
  <2> QED BY <1>2, <2>3
<1>8. Sol(CHOOSE g : Sol(g))
  <2> HIDE DEF Sol
  <2> QED BY <1>6
<1>9. ASSUME NEW g, Sol(g) PROVE Pieces(g, text, off)
  <2>1. \A o \in off .. n : g[o] = IF next_in(text, o, {"/"}) THEN g[span(text, o + 1, Pchar)] ELSE o
    BY <1>9
  <2>2. g[off] \in off .. n
    <3> HIDE DEF Sol
    <3> QED BY <1>7, <1>9
  <2> QED BY Zenon, <2>1, <2>2 DEF Pieces, n
<1> HIDE DEF Sol
<1> QED BY Zenon, <1>1, <1>8, <1>9

LEMMA PathEnds ==
    ASSUME NEW text \in Seq(Char), NEW off \in 0 .. Len(text)
    PROVE  parse_path_abempty(text, off) \in off .. Len(text)
BY Zenon, PathUnfolds DEF Pieces

LEMMA URLPathRead ==
    ASSUME NEW text \in Seq(Char), NEW off \in 0 .. Len(text), NEW absolute \in BOOLEAN
    PROVE  url_path(text, off, absolute) \in Results(text, off, Inside(text))
<1> DEFINE end == IF absolute THEN parse_path_abempty(text, off) ELSE span(text, off, Pchar \cup {"/"})
           r == url_path(text, off, absolute)
<1> SUFFICES r \in Results(text, off, Inside(text))
  OBVIOUS
<1>1. Len(text) \in Nat /\ off \in off .. Len(text)
  OBVIOUS
<1>2. end \in off .. Len(text)
  <2>1. parse_path_abempty(text, off) \in off .. Len(text)
    BY PathEnds
  <2>2. span(text, off, Pchar \cup {"/"}) \in off .. Len(text)
    BY <1>1, SpanEnds
  <2> QED BY <2>1, <2>2
<1>3. r = IF absolute /\ off + 1 >= Len(text) THEN Abort
          ELSE IF absolute /\ ~next_in(text, off + 1, {"/"}) THEN Read(off, NoSlice)
          ELSE Read(end, Slice(off, end))
  BY DEF url_path
<1> HIDE DEF end, r
<1>4. Slice(off, end) \in Inside(text) /\ NoSlice \in Inside(text)
  BY <1>2, SliceInside
<1> QED BY <1>1, <1>2, <1>3, <1>4, ReadResult, AbortResult

LEMMA URLRead ==
    ASSUME NEW text \in Seq(Char), NEW off \in 0 .. Len(text)
    PROVE  parse_url(text, off) \in Results(text, off, URL(text))
<1> DEFINE scheme == parse_scheme(text, off)
           absolute == sees(text, scheme.off, <<"/", "/">>)
           authority == IF absolute THEN parse_authority(text, scheme.off + 2)
                        ELSE Read(scheme.off, NoAuthority)
           path == url_path(text, authority.off, absolute)
           query == parse_marked(text, path.off, "?")
           fragment == parse_marked(text, query.off, "#")
           url == [full |-> Slice(off, fragment.off), scheme |-> scheme.val,
                   authority |-> authority.val, path |-> path.val,
                   query |-> query.val, fragment |-> fragment.val]
           all == Read(fragment.off, url)
           r4 == IF fragment.res = "true" THEN all ELSE fragment
           r3 == IF query.res = "true" THEN r4 ELSE query
           r2 == IF path.res = "true" THEN r3 ELSE path
           r1 == IF authority.res = "true" THEN r2 ELSE authority
           r == IF scheme.res = "true" THEN r1 ELSE scheme
           T == URL(text)
<1>1. parse_url(text, off) = r
  BY DEF parse_url, Then
<1>2. Len(text) \in Nat
  OBVIOUS
<1>3. scheme \in Results(text, off, AnySlice) /\ scheme.res = "true"
  BY SchemeRead
<1> HIDE DEF scheme, T
<1>4. scheme.off \in off .. Len(text) /\ scheme.val \in AnySlice /\ scheme.off \in 0 .. Len(text)
  <2>1. scheme.off \in off .. Len(text) /\ scheme.val \in AnySlice
    BY <1>3, Opened
  <2> QED BY <1>2, <2>1
<1>5. authority \in Results(text, scheme.off, Authority(text))
  <2>1. CASE absolute
    <3>1. scheme.off + 2 \in scheme.off .. Len(text) /\ scheme.off + 2 \in 0 .. Len(text)
      BY <1>2, <1>4, <2>1 DEF sees
    <3>2. parse_authority(text, scheme.off + 2) \in Results(text, scheme.off + 2, Authority(text))
      BY <3>1, AuthorityRead
    <3>3. scheme.off + 2 .. Len(text) \subseteq scheme.off .. Len(text)
      BY <1>2, <1>4
    <3> QED BY <2>1, <3>2, <3>3 DEF Results
  <2>2. CASE ~absolute
    <3>1. NoAuthority \in Authority(text)
      <4>1. NoSlice \in Inside(text) /\ NoSlice \in AnySlice
        BY <1>2 DEF NoSlice, Inside, AnySlice
      <4>2. -1 \in -1 .. UINT16_MAX
        BY LimitsAssumption
      <4> QED BY <4>1, <4>2 DEF NoAuthority, Authority, Host
    <3>2. scheme.off \in scheme.off .. Len(text)
      BY <1>2, <1>4
    <3> QED BY <2>2, <3>1, <3>2, ReadResult
  <2> QED BY <2>1, <2>2
<1>6. absolute \in BOOLEAN
  BY DEF sees
<1> HIDE DEF absolute, authority
<1>7. authority.res = "true" => r2 \in Results(text, authority.off, T)
  <2> SUFFICES ASSUME authority.res = "true" PROVE r2 \in Results(text, authority.off, T)
    OBVIOUS
  <2>1. authority.off \in scheme.off .. Len(text) /\ authority.val \in Authority(text)
    BY <1>5, Opened
  <2>2. authority.off \in 0 .. Len(text)
    BY <1>2, <1>4, <2>1
  <2>3. path \in Results(text, authority.off, Inside(text))
    BY <1>6, <2>2, URLPathRead
  <2> HIDE DEF path
  <2>4. path.res = "true" => r3 \in Results(text, path.off, T)
    <3> SUFFICES ASSUME path.res = "true" PROVE r3 \in Results(text, path.off, T)
      OBVIOUS
    <3>1. path.off \in authority.off .. Len(text) /\ path.val \in Inside(text)
      BY <2>3, Opened
    <3>2. path.off \in 0 .. Len(text)
      BY <1>2, <2>2, <3>1
    <3>3. query \in Results(text, path.off, Inside(text))
      BY <3>2, MarkedRead
    <3> HIDE DEF query
    <3>4. query.res = "true" => r4 \in Results(text, query.off, T)
      <4> SUFFICES ASSUME query.res = "true" PROVE r4 \in Results(text, query.off, T)
        OBVIOUS
      <4>1. query.off \in path.off .. Len(text) /\ query.val \in Inside(text)
        BY <3>3, Opened
      <4>2. query.off \in 0 .. Len(text)
        BY <1>2, <3>2, <4>1
      <4>3. fragment \in Results(text, query.off, Inside(text))
        BY <4>2, MarkedRead
      <4> HIDE DEF fragment
      <4>4. fragment.res = "true" => all \in Results(text, fragment.off, T)
        <5> SUFFICES ASSUME fragment.res = "true" PROVE all \in Results(text, fragment.off, T)
          OBVIOUS
        <5>1. fragment.off \in query.off .. Len(text) /\ fragment.val \in Inside(text)
          BY <4>3, Opened
        <5>2. fragment.off \in off .. Len(text) /\ fragment.off \in fragment.off .. Len(text)
          BY <1>2, <1>4, <2>1, <3>1, <4>1, <5>1
        <5>3. Slice(off, fragment.off) \in Inside(text)
          BY <5>2, SliceInside
        <5>4. url \in T
          BY <1>4, <2>1, <3>1, <4>1, <5>1, <5>3 DEF T, URL
        <5> HIDE DEF url
        <5> QED BY <5>2, <5>4, ReadResult
      <4> HIDE DEF all
      <4>5. /\ fragment.res = "true" => r4 \in Results(text, fragment.off, T)
            /\ fragment.res # "true" => r4 = fragment
        BY <4>4
      <4> HIDE DEF r4
      <4> QED BY <4>2, <4>3, <4>5, Onward
    <3> HIDE DEF r4
    <3>5. /\ query.res = "true" => r3 \in Results(text, query.off, T)
          /\ query.res # "true" => r3 = query
      BY <3>4
    <3> HIDE DEF r3
    <3> QED BY <3>2, <3>3, <3>5, Onward
  <2> HIDE DEF r3
  <2>5. /\ path.res = "true" => r2 \in Results(text, path.off, T)
        /\ path.res # "true" => r2 = path
    BY <2>4
  <2> HIDE DEF r2
  <2> QED BY <2>2, <2>3, <2>5, Onward
<1> HIDE DEF r2
<1>8. r1 \in Results(text, scheme.off, T)
  <2>1. /\ authority.res = "true" => r1 \in Results(text, authority.off, T)
        /\ authority.res # "true" => r1 = authority
    BY <1>7
  <2> HIDE DEF r1
  <2> QED BY <1>4, <1>5, <2>1, Onward
<1> HIDE DEF r1
<1>9. r \in Results(text, off, T)
  <2>1. /\ scheme.res = "true" => r \in Results(text, scheme.off, T)
        /\ scheme.res # "true" => r = scheme
    BY <1>8
  <2> HIDE DEF r
  <2> QED BY <1>3, <2>1, Onward
<1> QED BY <1>1, <1>9 DEF T

-----------------------------------------------------------------------------
(* Requests.                                                                *)

LineEnd(text, end) == end \in 2 .. Len(text) /\ text[end - 1] = "CR" /\ text[end] = "LF"

\* The text up to "end" ends with an empty line.
EmptyLine(text, end) == end \in 4 .. Len(text) /\ LineEnd(text, end - 2) /\ LineEnd(text, end)

LEMMA LineEndSeen ==
    ASSUME NEW text \in Seq(Char), NEW off \in 0 .. Len(text), sees(text, off, CRLF)
    PROVE  LineEnd(text, off + 2)
<1>1. Len(text) \in Nat /\ Len(CRLF) = 2
  BY DEF CRLF
<1>2. off + 2 <= Len(text) /\ SubSeq(text, off + 1, off + 2) = CRLF
  BY <1>1 DEF sees
<1>3. SubSeq(text, off + 1, off + 2)[1] = text[off + 1] /\ SubSeq(text, off + 1, off + 2)[2] = text[off + 2]
  BY <1>1, <1>2
<1>4. CRLF[1] = "CR" /\ CRLF[2] = "LF"
  BY DEF CRLF
<1>5. text[off + 1] = "CR" /\ text[off + 2] = "LF"
  BY Zenon, <1>2, <1>3, <1>4
<1>6. (off + 2) - 1 = off + 1 /\ off + 2 \in 2 .. Len(text)
  BY <1>1, <1>2
<1> QED BY <1>5, <1>6 DEF LineEnd

Header(text) == [name: Inside(text), value: Inside(text)]

\* What parse_headers() returns.
Lines(text, off) ==
    {r \in [res: {"true", "false"}, off: off .. Len(text), val: Seq(Header(text))] :
        r.res = "true" => EmptyLine(text, r.off)}

NameEnd(text, o)  == span(text, o, Char \ {":"})
ValueEnd(text, o) == span(text, NameEnd(text, o) + 1, Char \ {"CR"})
HeaderAt(text, o) == [name  |-> Slice(o, NameEnd(text, o)),
                      value |-> Slice(NameEnd(text, o) + 1, ValueEnd(text, o))]

\* What parse_headers() finds at o, of which g is the same for the lines behind.
LineAt(g, text, o) ==
    IF ~next_in(text, NameEnd(text, o), {":"})
    THEN [res |-> "false", off |-> NameEnd(text, o), val |-> <<>>]
    ELSE IF ~sees(text, ValueEnd(text, o), CRLF)
    THEN [res |-> "false", off |-> ValueEnd(text, o), val |-> <<HeaderAt(text, o)>>]
    ELSE IF sees(text, ValueEnd(text, o) + 2, CRLF)
    THEN Read(ValueEnd(text, o) + 4, <<HeaderAt(text, o)>>)
    ELSE [g[ValueEnd(text, o) + 2] EXCEPT !.val = <<HeaderAt(text, o)>> \o @]

HeaderLines(g, text, off) ==
    /\ \A o \in off .. Len(text) : g[o] = LineAt(g, text, o)
    /\ g[off] \in Lines(text, off)

LEMMA HeadersUnfold ==
    ASSUME NEW text \in Seq(Char), NEW off \in 0 .. Len(text), LineEnd(text, off)
    PROVE  \E g : /\ HeaderLines(g, text, off)
                  /\ parse_headers(text, off) =
                        IF sees(text, off, CRLF) THEN Read(off + 2, <<>>) ELSE g[off]
<1> DEFINE n == Len(text)
           V == Lines(text, off)
           name_end(o) == span(text, o, Char \ {":"})
           value_end(o) == span(text, name_end(o) + 1, Char \ {"CR"})
           header(o) == [name  |-> Slice(o, name_end(o)),
                         value |-> Slice(name_end(o) + 1, value_end(o))]
           named(o) == next_in(text, name_end(o), {":"})
           ended(o) == sees(text, value_end(o), CRLF)
           last(o) == sees(text, value_end(o) + 2, CRLF)
           base(o) == IF ~named(o) THEN [res |-> "false", off |-> name_end(o), val |-> <<>>]
                      ELSE IF ~ended(o) THEN [res |-> "false", off |-> value_end(o), val |-> <<header(o)>>]
                      ELSE Read(value_end(o) + 4, <<header(o)>>)
           with(o, v) == [v EXCEPT !.val = <<header(o)>> \o @]
           none == [res |-> "false", off |-> off, val |-> <<>>]
           more == {o \in off .. n : named(o) /\ ended(o) /\ ~last(o)}
           Next1 == [o \in more |-> value_end(o) + 2]
           Base == [o \in off .. n |-> IF o \in more THEN none ELSE base(o)]
           G == [o \in off .. n |-> [v \in V |-> IF o \in more THEN with(o, v) ELSE v]]
           line(g, o) == IF ~named(o) THEN [res |-> "false", off |-> name_end(o), val |-> <<>>]
                         ELSE IF ~ended(o) THEN [res |-> "false", off |-> value_end(o), val |-> <<header(o)>>]
                         ELSE IF last(o) THEN Read(value_end(o) + 4, <<header(o)>>)
                         ELSE [g[value_end(o) + 2] EXCEPT !.val = <<header(o)>> \o @]
           Sol(g) == g = [o \in off .. n |-> line(g, o)]
<1>1. parse_headers(text, off) =
        IF sees(text, off, CRLF) THEN Read(off + 2, <<>>) ELSE (CHOOSE g : Sol(g))[off]
  BY DEF parse_headers
<1>2. n \in Nat /\ off \in Nat /\ off <= n /\ off \in off .. n
  OBVIOUS
<1>3. ASSUME NEW o \in off .. n PROVE name_end(o) \in o .. n /\ Slice(o, name_end(o)) \in Inside(text)
  <2>1. o \in 0 .. n
    BY <1>2
  <2>2. name_end(o) \in o .. n
    BY <1>2, <2>1, SpanEnds
  <2> HIDE DEF name_end
  <2> QED BY <2>1, <2>2, SliceInside
<1>4. ASSUME NEW o \in off .. n, named(o)
      PROVE  value_end(o) \in o + 1 .. n /\ header(o) \in Header(text)
  <2>1. name_end(o) \in o .. n /\ Slice(o, name_end(o)) \in Inside(text)
    BY <1>3
  <2> HIDE DEF name_end
  <2>2. name_end(o) + 1 \in 0 .. n
    BY <1>2, <1>4, <2>1 DEF next_in
  <2>3. value_end(o) \in name_end(o) + 1 .. n
    BY <1>2, <2>2, SpanEnds
  <2> HIDE DEF value_end
  <2>4. Slice(name_end(o) + 1, value_end(o)) \in Inside(text)
    BY <2>2, <2>3, SliceInside
  <2>5. value_end(o) \in o + 1 .. n
    BY <1>2, <2>1, <2>3
  <2> QED BY <2>1, <2>4, <2>5 DEF Header
<1> HIDE DEF n, name_end, value_end, header
<1>5. ASSUME NEW o \in off .. n, named(o), ended(o)
      PROVE  value_end(o) + 2 \in o + 1 .. n /\ LineEnd(text, value_end(o) + 2)
  <2>1. value_end(o) \in o + 1 .. n
    BY <1>4, <1>5
  <2>2. value_end(o) \in 0 .. Len(text)
    BY <1>2, <2>1 DEF n
  <2>3. LineEnd(text, value_end(o) + 2)
    BY <1>5, <2>2, LineEndSeen
  <2> QED BY <1>2, <2>1, <2>3 DEF LineEnd, n
<1>6. ASSUME NEW o \in off .. n, o \notin more PROVE base(o) \in V
  <2>1. CASE ~named(o)
    <3>1. name_end(o) \in off .. n
      BY <1>2, <1>3
    <3>2. base(o) = [res |-> "false", off |-> name_end(o), val |-> <<>>]
      BY <2>1
    <3> HIDE DEF base
    <3> QED BY <3>1, <3>2 DEF Lines, n
  <2>2. CASE named(o) /\ ~ended(o)
    <3>1. value_end(o) \in off .. n /\ <<header(o)>> \in Seq(Header(text))
      BY <1>2, <1>4, <2>2
    <3>2. base(o) = [res |-> "false", off |-> value_end(o), val |-> <<header(o)>>]
      BY <2>2
    <3> HIDE DEF base
    <3> QED BY <3>1, <3>2 DEF Lines, n
  <2>3. CASE named(o) /\ ended(o) /\ last(o)
    <3>1. value_end(o) + 2 \in o + 1 .. n /\ LineEnd(text, value_end(o) + 2)
      BY <1>5, <2>3
    <3>2. value_end(o) + 2 \in 0 .. Len(text)
      BY <1>2, <3>1 DEF n
    <3>3. LineEnd(text, (value_end(o) + 2) + 2)
      BY <2>3, <3>2, LineEndSeen
    <3>4. (value_end(o) + 2) + 2 = value_end(o) + 4 /\ value_end(o) \in Int
      BY <1>2, <1>4, <2>3
    <3>5. value_end(o) + 4 \in off .. n /\ EmptyLine(text, value_end(o) + 4)
      <4> DEFINE e == value_end(o)
      <4>1. e \in Int /\ LineEnd(text, e + 2) /\ LineEnd(text, e + 4) /\ e + 2 \in o + 1 .. n
        BY Zenon, <3>1, <3>3, <3>4
      <4> HIDE DEF e
      <4>2. e + 2 \in 2 .. n /\ e + 4 \in 2 .. n
        BY <4>1 DEF LineEnd, n
      <4>3. e + 4 \in off .. n /\ e + 4 \in 4 .. n /\ (e + 4) - 2 = e + 2
        BY <1>2, <4>1, <4>2
      <4>4. EmptyLine(text, e + 4)
        BY Zenon, <4>1, <4>3 DEF EmptyLine, n
      <4> QED BY <4>3, <4>4 DEF e
    <3>6. <<header(o)>> \in Seq(Header(text))
      BY <1>4, <2>3
    <3>7. base(o) = Read(value_end(o) + 4, <<header(o)>>)
      BY <2>3
    <3> HIDE DEF base
    <3> QED BY <3>5, <3>6, <3>7 DEF Lines, Read, n
  <2> QED BY <1>6, <2>1, <2>2, <2>3
<1>7. ASSUME NEW o \in more, NEW v \in V PROVE with(o, v) \in V
  <2>1. <<header(o)>> \in Seq(Header(text))
    BY <1>4
  <2>2. v.val \in Seq(Header(text)) /\ v \in [res: {"true", "false"}, off: off .. n, val: Seq(Header(text))]
    BY DEF Lines, n
  <2>3. <<header(o)>> \o v.val \in Seq(Header(text))
    BY <2>1, <2>2
  <2>4. with(o, v) = [v EXCEPT !.val = <<header(o)>> \o v.val]
    OBVIOUS
  <2>5. with(o, v).res = v.res /\ with(o, v).off = v.off
        /\ with(o, v) \in [res: {"true", "false"}, off: off .. n, val: Seq(Header(text))]
    BY <2>2, <2>3, <2>4
  <2> HIDE DEF with
  <2>6. v.res = "true" => EmptyLine(text, v.off)
    BY DEF Lines
  <2> QED BY <2>5, <2>6 DEF Lines, n
<1>8. \A o \in more : o \in off .. n /\ value_end(o) + 2 \in off .. n /\ o < value_end(o) + 2
  BY <1>2, <1>5
<1> HIDE DEF named, ended, last, base, with
<1>9. PICK f : Backward(f, off, n, V, more, Next1, Base, G)
  <2>1. more \in SUBSET (off .. n) /\ Next1 \in [more -> off .. n] /\ \A o \in more : o < Next1[o]
    <3> HIDE DEF V
    <3> QED BY <1>8
  <2>2. none \in V
    BY <1>2 DEF Lines, n
  <2>3. Base \in [off .. n -> V]
    <3> HIDE DEF V, more, none
    <3> QED BY <1>6, <2>2
  <2>4. G \in [off .. n -> [V -> V]]
    <3> HIDE DEF V, more, none
    <3> QED BY <1>7
  <2> HIDE DEF V, more, Next1, Base, G
  <2> QED BY Zenon, <1>2, <2>1, <2>3, <2>4, BackwardExists
<1> HIDE DEF none
<1>10. Sol(f)
  <2>1. f \in [off .. n -> V] /\ \A o \in off .. n :
           f[o] = IF o \in more THEN G[o][f[Next1[o]]] ELSE Base[o]
    <3> HIDE DEF V, more, Next1, Base, G
    <3> QED BY <1>9 DEF Backward
  <2>2. ASSUME NEW o \in off .. n PROVE f[o] = line(f, o)
    <3>1. CASE o \in more
      <4>1. Next1[o] = value_end(o) + 2 /\ f[value_end(o) + 2] \in V
        <5> HIDE DEF V
        <5> QED BY <1>8, <2>1, <3>1
      <4>2. G[o][f[value_end(o) + 2]] = with(o, f[value_end(o) + 2])
        <5> HIDE DEF V
        <5> QED BY <3>1, <4>1
      <4>3. f[o] = with(o, f[value_end(o) + 2])
        <5> HIDE DEF V, more, Next1, Base, G
        <5> QED BY <2>1, <3>1, <4>1, <4>2
      <4>4. line(f, o) = with(o, f[value_end(o) + 2])
        BY Zenon, <3>1 DEF with
      <4> QED BY <4>3, <4>4
    <3>2. CASE o \notin more
      <4>1. f[o] = base(o)
        <5> HIDE DEF V, more, Next1, G
        <5> QED BY <2>1, <3>2
      <4>2. line(f, o) = base(o)
        BY Zenon, <3>2 DEF base
      <4> QED BY <4>1, <4>2
    <3> QED BY <3>1, <3>2
  <2> HIDE DEF V, more, Next1, Base, G, line
  <2>3. f = [o \in off .. n |-> f[o]]
    BY <2>1
  <2> QED BY <2>2, <2>3
<1>11. ASSUME NEW g, Sol(g) PROVE g[off] \in V
  <2>1. \A o \in off .. n : g[o] = line(g, o)
    <3> HIDE DEF line
    <3> QED BY <1>11
  <2> DEFINE T == {o \in off .. n : g[o] \in V}
  <2>2. ASSUME NEW k \in off .. n, \A j \in k + 1 .. n : j \in T PROVE k \in T
    <3>1. CASE k \in more
      <4>1. value_end(k) + 2 \in k + 1 .. n
        BY <1>5, <3>1
      <4>2. g[value_end(k) + 2] \in V
        <5> HIDE DEF V
        <5> QED BY <2>2, <4>1
      <4>3. line(g, k) = with(k, g[value_end(k) + 2])
        BY Zenon, <3>1 DEF with
      <4>4. g[k] \in V
        <5> HIDE DEF V, line, more
        <5> QED BY <1>7, <2>1, <3>1, <4>2, <4>3
      <4> QED BY <4>4
    <3>2. CASE k \notin more
      <4>1. line(g, k) = base(k)
        BY Zenon, <3>2 DEF base
      <4>2. g[k] \in V
        <5> HIDE DEF V, line, more
        <5> QED BY <1>6, <2>1, <3>2, <4>1
      <4> QED BY <4>2
    <3> QED BY <3>1, <3>2
  <2>3. off .. n \subseteq T
    <3> HIDE DEF T
    <3> QED BY <1>2, <2>2, Downwards
  <2> QED BY <1>2, <2>3
<1>12. Sol(CHOOSE g : Sol(g))
  <2> HIDE DEF Sol
  <2> QED BY <1>10
<1>13. ASSUME NEW g, Sol(g) PROVE HeaderLines(g, text, off)
  <2>1. \A o \in off .. n : g[o] = line(g, o)
    <3> HIDE DEF line
    <3> QED BY <1>13
  <2>2. g[off] \in V
    <3> HIDE DEF Sol, V
    <3> QED BY <1>11, <1>13
  <2>3. \A o : line(g, o) = LineAt(g, text, o)
    BY Zenon DEF LineAt, NameEnd, ValueEnd, HeaderAt, named, ended, last, name_end, value_end, header
  <2> HIDE DEF line
  <2> QED BY Zenon, <2>1, <2>2, <2>3 DEF HeaderLines, n
<1> HIDE DEF Sol
<1> QED BY Zenon, <1>1, <1>12, <1>13

LEMMA HeadersRead ==
    ASSUME NEW text \in Seq(Char), NEW off \in 0 .. Len(text), LineEnd(text, off)
    PROVE  parse_headers(text, off) \in Lines(text, off)
<1> DEFINE n == Len(text)
           V == Lines(text, off)
<1>1. n \in Nat /\ off \in Nat /\ off <= n /\ off \in off .. n
  OBVIOUS
<1>2. PICK g : /\ HeaderLines(g, text, off)
               /\ parse_headers(text, off) =
                     IF sees(text, off, CRLF) THEN Read(off + 2, <<>>) ELSE g[off]
  BY Zenon, HeadersUnfold
<1>3. CASE sees(text, off, CRLF)
  <2>1. LineEnd(text, off + 2)
    BY <1>3, LineEndSeen
  <2>2. off + 2 \in off .. n /\ EmptyLine(text, off + 2)
    BY <1>1, <2>1 DEF LineEnd, EmptyLine, n
  <2>3. <<>> \in Seq(Header(text))
    OBVIOUS
  <2>4. Read(off + 2, <<>>) \in V
    BY <2>2, <2>3 DEF Lines, Read, n
  <2> QED BY <1>2, <1>3, <2>4
<1>4. CASE ~sees(text, off, CRLF)
  BY Zenon, <1>2, <1>4 DEF HeaderLines
<1> QED BY <1>3, <1>4

LEMMA VersionEnds ==
    ASSUME NEW text \in Seq(Char), NEW off \in 0 .. Len(text), NEW v \in VersionTokens,
           sees(text, off, v)
    PROVE  /\ off + Len(v) \in off .. Len(text)
           /\ LineEnd(text, off + Len(v))
<1> DEFINE C == {" ", "H", "T", "P", "/", "1", ".", "0", "CR", "LF"}
           one == <<" ", "H", "T", "T", "P", "/", "1">>
<1>1. PICK minor \in {<<>>, <<".", "0">>, <<".", "1">>} : v = one \o minor \o CRLF
  BY DEF VersionTokens
<1>2. one \in Seq(C) /\ minor \in Seq(C) /\ CRLF \in Seq(C) /\ Len(CRLF) = 2
  <2>1. one \in Seq(C)
    OBVIOUS
  <2>2. minor \in Seq(C)
    <3>1. <<>> \in Seq(C) /\ <<".", "0">> \in Seq(C) /\ <<".", "1">> \in Seq(C)
      OBVIOUS
    <3> HIDE DEF C
    <3> QED BY <3>1
  <2>3. CRLF \in Seq(C) /\ Len(CRLF) = 2
    BY DEF CRLF
  <2> QED BY <2>1, <2>2, <2>3
<1> DEFINE x == one \o minor
           k == Len(x)
<1>3. x \in Seq(C) /\ v = x \o CRLF
  <2>1. v = x \o CRLF
    BY <1>1
  <2> HIDE DEF one, C
  <2>2. x \in Seq(C)
    BY <1>2
  <2> QED BY <2>1, <2>2
<1> HIDE DEF x, C, one
<1>4. k \in Nat /\ Len(v) = k + 2 /\ v[k + 1] = CRLF[1] /\ v[k + 2] = CRLF[2]
  <2>1. k \in Nat
    BY <1>3
  <2>2. Len(x \o CRLF) = k + 2 /\ (x \o CRLF)[k + 1] = CRLF[1] /\ (x \o CRLF)[k + 2] = CRLF[2]
    <3>1. 1 \in 1 .. Len(CRLF) /\ 2 \in 1 .. Len(CRLF)
      BY <1>2
    <3>2. /\ Len(x \o CRLF) = k + Len(CRLF)
          /\ \A i \in 1 .. k + Len(CRLF) : (x \o CRLF)[i] = IF i <= k THEN x[i] ELSE CRLF[i - k]
      BY <1>2, <1>3, ConcatProperties
    <3> HIDE DEF k
    <3>3. k + 1 \in 1 .. k + 2 /\ k + 2 \in 1 .. k + 2 /\ ~ (k + 1 <= k) /\ ~ (k + 2 <= k)
          /\ (k + 1) - k = 1 /\ (k + 2) - k = 2
      BY <2>1
    <3> QED BY Zenon, <1>2, <3>2, <3>3
  <2> QED BY Zenon, <1>3, <2>1, <2>2
<1>5. CRLF[1] = "CR" /\ CRLF[2] = "LF"
  BY DEF CRLF
<1> HIDE DEF k
<1>6. Len(text) \in Nat
  OBVIOUS
<1>7. off + (k + 2) <= Len(text) /\ SubSeq(text, off + 1, off + (k + 2)) = v
  BY <1>4 DEF sees
<1>8. /\ SubSeq(text, off + 1, off + (k + 2))[k + 1] = text[off + k + 1]
      /\ SubSeq(text, off + 1, off + (k + 2))[k + 2] = text[off + k + 2]
  BY <1>4, <1>6, <1>7
<1>9. text[off + k + 1] = "CR" /\ text[off + k + 2] = "LF"
  BY Zenon, <1>4, <1>5, <1>7, <1>8
<1>10. off + Len(v) = off + k + 2 /\ off + Len(v) - 1 = off + k + 1
       /\ off + Len(v) \in off .. Len(text) /\ off + Len(v) \in 2 .. Len(text)
  <2> DEFINE length == Len(v)
             n == Len(text)
  <2>1. length = k + 2 /\ k \in Nat /\ n \in Nat /\ off \in 0 .. n /\ off + (k + 2) <= n
    BY Zenon, <1>4, <1>6, <1>7
  <2> HIDE DEF length, n
  <2>2. off + length = off + k + 2 /\ off + length - 1 = off + k + 1
        /\ off + length \in off .. n /\ off + length \in 2 .. n
    BY <2>1
  <2> QED BY Zenon, <2>2 DEF length, n
<1> QED BY <1>9, <1>10 DEF LineEnd

\* What parse_request() returns.
IsRequest(r, text) == r.url \in URL(text) /\ r.headers \in Seq(Header(text))

IsParsed(r, text) ==
    /\ r.res \in {"true", "false", "abort"}
    /\ r.res # "abort" => r.off \in 0 .. Len(text)
    /\ r.res = "true" => r.off = Len(text) /\ EmptyLine(text, Len(text))
    /\ IsRequest(r.val, text)

SomeRequest(m, u) == [NewRequest EXCEPT !.method = m, !.url = u]

LEMMA WithHeaders ==
    ASSUME NEW text \in Seq(Char), NEW off \in 0 .. Len(text), NEW m, NEW u \in URL(text),
           NEW lines \in Lines(text, off)
    PROVE  IsParsed(with_headers(text, SomeRequest(m, u), lines), text)
<1> DEFINE count == IF Len(lines.val) < MAX_REQUEST_HEADERS THEN Len(lines.val)
                    ELSE MAX_REQUEST_HEADERS
           good == lines.res = "true" /\ lines.off = Len(text)
           kept == SubSeq(lines.val, 1, count)
           r == [SomeRequest(m, u) EXCEPT !.valid = good, !.headers = kept,
                                          !.ignored_count = Len(lines.val) - count]
           res == [res |-> IF good THEN "true" ELSE "false", off |-> lines.off, val |-> r]
<1>1. with_headers(text, SomeRequest(m, u), lines) = res
  BY DEF with_headers
<1>2. lines.off \in off .. Len(text) /\ lines.val \in Seq(Header(text))
      /\ (lines.res = "true" => EmptyLine(text, lines.off))
  BY DEF Lines
<1>3. Len(text) \in Nat /\ MAX_REQUEST_HEADERS \in Nat
  BY LimitsAssumption
<1>4. kept \in Seq(Header(text))
  <2>1. count \in 0 .. Len(lines.val)
    BY <1>2, <1>3
  <2> HIDE DEF count
  <2>2. \A i \in 1 .. count : lines.val[i] \in Header(text)
    BY <1>2, <2>1
  <2> QED BY <1>2, <2>1, <2>2
<1> HIDE DEF kept, count, good
<1>5. r.url = u /\ r.headers = kept
  BY DEF SomeRequest, NewRequest
<1>6. res.val = r /\ res.off = lines.off /\ res.res = IF good THEN "true" ELSE "false"
  BY Zenon
<1> HIDE DEF r, res
<1>7. IsRequest(res.val, text)
  BY <1>4, <1>5, <1>6 DEF IsRequest
<1>8. res.off \in 0 .. Len(text)
  BY <1>2, <1>3, <1>6
<1>9. res.res \in {"true", "false", "abort"} /\ (res.res = "true" => good)
  BY <1>6
<1>10. good => res.off = Len(text) /\ EmptyLine(text, Len(text))
  BY Zenon, <1>2, <1>6 DEF good
<1>11. IsParsed(res, text)
  BY Zenon, <1>7, <1>8, <1>9, <1>10 DEF IsParsed
<1> QED BY <1>1, <1>11

LEMMA EmptyURL ==
    ASSUME NEW text \in Seq(Char)
    PROVE  NoURL \in URL(text) /\ IsRequest(NewRequest, text)
<1>1. NoSlice \in Inside(text) /\ NoSlice \in AnySlice
  BY DEF NoSlice, Inside, AnySlice
<1>2. -1 \in -1 .. UINT16_MAX
  BY LimitsAssumption
<1>3. NoURL \in URL(text)
  BY <1>1, <1>2 DEF NoURL, URL, NoAuthority, Authority, Host
<1>4. NewRequest.url = NoURL /\ NewRequest.headers = <<>>
  BY DEF NewRequest
<1>5. <<>> \in Seq(Header(text))
  OBVIOUS
<1> QED BY <1>3, <1>4, <1>5 DEF IsRequest

LEMMA NotParsed ==
    ASSUME NEW text, NEW res \in {"false", "abort"}, NEW off,
           res = "false" => off \in 0 .. Len(text), NEW r, IsRequest(r, text)
    PROVE  IsParsed([res |-> res, off |-> off, val |-> r], text)
<1> DEFINE p == [res |-> res, off |-> off, val |-> r]
<1>1. p.res = res /\ p.off = off /\ p.val = r
  OBVIOUS
<1> HIDE DEF p
<1>2. p.res \in {"true", "false", "abort"} /\ p.res # "true"
  BY <1>1
<1>3. p.res # "abort" => p.off \in 0 .. Len(text)
  BY <1>1
<1>4. IsParsed(p, text)
  BY Zenon, <1>1, <1>2, <1>3 DEF IsParsed
<1> QED BY <1>4 DEF p

LEMMA RequestRead ==
    ASSUME NEW text \in Seq(Char)
    PROVE  IsParsed(parse_request(text), text)
<1> DEFINE stop == span(text, 0, Upper)
           name == SubSeq(text, 1, stop)
           some == [NewRequest EXCEPT !.method = name]
           url == parse_url(text, stop + 1)
           r == parse_request(text)
           spaced == next_in(text, stop, {" "})
<1> SUFFICES IsParsed(r, text)
  OBVIOUS
<1>1. r = IF name \notin Methods THEN [res |-> "false", off |-> stop, val |-> NewRequest]
          ELSE IF ~spaced THEN [res |-> "false", off |-> stop, val |-> some]
          ELSE with_url(text, some, url)
  BY DEF parse_request
<1>2. Len(text) \in Nat /\ 0 \in 0 .. Len(text)
  OBVIOUS
<1>3. stop \in 0 .. Len(text)
  BY <1>2, SpanEnds
<1>a. spaced => stop + 1 \in 0 .. Len(text)
  <2> DEFINE blank == {" "}
  <2>1. spaced => next_in(text, stop, blank)
    BY Zenon
  <2> HIDE DEF blank, spaced, stop
  <2> QED BY <1>2, <1>3, <2>1 DEF next_in
<1> HIDE DEF r, stop, name, spaced
<1>4. IsRequest(NewRequest, text) /\ NoURL \in URL(text)
  BY EmptyURL
<1>5. IsRequest(some, text)
  <2>1. some.url = NewRequest.url /\ some.headers = NewRequest.headers
    BY DEF NewRequest
  <2> QED BY <1>4, <2>1 DEF IsRequest
<1>6. IsParsed([res |-> "false", off |-> stop, val |-> NewRequest], text)
  BY <1>3, <1>4, NotParsed
<1>7. IsParsed([res |-> "false", off |-> stop, val |-> some], text)
  <2> HIDE DEF some
  <2> QED BY <1>3, <1>5, NotParsed
<1>8. spaced => IsParsed(with_url(text, some, url), text)
  <2> SUFFICES ASSUME spaced PROVE IsParsed(with_url(text, some, url), text)
    OBVIOUS
  <2> DEFINE versions == {v \in VersionTokens : sees(text, url.off, v)}
             v == CHOOSE x \in versions : TRUE
             with == [some EXCEPT !.url = url.val]
             w == with_url(text, some, url)
             at == url.off + Len(v)
  <2> SUFFICES IsParsed(w, text)
    OBVIOUS
  <2>1. w = IF url.res # "true" THEN [res |-> url.res, off |-> url.off, val |-> some]
            ELSE IF versions = {} THEN [res |-> "false", off |-> url.off, val |-> with]
            ELSE with_headers(text, with, parse_headers(text, at))
    BY DEF with_url
  <2>2. stop + 1 \in 0 .. Len(text)
    BY <1>a
  <2>3. url \in Results(text, stop + 1, URL(text))
    BY <2>2, URLRead
  <2> HIDE DEF url, w
  <2>4. with = SomeRequest(name, url.val)
    BY DEF SomeRequest, NewRequest
  <2> HIDE DEF some
  <2>5. CASE url.res # "true"
    <3>1. url.res \in {"false", "abort"} /\ (url.res = "false" => url.off \in stop + 1 .. Len(text))
      <4>1. url \in [res: {"false"}, off: stop + 1 .. Len(text)] \/ url = Abort
        BY <2>3, <2>5 DEF Results
      <4> QED BY <4>1 DEF Abort
    <3>2. url.res = "false" => url.off \in 0 .. Len(text)
      BY <1>2, <2>2, <3>1
    <3>3. IsParsed([res |-> url.res, off |-> url.off, val |-> some], text)
      BY <1>5, <3>1, <3>2, NotParsed
    <3> QED BY <2>1, <2>5, <3>3
  <2>6. CASE url.res = "true"
    <3>1. url.off \in stop + 1 .. Len(text) /\ url.val \in URL(text)
      BY <2>3, <2>6, Opened
    <3>2. url.off \in 0 .. Len(text)
      BY <1>2, <2>2, <3>1
    <3>3. IsRequest(with, text)
      <4>1. with.url = url.val /\ with.headers = NewRequest.headers
        BY <2>4 DEF SomeRequest, NewRequest
      <4> QED BY <1>4, <3>1, <4>1 DEF IsRequest
    <3> HIDE DEF with
    <3>4. CASE versions = {}
      <4>1. IsParsed([res |-> "false", off |-> url.off, val |-> with], text)
        BY <3>2, <3>3, NotParsed
      <4> QED BY <2>1, <2>6, <3>4, <4>1
    <3>5. CASE versions # {}
      <4>1. v \in versions
        <5> HIDE DEF versions
        <5> QED BY <3>5
      <4>2. v \in VersionTokens /\ sees(text, url.off, v)
        <5> HIDE DEF v
        <5> QED BY <4>1
      <4> HIDE DEF v
      <4>3. at \in url.off .. Len(text) /\ LineEnd(text, at)
        BY <3>2, <4>2, VersionEnds
      <4>4. at \in 0 .. Len(text)
        BY <1>2, <3>2, <4>3
      <4> HIDE DEF at
      <4>5. parse_headers(text, at) \in Lines(text, at)
        BY <4>3, <4>4, HeadersRead
      <4>6. IsParsed(with_headers(text, with, parse_headers(text, at)), text)
        BY <2>4, <3>1, <4>4, <4>5, WithHeaders
      <4>7. w = with_headers(text, with, parse_headers(text, at))
        <5> HIDE DEF versions
        <5> QED BY <2>1, <2>6, <3>5
      <4> QED BY <4>6, <4>7
    <3> QED BY <3>4, <3>5
  <2> QED BY <2>5, <2>6
<1> HIDE DEF some, url
<1> QED BY <1>1, <1>6, <1>7, <1>8

-----------------------------------------------------------------------------
(* The text that is parsed.                                                 *)

Needle == CRLF \o CRLF

\* What TextsAssumption says of a head.
LEMMA HeadsEnd ==
    ASSUME NEW head \in RequestTexts
    PROVE  LET text == HeadText(head)
           IN  /\ text \in Seq(Char) /\ Len(text) >= 4
               /\ SubSeq(text, Len(text) - 3, Len(text)) = Needle
               /\ \A i \in 1 .. Len(text) - 4 :
                     ~ (text[i] = "CR" /\ text[i + 1] = "LF" /\ text[i + 2] = "CR")
<1> DEFINE text == HeadText(head)
<1>1. /\ text \in Seq(Char) /\ Len(text) >= 4
      /\ SubSeq(text, Len(text) - 3, Len(text)) = CRLF \o CRLF
      /\ \A i \in 1 .. Len(text) - 4 :
            <<text[i], text[i + 1], text[i + 2]>> # <<"CR", "LF", "CR">>
  BY Zenon, TextsAssumption
<1> HIDE DEF text
<1>2. \A i \in 1 .. Len(text) - 4 :
         ~ (text[i] = "CR" /\ text[i + 1] = "LF" /\ text[i + 2] = "CR")
  BY <1>1
<1> QED BY <1>1, <1>2 DEF text, Needle

LEMMA NeedleIs ==
    /\ Needle \in Seq({"CR", "LF"}) /\ Len(Needle) = 4
    /\ Needle[1] = "CR" /\ Needle[2] = "LF" /\ Needle[3] = "CR" /\ Needle[4] = "LF"
<1> DEFINE S == {"CR", "LF"}
<1>1. CRLF \in Seq(S) /\ Len(CRLF) = 2 /\ CRLF[1] = "CR" /\ CRLF[2] = "LF"
  BY DEF CRLF
<1> HIDE DEF S
<1>2. /\ CRLF \o CRLF \in Seq(S)
      /\ Len(CRLF \o CRLF) = Len(CRLF) + Len(CRLF)
      /\ \A i \in 1 .. Len(CRLF) + Len(CRLF) :
            (CRLF \o CRLF)[i] = IF i <= Len(CRLF) THEN CRLF[i] ELSE CRLF[i - Len(CRLF)]
  BY <1>1, ConcatProperties
<1>3. Needle \in Seq(S) /\ Len(Needle) = 4
      /\ \A i \in 1 .. 4 : Needle[i] = IF i <= 2 THEN CRLF[i] ELSE CRLF[i - 2]
  <2>1. Needle = CRLF \o CRLF
    BY DEF Needle
  <2>2. 2 + 2 = 4
    OBVIOUS
  <2> QED BY Zenon, <1>1, <1>2, <2>1, <2>2
<1> QED BY <1>1, <1>3 DEF S

\* Where slice_until() ends the slice, behind the token or, when it is not there,
\* one character behind the data.
Hits(data) == {i \in 0 .. Len(data) - 4 : SubSeq(data, i + 1, i + 4) = Needle}

LEMMA SliceUntil ==
    ASSUME NEW data \in Seq(Char), NEW behind \in Seq(Char)
    PROVE  /\ Hits(data) # {} => BU!slice_until(data, behind, Needle) \in Seq(Char)
           /\ Hits(data) = {} =>
                 BU!slice_until(data, behind, Needle) =
                    IF Len(data) < 3 THEN <<>> ELSE SubSeq(data \o behind, 1, Len(data) + 1)
<1> DEFINE lim == Len(data) - Len(Needle) + 1
           hits == {i \in 0 .. lim - 1 : SubSeq(data, i + 1, i + Len(Needle)) = Needle}
           end == BU!seek(data, Needle)
           least == CHOOSE i \in hits : \A j \in hits : i <= j
<1>1. end = IF hits # {} THEN least ELSE IF lim < 0 THEN -1 ELSE lim
  BY DEF BU!seek
<1>2. Len(data) \in Nat /\ lim = Len(data) - 3 /\ hits = Hits(data)
  <2>1. Len(data) \in Nat /\ Len(Needle) = 4
    BY NeedleIs
  <2>2. lim = Len(data) - 3 /\ lim - 1 = Len(data) - 4
    BY <2>1
  <2> HIDE DEF lim
  <2> QED BY <2>1, <2>2 DEF Hits
<1>3. BU!slice_until(data, behind, Needle) =
        IF end < 0 THEN <<>> ELSE SubSeq(data \o behind, 1, end + Len(Needle))
  BY DEF BU!slice_until
<1> HIDE DEF end, lim, hits
<1>4. CASE Hits(data) # {}
  <2>1. hits \subseteq Nat
    BY <1>2 DEF Hits
  <2>2. \E i \in hits : \A j \in hits : i <= j
    BY <1>2, <1>4, <2>1, Smallest
  <2>3. least \in hits
    BY <2>2
  <2> HIDE DEF least
  <2>4. end \in 0 .. Len(data) - 4
    BY <1>1, <1>2, <1>4, <2>3 DEF Hits
  <2>5. data \o behind \in Seq(Char) /\ Len(data \o behind) = Len(data) + Len(behind) /\ Len(behind) \in Nat
    OBVIOUS
  <2> DEFINE both == data \o behind
  <2> HIDE DEF both
  <2>6. SubSeq(both, 1, end + 4) \in Seq(Char)
    <3>1. \A i \in 1 .. end + 4 : both[i] \in Char
      BY <1>2, <2>4, <2>5 DEF both
    <3> QED BY <2>4, <3>1
  <2> QED BY <1>3, <1>4, <2>4, <2>6, NeedleIs DEF both
<1>5. CASE Hits(data) = {}
  <2>1. end = IF lim < 0 THEN -1 ELSE lim
    BY <1>1, <1>2, <1>5
  <2>2. CASE lim < 0
    BY <1>2, <1>3, <1>5, <2>1, <2>2
  <2>3. CASE ~ (lim < 0)
    <3>1. end = Len(data) - 3 /\ ~ (end < 0) /\ end + Len(Needle) = Len(data) + 1 /\ ~ (Len(data) < 3)
      BY <1>2, <2>1, <2>3, NeedleIs
    <3> QED BY Zenon, <1>3, <1>5, <3>1
  <2> QED BY <2>2, <2>3
<1> QED BY <1>4, <1>5

LEMMA ArrivedWhole ==
    ASSUME NEW head \in RequestTexts, NEW t \in Arrivals(head), t.lacks = 0
    PROVE  RequestText(t) \in Seq(Char)
<1> DEFINE H == HeadText(head)
           data == Data(t)
<1>1. H \in Seq(Char) /\ Len(H) >= 4 /\ SubSeq(H, Len(H) - 3, Len(H)) = Needle
  BY HeadsEnd
<1>2. t.of = head /\ t.more \in {<<>>, H} /\ t.behind = <<>>
  <2>1. \/ t \in [of: {head}, lacks: {0}, more: {<<>>, H}, behind: {<<>>}]
        \/ t \in [of: {head}, lacks: 1 .. Len(H), more: {<<>>}, behind: {<<c>> : c \in Junk}]
    BY Zenon DEF Arrivals
  <2>2. t \notin [of: {head}, lacks: 1 .. Len(H), more: {<<>>}, behind: {<<c>> : c \in Junk}]
    <3> HIDE DEF H
    <3> QED OBVIOUS
  <2> HIDE DEF H
  <2> QED BY <2>1, <2>2
<1>3. data = SubSeq(H, 1, Len(H) - 0) \o t.more
  BY <1>2 DEF Data
<1> HIDE DEF H, data
<1>4. SubSeq(H, 1, Len(H) - 0) = H
  BY <1>1
<1>5. t.more \in Seq(Char)
  <2>1. <<>> \in Seq(Char)
    OBVIOUS
  <2>2. t.more = <<>> \/ t.more = H
    BY Zenon, <1>2
  <2> QED BY Zenon, <1>1, <2>1, <2>2
<1>6. data = H \o t.more /\ data \in Seq(Char) /\ Len(data) = Len(H) + Len(t.more)
      /\ \A i \in 1 .. Len(H) : data[i] = H[i]
  <2>1. data = H \o t.more
    BY Zenon, <1>3, <1>4
  <2> QED BY <1>1, <1>5, <2>1
<1>7. Len(H) - 4 \in Hits(data)
  <2> DEFINE n == Len(H)
             m == Len(data)
  <2>1. n \in Nat /\ n >= 4 /\ m \in Nat /\ m >= n
    BY <1>1, <1>5, <1>6
  <2>2. \A i \in 1 .. n : data[i] = H[i]
    BY <1>6
  <2>3. n - 4 \in 0 .. m - 4 /\ (n - 4) + 1 = n - 3 /\ (n - 4) + 4 = n
    BY <2>1
  <2>4. SubSeq(data, n - 3, n) = SubSeq(H, n - 3, n)
    BY <1>1, <1>6, <2>1, <2>2
  <2> QED BY Zenon, <1>1, <2>3, <2>4 DEF Hits
<1>8. BU!slice_until(data, <<>>, Needle) \in Seq(Char)
  <2>1. <<>> \in Seq(Char) /\ Hits(data) # {}
    BY <1>7
  <2> QED BY Zenon, <1>6, <2>1, SliceUntil
<1> QED BY Zenon, <1>2, <1>8 DEF RequestText, Needle, data

LEMMA ArrivedPart ==
    ASSUME NEW head \in RequestTexts, NEW t \in Arrivals(head), t.lacks # 0
    PROVE  /\ RequestText(t) \in Seq(Char)
           /\ EmptyLine(RequestText(t), Len(RequestText(t))) => t.lacks = 1 /\ t.behind = <<"LF">>
<1> DEFINE H == HeadText(head)
           data == Data(t)
           n == Len(H)
<1>1. /\ H \in Seq(Char)
      /\ \A i \in 1 .. n - 4 : ~ (H[i] = "CR" /\ H[i + 1] = "LF" /\ H[i + 2] = "CR")
  BY HeadsEnd
<1>2. t \in [of: {head}, lacks: 1 .. n, more: {<<>>}, behind: {<<c>> : c \in Junk}]
  <2>1. \/ t \in [of: {head}, lacks: {0}, more: {<<>>, H}, behind: {<<>>}]
        \/ t \in [of: {head}, lacks: 1 .. n, more: {<<>>}, behind: {<<c>> : c \in Junk}]
    BY Zenon DEF Arrivals
  <2> HIDE DEF H, n
  <2> QED BY <2>1
<1>3. t.of = head /\ t.lacks \in 1 .. n /\ t.more = <<>>
  <2> HIDE DEF H, n
  <2> QED BY <1>2
<1>4. PICK c \in Junk : t.behind = <<c>>
  <2> HIDE DEF H, n
  <2> QED BY <1>2
<1>5. data = SubSeq(H, 1, n - t.lacks) \o <<>>
  BY <1>3 DEF Data
<1> HIDE DEF H, data
<1> DEFINE m == n - t.lacks
<1>6. n \in Nat /\ m \in 0 .. n /\ m < n
  BY <1>1, <1>3
<1> HIDE DEF n
<1>7. data \in Seq(Char) /\ Len(data) = m /\ \A i \in 1 .. m : data[i] = H[i]
  <2>1. SubSeq(H, 1, m) \in Seq(Char) /\ Len(SubSeq(H, 1, m)) = m
        /\ \A i \in 1 .. m : SubSeq(H, 1, m)[i] = H[i]
    BY <1>1, <1>6 DEF n
  <2>2. data = SubSeq(H, 1, m)
    <3> DEFINE S == SubSeq(H, 1, m)
    <3>1. data = S \o <<>>
      BY <1>5
    <3> HIDE DEF S
    <3>2. S \in Seq(Char)
      BY <2>1 DEF S
    <3>3. data = S
      BY <3>1, <3>2
    <3> QED BY <3>3 DEF S
  <2> QED BY <2>1, <2>2
<1>8. c \in Char
  BY TextsAssumption
<1> HIDE DEF m
<1>9. Hits(data) = {}
  <2> SUFFICES ASSUME NEW i \in Hits(data) PROVE FALSE
    OBVIOUS
  <2>1. i \in 0 .. m - 4 /\ SubSeq(data, i + 1, i + 4) = Needle
    BY <1>7 DEF Hits
  <2>2. /\ SubSeq(data, i + 1, i + 4)[1] = data[i + 1]
        /\ SubSeq(data, i + 1, i + 4)[2] = data[i + 2]
        /\ SubSeq(data, i + 1, i + 4)[3] = data[i + 3]
    BY <1>6, <1>7, <2>1
  <2>3. data[i + 1] = "CR" /\ data[i + 2] = "LF" /\ data[i + 3] = "CR"
    BY Zenon, <2>1, <2>2, NeedleIs
  <2>4. i + 1 \in 1 .. m /\ i + 2 \in 1 .. m /\ i + 3 \in 1 .. m /\ i + 1 \in 1 .. n - 4
        /\ (i + 1) + 1 = i + 2 /\ (i + 1) + 2 = i + 3
    BY <1>6, <2>1
  <2>5. H[i + 1] = "CR" /\ H[i + 2] = "LF" /\ H[i + 3] = "CR"
    BY Zenon, <1>7, <2>3, <2>4
  <2> QED BY Zenon, <1>1, <2>4, <2>5 DEF n
<1> DEFINE text == RequestText(t)
<1>10. text = IF m < 3 THEN <<>> ELSE SubSeq(data \o <<c>>, 1, m + 1)
  <2>1. text = BU!slice_until(data, <<c>>, Needle)
    BY Zenon, <1>4 DEF RequestText, Needle, data
  <2>2. <<c>> \in Seq(Char)
    BY <1>8
  <2> HIDE DEF text
  <2>3. BU!slice_until(data, <<c>>, Needle) =
          IF Len(data) < 3 THEN <<>> ELSE SubSeq(data \o <<c>>, 1, Len(data) + 1)
    BY <1>7, <1>9, <2>2, SliceUntil
  <2> QED BY Zenon, <1>7, <2>1, <2>3
<1> HIDE DEF text
<1>11. CASE m < 3
  <2>1. text = <<>>
    BY <1>10, <1>11
  <2> QED BY <2>1 DEF EmptyLine, text
<1>12. CASE ~ (m < 3)
  <2> DEFINE both == data \o <<c>>
  <2>1. both \in Seq(Char) /\ Len(both) = m + 1 /\ both[m + 1] = c
        /\ \A i \in 1 .. m : both[i] = data[i]
    BY <1>6, <1>7, <1>8
  <2>2. text = SubSeq(both, 1, m + 1)
    BY <1>10, <1>12
  <2> HIDE DEF both
  <2>3. text = both
    BY <1>6, <2>1, <2>2
  <2>4. ASSUME EmptyLine(text, Len(text)) PROVE t.lacks = 1 /\ t.behind = <<"LF">>
    <3>1. /\ both[m + 1] = "LF" /\ both[m] = "CR" /\ both[m - 1] = "LF" /\ both[m - 2] = "CR"
      <4>1. EmptyLine(both, m + 1)
        BY Zenon, <2>1, <2>3, <2>4
      <4>2. (m + 1) - 2 = m - 1 /\ (m + 1) - 1 = m /\ (m - 1) - 1 = m - 2
        BY <1>6
      <4> QED BY Zenon, <4>1, <4>2 DEF EmptyLine, LineEnd
    <3>2. m - 2 \in 1 .. m /\ m - 1 \in 1 .. m /\ m \in 1 .. m
          /\ (m - 2) + 1 = m - 1 /\ (m - 2) + 2 = m
      BY <1>6, <1>12
    <3>3. H[m - 2] = "CR" /\ H[m - 1] = "LF" /\ H[m] = "CR"
      BY Zenon, <1>7, <2>1, <3>1, <3>2
    <3>4. m - 2 \notin 1 .. n - 4
      BY Zenon, <1>1, <3>2, <3>3 DEF n
    <3>5. t.lacks = 1
      BY <1>3, <1>6, <3>2, <3>4 DEF m
    <3>6. c = "LF"
      BY Zenon, <2>1, <3>1
    <3> QED BY Zenon, <1>4, <3>5, <3>6
  <2> QED BY <2>1, <2>3, <2>4 DEF text
<1> QED BY <1>11, <1>12

LEMMA Arrived ==
    ASSUME NEW head \in RequestTexts, NEW t \in Arrivals(head)
    PROVE  /\ RequestText(t) \in Seq(Char)
           /\ EmptyLine(RequestText(t), Len(RequestText(t))) =>
                 IsWhole(t) \/ (t.lacks = 1 /\ t.behind = <<"LF">>)
<1>1. CASE t.lacks = 0
  BY Zenon, <1>1, ArrivedWhole DEF IsWhole
<1>2. CASE t.lacks # 0
  BY Zenon, <1>2, ArrivedPart
<1> QED BY <1>1, <1>2

LEMMA LengthRange ==
    ASSUME NEW text \in Seq(Char), NEW r, IsRequest(r, text)
    PROVE  content_length(text, r) \in -1 .. MAX_INT
<1> DEFINE named == {i \in 1 .. Len(r.headers) : Denoted(text, r.headers[i].name) = CONTENT_LENGTH}
           first == CHOOSE i \in named : \A j \in named : i <= j
           slice == r.headers[first].value
           value == Denoted(text, slice)
           start == span(value, 0, Space)
           digits == SubSeq(value, start + 1, span(value, start, Digit))
           number == Accumulated(digits, 10, MAX_INT)[Len(digits)]
<1>1. content_length(text, r) = IF ~r.valid \/ named = {} THEN 0 ELSE number
  BY DEF content_length
<1>2. MAX_INT \in Nat
  BY LimitsAssumption
<1>3. CASE named = {}
  <2>1. content_length(text, r) = 0
    BY Zenon, <1>1, <1>3
  <2>2. 0 \in -1 .. MAX_INT
    BY <1>2
  <2> QED BY Zenon, <2>1, <2>2
<1>4. CASE named # {}
  <2>1. r.headers \in Seq(Header(text)) /\ Len(text) \in Nat
    BY DEF IsRequest
  <2>2. first \in 1 .. Len(r.headers)
    <3>1. named \subseteq Nat
      OBVIOUS
    <3> HIDE DEF named
    <3>2. \E i \in named : \A j \in named : i <= j
      BY <1>4, <3>1, Smallest
    <3>3. first \in named
      BY <3>2
    <3> HIDE DEF first
    <3> QED BY <3>3 DEF named
  <2> HIDE DEF first
  <2>3. r.headers[first] \in Header(text)
    BY <2>1, <2>2
  <2>4. slice \in Inside(text)
    BY <2>3 DEF Header
  <2> HIDE DEF slice
  <2>5. slice.str = 0 /\ slice.off \in 0 .. Len(text) /\ slice.len \in 0 .. Len(text)
        /\ slice.off + slice.len <= Len(text)
    BY <2>4 DEF Inside
  <2>6. value \in Seq(Char)
    <3> DEFINE a == slice.off
               b == slice.off + slice.len
    <3>1. a \in Nat /\ b \in Nat /\ b <= Len(text)
      BY <2>1, <2>5
    <3>2. value = SubSeq(text, a + 1, b)
      BY <2>5 DEF Denoted
    <3> HIDE DEF a, b, value
    <3>3. \A i \in a + 1 .. b : text[i] \in Char
      BY <2>1, <3>1
    <3>4. SubSeq(text, a + 1, b) \in Seq(Char)
      BY <3>1, <3>3
    <3> QED BY <3>2, <3>4
  <2> HIDE DEF value
  <2>7. start \in 0 .. Len(value)
    <3>1. Len(value) \in Nat /\ 0 \in 0 .. Len(value)
      BY <2>6
    <3> QED BY <3>1, SpanEnds
  <2> HIDE DEF start
  <2>8. IsDigits(digits)
    BY <2>6, <2>7, DigitsOf
  <2> HIDE DEF digits
  <2>9. Accumulated(digits, 10, MAX_INT) \in [0 .. Len(digits) -> -1 .. MAX_INT]
    BY <1>2, <2>8, AccumulatedUnfolds
  <2>10. Len(digits) \in 0 .. Len(digits)
    BY <2>8 DEF IsDigits
  <2>11. number \in -1 .. MAX_INT
    BY <2>9, <2>10
  <2>12. 0 \in -1 .. MAX_INT
    BY <1>2
  <2> HIDE DEF number, named
  <2> QED BY <1>1, <2>11, <2>12
<1> QED BY <1>3, <1>4

-----------------------------------------------------------------------------
(* The calls.                                                               *)

Call(fn, t) == [fn |-> fn, means |-> t]

IPv4Returned ==
    \E t \in IPv4Texts : /\ arg = Call("IPv4", t)
                         /\ ret \in Results(IPv4Text(t), 0, [1 .. 4 -> 0 .. UINT8_MAX])
                         /\ ret # Abort

IPv6Returned ==
    \E t \in IPv6Texts : /\ arg = Call("IPv6", t)
                         /\ ret \in Results(IPv6Text(t), 0, [1 .. 8 -> 0 .. UINT16_MAX])

RequestReturned ==
    \E head \in RequestTexts : \E t \in Arrivals(head) :
        /\ arg = Call("Request", t)
        /\ \E off : /\ ret = [res |-> ret.res, off |-> off]
                    /\ IsParsed([res |-> ret.res, off |-> off, val |-> req], RequestText(t))

LengthReturned ==
    \E t : /\ arg = Call("content_length", t)
           /\ ret.val \in -1 .. MAX_INT

\* The inductive invariant: what each call may have returned.
Returned == arg = NoCall \/ IPv4Returned \/ IPv6Returned \/ RequestReturned \/ LengthReturned

LEMMA IPv4Step == IPv4_parse => IPv4Returned'
<1> SUFFICES ASSUME IPv4_parse PROVE IPv4Returned'
  OBVIOUS
<1>1. PICK t \in IPv4Texts : arg' = Call("IPv4", t) /\ ret' = parse_ipv4(IPv4Text(t), 0)
  BY Zenon DEF IPv4_parse, Call
<1> DEFINE text == IPv4Text(t)
<1>2. text \in Seq(Char)
  BY Zenon, TextsAssumption
<1> HIDE DEF text
<1>3. 0 \in 0 .. Len(text)
  BY <1>2
<1>4. /\ parse_ipv4(text, 0) \in Results(text, 0, [1 .. 4 -> 0 .. UINT8_MAX])
      /\ parse_ipv4(text, 0) # Abort
  BY <1>2, <1>3, IPv4Bounded
<1> QED BY Zenon, <1>1, <1>4 DEF IPv4Returned, text

LEMMA IPv6Step == IPv6_parse => IPv6Returned'
<1> SUFFICES ASSUME IPv6_parse PROVE IPv6Returned'
  OBVIOUS
<1>1. PICK t \in IPv6Texts : arg' = Call("IPv6", t) /\ ret' = parse_ipv6(IPv6Text(t), 0)
  BY Zenon DEF IPv6_parse, Call
<1> DEFINE text == IPv6Text(t)
<1>2. text \in Seq(Char)
  BY Zenon, TextsAssumption
<1> HIDE DEF text
<1>3. 0 \in 0 .. Len(text)
  BY <1>2
<1>4. parse_ipv6(text, 0) \in Results(text, 0, [1 .. 8 -> 0 .. UINT16_MAX])
  BY <1>2, <1>3, IPv6Bounded
<1> QED BY Zenon, <1>1, <1>4 DEF IPv6Returned, text

LEMMA RequestStep == Request_parse => RequestReturned'
<1> SUFFICES ASSUME Request_parse PROVE RequestReturned'
  OBVIOUS
<1>a. PICK head \in RequestTexts : \E t \in Arrivals(head) :
         LET result == parse_request(RequestText(t)) IN
         /\ arg' = [fn |-> "Request", means |-> t]
         /\ ret' = [res |-> result.res, off |-> result.off]
         /\ req' = result.val
  BY Zenon DEF Request_parse
<1>1. PICK t \in Arrivals(head) :
         LET result == parse_request(RequestText(t)) IN
         /\ arg' = [fn |-> "Request", means |-> t]
         /\ ret' = [res |-> result.res, off |-> result.off]
         /\ req' = result.val
  BY Zenon, <1>a
<1> DEFINE text == RequestText(t)
           result == parse_request(text)
<1>2. arg' = Call("Request", t) /\ ret' = [res |-> result.res, off |-> result.off] /\ req' = result.val
  BY Zenon, <1>1 DEF Call
<1>3. IsParsed(result, text)
  <2>1. text \in Seq(Char)
    BY Zenon, Arrived
  <2> HIDE DEF text
  <2> QED BY Zenon, <2>1, RequestRead
<1> HIDE DEF text, result
<1> DEFINE p == [res |-> result.res, off |-> result.off, val |-> result.val]
<1>4. p.res = result.res /\ p.off = result.off /\ p.val = result.val
  BY Zenon
<1> HIDE DEF p
<1>5. IsParsed(p, text)
  BY Zenon, <1>3, <1>4 DEF IsParsed
<1>6. ret'.res = result.res
  BY Zenon, <1>2
<1>7. ret' = [res |-> ret'.res, off |-> result.off]
  BY Zenon, <1>2, <1>6
<1>8. IsParsed([res |-> ret'.res, off |-> result.off, val |-> req'], text)
  BY Zenon, <1>2, <1>5, <1>6 DEF p
<1> QED BY Zenon, <1>2, <1>7, <1>8 DEF RequestReturned, text

LEMMA LengthStep == Returned /\ Request_content_length => LengthReturned'
<1> SUFFICES ASSUME Returned, Request_content_length PROVE LengthReturned'
  OBVIOUS
<1>1. arg.fn = "Request" /\ arg' = [arg EXCEPT !.fn = "content_length"]
      /\ ret' = Read(0, content_length(RequestText(arg.means), req))
  BY Zenon DEF Request_content_length
<1>2. RequestReturned
  <2>1. NoCall.fn # "Request"
    BY DEF NoCall
  <2>2. \A t : Call("IPv4", t).fn # "Request" /\ Call("IPv6", t).fn # "Request"
               /\ Call("content_length", t).fn # "Request"
    BY DEF Call
  <2> QED BY Zenon, <1>1, <2>1, <2>2 DEF Returned, IPv4Returned, IPv6Returned, LengthReturned
<1>a. PICK head \in RequestTexts : \E t \in Arrivals(head) : \E off :
         /\ arg = Call("Request", t)
         /\ IsParsed([res |-> ret.res, off |-> off, val |-> req], RequestText(t))
  BY Zenon, <1>2 DEF RequestReturned
<1>3. PICK t \in Arrivals(head) : \E off :
         /\ arg = Call("Request", t)
         /\ IsParsed([res |-> ret.res, off |-> off, val |-> req], RequestText(t))
  BY Zenon, <1>a
<1> DEFINE text == RequestText(t)
<1>4. IsRequest(req, text)
  <2>0. PICK off : IsParsed([res |-> ret.res, off |-> off, val |-> req], text)
    BY Zenon, <1>3
  <2> DEFINE p == [res |-> ret.res, off |-> off, val |-> req]
  <2>1. p.val = req /\ IsParsed(p, text)
    BY Zenon, <2>0
  <2> HIDE DEF p
  <2> QED BY Zenon, <2>1 DEF IsParsed
<1>5. text \in Seq(Char)
  BY Zenon, Arrived
<1>6. arg.means = t /\ arg' = Call("content_length", t)
  BY <1>1, <1>3 DEF Call
<1>7. ret'.val = content_length(text, req)
  BY Zenon, <1>1, <1>6 DEF Read
<1> HIDE DEF text
<1>8. content_length(text, req) \in -1 .. MAX_INT
  BY <1>4, <1>5, LengthRange
<1> QED BY Zenon, <1>6, <1>7, <1>8 DEF LengthReturned

LEMMA AlwaysReturned == Spec => []Returned
<1>1. Init => Returned
  BY Zenon DEF Init, Returned
<1>2. Returned /\ [Next]_vars => Returned'
  <2> SUFFICES ASSUME Returned, [Next]_vars PROVE Returned'
    OBVIOUS
  <2>1. CASE IPv4_parse
    BY Zenon, <2>1, IPv4Step DEF Returned
  <2>2. CASE IPv6_parse
    BY Zenon, <2>2, IPv6Step DEF Returned
  <2>3. CASE Request_parse
    BY Zenon, <2>3, RequestStep DEF Returned
  <2>4. CASE Request_content_length
    BY Zenon, <2>4, LengthStep DEF Returned
  <2>5. CASE Return
    BY Zenon, <2>5 DEF Return, Returned
  <2>6. CASE UNCHANGED vars
    <3>1. arg' = arg /\ ret' = ret /\ req' = req
      BY <2>6 DEF vars
    <3> QED BY Zenon, <3>1 DEF Returned, IPv4Returned, IPv6Returned, RequestReturned, LengthReturned
  <2> QED BY Zenon, <2>1, <2>2, <2>3, <2>4, <2>5, <2>6 DEF Next
<1> QED BY <1>1, <1>2, PTL DEF Spec

LEMMA CallFields == \A fn, t : Call(fn, t).fn = fn /\ Call(fn, t).means = t
BY DEF Call

LEMMA FunctionCalled ==
    /\ IPv4Returned => arg.fn = "IPv4"
    /\ IPv6Returned => arg.fn = "IPv6"
    /\ RequestReturned => arg.fn = "Request"
    /\ LengthReturned => arg.fn = "content_length"
<1>1. \A fn : (\E t : arg = Call(fn, t)) => arg.fn = fn
  <2> SUFFICES ASSUME NEW fn, NEW t, arg = Call(fn, t) PROVE arg.fn = fn
    OBVIOUS
  <2> QED BY CallFields
<1>2. /\ IPv4Returned => \E t : arg = Call("IPv4", t)
      /\ IPv6Returned => \E t : arg = Call("IPv6", t)
      /\ RequestReturned => \E t : arg = Call("Request", t)
      /\ LengthReturned => \E t : arg = Call("content_length", t)
  BY Zenon DEF IPv4Returned, IPv6Returned, RequestReturned, LengthReturned
<1> QED BY Zenon, <1>1, <1>2

\* The cursor stays inside of the text for whatever is parsed, and the slices that
\* a Request is given lie inside of it.
THEOREM CursorStaysInside == Spec => []TypeOK
<1>1. Returned => TypeOK
  <2> SUFFICES ASSUME Returned PROVE TypeOK
    OBVIOUS
  <2>1. CASE arg = NoCall
    <3>1. arg.fn = "none"
      BY <2>1 DEF NoCall
    <3> QED BY <3>1 DEF TypeOK
  <2>2. CASE IPv4Returned
    <3>1. PICK t \in IPv4Texts : /\ arg = Call("IPv4", t)
                                 /\ ret \in Results(IPv4Text(t), 0, [1 .. 4 -> 0 .. UINT8_MAX])
                                 /\ ret # Abort
      BY Zenon, <2>2 DEF IPv4Returned
    <3>2. arg.fn = "IPv4" /\ arg.means = t
      BY Zenon, <3>1, CallFields
    <3>3. ret.off \in 0 .. Len(IPv4Text(arg.means))
      BY <3>1, <3>2 DEF Results
    <3> QED BY <3>2, <3>3 DEF TypeOK
  <2>3. CASE IPv6Returned
    <3>1. PICK t \in IPv6Texts : /\ arg = Call("IPv6", t)
                                 /\ ret \in Results(IPv6Text(t), 0, [1 .. 8 -> 0 .. UINT16_MAX])
      BY Zenon, <2>3 DEF IPv6Returned
    <3>2. arg.fn = "IPv6" /\ arg.means = t
      BY Zenon, <3>1, CallFields
    <3>3. ret.res # "abort" => ret.off \in 0 .. Len(IPv6Text(arg.means))
      BY SMTT(30), <3>1, <3>2 DEF Results, Abort
    <3> QED BY <3>2, <3>3 DEF TypeOK
  <2>4. CASE RequestReturned
    <3>1. PICK head \in RequestTexts : \E t \in Arrivals(head) :
             /\ arg = Call("Request", t)
             /\ \E off : /\ ret = [res |-> ret.res, off |-> off]
                         /\ IsParsed([res |-> ret.res, off |-> off, val |-> req], RequestText(t))
      BY Zenon, <2>4 DEF RequestReturned
    <3>2. PICK t \in Arrivals(head) :
             /\ arg = Call("Request", t)
             /\ \E off : /\ ret = [res |-> ret.res, off |-> off]
                         /\ IsParsed([res |-> ret.res, off |-> off, val |-> req], RequestText(t))
      BY Zenon, <3>1
    <3>3. arg.fn = "Request" /\ arg.means = t
      BY Zenon, <3>2, CallFields
    <3> DEFINE text == RequestText(arg.means)
    <3>4. text \in Seq(Char)
      BY Zenon, <3>3, Arrived
    <3>5. PICK off : /\ ret = [res |-> ret.res, off |-> off]
                     /\ IsParsed([res |-> ret.res, off |-> off, val |-> req], text)
      BY Zenon, <3>2, <3>3
    <3> HIDE DEF text
    <3> DEFINE p == [res |-> ret.res, off |-> off, val |-> req]
    <3>6. p.res = ret.res /\ p.off = ret.off /\ p.val = req
      <4>1. ret.off = off
        <5>1. ret = [res |-> ret.res, off |-> off]
          BY <3>5
        <5>2. [res |-> ret.res, off |-> off].off = off
          OBVIOUS
        <5> QED BY Zenon, <5>1, <5>2
      <4> QED BY Zenon, <4>1
    <3>7. IsParsed(p, text)
      BY Zenon, <3>5
    <3> HIDE DEF p
    <3>8. IsRequest(req, text) /\ (ret.res # "abort" => ret.off \in 0 .. Len(text))
      BY Zenon, <3>6, <3>7 DEF IsParsed
    <3>9. Len(text) \in Nat
      BY <3>4
    <3>10. \A slice \in Inside(text) :
              slice.off \in 0 .. Len(text) /\ slice.off + slice.len \in slice.off .. Len(text)
      BY <3>9 DEF Inside
    <3> DEFINE url == req.url
    <3>11. url \in URL(text) /\ req.headers \in Seq(Header(text))
      BY Zenon, <3>8 DEF IsRequest
    <3> HIDE DEF url
    <3>12. /\ url.full \in Inside(text) /\ url.path \in Inside(text) /\ url.query \in Inside(text)
           /\ url.fragment \in Inside(text) /\ url.authority.host.text \in Inside(text)
      BY <3>11 DEF URL, Authority, Host
    <3>13. \A i \in 1 .. Len(req.headers) :
              req.headers[i].name \in Inside(text) /\ req.headers[i].value \in Inside(text)
      <4>1. \A i \in 1 .. Len(req.headers) : req.headers[i] \in Header(text)
        BY <3>11
      <4>2. \A h \in Header(text) : h.name \in Inside(text) /\ h.value \in Inside(text)
        BY DEF Header
      <4> QED BY Zenon, <4>1, <4>2
    <3>14. \A slice \in {url.full, url.path, url.query, url.fragment, url.authority.host.text} :
              slice.off \in 0 .. Len(text) /\ slice.off + slice.len \in slice.off .. Len(text)
      BY Zenon, <3>10, <3>12
    <3>15. arg.fn \in {"none", "IPv4", "IPv6", "Request", "content_length"}
           /\ arg.fn # "IPv4" /\ arg.fn # "IPv6"
      BY <3>3
    <3> QED BY Zenon, <3>8, <3>10, <3>13, <3>14, <3>15 DEF TypeOK, url, text
  <2>5. CASE LengthReturned
    <3>1. arg.fn = "content_length"
      BY Zenon, <2>5, FunctionCalled
    <3> QED BY <3>1 DEF TypeOK
  <2> QED BY Zenon, <2>1, <2>2, <2>3, <2>4, <2>5 DEF Returned
<1> QED BY AlwaysReturned, <1>1, PTL

\* An address that is accepted has as many groups as its kind, each within the
\* limit of its type, whatever is in the text; the length of a body is -1 or
\* fits an int.
ValuesInRange ==
    /\ arg.fn = "IPv4" /\ ret.res = "true" => ret.val \in [1 .. 4 -> 0 .. UINT8_MAX]
    /\ arg.fn = "IPv6" /\ ret.res = "true" => ret.val \in [1 .. 8 -> 0 .. UINT16_MAX]
    /\ arg.fn = "content_length" => ret.val \in -1 .. MAX_INT

\* No parse_u8 or parse_u16 behind an accepted address and no content_length() went
\* past the limit of its type.
THEOREM ValuesAreInRange == Spec => []ValuesInRange
<1>1. Returned => ValuesInRange
  <2> SUFFICES ASSUME Returned PROVE ValuesInRange
    OBVIOUS
  <2>1. CASE arg = NoCall
    <3>1. arg.fn = "none"
      BY <2>1 DEF NoCall
    <3> QED BY <3>1 DEF ValuesInRange
  <2>2. CASE IPv4Returned
    <3>1. arg.fn = "IPv4" /\ \E t : ret \in Results(IPv4Text(t), 0, [1 .. 4 -> 0 .. UINT8_MAX])
      BY Zenon, <2>2, FunctionCalled DEF IPv4Returned
    <3>2. ret.res = "true" => ret.val \in [1 .. 4 -> 0 .. UINT8_MAX]
      BY Zenon, <3>1, Opened
    <3>3. arg.fn # "IPv6" /\ arg.fn # "content_length"
      BY <3>1
    <3> QED BY Zenon, <3>2, <3>3 DEF ValuesInRange
  <2>3. CASE IPv6Returned
    <3>1. arg.fn = "IPv6" /\ \E t : ret \in Results(IPv6Text(t), 0, [1 .. 8 -> 0 .. UINT16_MAX])
      BY Zenon, <2>3, FunctionCalled DEF IPv6Returned
    <3>2. ret.res = "true" => ret.val \in [1 .. 8 -> 0 .. UINT16_MAX]
      BY Zenon, <3>1, Opened
    <3>3. arg.fn # "IPv4" /\ arg.fn # "content_length"
      BY <3>1
    <3> QED BY Zenon, <3>2, <3>3 DEF ValuesInRange
  <2>4. CASE RequestReturned
    <3>1. arg.fn = "Request"
      BY Zenon, <2>4, FunctionCalled
    <3> QED BY <3>1 DEF ValuesInRange
  <2>5. CASE LengthReturned
    <3>1. arg.fn = "content_length" /\ ret.val \in -1 .. MAX_INT
      BY Zenon, <2>5, FunctionCalled DEF LengthReturned
    <3>2. arg.fn # "IPv4" /\ arg.fn # "IPv6"
      BY <3>1
    <3> QED BY Zenon, <3>1, <3>2 DEF ValuesInRange
  <2> QED BY Zenon, <2>1, <2>2, <2>3, <2>4, <2>5 DEF Returned
<1> QED BY AlwaysReturned, <1>1, PTL

\* A head is accepted only when all of it has arrived, or all but its last byte
\* and the byte behind the data happens to be that one.
THEOREM WholeHeads == Spec => []OnlyWholeHeads
<1>1. Returned => OnlyWholeHeads
  <2> SUFFICES ASSUME Returned, arg.fn = "Request", ret.res = "true"
               PROVE  IsWhole(arg.means) \/ (arg.means.lacks = 1 /\ arg.means.behind = <<"LF">>)
    BY Zenon DEF OnlyWholeHeads
  <2>1. RequestReturned
    <3>1. NoCall.fn # "Request"
      BY DEF NoCall
    <3>2. \A t : Call("IPv4", t).fn # "Request" /\ Call("IPv6", t).fn # "Request"
                 /\ Call("content_length", t).fn # "Request"
      BY DEF Call
    <3> QED BY Zenon, <3>1, <3>2 DEF Returned, IPv4Returned, IPv6Returned, LengthReturned
  <2>2. PICK head \in RequestTexts : \E t \in Arrivals(head) : \E off :
           /\ arg = Call("Request", t)
           /\ IsParsed([res |-> ret.res, off |-> off, val |-> req], RequestText(t))
    BY Zenon, <2>1 DEF RequestReturned
  <2>3. PICK t \in Arrivals(head) : \E off :
           /\ arg = Call("Request", t)
           /\ IsParsed([res |-> ret.res, off |-> off, val |-> req], RequestText(t))
    BY Zenon, <2>2
  <2>4. PICK off : IsParsed([res |-> ret.res, off |-> off, val |-> req], RequestText(t))
    BY Zenon, <2>3
  <2> DEFINE p == [res |-> ret.res, off |-> off, val |-> req]
  <2>5. p.res = "true" /\ IsParsed(p, RequestText(t))
    BY Zenon, <2>4
  <2> HIDE DEF p
  <2>6. EmptyLine(RequestText(t), Len(RequestText(t)))
    BY Zenon, <2>5 DEF IsParsed
  <2>7. arg.means = t
    <3>1. arg = Call("Request", t)
      BY Zenon, <2>3
    <3> QED BY Zenon, <3>1, CallFields
  <2> QED BY Zenon, <2>6, <2>7, Arrived
<1> QED BY AlwaysReturned, <1>1, PTL
=============================================================================
