---------------------------- MODULE MeaningProofs ----------------------------
(*****************************************************************************)
(* Theorems about Parse: that what is read is what was written.              *)
(*                                                                           *)
(* Each argument is put together from parts that are known, so each part is  *)
(* seen at a place that is known (Laid, Places, HeadLaid, UrlLaid and        *)
(* AuthorityLaid), and each parser, set at the place where its part begins,  *)
(* is shown to leave the cursor where it ends.  A parser that misses its     *)
(* part leaves the cursor where nothing behind it can go on.                 *)
(*****************************************************************************)
EXTENDS ParseProofs

-----------------------------------------------------------------------------
(* What lies where in a text.                                               *)

LEMMA SeesChars ==
    ASSUME NEW text \in Seq(Char), NEW off \in Nat, NEW s \in Seq(Char)
    PROVE  sees(text, off, s) <=> /\ off + Len(s) <= Len(text)
                                  /\ \A i \in 1 .. Len(s) : text[off + i] = s[i]
<1> DEFINE m == Len(s)
           n == Len(text)
           part == SubSeq(text, off + 1, off + m)
<1>1. m \in Nat /\ n \in Nat
  OBVIOUS
<1>2. ASSUME off + m <= n
      PROVE  part = s <=> \A i \in 1 .. m : text[off + i] = s[i]
  <2>1. part \in Seq(Char) /\ Len(part) = m /\ \A i \in 1 .. m : part[i] = text[off + i]
    BY <1>1, <1>2
  <2> HIDE DEF part
  <2>2. part = s <=> \A i \in 1 .. m : part[i] = s[i]
    BY <2>1, SeqEqual
  <2> QED BY <2>1, <2>2
<1> QED BY <1>2 DEF sees

\* One text behind another.
LEMMA SeesParts ==
    ASSUME NEW text \in Seq(Char), NEW off \in Nat, NEW s \in Seq(Char), NEW t \in Seq(Char)
    PROVE  sees(text, off, s \o t) <=> sees(text, off, s) /\ sees(text, off + Len(s), t)
<1> DEFINE m == Len(s)
           k == Len(t)
           st == s \o t
           n == Len(text)
<1>1. m \in Nat /\ k \in Nat /\ n \in Nat /\ st \in Seq(Char) /\ Len(st) = m + k
      /\ (\A i \in 1 .. m : st[i] = s[i]) /\ \A i \in 1 .. k : st[m + i] = t[i]
  OBVIOUS
<1>2. sees(text, off, st) <=> off + (m + k) <= n /\ \A i \in 1 .. m + k : text[off + i] = st[i]
  <2> HIDE DEF st
  <2>1. sees(text, off, st) <=> off + Len(st) <= n /\ \A i \in 1 .. Len(st) : text[off + i] = st[i]
    BY Zenon, <1>1, SeesChars
  <2> QED BY Zenon, <1>1, <2>1
<1>3. sees(text, off, s) <=> off + m <= n /\ \A i \in 1 .. m : text[off + i] = s[i]
  BY SeesChars
<1>4. sees(text, off + m, t) <=> (off + m) + k <= n /\ \A i \in 1 .. k : text[(off + m) + i] = t[i]
  BY <1>1, SeesChars
<1> HIDE DEF m, k, st, n
<1>5. \A i \in 1 .. k : (off + m) + i = off + (m + i) /\ m + i \in 1 .. m + k
  BY <1>1
<1>6. \A i \in 1 .. m + k : i \in 1 .. m \/ (i - m \in 1 .. k /\ m + (i - m) = i)
  BY <1>1
<1>7. \A i \in 1 .. m : i \in 1 .. m + k
  BY <1>1
<1>8. off + m <= n /\ (off + m) + k <= n <=> off + (m + k) <= n
  BY <1>1
<1>9. ASSUME \A i \in 1 .. m + k : text[off + i] = st[i]
      PROVE  (\A i \in 1 .. m : text[off + i] = s[i]) /\ \A i \in 1 .. k : text[(off + m) + i] = t[i]
  BY <1>1, <1>5, <1>7, <1>9
<1>10. ASSUME \A i \in 1 .. m : text[off + i] = s[i], \A i \in 1 .. k : text[(off + m) + i] = t[i],
              NEW i \in 1 .. m + k
       PROVE  text[off + i] = st[i]
  <2>1. CASE i \in 1 .. m
    BY <1>1, <1>10, <2>1
  <2>2. CASE i - m \in 1 .. k /\ m + (i - m) = i
    <3>1. text[(off + m) + (i - m)] = t[i - m] /\ (off + m) + (i - m) = off + i /\ st[m + (i - m)] = t[i - m]
      BY <1>1, <1>5, <1>10, <2>2
    <3> QED BY <2>2, <3>1
  <2> QED BY <1>6, <2>1, <2>2
<1> QED BY Zenon, <1>2, <1>3, <1>4, <1>8, <1>9, <1>10 DEF m, st

LEMMA SeesItself ==
    ASSUME NEW text \in Seq(Char)
    PROVE  sees(text, 0, text)
BY SeesChars

\* A run of characters ends where the first other one is.
LEMMA SpanIs ==
    ASSUME NEW text \in Seq(Char), NEW off \in 0 .. Len(text), NEW end \in off .. Len(text), NEW chars,
           \A i \in off .. end - 1 : text[i + 1] \in chars,
           ~next_in(text, end, chars)
    PROVE  span(text, off, chars) = end
<1> DEFINE e == span(text, off, chars)
           n == Len(text)
<1>1. n \in Nat
  OBVIOUS
<1>2. /\ e \in off .. n
      /\ \A i \in off .. e - 1 : text[i + 1] \in chars
      /\ ~next_in(text, e, chars)
  BY SpanEnds
<1> HIDE DEF e
<1>3. CASE e < end
  <2>1. e \in off .. end - 1 /\ e < n
    BY <1>1, <1>2, <1>3
  <2> QED BY <1>2, <2>1 DEF next_in
<1>4. CASE end < e
  <2>1. end \in off .. e - 1 /\ end < n
    BY <1>1, <1>2, <1>4
  <2> QED BY <1>2, <2>1 DEF next_in
<1> QED BY <1>1, <1>2, <1>3, <1>4 DEF e

\* A run of characters that are written in a text.
LEMMA SpanOf ==
    ASSUME NEW text \in Seq(Char), NEW off \in Nat, NEW s \in Seq(Char), sees(text, off, s),
           NEW chars, s \in Seq(chars), ~next_in(text, off + Len(s), chars)
    PROVE  span(text, off, chars) = off + Len(s)
<1> DEFINE m == Len(s)
           end == off + m
<1>1. m \in Nat /\ Len(text) \in Nat
  OBVIOUS
<1>2. end <= Len(text) /\ \A i \in 1 .. m : text[off + i] = s[i]
  BY SeesChars
<1>3. off \in 0 .. Len(text) /\ end \in off .. Len(text)
  BY <1>1, <1>2
<1>4. ASSUME NEW i \in off .. end - 1
      PROVE  text[i + 1] \in chars
  <2>1. i + 1 - off \in 1 .. m /\ off + (i + 1 - off) = i + 1
    BY <1>1
  <2>2. s[i + 1 - off] \in chars
    BY <2>1
  <2> QED BY <1>2, <2>1, <2>2
<1> HIDE DEF end, m
<1> QED BY <1>3, <1>4, SpanIs DEF end, m

\* What is seen is what a slice of that place denotes.
LEMMA DenotedIs ==
    ASSUME NEW text \in Seq(Char), NEW off \in Nat, NEW s \in Seq(Char), sees(text, off, s)
    PROVE  Denoted(text, Slice(off, off + Len(s))) = s
<1>1. (off + Len(s)) - off = Len(s) /\ 0 + off + 1 = off + 1 /\ 0 + off + Len(s) = off + Len(s)
  OBVIOUS
<1>2. Denoted(text, Slice(off, off + Len(s))) =
         SubSeq(text, 0 + off + 1, 0 + off + ((off + Len(s)) - off))
  BY DEF Denoted, Slice
<1> QED BY <1>1, <1>2 DEF sees

\* The next character is the first of what is seen.
LEMMA NextIsFirst ==
    ASSUME NEW text \in Seq(Char), NEW off \in Nat, NEW s \in Seq(Char), sees(text, off, s),
           s # <<>>
    PROVE  /\ off < Len(text) /\ text[off + 1] = s[1]
           /\ \A chars : next_in(text, off, chars) <=> s[1] \in chars
<1>1. off + Len(s) <= Len(text) /\ \A i \in 1 .. Len(s) : text[off + i] = s[i]
  BY SeesChars
<1>2. Len(s) \in Nat \ {0} /\ Len(text) \in Nat
  OBVIOUS
<1>3. 1 \in 1 .. Len(s) /\ off < Len(text)
  BY <1>1, <1>2
<1> QED BY <1>1, <1>3 DEF next_in

\* FlattenSeq() puts one part behind another.
Flat(f, parts) ==
    /\ f \in [0 .. Len(parts) -> Seq(Char)]
    /\ f[0] = <<>>
    /\ \A k \in 1 .. Len(parts) : f[k] = f[k - 1] \o parts[k]
    /\ SX!FlattenSeq(parts) = f[Len(parts)]

LEMMA Flattened ==
    ASSUME NEW parts \in Seq(Seq(Char))
    PROVE  \E f : Flat(f, parts)
<1> DEFINE n == Len(parts)
           V == Seq(Char)
           G == [k \in 1 .. n |-> [v \in V |-> v \o parts[k]]]
           Sol(g) == g = [i \in 1 .. n |-> IF i = 1 THEN parts[i] ELSE g[i - 1] \o parts[i]]
<1>1. n \in Nat /\ <<>> \in V /\ \A k \in 1 .. n : parts[k] \in V
  OBVIOUS
<1>2. SX!FlattenSeq(parts) = IF n = 0 THEN parts ELSE (CHOOSE g : Sol(g))[n]
  BY DEF SX!FlattenSeq
<1>3. n = 0 => parts = <<>>
  OBVIOUS
<1>4. G \in [1 .. n -> [V -> V]]
  BY <1>1
<1> HIDE DEF n
<1>5. PICK f : Forward(f, n, V, <<>>, G)
  <2> HIDE DEF V, G
  <2> QED BY Zenon, <1>1, <1>4, RecursionExists
<1>6. f \in [0 .. n -> V] /\ f[0] = <<>> /\ \A k \in 1 .. n : f[k] = f[k - 1] \o parts[k]
  <2>1. \A k \in 1 .. n : k - 1 \in 0 .. n
    BY <1>1
  <2>2. f \in [0 .. n -> V] /\ f[0] = <<>> /\ \A k \in 1 .. n : f[k] = G[k][f[k - 1]]
    <3> HIDE DEF V, G
    <3> QED BY Zenon, <1>5 DEF Forward
  <2>3. \A k \in 1 .. n : f[k - 1] \in V
    <3> HIDE DEF V, G
    <3> QED BY <2>1, <2>2
  <2>4. \A k \in 1 .. n : G[k][f[k - 1]] = f[k - 1] \o parts[k]
    <3> HIDE DEF V
    <3> QED BY <2>3
  <2> HIDE DEF V, G
  <2> QED BY <2>2, <2>4
<1> DEFINE h == [i \in 1 .. n |-> f[i]]
<1>7. \A i \in 1 .. n : f[i] = IF i = 1 THEN parts[i] ELSE f[i - 1] \o parts[i]
  <2>1. \A i \in 1 .. n : parts[i] \in V /\ <<>> \o parts[i] = parts[i]
    BY <1>1
  <2>2. 1 - 1 = 0
    OBVIOUS
  <2> HIDE DEF V
  <2> QED BY <1>6, <2>1, <2>2
<1>8. Sol(h)
  <2>1. \A i \in 1 .. n : i # 1 => i - 1 \in 1 .. n
    BY <1>1
  <2>2. \A i \in 1 .. n : h[i] = f[i] /\ (i # 1 => h[i - 1] = f[i - 1])
    <3> HIDE DEF V
    <3> QED BY <2>1
  <2>3. \A i \in 1 .. n : h[i] = IF i = 1 THEN parts[i] ELSE h[i - 1] \o parts[i]
    <3> HIDE DEF h, V
    <3> QED BY <1>7, <2>2
  <2>4. h = [i \in 1 .. n |-> h[i]]
    OBVIOUS
  <2> HIDE DEF h
  <2> QED BY <2>3, <2>4
<1>9. ASSUME NEW g, Sol(g), n # 0 PROVE g[n] = f[n]
  <2>1. \A i \in 1 .. n : g[i] = IF i = 1 THEN parts[i] ELSE g[i - 1] \o parts[i]
    BY <1>9
  <2> DEFINE T == {i \in 0 .. n : i = 0 \/ g[i] = f[i]}
  <2>2. 0 \in T
    BY <1>1
  <2>3. ASSUME NEW k \in 1 .. n, k - 1 \in T PROVE k \in T
    <3>1. k = 1 \/ g[k - 1] = f[k - 1]
      BY <2>3
    <3>2. g[k] = f[k]
      <4> HIDE DEF V
      <4> QED BY <1>7, <2>1, <3>1
    <3> QED BY <1>1, <3>2
  <2>4. 0 .. n \subseteq T
    <3> HIDE DEF T
    <3> QED BY <1>1, <2>2, <2>3, Upwards
  <2>5. n \in T
    <3> HIDE DEF T
    <3> QED BY <1>1, <2>4
  <2> HIDE DEF V, Sol, h, G
  <2> QED BY <1>9, <2>5
<1>10. Sol(CHOOSE g : Sol(g))
  <2> HIDE DEF Sol, h
  <2> QED BY Zenon, <1>8
<1>11. SX!FlattenSeq(parts) = f[n]
  <2> HIDE DEF Sol
  <2>1. CASE n = 0
    BY <1>2, <1>3, <1>6, <2>1
  <2>2. CASE n # 0
    BY <1>2, <1>9, <1>10, <2>2
  <2> QED BY <2>1, <2>2
<1> QED BY Zenon, <1>6, <1>11 DEF Flat, n

\* Where each part lies that is put behind the others.
Laid(at, text, off, parts) ==
    /\ at \in [0 .. Len(parts) -> off .. Len(text)]
    /\ at[0] = off
    /\ at[Len(parts)] = off + Len(SX!FlattenSeq(parts))
    /\ \A k \in 1 .. Len(parts) :
          sees(text, at[k - 1], parts[k]) /\ at[k] = at[k - 1] + Len(parts[k])

LEMMA PartsLaid ==
    ASSUME NEW text \in Seq(Char), NEW off \in Nat, NEW parts \in Seq(Seq(Char)),
           sees(text, off, SX!FlattenSeq(parts))
    PROVE  \E at : Laid(at, text, off, parts)
<1> DEFINE n == Len(parts)
<1>1. n \in Nat /\ \A k \in 1 .. n : parts[k] \in Seq(Char)
  OBVIOUS
<1>2. PICK f : Flat(f, parts)
  BY Flattened
<1>3. /\ f \in [0 .. n -> Seq(Char)] /\ f[0] = <<>> /\ SX!FlattenSeq(parts) = f[n]
      /\ \A k \in 1 .. n : f[k] = f[k - 1] \o parts[k]
  BY Zenon, <1>2 DEF Flat
<1> HIDE DEF n
<1>4. \A k \in 1 .. n : k - 1 \in 0 .. n /\ k \in 0 .. n /\ f[k - 1] \in Seq(Char)
  BY <1>1, <1>3
<1>5. ASSUME NEW k \in 1 .. n, sees(text, off, f[k])
      PROVE  sees(text, off, f[k - 1]) /\ sees(text, off + Len(f[k - 1]), parts[k])
  <2>1. f[k - 1] \in Seq(Char) /\ parts[k] \in Seq(Char) /\ f[k] = f[k - 1] \o parts[k]
    BY <1>1, <1>3, <1>4
  <2>2. sees(text, off, f[k - 1] \o parts[k])
    BY Zenon, <1>5, <2>1
  <2> QED BY Zenon, <2>1, <2>2, SeesParts
<1> DEFINE T == {k \in 0 .. n : sees(text, off, f[n - k])}
<1>6. 0 .. n \subseteq T
  <2>1. 0 \in T
    BY <1>1, <1>3
  <2>2. ASSUME NEW k \in 1 .. n, k - 1 \in T PROVE k \in T
    <3>1. n - (k - 1) \in 1 .. n /\ (n - (k - 1)) - 1 = n - k
      BY <1>1
    <3>2. sees(text, off, f[n - (k - 1)])
      BY <2>2
    <3>3. sees(text, off, f[n - k])
      BY <1>5, <3>1, <3>2
    <3> QED BY <1>1, <3>3
  <2> HIDE DEF T
  <2> QED BY <1>1, <2>1, <2>2, Upwards
<1>7. ASSUME NEW k \in 0 .. n PROVE sees(text, off, f[k])
  <2>1. n - k \in 0 .. n /\ n - (n - k) = k
    BY <1>1
  <2>2. n - k \in T
    BY <1>6, <2>1
  <2> QED BY <2>1, <2>2
<1> DEFINE at == [k \in 0 .. n |-> off + Len(f[k])]
<1>8. ASSUME NEW k \in 0 .. n PROVE at[k] = off + Len(f[k]) /\ at[k] \in off .. Len(text)
  <2>1. f[k] \in Seq(Char)
    BY <1>3
  <2>2. off + Len(f[k]) <= Len(text)
    BY <1>7, <2>1, SeesChars
  <2> QED BY <2>1, <2>2
<1>9. at \in [0 .. n -> off .. Len(text)]
  <2>1. at = [k \in 0 .. n |-> at[k]]
    OBVIOUS
  <2> HIDE DEF at
  <2> QED BY <1>8, <2>1
<1>10. ASSUME NEW k \in 1 .. n
       PROVE  sees(text, at[k - 1], parts[k]) /\ at[k] = at[k - 1] + Len(parts[k])
  <2>1. at[k - 1] = off + Len(f[k - 1]) /\ at[k] = off + Len(f[k])
    BY <1>4, <1>8
  <2> HIDE DEF at
  <2>2. sees(text, off + Len(f[k - 1]), parts[k])
    BY <1>4, <1>5, <1>7
  <2>3. f[k - 1] \in Seq(Char) /\ parts[k] \in Seq(Char) /\ f[k] = f[k - 1] \o parts[k]
    BY <1>1, <1>3, <1>4
  <2> DEFINE a == f[k - 1]
             b == parts[k]
  <2>4. a \in Seq(Char) /\ b \in Seq(Char) /\ f[k] = a \o b
    BY <2>3
  <2> HIDE DEF a, b
  <2>5. Len(f[k]) = Len(a) + Len(b) /\ Len(a) \in Nat /\ Len(b) \in Nat
    BY <2>4
  <2>6. off + (Len(a) + Len(b)) = (off + Len(a)) + Len(b)
    BY <2>5
  <2>7. at[k] = at[k - 1] + Len(parts[k])
    BY <2>1, <2>5, <2>6 DEF a, b
  <2> QED BY Zenon, <2>1, <2>2, <2>7
<1>11. at[0] = off /\ at[n] = off + Len(SX!FlattenSeq(parts))
  <2>1. 0 \in 0 .. n /\ n \in 0 .. n /\ Len(f[0]) = 0
    BY <1>1, <1>3
  <2>2. at[0] = off + Len(f[0]) /\ at[n] = off + Len(f[n])
    BY <1>8, <2>1
  <2> HIDE DEF at
  <2> QED BY <1>3, <2>1, <2>2
<1> HIDE DEF at
<1> QED BY Zenon, <1>9, <1>10, <1>11 DEF Laid, n

-----------------------------------------------------------------------------
(* Numbers.                                                                 *)

\* Denotation() is what its definition says.
LEMMA DenotationUnfolds ==
    ASSUME NEW digits, IsDigits(digits), NEW base \in {10, 16}
    PROVE  LET exact == Denotation(digits, base)
           IN  /\ exact \in [0 .. Len(digits) -> Nat]
               /\ exact[0] = 0
               /\ \A k \in 1 .. Len(digits) : exact[k] = exact[k - 1] * base + DigitValue(digits[k])
<1> DEFINE n == Len(digits)
           d(k) == DigitValue(digits[k])
           V == Nat
           G == [k \in 1 .. n |-> [v \in V |-> v * base + d(k)]]
           Sol(f) == f = [k \in 0 .. n |-> IF k = 0 THEN 0 ELSE f[k - 1] * base + d(k)]
<1>1. n \in Nat /\ \A k \in 1 .. n : d(k) \in 0 .. 9
  BY DEF IsDigits
<1>2. Denotation(digits, base) = CHOOSE g : Sol(g)
  BY DEF Denotation
<1> HIDE DEF n, d
<1>3. \A k \in 1 .. n : \A v \in Nat : v * base + d(k) \in Nat
  <2> SUFFICES ASSUME NEW k \in 1 .. n, NEW v \in Nat PROVE v * base + d(k) \in Nat
    OBVIOUS
  <2>1. d(k) \in 0 .. 9
    BY <1>1
  <2>2. CASE base = 10
    BY <2>1, <2>2
  <2>3. CASE base = 16
    BY <2>1, <2>3
  <2> QED BY <2>2, <2>3
<1>4. PICK f : Forward(f, n, V, 0, G)
  <2>1. 0 \in V /\ G \in [1 .. n -> [V -> V]]
    BY <1>3
  <2> HIDE DEF G, V
  <2> QED BY Zenon, <1>1, <2>1, RecursionExists
<1>5. f[0] = 0 /\ f = [k \in 0 .. n |-> f[k]] /\ \A k \in 1 .. n : f[k] = f[k - 1] * base + d(k)
  <2>1. f \in [0 .. n -> Nat] /\ f[0] = 0 /\ \A k \in 1 .. n : f[k] = G[k][f[k - 1]]
    <3> HIDE DEF G
    <3> QED BY <1>4 DEF Forward
  <2>2. \A k \in 1 .. n : f[k - 1] \in Nat
    <3> HIDE DEF G
    <3> QED BY <1>1, <2>1
  <2> QED BY <2>1, <2>2
<1>6. Sol(f)
  <2>1. \A k \in 0 .. n : k # 0 => k \in 1 .. n
    BY <1>1
  <2>2. \A k \in 0 .. n : f[k] = IF k = 0 THEN 0 ELSE f[k - 1] * base + d(k)
    BY <1>5, <2>1
  <2> QED BY <1>5, <2>2
<1>7. Sol(CHOOSE g : Sol(g))
  <2> HIDE DEF Sol
  <2> QED BY Zenon, <1>6
<1>8. ASSUME NEW g, Sol(g)
      PROVE  /\ g \in [0 .. n -> Nat] /\ g[0] = 0
             /\ \A k \in 1 .. n : g[k] = g[k - 1] * base + d(k)
  <2>1. g[0] = 0 /\ \A k \in 1 .. n : g[k] = g[k - 1] * base + d(k)
    BY <1>1, <1>8
  <2> DEFINE T == {k \in 0 .. n : g[k] \in Nat}
  <2>2. 0 \in T
    BY <1>1, <2>1
  <2>3. ASSUME NEW k \in 1 .. n, k - 1 \in T PROVE k \in T
    <3>1. g[k - 1] \in Nat
      BY <2>3
    <3>2. g[k] \in Nat
      BY <1>3, <2>1, <3>1
    <3> QED BY <1>1, <3>2
  <2>4. 0 .. n \subseteq T
    <3> HIDE DEF T
    <3> QED BY <1>1, <2>2, <2>3, Upwards
  <2>5. \A k \in 0 .. n : g[k] \in Nat
    BY <2>4
  <2>6. g = [k \in 0 .. n |-> g[k]]
    BY <1>8
  <2> HIDE DEF Sol, T
  <2> QED BY <2>1, <2>5, <2>6
<1> DEFINE exact == Denotation(digits, base)
<1>9. /\ exact \in [0 .. n -> Nat] /\ exact[0] = 0
      /\ \A k \in 1 .. n : exact[k] = exact[k - 1] * base + d(k)
  <2> HIDE DEF Sol
  <2> QED BY <1>2, <1>7, <1>8
<1> QED BY <1>9 DEF n, d

\* One more digit never makes a number smaller.
LEMMA DenotationGrows ==
    ASSUME NEW digits, IsDigits(digits), NEW base \in {10, 16},
           NEW m \in 0 .. Len(digits), NEW k \in 0 .. m
    PROVE  Denotation(digits, base)[k] <= Denotation(digits, base)[m]
<1> DEFINE n == Len(digits)
           exact == Denotation(digits, base)
           d(i) == DigitValue(digits[i])
<1>1. n \in Nat /\ \A i \in 1 .. n : d(i) \in 0 .. 9
  BY DEF IsDigits
<1>2. exact \in [0 .. n -> Nat] /\ \A i \in 1 .. n : exact[i] = exact[i - 1] * base + d(i)
  BY DenotationUnfolds
<1> HIDE DEF n, exact, d
<1>3. ASSUME NEW i \in 1 .. n PROVE exact[i - 1] <= exact[i]
  <2>1. exact[i - 1] \in Nat /\ d(i) \in 0 .. 9 /\ exact[i] = exact[i - 1] * base + d(i)
    BY <1>1, <1>2
  <2> DEFINE e == exact[i - 1]
  <2>2. e \in Nat /\ exact[i] = e * base + d(i) /\ d(i) \in 0 .. 9
    BY <2>1
  <2> HIDE DEF e
  <2>3. CASE base = 10
    BY <2>2, <2>3 DEF e
  <2>4. CASE base = 16
    BY <2>2, <2>4 DEF e
  <2> QED BY <2>3, <2>4
<1>4. m \in 0 .. n /\ m \in Nat
  BY <1>1 DEF n
<1> DEFINE T == {i \in 0 .. m : exact[m - i] <= exact[m]}
<1>5. 0 \in T
  BY <1>2, <1>4
<1>6. ASSUME NEW i \in 1 .. m, i - 1 \in T PROVE i \in T
  <2>1. m - (i - 1) \in 1 .. n /\ (m - (i - 1)) - 1 = m - i /\ m - i \in 0 .. n
    BY <1>1, <1>4
  <2>2. exact[m - i] <= exact[m - (i - 1)] /\ exact[m - (i - 1)] <= exact[m]
    BY <1>3, <1>6, <2>1
  <2>3. exact[m - i] \in Nat /\ exact[m - (i - 1)] \in Nat /\ exact[m] \in Nat
    BY <1>1, <1>2, <1>4, <2>1
  <2>4. exact[m - i] <= exact[m]
    BY <2>2, <2>3
  <2> QED BY <1>4, <2>4
<1>7. 0 .. m \subseteq T
  <2> HIDE DEF T
  <2> QED BY <1>4, <1>5, <1>6, Upwards
<1>8. m - k \in 0 .. m /\ m - (m - k) = k
  BY <1>4
<1> QED BY <1>7, <1>8 DEF exact

\* How a number is read that ends at "end", with no digit behind it.
ReadAs(r, text, off, base, max, n) ==
    LET end == off + Len(n.text) IN
    /\ n.val <= max =>
          r = IF base = 16 /\ next_in(text, end, HexLetter) THEN Abort ELSE Read(end, n.val)
    /\ n.val > max => r.res = "true" /\ r.off \in off .. end - 1 /\ next_in(text, r.off, Digit)

LEMMA NumberAt ==
    ASSUME NEW text \in Seq(Char), NEW off \in Nat, NEW base \in {10, 16}, NEW n \in Numeral(base),
           sees(text, off, n.text), ~next_in(text, off + Len(n.text), Digit),
           NEW max, Limit(max)
    PROVE  ReadAs(parse_number(text, off, base, max), text, off, base, max, n)
<1> DEFINE digits == n.text
           m == Len(digits)
           end == off + m
           exact == Denotation(digits, base)
           value == Accumulated(digits, base, max)
           count == count_in(value)
           r == parse_number(text, off, base, max)
<1>1. digits \in Seq(Digit) \ {<<>>} /\ n.val \in Nat /\ n.val = exact[m]
  BY DEF Numeral
<1>2. digits \in Seq(Char) /\ m \in Nat \ {0} /\ Digit \subseteq Char
  <2>1. Digit \subseteq Char
    BY Zenon DEF Char, Pchar, Unreserved
  <2> HIDE DEF digits
  <2>2. m \in Nat \ {0} /\ digits \in Seq(Digit)
    BY <1>1
  <2>3. \A i \in 1 .. m : digits[i] \in Char
    BY <1>1, <2>1, <2>2
  <2>4. digits \in Seq(Char)
    BY <2>2, <2>3
  <2> QED BY <2>1, <2>2, <2>4
<1>3. IsDigits(digits) /\ \A k \in 1 .. m : digits[k] \in Digit
  <2>1. \A k \in 1 .. m : digits[k] \in Digit
    BY <1>1
  <2> HIDE DEF digits
  <2>2. \A k \in 1 .. m : DigitValue(digits[k]) \in 0 .. 9
    BY <2>1, DigitIsNumber
  <2> QED BY <1>2, <2>1, <2>2 DEF IsDigits
<1> HIDE DEF digits
<1>4. span(text, off, Digit) = end
  <2>1. sees(text, off, digits) /\ ~next_in(text, off + Len(digits), Digit) /\ digits \in Seq(Digit)
    BY Zenon, <1>1 DEF digits
  <2> QED BY Zenon, <1>2, <2>1, SpanOf
<1>5. SubSeq(text, off + 1, end) = digits /\ end <= Len(text)
  <2>1. sees(text, off, digits)
    BY Zenon DEF digits
  <2> QED BY Zenon, <2>1 DEF sees
<1>6. r = number_of(text, off, base, value)
  BY Zenon, <1>4, <1>5 DEF parse_number
<1>7. exact \in [0 .. m -> Nat] /\ exact[0] = 0
      /\ \A k \in 1 .. m : exact[k] = exact[k - 1] * base + DigitValue(digits[k])
  BY <1>3, DenotationUnfolds
<1>8. \A k \in 0 .. m : exact[k] <= exact[m]
  <2>1. m \in 0 .. m
    BY <1>2
  <2> HIDE DEF m
  <2> QED BY <1>3, <2>1, DenotationGrows DEF m
<1>9. max \in Nat /\ max >= 9
  BY DEF Limit
<1> HIDE DEF exact
<1>10. \A k \in 0 .. m : value[k] = IF exact[k] <= max THEN exact[k] ELSE -1
  BY <1>3, <1>7, <1>9, NumeralExact
<1>11. DOMAIN value = 0 .. m
  BY <1>3, <1>9, AccumulatedUnfolds
<1> HIDE DEF value, m
<1>12. count \in 0 .. m /\ value[count] # -1 /\ (count + 1 \in 0 .. m => value[count + 1] = -1)
  <2>1. value[0] # -1 /\ m \in Nat
    BY <1>2, <1>7, <1>9, <1>10
  <2> QED BY Zenon, <1>11, <2>1, CountIn
<1>13. r = IF count + 1 \in 0 .. m THEN Read(off + count - 1, value[count])
           ELSE IF base = 16 /\ next_in(text, off + count, HexLetter) THEN Abort
           ELSE IF count = 0 THEN Unread(off)
           ELSE Read(off + count, value[count])
  BY Zenon, <1>6, <1>11 DEF number_of
<1> HIDE DEF count
<1>14. CASE n.val <= max
  <2>1. \A k \in 0 .. m : value[k] = exact[k] /\ exact[k] # -1
    BY SMTT(30), <1>1, <1>2, <1>7, <1>8, <1>9, <1>10, <1>14
  <2>2. count = m
    BY <1>2, <1>12, <2>1
  <2>3. value[count] = n.val /\ count + 1 \notin 0 .. m /\ count # 0
    BY <1>1, <1>2, <2>1, <2>2
  <2>4. r = IF base = 16 /\ next_in(text, end, HexLetter) THEN Abort ELSE Read(end, n.val)
    BY Zenon, <1>13, <2>2, <2>3
  <2> QED BY <1>1, <1>9, <1>14, <2>4 DEF ReadAs, m, digits
<1>15. CASE n.val > max
  <2>1. value[m] = -1
    BY <1>1, <1>2, <1>7, <1>9, <1>10, <1>15
  <2>2. count + 1 \in 0 .. m
    BY <1>2, <1>12, <2>1
  <2>3. count # 0
    <3>1. 1 \in 1 .. m /\ 1 \in 0 .. m /\ 1 - 1 = 0
      BY <1>2
    <3>2. DigitValue(digits[1]) \in 0 .. 9
      BY <1>3, <3>1, DigitIsNumber
    <3>3. exact[1] = 0 * base + DigitValue(digits[1])
      BY <1>7, <3>1
    <3>4. exact[1] \in 0 .. 9
      <4>1. CASE base = 10
        BY <3>2, <3>3, <4>1
      <4>2. CASE base = 16
        BY <3>2, <3>3, <4>2
      <4> QED BY <4>1, <4>2
    <3>5. value[1] # -1
      BY <1>9, <1>10, <3>1, <3>4
    <3> QED BY <1>12, <3>1, <3>5
  <2>4. r = Read(off + count - 1, value[count])
    BY <1>13, <2>2
  <2>5. count \in 1 .. m /\ off + count - 1 \in off .. end - 1 /\ (off + count - 1) + 1 = off + count
    BY <1>2, <1>12, <2>2, <2>3
  <2>6. text[off + count] = digits[count]
    <3>1. sees(text, off, digits)
      BY Zenon DEF digits
    <3>2. \A i \in 1 .. Len(digits) : text[off + i] = digits[i]
      BY <1>2, <3>1, SeesChars
    <3> QED BY <2>5, <3>2 DEF m
  <2>7. next_in(text, off + count - 1, Digit)
    <3>1. digits[count] \in Digit
      BY <1>3, <2>5
    <3>2. off + count - 1 < Len(text)
      BY <1>2, <1>5, <2>5
    <3> QED BY <2>5, <2>6, <3>1, <3>2 DEF next_in
  <2>8. r.res = "true" /\ r.off = off + count - 1
    BY <2>4 DEF Read
  <2>9. r.res = "true" /\ r.off \in off .. end - 1 /\ next_in(text, r.off, Digit)
    BY Zenon, <2>5, <2>7, <2>8
  <2> QED BY <1>1, <1>9, <1>15, <2>9 DEF ReadAs, m, digits
<1>16. n.val <= max \/ n.val > max
  BY <1>1, <1>9
<1> QED BY <1>14, <1>15, <1>16

\* Without a digit there is no number, and a hexadecimal letter fails the assertion.
LEMMA NoNumber ==
    ASSUME NEW text \in Seq(Char), NEW off \in 0 .. Len(text), NEW base \in {10, 16},
           ~next_in(text, off, Digit), NEW max, Limit(max)
    PROVE  /\ parse_number(text, off, base, max).res # "true"
           /\ base = 16 /\ next_in(text, off, HexLetter) => parse_number(text, off, base, max) = Abort
<1> DEFINE end == span(text, off, Digit)
           digits == SubSeq(text, off + 1, end)
           value == Accumulated(digits, base, max)
           count == count_in(value)
<1>1. Len(text) \in Nat /\ off \in off .. Len(text) /\ \A i \in off .. off - 1 : text[i + 1] \in Digit
  OBVIOUS
<1>2. end = off
  BY <1>1, SpanIs
<1>3. IsDigits(digits) /\ Len(digits) = 0
  <2>1. IsDigits(digits) /\ Len(digits) = end - off
    BY DigitsOf
  <2> QED BY <1>2, <2>1
<1>4. parse_number(text, off, base, max) = number_of(text, off, base, value)
  BY DEF parse_number
<1> HIDE DEF digits
<1>5. DOMAIN value = 0 .. 0 /\ value[0] # -1
  <2>1. max \in Nat
    BY DEF Limit
  <2>2. value \in [0 .. Len(digits) -> -1 .. max] /\ value[0] = 0
    BY <1>3, <2>1, AccumulatedUnfolds
  <2> HIDE DEF value
  <2> QED BY <1>3, <2>2
<1> HIDE DEF value
<1>6. count \in 0 .. 0
  <2>1. 0 \in Nat
    OBVIOUS
  <2> QED BY Zenon, <1>5, <2>1, CountIn
<1>7. count + 1 \notin DOMAIN value /\ count = 0
  BY <1>5, <1>6
<1>8. number_of(text, off, base, value) =
        IF base = 16 /\ next_in(text, off + count, HexLetter) THEN Abort ELSE Unread(off)
  BY Zenon, <1>7 DEF number_of
<1>9. off + count = off
  BY <1>7
<1>10. base = 16 /\ next_in(text, off, HexLetter) => parse_number(text, off, base, max) = Abort
  BY Zenon, <1>4, <1>8, <1>9
<1> QED BY <1>4, <1>8, <1>10 DEF Abort, Unread

-----------------------------------------------------------------------------
(* Numbers with separators in between.                                      *)

\* What a text ends with is read from there as it is read alone.
LEMMA SameBehind ==
    ASSUME NEW text \in Seq(Char), NEW off \in Nat, NEW rest \in Seq(Char),
           sees(text, off, rest), off + Len(rest) = Len(text), NEW k \in Nat, NEW chars
    PROVE  next_in(text, off + k, chars) <=> next_in(rest, k, chars)
<1>1. \A i \in 1 .. Len(rest) : text[off + i] = rest[i]
  BY SeesChars
<1>2. Len(rest) \in Nat /\ Len(text) \in Nat
  OBVIOUS
<1>3. off + k < Len(text) <=> k < Len(rest)
  BY <1>2
<1>4. k < Len(rest) => k + 1 \in 1 .. Len(rest) /\ off + (k + 1) = (off + k) + 1
  BY <1>2
<1> QED BY <1>1, <1>3, <1>4 DEF next_in

Separator(sep) == sep \in Char /\ sep \notin Digit /\ sep \notin HexLetter

LEMMA Separators ==
    Separator(".") /\ Separator(":")
<1>1. "." \notin Digit /\ ":" \notin Digit
  BY SMT DEF Digit, DigitChars
<1>2. "." \notin Alpha /\ ":" \notin Alpha
  BY Zenon, LettersAssumption
<1>3. "." \in Char /\ ":" \in Char
  BY Zenon DEF Char, Pchar, Unreserved
<1> QED BY Zenon, <1>1, <1>2, <1>3 DEF Separator, HexLetter

\* Where the i-th number begins that is written behind at[i - 1].
Begin(at, i) == IF i = 1 THEN at[0] ELSE at[i - 1] + 1

\* Where each of the numbers ends that lie from "off" on.
Places(at, text, off, numbers, sep) ==
    /\ at \in [0 .. Len(numbers) -> off .. Len(text)]
    /\ at[0] = off
    /\ at[Len(numbers)] = off + Len(Joined(numbers, sep))
    /\ \A i \in 1 .. Len(numbers) :
          /\ i # 1 => next_in(text, at[i - 1], {sep})
          /\ sees(text, Begin(at, i), numbers[i].text)
          /\ at[i] = Begin(at, i) + Len(numbers[i].text)

LEMMA NumeralText ==
    ASSUME NEW base, NEW n \in Numeral(base)
    PROVE  /\ n.text \in Seq(Char) /\ n.text \in Seq(Digit) /\ Len(n.text) \in Nat \ {0}
           /\ n.text[1] \in Digit /\ n.text # <<>> /\ n.val \in Nat
<1> DEFINE digits == n.text
<1>1. digits \in Seq(Digit) /\ digits # <<>> /\ n.val \in Nat
  BY DEF Numeral
<1>2. Digit \subseteq Char
  BY Zenon DEF Char, Pchar, Unreserved
<1> HIDE DEF digits
<1>3. Len(digits) \in Nat \ {0} /\ \A i \in 1 .. Len(digits) : digits[i] \in Digit
  BY <1>1
<1>4. digits \in Seq(Char)
  <2>1. \A i \in 1 .. Len(digits) : digits[i] \in Char
    BY <1>2, <1>3
  <2> QED BY <1>1, <2>1
<1> QED BY <1>1, <1>3, <1>4 DEF digits

LEMMA JoinedPlaces ==
    ASSUME NEW text \in Seq(Char), NEW off \in Nat, NEW base, NEW numbers \in Seq(Numeral(base)),
           NEW sep \in Char, sees(text, off, Joined(numbers, sep))
    PROVE  \E at : Places(at, text, off, numbers, sep)
<1> DEFINE n == Len(numbers)
           part(i) == IF i = 1 THEN numbers[i].text ELSE <<sep>> \o numbers[i].text
           parts == [i \in 1 .. n |-> part(i)]
<1>1. n \in Nat /\ \A i \in 1 .. n : numbers[i] \in Numeral(base)
  OBVIOUS
<1>2. Joined(numbers, sep) = SX!FlattenSeq(parts)
  BY DEF Joined
<1> HIDE DEF n
<1>3. ASSUME NEW i \in 1 .. n PROVE numbers[i].text \in Seq(Char) /\ <<sep>> \in Seq(Char)
  BY <1>1, NumeralText
<1>4. parts \in Seq(Seq(Char)) /\ Len(parts) = n /\ \A i \in 1 .. n : parts[i] = part(i)
  <2>1. ASSUME NEW i \in 1 .. n PROVE part(i) \in Seq(Char)
    BY <1>3
  <2> HIDE DEF part
  <2> QED BY <1>1, <2>1
<1> HIDE DEF parts
<1>5. PICK at : Laid(at, text, off, parts)
  BY Zenon, <1>2, <1>4, PartsLaid
<1>6. /\ at \in [0 .. n -> off .. Len(text)] /\ at[0] = off
      /\ at[n] = off + Len(Joined(numbers, sep))
      /\ \A i \in 1 .. n : sees(text, at[i - 1], part(i)) /\ at[i] = at[i - 1] + Len(part(i))
  BY Zenon, <1>2, <1>4, <1>5 DEF Laid
<1>7. ASSUME NEW i \in 1 .. n
      PROVE  /\ i # 1 => next_in(text, at[i - 1], {sep})
             /\ sees(text, Begin(at, i), numbers[i].text)
             /\ at[i] = Begin(at, i) + Len(numbers[i].text)
  <2>1. CASE i = 1
    <3>1. i - 1 = 0
      BY <2>1
    <3>2. part(i) = numbers[i].text /\ Begin(at, i) = at[0]
      BY Zenon, <2>1 DEF Begin
    <3> HIDE DEF part
    <3> QED BY <1>6, <2>1, <3>1, <3>2
  <2>2. CASE i # 1
    <3> DEFINE digits == numbers[i].text
               a == at[i - 1]
    <3>1. part(i) = <<sep>> \o digits /\ Begin(at, i) = a + 1
      BY Zenon, <2>2 DEF Begin
    <3>2. a \in Nat /\ digits \in Seq(Char)
      <4>1. i - 1 \in 0 .. n
        BY <1>1
      <4>2. a \in off .. Len(text)
        BY <1>6, <4>1
      <4> QED BY <1>3, <4>2
    <3>3. sees(text, a, <<sep>> \o digits) /\ at[i] = a + Len(<<sep>> \o digits)
      BY Zenon, <1>6, <3>1
    <3> HIDE DEF digits, a
    <3>4. <<sep>> \in Seq(Char) /\ Len(<<sep>>) = 1 /\ <<sep>> # <<>> /\ <<sep>>[1] = sep
      OBVIOUS
    <3>5. sees(text, a, <<sep>>) /\ sees(text, a + 1, digits)
      BY <3>2, <3>3, <3>4, SeesParts
    <3>6. next_in(text, a, {sep})
      BY <3>2, <3>4, <3>5, NextIsFirst
    <3>7. at[i] = (a + 1) + Len(digits)
      BY <3>2, <3>3
    <3> QED BY Zenon, <3>1, <3>5, <3>6, <3>7 DEF digits, a
  <2> QED BY <2>1, <2>2
<1> QED BY Zenon, <1>6, <1>7 DEF Places, n

ValuesTo(numbers, n) == [i \in 1 .. n |-> numbers[i].val]

\* No number is read from "off" on, with or without a separator.
Ends(text, off, sep) ==
    /\ ~next_in(text, off, Digit)
    /\ ~(next_in(text, off, {sep}) /\ next_in(text, off + 1, Digit))

\* Numbers are written from "off" on and nothing behind them continues them.
Written(at, text, off, numbers, base, sep) ==
    /\ text \in Seq(Char) /\ off \in Nat /\ base \in {10, 16}
    /\ numbers \in Seq(Numeral(base)) /\ Separator(sep)
    /\ Places(at, text, off, numbers, sep)
    /\ Ends(text, at[Len(numbers)], sep)

\* What lies at the i-th place.
NumberIn(at, text, numbers, base, sep, i) ==
    /\ Begin(at, i) \in at[i - 1] .. at[i] - 1
    /\ numbers[i] \in Numeral(base)
    /\ sees(text, Begin(at, i), numbers[i].text)
    /\ at[i] = Begin(at, i) + Len(numbers[i].text)
    /\ next_in(text, Begin(at, i), Digit)
    /\ i # 1 => next_in(text, at[i - 1], {sep})

LEMMA WrittenPlaces ==
    ASSUME NEW at, NEW text, NEW off, NEW numbers, NEW base, NEW sep,
           Written(at, text, off, numbers, base, sep)
    PROVE  /\ Len(numbers) \in Nat /\ Len(text) \in Nat
           /\ \A i \in 0 .. Len(numbers) : at[i] \in off .. Len(text) /\ at[i] \in 0 .. Len(text)
           /\ \A i \in 1 .. Len(numbers) : NumberIn(at, text, numbers, base, sep, i)
           /\ \A i \in 0 .. Len(numbers) :
                 /\ ~next_in(text, at[i], Digit)
                       \/ (i = 0 /\ Len(numbers) # 0)
                 /\ i < Len(numbers) /\ i # 0 => ~next_in(text, at[i], HexLetter)
<1> DEFINE n == Len(numbers)
           len == Len(text)
<1>1. text \in Seq(Char) /\ off \in Nat /\ base \in {10, 16} /\ Separator(sep)
      /\ numbers \in Seq(Numeral(base)) /\ Ends(text, at[n], sep)
  BY DEF Written
<1>2. n \in Nat /\ len \in Nat /\ \A i \in 1 .. n : numbers[i] \in Numeral(base)
  BY <1>1
<1>3. /\ at \in [0 .. n -> off .. len] /\ at[0] = off
      /\ \A i \in 1 .. n :
          /\ i # 1 => next_in(text, at[i - 1], {sep})
          /\ sees(text, Begin(at, i), numbers[i].text)
          /\ at[i] = Begin(at, i) + Len(numbers[i].text)
  BY Zenon DEF Written, Places
<1> HIDE DEF n, len
<1>4. \A i \in 0 .. n : at[i] \in off .. len /\ at[i] \in 0 .. len
  BY <1>1, <1>2, <1>3
<1>5. ASSUME NEW i \in 1 .. n
      PROVE  Begin(at, i) \in at[i - 1] .. at[i] - 1 /\ next_in(text, Begin(at, i), Digit)
  <2>1. i - 1 \in 0 .. n /\ i \in 0 .. n
    BY <1>2
  <2>2. at[i - 1] \in Nat /\ at[i] \in Nat /\ (i = 1 => at[0] = at[i - 1])
    BY <1>1, <1>4, <2>1
  <2>3. Begin(at, i) \in Nat /\ at[i - 1] <= Begin(at, i)
    BY <2>2 DEF Begin
  <2> DEFINE digits == numbers[i].text
             b == Begin(at, i)
  <2>4. digits \in Seq(Char) /\ Len(digits) \in Nat \ {0} /\ digits[1] \in Digit /\ digits # <<>>
    BY <1>2, NumeralText
  <2>5. sees(text, b, digits) /\ at[i] = b + Len(digits) /\ b \in Nat /\ at[i - 1] <= b
    BY <1>3, <2>3
  <2> HIDE DEF digits, b
  <2>6. next_in(text, b, Digit)
    BY <1>1, <2>4, <2>5, NextIsFirst
  <2>7. b \in at[i - 1] .. at[i] - 1
    BY <2>2, <2>4, <2>5
  <2> QED BY <2>6, <2>7 DEF b
<1>6. ASSUME NEW i \in 1 .. n, i < n
      PROVE  ~next_in(text, at[i], Digit) /\ ~next_in(text, at[i], HexLetter)
  <2>1. i + 1 \in 1 .. n /\ i + 1 # 1 /\ (i + 1) - 1 = i
    BY <1>2, <1>6
  <2>2. next_in(text, at[i], {sep})
    BY <1>3, <2>1
  <2> QED BY <1>1, <2>2 DEF next_in, Separator
<1>7. ~next_in(text, at[n], Digit)
  BY <1>1 DEF Ends
<1>8. ASSUME NEW i \in 0 .. n
      PROVE  /\ ~next_in(text, at[i], Digit) \/ (i = 0 /\ n # 0)
             /\ i < n /\ i # 0 => ~next_in(text, at[i], HexLetter)
  <2>1. i = n \/ i = 0 \/ (i \in 1 .. n /\ i < n)
    BY <1>2
  <2> QED BY <1>2, <1>6, <1>7, <2>1
<1>9. \A i \in 1 .. n : NumberIn(at, text, numbers, base, sep, i)
  BY Zenon, <1>2, <1>3, <1>5 DEF NumberIn
<1> QED BY Zenon, <1>2, <1>4, <1>8, <1>9 DEF n, len

\* The cursor is at a digit of a number that was not read to its end.
Stuck(s, text) == s.res = "true" /\ s.val # <<>> /\ s.off \in Nat /\ next_in(text, s.off, Digit)

\* A group behind the first i - 1 numbers.
LEMMA GroupIn ==
    ASSUME NEW at, NEW text, NEW off, NEW numbers, NEW base, NEW sep,
           Written(at, text, off, numbers, base, sep), NEW max, Limit(max),
           NEW i \in 1 .. Len(numbers)
    PROVE  LET s == Read(at[i - 1], ValuesTo(numbers, i - 1))
               r == next_group(text, s, sep, base, max)
           IN  /\ numbers[i].val <= max =>
                     r = IF base = 16 /\ next_in(text, at[i], HexLetter) THEN Abort
                         ELSE Read(at[i], ValuesTo(numbers, i))
               /\ numbers[i].val > max => Stuck(r, text)
<1> DEFINE n == Len(numbers)
           vals == ValuesTo(numbers, i - 1)
           s == Read(at[i - 1], vals)
           r == next_group(text, s, sep, base, max)
           b == Begin(at, i)
           number == parse_number(text, b, base, max)
<1>1. n \in Nat /\ i \in 1 .. n /\ i - 1 \in 0 .. n /\ text \in Seq(Char) /\ base \in {10, 16}
  <2>1. n \in Nat
    BY WrittenPlaces
  <2> QED BY <2>1 DEF Written
<1>2. /\ b \in at[i - 1] .. at[i] - 1 /\ numbers[i] \in Numeral(base)
      /\ sees(text, b, numbers[i].text) /\ at[i] = b + Len(numbers[i].text)
      /\ (i # 1 => next_in(text, at[i - 1], {sep})) /\ at[i - 1] \in 0 .. Len(text)
  <2>1. at[i - 1] \in 0 .. Len(text)
    BY Zenon, <1>1, WrittenPlaces
  <2>2. NumberIn(at, text, numbers, base, sep, i)
    BY Zenon, WrittenPlaces
  <2> QED BY Zenon, <2>1, <2>2 DEF NumberIn
<1>3. ~next_in(text, at[i], Digit)
  <2>1. i \in 0 .. n /\ i # 0
    BY <1>1
  <2> QED BY <2>1, WrittenPlaces
<1>4. i = 1 <=> vals = <<>>
  <2>1. CASE i = 1
    BY <2>1 DEF ValuesTo
  <2>2. CASE i # 1
    <3>1. DOMAIN vals = 1 .. i - 1 /\ 1 \in 1 .. i - 1
      BY <2>2 DEF ValuesTo
    <3>2. DOMAIN <<>> = {}
      OBVIOUS
    <3> HIDE DEF vals
    <3> QED BY <2>2, <3>1, <3>2
  <2> QED BY <2>1, <2>2
<1>5. s.off = at[i - 1] /\ s.val = vals /\ b = IF i = 1 THEN s.off ELSE s.off + 1
  <2>1. s.off = at[i - 1] /\ s.val = vals
    BY DEF Read
  <2>2. i = 1 => i - 1 = 0
    OBVIOUS
  <2> HIDE DEF s, vals
  <2> QED BY <2>1, <2>2 DEF Begin
<1> HIDE DEF s
<1>6. r = IF number.res = "true" THEN Read(number.off, Append(vals, number.val)) ELSE number
  <2>1. r = IF s.val # <<>> /\ ~next_in(text, s.off, {sep}) THEN Unread(s.off)
            ELSE IF parse_number(text, IF s.val = <<>> THEN s.off ELSE s.off + 1, base, max).res = "true"
            THEN Read(parse_number(text, IF s.val = <<>> THEN s.off ELSE s.off + 1, base, max).off,
                      Append(s.val, parse_number(text, IF s.val = <<>> THEN s.off ELSE s.off + 1, base, max).val))
            ELSE parse_number(text, IF s.val = <<>> THEN s.off ELSE s.off + 1, base, max)
    BY DEF next_group, Then
  <2>2. (IF s.val = <<>> THEN s.off ELSE s.off + 1) = b
    <3> HIDE DEF vals, b
    <3> QED BY Zenon, <1>4, <1>5
  <2>3. ~(s.val # <<>> /\ ~next_in(text, s.off, {sep}))
    <3> HIDE DEF vals, b
    <3> QED BY Zenon, <1>2, <1>4, <1>5
  <2> HIDE DEF vals, b, r
  <2> QED BY Zenon, <1>5, <2>1, <2>2, <2>3
<1> HIDE DEF r, b
<1>7. b \in Nat
  BY <1>2
<1>8. ReadAs(number, text, b, base, max, numbers[i])
  BY <1>1, <1>2, <1>3, <1>7, NumberAt
<1> HIDE DEF number
<1>9. ASSUME numbers[i].val <= max
      PROVE  r = IF base = 16 /\ next_in(text, at[i], HexLetter) THEN Abort
                 ELSE Read(at[i], ValuesTo(numbers, i))
  <2>1. number = IF base = 16 /\ next_in(text, at[i], HexLetter) THEN Abort
                 ELSE Read(at[i], numbers[i].val)
    BY Zenon, <1>2, <1>8, <1>9 DEF ReadAs
  <2>2. Append(vals, numbers[i].val) = ValuesTo(numbers, i)
    BY <1>1 DEF ValuesTo
  <2>3. Read(at[i], numbers[i].val).res = "true" /\ Read(at[i], numbers[i].val).off = at[i]
        /\ Read(at[i], numbers[i].val).val = numbers[i].val /\ Abort.res # "true"
    BY DEF Read, Abort
  <2> HIDE DEF vals
  <2> QED BY Zenon, <1>6, <2>1, <2>2, <2>3
<1>10. ASSUME numbers[i].val > max PROVE Stuck(r, text)
  <2>1. number.res = "true" /\ number.off \in Nat /\ next_in(text, number.off, Digit)
    <3> DEFINE end == b + Len(numbers[i].text)
    <3>1. number.res = "true" /\ number.off \in b .. end - 1 /\ next_in(text, number.off, Digit)
      BY Zenon, <1>8, <1>10 DEF ReadAs
    <3> HIDE DEF end
    <3> QED BY <1>7, <3>1
  <2>2. r = Read(number.off, Append(vals, number.val))
    BY <1>6, <2>1
  <2>3. Append(vals, number.val) # <<>>
    <3>1. vals = [k \in 1 .. i - 1 |-> vals[k]] /\ i - 1 \in Nat
      BY <1>1 DEF ValuesTo
    <3>2. Len(Append(vals, number.val)) = (i - 1) + 1
      BY <1>1 DEF ValuesTo
    <3>3. Len(<<>>) = 0 /\ (i - 1) + 1 # 0
      BY <1>1
    <3> HIDE DEF vals
    <3> QED BY Zenon, <3>2, <3>3
  <2>4. r.res = "true" /\ r.off = number.off /\ r.val = Append(vals, number.val)
    BY <2>2 DEF Read
  <2> HIDE DEF vals
  <2> QED BY Zenon, <2>1, <2>3, <2>4 DEF Stuck
<1> QED BY Zenon, <1>9, <1>10 DEF r, s, vals

LEMMA SeesColons ==
    ASSUME NEW text \in Seq(Char), NEW off \in Nat
    PROVE  sees(text, off, Colons) <=> next_in(text, off, {":"}) /\ next_in(text, off + 1, {":"})
<1>1. Colons \in Seq(Char) /\ Len(Colons) = 2 /\ Colons[1] = ":" /\ Colons[2] = ":"
  <2>1. ":" \in Char
    BY Zenon, Separators DEF Separator
  <2> QED BY <2>1 DEF Colons
<1>2. sees(text, off, Colons) <=> /\ off + 2 <= Len(text)
                                  /\ \A i \in 1 .. 2 : text[off + i] = Colons[i]
  <2>1. sees(text, off, Colons) <=> /\ off + Len(Colons) <= Len(text)
                                    /\ \A i \in 1 .. Len(Colons) : text[off + i] = Colons[i]
    BY Zenon, <1>1, SeesChars
  <2> QED BY Zenon, <1>1, <2>1
<1>3. 1 \in 1 .. 2 /\ 2 \in 1 .. 2 /\ \A i \in 1 .. 2 : i = 1 \/ i = 2
  OBVIOUS
<1>4. sees(text, off, Colons) <=> off + 2 <= Len(text) /\ text[off + 1] = ":" /\ text[off + 2] = ":"
  BY Zenon, <1>1, <1>2, <1>3
<1>5. Len(text) \in Nat /\ (off + 1) + 1 = off + 2
  OBVIOUS
<1>6. off + 2 <= Len(text) <=> off < Len(text) /\ off + 1 < Len(text)
  BY <1>5
<1> QED BY Zenon, <1>4, <1>5, <1>6 DEF next_in

\* A number that was not read to its end ends the groups.
LEMMA AfterStuck ==
    ASSUME NEW text \in Seq(Char), NEW s, Stuck(s, text),
           NEW sep, Separator(sep), NEW base, NEW max
    PROVE  next_group(text, s, sep, base, max).res # "true" /\ ~sees(text, s.off, Colons)
<1>1. s.val # <<>> /\ s.off \in Nat /\ next_in(text, s.off, Digit)
  BY DEF Stuck
<1>2. ~next_in(text, s.off, {sep})
  BY <1>1 DEF next_in, Separator
<1>3. next_group(text, s, sep, base, max) = Unread(s.off)
  BY Zenon, <1>1, <1>2 DEF next_group
<1>4. ~sees(text, s.off, Colons)
  <2>1. ":" \notin Digit
    BY Zenon, Separators DEF Separator
  <2>2. ~next_in(text, s.off, {":"})
    BY <1>1, <2>1 DEF next_in
  <2> QED BY <1>1, <2>2, SeesColons
<1> QED BY <1>3, <1>4 DEF Unread

\* Behind all of them there is no further group.
LEMMA AfterAll ==
    ASSUME NEW at, NEW text, NEW off, NEW numbers, NEW base, NEW sep,
           Written(at, text, off, numbers, base, sep), NEW max, Limit(max)
    PROVE  LET n == Len(numbers)
           IN  next_group(text, Read(at[n], ValuesTo(numbers, n)), sep, base, max).res # "true"
<1> DEFINE n == Len(numbers)
           o == at[n]
           vals == ValuesTo(numbers, n)
           s == Read(o, vals)
           r == next_group(text, s, sep, base, max)
           first == parse_number(text, o, base, max)
           further == parse_number(text, o + 1, base, max)
<1>1. text \in Seq(Char) /\ base \in {10, 16} /\ Ends(text, o, sep)
  BY Zenon DEF Written
<1>2. n \in Nat /\ o \in 0 .. Len(text) /\ Len(text) \in Nat
  <2>1. n \in Nat /\ Len(text) \in Nat
    BY Zenon, WrittenPlaces
  <2>2. n \in 0 .. n
    BY <2>1
  <2> QED BY Zenon, <2>1, <2>2, WrittenPlaces
<1>3. s.off = o /\ s.val = vals
  BY DEF Read
<1> HIDE DEF s, o, vals, n
<1> DEFINE from == IF s.val = <<>> THEN s.off ELSE s.off + 1
           number == parse_number(text, from, base, max)
<1>4. r = IF s.val # <<>> /\ ~next_in(text, s.off, {sep}) THEN Unread(s.off)
          ELSE IF number.res = "true" THEN Read(number.off, Append(s.val, number.val))
          ELSE number
  BY DEF next_group, Then
<1> HIDE DEF r
<1>5. CASE vals = <<>>
  <2>1. from = o
    BY Zenon, <1>3, <1>5
  <2>2. first.res # "true"
    BY <1>1, <1>2, NoNumber DEF Ends
  <2>3. r = first
    <3>1. number = first
      BY Zenon, <2>1
    <3> HIDE DEF number, from, first, further
    <3> QED BY Zenon, <1>3, <1>4, <1>5, <2>2, <3>1
  <2> QED BY Zenon, <2>2, <2>3 DEF r, s, n, o, vals
<1>6. CASE vals # <<>> /\ ~next_in(text, o, {sep})
  <2>1. r = Unread(o)
    <3> HIDE DEF number, from
    <3> QED BY Zenon, <1>3, <1>4, <1>6
  <2>2. Unread(o).res # "true"
    BY DEF Unread
  <2> QED BY Zenon, <2>1, <2>2 DEF r, s, n, o, vals
<1>7. CASE vals # <<>> /\ next_in(text, o, {sep})
  <2>1. from = o + 1
    BY Zenon, <1>3, <1>7
  <2>2. o + 1 \in 0 .. Len(text)
    BY <1>2, <1>7 DEF next_in
  <2>3. ~next_in(text, o + 1, Digit)
    BY <1>1, <1>7 DEF Ends
  <2>4. further.res # "true"
    BY <1>1, <2>2, <2>3, NoNumber
  <2>5. r = further
    <3>1. number = further
      BY Zenon, <2>1
    <3> HIDE DEF number, from, first, further
    <3> QED BY Zenon, <1>3, <1>4, <1>7, <2>4, <3>1
  <2> QED BY Zenon, <2>4, <2>5 DEF r, s, n, o, vals
<1> QED BY <1>5, <1>6, <1>7

LEMMA ColonsBehind ==
    ASSUME NEW at, NEW text, NEW off, NEW numbers, NEW base, NEW sep,
           Written(at, text, off, numbers, base, sep), NEW i \in 1 .. Len(numbers)
    PROVE  ~sees(text, at[i - 1], Colons)
<1>1. text \in Seq(Char)
  BY DEF Written
<1>2. NumberIn(at, text, numbers, base, sep, i)
  BY Zenon, WrittenPlaces
<1>3. next_in(text, Begin(at, i), Digit)
  BY Zenon, <1>2 DEF NumberIn
<1>4. i - 1 \in 0 .. Len(numbers)
  <2>1. Len(numbers) \in Nat
    BY WrittenPlaces
  <2> QED BY <2>1
<1>5. at[i - 1] \in 0 .. Len(text)
  BY Zenon, <1>4, WrittenPlaces
<1>6. at[i - 1] \in Nat /\ at[0] = (IF i = 1 THEN at[i - 1] ELSE at[0])
  <2>1. i = 1 => i - 1 = 0
    OBVIOUS
  <2>2. at[i - 1] \in Nat
    BY <1>5
  <2> QED BY Zenon, <2>1, <2>2
<1>7. Begin(at, i) = at[i - 1] \/ Begin(at, i) = at[i - 1] + 1
  BY Zenon, <1>6 DEF Begin
<1>8. ":" \notin Digit
  BY Zenon, Separators DEF Separator
<1>9. ~next_in(text, Begin(at, i), {":"})
  BY <1>3, <1>8 DEF next_in
<1> QED BY Zenon, <1>1, <1>6, <1>7, <1>9, SeesColons

\* The first i numbers are in range, and no hexadecimal letter follows them if
\* they are all.
Clean(at, text, numbers, base, max, i) ==
    /\ i \in 0 .. Len(numbers)
    /\ \A k \in 1 .. i : numbers[k].val <= max
    /\ ~(base = 16 /\ i = Len(numbers) /\ i # 0 /\ next_in(text, at[i], HexLetter))

\* How many numbers i groups are made from, if they are.
Last(at, text, numbers, upto, i) ==
    IF upto /\ i > Len(numbers) /\ sees(text, at[Len(numbers)], Colons) THEN Len(numbers) ELSE i

\* What i groups are.
GroupsAre(s, at, text, numbers, base, max, i) ==
    IF Clean(at, text, numbers, base, max, i) THEN s = Read(at[i], ValuesTo(numbers, i))
    ELSE s.res # "true" \/ Stuck(s, text)

\* One group behind another, up to m of them.
GroupSteps(g, text, off, m, sep, base, max, upto) ==
    /\ g[0] = Read(off, <<>>)
    /\ \A i \in 1 .. m : g[i] = IF g[i - 1].res = "true"
                               THEN IF upto /\ sees(text, g[i - 1].off, Colons) THEN g[i - 1]
                                    ELSE next_group(text, g[i - 1], sep, base, max)
                               ELSE g[i - 1]

LEMMA GroupStep ==
    ASSUME NEW at, NEW text, NEW off, NEW numbers, NEW base, NEW sep,
           Written(at, text, off, numbers, base, sep), NEW max, Limit(max), NEW upto \in BOOLEAN,
           NEW i \in Nat \ {0}, NEW s, NEW r,
           GroupsAre(s, at, text, numbers, base, max, Last(at, text, numbers, upto, i - 1)),
           r = IF s.res = "true" THEN IF upto /\ sees(text, s.off, Colons) THEN s
                                      ELSE next_group(text, s, sep, base, max)
               ELSE s
    PROVE  GroupsAre(r, at, text, numbers, base, max, Last(at, text, numbers, upto, i))
<1> DEFINE n == Len(numbers)
           C(k) == Clean(at, text, numbers, base, max, k)
           before == Last(at, text, numbers, upto, i - 1)
           last == Last(at, text, numbers, upto, i)
           stop == upto /\ sees(text, at[n], Colons)
           fits(k) == numbers[k].val <= max
           hex == base = 16 /\ n # 0 /\ next_in(text, at[n], HexLetter)
           Out(x) == x.res # "true" \/ Stuck(x, text)
<1>1. n \in Nat /\ text \in Seq(Char) /\ Separator(sep) /\ base \in {10, 16}
  BY WrittenPlaces DEF Written
<1>2. /\ before = IF stop /\ i - 1 > n THEN n ELSE i - 1
      /\ last = IF stop /\ i > n THEN n ELSE i
  BY Zenon DEF Last
<1>3. \A k : C(k) <=> k \in 0 .. n /\ (\A j \in 1 .. k : fits(j)) /\ ~(k = n /\ hex)
  BY Zenon DEF Clean
<1>4. C(before) => s = Read(at[before], ValuesTo(numbers, before))
  BY Zenon DEF GroupsAre
<1>5. ~C(before) => Out(s)
  BY Zenon DEF GroupsAre
<1>6. ASSUME C(last) => r = Read(at[last], ValuesTo(numbers, last)), ~C(last) => Out(r)
      PROVE  GroupsAre(r, at, text, numbers, base, max, last)
  BY Zenon, <1>6 DEF GroupsAre
<1> HIDE DEF C, before, last, stop, hex, fits, n
<1>7. CASE ~C(before)
  <2>1. ~C(last)
    <3>1. CASE last = before
      BY <1>7, <3>1
    <3>2. CASE last # before
      <4>1. last = i /\ before = i - 1
        BY <1>1, <1>2, <3>2
      <4>2. C(i) => C(i - 1)
        BY <1>1, <1>3
      <4> QED BY <1>7, <4>1, <4>2
    <3> QED BY <3>1, <3>2
  <2>2. Out(r)
    <3>1. CASE s.res # "true"
      <4>1. r = s
        BY <3>1
      <4> QED BY <3>1, <4>1
    <3>2. CASE s.res = "true"
      <4>1. Stuck(s, text)
        BY Zenon, <1>5, <1>7, <3>2
      <4>2. next_group(text, s, sep, base, max).res # "true" /\ ~sees(text, s.off, Colons)
        BY <1>1, <4>1, AfterStuck
      <4>3. r = next_group(text, s, sep, base, max)
        BY Zenon, <3>2, <4>2
      <4> QED BY Zenon, <4>2, <4>3
    <3> QED BY <3>1, <3>2
  <2> HIDE DEF Out
  <2> QED BY Zenon, <1>6, <2>1, <2>2 DEF last
<1>8. CASE C(before) /\ stop /\ i > n
  <2>1. before = n /\ last = n
    BY <1>1, <1>2, <1>8
  <2>2. s = Read(at[n], ValuesTo(numbers, n))
    BY Zenon, <1>4, <1>8, <2>1
  <2>3. s.res = "true" /\ s.off = at[n]
    BY <2>2 DEF Read
  <2>4. r = s
    BY Zenon, <1>8, <2>3 DEF stop
  <2>5. r = Read(at[last], ValuesTo(numbers, last)) /\ C(last)
    BY Zenon, <1>8, <2>1, <2>2, <2>4
  <2> HIDE DEF Out
  <2> QED BY Zenon, <1>6, <2>5 DEF last
<1>9. CASE C(before) /\ ~(stop /\ i > n)
  <2>1. before = i - 1 /\ last = i /\ i - 1 \in 0 .. n
    <3>1. before = i - 1 /\ last = i
      BY <1>1, <1>2, <1>9
    <3> QED BY <1>3, <1>9, <3>1
  <2>2. s = Read(at[i - 1], ValuesTo(numbers, i - 1))
    BY Zenon, <1>4, <1>9, <2>1
  <2>3. s.res = "true" /\ s.off = at[i - 1]
    BY <2>2 DEF Read
  <2>4. ~(upto /\ sees(text, s.off, Colons))
    <3>1. CASE i \in 1 .. n
      <4>1. i \in 1 .. Len(numbers)
        BY <3>1 DEF n
      <4>2. ~sees(text, at[i - 1], Colons)
        BY Zenon, <4>1, ColonsBehind
      <4> QED BY Zenon, <2>3, <4>2
    <3>2. CASE i \notin 1 .. n
      <4>1. i - 1 = n /\ i > n
        BY <1>1, <2>1, <3>2
      <4> QED BY Zenon, <1>9, <2>3, <4>1 DEF stop
    <3> QED BY <3>1, <3>2
  <2> DEFINE q == next_group(text, s, sep, base, max)
  <2>5. r = q
    BY Zenon, <2>3, <2>4
  <2>6. CASE i \in 1 .. n
    <3>1. i \in 1 .. Len(numbers)
      BY <2>6 DEF n
    <3>2. /\ fits(i) => q = IF base = 16 /\ next_in(text, at[i], HexLetter) THEN Abort
                            ELSE Read(at[i], ValuesTo(numbers, i))
          /\ numbers[i].val > max => Stuck(q, text)
      <4> DEFINE x == Read(at[i - 1], ValuesTo(numbers, i - 1))
                 y == next_group(text, x, sep, base, max)
      <4>1. /\ numbers[i].val <= max =>
                   y = IF base = 16 /\ next_in(text, at[i], HexLetter) THEN Abort
                       ELSE Read(at[i], ValuesTo(numbers, i))
            /\ numbers[i].val > max => Stuck(y, text)
        BY <3>1, GroupIn
      <4>2. q = y
        BY Zenon, <2>2
      <4> HIDE DEF q, y
      <4> QED BY Zenon, <4>1, <4>2 DEF fits
    <3> HIDE DEF q
    <3>3. \A j \in 1 .. i - 1 : fits(j)
      BY <1>3, <1>9, <2>1
    <3>4. CASE fits(i)
      <4>1. \A j \in 1 .. i : fits(j)
        BY <1>1, <3>3, <3>4
      <4>2. i \in 0 .. n
        BY <1>1, <2>6
      <4>3. CASE base = 16 /\ next_in(text, at[i], HexLetter)
        <5>1. ~(i < n)
          <6>1. i < n => ~next_in(text, at[i], HexLetter)
            <7>1. i \in 0 .. Len(numbers) /\ i # 0
              BY <4>2 DEF n
            <7> QED BY Zenon, <7>1, WrittenPlaces DEF n
          <6> QED BY <4>3, <6>1
        <5>2. i = n /\ n # 0
          BY <1>1, <2>6, <5>1
        <5>3. ~C(i)
          BY Zenon, <1>3, <4>3, <5>2 DEF hex
        <5>4. r.res # "true"
          <6>1. r = Abort
            BY Zenon, <2>5, <3>2, <3>4, <4>3
          <6> QED BY <6>1 DEF Abort
        <5> QED BY Zenon, <1>6, <2>1, <5>3, <5>4 DEF last
      <4>4. CASE ~(base = 16 /\ next_in(text, at[i], HexLetter))
        <5>1. ~(i = n /\ hex)
          BY Zenon, <4>4 DEF hex
        <5>2. C(i)
          BY Zenon, <1>3, <4>1, <4>2, <5>1
        <5>3. r = Read(at[i], ValuesTo(numbers, i))
          BY Zenon, <2>5, <3>2, <3>4, <4>4
        <5> HIDE DEF Out
        <5> QED BY Zenon, <1>6, <2>1, <5>2, <5>3 DEF last
      <4> QED BY <4>3, <4>4
    <3>5. CASE ~fits(i)
      <4>1. numbers[i].val \in Nat /\ max \in Nat
        <5>1. numbers[i] \in Numeral(base)
          BY <3>1 DEF Written
        <5> QED BY <5>1, NumeralText DEF Limit
      <4>2. Stuck(q, text)
        BY <3>2, <3>5, <4>1 DEF fits
      <4>4. ~C(i)
        <5>1. i \in 1 .. i
          BY <2>6
        <5> QED BY Zenon, <1>3, <3>5, <5>1
      <4>5. Out(r)
        BY Zenon, <2>5, <4>2
      <4> HIDE DEF Out
      <4> QED BY Zenon, <1>6, <2>1, <4>4, <4>5 DEF last
    <3> QED BY <3>4, <3>5
  <2>7. CASE i \notin 1 .. n
    <3>1. i - 1 = n /\ i \notin 0 .. n
      BY <1>1, <2>1, <2>7
    <3>2. ~C(i)
      BY Zenon, <1>3, <3>1
    <3>3. s = Read(at[Len(numbers)], ValuesTo(numbers, Len(numbers)))
      BY Zenon, <2>2, <3>1 DEF n
    <3>4. q.res # "true"
      BY Zenon, <3>3, AfterAll
    <3>5. Out(r)
      BY Zenon, <2>5, <3>4
    <3> HIDE DEF Out
    <3> QED BY Zenon, <1>6, <2>1, <3>2, <3>5 DEF last
  <2> QED BY <2>6, <2>7
<1> QED BY <1>7, <1>8, <1>9

\* The groups that are read are the numbers that are written, as far as those are
\* in range.
LEMMA GroupsIn ==
    ASSUME NEW at, NEW text, NEW off, NEW numbers, NEW base, NEW sep,
           Written(at, text, off, numbers, base, sep), NEW max, Limit(max), NEW upto \in BOOLEAN,
           NEW m \in Nat, NEW g, GroupSteps(g, text, off, m, sep, base, max, upto)
    PROVE  GroupsAre(g[m], at, text, numbers, base, max, Last(at, text, numbers, upto, m))
<1> DEFINE n == Len(numbers)
           Are(i) == GroupsAre(g[i], at, text, numbers, base, max, Last(at, text, numbers, upto, i))
           T == {i \in 0 .. m : Are(i)}
<1>1. n \in Nat /\ at[0] = off
  <2>1. n \in Nat
    BY WrittenPlaces
  <2> QED BY Zenon, <2>1 DEF Written, Places
<1>2. g[0] = Read(off, <<>>)
      /\ \A i \in 1 .. m : g[i] = IF g[i - 1].res = "true"
                                 THEN IF upto /\ sees(text, g[i - 1].off, Colons) THEN g[i - 1]
                                      ELSE next_group(text, g[i - 1], sep, base, max)
                                 ELSE g[i - 1]
  BY Zenon DEF GroupSteps
<1>3. Are(0)
  <2>1. ~(0 > n)
    BY <1>1
  <2>2. Last(at, text, numbers, upto, 0) = 0
    BY Zenon, <2>1 DEF Last
  <2>3. ValuesTo(numbers, 0) = <<>>
    BY DEF ValuesTo
  <2>4. g[0] = Read(at[0], ValuesTo(numbers, 0))
    BY Zenon, <1>1, <1>2, <2>3
  <2>5. Clean(at, text, numbers, base, max, 0)
    <3>1. 0 \in 0 .. n /\ \A k \in 1 .. 0 : FALSE
      BY <1>1
    <3> QED BY Zenon, <3>1 DEF Clean
  <2> QED BY Zenon, <2>2, <2>4, <2>5 DEF GroupsAre
<1>4. ASSUME NEW i \in 1 .. m, Are(i - 1) PROVE Are(i)
  <2>1. i \in Nat \ {0}
    OBVIOUS
  <2> DEFINE s == g[i - 1]
             r == g[i]
  <2>2. GroupsAre(s, at, text, numbers, base, max, Last(at, text, numbers, upto, i - 1))
    BY Zenon, <1>4
  <2>3. r = IF s.res = "true" THEN IF upto /\ sees(text, s.off, Colons) THEN s
                                   ELSE next_group(text, s, sep, base, max)
            ELSE s
    BY Zenon, <1>2
  <2> HIDE DEF s, r
  <2>4. GroupsAre(r, at, text, numbers, base, max, Last(at, text, numbers, upto, i))
    BY Zenon, <2>1, <2>2, <2>3, GroupStep
  <2> QED BY Zenon, <2>4 DEF r
<1> HIDE DEF Are
<1>5. \A k \in 1 .. m : k - 1 \in T => k \in T
  <2> SUFFICES ASSUME NEW k \in 1 .. m, k - 1 \in T PROVE k \in T
    OBVIOUS
  <2>1. Are(k)
    BY <1>4
  <2> QED BY <2>1
<1>6. 0 \in T
  BY <1>3
<1>7. m \in T
  <2>1. 0 .. m \subseteq T
    <3> HIDE DEF T
    <3> QED BY Zenon, <1>5, <1>6, Upwards
  <2> HIDE DEF T
  <2> QED BY <2>1
<1> QED BY <1>7 DEF Are

LEMMA PutTogether ==
    ASSUME NEW s \in Seq(Char), NEW t \in Seq(Char)
    PROVE  /\ s \o t \in Seq(Char) /\ Len(s) \in Nat
           /\ Len(s) + Len(t) = Len(s \o t)
           /\ sees(s \o t, 0, s) /\ sees(s \o t, Len(s), t)
<1>1. s \o t \in Seq(Char) /\ Len(s) \in Nat /\ Len(s) + Len(t) = Len(s \o t) /\ 0 + Len(s) = Len(s)
      /\ 0 \in Nat
  OBVIOUS
<1>2. sees(s \o t, 0, s \o t)
  BY <1>1, SeesItself
<1>3. sees(s \o t, 0, s) /\ sees(s \o t, 0 + Len(s), t)
  BY Zenon, <1>1, <1>2, SeesParts
<1> QED BY Zenon, <1>1, <1>3

LEMMA JoinedText ==
    ASSUME NEW base, NEW numbers \in Seq(Numeral(base)), NEW sep \in Char
    PROVE  Joined(numbers, sep) \in Seq(Char) /\ (numbers = <<>> => Joined(numbers, sep) = <<>>)
<1> DEFINE n == Len(numbers)
           part(i) == IF i = 1 THEN numbers[i].text ELSE <<sep>> \o numbers[i].text
           parts == [i \in 1 .. n |-> part(i)]
<1>1. n \in Nat /\ (numbers = <<>> => n = 0) /\ \A i \in 1 .. n : numbers[i] \in Numeral(base)
  OBVIOUS
<1>2. Joined(numbers, sep) = SX!FlattenSeq(parts)
  BY DEF Joined
<1> HIDE DEF n
<1>3. parts \in Seq(Seq(Char)) /\ Len(parts) = n
  <2>1. ASSUME NEW i \in 1 .. n PROVE part(i) \in Seq(Char)
    <3>1. numbers[i].text \in Seq(Char) /\ <<sep>> \in Seq(Char)
      BY <1>1, NumeralText
    <3> QED BY <3>1
  <2> HIDE DEF part
  <2> QED BY <1>1, <2>1
<1> HIDE DEF parts
<1>4. PICK f : Flat(f, parts)
  BY <1>3, Flattened
<1>5. f \in [0 .. n -> Seq(Char)] /\ f[0] = <<>> /\ Joined(numbers, sep) = f[n]
  BY Zenon, <1>2, <1>3, <1>4 DEF Flat
<1> QED BY <1>1, <1>5

LEMMA JoinedWritten ==
    ASSUME NEW text \in Seq(Char), NEW off \in Nat, NEW base \in {10, 16},
           NEW numbers \in Seq(Numeral(base)), NEW sep, Separator(sep),
           sees(text, off, Joined(numbers, sep)),
           Ends(text, off + Len(Joined(numbers, sep)), sep)
    PROVE  \E at : Written(at, text, off, numbers, base, sep)
<1>1. sep \in Char
  BY DEF Separator
<1>2. PICK at : Places(at, text, off, numbers, sep)
  BY <1>1, JoinedPlaces
<1>3. at[Len(numbers)] = off + Len(Joined(numbers, sep))
  BY Zenon, <1>2 DEF Places
<1>4. Written(at, text, off, numbers, base, sep)
  BY Zenon, <1>2, <1>3 DEF Written
<1> QED BY Zenon, <1>4

LEMMA EndsBehind ==
    ASSUME NEW text \in Seq(Char), NEW off \in Nat, NEW rest \in Seq(Char),
           sees(text, off, rest), off + Len(rest) = Len(text), NEW sep, EndsNumbers(rest, sep)
    PROVE  Ends(text, off, sep)
<1>1. 0 \in Nat /\ 1 \in Nat /\ off + 0 = off
  OBVIOUS
<1>2. \A chars : next_in(text, off + 0, chars) <=> next_in(rest, 0, chars)
  BY <1>1, SameBehind
<1>3. \A chars : next_in(text, off + 1, chars) <=> next_in(rest, 1, chars)
  BY <1>1, SameBehind
<1> QED BY Zenon, <1>1, <1>2, <1>3 DEF Ends, EndsNumbers

-----------------------------------------------------------------------------
(* Addresses.                                                               *)

\* What r is of a text that begins with numbers of the values "all": n of them, in
\* range and with none of "chars" behind them, are read whole, and what is accepted
\* without cutting a number short are the first n.
AddressIs(r, text, behind, all, n, max, chars) ==
    LET fit == Len(all) >= n /\ \A i \in 1 .. n : all[i] <= max
    IN  /\ fit /\ Len(all) = n /\ ~next_in(behind, 0, chars)
            => r = Read(Len(text) - Len(behind), all)
        /\ r.res = "true" /\ ~next_in(text, r.off, Digit)
            => fit /\ r.val = SubSeq(all, 1, n)

LEMMA IPv4Is ==
    ASSUME NEW t \in IPv4Texts
    PROVE  AddressIs(parse_ipv4(IPv4Text(t), 0), IPv4Text(t), t.behind, Values(t.octets),
                     4, UINT8_MAX, Digit)
<1> DEFINE octets == t.octets
           joined == Joined(octets, ".")
           behind == t.behind
           text == IPv4Text(t)
           n == Len(octets)
           all == Values(octets)
           max == UINT8_MAX
           r == parse_ipv4(text, 0)
<1>1. octets \in Seq(Numeral(10)) /\ behind \in Seq(Char) /\ EndsNumbers(behind, ".")
  BY Zenon, MeaningAssumption DEF IsIPv4
<1>2. text = joined \o behind
  BY Zenon DEF IPv4Text
<1>3. Separator(".") /\ "." \in Char /\ 10 \in {10, 16} /\ 0 \in Nat
  BY Separators DEF Separator
<1> HIDE DEF octets, behind, text
<1>4. joined \in Seq(Char)
  BY Zenon, <1>1, <1>3, JoinedText
<1> HIDE DEF joined
<1>5. text \in Seq(Char) /\ Len(joined) \in Nat /\ Len(joined) + Len(behind) = Len(text)
      /\ sees(text, 0, joined) /\ sees(text, Len(joined), behind)
  BY Zenon, <1>1, <1>2, <1>4, PutTogether
<1>6. Ends(text, Len(joined), ".") /\ 0 + Len(joined) = Len(joined)
  BY <1>1, <1>5, EndsBehind
<1>7. PICK at : Written(at, text, 0, octets, 10, ".")
  BY Zenon, <1>1, <1>3, <1>5, <1>6, JoinedWritten DEF joined
<1>8. at[n] = Len(joined) /\ n \in Nat
  <2>1. at[Len(octets)] = 0 + Len(Joined(octets, "."))
    BY Zenon, <1>7 DEF Written, Places
  <2>2. n \in Nat
    BY <1>1
  <2> QED BY Zenon, <1>6, <2>1, <2>2 DEF joined
<1>9. PICK g : Octets(g, text, 0) /\ r = g[4]
  <2>1. 0 \in 0 .. Len(text)
    BY <1>5
  <2> QED BY Zenon, <1>5, <2>1, IPv4Unfolds
<1>10. GroupsAre(g[4], at, text, octets, 10, max, 4)
  <2>1. GroupSteps(g, text, 0, 4, ".", 10, max, FALSE)
    BY Zenon, <1>9 DEF Octets, GroupSteps
  <2>2. Limit(max)
    BY LimitsAssumption DEF Limit
  <2>3. 4 \in Nat /\ FALSE \in BOOLEAN
    OBVIOUS
  <2>4. GroupsAre(g[4], at, text, octets, 10, max, Last(at, text, octets, FALSE, 4))
    BY Zenon, <1>7, <2>1, <2>2, <2>3, GroupsIn
  <2>5. Last(at, text, octets, FALSE, 4) = 4
    BY Zenon DEF Last
  <2> QED BY Zenon, <2>4, <2>5
<1>11. Len(all) = n /\ all = ValuesTo(octets, n) /\ \A i \in 1 .. n : all[i] = octets[i].val
  BY <1>1 DEF Values, ValuesTo
<1>12. n >= 4 => SubSeq(all, 1, 4) = ValuesTo(octets, 4)
  <2>1. \A i \in 1 .. 4 : n >= 4 => i \in 1 .. n
    BY <1>8
  <2> QED BY <1>11, <2>1 DEF Values, ValuesTo
<1> DEFINE fit == Len(all) >= 4 /\ \A i \in 1 .. 4 : all[i] <= max
<1>13. Clean(at, text, octets, 10, max, 4) <=> fit
  <2>1. 10 # 16
    OBVIOUS
  <2>2. 4 \in 0 .. n <=> Len(all) >= 4
    BY <1>8, <1>11
  <2>3. Len(all) >= 4 => \A i \in 1 .. 4 : all[i] = octets[i].val
    <3> HIDE DEF all, n
    <3> QED BY <1>8, <1>11
  <2> HIDE DEF all, max
  <2> QED BY Zenon, <2>1, <2>2, <2>3 DEF Clean, n
<1> HIDE DEF all, max, n, r
<1>14. CASE fit
  <2>1. r = Read(at[4], ValuesTo(octets, 4))
    BY Zenon, <1>9, <1>10, <1>13, <1>14 DEF GroupsAre
  <2>2. r.val = SubSeq(all, 1, 4)
    BY <1>11, <1>12, <1>14, <2>1 DEF Read
  <2>3. ASSUME n = 4 PROVE r = Read(Len(text) - Len(behind), all)
    <3>1. at[4] = Len(text) - Len(behind)
      <4>1. Len(behind) \in Nat /\ Len(text) \in Nat
        BY <1>1, <1>5
      <4> QED BY <1>5, <1>8, <2>3, <4>1
    <3> QED BY Zenon, <1>11, <2>1, <2>3, <3>1
  <2> QED BY Zenon, <1>11, <1>14, <2>2, <2>3 DEF AddressIs, r, text, behind, all, max, octets
<1>15. CASE ~fit
  <2>1. r.res # "true" \/ Stuck(r, text)
    BY Zenon, <1>9, <1>10, <1>13, <1>15 DEF GroupsAre
  <2>2. ~(r.res = "true" /\ ~next_in(text, r.off, Digit))
    BY Zenon, <2>1 DEF Stuck
  <2> QED BY Zenon, <1>15, <2>2 DEF AddressIs, r, text, behind, all, max, octets
<1> QED BY <1>14, <1>15

\* How groups16() reads numbers that are written.
LEMMA Groups16In ==
    ASSUME NEW at, NEW text, NEW off, NEW numbers, Written(at, text, off, numbers, 16, ":"),
           NEW upto \in BOOLEAN, NEW m \in Nat
    PROVE  /\ GroupsAre(groups16(text, off, m, upto), at, text, numbers, 16, UINT16_MAX,
                        Last(at, text, numbers, upto, m))
           /\ UpTo(groups16(text, off, m, upto), text, off, m, upto)
<1>1. text \in Seq(Char) /\ off \in 0 .. Len(text)
  <2>1. Len(numbers) \in Nat /\ Len(text) \in Nat
    BY Zenon, WrittenPlaces
  <2>2. at[0] = off /\ off \in Nat /\ text \in Seq(Char)
    BY Zenon DEF Written, Places
  <2>3. 0 \in 0 .. Len(numbers)
    BY <2>1
  <2>4. at[0] \in 0 .. Len(text)
    BY Zenon, <2>3, WrittenPlaces
  <2> QED BY Zenon, <2>2, <2>4
<1>2. PICK g : Groups(g, text, off, m, upto) /\ groups16(text, off, m, upto) = g[m]
  BY Zenon, <1>1, Groups16Unfold
<1>3. GroupSteps(g, text, off, m, ":", 16, UINT16_MAX, upto)
  BY Zenon, <1>2 DEF Groups, GroupSteps
<1>4. Limit(UINT16_MAX)
  BY LimitsAssumption DEF Limit
<1>5. GroupsAre(g[m], at, text, numbers, 16, UINT16_MAX, Last(at, text, numbers, upto, m))
  BY Zenon, <1>3, <1>4, GroupsIn
<1> QED BY Zenon, <1>2, <1>5 DEF Groups

LEMMA IPv6Unfolds ==
    ASSUME NEW text, NEW off
    PROVE  LET head == groups16(text, off, 8, TRUE)
               tail == groups16(text, head.off + 2, 7 - Len(head.val), FALSE)
           IN  parse_ipv6(text, off) =
                  IF head.res = "true"
                  THEN IF Len(head.val) = 8 THEN head
                       ELSE IF tail.res = "true" THEN Read(tail.off, Filled(head.val, tail.val)) ELSE tail
                  ELSE head
BY DEF parse_ipv6, Then

\* A number that was not read to its end is the last of eight.
LEMMA StuckIsLast ==
    ASSUME NEW text \in Seq(Char), NEW off \in 0 .. Len(text),
           UpTo(groups16(text, off, 8, TRUE), text, off, 8, TRUE),
           Stuck(groups16(text, off, 8, TRUE), text)
    PROVE  Stuck(parse_ipv6(text, off), text)
<1> DEFINE head == groups16(text, off, 8, TRUE)
<1>1. head.res = "true" /\ head.off \in Nat /\ UpTo(head, text, off, 8, TRUE)
  BY Zenon DEF Stuck
<1>2. ~sees(text, head.off, Colons)
  <2>1. Separator(":")
    BY Separators
  <2> QED BY <2>1, AfterStuck
<1>3. Len(head.val) = 8
  BY Zenon, <1>1, <1>2 DEF UpTo
<1>4. parse_ipv6(text, off) = head
  BY Zenon, <1>1, <1>3, IPv6Unfolds
<1> QED BY Zenon, <1>4

\* A result with the cursor at a digit, or none, is not what AddressIs() speaks of
\* when the numbers are out of range or too few.
LEMMA NoAddress ==
    ASSUME NEW r, NEW text, r.res # "true" \/ next_in(text, r.off, Digit), NEW behind, NEW all, NEW n, NEW max, NEW chars,
           ~(Len(all) = n /\ (\A i \in 1 .. n : all[i] <= max) /\ ~next_in(behind, 0, chars))
    PROVE  AddressIs(r, text, behind, all, n, max, chars)
<1>1. ~(r.res = "true" /\ ~next_in(text, r.off, Digit))
  BY Zenon
<1> QED BY Zenon, <1>1 DEF AddressIs

IPv6Is(t) ==
    AddressIs(parse_ipv6(IPv6Text(t), 0), IPv6Text(t), t.behind,
              Values(t.head) \o (IF t.skip THEN <<0>> ELSE <<>>) \o Values(t.tail),
              8, UINT16_MAX, Digit \cup HexLetter)

LEMMA ValuesAll ==
    ASSUME NEW base, NEW numbers \in Seq(Numeral(base))
    PROVE  /\ Values(numbers) \in Seq(Nat) /\ Len(Values(numbers)) = Len(numbers) /\ Len(numbers) \in Nat
           /\ Values(numbers) = ValuesTo(numbers, Len(numbers))
           /\ \A i \in 1 .. Len(numbers) : Values(numbers)[i] = numbers[i].val
           /\ \A k \in 0 .. Len(numbers) : ValuesTo(numbers, k) \in Seq(Nat) /\ Len(ValuesTo(numbers, k)) = k
                                           /\ \A i \in 1 .. k : ValuesTo(numbers, k)[i] = numbers[i].val
<1> DEFINE n == Len(numbers)
<1>1. n \in Nat /\ \A i \in 1 .. n : numbers[i].val \in Nat
  <2>1. n \in Nat /\ \A i \in 1 .. n : numbers[i] \in Numeral(base)
    OBVIOUS
  <2> HIDE DEF n
  <2> QED BY <2>1, NumeralText
<1> HIDE DEF n
<1>2. Values(numbers) = [i \in 1 .. n |-> numbers[i].val] /\ ValuesTo(numbers, n) = [i \in 1 .. n |-> numbers[i].val]
  BY Zenon DEF Values, ValuesTo, n
<1>3. ASSUME NEW k \in 0 .. n
      PROVE  /\ ValuesTo(numbers, k) \in Seq(Nat) /\ Len(ValuesTo(numbers, k)) = k
             /\ \A i \in 1 .. k : ValuesTo(numbers, k)[i] = numbers[i].val
  <2> DEFINE v(i) == numbers[i].val
             s == [i \in 1 .. k |-> v(i)]
  <2>1. \A i \in 1 .. k : v(i) \in Nat
    BY <1>1
  <2> HIDE DEF v
  <2>2. s \in Seq(Nat) /\ Len(s) = k /\ \A i \in 1 .. k : s[i] = v(i)
    BY <1>1, <2>1
  <2>3. ValuesTo(numbers, k) = s
    BY Zenon DEF ValuesTo, v
  <2> HIDE DEF s
  <2> QED BY <2>2, <2>3 DEF v
<1>4. n \in 0 .. n
  BY <1>1
<1>5. Values(numbers) = ValuesTo(numbers, n)
  BY <1>2
<1> QED BY Zenon, <1>1, <1>3, <1>4, <1>5 DEF n

\* What lies where in an address without "::".
LEMMA PlainLaid ==
    ASSUME NEW t \in IPv6Texts, ~t.skip
    PROVE  LET text == IPv6Text(t)
               end  == Len(Joined(t.head, ":"))
           IN  /\ text \in Seq(Char) /\ end \in Nat /\ Len(t.behind) \in Nat
               /\ end + Len(t.behind) = Len(text)
               /\ sees(text, end, t.behind)
               /\ \E at : Written(at, text, 0, t.head, 16, ":")
<1> DEFINE numbers == t.head
           joined == Joined(numbers, ":")
           behind == t.behind
           text == IPv6Text(t)
<1>1. /\ numbers \in Seq(Numeral(16)) /\ behind \in Seq(Char) /\ EndsNumbers(behind, ":")
      /\ t.tail = <<>>
  BY Zenon, MeaningAssumption DEF IsIPv6
<1>2. Separator(":") /\ ":" \in Char /\ 16 \in {10, 16} /\ 0 \in Nat
  BY Separators DEF Separator
<1>3. joined \in Seq(Char)
  <2> HIDE DEF numbers
  <2> QED BY Zenon, <1>1, <1>2, JoinedText
<1>4. text = joined \o behind
  <2>1. Joined(t.tail, ":") = <<>>
    <3>1. <<>> \in Seq(Numeral(16))
      OBVIOUS
    <3> QED BY Zenon, <1>1, <1>2, <3>1, JoinedText
  <2>2. text = joined \o <<>> \o <<>> \o behind
    BY Zenon, <2>1 DEF IPv6Text
  <2> HIDE DEF joined, behind, text
  <2>3. joined \o <<>> \o <<>> = joined
    BY <1>3
  <2> QED BY Zenon, <2>2, <2>3
<1> HIDE DEF numbers, behind, text, joined
<1>6. text \in Seq(Char) /\ Len(joined) \in Nat /\ Len(joined) + Len(behind) = Len(text)
      /\ sees(text, 0, joined) /\ sees(text, Len(joined), behind)
  BY Zenon, <1>1, <1>3, <1>4, PutTogether
<1>7. Ends(text, Len(joined), ":") /\ 0 + Len(joined) = Len(joined)
  BY <1>1, <1>6, EndsBehind
<1>8. PICK at : Written(at, text, 0, numbers, 16, ":")
  BY Zenon, <1>1, <1>2, <1>6, <1>7, JoinedWritten DEF joined
<1>9. Len(behind) \in Nat
  BY <1>1
<1> QED BY Zenon, <1>6, <1>8, <1>9 DEF numbers, behind, text, joined

\* An address without "::".
LEMMA IPv6Plain ==
    ASSUME NEW t \in IPv6Texts, ~t.skip
    PROVE  IPv6Is(t)
<1> DEFINE numbers == t.head
           joined == Joined(numbers, ":")
           behind == t.behind
           text == IPv6Text(t)
           n == Len(numbers)
           all == Values(numbers)
           max == UINT16_MAX
           chars == Digit \cup HexLetter
           h == groups16(text, 0, 8, TRUE)
           r == parse_ipv6(text, 0)
<1>1. /\ numbers \in Seq(Numeral(16)) /\ behind \in Seq(Char) /\ EndsNumbers(behind, ":")
      /\ t.tail = <<>> /\ ~sees(behind, 0, Colons)
  BY Zenon, MeaningAssumption DEF IsIPv6, Colons
<1>2. Separator(":") /\ ":" \in Char /\ 16 \in {10, 16} /\ 0 \in Nat
  BY Separators DEF Separator
<1>5. Values(t.head) \o (IF t.skip THEN <<0>> ELSE <<>>) \o Values(t.tail) = all
  <2>1. Values(t.tail) = <<>>
    BY <1>1 DEF Values
  <2>2. all \in Seq(Nat)
    BY <1>1, ValuesAll
  <2> HIDE DEF all
  <2>3. all \o <<>> \o <<>> = all
    BY <2>2
  <2>4. (IF t.skip THEN <<0>> ELSE <<>>) = <<>>
    OBVIOUS
  <2> QED BY Zenon, <2>1, <2>3, <2>4 DEF all
<1> SUFFICES AddressIs(r, text, behind, all, 8, max, chars)
  BY Zenon, <1>5 DEF IPv6Is
<1> HIDE DEF numbers, behind, text, joined
<1>6. text \in Seq(Char) /\ Len(joined) \in Nat /\ Len(joined) + Len(behind) = Len(text)
      /\ sees(text, Len(joined), behind)
  BY Zenon, PlainLaid DEF numbers, behind, text, joined
<1>7. 0 + Len(joined) = Len(joined) /\ Len(joined) + 0 = Len(joined)
  BY <1>6
<1>8. PICK at : Written(at, text, 0, numbers, 16, ":")
  BY Zenon, PlainLaid DEF numbers, text
<1>9. at[n] = Len(joined) /\ n \in Nat
  <2>1. at[n] = 0 + Len(joined)
    BY Zenon, <1>8 DEF Written, Places, joined
  <2>2. n \in Nat
    BY <1>1
  <2> QED BY Zenon, <1>7, <2>1, <2>2
<1>10. /\ ~sees(text, at[n], Colons)
       /\ next_in(text, at[n], HexLetter) <=> next_in(behind, 0, HexLetter)
  <2>1. \A cs : next_in(text, Len(joined) + 0, cs) <=> next_in(behind, 0, cs)
    BY <1>1, <1>2, <1>6, SameBehind
  <2>2. \A cs : next_in(text, Len(joined) + 1, cs) <=> next_in(behind, 1, cs)
    BY <1>1, <1>6, SameBehind
  <2>3. sees(behind, 0, Colons) <=> next_in(behind, 0, {":"}) /\ next_in(behind, 0 + 1, {":"})
    BY <1>1, SeesColons
  <2>4. sees(text, Len(joined), Colons) <=>
           next_in(text, Len(joined), {":"}) /\ next_in(text, Len(joined) + 1, {":"})
    BY <1>6, SeesColons
  <2>5. 0 + 1 = 1
    OBVIOUS
  <2> QED BY Zenon, <1>1, <1>7, <1>9, <2>1, <2>2, <2>3, <2>4, <2>5
<1>11. GroupsAre(h, at, text, numbers, 16, max, 8) /\ UpTo(h, text, 0, 8, TRUE)
  <2>1. 8 \in Nat /\ TRUE \in BOOLEAN
    OBVIOUS
  <2>2. GroupsAre(h, at, text, numbers, 16, max, Last(at, text, numbers, TRUE, 8))
        /\ UpTo(h, text, 0, 8, TRUE)
    BY Zenon, <1>8, <2>1, Groups16In
  <2>3. Last(at, text, numbers, TRUE, 8) = 8
    BY Zenon, <1>10 DEF Last
  <2> QED BY Zenon, <2>2, <2>3
<1>a. Len(all) = n /\ all \in Seq(Nat) /\ \A i \in 1 .. n : all[i] = numbers[i].val
  BY Zenon, <1>1, ValuesAll
<1>12. /\ Len(all) = n /\ all = ValuesTo(numbers, n) /\ all \in Seq(Nat)
       /\ \A i \in 1 .. n : all[i] = numbers[i].val
       /\ n >= 8 => ValuesTo(numbers, 8) \in Seq(Nat) /\ Len(ValuesTo(numbers, 8)) = 8
                    /\ \A i \in 1 .. 8 : ValuesTo(numbers, 8)[i] = all[i]
  <2>1. /\ Len(all) = n /\ all = ValuesTo(numbers, n) /\ all \in Seq(Nat)
        /\ \A i \in 1 .. n : all[i] = numbers[i].val
    BY Zenon, <1>1, ValuesAll
  <2>2. n >= 8 => 8 \in 0 .. n /\ \A i \in 1 .. 8 : i \in 1 .. n
    BY <1>9
  <2>3. n >= 8 => ValuesTo(numbers, 8) \in Seq(Nat) /\ Len(ValuesTo(numbers, 8)) = 8
                    /\ \A i \in 1 .. 8 : ValuesTo(numbers, 8)[i] = numbers[i].val
    BY Zenon, <1>1, <2>2, ValuesAll
  <2> HIDE DEF all
  <2> QED BY Zenon, <2>1, <2>2, <2>3
<1> HIDE DEF all, h, max, n, chars
<1>13. Clean(at, text, numbers, 16, max, 8) <=>
          /\ n >= 8 /\ \A i \in 1 .. 8 : all[i] <= max
          /\ ~(n = 8 /\ next_in(behind, 0, HexLetter))
  <2>1. 8 \in 0 .. n <=> n >= 8
    BY <1>9
  <2>2. n >= 8 => \A i \in 1 .. 8 : all[i] = numbers[i].val
    BY <1>9, <1>a
  <2>3. 8 # 0 /\ 16 = 16
    OBVIOUS
  <2>4. Clean(at, text, numbers, 16, max, 8) <=>
          /\ 8 \in 0 .. n /\ \A i \in 1 .. 8 : numbers[i].val <= max
          /\ ~(8 = n /\ next_in(text, at[8], HexLetter))
    BY Zenon, <2>3 DEF Clean, n
  <2> QED BY Zenon, <1>10, <2>1, <2>2, <2>4
<1>14. r = IF h.res = "true" /\ Len(h.val) = 8 THEN h ELSE r
  BY Zenon, IPv6Unfolds DEF h
<1>15. h.res # "true" => r = h
  BY Zenon, IPv6Unfolds DEF h
<1>16. Stuck(h, text) => Stuck(r, text)
  <2>1. 0 \in 0 .. Len(text)
    BY <1>6
  <2> QED BY Zenon, <1>6, <1>11, <2>1, StuckIsLast DEF h
<1> HIDE DEF r
<1>17. CASE Clean(at, text, numbers, 16, max, 8)
  <2>1. h = Read(at[8], ValuesTo(numbers, 8))
    BY Zenon, <1>11, <1>17 DEF GroupsAre
  <2>2. h.res = "true" /\ h.val = ValuesTo(numbers, 8) /\ n >= 8
    BY <1>13, <1>17, <2>1 DEF Read
  <2>3. r = h
    BY Zenon, <1>12, <1>14, <2>2
  <2>4. r.val = SubSeq(all, 1, 8)
    <3> DEFINE some == ValuesTo(numbers, 8)
               kept == SubSeq(all, 1, 8)
    <3>1. kept \in Seq(Nat) /\ Len(kept) = 8 /\ \A i \in 1 .. 8 : kept[i] = all[i]
      BY SMTT(30), <1>a, <2>2
    <3>2. some \in Seq(Nat) /\ Len(some) = 8 /\ \A i \in 1 .. 8 : some[i] = all[i]
      BY Zenon, <1>12, <2>2
    <3> HIDE DEF some, kept
    <3>3. some = kept
      BY <3>1, <3>2, SeqEqual
    <3> QED BY Zenon, <2>2, <2>3, <3>3 DEF some, kept
  <2>5. ASSUME n = 8 PROVE r = Read(Len(text) - Len(behind), all)
    <3>1. at[8] = Len(text) - Len(behind)
      <4>1. Len(behind) \in Nat /\ Len(text) \in Nat
        BY <1>1, <1>6
      <4> QED BY <1>6, <1>9, <2>5, <4>1
    <3> QED BY Zenon, <1>12, <2>1, <2>3, <2>5, <3>1
  <2> QED BY Zenon, <1>12, <1>13, <1>17, <2>4, <2>5 DEF AddressIs
<1>18. CASE ~Clean(at, text, numbers, 16, max, 8)
  <2>1. h.res # "true" \/ Stuck(h, text)
    BY Zenon, <1>11, <1>18 DEF GroupsAre
  <2>2. r.res # "true" \/ Stuck(r, text)
    BY Zenon, <1>15, <1>16, <2>1
  <2>3. ~(Len(all) = 8 /\ (\A i \in 1 .. 8 : all[i] <= max) /\ ~next_in(behind, 0, chars))
    <3>1. next_in(behind, 0, HexLetter) => next_in(behind, 0, chars)
      BY DEF next_in, chars
    <3>2. Len(all) = 8 => n >= 8
      BY <1>a
    <3> QED BY Zenon, <1>13, <1>18, <3>1, <3>2
  <2> QED BY Zenon, <2>2, <2>3, NoAddress DEF Stuck
<1> QED BY <1>17, <1>18

\* What lies where in an address with "::", and the values on both sides of it.
LEMMA SkipLaid ==
    ASSUME NEW t \in IPv6Texts, t.skip
    PROVE  LET text == IPv6Text(t)
               mid  == Len(Joined(t.head, ":"))
               end  == mid + 2 + Len(Joined(t.tail, ":"))
           IN  /\ text \in Seq(Char) /\ mid \in Nat /\ Len(t.behind) \in Nat
               /\ sees(text, mid, Colons)
               /\ ~next_in(text, mid, HexLetter)
               /\ end + Len(t.behind) = Len(text) /\ end \in Nat /\ sees(text, end, t.behind)
               /\ next_in(text, end, HexLetter) <=> next_in(t.behind, 0, HexLetter)
               /\ \E at : Written(at, text, 0, t.head, 16, ":")
               /\ \E at : Written(at, text, mid + 2, t.tail, 16, ":")
<1> DEFINE head == t.head
           tail == t.tail
           B == t.behind
           H == Joined(head, ":")
           T == Joined(tail, ":")
           HC == H \o Colons
           HCT == HC \o T
           text == IPv6Text(t)
           mid == Len(H)
           end == mid + 2 + Len(T)
<1>1. /\ head \in Seq(Numeral(16)) /\ tail \in Seq(Numeral(16)) /\ B \in Seq(Char)
      /\ EndsNumbers(B, ":")
  BY Zenon, MeaningAssumption DEF IsIPv6
<1>2. Separator(":") /\ ":" \in Char /\ 16 \in {10, 16} /\ 0 \in Nat
  BY Separators DEF Separator
<1> HIDE DEF head, tail, B
<1>3. H \in Seq(Char) /\ T \in Seq(Char) /\ Colons \in Seq(Char) /\ Len(Colons) = 2
  <2>1. H \in Seq(Char) /\ T \in Seq(Char)
    BY Zenon, <1>1, <1>2, JoinedText
  <2> HIDE DEF H, T
  <2>2. Colons \in Seq(Char) /\ Len(Colons) = 2
    BY <1>2 DEF Colons
  <2> QED BY <2>1, <2>2
<1>4. text = HCT \o B
  BY Zenon DEF IPv6Text, Colons, head, tail, B
<1> HIDE DEF H, T, text
<1>5. HC \in Seq(Char) /\ Len(HC) = mid + 2 /\ mid \in Nat /\ Len(T) \in Nat
  <2>1. HC \in Seq(Char) /\ Len(HC) = Len(H) + Len(Colons) /\ Len(H) \in Nat
    BY Zenon, <1>3, PutTogether
  <2>2. Len(T) \in Nat
    BY <1>3
  <2> QED BY Zenon, <1>3, <2>1, <2>2
<1> HIDE DEF HC
<1>6. HCT \in Seq(Char) /\ Len(HCT) = end
  <2>1. HCT \in Seq(Char) /\ Len(HCT) = Len(HC) + Len(T)
    BY Zenon, <1>3, <1>5, PutTogether
  <2> QED BY Zenon, <1>5, <2>1
<1> HIDE DEF HCT
<1>7. text \in Seq(Char) /\ Len(B) \in Nat /\ end + Len(B) = Len(text)
      /\ sees(text, 0, HCT) /\ sees(text, end, B)
  <2>1. text \in Seq(Char) /\ Len(HCT) + Len(B) = Len(text) /\ sees(text, 0, HCT) /\ sees(text, Len(HCT), B)
    BY Zenon, <1>1, <1>4, <1>6, PutTogether
  <2>2. Len(B) \in Nat
    BY <1>1
  <2> QED BY Zenon, <1>6, <2>1, <2>2
<1>8. sees(text, 0, HC) /\ sees(text, mid + 2, T)
  <2>1. sees(text, 0, HC) /\ sees(text, 0 + Len(HC), T)
    BY Zenon, <1>2, <1>3, <1>5, <1>7, SeesParts DEF HCT
  <2>2. 0 + Len(HC) = mid + 2
    BY <1>5
  <2> QED BY Zenon, <2>1, <2>2
<1>9. sees(text, 0, H) /\ sees(text, mid, Colons)
  <2>1. sees(text, 0, H) /\ sees(text, 0 + Len(H), Colons)
    BY Zenon, <1>2, <1>3, <1>7, <1>8, SeesParts DEF HC
  <2>2. 0 + Len(H) = mid
    BY <1>5
  <2> QED BY Zenon, <2>1, <2>2
<1>10. next_in(text, mid, {":"}) /\ next_in(text, mid + 1, {":"})
  BY <1>5, <1>7, <1>9, SeesColons
<1>11. Ends(text, mid, ":") /\ ~next_in(text, mid, HexLetter)
  BY <1>2, <1>10 DEF Ends, next_in, Separator
<1>12. end \in Nat /\ mid + 2 \in Nat /\ mid + 2 + Len(T) = end /\ 0 + mid = mid /\ end + 0 = end
  BY <1>5
<1>13. Ends(text, end, ":")
  BY <1>1, <1>7, <1>12, EndsBehind
<1>14. next_in(text, end, HexLetter) <=> next_in(B, 0, HexLetter)
  <2>1. next_in(text, end + 0, HexLetter) <=> next_in(B, 0, HexLetter)
    BY <1>1, <1>2, <1>7, <1>12, SameBehind
  <2> QED BY Zenon, <1>12, <2>1
<1>15. \E at : Written(at, text, 0, head, 16, ":")
  <2>1. Ends(text, 0 + Len(Joined(head, ":")), ":") /\ sees(text, 0, Joined(head, ":"))
    BY Zenon, <1>9, <1>11, <1>12 DEF H
  <2> QED BY Zenon, <1>1, <1>2, <1>7, <2>1, JoinedWritten
<1>16. \E at : Written(at, text, mid + 2, tail, 16, ":")
  <2>1. Ends(text, (mid + 2) + Len(Joined(tail, ":")), ":") /\ sees(text, mid + 2, Joined(tail, ":"))
    BY Zenon, <1>8, <1>12, <1>13 DEF T
  <2> QED BY Zenon, <1>1, <1>2, <1>7, <1>12, <2>1, JoinedWritten
<1> QED BY Zenon, <1>5, <1>7, <1>9, <1>11, <1>12, <1>14, <1>15, <1>16 DEF head, tail, B, H, T, text

\* A zero group between two others.
LEMMA ZeroBetween ==
    ASSUME NEW a \in Seq(Nat), NEW b \in Seq(Nat)
    PROVE  LET all == a \o <<0>> \o b
               n == Len(a)
               m == Len(b)
           IN  /\ all \in Seq(Nat) /\ n \in Nat /\ m \in Nat /\ Len(all) = n + 1 + m
               /\ \A i \in 1 .. n : all[i] = a[i]
               /\ all[n + 1] = 0
               /\ \A j \in 1 .. m : all[n + 1 + j] = b[j]
<1> DEFINE n == Len(a)
           m == Len(b)
           all == a \o <<0>> \o b
<1>1. n \in Nat /\ m \in Nat /\ all \in Seq(Nat) /\ Len(all) = n + 1 + m
  OBVIOUS
<1>2. \A i \in 1 .. n : all[i] = a[i]
  OBVIOUS
<1>3. \A j \in 1 .. m : all[n + 1 + j] = b[j]
  OBVIOUS
<1>4. all[n + 1] = 0
  <2> DEFINE c == a \o <<0>>
             zero == <<0>>
  <2>1. zero \in Seq(Nat) /\ Len(zero) = 1 /\ zero[1] = 0 /\ c = a \o zero
    OBVIOUS
  <2>2. c \in Seq(Nat) /\ all = c \o b
    OBVIOUS
  <2> HIDE DEF zero, c, n, all
  <2>3. a \o zero \in Seq(Nat) /\ Len(a \o zero) = Len(a) + Len(zero)
        /\ \A i \in 1 .. Len(a) + Len(zero) :
              (a \o zero)[i] = IF i <= Len(a) THEN a[i] ELSE zero[i - Len(a)]
    BY Zenon, <2>1, ConcatProperties
  <2>4. Len(a) + Len(zero) = n + 1 /\ n + 1 \in 1 .. Len(a) + Len(zero) /\ ~(n + 1 <= Len(a))
        /\ (n + 1) - Len(a) = 1
    BY <1>1, <2>1 DEF n
  <2>5. (a \o zero)[n + 1] = zero[1]
    BY Zenon, <2>3, <2>4
  <2>6. Len(c) = n + 1 /\ c[n + 1] = 0
    BY Zenon, <2>1, <2>3, <2>4, <2>5
  <2>7. n + 1 \in 1 .. n + 1
    BY <1>1
  <2>8. (c \o b)[n + 1] = c[n + 1]
    BY <2>2, <2>6, <2>7
  <2> QED BY Zenon, <2>2, <2>6, <2>8
<1> QED BY Zenon, <1>1, <1>2, <1>3, <1>4

\* The values of an address with "::".
LEMMA SkipValues ==
    ASSUME NEW head \in Seq(Numeral(16)), NEW tail \in Seq(Numeral(16))
    PROVE  LET all == Values(head) \o <<0>> \o Values(tail)
               n == Len(head)
               m == Len(tail)
           IN  /\ all \in Seq(Nat) /\ n \in Nat /\ m \in Nat /\ Len(all) = n + 1 + m
               /\ \A i \in 1 .. n : all[i] = head[i].val
               /\ all[n + 1] = 0
               /\ \A j \in 1 .. m : all[n + 1 + j] = tail[j].val
<1> DEFINE n == Len(head)
           m == Len(tail)
           a == Values(head)
           b == Values(tail)
           all == a \o <<0>> \o b
<1>1. a \in Seq(Nat) /\ Len(a) = n /\ n \in Nat /\ \A i \in 1 .. n : a[i] = head[i].val
  BY Zenon, ValuesAll
<1>2. b \in Seq(Nat) /\ Len(b) = m /\ m \in Nat /\ \A j \in 1 .. m : b[j] = tail[j].val
  BY Zenon, ValuesAll
<1> HIDE DEF a, b, n, m, all
<1>3. /\ all \in Seq(Nat) /\ Len(all) = n + 1 + m
      /\ \A i \in 1 .. n : all[i] = a[i]
      /\ all[n + 1] = 0
      /\ \A j \in 1 .. m : all[n + 1 + j] = b[j]
  BY Zenon, <1>1, <1>2, ZeroBetween DEF all
<1>4. \A i \in 1 .. n : all[i] = head[i].val
  BY Zenon, <1>1, <1>3
<1>5. \A j \in 1 .. m : all[n + 1 + j] = tail[j].val
  BY Zenon, <1>2, <1>3
<1> QED BY Zenon, <1>1, <1>2, <1>3, <1>4, <1>5 DEF all, a, b, n, m


LEMMA FirstEight ==
    ASSUME NEW s \in Seq(Nat), Len(s) >= 8
    PROVE  /\ SubSeq(s, 1, 8) \in Seq(Nat) /\ Len(SubSeq(s, 1, 8)) = 8
           /\ \A i \in 1 .. 8 : SubSeq(s, 1, 8)[i] = s[i]
<1>1. \A i \in 1 .. 8 : s[i] \in Nat
  OBVIOUS
<1>2. SubSeq(s, 1, 8) \in Seq(Nat) /\ Len(SubSeq(s, 1, 8)) = (IF 1 <= 8 THEN 8 - 1 + 1 ELSE 0)
      /\ \A i \in 1 .. 8 - 1 + 1 : SubSeq(s, 1, 8)[i] = s[1 + i - 1]
  <2>1. 1 \in Int /\ 8 \in Int
    OBVIOUS
  <2> QED BY <1>1, <2>1, SubSeqProperties
<1>3. (IF 1 <= 8 THEN 8 - 1 + 1 ELSE 0) = 8 /\ 8 - 1 + 1 = 8 /\ \A i \in 1 .. 8 : 1 + i - 1 = i
  OBVIOUS
<1> QED BY Zenon, <1>2, <1>3

LEMMA FilledIs ==
    ASSUME NEW head \in Seq(Nat), NEW tail \in Seq(Nat), Len(head) + Len(tail) = 7
    PROVE  Filled(head, tail) = head \o <<0>> \o tail
<1>1. 8 - Len(head) - Len(tail) = 1
  OBVIOUS
<1> DEFINE zeros(n) == [i \in 1 .. n |-> 0]
<1>2. Filled(head, tail) = head \o zeros(8 - Len(head) - Len(tail)) \o tail
  BY Zenon DEF Filled
<1>3. zeros(1) = <<0>>
  OBVIOUS
<1> HIDE DEF zeros
<1> QED BY Zenon, <1>1, <1>2, <1>3

\* What an address with "::" is read as when its groups are in range.
LEMMA SkipFilled ==
    ASSUME NEW head \in Seq(Numeral(16)), NEW tail \in Seq(Numeral(16)),
           Len(head) <= 7, 7 - Len(head) <= Len(tail)
    PROVE  LET all == Values(head) \o <<0>> \o Values(tail)
               first == ValuesTo(head, Len(head))
               some == ValuesTo(tail, 7 - Len(head))
           IN  Filled(first, some) = SubSeq(all, 1, 8)
<1> DEFINE n == Len(head)
           m == Len(tail)
           all == Values(head) \o <<0>> \o Values(tail)
           first == ValuesTo(head, n)
           some == ValuesTo(tail, 7 - n)
           it == first \o <<0>> \o some
           kept == SubSeq(all, 1, 8)
<1>1. /\ all \in Seq(Nat) /\ n \in Nat /\ m \in Nat /\ Len(all) = n + 1 + m
      /\ \A i \in 1 .. n : all[i] = head[i].val
      /\ all[n + 1] = 0
      /\ \A j \in 1 .. m : all[n + 1 + j] = tail[j].val
  BY Zenon, SkipValues
<1>2. n <= 7 /\ 7 - n <= m
  OBVIOUS
<1> HIDE DEF n, m, all
<1>3. n \in 0 .. n /\ 7 - n \in 0 .. m /\ 7 - n \in Nat
  BY <1>1, <1>2
<1>4. first \in Seq(Nat) /\ Len(first) = n /\ \A i \in 1 .. n : first[i] = head[i].val
  <2> HIDE DEF first
  <2>1. \A k \in 0 .. n : ValuesTo(head, k) \in Seq(Nat) /\ Len(ValuesTo(head, k)) = k
                        /\ \A i \in 1 .. k : ValuesTo(head, k)[i] = head[i].val
    BY Zenon, ValuesAll DEF n
  <2> QED BY Zenon, <1>3, <2>1 DEF first
<1>5. some \in Seq(Nat) /\ Len(some) = 7 - n /\ \A j \in 1 .. 7 - n : some[j] = tail[j].val
  <2> HIDE DEF some
  <2>1. \A k \in 0 .. m : ValuesTo(tail, k) \in Seq(Nat) /\ Len(ValuesTo(tail, k)) = k
                        /\ \A i \in 1 .. k : ValuesTo(tail, k)[i] = tail[i].val
    BY Zenon, ValuesAll DEF m
  <2> QED BY Zenon, <1>3, <2>1 DEF some
<1> HIDE DEF first, some, it
<1>6. /\ it \in Seq(Nat) /\ Len(it) = n + 1 + (7 - n)
      /\ \A i \in 1 .. n : it[i] = first[i]
      /\ it[n + 1] = 0
      /\ \A j \in 1 .. 7 - n : it[n + 1 + j] = some[j]
  <2> DEFINE k == 7 - n
  <2>1. Len(some) = k
    BY Zenon, <1>5
  <2> HIDE DEF k
  <2>2. /\ it \in Seq(Nat) /\ Len(it) = n + 1 + k
        /\ \A i \in 1 .. n : it[i] = first[i]
        /\ it[n + 1] = 0
        /\ \A j \in 1 .. k : it[n + 1 + j] = some[j]
    BY Zenon, <1>4, <1>5, <2>1, ZeroBetween DEF it
  <2> QED BY Zenon, <2>2 DEF k
<1>7. kept \in Seq(Nat) /\ Len(kept) = 8 /\ \A i \in 1 .. 8 : kept[i] = all[i]
  <2>1. all \in Seq(Nat) /\ Len(all) \in Nat /\ Len(all) >= 8
    BY <1>1, <1>2
  <2> QED BY Zenon, <2>1, FirstEight
<1>8. ASSUME NEW i \in 1 .. 8 PROVE it[i] = all[i]
  <2>1. CASE i <= n
    <3>1. i \in 1 .. n
      BY SMTT(30), <1>1, <2>1
    <3> QED BY Zenon, <1>1, <1>4, <1>6, <3>1
  <2>2. CASE i = n + 1
    BY Zenon, <1>1, <1>6, <2>2
  <2>3. CASE i > n + 1
    <3> DEFINE j == i - (n + 1)
    <3>1. j \in 1 .. 7 - n /\ j \in 1 .. m /\ n + 1 + j = i
      BY <1>1, <1>2, <2>3
    <3> HIDE DEF j
    <3> QED BY Zenon, <1>1, <1>5, <1>6, <3>1
  <2> QED BY <1>1, <2>1, <2>2, <2>3
<1>9. Len(it) = 8
  BY <1>1, <1>6
<1> HIDE DEF kept
<1>10. it = kept
  BY <1>6, <1>7, <1>8, <1>9, SeqEqual
<1>11. Filled(first, some) = it
  <2>1. Len(first) + Len(some) = 7
    BY <1>1, <1>4, <1>5
  <2> QED BY Zenon, <1>4, <1>5, <2>1, FilledIs DEF it
<1> QED BY Zenon, <1>10, <1>11 DEF first, some, all, kept, n, m


\* How the numbers in front of "::" and those behind it are read.
LEMMA SkipRead ==
    ASSUME NEW t \in IPv6Texts, t.skip
    PROVE  LET text == IPv6Text(t)
               mid  == Len(Joined(t.head, ":"))
               end  == mid + 2 + Len(Joined(t.tail, ":"))
               n    == Len(t.head)
               m    == Len(t.tail)
               h    == groups16(text, 0, 8, TRUE)
               g    == groups16(text, mid + 2, 7 - n, FALSE)
           IN  /\ Len(text) \in Nat /\ end + Len(t.behind) = Len(text) /\ end \in Nat /\ n \in Nat /\ m \in Nat
               /\ next_in(text, end, HexLetter) <=> next_in(t.behind, 0, HexLetter)
               /\ Stuck(h, text) => Stuck(parse_ipv6(text, 0), text)
               /\ \E at : /\ at[n] = mid /\ ~next_in(text, at[n], HexLetter)
                          /\ n >= 8 => GroupsAre(h, at, text, t.head, 16, UINT16_MAX, 8)
                          /\ n <= 7 => GroupsAre(h, at, text, t.head, 16, UINT16_MAX, n)
               /\ n <= 7 => \E at : /\ at[m] = end
                                    /\ GroupsAre(g, at, text, t.tail, 16, UINT16_MAX, 7 - n)
<1> DEFINE head == t.head
           tail == t.tail
           text == IPv6Text(t)
           mid  == Len(Joined(head, ":"))
           end  == mid + 2 + Len(Joined(tail, ":"))
           n    == Len(head)
           m    == Len(tail)
           h    == groups16(text, 0, 8, TRUE)
           g    == groups16(text, mid + 2, 7 - n, FALSE)
<1>1. /\ text \in Seq(Char) /\ mid \in Nat /\ Len(t.behind) \in Nat
      /\ sees(text, mid, Colons)
      /\ ~next_in(text, mid, HexLetter)
      /\ end + Len(t.behind) = Len(text) /\ end \in Nat
      /\ next_in(text, end, HexLetter) <=> next_in(t.behind, 0, HexLetter)
      /\ \E at : Written(at, text, 0, head, 16, ":")
      /\ \E at : Written(at, text, mid + 2, tail, 16, ":")
  BY Zenon, SkipLaid
<1>2. head \in Seq(Numeral(16)) /\ tail \in Seq(Numeral(16))
  BY Zenon, MeaningAssumption DEF IsIPv6
<1>3. PICK at : Written(at, text, 0, head, 16, ":")
  BY Zenon, <1>1
<1>4. PICK at2 : Written(at2, text, mid + 2, tail, 16, ":")
  BY Zenon, <1>1
<1>5. n \in Nat /\ m \in Nat /\ Len(text) \in Nat
  BY Zenon, <1>3, <1>4, WrittenPlaces
<1>6. at[n] = mid /\ at2[m] = end
  <2>1. at[n] = 0 + mid /\ at2[m] = (mid + 2) + Len(Joined(tail, ":"))
    BY Zenon, <1>3, <1>4 DEF Written, Places
  <2>2. 0 + mid = mid
    BY <1>1
  <2> QED BY Zenon, <2>1, <2>2
<1> HIDE DEF head, tail, text, mid, end, n, m, g
<1>7. GroupsAre(h, at, text, head, 16, UINT16_MAX, Last(at, text, head, TRUE, 8))
      /\ UpTo(h, text, 0, 8, TRUE)
  <2>1. 8 \in Nat /\ TRUE \in BOOLEAN
    OBVIOUS
  <2> QED BY Zenon, <1>3, <2>1, Groups16In
<1>8. n >= 8 => Last(at, text, head, TRUE, 8) = 8
  <2>1. n >= 8 => ~(8 > n)
    BY <1>5
  <2> QED BY Zenon, <2>1 DEF Last, n
<1>9. n <= 7 => Last(at, text, head, TRUE, 8) = n
  <2>1. n <= 7 => 8 > n
    BY <1>5
  <2> QED BY Zenon, <1>1, <1>6, <2>1 DEF Last, n
<1>10. n <= 7 => GroupsAre(g, at2, text, tail, 16, UINT16_MAX, 7 - n)
  <2> SUFFICES ASSUME n <= 7 PROVE GroupsAre(g, at2, text, tail, 16, UINT16_MAX, 7 - n)
    OBVIOUS
  <2>1. 7 - n \in Nat /\ FALSE \in BOOLEAN
    BY <1>5
  <2>2. GroupsAre(g, at2, text, tail, 16, UINT16_MAX, Last(at2, text, tail, FALSE, 7 - n))
    BY Zenon, <1>4, <2>1, Groups16In DEF g
  <2>3. Last(at2, text, tail, FALSE, 7 - n) = 7 - n
    BY Zenon DEF Last
  <2> QED BY Zenon, <2>2, <2>3
<1>11. Stuck(h, text) => Stuck(parse_ipv6(text, 0), text)
  <2>1. 0 \in 0 .. Len(text)
    BY <1>5
  <2> QED BY Zenon, <1>1, <1>7, <2>1, StuckIsLast
<1>12. \E a : /\ a[n] = mid /\ ~next_in(text, a[n], HexLetter)
              /\ n >= 8 => GroupsAre(h, a, text, head, 16, UINT16_MAX, 8)
              /\ n <= 7 => GroupsAre(h, a, text, head, 16, UINT16_MAX, n)
  <2>1. /\ at[n] = mid /\ ~next_in(text, at[n], HexLetter)
        /\ n >= 8 => GroupsAre(h, at, text, head, 16, UINT16_MAX, 8)
        /\ n <= 7 => GroupsAre(h, at, text, head, 16, UINT16_MAX, n)
    <3> HIDE DEF h
    <3> QED BY Zenon, <1>1, <1>6, <1>7, <1>8, <1>9
  <2> QED BY Zenon, <2>1
<1>13. n <= 7 => \E a : a[m] = end /\ GroupsAre(g, a, text, tail, 16, UINT16_MAX, 7 - n)
  BY Zenon, <1>6, <1>10
<1> QED BY Zenon, <1>1, <1>5, <1>11, <1>12, <1>13 DEF head, tail, text, mid, end, n, m, g

\* Which addresses with "::" are in range.
LEMMA SkipFits ==
    ASSUME NEW head \in Seq(Numeral(16)), NEW tail \in Seq(Numeral(16)), NEW max \in Nat
    PROVE  LET all == Values(head) \o <<0>> \o Values(tail)
               n == Len(head)
               m == Len(tail)
               InRange(numbers, k) == \A i \in 1 .. k : numbers[i].val <= max
               fit == Len(all) >= 8 /\ \A i \in 1 .. 8 : all[i] <= max
           IN  /\ n >= 8 => (fit <=> InRange(head, 8)) /\ Len(all) # 8
               /\ n <= 7 => (fit <=> InRange(head, n) /\ 7 - n \in 0 .. m /\ InRange(tail, 7 - n))
                            /\ (Len(all) = 8 <=> m = 7 - n)
<1> DEFINE all == Values(head) \o <<0>> \o Values(tail)
           n == Len(head)
           m == Len(tail)
           hv(i) == head[i].val
           tv(i) == tail[i].val
<1>1. /\ all \in Seq(Nat) /\ n \in Nat /\ m \in Nat /\ Len(all) = n + 1 + m
      /\ \A i \in 1 .. n : all[i] = hv(i)
      /\ all[n + 1] = 0
      /\ \A j \in 1 .. m : all[n + 1 + j] = tv(j)
  BY Zenon, SkipValues
<1> HIDE DEF all, n, m, hv, tv
<1>2. CASE n >= 8
  <2>1. Len(all) >= 8 /\ Len(all) # 8 /\ \A i \in 1 .. 8 : i \in 1 .. n
    BY <1>1, <1>2
  <2>2. ~(n <= 7)
    BY <1>1, <1>2
  <2>3. \A i \in 1 .. 8 : all[i] = hv(i)
    BY Zenon, <1>1, <2>1
  <2> QED BY Zenon, <2>1, <2>2, <2>3 DEF all, n, m, hv
<1>3. CASE n <= 7
  <2>1. Len(all) >= 8 <=> 7 - n \in 0 .. m
    BY <1>1, <1>3
  <2>2. Len(all) = 8 <=> m = 7 - n
    BY <1>1, <1>3
  <2>3. ~(n >= 8)
    BY <1>1, <1>3
  <2>4. ASSUME \A i \in 1 .. 8 : all[i] <= max, 7 - n \in 0 .. m
        PROVE  (\A i \in 1 .. n : hv(i) <= max) /\ \A j \in 1 .. 7 - n : tv(j) <= max
    <3>1. \A i \in 1 .. n : i \in 1 .. 8
      BY <1>1, <1>3
    <3>2. \A j \in 1 .. 7 - n : j \in 1 .. m /\ n + 1 + j \in 1 .. 8
      <4>1. n \in Nat /\ m \in Nat /\ 7 - n <= m
        BY <1>1, <2>4
      <4> QED BY <1>3, <4>1
    <3>3. ASSUME NEW j \in 1 .. 7 - n PROVE tv(j) <= max
      <4>1. all[n + 1 + j] = tv(j) /\ all[n + 1 + j] <= max
        BY Zenon, <1>1, <2>4, <3>2
      <4> QED BY Zenon, <4>1
    <3>4. ASSUME NEW i \in 1 .. n PROVE hv(i) <= max
      <4>1. all[i] = hv(i) /\ all[i] <= max
        BY Zenon, <1>1, <2>4, <3>1
      <4> QED BY Zenon, <4>1
    <3> QED BY Zenon, <3>3, <3>4
  <2>5. ASSUME \A i \in 1 .. n : hv(i) <= max, 7 - n \in 0 .. m, \A j \in 1 .. 7 - n : tv(j) <= max,
               NEW i \in 1 .. 8
        PROVE  all[i] <= max
    <3>1. CASE i <= n
      <4>1. i \in 1 .. n
        BY <1>1, <3>1
      <4> QED BY Zenon, <1>1, <2>5, <4>1
    <3>2. CASE i = n + 1
      <4>1. 0 <= max
        OBVIOUS
      <4> QED BY Zenon, <1>1, <3>2, <4>1
    <3>3. CASE i > n + 1
      <4> DEFINE j == i - (n + 1)
      <4>1. j \in 1 .. 7 - n /\ j \in 1 .. m /\ n + 1 + j = i
        BY <1>1, <1>3, <2>5, <3>3
      <4> HIDE DEF j
      <4>2. all[n + 1 + j] = tv(j) /\ tv(j) <= max
        BY Zenon, <1>1, <2>5, <4>1
      <4> QED BY Zenon, <4>1, <4>2
    <3> QED BY <1>1, <3>1, <3>2, <3>3
  <2>6. (Len(all) >= 8 /\ \A i \in 1 .. 8 : all[i] <= max)
        <=> (\A i \in 1 .. n : hv(i) <= max) /\ 7 - n \in 0 .. m /\ \A j \in 1 .. 7 - n : tv(j) <= max
    <3>1. (Len(all) >= 8 /\ \A i \in 1 .. 8 : all[i] <= max)
          => (\A i \in 1 .. n : hv(i) <= max) /\ 7 - n \in 0 .. m /\ \A j \in 1 .. 7 - n : tv(j) <= max
      BY Zenon, <2>1, <2>4
    <3>2. (\A i \in 1 .. n : hv(i) <= max) /\ 7 - n \in 0 .. m /\ (\A j \in 1 .. 7 - n : tv(j) <= max)
          => Len(all) >= 8 /\ \A i \in 1 .. 8 : all[i] <= max
      BY Zenon, <2>1, <2>5
    <3> QED BY Zenon, <3>1, <3>2
  <2> QED BY Zenon, <2>2, <2>3, <2>6 DEF all, n, m, hv, tv
<1>4. n >= 8 \/ n <= 7
  BY <1>1
<1> QED BY Zenon, <1>2, <1>3, <1>4 DEF n


\* An address with "::".
LEMMA IPv6Skips ==
    ASSUME NEW t \in IPv6Texts, t.skip
    PROVE  IPv6Is(t)
<1> DEFINE head == t.head
           tail == t.tail
           behind == t.behind
           text == IPv6Text(t)
           mid  == Len(Joined(head, ":"))
           end  == mid + 2 + Len(Joined(tail, ":"))
           n    == Len(head)
           m    == Len(tail)
           max  == UINT16_MAX
           all  == Values(head) \o <<0>> \o Values(tail)
           h    == groups16(text, 0, 8, TRUE)
           g    == groups16(text, mid + 2, 7 - n, FALSE)
           r    == parse_ipv6(text, 0)
           chars == Digit \cup HexLetter
           fit  == Len(all) >= 8 /\ \A i \in 1 .. 8 : all[i] <= max
           InRange(numbers, k) == \A i \in 1 .. k : numbers[i].val <= max
<1>1. head \in Seq(Numeral(16)) /\ tail \in Seq(Numeral(16)) /\ max \in Nat /\ behind \in Seq(Char)
  BY Zenon, MeaningAssumption, LimitsAssumption DEF IsIPv6
<1>2. /\ Len(text) \in Nat /\ end + Len(behind) = Len(text) /\ end \in Nat /\ n \in Nat /\ m \in Nat
      /\ next_in(text, end, HexLetter) <=> next_in(behind, 0, HexLetter)
      /\ Stuck(h, text) => Stuck(r, text)
      /\ \E at : /\ at[n] = mid /\ ~next_in(text, at[n], HexLetter)
                 /\ n >= 8 => GroupsAre(h, at, text, head, 16, max, 8)
                 /\ n <= 7 => GroupsAre(h, at, text, head, 16, max, n)
      /\ n <= 7 => \E at : at[m] = end /\ GroupsAre(g, at, text, tail, 16, max, 7 - n)
  BY Zenon, SkipRead
<1>3. /\ n >= 8 => (fit <=> InRange(head, 8)) /\ Len(all) # 8
      /\ n <= 7 => (fit <=> InRange(head, n) /\ 7 - n \in 0 .. m /\ InRange(tail, 7 - n))
                   /\ (Len(all) = 8 <=> m = 7 - n)
  BY Zenon, <1>1, SkipFits
<1>4. all \in Seq(Nat)
  BY Zenon, <1>1, SkipValues
<1>5. r = IF h.res = "true"
          THEN IF Len(h.val) = 8 THEN h
               ELSE LET tl == groups16(text, h.off + 2, 7 - Len(h.val), FALSE)
                    IN  IF tl.res = "true" THEN Read(tl.off, Filled(h.val, tl.val)) ELSE tl
          ELSE h
  BY Zenon, IPv6Unfolds
<1>6. ASSUME r.res # "true" \/ next_in(text, r.off, Digit),
             fit /\ Len(all) = 8 => next_in(behind, 0, chars)
      PROVE  AddressIs(r, text, behind, all, 8, max, chars)
  <2>1. Len(all) = 8 => Len(all) >= 8
    <3> HIDE DEF all
    <3> QED OBVIOUS
  <2>2. ~(Len(all) = 8 /\ (\A i \in 1 .. 8 : all[i] <= max) /\ ~next_in(behind, 0, chars))
    <3> HIDE DEF r, text, behind, all, max, chars
    <3> QED BY Zenon, <1>6, <2>1
  <2> HIDE DEF r, text, behind, all, max, chars
  <2> QED BY Zenon, <1>6, <2>2, NoAddress
<1> SUFFICES AddressIs(r, text, behind, all, 8, max, chars)
  <2>1. (IF t.skip THEN <<0>> ELSE <<>>) = <<0>>
    OBVIOUS
  <2>2. Values(t.head) \o (IF t.skip THEN <<0>> ELSE <<>>) \o Values(t.tail) = all
    BY Zenon, <2>1
  <2> HIDE DEF r, all
  <2> QED BY Zenon, <2>2 DEF IPv6Is, r
<1> HIDE DEF r, text, behind, all, max, chars, h, g, n, m, head, tail, mid, end
<1>7. PICK at : /\ at[n] = mid /\ ~next_in(text, at[n], HexLetter)
                /\ n >= 8 => GroupsAre(h, at, text, head, 16, max, 8)
                /\ n <= 7 => GroupsAre(h, at, text, head, 16, max, n)
  BY Zenon, <1>2
<1>8. CASE n >= 8
  <2>1. Clean(at, text, head, 16, max, 8) <=> fit
    <3>1. 8 \in 0 .. n /\ n # 0
      BY <1>2, <1>8
    <3>2. Clean(at, text, head, 16, max, 8) <=>
             /\ 8 \in 0 .. n /\ InRange(head, 8)
             /\ ~(16 = 16 /\ 8 = n /\ 8 # 0 /\ next_in(text, at[8], HexLetter))
      BY Zenon DEF Clean, n
    <3>3. 8 = n => ~next_in(text, at[8], HexLetter)
      BY Zenon, <1>7
    <3> HIDE DEF fit, InRange
    <3> QED BY Zenon, <1>3, <1>8, <3>1, <3>2, <3>3
  <2>2. CASE fit
    <3>1. h = Read(at[8], ValuesTo(head, 8))
      <4> HIDE DEF fit
      <4> QED BY Zenon, <1>7, <1>8, <2>1, <2>2 DEF GroupsAre
    <3>2. ValuesTo(head, 8) \in Seq(Nat) /\ Len(ValuesTo(head, 8)) = 8
          /\ \A i \in 1 .. 8 : ValuesTo(head, 8)[i] = head[i].val
      <4>1. \A k \in 0 .. n : ValuesTo(head, k) \in Seq(Nat) /\ Len(ValuesTo(head, k)) = k
                        /\ \A i \in 1 .. k : ValuesTo(head, k)[i] = head[i].val
        BY Zenon, <1>1, ValuesAll DEF n
      <4>2. 8 \in 0 .. n
        BY <1>2, <1>8
      <4> QED BY Zenon, <4>1, <4>2
    <3>3. h.res = "true" /\ h.val = ValuesTo(head, 8)
      BY <3>1 DEF Read
    <3>4. r = h
      BY Zenon, <1>5, <3>2, <3>3
    <3>5. ValuesTo(head, 8) = SubSeq(all, 1, 8)
      <4> DEFINE some == ValuesTo(head, 8)
                 kept == SubSeq(all, 1, 8)
      <4>1. kept \in Seq(Nat) /\ Len(kept) = 8 /\ \A i \in 1 .. 8 : kept[i] = all[i]
        BY Zenon, <1>4, <2>2, FirstEight
      <4>2. \A i \in 1 .. n : all[i] = head[i].val
        BY Zenon, <1>1, SkipValues DEF all, n
      <4>3. \A i \in 1 .. 8 : i \in 1 .. n
        BY <1>2, <1>8
      <4>4. \A i \in 1 .. 8 : some[i] = kept[i]
        BY Zenon, <3>2, <4>1, <4>2, <4>3
      <4>5. some \in Seq(Nat) /\ Len(some) = 8
        BY Zenon, <3>2
      <4> HIDE DEF some, kept
      <4>6. some = kept
        BY <4>1, <4>4, <4>5, SeqEqual
      <4> QED BY Zenon, <4>6 DEF some, kept
    <3> QED BY Zenon, <1>3, <1>8, <2>2, <3>3, <3>4, <3>5 DEF AddressIs
  <2>3. CASE ~fit
    <3>1. h.res # "true" \/ Stuck(h, text)
      <4> HIDE DEF fit
      <4> QED BY Zenon, <1>7, <1>8, <2>1, <2>3 DEF GroupsAre
    <3>2. h.res # "true" => r = h
      BY Zenon, <1>5
    <3>3. r.res # "true" \/ Stuck(r, text)
      BY Zenon, <1>2, <3>1, <3>2
    <3> HIDE DEF fit
    <3> QED BY Zenon, <1>6, <2>3, <3>3 DEF Stuck
  <2> QED BY Zenon, <2>2, <2>3
<1>9. CASE n <= 7
  <2>1. Clean(at, text, head, 16, max, n) <=> InRange(head, n)
    <3>1. n \in 0 .. n
      BY <1>2
    <3>2. Clean(at, text, head, 16, max, n) <=>
             /\ n \in 0 .. n /\ InRange(head, n)
             /\ ~(16 = 16 /\ n = n /\ n # 0 /\ next_in(text, at[n], HexLetter))
      BY Zenon DEF Clean, n
    <3> HIDE DEF InRange
    <3> QED BY Zenon, <1>7, <3>1, <3>2
  <2>2. CASE ~InRange(head, n)
    <3> HIDE DEF InRange, fit
    <3>1. h.res # "true" \/ Stuck(h, text)
      BY Zenon, <1>7, <1>9, <2>1, <2>2 DEF GroupsAre
    <3>2. h.res # "true" => r = h
      BY Zenon, <1>5
    <3>3. r.res # "true" \/ Stuck(r, text)
      BY Zenon, <1>2, <3>1, <3>2
    <3>4. ~fit
      BY Zenon, <1>3, <1>9, <2>2
    <3> QED BY Zenon, <1>6, <3>3, <3>4 DEF Stuck
  <2>3. CASE InRange(head, n)
    <3> HIDE DEF InRange, fit
    <3>1. h = Read(mid, ValuesTo(head, n))
      BY Zenon, <1>7, <1>9, <2>1, <2>3 DEF GroupsAre
    <3>2. Len(ValuesTo(head, n)) = n
      <4>1. \A k \in 0 .. n : Len(ValuesTo(head, k)) = k
        BY Zenon, <1>1, ValuesAll DEF n
      <4>2. n \in 0 .. n
        BY <1>2
      <4> QED BY Zenon, <4>1, <4>2
    <3>3. h.res = "true" /\ h.off = mid /\ h.val = ValuesTo(head, n)
      BY <3>1 DEF Read
    <3>4. Len(h.val) = n /\ n # 8
      <4>1. n # 8
        BY <1>2, <1>9
      <4> QED BY Zenon, <3>2, <3>3, <4>1
    <3>5. r = IF g.res = "true" THEN Read(g.off, Filled(ValuesTo(head, n), g.val)) ELSE g
      BY Zenon, <1>5, <3>3, <3>4 DEF g
    <3>6. PICK at2 : at2[m] = end /\ GroupsAre(g, at2, text, tail, 16, max, 7 - n)
      BY Zenon, <1>2, <1>9
    <3>7. Clean(at2, text, tail, 16, max, 7 - n) <=>
             /\ 7 - n \in 0 .. m /\ InRange(tail, 7 - n)
             /\ ~(16 = 16 /\ 7 - n = m /\ 7 - n # 0 /\ next_in(text, at2[7 - n], HexLetter))
      BY Zenon DEF Clean, m, InRange
    <3>8. CASE Clean(at2, text, tail, 16, max, 7 - n)
      <4>1. fit /\ 7 - n \in 0 .. m
        BY Zenon, <1>3, <1>9, <2>3, <3>7, <3>8
      <4>2. g = Read(at2[7 - n], ValuesTo(tail, 7 - n))
        BY Zenon, <3>6, <3>8 DEF GroupsAre
      <4>3. g.res = "true" /\ g.off = at2[7 - n] /\ g.val = ValuesTo(tail, 7 - n)
        BY <4>2 DEF Read
      <4>4. Filled(ValuesTo(head, n), ValuesTo(tail, 7 - n)) = SubSeq(all, 1, 8)
        <5>1. 7 - n <= m
          BY <1>2, <4>1
        <5> QED BY Zenon, <1>1, <1>9, <5>1, SkipFilled DEF all, n, m
      <4>5. r = Read(at2[7 - n], SubSeq(all, 1, 8))
        BY Zenon, <3>5, <4>3, <4>4
      <4>6. r.val = SubSeq(all, 1, 8)
        BY <4>5 DEF Read
      <4>7. ASSUME Len(all) = 8 PROVE r = Read(Len(text) - Len(behind), all)
        <5>1. at2[7 - n] = end
          BY Zenon, <1>3, <1>9, <3>6, <4>7
        <5>2. end = Len(text) - Len(behind)
          <6>1. Len(behind) \in Nat
            BY <1>1
          <6> QED BY <1>2, <6>1
        <5>3. SubSeq(all, 1, 8) = all
          <6>1. SubSeq(all, 1, Len(all)) = all
            BY Zenon, <1>4, SubSeqFull
          <6> QED BY Zenon, <4>7, <6>1
        <5> QED BY Zenon, <4>5, <5>1, <5>2, <5>3
      <4> QED BY Zenon, <4>1, <4>6, <4>7 DEF AddressIs, fit
    <3>9. CASE ~Clean(at2, text, tail, 16, max, 7 - n)
      <4>1. g.res # "true" \/ Stuck(g, text)
        BY Zenon, <3>6, <3>9 DEF GroupsAre
      <4>2. g.res # "true" => r = g
        BY Zenon, <3>5
      <4>3. Stuck(g, text) => next_in(text, r.off, Digit)
        <5> SUFFICES ASSUME Stuck(g, text) PROVE next_in(text, r.off, Digit)
          OBVIOUS
        <5>1. r = Read(g.off, Filled(ValuesTo(head, n), g.val))
          BY Zenon, <3>5 DEF Stuck
        <5>2. r.off = g.off
          BY <5>1 DEF Read
        <5> QED BY Zenon, <5>2 DEF Stuck
      <4>4. r.res # "true" \/ next_in(text, r.off, Digit)
        BY Zenon, <4>1, <4>2, <4>3
      <4>5. fit /\ Len(all) = 8 => next_in(behind, 0, chars)
        <5> SUFFICES ASSUME fit, Len(all) = 8 PROVE next_in(behind, 0, chars)
          OBVIOUS
        <5>1. m = 7 - n /\ 7 - n \in 0 .. m /\ InRange(tail, 7 - n)
          BY Zenon, <1>3, <1>9
        <5>2. next_in(behind, 0, HexLetter)
          BY Zenon, <1>2, <3>6, <3>7, <3>9, <5>1
        <5> QED BY <5>2 DEF next_in, chars
      <4> QED BY Zenon, <1>6, <4>4, <4>5
    <3> QED BY Zenon, <3>8, <3>9
  <2> QED BY Zenon, <2>2, <2>3
<1>10. n >= 8 \/ n <= 7
  BY <1>2
<1> QED BY Zenon, <1>8, <1>9, <1>10

-----------------------------------------------------------------------------
(* A hexadecimal letter where a number is wanted.                           *)

\* A letter goes on with the last of the numbers, or begins a further one.
LetterOn(at, text, numbers) ==
    LET n == Len(numbers) IN n # 0 /\ next_in(text, at[n], HexLetter)

LetterFurther(at, text, numbers, sep) ==
    LET n == Len(numbers)
    IN  IF n = 0 THEN next_in(text, at[n], HexLetter)
        ELSE next_in(text, at[n], {sep}) /\ next_in(text, at[n] + 1, HexLetter)

LEMMA FurtherAborts ==
    ASSUME NEW at, NEW text, NEW off, NEW numbers, NEW sep,
           Written(at, text, off, numbers, 16, sep), NEW max, Limit(max),
           LetterFurther(at, text, numbers, sep)
    PROVE  LET n == Len(numbers)
           IN  next_group(text, Read(at[n], ValuesTo(numbers, n)), sep, 16, max) = Abort
<1> DEFINE n == Len(numbers)
           o == at[n]
           vals == ValuesTo(numbers, n)
           s == Read(o, vals)
           r == next_group(text, s, sep, 16, max)
           from == IF n = 0 THEN o ELSE o + 1
           number == parse_number(text, from, 16, max)
<1>1. text \in Seq(Char) /\ 16 \in {10, 16} /\ Ends(text, o, sep)
  BY Zenon DEF Written
<1>2. n \in Nat /\ o \in 0 .. Len(text) /\ Len(text) \in Nat
  <2>1. n \in Nat /\ Len(text) \in Nat
    BY Zenon, WrittenPlaces
  <2>2. n \in 0 .. n
    BY <2>1
  <2> QED BY Zenon, <2>1, <2>2, WrittenPlaces
<1>3. s.off = o /\ s.val = vals
  BY DEF Read
<1>4. vals = <<>> <=> n = 0
  <2>1. DOMAIN vals = 1 .. n
    BY DEF ValuesTo
  <2>2. n = 0 => vals = <<>>
    BY DEF ValuesTo
  <2>3. n # 0 => 1 \in 1 .. n
    BY <1>2
  <2>4. DOMAIN <<>> = {}
    OBVIOUS
  <2> HIDE DEF vals, n
  <2> QED BY Zenon, <2>1, <2>2, <2>3, <2>4
<1>5. IF n = 0 THEN next_in(text, o, HexLetter)
      ELSE next_in(text, o, {sep}) /\ next_in(text, o + 1, HexLetter)
  BY Zenon DEF LetterFurther
<1> HIDE DEF s, o, vals, n
<1>6. r = IF s.val # <<>> /\ ~next_in(text, s.off, {sep}) THEN Unread(s.off)
          ELSE IF parse_number(text, IF s.val = <<>> THEN s.off ELSE s.off + 1, 16, max).res = "true"
          THEN Read(parse_number(text, IF s.val = <<>> THEN s.off ELSE s.off + 1, 16, max).off,
                    Append(s.val, parse_number(text, IF s.val = <<>> THEN s.off ELSE s.off + 1, 16, max).val))
          ELSE parse_number(text, IF s.val = <<>> THEN s.off ELSE s.off + 1, 16, max)
  BY DEF next_group, Then
<1>7. (IF s.val = <<>> THEN s.off ELSE s.off + 1) = from
  BY Zenon, <1>3, <1>4
<1>8. from \in 0 .. Len(text) /\ next_in(text, from, HexLetter) /\ ~next_in(text, from, Digit)
  <2>1. CASE n = 0
    BY Zenon, <1>1, <1>2, <1>5, <2>1 DEF Ends
  <2>2. CASE n # 0
    <3>1. from = o + 1
      BY Zenon, <2>2
    <3>2. o + 1 \in 0 .. Len(text)
      BY <1>2, <1>5, <2>2 DEF next_in
    <3> QED BY Zenon, <1>1, <1>5, <2>2, <3>1, <3>2 DEF Ends
  <2> QED BY <2>1, <2>2
<1> HIDE DEF from
<1>9. number = Abort /\ number.res # "true"
  BY <1>1, <1>8, NoNumber
<1> HIDE DEF number
<1>10. ~(s.val # <<>> /\ ~next_in(text, s.off, {sep}))
  BY Zenon, <1>3, <1>4, <1>5
<1>11. r = Abort
  <2> HIDE DEF r
  <2> QED BY Zenon, <1>6, <1>7, <1>9, <1>10 DEF number
<1> QED BY Zenon, <1>11 DEF r, s, o, vals, n

\* Groups that were given up stay so.
LEMMA AbortStays ==
    ASSUME NEW g, NEW text, NEW off, NEW m \in Nat, NEW sep, NEW base, NEW max, NEW upto,
           GroupSteps(g, text, off, m, sep, base, max, upto), NEW k \in 0 .. m, g[k] = Abort
    PROVE  g[m] = Abort
<1> DEFINE T == {i \in 0 .. m - k : g[k + i] = Abort}
<1>1. m - k \in Nat /\ k + 0 = k /\ k + (m - k) = m
  OBVIOUS
<1>2. 0 \in T
  BY <1>1
<1>3. ASSUME NEW i \in 1 .. m - k, i - 1 \in T PROVE i \in T
  <2>1. k + i \in 1 .. m /\ (k + i) - 1 = k + (i - 1) /\ i \in 0 .. m - k
    BY <1>1
  <2>2. g[k + (i - 1)] = Abort
    BY Zenon, <1>3
  <2>3. Abort.res # "true"
    BY DEF Abort
  <2>4. g[k + i] = Abort
    BY Zenon, <2>1, <2>2, <2>3 DEF GroupSteps
  <2> QED BY <2>1, <2>4
<1>4. m - k \in T
  <2>1. 0 .. m - k \subseteq T
    <3> HIDE DEF T
    <3> QED BY Zenon, <1>1, <1>2, <1>3, Upwards
  <2>2. m - k \in 0 .. m - k
    BY <1>1
  <2> QED BY Zenon, <2>1, <2>2
<1> QED BY Zenon, <1>1, <1>4

\* The numbers are in range and a letter is met before m groups are read.
Lettered(at, text, numbers, m) ==
    LET n == Len(numbers)
    IN  /\ \A i \in 1 .. n : numbers[i].val <= UINT16_MAX
        /\ n <= m
        /\ LetterOn(at, text, numbers) \/ (n < m /\ LetterFurther(at, text, numbers, ":"))

LEMMA LetteredGroups ==
    ASSUME NEW at, NEW text, NEW off, NEW numbers, Written(at, text, off, numbers, 16, ":"),
           NEW upto \in BOOLEAN, NEW m \in Nat, Lettered(at, text, numbers, m),
           NEW g, GroupSteps(g, text, off, m, ":", 16, UINT16_MAX, upto)
    PROVE  g[m] = Abort
<1> DEFINE n == Len(numbers)
           max == UINT16_MAX
           s(k) == Read(at[k], ValuesTo(numbers, k))
<1>1. n \in Nat /\ n <= m /\ text \in Seq(Char)
  <2>1. n \in Nat
    BY Zenon, WrittenPlaces
  <2> QED BY Zenon, <2>1 DEF Lettered, Written
<1>2. Limit(max)
  BY LimitsAssumption DEF Limit
<1>3. \A i \in 1 .. n : numbers[i].val <= max
  BY Zenon DEF Lettered
<1>4. LetterOn(at, text, numbers) \/ (n < m /\ LetterFurther(at, text, numbers, ":"))
  BY Zenon DEF Lettered
<1> HIDE DEF max
<1>5. ASSUME NEW k \in 0 .. n, ~(k = n /\ LetterOn(at, text, numbers))
      PROVE  g[k] = s(k)
  <2>1. k \in Nat /\ k <= m /\ ~(k > n)
    BY <1>1
  <2>2. GroupSteps(g, text, off, k, ":", 16, max, upto)
    <3>1. \A i \in 1 .. k : i \in 1 .. m
      BY <2>1
    <3> QED BY Zenon, <3>1 DEF GroupSteps, max
  <2>3. GroupsAre(g[k], at, text, numbers, 16, max, Last(at, text, numbers, upto, k))
    BY Zenon, <1>2, <2>1, <2>2, GroupsIn
  <2>4. Last(at, text, numbers, upto, k) = k
    BY Zenon, <2>1 DEF Last
  <2>5. \A i \in 1 .. k : i \in 1 .. n
    BY <1>1
  <2>6. Clean(at, text, numbers, 16, max, k)
    BY Zenon, <1>3, <1>5, <2>5 DEF Clean, LetterOn
  <2> QED BY Zenon, <2>3, <2>4, <2>6 DEF GroupsAre
<1> DEFINE Step(k) == g[k] = IF g[k - 1].res = "true"
                             THEN IF upto /\ sees(text, g[k - 1].off, Colons) THEN g[k - 1]
                                  ELSE next_group(text, g[k - 1], ":", 16, max)
                             ELSE g[k - 1]
<1>6. \A k \in 1 .. m : Step(k)
  BY Zenon DEF GroupSteps, max
<1>7. \A k : s(k).res = "true" /\ s(k).off = at[k]
  BY DEF Read
<1> HIDE DEF s
<1>8. CASE LetterOn(at, text, numbers)
  <2>1. n # 0 /\ next_in(text, at[n], HexLetter)
    BY Zenon, <1>8 DEF LetterOn
  <2>2. n \in 1 .. n /\ n - 1 \in 0 .. n /\ n - 1 # n /\ n \in 1 .. m /\ n \in 0 .. m
    BY <1>1, <2>1
  <2>3. g[n - 1] = s(n - 1)
    BY Zenon, <1>5, <2>2
  <2>4. ~sees(text, at[n - 1], Colons)
    BY Zenon, <2>2, ColonsBehind
  <2>5. g[n] = next_group(text, s(n - 1), ":", 16, max)
    <3>1. Step(n)
      BY Zenon, <1>6, <2>2
    <3> QED BY Zenon, <1>7, <2>3, <2>4, <3>1
  <2>6. next_group(text, s(n - 1), ":", 16, max) = Abort
    <3> DEFINE x == Read(at[n - 1], ValuesTo(numbers, n - 1))
               y == next_group(text, x, ":", 16, max)
    <3>1. numbers[n].val <= max =>
             y = IF 16 = 16 /\ next_in(text, at[n], HexLetter) THEN Abort
                 ELSE Read(at[n], ValuesTo(numbers, n))
      <4>1. n \in 1 .. Len(numbers)
        BY <2>2
      <4> HIDE DEF n
      <4> QED BY <1>2, <4>1, GroupIn
    <3>2. numbers[n].val <= max
      BY Zenon, <1>3, <2>2
    <3> HIDE DEF y
    <3>3. y = Abort
      BY Zenon, <2>1, <3>1, <3>2
    <3> QED BY Zenon, <3>3 DEF y, s
  <2>7. g[n] = Abort
    BY Zenon, <2>5, <2>6
  <2> QED BY Zenon, <2>2, <2>7, AbortStays
<1>9. CASE n < m /\ LetterFurther(at, text, numbers, ":")
  <2>1. n \in 0 .. n /\ n + 1 \in 1 .. m /\ n + 1 \in 0 .. m /\ (n + 1) - 1 = n
    BY <1>1, <1>9
  <2>2. Separator(":") /\ ":" \notin HexLetter
    BY Zenon, Separators DEF Separator
  <2>3. IF n = 0 THEN next_in(text, at[n], HexLetter)
        ELSE next_in(text, at[n], {":"}) /\ next_in(text, at[n] + 1, HexLetter)
    BY Zenon, <1>9 DEF LetterFurther
  <2>4. CASE LetterOn(at, text, numbers)
    BY <1>8, <2>4
  <2>5. CASE ~LetterOn(at, text, numbers)
    <3>1. g[n] = s(n)
      BY Zenon, <1>5, <2>1, <2>5
    <3>2. at[n] \in Nat
      <4>1. at[n] \in 0 .. Len(text)
        BY ZenonT(60), <2>1, WrittenPlaces
      <4> QED BY <4>1
    <3>3. ~sees(text, at[n], Colons)
      <4>1. ~next_in(text, at[n], {":"}) \/ ~next_in(text, at[n] + 1, {":"})
        <5> HIDE DEF n
        <5> QED BY <2>2, <2>3 DEF next_in
      <4> QED BY Zenon, <1>1, <3>2, <4>1, SeesColons
    <3>4. g[n + 1] = next_group(text, s(n), ":", 16, max)
      <4>1. Step(n + 1)
        BY Zenon, <1>6, <2>1
      <4> QED BY Zenon, <1>7, <2>1, <3>1, <3>3, <4>1
    <3>5. next_group(text, s(n), ":", 16, max) = Abort
      BY Zenon, <1>2, <1>9, FurtherAborts DEF s
    <3>6. g[n + 1] = Abort
      BY Zenon, <3>4, <3>5
    <3> QED BY Zenon, <2>1, <3>6, AbortStays
  <2> QED BY <2>4, <2>5
<1> QED BY <1>4, <1>8, <1>9

LEMMA LetteredGroups16 ==
    ASSUME NEW at, NEW text, NEW off, NEW numbers, Written(at, text, off, numbers, 16, ":"),
           NEW upto \in BOOLEAN, NEW m \in Nat, Lettered(at, text, numbers, m)
    PROVE  groups16(text, off, m, upto) = Abort
<1>1. text \in Seq(Char) /\ off \in 0 .. Len(text)
  <2>1. Len(numbers) \in Nat /\ Len(text) \in Nat
    BY Zenon, WrittenPlaces
  <2>2. at[0] = off /\ off \in Nat /\ text \in Seq(Char)
    BY Zenon DEF Written, Places
  <2>3. 0 \in 0 .. Len(numbers)
    BY <2>1
  <2>4. at[0] \in 0 .. Len(text)
    BY Zenon, <2>3, WrittenPlaces
  <2> QED BY Zenon, <2>2, <2>4
<1>2. PICK g : Groups(g, text, off, m, upto) /\ groups16(text, off, m, upto) = g[m]
  BY Zenon, <1>1, Groups16Unfold
<1>3. GroupSteps(g, text, off, m, ":", 16, UINT16_MAX, upto)
  BY Zenon, <1>2 DEF Groups, GroupSteps
<1>4. g[m] = Abort
  BY Zenon, <1>3, LetteredGroups
<1> QED BY Zenon, <1>2, <1>4

\* The letter behind an address is met where its last numbers end.
LEMMA LetterMet ==
    ASSUME NEW text \in Seq(Char), NEW end \in Nat, NEW behind \in Seq(Char),
           sees(text, end, behind), end + Len(behind) = Len(text),
           NEW at, NEW numbers \in Seq(Numeral(16)), at[Len(numbers)] = end,
           \A i \in 1 .. Len(numbers) : numbers[i].val <= UINT16_MAX,
           NEW m \in Nat, Len(numbers) <= m,
           \/ numbers # <<>> /\ next_in(behind, 0, HexLetter)
           \/ numbers = <<>> /\ m > 0 /\ next_in(behind, 0, HexLetter)
           \/ numbers # <<>> /\ Len(numbers) < m
              /\ next_in(behind, 0, {":"}) /\ next_in(behind, 1, HexLetter)
    PROVE  Lettered(at, text, numbers, m)
<1> DEFINE n == Len(numbers)
<1>1. n \in Nat /\ (n = 0 <=> numbers = <<>>) /\ 0 \in Nat /\ 1 \in Nat /\ end + 0 = end
  OBVIOUS
<1>2. \A chars : next_in(text, end + 0, chars) <=> next_in(behind, 0, chars)
  BY Zenon, <1>1, SameBehind
<1>3. \A chars : next_in(text, end + 1, chars) <=> next_in(behind, 1, chars)
  BY Zenon, <1>1, SameBehind
<1>4. n = 0 /\ m > 0 => n < m
  OBVIOUS
<1>5. CASE n # 0 /\ next_in(behind, 0, HexLetter)
  BY Zenon, <1>1, <1>2, <1>5 DEF Lettered, LetterOn
<1>6. CASE n = 0 /\ m > 0 /\ next_in(behind, 0, HexLetter)
  BY Zenon, <1>1, <1>2, <1>4, <1>6 DEF Lettered, LetterFurther
<1>7. CASE n # 0 /\ n < m /\ next_in(behind, 0, {":"}) /\ next_in(behind, 1, HexLetter)
  BY Zenon, <1>1, <1>2, <1>3, <1>7 DEF Lettered, LetterFurther
<1> QED BY Zenon, <1>1, <1>5, <1>6, <1>7

\* The groups of an address are in range when the numbers on both sides of "::" are.
LEMMA GroupsInRange ==
    ASSUME NEW t \in IPv6Texts
    PROVE  (\A i \in 1 .. Len(GroupValues(t)) : GroupValues(t)[i] <= UINT16_MAX)
           <=> /\ \A i \in 1 .. Len(t.head) : t.head[i].val <= UINT16_MAX
               /\ \A i \in 1 .. Len(t.tail) : t.tail[i].val <= UINT16_MAX
<1> DEFINE head == t.head
           tail == t.tail
           all == GroupValues(t)
           max == UINT16_MAX
           n == Len(head)
           m == Len(tail)
           hv(i) == head[i].val
           tv(i) == tail[i].val
<1>1. head \in Seq(Numeral(16)) /\ tail \in Seq(Numeral(16)) /\ max \in Nat /\ t.skip \in BOOLEAN
      /\ (~t.skip => tail = <<>>)
  BY Zenon, MeaningAssumption, LimitsAssumption DEF IsIPv6
<1>2. CASE ~t.skip
  <2>1. Values(tail) = <<>> /\ m = 0
    BY <1>1, <1>2 DEF Values
  <2>2. Values(head) \in Seq(Nat) /\ Len(Values(head)) = n /\ \A i \in 1 .. n : Values(head)[i] = hv(i)
    BY Zenon, <1>1, ValuesAll
  <2>3. all = Values(head)
    <3> DEFINE v == Values(head)
    <3>1. all = v \o <<>> \o <<>>
      BY Zenon, <1>2, <2>1 DEF GroupValues
    <3> HIDE DEF v, all
    <3>2. v \o <<>> \o <<>> = v
      BY <2>2 DEF v
    <3> QED BY Zenon, <3>1, <3>2 DEF v
  <2>4. Len(all) = n /\ \A i \in 1 .. n : all[i] = hv(i)
    BY Zenon, <2>2, <2>3
  <2>5. \A i \in 1 .. m : FALSE
    BY <2>1
  <2> HIDE DEF all, max, n, m
  <2> QED BY Zenon, <2>4, <2>5 DEF n, m, all, max
<1>3. CASE t.skip
  <2>1. (IF t.skip THEN <<0>> ELSE <<>>) = <<0>>
    BY Zenon, <1>3
  <2>2. all = Values(head) \o <<0>> \o Values(tail)
    BY Zenon, <2>1 DEF GroupValues
  <2>3. /\ n \in Nat /\ m \in Nat /\ Len(all) = n + 1 + m
        /\ \A i \in 1 .. n : all[i] = hv(i)
        /\ all[n + 1] = 0
        /\ \A j \in 1 .. m : all[n + 1 + j] = tv(j)
    <3> DEFINE whole == Values(head) \o <<0>> \o Values(tail)
    <3>1. /\ n \in Nat /\ m \in Nat /\ Len(whole) = n + 1 + m
          /\ \A i \in 1 .. n : whole[i] = hv(i)
          /\ whole[n + 1] = 0
          /\ \A j \in 1 .. m : whole[n + 1 + j] = tv(j)
      BY Zenon, <1>1, SkipValues
    <3> HIDE DEF n, m, hv, tv
    <3> QED BY Zenon, <2>2, <3>1
  <2> DEFINE Both == (\A i \in 1 .. n : hv(i) <= max) /\ \A i \in 1 .. m : tv(i) <= max
  <2> HIDE DEF all, n, m, hv, tv, max
  <2>4. ASSUME \A i \in 1 .. Len(all) : all[i] <= max PROVE Both
    <3>1. \A i \in 1 .. n : i \in 1 .. Len(all)
      BY <2>3
    <3>2. \A i \in 1 .. m : n + 1 + i \in 1 .. Len(all)
      BY <2>3
    <3>3. ASSUME NEW i \in 1 .. n PROVE hv(i) <= max
      <4>1. all[i] = hv(i) /\ all[i] <= max
        BY Zenon, <2>3, <2>4, <3>1
      <4> QED BY Zenon, <4>1
    <3>4. ASSUME NEW i \in 1 .. m PROVE tv(i) <= max
      <4>1. all[n + 1 + i] = tv(i) /\ all[n + 1 + i] <= max
        BY Zenon, <2>3, <2>4, <3>2
      <4> QED BY Zenon, <4>1
    <3> QED BY Zenon, <3>3, <3>4
  <2>5. ASSUME Both, NEW i \in 1 .. Len(all) PROVE all[i] <= max
    <3>1. CASE i <= n
      <4>1. i \in 1 .. n
        BY <2>3, <3>1
      <4> QED BY Zenon, <2>3, <2>5, <4>1
    <3>2. CASE i = n + 1
      <4>1. 0 <= max
        BY <1>1 DEF max
      <4> QED BY Zenon, <2>3, <3>2, <4>1
    <3>3. CASE i > n + 1
      <4> DEFINE j == i - (n + 1)
      <4>1. j \in 1 .. m /\ n + 1 + j = i
        BY <2>3, <3>3
      <4> HIDE DEF j
      <4>2. all[n + 1 + j] = tv(j) /\ tv(j) <= max
        BY Zenon, <2>3, <2>5, <4>1
      <4> QED BY Zenon, <4>1, <4>2
    <3> QED BY <2>3, <3>1, <3>2, <3>3
  <2> QED BY Zenon, <2>4, <2>5 DEF n, m, hv, tv, all, max
<1> QED BY Zenon, <1>1, <1>2, <1>3

\* A hexadecimal letter where a group is wanted fails the assertion.
LEMMA LetterAborts ==
    ASSUME NEW t \in IPv6Texts, LetterWanted(t)
    PROVE  parse_ipv6(IPv6Text(t), 0) = Abort
<1> DEFINE text == IPv6Text(t)
           head == t.head
           tail == t.tail
           behind == t.behind
           n == Len(head)
           r == parse_ipv6(text, 0)
           last == IF t.skip THEN tail ELSE head
           room == IF t.skip THEN 7 - n ELSE 8
           Met(numbers, m) ==
              /\ Len(numbers) <= m
              /\ \/ numbers # <<>> /\ next_in(behind, 0, HexLetter)
                 \/ numbers = <<>> /\ m > 0 /\ next_in(behind, 0, HexLetter)
                 \/ numbers # <<>> /\ Len(numbers) < m
                    /\ next_in(behind, 0, {":"}) /\ next_in(behind, 1, HexLetter)
<1>1. /\ head \in Seq(Numeral(16)) /\ tail \in Seq(Numeral(16)) /\ behind \in Seq(Char)
      /\ n \in Nat /\ Len(tail) \in Nat /\ t.skip \in BOOLEAN
  <2>1. /\ head \in Seq(Numeral(16)) /\ tail \in Seq(Numeral(16)) /\ behind \in Seq(Char)
        /\ t.skip \in BOOLEAN
    BY Zenon, MeaningAssumption DEF IsIPv6
  <2> HIDE DEF head, tail
  <2> QED BY <2>1
<1>2. /\ \A i \in 1 .. n : head[i].val <= UINT16_MAX
      /\ \A i \in 1 .. Len(tail) : tail[i].val <= UINT16_MAX
  BY Zenon, GroupsInRange DEF LetterWanted
<1>3. Met(last, room)
  BY Zenon DEF LetterWanted
<1>4. Abort.res # "true"
  BY DEF Abort
<1>5. r = IF groups16(text, 0, 8, TRUE).res = "true"
          THEN IF Len(groups16(text, 0, 8, TRUE).val) = 8 THEN groups16(text, 0, 8, TRUE)
               ELSE LET h == groups16(text, 0, 8, TRUE)
                        tl == groups16(text, h.off + 2, 7 - Len(h.val), FALSE)
                    IN  IF tl.res = "true" THEN Read(tl.off, Filled(h.val, tl.val)) ELSE tl
          ELSE groups16(text, 0, 8, TRUE)
  BY Zenon, IPv6Unfolds
<1>6. CASE ~t.skip
  <2>1. Met(head, 8)
    BY Zenon, <1>3, <1>6
  <2> DEFINE end == Len(Joined(head, ":"))
  <2>2. /\ text \in Seq(Char) /\ end \in Nat /\ end + Len(behind) = Len(text)
        /\ sees(text, end, behind)
        /\ \E at : Written(at, text, 0, head, 16, ":")
    BY Zenon, <1>6, PlainLaid
  <2>3. PICK at : Written(at, text, 0, head, 16, ":")
    BY Zenon, <2>2
  <2>4. at[n] = end
    <3>1. at[n] = 0 + end
      BY Zenon, <2>3 DEF Written, Places
    <3> QED BY <2>2, <3>1
  <2> HIDE DEF text, head, behind, end, r
  <2>5. Lettered(at, text, head, 8)
    <3>1. 8 \in Nat /\ Len(head) <= 8
      BY Zenon, <2>1
    <3> QED BY Zenon, <1>1, <1>2, <2>1, <2>2, <2>4, <3>1, LetterMet DEF n
  <2>6. groups16(text, 0, 8, TRUE) = Abort
    <3>1. 8 \in Nat /\ TRUE \in BOOLEAN
      OBVIOUS
    <3> QED BY Zenon, <2>3, <2>5, <3>1, LetteredGroups16
  <2>7. r = Abort
    BY Zenon, <1>4, <1>5, <2>6
  <2> QED BY Zenon, <2>7 DEF r, text
<1>7. CASE t.skip
  <2> DEFINE mid == Len(Joined(head, ":"))
             end == mid + 2 + Len(Joined(tail, ":"))
             h == groups16(text, 0, 8, TRUE)
             g == groups16(text, mid + 2, 7 - n, FALSE)
  <2>1. Met(tail, 7 - n)
    BY Zenon, <1>3, <1>7
  <2>2. n <= 7 /\ 7 - n \in Nat /\ ~(n = 8)
    <3>1. Len(tail) <= 7 - n
      BY Zenon, <2>1
    <3> HIDE DEF n, tail
    <3> QED BY <1>1, <3>1
  <2>3. /\ text \in Seq(Char) /\ mid \in Nat
        /\ end + Len(behind) = Len(text) /\ end \in Nat /\ sees(text, end, behind)
        /\ \E at : Written(at, text, mid + 2, tail, 16, ":")
    BY Zenon, <1>7, SkipLaid
  <2>4. \E at : /\ at[n] = mid /\ ~next_in(text, at[n], HexLetter)
                /\ n <= 7 => GroupsAre(h, at, text, head, 16, UINT16_MAX, n)
    BY Zenon, <1>7, SkipRead
  <2>5. PICK at : /\ at[n] = mid /\ ~next_in(text, at[n], HexLetter)
                  /\ n <= 7 => GroupsAre(h, at, text, head, 16, UINT16_MAX, n)
    BY Zenon, <2>4
  <2>6. PICK at2 : Written(at2, text, mid + 2, tail, 16, ":")
    BY Zenon, <2>3
  <2>7. at2[Len(tail)] = end
    BY Zenon, <2>6 DEF Written, Places
  <2>8. Len(ValuesTo(head, n)) = n
    <3>1. n \in 0 .. n
      BY <1>1
    <3> QED BY Zenon, <1>1, <3>1, ValuesAll
  <2>9. Clean(at, text, head, 16, UINT16_MAX, n)
    <3>1. n \in 0 .. Len(head)
      BY <1>1
    <3> QED BY Zenon, <1>2, <2>5, <3>1 DEF Clean
  <2> HIDE DEF text, head, tail, behind, mid, end, h, g, n, r
  <2>10. h = Read(mid, ValuesTo(head, n))
    BY Zenon, <2>2, <2>5, <2>9 DEF GroupsAre
  <2>11. h.res = "true" /\ h.off = mid /\ h.val = ValuesTo(head, n)
    BY <2>10 DEF Read
  <2>12. Lettered(at2, text, tail, 7 - n)
    <3>1. Len(tail) <= 7 - n
      BY Zenon, <2>1
    <3> QED BY Zenon, <1>1, <1>2, <2>1, <2>2, <2>3, <2>7, <3>1, LetterMet
  <2>13. g = Abort
    <3>1. FALSE \in BOOLEAN
      OBVIOUS
    <3> QED BY Zenon, <2>2, <2>6, <2>12, <3>1, LetteredGroups16 DEF g
  <2>14. r = Abort
    <3>1. ~(Len(h.val) = 8)
      BY Zenon, <2>2, <2>8, <2>11
    <3>2. groups16(text, h.off + 2, 7 - Len(h.val), FALSE) = Abort
      BY Zenon, <2>8, <2>11, <2>13 DEF g
    <3> QED BY Zenon, <1>4, <1>5, <2>11, <3>1, <3>2 DEF h
  <2> QED BY Zenon, <2>14 DEF r, text
<1> QED BY Zenon, <1>1, <1>6, <1>7

-----------------------------------------------------------------------------
(* The calls.                                                               *)

IPv4Called == \E t \in IPv4Texts : arg = Call("IPv4", t) /\ ret = parse_ipv4(IPv4Text(t), 0)

IPv6Called == \E t \in IPv6Texts : arg = Call("IPv6", t) /\ ret = parse_ipv6(IPv6Text(t), 0)

\* The Request of a head that has arrived, or of a part of it.
Parsed(t) ==
    /\ \E head \in RequestTexts : t \in Arrivals(head)
    /\ req = parse_request(RequestText(t)).val

RequestCalled ==
    \E t : /\ arg = Call("Request", t) /\ Parsed(t)
           /\ ret.res = parse_request(RequestText(t)).res
           /\ ret = [res |-> ret.res, off |-> parse_request(RequestText(t)).off]

LengthCalled ==
    \E t : /\ arg = Call("content_length", t) /\ Parsed(t)
           /\ ret.val = content_length(RequestText(t), req)

\* The inductive invariant: the result is that of the call.
Called == arg = NoCall \/ IPv4Called \/ IPv6Called \/ RequestCalled \/ LengthCalled

LEMMA CalledFunction ==
    ASSUME Called
    PROVE  /\ arg.fn = "IPv4" => IPv4Called
           /\ arg.fn = "IPv6" => IPv6Called
           /\ arg.fn = "Request" => RequestCalled
           /\ arg.fn = "content_length" => LengthCalled
<1>1. NoCall.fn = "none"
  BY DEF NoCall
<1>2. /\ IPv4Called => arg.fn = "IPv4"
      /\ IPv6Called => arg.fn = "IPv6"
      /\ RequestCalled => arg.fn = "Request"
      /\ LengthCalled => arg.fn = "content_length"
  BY Zenon, CallFields DEF IPv4Called, IPv6Called, RequestCalled, LengthCalled
<1> DEFINE fn == arg.fn
<1>3. \/ fn = "none"
      \/ fn = "IPv4" /\ IPv4Called
      \/ fn = "IPv6" /\ IPv6Called
      \/ fn = "Request" /\ RequestCalled
      \/ fn = "content_length" /\ LengthCalled
  BY Zenon, <1>1, <1>2 DEF Called
<1> HIDE DEF fn
<1> QED BY <1>3 DEF fn

LEMMA RequestIsCalled == Request_parse => RequestCalled'
<1> SUFFICES ASSUME Request_parse PROVE RequestCalled'
  OBVIOUS
<1>1. PICK head \in RequestTexts : \E t \in Arrivals(head) :
         LET result == parse_request(RequestText(t)) IN
         /\ arg' = [fn |-> "Request", means |-> t]
         /\ ret' = [res |-> result.res, off |-> result.off]
         /\ req' = result.val
  BY Zenon DEF Request_parse
<1>2. PICK t \in Arrivals(head) :
         LET result == parse_request(RequestText(t)) IN
         /\ arg' = [fn |-> "Request", means |-> t]
         /\ ret' = [res |-> result.res, off |-> result.off]
         /\ req' = result.val
  BY Zenon, <1>1
<1> DEFINE result == parse_request(RequestText(t))
<1>3. arg' = Call("Request", t) /\ ret' = [res |-> result.res, off |-> result.off] /\ req' = result.val
  BY Zenon, <1>2 DEF Call
<1>4. Parsed(t)'
  BY Zenon, <1>3 DEF Parsed
<1> HIDE DEF result
<1>5. ret'.res = result.res
  BY Zenon, <1>3
<1>6. ret' = [res |-> ret'.res, off |-> result.off]
  BY Zenon, <1>3, <1>5
<1> QED BY Zenon, <1>3, <1>4, <1>5, <1>6 DEF RequestCalled, result

LEMMA LengthIsCalled == Called /\ Request_content_length => LengthCalled'
<1> SUFFICES ASSUME Called, Request_content_length PROVE LengthCalled'
  OBVIOUS
<1>1. arg.fn = "Request" /\ arg' = [arg EXCEPT !.fn = "content_length"]
      /\ ret' = Read(0, content_length(RequestText(arg.means), req)) /\ req' = req
  BY Zenon DEF Request_content_length
<1>2. RequestCalled
  BY Zenon, <1>1, CalledFunction
<1>3. PICK t : arg = Call("Request", t) /\ Parsed(t)
  BY Zenon, <1>2 DEF RequestCalled
<1>4. arg.means = t /\ arg' = Call("content_length", t)
  BY <1>1, <1>3 DEF Call
<1>5. Parsed(t)'
  BY Zenon, <1>1, <1>3 DEF Parsed
<1>6. ret'.val = content_length(RequestText(t), req')
  BY Zenon, <1>1, <1>4 DEF Read
<1> QED BY Zenon, <1>4, <1>5, <1>6 DEF LengthCalled

LEMMA AlwaysCalled == Spec => []Called
<1>1. Init => Called
  BY Zenon DEF Init, Called
<1>2. Called /\ [Next]_vars => Called'
  <2> SUFFICES ASSUME Called, [Next]_vars PROVE Called'
    OBVIOUS
  <2>1. CASE IPv4_parse
    <3>1. IPv4Called'
      BY Zenon, <2>1 DEF IPv4_parse, IPv4Called, Call
    <3> QED BY Zenon, <3>1 DEF Called
  <2>2. CASE IPv6_parse
    <3>1. IPv6Called'
      BY Zenon, <2>2 DEF IPv6_parse, IPv6Called, Call
    <3> QED BY Zenon, <3>1 DEF Called
  <2>3. CASE Request_parse
    BY Zenon, <2>3, RequestIsCalled DEF Called
  <2>4. CASE Request_content_length
    BY Zenon, <2>4, LengthIsCalled DEF Called
  <2>5. CASE Return
    BY Zenon, <2>5 DEF Return, Called
  <2>6. CASE UNCHANGED vars
    <3>1. arg' = arg /\ ret' = ret /\ req' = req
      BY <2>6 DEF vars
    <3> QED BY Zenon, <3>1 DEF Called, IPv4Called, IPv6Called, RequestCalled, LengthCalled, Parsed
  <2> QED BY Zenon, <2>1, <2>2, <2>3, <2>4, <2>5, <2>6 DEF Next
<1> QED BY <1>1, <1>2, PTL DEF Spec

\* IPv4::parse() reads an address in dotted decimal whole and gives its numbers, and
\* gives the first four numbers of whatever it accepts, unless it cut one short.
THEOREM IPv4AsWritten == Spec => []IPv4Read
<1>1. Called => IPv4Read
  <2> DEFINE t == arg.means
             all == Values(t.octets)
             text == IPv4Text(t)
  <2> SUFFICES ASSUME Called, arg.fn = "IPv4"
               PROVE  /\ IsDottedDecimal(t) => ret = Read(Len(text), all)
                      /\ ret.res = "true" /\ ~next_in(text, ret.off, Digit) =>
                            /\ Len(all) >= 4 /\ \A i \in 1 .. 4 : all[i] <= UINT8_MAX
                            /\ ret.val = SubSeq(all, 1, 4)
    BY Zenon DEF IPv4Read, CutShort
  <2>1. PICK u \in IPv4Texts : arg = Call("IPv4", u) /\ ret = parse_ipv4(IPv4Text(u), 0)
    BY Zenon, CalledFunction DEF IPv4Called
  <2>2. t = u
    BY Zenon, <2>1, CallFields
  <2>3. AddressIs(ret, text, t.behind, all, 4, UINT8_MAX, Digit)
    BY Zenon, <2>1, <2>2, IPv4Is
  <2>4. t.octets \in Seq(Numeral(10))
    BY Zenon, <2>2, MeaningAssumption DEF IsIPv4
  <2>5. Len(all) = Len(t.octets) /\ \A i \in 1 .. Len(t.octets) : all[i] = t.octets[i].val
    BY Zenon, <2>4, ValuesAll
  <2>6. text \in Seq(Char)
    BY Zenon, <2>2, TextsAssumption
  <2> HIDE DEF t, all, text
  <2>7. ASSUME IsDottedDecimal(t) PROVE ret = Read(Len(text), all)
    <3>1. Len(all) = 4 /\ t.behind = <<>> /\ \A i \in 1 .. 4 : all[i] <= UINT8_MAX
      BY Zenon, <2>5, <2>7 DEF IsDottedDecimal
    <3>2. Len(all) >= 4
      BY <3>1
    <3>3. ~next_in(t.behind, 0, Digit) /\ Len(t.behind) = 0
      BY <3>1 DEF next_in
    <3>4. ret = Read(Len(text) - Len(t.behind), all)
      BY Zenon, <2>3, <3>1, <3>2, <3>3 DEF AddressIs
    <3>5. Len(text) - Len(t.behind) = Len(text)
      BY <2>6, <3>3
    <3> QED BY Zenon, <3>4, <3>5
  <2>8. ret.res = "true" /\ ~next_in(text, ret.off, Digit) =>
            /\ Len(all) >= 4 /\ \A i \in 1 .. 4 : all[i] <= UINT8_MAX
            /\ ret.val = SubSeq(all, 1, 4)
    BY Zenon, <2>3 DEF AddressIs
  <2> QED BY Zenon, <2>7, <2>8
<1> QED BY AlwaysCalled, <1>1, PTL

\* IPv6::parse() reads eight short groups whole, or seven with "::" anywhere, gives
\* the values of whatever it accepts, unless it cut one short, and fails its
\* assertion at a hexadecimal letter where a group is wanted.
THEOREM IPv6AsWritten == Spec => []IPv6Read
<1>1. Called => IPv6Read
  <2> DEFINE t == arg.means
             all == GroupValues(t)
             text == IPv6Text(t)
  <2> SUFFICES ASSUME Called, arg.fn = "IPv6"
               PROVE  /\ Len(all) = 8 /\ IsShort(t.head) /\ IsShort(t.tail) /\ t.behind = <<>>
                           => ret = Read(Len(text), all)
                      /\ ret.res = "true" /\ ~next_in(text, ret.off, Digit) =>
                            /\ Len(all) >= 8 /\ \A i \in 1 .. 8 : all[i] <= UINT16_MAX
                            /\ ret.val = SubSeq(all, 1, 8)
                      /\ LetterWanted(t) => ret = Abort
    BY Zenon DEF IPv6Read, CutShort
  <2>1. PICK u \in IPv6Texts : arg = Call("IPv6", u) /\ ret = parse_ipv6(IPv6Text(u), 0)
    BY Zenon, CalledFunction DEF IPv6Called
  <2>2. t = u
    BY Zenon, <2>1, CallFields
  <2>3. IPv6Is(u)
    BY Zenon, IPv6Plain, IPv6Skips
  <2>4. AddressIs(ret, text, t.behind, all, 8, UINT16_MAX, Digit \cup HexLetter)
    BY Zenon, <2>1, <2>2, <2>3 DEF IPv6Is, GroupValues
  <2>5. t \in IPv6Texts /\ ret = parse_ipv6(text, 0)
    BY Zenon, <2>1, <2>2
  <2>6. text \in Seq(Char)
    BY Zenon, <2>5, TextsAssumption
  <2>7. (\A i \in 1 .. Len(t.head) : t.head[i].val <= UINT16_MAX)
        /\ (\A i \in 1 .. Len(t.tail) : t.tail[i].val <= UINT16_MAX)
        => \A i \in 1 .. Len(all) : all[i] <= UINT16_MAX
    BY Zenon, <2>5, GroupsInRange
  <2>8. LetterWanted(t) => ret = Abort
    BY Zenon, <2>5, LetterAborts
  <2> HIDE DEF t, all, text
  <2>9. ASSUME Len(all) = 8, IsShort(t.head), IsShort(t.tail), t.behind = <<>>
        PROVE  ret = Read(Len(text), all)
    <3>1. \A i \in 1 .. 8 : all[i] <= UINT16_MAX
      BY Zenon, <2>7, <2>9 DEF IsShort
    <3>2. Len(all) >= 8
      BY <2>9
    <3>3. ~next_in(t.behind, 0, Digit \cup HexLetter) /\ Len(t.behind) = 0
      BY <2>9 DEF next_in
    <3>4. ret = Read(Len(text) - Len(t.behind), all)
      BY Zenon, <2>4, <2>9, <3>1, <3>2, <3>3 DEF AddressIs
    <3>5. Len(text) - Len(t.behind) = Len(text)
      BY <2>6, <3>3
    <3> QED BY Zenon, <3>4, <3>5
  <2>10. ret.res = "true" /\ ~next_in(text, ret.off, Digit) =>
            /\ Len(all) >= 8 /\ \A i \in 1 .. 8 : all[i] <= UINT16_MAX
            /\ ret.val = SubSeq(all, 1, 8)
    BY Zenon, <2>4 DEF AddressIs
  <2> QED BY Zenon, <2>8, <2>9, <2>10
<1> QED BY AlwaysCalled, <1>1, PTL

-----------------------------------------------------------------------------
(* The text that is parsed is the head that was written.                    *)

\* slice_until() ends the slice behind the first token.
LEMMA SliceAtFirst ==
    ASSUME NEW data \in Seq(Char), NEW behind, NEW first \in Hits(data),
           \A i \in Hits(data) : first <= i
    PROVE  BU!slice_until(data, behind, Needle) = SubSeq(data \o behind, 1, first + 4)
<1> DEFINE lim == Len(data) - Len(Needle) + 1
           hits == {i \in 0 .. lim - 1 : SubSeq(data, i + 1, i + Len(Needle)) = Needle}
           end == BU!seek(data, Needle)
           least == CHOOSE i \in hits : \A j \in hits : i <= j
<1>1. end = IF hits # {} THEN least ELSE IF lim < 0 THEN -1 ELSE lim
  BY DEF BU!seek
<1>2. Len(data) \in Nat /\ hits = Hits(data) /\ Len(Needle) = 4
  <2>1. Len(data) \in Nat /\ Len(Needle) = 4
    BY NeedleIs
  <2>2. lim - 1 = Len(data) - 4
    BY <2>1
  <2> HIDE DEF lim
  <2> QED BY <2>1, <2>2 DEF Hits
<1>3. BU!slice_until(data, behind, Needle) =
        IF end < 0 THEN <<>> ELSE SubSeq(data \o behind, 1, end + Len(Needle))
  BY DEF BU!slice_until
<1> HIDE DEF end, lim, hits
<1>4. hits \subseteq Nat
  BY <1>2 DEF Hits
<1>5. least \in hits /\ \A j \in hits : least <= j
  <2>1. first \in hits /\ \A j \in hits : first <= j
    BY <1>2
  <2> QED BY Zenon, <2>1
<1> HIDE DEF least
<1>6. least = first
  <2>1. least <= first /\ first <= least /\ least \in Nat /\ first \in Nat
    BY <1>2, <1>4, <1>5
  <2> QED BY <2>1
<1>7. end = first /\ ~ (end < 0)
  BY <1>1, <1>2, <1>4, <1>5, <1>6
<1> QED BY Zenon, <1>2, <1>3, <1>7

\* A whole head is told apart from what follows it.
LEMMA WholeText ==
    ASSUME NEW head \in RequestTexts, NEW t \in Arrivals(head), t.lacks = 0
    PROVE  RequestText(t) = HeadText(head)
<1> DEFINE H == HeadText(head)
           data == Data(t)
<1>1. /\ H \in Seq(Char) /\ Len(H) >= 4 /\ SubSeq(H, Len(H) - 3, Len(H)) = Needle
      /\ \A i \in 1 .. Len(H) - 4 : ~ (H[i] = "CR" /\ H[i + 1] = "LF" /\ H[i + 2] = "CR")
  BY HeadsEnd
<1>2. t.of = head /\ t.more \in {<<>>, H} /\ t.behind = <<>>
  <2>1. \/ t \in [of: {head}, lacks: {0}, more: {<<>>, H}, behind: {<<>>}]
        \/ t \in [of: {head}, lacks: 1 .. Len(H), more: {<<>>}, behind: {<<c>> : c \in Junk}]
    BY Zenon DEF Arrivals
  <2>2. t \notin [of: {head}, lacks: 1 .. Len(H), more: {<<>>}, behind: {<<c>> : c \in Junk}]
    <3> HIDE DEF H
    <3> QED OBVIOUS
  <2> HIDE DEF H
  <2> QED BY <2>1, <2>2
<1>3. data = SubSeq(H, 1, Len(H) - 0) \o t.more
  BY <1>2 DEF Data
<1> HIDE DEF H, data
<1>4. SubSeq(H, 1, Len(H) - 0) = H
  BY <1>1
<1>5. t.more \in Seq(Char)
  <2>1. <<>> \in Seq(Char)
    OBVIOUS
  <2>2. t.more = <<>> \/ t.more = H
    BY Zenon, <1>2
  <2> QED BY Zenon, <1>1, <2>1, <2>2
<1>6. data = H \o t.more /\ data \in Seq(Char) /\ Len(data) = Len(H) + Len(t.more)
      /\ \A i \in 1 .. Len(H) : data[i] = H[i]
  <2>1. data = H \o t.more
    BY Zenon, <1>3, <1>4
  <2> QED BY <1>1, <1>5, <2>1
<1> DEFINE n == Len(H)
           m == Len(data)
<1>7. n \in Nat /\ n >= 4 /\ m \in Nat /\ m >= n /\ \A i \in 1 .. n : data[i] = H[i]
  BY <1>1, <1>5, <1>6
<1>8. n - 4 \in Hits(data)
  <2>1. n - 4 \in 0 .. m - 4 /\ (n - 4) + 1 = n - 3 /\ (n - 4) + 4 = n
    BY <1>7
  <2>2. SubSeq(data, n - 3, n) = SubSeq(H, n - 3, n)
    BY <1>1, <1>6, <1>7
  <2> QED BY Zenon, <1>1, <2>1, <2>2 DEF Hits
<1>9. ASSUME NEW i \in Hits(data), ~ (n - 4 <= i) PROVE FALSE
  <2>1. i \in 0 .. m - 4 /\ SubSeq(data, i + 1, i + 4) = Needle
    BY DEF Hits
  <2>2. /\ SubSeq(data, i + 1, i + 4)[1] = data[i + 1]
        /\ SubSeq(data, i + 1, i + 4)[2] = data[i + 2]
        /\ SubSeq(data, i + 1, i + 4)[3] = data[i + 3]
    BY <1>6, <1>7, <2>1
  <2>3. data[i + 1] = "CR" /\ data[i + 2] = "LF" /\ data[i + 3] = "CR"
    BY Zenon, <2>1, <2>2, NeedleIs
  <2>4. i + 1 \in 1 .. n - 4 /\ i + 1 \in 1 .. n /\ i + 2 \in 1 .. n /\ i + 3 \in 1 .. n
        /\ (i + 1) + 1 = i + 2 /\ (i + 1) + 2 = i + 3
    BY <1>7, <1>9, <2>1
  <2>5. H[i + 1] = "CR" /\ H[i + 2] = "LF" /\ H[i + 3] = "CR"
    BY Zenon, <1>7, <2>3, <2>4
  <2> QED BY Zenon, <1>1, <2>4, <2>5
<1>10. BU!slice_until(data, <<>>, Needle) = SubSeq(data \o <<>>, 1, (n - 4) + 4)
  <2> DEFINE first == n - 4
  <2>1. first \in Hits(data) /\ \A i \in Hits(data) : first <= i
    BY <1>8, <1>9
  <2> HIDE DEF first
  <2>2. BU!slice_until(data, <<>>, Needle) = SubSeq(data \o <<>>, 1, first + 4)
    BY <1>6, <2>1, SliceAtFirst
  <2> QED BY <2>2 DEF first
<1>11. SubSeq(data \o <<>>, 1, (n - 4) + 4) = H
  <2>1. data \o <<>> = data /\ (n - 4) + 4 = n
    BY <1>6, <1>7
  <2>2. SubSeq(data, 1, n) = H
    BY <1>1, <1>6, <1>7
  <2> QED BY Zenon, <2>1, <2>2
<1> QED BY Zenon, <1>2, <1>10, <1>11 DEF RequestText, Needle, data, H

\* So is one whose last byte lies behind the data.
LEMMA AlmostWholeText ==
    ASSUME NEW head \in RequestTexts, NEW t \in Arrivals(head), t.lacks = 1, t.behind = <<"LF">>
    PROVE  RequestText(t) = HeadText(head)
<1> DEFINE H == HeadText(head)
           data == Data(t)
           n == Len(H)
           m == n - 1
           end == <<"LF">>
           both == data \o end
<1>1. /\ H \in Seq(Char) /\ n >= 4 /\ SubSeq(H, n - 3, n) = Needle
      /\ \A i \in 1 .. n - 4 : ~ (H[i] = "CR" /\ H[i + 1] = "LF" /\ H[i + 2] = "CR")
  BY HeadsEnd
<1>2. t.of = head /\ t.more = <<>>
  <2>1. \/ t \in [of: {head}, lacks: {0}, more: {<<>>, H}, behind: {<<>>}]
        \/ t \in [of: {head}, lacks: 1 .. n, more: {<<>>}, behind: {<<c>> : c \in Junk}]
    BY Zenon DEF Arrivals
  <2> HIDE DEF H, n
  <2> QED BY <2>1
<1>3. data = SubSeq(H, 1, n - 1) \o <<>>
  BY <1>2 DEF Data
<1>4. "LF" \in Char
  BY Zenon DEF Char, Space
<1> HIDE DEF H, data
<1>5. n \in Nat /\ m \in Nat /\ m >= 3 /\ m + 1 = n
  BY <1>1
<1> HIDE DEF n
<1>6. data \in Seq(Char) /\ Len(data) = m /\ \A i \in 1 .. m : data[i] = H[i]
  <2> DEFINE S == SubSeq(H, 1, n - 1)
  <2>1. S \in Seq(Char) /\ Len(S) = m /\ \A i \in 1 .. m : S[i] = H[i]
    BY <1>1, <1>5 DEF n
  <2>2. data = S \o <<>>
    BY <1>3
  <2> HIDE DEF S
  <2>3. data = S
    BY <2>1, <2>2
  <2> QED BY <2>1, <2>3
<1> HIDE DEF m
<1>7. Hits(data) = {}
  <2> SUFFICES ASSUME NEW i \in Hits(data) PROVE FALSE
    OBVIOUS
  <2>1. i \in 0 .. m - 4 /\ SubSeq(data, i + 1, i + 4) = Needle
    BY <1>6 DEF Hits
  <2>2. /\ SubSeq(data, i + 1, i + 4)[1] = data[i + 1]
        /\ SubSeq(data, i + 1, i + 4)[2] = data[i + 2]
        /\ SubSeq(data, i + 1, i + 4)[3] = data[i + 3]
    BY <1>5, <1>6, <2>1
  <2>3. data[i + 1] = "CR" /\ data[i + 2] = "LF" /\ data[i + 3] = "CR"
    BY Zenon, <2>1, <2>2, NeedleIs
  <2>4. i + 1 \in 1 .. m /\ i + 2 \in 1 .. m /\ i + 3 \in 1 .. m /\ i + 1 \in 1 .. n - 4
        /\ (i + 1) + 1 = i + 2 /\ (i + 1) + 2 = i + 3
    BY <1>5, <2>1
  <2>5. H[i + 1] = "CR" /\ H[i + 2] = "LF" /\ H[i + 3] = "CR"
    BY Zenon, <1>6, <2>3, <2>4
  <2> QED BY Zenon, <1>1, <2>4, <2>5
<1>8. end \in Seq(Char) /\ Len(end) = 1 /\ end[1] = "LF"
  BY <1>4
<1> HIDE DEF end
<1>9. BU!slice_until(data, end, Needle) = SubSeq(both, 1, m + 1)
  <2>1. BU!slice_until(data, end, Needle) =
          IF Len(data) < 3 THEN <<>> ELSE SubSeq(both, 1, Len(data) + 1)
    BY Zenon, <1>6, <1>7, <1>8, SliceUntil
  <2>2. ~ (m < 3)
    BY <1>5
  <2> QED BY Zenon, <1>6, <2>1, <2>2
<1>10. both \in Seq(Char) /\ Len(both) = n /\ both[n] = "LF" /\ \A i \in 1 .. m : both[i] = data[i]
  <2>1. /\ both \in Seq(Char) /\ Len(both) = Len(data) + Len(end)
        /\ \A i \in 1 .. Len(data) + Len(end) :
              both[i] = IF i <= Len(data) THEN data[i] ELSE end[i - Len(data)]
    BY <1>6, <1>8, ConcatProperties
  <2>2. /\ both \in Seq(Char) /\ Len(both) = m + 1
        /\ \A i \in 1 .. m + 1 : both[i] = IF i <= m THEN data[i] ELSE end[i - m]
    BY Zenon, <1>6, <1>8, <2>1
  <2> HIDE DEF both
  <2> QED BY <1>5, <1>8, <2>2
<1>11. H[n] = "LF"
  <2>1. SubSeq(H, n - 3, n)[4] = H[n]
    BY <1>1, <1>5 DEF n
  <2> QED BY Zenon, <1>1, <2>1, NeedleIs
<1> HIDE DEF both
<1>12. SubSeq(both, 1, m + 1) = both
  BY <1>5, <1>10
<1>13. both = H
  <2>1. \A i \in 1 .. n : i \in 1 .. m \/ i = n
    BY <1>5
  <2>2. \A i \in 1 .. n : both[i] = H[i]
    BY Zenon, <1>6, <1>10, <1>11, <2>1
  <2>3. Len(both) = Len(H)
    BY Zenon, <1>10 DEF n
  <2> QED BY <1>1, <1>10, <2>2, <2>3, SeqEqual DEF n
<1>14. RequestText(t) = BU!slice_until(data, end, Needle)
  BY Zenon DEF RequestText, Needle, data, end
<1> QED BY Zenon, <1>9, <1>12, <1>13, <1>14 DEF H

-----------------------------------------------------------------------------
(* The blank.  It is hidden behind a name, and so are the characters of URLs. *)

Gap == " "
UrlChar == Pchar \cup Other

LEMMA NotDigit ==
    ASSUME NEW c, c \notin {"0", "1", "2", "3", "4", "5", "6", "7", "8", "9"}
    PROVE  c \notin Digit
BY SMT DEF Digit, DigitChars

LEMMA GapApart ==
    Gap \in Char /\ Gap \notin UrlChar /\ Gap \notin Upper /\ Gap # ":" /\ Gap # "CR"
<1>1. Gap \in Char /\ Gap # ":" /\ Gap # "CR"
  BY Zenon DEF Char, Space, Gap
<1>2. Gap \notin Alpha /\ Gap \notin Upper
  BY Zenon, LettersAssumption DEF Space, Gap, Alpha
<1>3. Gap \notin {"0", "1", "2", "3", "4", "5", "6", "7", "8", "9"}
  BY Zenon DEF Gap
<1>4. Gap \notin Digit
  BY Zenon, <1>3, NotDigit
<1>5. Gap \notin Subdelim /\ Gap \notin Other /\ Gap \notin {"-", ".", "_", "~"} /\ Gap \notin {":", "@"}
  BY Zenon DEF Subdelim, Other, Gap
<1> QED BY Zenon, <1>1, <1>2, <1>4, <1>5 DEF UrlChar, Pchar, Unreserved

\* The classes of characters a URL is read from.
LEMMA UrlClasses ==
    /\ Upper \cup Digit \cup {"+", "-", "."} \subseteq UrlChar
    /\ Unreserved \cup Subdelim \cup {":"} \subseteq UrlChar
    /\ Unreserved \cup Subdelim \subseteq UrlChar /\ Digit \subseteq UrlChar
    /\ Pchar \subseteq UrlChar /\ Pchar \cup {"/"} \subseteq UrlChar /\ Pchar \cup {"/", "?"} \subseteq UrlChar
    /\ UrlChar \subseteq Char
BY Zenon DEF UrlChar, Pchar, Unreserved, Subdelim, Other, Alpha, Char

-----------------------------------------------------------------------------
(* Header lines.                                                            *)

LEMMA Joins ==
    ASSUME NEW s \in Seq(Char), NEW t \in Seq(Char)
    PROVE  s \o t \in Seq(Char) /\ Len(s \o t) = Len(s) + Len(t)
OBVIOUS

LineText(line) == line.name \o <<":">> \o line.value.text \o CRLF

LineTexts(lines) == SX!FlattenSeq([i \in 1 .. Len(lines) |->
                                      lines[i].name \o <<":">> \o lines[i].value.text \o CRLF])

\* A header that was read says what its line says.
Denotes(text, header, line) ==
    Denoted(text, header.name) = line.name /\ Denoted(text, header.value) = line.value.text

LEMMA LineParts ==
    ASSUME NEW line \in HeaderLine
    PROVE  /\ line.name \in Seq(Char) /\ line.name \in Seq(Char \ {":"})
           /\ line.value.text \in Seq(Char) /\ line.value.text \in Seq(Char \ {"CR"})
           /\ <<":">> \in Seq(Char) /\ CRLF \in Seq(Char)
           /\ Len(CRLF) = 2 /\ CRLF # <<>> /\ CRLF[1] = "CR"
           /\ LineText(line) \in Seq(Char)
           /\ line.name # <<>> => line.name[1] # "CR"
<1>1. line.name \in Seq(Char \ {":", "CR"}) /\ line.value.text \in Seq(Char \ {"CR"})
  <2>1. line \in [name: Seq(Char \ {":", "CR"}), value: [text: Seq(Char \ {"CR"}), val: Int]]
    BY DEF HeaderLine
  <2>2. line.value \in [text: Seq(Char \ {"CR"}), val: Int]
    BY <2>1
  <2> QED BY <2>1, <2>2
<1> DEFINE name == line.name
           value == line.value.text
<1> HIDE DEF name, value
<1>2. \A i \in 1 .. Len(name) : name[i] \in Char \ {":", "CR"}
  BY <1>1 DEF name
<1>3. \A i \in 1 .. Len(value) : value[i] \in Char \ {"CR"}
  BY <1>1 DEF value
<1>4. name \in Seq(Char) /\ name \in Seq(Char \ {":"})
  BY <1>1, <1>2 DEF name
<1>5. value \in Seq(Char) /\ value \in Seq(Char \ {"CR"})
  BY <1>1, <1>3 DEF value
<1>6. name # <<>> => name[1] # "CR"
  <2>1. name # <<>> => 1 \in 1 .. Len(name)
    BY <1>4
  <2> QED BY <1>2, <2>1
<1>7. ":" \in Char /\ "CR" \in Char /\ "LF" \in Char
  BY Zenon DEF Char, Pchar, Space
<1>8. <<":">> \in Seq(Char) /\ CRLF \in Seq(Char)
      /\ Len(CRLF) = 2 /\ CRLF # <<>> /\ CRLF[1] = "CR"
  BY <1>7 DEF CRLF
<1>9. name \o <<":">> \o value \o CRLF \in Seq(Char)
  <2> DEFINE colon == <<":">>
  <2>1. colon \in Seq(Char)
    BY <1>8
  <2> HIDE DEF colon
  <2>2. name \o colon \o value \o CRLF \in Seq(Char)
    BY <1>4, <1>5, <1>8, <2>1
  <2> QED BY <2>2 DEF colon
<1> QED BY Zenon, <1>4, <1>5, <1>6, <1>8, <1>9 DEF LineText, name, value

\* A line is read as it was written.
LineIs(text, o, line) ==
    /\ NameEnd(text, o) = o + Len(line.name)
    /\ next_in(text, NameEnd(text, o), {":"})
    /\ sees(text, ValueEnd(text, o), CRLF)
    /\ ValueEnd(text, o) + 2 = o + Len(LineText(line))
    /\ Denotes(text, HeaderAt(text, o), line)
    /\ ~sees(text, o, CRLF)

LEMMA LineRead ==
    ASSUME NEW text \in Seq(Char), NEW o \in Nat, NEW line \in HeaderLine,
           sees(text, o, LineText(line))
    PROVE  LineIs(text, o, line)
<1> DEFINE name == line.name
           value == line.value.text
           colon == <<":">>
           n == Len(name)
           v == Len(value)
           nameEnd == NameEnd(text, o)
           valueEnd == ValueEnd(text, o)
<1>1. /\ name \in Seq(Char) /\ name \in Seq(Char \ {":"})
      /\ value \in Seq(Char) /\ value \in Seq(Char \ {"CR"})
      /\ colon \in Seq(Char) /\ CRLF \in Seq(Char)
      /\ Len(CRLF) = 2 /\ CRLF # <<>> /\ CRLF[1] = "CR"
      /\ name # <<>> => name[1] # "CR"
  BY Zenon, LineParts
<1>2. colon # <<>> /\ colon[1] = ":" /\ Len(colon) = 1
  OBVIOUS
<1>3. LineText(line) = name \o colon \o value \o CRLF
  BY DEF LineText
<1> HIDE DEF name, value, colon
<1>4. n \in Nat /\ v \in Nat
  BY <1>1
<1>a. name \in Seq(Char) /\ value \in Seq(Char) /\ colon \in Seq(Char) /\ CRLF \in Seq(Char)
  BY Zenon, <1>1
<1>b. Len(colon) = 1 /\ Len(CRLF) = 2
  BY Zenon, <1>1, <1>2
<1>5. Len(name \o colon \o value) = (n + 1) + v /\ name \o colon \o value \in Seq(Char)
      /\ name \o colon \in Seq(Char) /\ Len(name \o colon) = n + 1
      /\ Len(name \o colon \o value \o CRLF) = (n + 1) + v + 2
  <2> DEFINE a == name \o colon
             b == a \o value
  <2>1. a \in Seq(Char) /\ Len(a) = n + 1
    <3>1. name \in Seq(Char) /\ colon \in Seq(Char)
      BY <1>a
    <3>2. name \o colon \in Seq(Char) /\ Len(name \o colon) = Len(name) + Len(colon)
      BY Zenon, <3>1, Joins
    <3>3. n + Len(colon) = n + 1
      BY Zenon, <1>b
    <3> QED BY Zenon, <3>2, <3>3
  <2> HIDE DEF a
  <2>2. b \in Seq(Char) /\ Len(b) = (n + 1) + v
    BY Zenon, <1>a, <2>1, Joins
  <2> HIDE DEF b
  <2>3. Len(b \o CRLF) = (n + 1) + v + 2
    BY Zenon, <1>a, <1>b, <2>2, Joins
  <2>4. b = name \o colon \o value /\ a = name \o colon
    BY Zenon DEF a, b
  <2> QED BY Zenon, <2>1, <2>2, <2>3, <2>4
<1>6. /\ sees(text, o, name) /\ sees(text, o + n, colon) /\ sees(text, o + (n + 1), value)
      /\ sees(text, o + ((n + 1) + v), CRLF)
  <2> DEFINE b == name \o colon \o value
  <2>3. b \in Seq(Char) /\ Len(b) = (n + 1) + v /\ sees(text, o, b \o CRLF)
    BY Zenon, <1>3, <1>5
  <2> HIDE DEF b
  <2>1. sees(text, o, name \o colon \o value) /\ sees(text, o + ((n + 1) + v), CRLF)
    <3>1. sees(text, o, b) /\ sees(text, o + Len(b), CRLF)
      BY Zenon, <1>1, <2>3, SeesParts
    <3> QED BY Zenon, <2>3, <3>1 DEF b
  <2>2. sees(text, o, name \o colon) /\ sees(text, o + (n + 1), value)
    BY Zenon, <1>1, <1>5, <2>1, SeesParts
  <2> QED BY Zenon, <1>1, <2>1, <2>2, SeesParts
<1> HIDE DEF n, v
<1>7. /\ next_in(text, o + n, {":"}) /\ ~next_in(text, o + n, Char \ {":"})
  <2>1. \A chars : next_in(text, o + n, chars) <=> ":" \in chars
    <3>1. o + n \in Nat
      BY <1>4
    <3> QED BY <1>1, <1>2, <1>6, <3>1, NextIsFirst
  <2> QED BY <2>1
<1>8. nameEnd = o + n
  <2>1. span(text, o, Char \ {":"}) = o + Len(name)
    <3> DEFINE chars == Char \ {":"}
    <3>1. name \in Seq(chars) /\ ~next_in(text, o + Len(name), chars)
      BY <1>1, <1>7 DEF n
    <3> HIDE DEF chars
    <3>2. span(text, o, chars) = o + Len(name)
      BY <1>1, <1>6, <3>1, SpanOf
    <3> QED BY <3>2 DEF chars
  <2> QED BY <2>1 DEF NameEnd, n
<1>9. valueEnd = o + ((n + 1) + v)
  <2> DEFINE from == o + (n + 1)
             chars == Char \ {"CR"}
  <2>1. from \in Nat /\ from + v = o + ((n + 1) + v) /\ (o + n) + 1 = from /\ from + v \in Nat
    BY <1>4
  <2>2. ~next_in(text, from + v, chars)
    <3>1. CRLF # <<>>
      BY Zenon, <1>1
    <3>2. \A cs : next_in(text, from + v, cs) <=> CRLF[1] \in cs
      <4> HIDE DEF from
      <4> QED BY Zenon, <1>1, <1>6, <2>1, <3>1, NextIsFirst
    <3> QED BY <1>1, <3>2
  <2>3. value \in Seq(chars)
    BY <1>1
  <2> HIDE DEF chars, from
  <2>4. span(text, from, chars) = from + v
    <3>1. sees(text, from, value) /\ ~next_in(text, from + Len(value), chars)
      BY Zenon, <1>6, <2>2 DEF v, from
    <3>2. span(text, from, chars) = from + Len(value)
      BY <1>1, <2>1, <2>3, <3>1, SpanOf
    <3> QED BY Zenon, <3>2 DEF v
  <2>5. valueEnd = span(text, nameEnd + 1, chars)
    BY Zenon DEF ValueEnd, chars
  <2> QED BY Zenon, <1>8, <2>1, <2>4, <2>5
<1> HIDE DEF nameEnd, valueEnd
<1>10. valueEnd + 2 = o + Len(LineText(line)) /\ sees(text, valueEnd, CRLF)
  <2>1. (o + ((n + 1) + v)) + 2 = o + ((n + 1) + v + 2)
    BY <1>4
  <2> QED BY Zenon, <1>3, <1>5, <1>6, <1>9, <2>1 DEF n, v
<1>11. Denotes(text, HeaderAt(text, o), line)
  <2>1. Denoted(text, Slice(o, o + Len(name))) = name
    BY <1>1, <1>6, DenotedIs
  <2>2. Denoted(text, Slice(o + (n + 1), (o + (n + 1)) + Len(value))) = value
    <3> DEFINE from == o + (n + 1)
    <3>1. from \in Nat
      BY <1>4
    <3> HIDE DEF from
    <3> QED BY <1>1, <1>6, <3>1, DenotedIs DEF from
  <2>3. (o + (n + 1)) + v = o + ((n + 1) + v) /\ (o + n) + 1 = o + (n + 1)
    BY <1>4
  <2>4. HeaderAt(text, o) = [name |-> Slice(o, nameEnd), value |-> Slice(nameEnd + 1, valueEnd)]
    BY Zenon DEF HeaderAt, nameEnd, valueEnd
  <2> DEFINE a == Slice(o, nameEnd)
             b == Slice(nameEnd + 1, valueEnd)
  <2>5. a = Slice(o, o + Len(name)) /\ b = Slice(o + (n + 1), (o + (n + 1)) + Len(value))
    BY Zenon, <1>8, <1>9, <2>3 DEF n, v
  <2> HIDE DEF a, b
  <2>6. HeaderAt(text, o).name = a /\ HeaderAt(text, o).value = b
    BY <2>4 DEF a, b
  <2> QED BY Zenon, <2>1, <2>2, <2>5, <2>6 DEF Denotes, name, value
<1>12. ~sees(text, o, CRLF)
  <2>1. sees(text, o, CRLF) => next_in(text, o, {"CR"})
    <3>1. CRLF # <<>>
      BY Zenon, <1>1
    <3> QED BY <1>1, <3>1, NextIsFirst
  <2>2. CASE name = <<>>
    <3>1. n = 0 /\ o + n = o
      BY <1>4, <2>2 DEF n
    <3>2. next_in(text, o, {":"})
      BY Zenon, <1>7, <3>1
    <3> QED BY <2>1, <3>2 DEF next_in
  <2>3. CASE name # <<>>
    <3>1. next_in(text, o, {"CR"}) <=> name[1] \in {"CR"}
      BY <1>1, <1>6, <2>3, NextIsFirst
    <3> QED BY <1>1, <2>1, <2>3, <3>1
  <2> QED BY <2>2, <2>3
<1>13. next_in(text, nameEnd, {":"})
  BY Zenon, <1>7, <1>8
<1> QED BY Zenon, <1>8, <1>10, <1>11, <1>12, <1>13 DEF LineIs, nameEnd, valueEnd, n, name

\* What was read from the k-th line on, up to the empty line at "end".
SomeHeader(text) == {HeaderAt(text, o) : o \in Nat}

HeadersFrom(r, text, lines, k, end) ==
    /\ r = Read(end + 2, r.val)
    /\ r.val \in Seq(SomeHeader(text))
    /\ Len(r.val) = (Len(lines) + 1) - k
    /\ \A i \in 1 .. Len(r.val) : Denotes(text, r.val[i], lines[(k - 1) + i])

\* One line in front of those that were read.
LEMMA OneLineMore ==
    ASSUME NEW text \in Seq(Char), NEW o \in Nat, NEW lines \in Seq(HeaderLine),
           NEW k \in 1 .. Len(lines), Denotes(text, HeaderAt(text, o), lines[k]),
           NEW end \in Nat, NEW rest, HeadersFrom(rest, text, lines, k + 1, end)
    PROVE  HeadersFrom([rest EXCEPT !.val = <<HeaderAt(text, o)>> \o @], text, lines, k, end)
<1> DEFINE h == HeaderAt(text, o)
           S == SomeHeader(text)
           n == Len(lines)
           val == <<h>> \o rest.val
           r == [rest EXCEPT !.val = <<h>> \o @]
<1>1. /\ rest = Read(end + 2, rest.val) /\ rest.val \in Seq(S)
      /\ Len(rest.val) = (n + 1) - (k + 1)
      /\ \A i \in 1 .. Len(rest.val) : Denotes(text, rest.val[i], lines[((k + 1) - 1) + i])
  BY Zenon DEF HeadersFrom
<1>2. h \in S
  BY Zenon DEF SomeHeader
<1>3. n \in Nat /\ k \in 1 .. n
  OBVIOUS
<1> DEFINE old == rest.val
<1>4. r = Read(end + 2, <<h>> \o old)
  <2> HIDE DEF h
  <2>1. rest = [res |-> "true", off |-> end + 2, val |-> old]
    BY <1>1 DEF Read
  <2> HIDE DEF old
  <2>2. r = [rest EXCEPT !.val = <<h>> \o old]
    BY DEF old
  <2> DEFINE new == <<h>> \o old
  <2> HIDE DEF r, new
  <2>3. r = [rest EXCEPT !.val = new]
    BY Zenon, <2>2 DEF new
  <2>4. r = [res |-> "true", off |-> end + 2, val |-> new]
    BY <2>1, <2>3
  <2> QED BY Zenon, <2>4 DEF Read, new
<1> HIDE DEF h, S, n, r, old
<1>5. old \in Seq(S) /\ Len(old) = n - k
      /\ \A i \in 1 .. n - k : Denotes(text, old[i], lines[k + i])
  <2>1. (n + 1) - (k + 1) = n - k /\ (k + 1) - 1 = k
    BY <1>3
  <2> QED BY Zenon, <1>1, <2>1 DEF old
<1> DEFINE new == <<h>> \o old
<1>6. new \in Seq(S) /\ Len(new) = (n + 1) - k /\ new[1] = h
      /\ \A i \in 1 .. n - k : new[i + 1] = old[i]
  <2> DEFINE one == <<h>>
  <2>1. one \in Seq(S) /\ Len(one) = 1 /\ one[1] = h
    BY <1>2
  <2> HIDE DEF one
  <2>2. /\ one \o old \in Seq(S) /\ Len(one \o old) = Len(one) + Len(old)
        /\ \A i \in 1 .. Len(one) + Len(old) :
              (one \o old)[i] = IF i <= Len(one) THEN one[i] ELSE old[i - Len(one)]
    BY Zenon, <1>5, <2>1, ConcatProperties
  <2> DEFINE both == one \o old
  <2>3. both \in Seq(S) /\ Len(both) = 1 + (n - k)
        /\ \A i \in 1 .. 1 + (n - k) : both[i] = IF i <= 1 THEN one[i] ELSE old[i - 1]
    BY Zenon, <1>5, <2>1, <2>2
  <2> HIDE DEF both
  <2>4. both \in Seq(S) /\ Len(both) = (n + 1) - k /\ both[1] = h
        /\ \A i \in 1 .. n - k : both[i + 1] = old[i]
    BY SMTT(30), <1>3, <2>1, <2>3
  <2>5. new = both
    BY Zenon DEF both, one
  <2> HIDE DEF new
  <2> QED BY Zenon, <2>4, <2>5
<1> HIDE DEF new
<1>7. ASSUME NEW i \in 1 .. Len(new) PROVE Denotes(text, new[i], lines[(k - 1) + i])
  <2>1. CASE i = 1
    <3>1. (k - 1) + i = k
      BY <1>3, <2>1
    <3> QED BY <1>6, <2>1, <3>1 DEF h
  <2>2. CASE i # 1
    <3>1. i - 1 \in 1 .. n - k /\ (i - 1) + 1 = i /\ k + (i - 1) = (k - 1) + i
      BY <1>3, <1>6, <2>2
    <3> QED BY Zenon, <1>5, <1>6, <3>1
  <2> QED BY <2>1, <2>2
<1>8. r.val = new /\ r = Read(end + 2, new)
  <2>1. Read(end + 2, new).val = new
    BY DEF Read
  <2> QED BY Zenon, <1>4, <2>1 DEF new
<1>9. HeadersFrom(r, text, lines, k, end)
  <2>1. r.val \in Seq(SomeHeader(text)) /\ Len(r.val) = (Len(lines) + 1) - k
    BY Zenon, <1>6, <1>8 DEF S, n
  <2> QED BY Zenon, <1>7, <1>8, <2>1 DEF HeadersFrom
<1> QED BY Zenon, <1>9 DEF r, h

\* Header lines are read as they were written.
LEMMA HeadersAt ==
    ASSUME NEW text \in Seq(Char), NEW off \in 0 .. Len(text), LineEnd(text, off),
           NEW lines \in Seq(HeaderLine), sees(text, off, LineTexts(lines)),
           sees(text, off + Len(LineTexts(lines)), CRLF)
    PROVE  HeadersFrom(parse_headers(text, off), text, lines, 1, off + Len(LineTexts(lines)))
<1> DEFINE n == Len(lines)
           parts == [i \in 1 .. n |-> lines[i].name \o <<":">> \o lines[i].value.text \o CRLF]
           end == off + Len(LineTexts(lines))
           r == parse_headers(text, off)
<1>1. n \in Nat /\ \A i \in 1 .. n : lines[i] \in HeaderLine
  OBVIOUS
<1>2. \A i \in 1 .. n : parts[i] = LineText(lines[i]) /\ LineText(lines[i]) \in Seq(Char)
  <2>1. \A i \in 1 .. n : LineText(lines[i]) \in Seq(Char)
    BY Zenon, <1>1, LineParts
  <2>2. \A i \in 1 .. n : parts[i] = LineText(lines[i])
    BY Zenon DEF LineText
  <2> QED BY Zenon, <2>1, <2>2
<1>3. LineTexts(lines) = SX!FlattenSeq(parts)
  BY Zenon DEF LineTexts
<1>4. parts \in Seq(Seq(Char)) /\ Len(parts) = n
  <2>1. parts = [i \in 1 .. n |-> parts[i]]
    OBVIOUS
  <2> HIDE DEF parts, n
  <2>2. \A i \in 1 .. n : parts[i] \in Seq(Char)
    BY Zenon, <1>2
  <2>3. n \in Nat
    BY <1>1
  <2> DEFINE V == Seq(Char)
             F == [i \in 1 .. n |-> parts[i]]
  <2>4. \A i \in 1 .. n : parts[i] \in V
    BY <2>2
  <2> HIDE DEF V
  <2>5. F \in Seq(V) /\ Len(F) = n
    BY <2>3, <2>4
  <2> QED BY Zenon, <2>1, <2>5 DEF V
<1> HIDE DEF parts
<1>5. PICK at : Laid(at, text, off, parts)
  <2>1. off \in Nat /\ sees(text, off, SX!FlattenSeq(parts))
    <3>1. off \in Nat
      OBVIOUS
    <3> QED BY Zenon, <1>3, <3>1
  <2> QED BY Zenon, <1>4, <2>1, PartsLaid
<1>6. /\ at \in [0 .. n -> off .. Len(text)] /\ at[0] = off /\ at[n] = end
      /\ \A k \in 1 .. n : sees(text, at[k - 1], LineText(lines[k]))
                           /\ at[k] = at[k - 1] + Len(LineText(lines[k]))
  <2>1. /\ at \in [0 .. n -> off .. Len(text)] /\ at[0] = off /\ at[n] = end
    BY Zenon, <1>3, <1>4, <1>5 DEF Laid
  <2>2. \A k \in 1 .. n : sees(text, at[k - 1], parts[k]) /\ at[k] = at[k - 1] + Len(parts[k])
    BY Zenon, <1>4, <1>5 DEF Laid
  <2> QED BY Zenon, <1>2, <2>1, <2>2
<1>7. \A k \in 0 .. n : at[k] \in Nat /\ at[k] \in off .. Len(text)
  BY <1>6
<1> HIDE DEF end, n
<1>8. ASSUME NEW k \in 1 .. n
      PROVE  LineIs(text, at[k - 1], lines[k]) /\ ValueEnd(text, at[k - 1]) + 2 = at[k]
  <2>1. k - 1 \in 0 .. n
    BY <1>1
  <2>2. at[k - 1] \in Nat /\ sees(text, at[k - 1], LineText(lines[k])) /\ lines[k] \in HeaderLine
    BY Zenon, <1>1, <1>6, <1>7, <2>1
  <2>3. LineIs(text, at[k - 1], lines[k])
    BY Zenon, <2>2, LineRead
  <2> QED BY Zenon, <1>6, <2>3 DEF LineIs
<1>9. PICK g : /\ HeaderLines(g, text, off)
               /\ parse_headers(text, off) =
                     IF sees(text, off, CRLF) THEN Read(off + 2, <<>>) ELSE g[off]
  BY Zenon, HeadersUnfold
<1>10. end \in Nat /\ sees(text, end, CRLF)
  <2>1. n \in 0 .. n
    BY <1>1
  <2>2. sees(text, end, CRLF)
    BY Zenon DEF end
  <2> QED BY Zenon, <1>6, <1>7, <2>1, <2>2
<1>11. CASE n = 0
  <2>1. end = off
    BY Zenon, <1>6, <1>11
  <2>2. r = Read(end + 2, <<>>)
    BY Zenon, <1>9, <1>10, <2>1
  <2> HIDE DEF r
  <2>3. r.val = <<>>
    BY <2>2 DEF Read
  <2>4. <<>> \in Seq(SomeHeader(text)) /\ Len(<<>>) = 0 /\ Len(<<>>) = (n + 1) - 1
        /\ \A i \in 1 .. Len(<<>>) : FALSE
    BY <1>11
  <2> QED BY Zenon, <2>2, <2>3, <2>4 DEF HeadersFrom, n, end, r
<1>12. CASE n # 0
  <2> DEFINE P(k) == HeadersFrom(g[at[k - 1]], text, lines, k, end)
  <2>1. ASSUME NEW k \in 1 .. n
        PROVE  g[at[k - 1]] = IF sees(text, at[k], CRLF)
                              THEN Read(at[k] + 2, <<HeaderAt(text, at[k - 1])>>)
                              ELSE [g[at[k]] EXCEPT !.val = <<HeaderAt(text, at[k - 1])>> \o @]
    <3> DEFINE o == at[k - 1]
               v == ValueEnd(text, o)
    <3>1. o \in off .. Len(text)
      <4>1. k - 1 \in 0 .. n
        BY <1>1
      <4> QED BY Zenon, <1>7, <4>1
    <3>2. g[o] = LineAt(g, text, o)
      BY Zenon, <1>9, <3>1 DEF HeaderLines
    <3>3. next_in(text, NameEnd(text, o), {":"}) /\ sees(text, v, CRLF) /\ v + 2 = at[k]
      BY Zenon, <1>8 DEF LineIs
    <3>4. v + 4 = at[k] + 2
      <4>1. k \in 0 .. n
        BY <1>1
      <4>2. at[k] \in Nat
        BY Zenon, <1>7, <4>1
      <4>3. v \in Nat
        <5>1. span(text, NameEnd(text, o) + 1, Char \ {"CR"}) \in NameEnd(text, o) + 1 .. Len(text)
          <6>1. NameEnd(text, o) = o + Len(lines[k].name)
            BY Zenon, <1>8 DEF LineIs
          <6>2. Len(lines[k].name) \in Nat
            <7>1. lines[k].name \in Seq(Char)
              BY Zenon, <1>1, LineParts
            <7> QED BY <7>1
          <6>3. NameEnd(text, o) \in Nat /\ Len(text) \in Nat
            <7> HIDE DEF o
            <7> QED BY <3>1, <6>1, <6>2
          <6>4. NameEnd(text, o) + 1 \in 0 .. Len(text)
            BY <3>3, <6>3 DEF next_in
          <6> HIDE DEF o
          <6> QED BY <6>3, <6>4, SpanEnds
        <5>2. NameEnd(text, o) + 1 \in Nat
          <6>1. NameEnd(text, o) = o + Len(lines[k].name)
            BY Zenon, <1>8 DEF LineIs
          <6>2. Len(lines[k].name) \in Nat
            <7>1. lines[k].name \in Seq(Char)
              BY Zenon, <1>1, LineParts
            <7> QED BY <7>1
          <6> HIDE DEF o
          <6> QED BY <3>1, <6>1, <6>2
        <5> DEFINE a == NameEnd(text, o) + 1
                   b == span(text, a, Char \ {"CR"})
        <5>3. a \in Nat /\ b \in a .. Len(text)
          BY Zenon, <5>1, <5>2
        <5>4. v = b
          BY Zenon DEF ValueEnd
        <5> HIDE DEF a, b, v
        <5> QED BY <5>3, <5>4
      <4> HIDE DEF v
      <4> QED BY <3>3, <4>2, <4>3
    <3> QED BY Zenon, <3>2, <3>3, <3>4 DEF LineAt
  <2>2. P(n)
    <3>1. n \in 1 .. n
      BY <1>1, <1>12
    <3> DEFINE o == at[n - 1]
               h == HeaderAt(text, o)
    <3>2. g[o] = Read(end + 2, <<h>>)
      BY Zenon, <1>6, <1>10, <2>1, <3>1
    <3>3. Denotes(text, h, lines[n]) /\ h \in SomeHeader(text)
      <4>1. Denotes(text, h, lines[n])
        BY Zenon, <1>8, <3>1 DEF LineIs
      <4>2. n - 1 \in 0 .. n
        BY <1>1, <1>12
      <4>3. o \in Nat
        BY Zenon, <1>7, <4>2
      <4> QED BY Zenon, <4>1, <4>3 DEF SomeHeader
    <3> HIDE DEF h, o
    <3> DEFINE list == <<h>>
    <3>4. list \in Seq(SomeHeader(text)) /\ Len(list) = 1 /\ list[1] = h /\ Len(list) = (n + 1) - n
      BY <1>1, <3>3
    <3>5. \A i \in 1 .. Len(list) : i = 1 /\ (n - 1) + i = n
      BY <1>1, <3>4
    <3>6. g[o].val = list
      BY <3>2 DEF Read
    <3> HIDE DEF list
    <3>7. \A i \in 1 .. Len(list) : Denotes(text, list[i], lines[(n - 1) + i])
      BY Zenon, <3>3, <3>4, <3>5
    <3>8. HeadersFrom(g[o], text, lines, n, end)
      BY Zenon, <3>2, <3>4, <3>6, <3>7 DEF HeadersFrom, n, list
    <3> QED BY Zenon, <3>8 DEF o
  <2>3. ASSUME NEW k \in 1 .. n - 1, P(k + 1) PROVE P(k)
    <3>1. k \in 1 .. n /\ k + 1 \in 1 .. n /\ (k + 1) - 1 = k /\ k - 1 \in 0 .. n
      BY <1>1
    <3> DEFINE o == at[k - 1]
    <3>2. ~sees(text, at[k], CRLF)
      BY Zenon, <1>8, <3>1 DEF LineIs
    <3>3. g[o] = [g[at[k]] EXCEPT !.val = <<HeaderAt(text, o)>> \o @]
      BY Zenon, <2>1, <3>1, <3>2
    <3>4. HeadersFrom(g[at[k]], text, lines, k + 1, end)
      BY Zenon, <2>3, <3>1
    <3>5. Denotes(text, HeaderAt(text, o), lines[k]) /\ o \in Nat
      BY Zenon, <1>7, <1>8, <3>1 DEF LineIs
    <3> DEFINE rest == g[at[k]]
    <3> HIDE DEF rest, o
    <3>6. k \in 1 .. Len(lines)
      BY Zenon, <3>1 DEF n
    <3>7. HeadersFrom(rest, text, lines, k + 1, end) /\ g[o] = [rest EXCEPT !.val = <<HeaderAt(text, o)>> \o @]
      BY Zenon, <3>3, <3>4 DEF rest
    <3>8. HeadersFrom([rest EXCEPT !.val = <<HeaderAt(text, o)>> \o @], text, lines, k, end)
      BY <1>10, <3>5, <3>6, <3>7, OneLineMore
    <3>9. HeadersFrom(g[o], text, lines, k, end)
      BY Zenon, <3>7, <3>8
    <3> QED BY Zenon, <3>9 DEF o
  <2> DEFINE T == {j \in 0 .. n - 1 : P(n - j)}
  <2>4. 0 .. n - 1 \subseteq T
    <3>1. 0 \in T
      <4>1. 0 \in 0 .. n - 1 /\ n - 0 = n
        BY <1>1, <1>12
      <4> HIDE DEF P
      <4> QED BY <2>2, <4>1
    <3>2. ASSUME NEW j \in 1 .. n - 1, j - 1 \in T PROVE j \in T
      <4>1. n - j \in 1 .. n - 1 /\ (n - j) + 1 = n - (j - 1) /\ j \in 0 .. n - 1
        BY <1>1
      <4> HIDE DEF P
      <4>2. P(n - (j - 1))
        BY <3>2
      <4>3. P(n - j)
        <5> DEFINE k == n - j
        <5>1. k \in 1 .. n - 1 /\ P(k + 1)
          BY <4>1, <4>2
        <5> HIDE DEF k
        <5>2. P(k)
          BY <2>3, <5>1 DEF P
        <5> QED BY <5>2 DEF k
      <4> QED BY <4>1, <4>3
    <3>3. n - 1 \in Nat
      BY <1>1, <1>12
    <3> HIDE DEF T
    <3> QED BY <3>1, <3>2, <3>3, Upwards
  <2>5. P(1)
    <3>1. n - 1 \in 0 .. n - 1 /\ n - (n - 1) = 1
      BY <1>1, <1>12
    <3> HIDE DEF P
    <3> QED BY <2>4, <3>1
  <2>6. 1 - 1 = 0 /\ 1 \in 1 .. n
    BY <1>1, <1>12
  <2>7. HeadersFrom(g[off], text, lines, 1, end)
    BY Zenon, <1>6, <2>5, <2>6
  <2>8. ~sees(text, off, CRLF)
    BY Zenon, <1>6, <1>8, <2>6 DEF LineIs
  <2> QED BY Zenon, <1>9, <2>7, <2>8 DEF end
<1> QED BY Zenon, <1>11, <1>12

-----------------------------------------------------------------------------
(* The texts of a head.                                                     *)

LEMMA Wider ==
    ASSUME NEW S, NEW T, S \subseteq T, NEW s \in Seq(S)
    PROVE  s \in Seq(T)
OBVIOUS

LEMMA JoinsIn ==
    ASSUME NEW S, NEW s \in Seq(S), NEW t \in Seq(S)
    PROVE  s \o t \in Seq(S)
OBVIOUS

LEMMA OneIn ==
    ASSUME NEW S, NEW c \in S
    PROVE  <<c>> \in Seq(S) /\ Len(<<c>>) = 1 /\ <<c>>[1] = c /\ <<c>> # <<>>
OBVIOUS

\* What is put together from texts of S is one.
LEMMA FlatIn ==
    ASSUME NEW S, S \subseteq Char, NEW parts \in Seq(Seq(S))
    PROVE  SX!FlattenSeq(parts) \in Seq(S)
<1> DEFINE n == Len(parts)
           V == Seq(S)
<1>1. n \in Nat /\ \A k \in 1 .. n : parts[k] \in V
  OBVIOUS
<1>2. parts \in Seq(Seq(Char))
  <2>1. V \subseteq Seq(Char)
    BY Wider
  <2>2. parts \in Seq(V)
    OBVIOUS
  <2> DEFINE W == Seq(Char)
  <2> HIDE DEF V, W
  <2> QED BY <2>1, <2>2, Wider DEF W
<1>3. PICK f : Flat(f, parts)
  BY Zenon, <1>2, Flattened
<1>4. f[0] = <<>> /\ (\A k \in 1 .. n : f[k] = f[k - 1] \o parts[k]) /\ SX!FlattenSeq(parts) = f[n]
  BY Zenon, <1>3 DEF Flat
<1> DEFINE T == {k \in 0 .. n : f[k] \in V}
<1>5. 0 \in T
  <2>1. <<>> \in V /\ 0 \in 0 .. n
    BY <1>1
  <2> HIDE DEF V
  <2> QED BY <1>4, <2>1
<1>6. ASSUME NEW k \in 1 .. n, k - 1 \in T PROVE k \in T
  <2>1. f[k - 1] \in V /\ parts[k] \in V /\ f[k] = f[k - 1] \o parts[k]
    BY <1>1, <1>4, <1>6
  <2>2. f[k] \in V
    BY Zenon, <2>1, JoinsIn
  <2> QED BY <1>1, <2>2
<1>7. 0 .. n \subseteq T
  <2> HIDE DEF T
  <2> QED BY <1>1, <1>5, <1>6, Upwards
<1>8. f[n] \in V
  BY <1>1, <1>7
<1> QED BY Zenon, <1>4, <1>8

LEMMA JoinedIn ==
    ASSUME NEW base, NEW numbers \in Seq(Numeral(base)), NEW sep \in Char
    PROVE  Joined(numbers, sep) \in Seq(Digit \cup {sep})
<1> DEFINE n == Len(numbers)
           S == Digit \cup {sep}
           part(i) == IF i = 1 THEN numbers[i].text ELSE <<sep>> \o numbers[i].text
           parts == [i \in 1 .. n |-> part(i)]
           V == Seq(S)
<1>1. n \in Nat /\ \A i \in 1 .. n : numbers[i] \in Numeral(base)
  OBVIOUS
<1>2. Joined(numbers, sep) = SX!FlattenSeq(parts)
  BY DEF Joined
<1>3. S \subseteq Char /\ sep \in S /\ Digit \subseteq S
  BY Zenon DEF Char, Pchar, Unreserved
<1> HIDE DEF n
<1>4. ASSUME NEW i \in 1 .. n PROVE part(i) \in V
  <2>1. numbers[i].text \in Seq(Digit)
    BY Zenon, <1>1, NumeralText
  <2> DEFINE digits == numbers[i].text
  <2> HIDE DEF digits
  <2>2. digits \in Seq(S) /\ <<sep>> \in Seq(S)
    <3>1. digits \in Seq(Digit)
      BY <2>1 DEF digits
    <3> HIDE DEF S
    <3> QED BY <1>3, <3>1, Wider, OneIn
  <2>3. <<sep>> \o digits \in Seq(S)
    BY Zenon, <2>2, JoinsIn
  <2> QED BY Zenon, <2>2, <2>3 DEF digits
<1> HIDE DEF part, V
<1>5. parts \in Seq(V)
  BY <1>1, <1>4
<1> HIDE DEF parts, S
<1>6. SX!FlattenSeq(parts) \in Seq(S)
  BY Zenon, <1>3, <1>5, FlatIn DEF V
<1> QED BY Zenon, <1>2, <1>6 DEF S

\* An optional part behind its mark.
LEMMA MarkedText ==
    ASSUME NEW S, S \subseteq UrlChar, NEW part \in Optional(Seq(S)), NEW mark \in UrlChar
    PROVE  /\ Marked(mark, part) \in Seq(UrlChar)
           /\ part = <<>> => Marked(mark, part) = <<>>
           /\ part # <<>> => part[1] \in Seq(S) /\ Marked(mark, part) = <<mark>> \o part[1]
<1>1. part # <<>> => part[1] \in Seq(S)
  <2> DEFINE V == Seq(S)
  <2>1. part \in Seq(V)
    BY DEF Optional
  <2> HIDE DEF V
  <2>2. part # <<>> => part[1] \in V
    BY <2>1
  <2> QED BY <2>2 DEF V
<1>2. CASE part = <<>>
  <2>1. <<>> \in Seq(UrlChar)
    OBVIOUS
  <2> QED BY Zenon, <1>2, <2>1 DEF Marked
<1>3. CASE part # <<>>
  <2> DEFINE p == part[1]
  <2>1. p \in Seq(S)
    BY <1>1, <1>3
  <2> HIDE DEF p
  <2>2. p \in Seq(UrlChar) /\ <<mark>> \in Seq(UrlChar)
    BY <2>1, Wider, OneIn
  <2>3. <<mark>> \o p \in Seq(UrlChar)
    BY Zenon, <2>2, JoinsIn
  <2> QED BY Zenon, <1>1, <1>3, <2>3 DEF Marked, p
<1> QED BY <1>2, <1>3

\* The parts of an authority that are written.
UserText(a) == IF a.user = <<>> THEN <<>> ELSE a.user[1] \o <<"@">>
PortText(a) == IF a.port = <<>> THEN <<>> ELSE <<":">> \o a.port[1].text

LEMMA UrlMarks ==
    /\ "/" \in UrlChar /\ "@" \in UrlChar /\ ":" \in UrlChar /\ "?" \in UrlChar /\ "#" \in UrlChar
    /\ "[" \in UrlChar /\ "." \in UrlChar
BY Zenon DEF UrlChar, Pchar, Other, Unreserved

LEMMA HostText ==
    ASSUME NEW h, IsHost(h)
    PROVE  h.text \in Seq(UrlChar)
<1>1. CASE h.text \in Seq(Unreserved \cup Subdelim)
  BY <1>1, Wider, UrlClasses
<1>2. CASE h.octets \in Seq(Numeral(10)) /\ h.text = Joined(h.octets, ".")
  <2>1. "." \in Char
    BY Zenon DEF Char, Pchar, Unreserved
  <2>2. h.text \in Seq(Digit \cup {"."})
    BY Zenon, <1>2, <2>1, JoinedIn
  <2>3. Digit \cup {"."} \subseteq UrlChar
    BY Zenon, UrlClasses, UrlMarks
  <2> DEFINE S == Digit \cup {"."}
  <2> HIDE DEF S
  <2>4. h.text \in Seq(S) /\ S \subseteq UrlChar
    BY Zenon, <2>2, <2>3 DEF S
  <2> QED BY Zenon, <2>4, Wider
<1>3. CASE h.text \in Seq(Char \ Space)
  <2>1. Char \ Space \subseteq UrlChar
    BY Zenon DEF Char, UrlChar
  <2> DEFINE S == Char \ Space
  <2> HIDE DEF S
  <2>2. h.text \in Seq(S) /\ S \subseteq UrlChar
    BY Zenon, <1>3, <2>1 DEF S
  <2> QED BY Zenon, <2>2, Wider
<1> QED BY Zenon, <1>1, <1>2, <1>3 DEF IsHost

LEMMA PortIn ==
    ASSUME NEW a, a.port \in Optional(Numeral(10))
    PROVE  /\ PortText(a) \in Seq(UrlChar)
           /\ a.port # <<>> => a.port[1] \in Numeral(10) /\ a.port[1].text \in Seq(UrlChar)
<1>1. a.port # <<>> => a.port[1] \in Numeral(10)
  <2> DEFINE V == Numeral(10)
             p == a.port
  <2>1. p \in Seq(V)
    BY DEF Optional
  <2> HIDE DEF V, p
  <2>2. p # <<>> => p[1] \in V
    BY <2>1
  <2> QED BY <2>2 DEF V, p
<1>2. CASE a.port = <<>>
  <2>1. <<>> \in Seq(UrlChar)
    OBVIOUS
  <2> QED BY Zenon, <1>2, <2>1 DEF PortText
<1>3. CASE a.port # <<>>
  <2> DEFINE p == a.port[1].text
  <2>1. p \in Seq(Digit)
    BY Zenon, <1>1, <1>3, NumeralText
  <2> HIDE DEF p
  <2>2. p \in Seq(UrlChar) /\ <<":">> \in Seq(UrlChar)
    BY <2>1, Wider, OneIn, UrlClasses, UrlMarks
  <2>3. <<":">> \o p \in Seq(UrlChar)
    BY Zenon, <2>2, JoinsIn
  <2> QED BY Zenon, <1>1, <1>3, <2>2, <2>3 DEF PortText, p
<1> QED BY <1>2, <1>3

LEMMA UserIn ==
    ASSUME NEW a, a.user \in Optional(Seq(Unreserved \cup Subdelim \cup {":"}))
    PROVE  /\ UserText(a) \in Seq(UrlChar)
           /\ a.user # <<>> => a.user[1] \in Seq(Unreserved \cup Subdelim \cup {":"})
<1> DEFINE S == Unreserved \cup Subdelim \cup {":"}
<1>0. S \subseteq UrlChar
  BY UrlClasses
<1> HIDE DEF S
<1>1. a.user # <<>> => a.user[1] \in Seq(S)
  <2> DEFINE V == Seq(S)
             p == a.user
  <2>1. p \in Seq(V)
    BY DEF Optional, S
  <2> HIDE DEF V, p
  <2>2. p # <<>> => p[1] \in V
    BY <2>1
  <2> QED BY <2>2 DEF V, p
<1>2. CASE a.user = <<>>
  <2>1. <<>> \in Seq(UrlChar)
    OBVIOUS
  <2> QED BY Zenon, <1>2, <2>1 DEF UserText
<1>3. CASE a.user # <<>>
  <2> DEFINE p == a.user[1]
  <2>1. p \in Seq(S)
    BY Zenon, <1>1, <1>3
  <2> HIDE DEF p
  <2>2. p \in Seq(UrlChar) /\ <<"@">> \in Seq(UrlChar)
    BY <1>0, <2>1, Wider, OneIn, UrlMarks
  <2>3. p \o <<"@">> \in Seq(UrlChar)
    BY Zenon, <2>2, JoinsIn
  <2> QED BY Zenon, <1>1, <1>3, <2>3 DEF UserText, p, S
<1> QED BY <1>2, <1>3

LEMMA AuthorityIn ==
    ASSUME NEW a, IsAuthority(a)
    PROVE  AuthorityText(a) \in Seq(UrlChar)
<1>1. UserText(a) \in Seq(UrlChar) /\ a.host.text \in Seq(UrlChar) /\ PortText(a) \in Seq(UrlChar)
  BY Zenon, UserIn, HostText, PortIn DEF IsAuthority
<1>2. <<"/", "/">> \in Seq(UrlChar)
  BY UrlMarks
<1>3. <<"/", "/">> \o UserText(a) \o a.host.text \o PortText(a) \in Seq(UrlChar)
  BY Zenon, <1>1, <1>2, JoinsIn
<1> QED BY Zenon, <1>3 DEF AuthorityText, UserText, PortText

\* The parts of a URL that are written.
Front(u) == IF u.authority = <<>> THEN <<>> ELSE AuthorityText(u.authority[1])

LEMMA URLParts ==
    ASSUME NEW u, IsURL(u)
    PROVE  /\ Front(u) \in Seq(UrlChar) /\ u.path \in Seq(UrlChar) /\ u.path \in Seq(Pchar \cup {"/"})
           /\ Marked("?", u.query) \in Seq(UrlChar) /\ Marked("#", u.fragment) \in Seq(UrlChar)
           /\ URLText(u) = Front(u) \o u.path \o Marked("?", u.query) \o Marked("#", u.fragment)
           /\ URLText(u) \in Seq(UrlChar)
<1>1. Front(u) \in Seq(UrlChar)
  <2>1. CASE u.authority = <<>>
    <3>1. <<>> \in Seq(UrlChar)
      OBVIOUS
    <3> QED BY Zenon, <2>1, <3>1 DEF Front
  <2>2. CASE u.authority # <<>>
    BY Zenon, <2>2, AuthorityIn DEF IsURL, Front
  <2> QED BY <2>1, <2>2
<1>2. u.path \in Seq(Pchar \cup {"/"})
  BY Zenon DEF IsURL
<1>3. u.path \in Seq(UrlChar)
  <2> DEFINE S == Pchar \cup {"/"}
             p == u.path
  <2>1. p \in Seq(S) /\ S \subseteq UrlChar
    BY Zenon, <1>2, UrlClasses
  <2> HIDE DEF S, p
  <2> QED BY <2>1, Wider DEF p
<1>4. Marked("?", u.query) \in Seq(UrlChar) /\ Marked("#", u.fragment) \in Seq(UrlChar)
  <2> DEFINE S == Pchar \cup {"/", "?"}
  <2>1. u.query \in Optional(Seq(S)) /\ u.fragment \in Optional(Seq(S)) /\ S \subseteq UrlChar
    BY Zenon, UrlClasses DEF IsURL
  <2> HIDE DEF S
  <2> QED BY Zenon, <2>1, MarkedText, UrlMarks
<1>5. URLText(u) = Front(u) \o u.path \o Marked("?", u.query) \o Marked("#", u.fragment)
  BY Zenon DEF URLText, Front
<1>6. Front(u) \o u.path \o Marked("?", u.query) \o Marked("#", u.fragment) \in Seq(UrlChar)
  BY Zenon, <1>1, <1>3, <1>4, JoinsIn
<1> QED BY Zenon, <1>1, <1>2, <1>3, <1>4, <1>5, <1>6

\* Both parts of a text are texts.
LEMMA BothIn ==
    ASSUME NEW B, NEW S, NEW s \in Seq(B), NEW t \in Seq(B), s \o t \in Seq(S)
    PROVE  s \in Seq(S) /\ t \in Seq(S)
<1> DEFINE m == Len(s)
           k == Len(t)
           st == s \o t
<1>1. m \in Nat /\ k \in Nat /\ Len(st) = m + k
      /\ (\A i \in 1 .. m : st[i] = s[i]) /\ \A i \in 1 .. k : st[m + i] = t[i]
  OBVIOUS
<1> HIDE DEF st, m, k
<1>2. \A i \in 1 .. m + k : st[i] \in S
  <2>1. st \in Seq(S)
    BY DEF st
  <2> QED BY <1>1, <2>1
<1>3. \A i \in 1 .. m : s[i] \in S
  BY <1>1, <1>2
<1>4. \A i \in 1 .. k : t[i] \in S
  <2>1. \A i \in 1 .. k : m + i \in 1 .. m + k
    BY <1>1
  <2> QED BY <1>1, <1>2, <2>1
<1> QED BY <1>1, <1>3, <1>4 DEF m, k

LEMMA Empty == Len(<<>>) = 0
OBVIOUS

LEMMA Seven ==
    ASSUME NEW S, NEW a \in S, NEW b \in S, NEW c \in S, NEW d \in S, NEW e \in S, NEW f \in S, NEW g \in S
    PROVE  LET s == <<a, b, c, d, e, f, g>> IN s \in Seq(S) /\ Len(s) = 7 /\ s[1] = a
OBVIOUS

\* A version token begins with a blank and is told from the others by its eighth
\* character.
VersionChar == Char \cup {"H", "T", "P"}

LEMMA VersionText ==
    ASSUME NEW v \in VersionTokens
    PROVE  /\ v \in Seq(VersionChar) /\ v # <<>> /\ v[1] = Gap
           /\ \/ Len(v) = 9 /\ v[8] = "CR"
              \/ Len(v) = 11 /\ v[8] = "."
<1> DEFINE one == <<Gap, "H", "T", "T", "P", "/", "1">>
           S == VersionChar
<1>1. PICK minor \in {<<>>, <<".", "0">>, <<".", "1">>} : v = one \o minor \o CRLF
  BY Zenon DEF VersionTokens, Gap
<1>2. /\ Gap \in S /\ "H" \in S /\ "T" \in S /\ "P" \in S /\ "/" \in S /\ "1" \in S
      /\ "CR" \in S /\ "LF" \in S /\ "." \in S /\ "0" \in S
  <2>1. "1" \in Digit /\ "0" \in Digit
    BY SMT DEF Digit, DigitChars
  <2>2. Gap \in Char /\ "/" \in Char /\ "1" \in Char /\ "CR" \in Char /\ "LF" \in Char
        /\ "." \in Char /\ "0" \in Char
    BY Zenon, <2>1, GapApart DEF Char, Pchar, Unreserved, Space, Other
  <2> QED BY Zenon, <2>2 DEF VersionChar
<1>3. one \in Seq(S) /\ Len(one) = 7 /\ one[1] = Gap
  <2> HIDE DEF S
  <2> QED BY Zenon, <1>2, Seven
<1>4. CRLF \in Seq(S) /\ Len(CRLF) = 2 /\ CRLF[1] = "CR"
  <2> HIDE DEF S
  <2> QED BY <1>2 DEF CRLF
<1>5. minor = <<>> \/ (minor \in Seq(S) /\ Len(minor) = 2 /\ minor[1] = ".")
  <2> HIDE DEF S, one
  <2>1. minor = <<>> \/ minor = <<".", "0">> \/ minor = <<".", "1">>
    BY Zenon
  <2> DEFINE a == <<".", "0">>
             b == <<".", "1">>
  <2>2. a \in Seq(S) /\ Len(a) = 2 /\ a[1] = "."
    BY <1>2
  <2>3. b \in Seq(S) /\ Len(b) = 2 /\ b[1] = "."
    BY <1>2
  <2>4. minor = <<>> \/ minor = a \/ minor = b
    BY Zenon, <2>1
  <2> HIDE DEF a, b
  <2> QED BY Zenon, <2>2, <2>3, <2>4
<1> HIDE DEF S, one
<1>6. CASE minor = <<>>
  <2>1. one \o minor = one
    BY <1>3, <1>6
  <2>2. v = one \o CRLF
    BY Zenon, <1>1, <2>1
  <2>3. /\ one \o CRLF \in Seq(S) /\ Len(one \o CRLF) = Len(one) + Len(CRLF)
        /\ \A i \in 1 .. Len(one) + Len(CRLF) :
              (one \o CRLF)[i] = IF i <= Len(one) THEN one[i] ELSE CRLF[i - Len(one)]
    BY Zenon, <1>3, <1>4, ConcatProperties
  <2>4. v \in Seq(S) /\ Len(v) = 7 + 2 /\ \A i \in 1 .. 7 + 2 : v[i] = IF i <= 7 THEN one[i] ELSE CRLF[i - 7]
    BY Zenon, <1>3, <1>4, <2>2, <2>3
  <2>5. Len(v) = 9 /\ Len(v) # 0 /\ v[8] = "CR" /\ v[1] = Gap
    BY <1>3, <1>4, <2>4
  <2>6. v # <<>>
    BY Zenon, <2>5, Empty
  <2> QED BY Zenon, <2>4, <2>5, <2>6 DEF S
<1>7. CASE minor \in Seq(S) /\ Len(minor) = 2 /\ minor[1] = "."
  <2> DEFINE x == one \o minor
  <2>1. /\ x \in Seq(S) /\ Len(x) = Len(one) + Len(minor)
        /\ \A i \in 1 .. Len(one) + Len(minor) : x[i] = IF i <= Len(one) THEN one[i] ELSE minor[i - Len(one)]
    BY Zenon, <1>3, <1>7, ConcatProperties
  <2> HIDE DEF x
  <2>2. x \in Seq(S) /\ Len(x) = 9 /\ x[8] = "." /\ x[1] = Gap
    BY <1>3, <1>7, <2>1
  <2>3. v = x \o CRLF
    BY Zenon, <1>1 DEF x
  <2>4. /\ x \o CRLF \in Seq(S) /\ Len(x \o CRLF) = Len(x) + Len(CRLF)
        /\ \A i \in 1 .. Len(x) + Len(CRLF) :
              (x \o CRLF)[i] = IF i <= Len(x) THEN x[i] ELSE CRLF[i - Len(x)]
    BY Zenon, <1>4, <2>2, ConcatProperties
  <2>5. v \in Seq(S) /\ Len(v) = 9 + 2 /\ \A i \in 1 .. 9 + 2 : v[i] = IF i <= 9 THEN x[i] ELSE CRLF[i - 9]
    BY Zenon, <1>4, <2>2, <2>3, <2>4
  <2>6. Len(v) = 11 /\ Len(v) # 0 /\ v[8] = "." /\ v[1] = Gap
    BY <2>2, <2>5
  <2>7. v # <<>>
    BY Zenon, <2>6, Empty
  <2> QED BY Zenon, <2>5, <2>6, <2>7 DEF S
<1> QED BY <1>5, <1>6, <1>7

LEMMA OneVersion ==
    ASSUME NEW text \in Seq(Char), NEW off \in Nat, NEW v \in VersionTokens, sees(text, off, v),
           NEW w \in VersionTokens, sees(text, off, w)
    PROVE  v = w
<1>1. /\ (Len(v) = 9 /\ v[8] = "CR") \/ (Len(v) = 11 /\ v[8] = ".")
      /\ (Len(w) = 9 /\ w[8] = "CR") \/ (Len(w) = 11 /\ w[8] = ".")
  BY Zenon, VersionText
<1>2. /\ SubSeq(text, off + 1, off + Len(v)) = v /\ off + Len(v) <= Len(text)
      /\ SubSeq(text, off + 1, off + Len(w)) = w /\ off + Len(w) <= Len(text)
  BY Zenon DEF sees
<1>3. CASE Len(v) = Len(w)
  BY Zenon, <1>2, <1>3
<1>4. CASE Len(v) # Len(w)
  <2>1. Len(text) \in Nat
    OBVIOUS
  <2> DEFINE m == Len(v)
             k == Len(w)
  <2>2. m \in Nat /\ k \in Nat /\ m >= 8 /\ k >= 8
    BY <1>1
  <2>3. SubSeq(text, off + 1, off + m)[8] = text[off + 8] /\ SubSeq(text, off + 1, off + k)[8] = text[off + 8]
    <3> HIDE DEF m, k
    <3>1. off + m <= Len(text) /\ off + k <= Len(text)
      BY <1>2 DEF m, k
    <3> QED BY <2>1, <2>2, <3>1
  <2>4. v[8] = w[8]
    BY Zenon, <1>2, <2>3
  <2> QED BY <1>1, <1>4, <2>4
<1> QED BY <1>3, <1>4

-----------------------------------------------------------------------------
(* Where the parts of a head lie.                                           *)

UrlAt(head)     == Len(head.method) + 1
VersionAt(head) == UrlAt(head) + Len(URLText(head.url))
LinesAt(head)   == VersionAt(head) + Len(head.version)
EndAt(head)     == LinesAt(head) + Len(LineTexts(head.headers))

HeadLaid(text, head) ==
    /\ text \in Seq(Char) /\ head.method \in Seq(Char)
    /\ sees(text, 0, head.method) /\ sees(text, Len(head.method), <<Gap>>)
    /\ UrlAt(head) \in Nat /\ sees(text, UrlAt(head), URLText(head.url))
    /\ VersionAt(head) \in Nat /\ head.version \in Seq(Char) /\ sees(text, VersionAt(head), head.version)
    /\ LinesAt(head) \in 0 .. Len(text) /\ sees(text, LinesAt(head), LineTexts(head.headers))
    /\ EndAt(head) \in Nat /\ sees(text, EndAt(head), CRLF) /\ EndAt(head) + 2 = Len(text)

LEMMA LinesIn ==
    ASSUME NEW lines \in Seq(HeaderLine)
    PROVE  LineTexts(lines) \in Seq(Char)
<1> DEFINE n == Len(lines)
           parts == [i \in 1 .. n |-> lines[i].name \o <<":">> \o lines[i].value.text \o CRLF]
           V == Seq(Char)
<1>1. n \in Nat /\ \A i \in 1 .. n : lines[i] \in HeaderLine
  OBVIOUS
<1>2. \A i \in 1 .. n : parts[i] \in V
  <2>1. \A i \in 1 .. n : LineText(lines[i]) \in Seq(Char)
    BY Zenon, <1>1, LineParts
  <2> QED BY Zenon, <2>1 DEF LineText
<1>3. parts = [i \in 1 .. n |-> parts[i]]
  OBVIOUS
<1>4. LineTexts(lines) = SX!FlattenSeq(parts)
  BY Zenon DEF LineTexts
<1> HIDE DEF parts, V, n
<1>5. parts \in Seq(V)
  <2>1. n \in Nat
    BY <1>1
  <2> QED BY <1>2, <1>3, <2>1
<1>6. SX!FlattenSeq(parts) \in Seq(Char)
  <2>1. Char \subseteq Char
    OBVIOUS
  <2> QED BY Zenon, <1>5, <2>1, FlatIn DEF V
<1> QED BY Zenon, <1>4, <1>6

LEMMA HeadIs ==
    ASSUME NEW head \in RequestTexts
    PROVE  HeadLaid(HeadText(head), head)
<1> DEFINE text == HeadText(head)
           method == head.method
           url == URLText(head.url)
           version == head.version
           lines == LineTexts(head.headers)
           gap == <<Gap>>
<1>1. text \in Seq(Char)
  BY HeadsEnd
<1>2. /\ method \in Seq(Upper) /\ IsURL(head.url) /\ version \in VersionTokens
      /\ head.headers \in Seq(HeaderLine)
  BY Zenon, MeaningAssumption DEF IsHead
<1>3. method \in Seq(Char)
  <2>1. Upper \subseteq Char
    BY Zenon DEF Char, Pchar, Unreserved, Alpha
  <2> HIDE DEF method
  <2> QED BY <1>2, <2>1, Wider
<1>4. url \in Seq(Char)
  <2>1. url \in Seq(UrlChar)
    BY Zenon, <1>2, URLParts
  <2> HIDE DEF url
  <2> QED BY <2>1, Wider, UrlClasses
<1>5. lines \in Seq(Char)
  BY Zenon, <1>2, LinesIn
<1>6. gap \in Seq(Char) /\ Len(gap) = 1
  <2>1. Gap \in Char
    BY Zenon, GapApart
  <2> QED BY <2>1, OneIn
<1>7. CRLF \in Seq(Char) /\ Len(CRLF) = 2
  <2>1. "CR" \in Char /\ "LF" \in Char
    BY Zenon DEF Char, Space
  <2> QED BY <2>1 DEF CRLF
<1>8. text = method \o gap \o url \o version \o lines \o CRLF
  BY Zenon DEF HeadText, LineTexts, Gap
<1> HIDE DEF text, method, url, version, lines, gap
<1> DEFINE a == method \o gap
           b == a \o url
           c == b \o version
           d == c \o lines
<1>9. version \in Seq(Char)
  <2> DEFINE B == VersionChar
  <2>1. version \in Seq(B) /\ Char \subseteq B
    BY Zenon, <1>2, VersionText DEF VersionChar
  <2> HIDE DEF B
  <2>2. method \in Seq(B) /\ gap \in Seq(B) /\ url \in Seq(B) /\ lines \in Seq(B) /\ CRLF \in Seq(B)
    BY <1>3, <1>4, <1>5, <1>6, <1>7, <2>1, Wider
  <2>3. b \in Seq(B) /\ c \in Seq(B) /\ d \in Seq(B)
    BY Zenon, <2>1, <2>2, JoinsIn
  <2> HIDE DEF b, c, d
  <2>4. d \o CRLF \in Seq(Char)
    BY Zenon, <1>1, <1>8 DEF b, c, d
  <2>5. d \in Seq(Char)
    BY Zenon, <2>2, <2>3, <2>4, BothIn
  <2>6. c \in Seq(Char)
    BY Zenon, <2>2, <2>3, <2>5, BothIn DEF d
  <2>7. b \o version \in Seq(Char)
    BY Zenon, <2>6 DEF c
  <2> QED BY Zenon, <2>1, <2>3, <2>7, BothIn
<1>10. a \in Seq(Char) /\ Len(a) = Len(method) + 1
  <2>1. method \o gap \in Seq(Char) /\ Len(method \o gap) = Len(method) + Len(gap)
    BY Zenon, <1>3, <1>6, Joins
  <2> QED BY Zenon, <1>6, <2>1
<1> HIDE DEF a
<1>11. b \in Seq(Char) /\ Len(b) = Len(a) + Len(url)
  BY Zenon, <1>4, <1>10, Joins
<1> HIDE DEF b
<1>12. c \in Seq(Char) /\ Len(c) = Len(b) + Len(version)
  BY Zenon, <1>9, <1>11, Joins
<1> HIDE DEF c
<1>13. d \in Seq(Char) /\ Len(d) = Len(c) + Len(lines)
  BY Zenon, <1>5, <1>12, Joins
<1> HIDE DEF d
<1>14. text = d \o CRLF /\ Len(text) = Len(d) + 2
  <2>1. text = d \o CRLF
    BY Zenon, <1>8 DEF a, b, c, d
  <2>2. Len(d \o CRLF) = Len(d) + Len(CRLF)
    BY Zenon, <1>7, <1>13, Joins
  <2> QED BY Zenon, <1>7, <2>1, <2>2
<1>15. UrlAt(head) = Len(a) /\ VersionAt(head) = Len(b) /\ LinesAt(head) = Len(c) /\ EndAt(head) = Len(d)
  BY Zenon, <1>10, <1>11, <1>12, <1>13 DEF UrlAt, VersionAt, LinesAt, EndAt, method, url, version, lines
<1>16. \A k \in Nat : 0 + k = k
  OBVIOUS
<1>17. Len(method) \in Nat /\ Len(a) \in Nat /\ Len(b) \in Nat /\ Len(c) \in Nat /\ Len(d) \in Nat /\ 0 \in Nat
       /\ Len(lines) \in Nat
  BY <1>3, <1>5, <1>10, <1>11, <1>12, <1>13
<1>18. sees(text, 0, d) /\ sees(text, Len(d), CRLF)
  <2>1. sees(text, 0, d \o CRLF)
    BY Zenon, <1>1, <1>14, SeesItself
  <2>2. sees(text, 0, d) /\ sees(text, 0 + Len(d), CRLF)
    BY Zenon, <1>1, <1>7, <1>13, <1>17, <2>1, SeesParts
  <2> QED BY Zenon, <1>16, <1>17, <2>2
<1>19. sees(text, 0, c) /\ sees(text, Len(c), lines)
  <2>1. sees(text, 0, c \o lines)
    BY Zenon, <1>18 DEF d
  <2>2. sees(text, 0, c) /\ sees(text, 0 + Len(c), lines)
    BY Zenon, <1>1, <1>5, <1>12, <1>17, <2>1, SeesParts
  <2> QED BY Zenon, <1>16, <1>17, <2>2
<1>20. sees(text, 0, b) /\ sees(text, Len(b), version)
  <2>1. sees(text, 0, b \o version)
    BY Zenon, <1>19 DEF c
  <2>2. sees(text, 0, b) /\ sees(text, 0 + Len(b), version)
    BY Zenon, <1>1, <1>9, <1>11, <1>17, <2>1, SeesParts
  <2> QED BY Zenon, <1>16, <1>17, <2>2
<1>21. sees(text, 0, a) /\ sees(text, Len(a), url)
  <2>1. sees(text, 0, a \o url)
    BY Zenon, <1>20 DEF b
  <2>2. sees(text, 0, a) /\ sees(text, 0 + Len(a), url)
    BY Zenon, <1>1, <1>4, <1>10, <1>17, <2>1, SeesParts
  <2> QED BY Zenon, <1>16, <1>17, <2>2
<1>22. sees(text, 0, method) /\ sees(text, Len(method), gap)
  <2>1. sees(text, 0, method \o gap)
    BY Zenon, <1>21 DEF a
  <2>2. sees(text, 0, method) /\ sees(text, 0 + Len(method), gap)
    BY Zenon, <1>1, <1>3, <1>6, <1>17, <2>1, SeesParts
  <2> QED BY Zenon, <1>16, <1>17, <2>2
<1>23. Len(c) \in 0 .. Len(text)
  <2> DEFINE x == Len(c)
             y == Len(lines)
             z == Len(d)
             n == Len(text)
  <2>1. x \in Nat /\ y \in Nat /\ z = x + y /\ n = z + 2
    BY Zenon, <1>13, <1>14, <1>17
  <2> HIDE DEF x, y, z, n
  <2>2. x \in 0 .. n
    BY <2>1
  <2> QED BY <2>2 DEF x, n
<1> QED BY Zenon, <1>1, <1>3, <1>9, <1>14, <1>15, <1>17, <1>18, <1>19, <1>20, <1>21, <1>22, <1>23
        DEF HeadLaid, text, method, url, version, lines, gap

-----------------------------------------------------------------------------
(* How a head is read around its URL.                                       *)

\* The method is read as it was written.
LEMMA MethodRead ==
    ASSUME NEW head \in RequestTexts, NEW text, text = HeadText(head)
    PROVE  parse_request(text) =
              with_url(text, [NewRequest EXCEPT !.method = head.method], parse_url(text, UrlAt(head)))
<1> DEFINE method == head.method
           m == Len(method)
           stop == span(text, 0, Upper)
           name == SubSeq(text, 1, stop)
<1>1. text \in Seq(Char) /\ method \in Seq(Char) /\ sees(text, 0, method) /\ sees(text, m, <<Gap>>)
  BY Zenon, HeadIs DEF HeadLaid
<1>2. method \in Methods /\ method \in Seq(Upper)
  BY Zenon, MeaningAssumption DEF IsHead
<1>3. m \in Nat /\ 0 \in Nat /\ 0 + m = m
  BY <1>1
<1>4. next_in(text, m, {Gap}) /\ ~next_in(text, m, Upper)
  <2>1. <<Gap>> \in Seq(Char) /\ <<Gap>> # <<>> /\ <<Gap>>[1] = Gap
    BY Zenon, GapApart, OneIn
  <2>2. \A chars : next_in(text, m, chars) <=> Gap \in chars
    BY Zenon, <1>1, <1>3, <2>1, NextIsFirst
  <2>3. Gap \in {Gap} /\ Gap \notin Upper
    BY Zenon, GapApart
  <2> QED BY Zenon, <2>2, <2>3
<1>5. stop = m
  <2>1. ~next_in(text, 0 + Len(method), Upper)
    BY Zenon, <1>3, <1>4
  <2>2. span(text, 0, Upper) = 0 + Len(method)
    BY Zenon, <1>1, <1>2, <1>3, <2>1, SpanOf
  <2> QED BY Zenon, <1>3, <2>2
<1>6. name = method
  <2>1. SubSeq(text, 0 + 1, 0 + Len(method)) = method
    BY Zenon, <1>1 DEF sees
  <2>2. 0 + 1 = 1
    OBVIOUS
  <2> QED BY Zenon, <1>3, <1>5, <2>1, <2>2
<1>7. parse_request(text) =
        IF name \notin Methods THEN [res |-> "false", off |-> stop, val |-> NewRequest]
        ELSE IF ~next_in(text, stop, {Gap})
             THEN [res |-> "false", off |-> stop, val |-> [NewRequest EXCEPT !.method = name]]
        ELSE with_url(text, [NewRequest EXCEPT !.method = name], parse_url(text, stop + 1))
  BY Zenon DEF parse_request, Gap
<1> HIDE DEF stop, name
<1> QED BY Zenon, <1>2, <1>4, <1>5, <1>6, <1>7 DEF UrlAt

\* The headers that are kept are the first ones that are written.
HeadersKept(text, r, lines) ==
    /\ Len(r.headers) = IF Len(lines) < MAX_REQUEST_HEADERS THEN Len(lines) ELSE MAX_REQUEST_HEADERS
    /\ r.ignored_count = Len(lines) - Len(r.headers)
    /\ \A i \in 1 .. Len(r.headers) : Denotes(text, r.headers[i], lines[i])

\* What a request becomes of which all was read.
WhollyRead(p, text, head, url) ==
    /\ p.res = "true" /\ p.off = Len(text)
    /\ p.val.valid /\ p.val.method = head.method /\ p.val.url = url
    /\ HeadersKept(text, p.val, head.headers)

LEMMA HeadersWritten ==
    ASSUME NEW text, NEW head, head.headers \in Seq(HeaderLine), NEW url, NEW lines,
           HeadersFrom(lines, text, head.headers, 1, EndAt(head)), EndAt(head) + 2 = Len(text)
    PROVE  WhollyRead(with_headers(text, SomeRequest(head.method, url), lines), text, head, url)
<1> DEFINE n == Len(head.headers)
           all == lines.val
           max == MAX_REQUEST_HEADERS
           count == IF Len(all) < max THEN Len(all) ELSE max
           good == lines.res = "true" /\ lines.off = Len(text)
           kept == SubSeq(all, 1, count)
           r == [SomeRequest(head.method, url) EXCEPT !.valid = good, !.headers = kept,
                                          !.ignored_count = Len(all) - count]
           p == [res |-> IF good THEN "true" ELSE "false", off |-> lines.off, val |-> r]
<1>1. with_headers(text, SomeRequest(head.method, url), lines) = p
  BY DEF with_headers
<1>2. /\ lines = Read(EndAt(head) + 2, lines.val) /\ all \in Seq(SomeHeader(text)) /\ Len(all) = (n + 1) - 1
      /\ \A i \in 1 .. Len(all) : Denotes(text, all[i], head.headers[(1 - 1) + i])
  BY Zenon DEF HeadersFrom
<1>3. n \in Nat /\ max \in Nat /\ (n + 1) - 1 = n
  <2>1. n \in Nat
    OBVIOUS
  <2> QED BY <2>1, LimitsAssumption
<1>4. good
  <2>1. Read(EndAt(head) + 2, all).res = "true" /\ Read(EndAt(head) + 2, all).off = EndAt(head) + 2
    BY DEF Read
  <2> QED BY Zenon, <1>2, <2>1
<1> HIDE DEF all, n, max
<1>5. Len(all) = n /\ \A i \in 1 .. n : Denotes(text, all[i], head.headers[i])
  <2>1. Len(all) = n
    BY Zenon, <1>2, <1>3
  <2>2. \A i \in 1 .. n : (1 - 1) + i = i
    BY <1>3
  <2> QED BY Zenon, <1>2, <2>1, <2>2
<1>6. count \in 0 .. n /\ count = (IF n < max THEN n ELSE max)
  BY <1>3, <1>5
<1> HIDE DEF count
<1>7. kept \in Seq(SomeHeader(text)) /\ Len(kept) = count /\ \A i \in 1 .. count : kept[i] = all[i]
  <2> DEFINE S == SomeHeader(text)
  <2>1. all \in Seq(S) /\ Len(all) = n
    BY Zenon, <1>2, <1>5
  <2> HIDE DEF S
  <2>2. kept \in Seq(S) /\ Len(kept) = count /\ \A i \in 1 .. count : kept[i] = all[i]
    <3>1. \A i \in 1 .. count : all[i] \in S
      BY <1>3, <1>6, <2>1
    <3> QED BY <1>3, <1>6, <2>1, <3>1
  <2> QED BY Zenon, <2>2 DEF S
<1> HIDE DEF kept, good
<1>8. r.valid = good /\ r.method = head.method /\ r.url = url /\ r.headers = kept
      /\ r.ignored_count = Len(all) - count
  BY DEF SomeRequest, NewRequest
<1>9. p.res = "true" /\ p.off = lines.off /\ p.val = r
  BY Zenon, <1>4
<1> HIDE DEF r, p
<1>10. HeadersKept(text, r, head.headers)
  <2>1. Len(r.headers) = (IF n < max THEN n ELSE max) /\ r.ignored_count = n - Len(r.headers)
    BY Zenon, <1>5, <1>6, <1>7, <1>8
  <2>2. \A i \in 1 .. count : i \in 1 .. n
    BY <1>3, <1>6
  <2>3. \A i \in 1 .. Len(r.headers) : Denotes(text, r.headers[i], head.headers[i])
    BY Zenon, <1>5, <1>7, <1>8, <2>2
  <2> QED BY Zenon, <2>1, <2>3 DEF HeadersKept, n, max
<1>11. p.off = Len(text)
  BY Zenon, <1>4, <1>9 DEF good
<1> QED BY Zenon, <1>1, <1>4, <1>8, <1>9, <1>10, <1>11 DEF WhollyRead

\* A head is accepted when the cursor behind its URL stands in front of the version.
LEMMA ReadThrough ==
    ASSUME NEW head \in RequestTexts, NEW text, text = HeadText(head),
           NEW url, url = parse_url(text, UrlAt(head)), url.res = "true", url.off = VersionAt(head)
    PROVE  WhollyRead(parse_request(text), text, head, url.val)
<1> DEFINE some == [NewRequest EXCEPT !.method = head.method]
           with == [some EXCEPT !.url = url.val]
           versions == {v \in VersionTokens : sees(text, url.off, v)}
           v == CHOOSE x \in versions : TRUE
           off == VersionAt(head)
           version == head.version
           lines == parse_headers(text, LinesAt(head))
<1>1. /\ text \in Seq(Char) /\ off \in Nat /\ version \in Seq(Char) /\ sees(text, off, version)
      /\ LinesAt(head) \in 0 .. Len(text) /\ sees(text, LinesAt(head), LineTexts(head.headers))
      /\ EndAt(head) \in Nat /\ sees(text, EndAt(head), CRLF) /\ EndAt(head) + 2 = Len(text)
  BY Zenon, HeadIs DEF HeadLaid
<1>2. version \in VersionTokens /\ head.headers \in Seq(HeaderLine)
  BY Zenon, MeaningAssumption DEF IsHead
<1>3. parse_request(text) = with_url(text, some, url)
  BY Zenon, MethodRead
<1>4. v = version
  <2>1. version \in versions
    BY Zenon, <1>1, <1>2
  <2>2. v \in versions
    <3> HIDE DEF versions
    <3> QED BY Zenon, <2>1
  <2> HIDE DEF v
  <2>3. v \in VersionTokens /\ sees(text, off, v)
    BY Zenon, <2>2
  <2> QED BY Zenon, <1>1, <1>2, <2>3, OneVersion
<1>5. versions # {}
  BY Zenon, <1>1, <1>2
<1>6. with_url(text, some, url) =
        IF url.res # "true" THEN [res |-> url.res, off |-> url.off, val |-> some]
        ELSE IF versions = {} THEN [res |-> "false", off |-> url.off, val |-> with]
        ELSE with_headers(text, with, parse_headers(text, url.off + Len(v)))
  BY DEF with_url
<1>7. with = SomeRequest(head.method, url.val)
  BY DEF SomeRequest, NewRequest
<1> HIDE DEF v, versions, with, some, lines
<1>8. parse_request(text) = with_headers(text, SomeRequest(head.method, url.val), lines)
  BY Zenon, <1>3, <1>4, <1>5, <1>6, <1>7 DEF LinesAt, lines
<1>9. LineEnd(text, LinesAt(head))
  <2>1. off \in 0 .. Len(text)
    <3>1. off + Len(version) <= Len(text)
      BY Zenon, <1>1 DEF sees
    <3>2. Len(version) \in Nat /\ Len(text) \in Nat
      BY <1>1
    <3> QED BY <1>1, <3>1, <3>2
  <2>2. LineEnd(text, off + Len(version))
    BY Zenon, <1>1, <1>2, <2>1, VersionEnds
  <2> QED BY Zenon, <2>2 DEF LinesAt
<1>10. HeadersFrom(lines, text, head.headers, 1, EndAt(head))
  BY Zenon, <1>1, <1>2, <1>9, HeadersAt DEF lines, EndAt
<1> QED BY Zenon, <1>1, <1>2, <1>8, <1>10, HeadersWritten

\* And it is not unless some version lies where the URL was read to.
LEMMA ValidMeans ==
    ASSUME NEW head \in RequestTexts, NEW text, text = HeadText(head),
           NEW url, url = parse_url(text, UrlAt(head)), parse_request(text).val.valid
    PROVE  url.res = "true" /\ \E v \in VersionTokens : sees(text, url.off, v)
<1> DEFINE some == [NewRequest EXCEPT !.method = head.method]
           with == [some EXCEPT !.url = url.val]
           versions == {v \in VersionTokens : sees(text, url.off, v)}
           a == [res |-> url.res, off |-> url.off, val |-> some]
           b == [res |-> "false", off |-> url.off, val |-> with]
           w == with_url(text, some, url)
<1>1. parse_request(text) = w
  BY Zenon, MethodRead
<1>2. (url.res # "true" => w = a) /\ (url.res = "true" /\ versions = {} => w = b)
  BY DEF with_url
<1>3. ~some.valid /\ ~with.valid
  BY DEF NewRequest
<1>4. a.val = some /\ b.val = with
  BY Zenon
<1> HIDE DEF some, with, a, b, w
<1> QED BY Zenon, <1>1, <1>2, <1>3, <1>4

-----------------------------------------------------------------------------
(* The parts of a URL that are written.                                     *)

\* The characters of what is seen are those of the text.
LEMMA NextWithin ==
    ASSUME NEW text \in Seq(Char), NEW off \in Nat, NEW s \in Seq(Char), sees(text, off, s),
           NEW k \in 0 .. Len(s) - 1
    PROVE  /\ off + k < Len(text) /\ k < Len(s) /\ text[off + k + 1] = s[k + 1]
           /\ \A chars : next_in(text, off + k, chars) <=> next_in(s, k, chars)
<1>1. off + Len(s) <= Len(text) /\ \A i \in 1 .. Len(s) : text[off + i] = s[i]
  BY SeesChars
<1>2. k + 1 \in 1 .. Len(s) /\ off + (k + 1) = off + k + 1
  OBVIOUS
<1>3. text[off + k + 1] = s[k + 1]
  BY <1>1, <1>2
<1>4. off + k < Len(text) /\ k < Len(s)
  BY <1>1
<1> QED BY Zenon, <1>3, <1>4 DEF next_in

\* A text is followed by none of some characters.
Followed(text, off, s, chars) ==
    text \in Seq(Char) /\ off \in Nat /\ s \in Seq(Char) /\ sees(text, off, s)
        /\ ~next_in(text, off + Len(s), chars)

LEMMA FewerNext ==
    ASSUME NEW text, NEW off, NEW S, NEW T, S \subseteq T, ~next_in(text, off, T)
    PROVE  ~next_in(text, off, S)
BY Zenon DEF next_in

\* What begins neither like a scheme nor like an authority is read as neither.
LEMMA NoScheme ==
    ASSUME NEW text, NEW off, NEW path, Followed(text, off, path, Pchar \cup {"/"}),
           next_in(path, 0, Upper) =>
              ~next_in(path, span(path, 0, Upper \cup Digit \cup {"+", "-", "."}), {":"})
    PROVE  parse_scheme(text, off) = Read(off, NoSlice)
<1> DEFINE S == Upper \cup Digit \cup {"+", "-", "."}
           P == Pchar \cup {"/"}
           n == Len(path)
           k == span(path, 0, S)
           end == span(text, off, S)
<1>1. S \subseteq P /\ {":"} \subseteq P /\ Upper \subseteq P
  BY Zenon DEF Pchar, Unreserved, Subdelim, Alpha
<1>2. /\ text \in Seq(Char) /\ off \in Nat /\ path \in Seq(Char) /\ sees(text, off, path)
      /\ ~next_in(text, off + n, P)
  BY Zenon DEF Followed
<1>3. parse_scheme(text, off) =
        IF next_in(text, off, Upper) /\ next_in(text, end, {":"})
        THEN Read(end + 1, [str |-> end + 1, off |-> off, len |-> end + 1 - off])
        ELSE Read(off, NoSlice)
  BY DEF parse_scheme
<1>4. n \in Nat /\ Len(text) \in Nat /\ off + n <= Len(text) /\ 0 \in 0 .. n
  <2>1. n \in Nat /\ Len(text) \in Nat
    BY <1>2
  <2>2. off + n <= Len(text)
    BY Zenon, <1>2 DEF sees
  <2> QED BY <2>1, <2>2
<1>5. CASE next_in(text, off, Upper)
  <2>1. n # 0
    <3> SUFFICES ASSUME n = 0 PROVE FALSE
      OBVIOUS
    <3>1. ~next_in(text, off + n, Upper)
      BY Zenon, <1>1, <1>2, FewerNext
    <3> HIDE DEF n
    <3>2. off + n = off
      BY <1>2
    <3> QED BY Zenon, <1>5, <3>1, <3>2
  <2>2. next_in(path, 0, Upper)
    <3>1. 0 \in 0 .. n - 1 /\ off + 0 = off
      BY <1>2, <1>4, <2>1
    <3>2. next_in(text, off + 0, Upper) <=> next_in(path, 0, Upper)
      BY Zenon, <1>2, <3>1, NextWithin
    <3> QED BY Zenon, <1>5, <3>1, <3>2
  <2>3. ~next_in(path, k, {":"})
    BY Zenon, <2>2
  <2>4. k \in 0 .. n /\ (\A i \in 0 .. k - 1 : path[i + 1] \in S) /\ ~next_in(path, k, S)
    BY Zenon, <1>4, SpanEnds
  <2>5. \A chars : ~next_in(path, k, chars) /\ chars \subseteq P => ~next_in(text, off + k, chars)
    <3>1. CASE k = n
      BY Zenon, <1>2, <3>1, FewerNext
    <3>2. CASE k # n
      <4>1. k \in 0 .. n - 1
        BY <1>4, <2>4, <3>2
      <4> QED BY Zenon, <1>2, <4>1, NextWithin
    <3> QED BY <3>1, <3>2
  <2>6. ~next_in(text, off + k, S) /\ ~next_in(text, off + k, {":"})
    BY Zenon, <1>1, <2>3, <2>4, <2>5
  <2>7. \A i \in off .. (off + k) - 1 : text[i + 1] \in S
    <3> TAKE i \in off .. (off + k) - 1
    <3> DEFINE j == i - off
    <3>1. j \in 0 .. n - 1 /\ j \in 0 .. k - 1 /\ off + j + 1 = i + 1
      BY <1>2, <1>4, <2>4
    <3> HIDE DEF j
    <3>2. text[off + j + 1] = path[j + 1]
      BY ZenonT(60), <1>2, <3>1, NextWithin
    <3> QED BY Zenon, <2>4, <3>1, <3>2
  <2>8. end = off + k
    <3>1. off \in 0 .. Len(text) /\ off + k \in off .. Len(text)
      BY <1>2, <1>4, <2>4
    <3> HIDE DEF S, k
    <3> QED BY Zenon, <1>2, <2>6, <2>7, <3>1, SpanIs
  <2> QED BY Zenon, <1>3, <2>6, <2>8
<1> QED BY Zenon, <1>3, <1>5

Slashes == <<"/", "/">>

LEMMA SeesSlashes ==
    ASSUME NEW text \in Seq(Char), NEW off \in Nat
    PROVE  sees(text, off, Slashes) <=> next_in(text, off, {"/"}) /\ next_in(text, off + 1, {"/"})
<1>1. Slashes \in Seq(Char) /\ Len(Slashes) = 2 /\ Slashes[1] = "/" /\ Slashes[2] = "/"
  BY SMT DEF Slashes, Char, Other
<1>2. sees(text, off, Slashes) <=> off + 2 <= Len(text) /\ \A i \in 1 .. 2 : text[off + i] = Slashes[i]
  <2>1. sees(text, off, Slashes) <=> /\ off + Len(Slashes) <= Len(text)
                                     /\ \A i \in 1 .. Len(Slashes) : text[off + i] = Slashes[i]
    BY Zenon, <1>1, SeesChars
  <2>2. Len(Slashes) = 2
    BY <1>1
  <2> QED BY Zenon, <2>1, <2>2
<1>3. (\A i \in 1 .. 2 : text[off + i] = Slashes[i]) <=> text[off + 1] = "/" /\ text[off + 2] = "/"
  BY <1>1
<1>4. Len(text) \in Nat /\ off + 1 + 1 = off + 2
  OBVIOUS
<1> QED BY <1>2, <1>3, <1>4 DEF next_in

LEMMA NotAbsolute ==
    ASSUME NEW text, NEW off, NEW path, Followed(text, off, path, Pchar \cup {"/"}),
           ~(next_in(path, 0, {"/"}) /\ next_in(path, 1, {"/"}))
    PROVE  ~sees(text, off, Slashes)
<1> DEFINE n == Len(path)
<1>1. /\ text \in Seq(Char) /\ off \in Nat /\ path \in Seq(Char) /\ sees(text, off, path)
      /\ ~next_in(text, off + n, {"/"})
  <2>1. {"/"} \subseteq Pchar \cup {"/"}
    BY Zenon
  <2> QED BY Zenon, <2>1, FewerNext DEF Followed
<1>2. n \in Nat
  BY <1>1
<1>3. CASE n = 0
  <2>1. off + n = off
    BY <1>1, <1>3
  <2> QED BY Zenon, <1>1, <2>1, SeesSlashes
<1>4. CASE n = 1
  BY Zenon, <1>1, <1>4, SeesSlashes
<1>5. CASE n # 0 /\ n # 1
  <2>1. 0 \in 0 .. n - 1 /\ 1 \in 0 .. n - 1 /\ off + 0 = off
    <3>1. off \in Nat
      BY <1>1
    <3> HIDE DEF n
    <3> QED BY <1>2, <1>5, <3>1
  <2>2. next_in(text, off + 0, {"/"}) <=> next_in(path, 0, {"/"})
    BY Zenon, <1>1, <2>1, NextWithin
  <2>3. next_in(text, off + 1, {"/"}) <=> next_in(path, 1, {"/"})
    BY Zenon, <1>1, <2>1, NextWithin
  <2> QED BY Zenon, <1>1, <2>1, <2>2, <2>3, SeesSlashes
<1> QED BY Zenon, <1>3, <1>4, <1>5

\* What an optional part denotes.
Part(optional) == IF optional = <<>> THEN <<>> ELSE optional[1]

\* The part behind a mark is read as it was written.
LEMMA MarkedAt ==
    ASSUME NEW text, NEW off, NEW mark \in UrlChar, NEW part \in Optional(Seq(Pchar \cup {"/", "?"})),
           Followed(text, off, Marked(mark, part), Pchar \cup {"/", "?"}),
           part = <<>> => ~next_in(text, off, {mark})
    PROVE  LET r == parse_marked(text, off, mark)
           IN  r = Read(off + Len(Marked(mark, part)), r.val) /\ Denoted(text, r.val) = Part(part)
<1> DEFINE P == Pchar \cup {"/", "?"}
           s == Marked(mark, part)
           r == parse_marked(text, off, mark)
           end == span(text, off + 1, P)
<1>1. /\ text \in Seq(Char) /\ off \in Nat /\ s \in Seq(Char) /\ sees(text, off, s)
      /\ ~next_in(text, off + Len(s), P)
  BY Zenon DEF Followed
<1>2. P \subseteq UrlChar /\ UrlChar \subseteq Char /\ part \in Optional(Seq(P))
  BY Zenon, UrlClasses
<1>3. /\ part = <<>> => s = <<>>
      /\ part # <<>> => part[1] \in Seq(P) /\ s = <<mark>> \o part[1]
  <2> HIDE DEF P
  <2> QED BY Zenon, <1>2, MarkedText
<1>4. parse_marked(text, off, mark) =
        IF next_in(text, off, {mark}) THEN Read(end, Slice(off + 1, end)) ELSE Read(off, NoSlice)
  BY Zenon DEF parse_marked
<1> HIDE DEF end, P
<1>5. CASE part = <<>>
  <2>1. r = Read(off, NoSlice)
    BY Zenon, <1>4, <1>5
  <2>2. r.val = NoSlice
    BY <2>1 DEF Read
  <2>3. off + Len(s) = off
    <3>1. Len(s) = 0
      BY Zenon, <1>3, <1>5, Empty
    <3> HIDE DEF s
    <3> QED BY <1>1, <3>1
  <2>4. Denoted(text, NoSlice) = <<>>
    BY <1>1 DEF Denoted, NoSlice
  <2>5. Part(part) = <<>>
    BY Zenon, <1>5 DEF Part
  <2> HIDE DEF s, r
  <2>6. r = Read(off + Len(s), r.val)
    BY Zenon, <2>1, <2>2, <2>3
  <2> QED BY Zenon, <2>2, <2>4, <2>5, <2>6 DEF s, r
<1>6. CASE part # <<>>
  <2> DEFINE p == part[1]
             m == <<mark>>
  <2>1. p \in Seq(P) /\ p \in Seq(Char) /\ m \in Seq(Char) /\ s = m \o p
    <3>1. p \in Seq(P) /\ s = m \o p
      BY Zenon, <1>3, <1>6
    <3>2. P \subseteq Char /\ mark \in Char
      BY Zenon, <1>2
    <3> HIDE DEF p
    <3>3. p \in Seq(Char) /\ m \in Seq(Char)
      BY Zenon, <3>1, <3>2, Wider, OneIn
    <3> QED BY Zenon, <3>1, <3>3
  <2>2. Len(m) = 1 /\ m[1] = mark /\ m # <<>>
    OBVIOUS
  <2>3. Part(part) = p
    BY Zenon, <1>6 DEF Part
  <2> HIDE DEF m, p, s
  <2>4. sees(text, off, m) /\ sees(text, off + 1, p)
    BY Zenon, <1>1, <2>1, <2>2, SeesParts
  <2>5. next_in(text, off, {mark})
    BY Zenon, <1>1, <2>1, <2>2, <2>4, NextIsFirst
  <2>6. off + 1 \in Nat /\ off + Len(s) = off + 1 + Len(p)
    <3>1. Len(s) = Len(m) + Len(p) /\ Len(p) \in Nat
      BY <2>1, Joins
    <3> QED BY <1>1, <2>2, <3>1
  <2>7. ~next_in(text, off + 1 + Len(p), P)
    BY Zenon, <1>1, <2>6
  <2>8. end = off + 1 + Len(p)
    <3> DEFINE o == off + 1
    <3>1. text \in Seq(Char) /\ o \in Nat /\ p \in Seq(Char) /\ p \in Seq(P) /\ sees(text, o, p)
      BY Zenon, <1>1, <2>1, <2>4, <2>6
    <3>2. ~next_in(text, o + Len(p), P)
      BY Zenon, <2>7
    <3>3. end = span(text, o, P)
      BY Zenon DEF end
    <3> HIDE DEF o
    <3>4. span(text, o, P) = o + Len(p)
      BY Zenon, <3>1, <3>2, SpanOf
    <3> QED BY Zenon, <3>3, <3>4 DEF o
  <2>9. Denoted(text, Slice(off + 1, end)) = p
    BY Zenon, <1>1, <2>1, <2>4, <2>6, <2>8, DenotedIs
  <2>10. r = Read(end, Slice(off + 1, end))
    BY Zenon, <1>4, <2>5
  <2>11. r.val = Slice(off + 1, end)
    BY <2>10 DEF Read
  <2> HIDE DEF r
  <2>12. r = Read(off + Len(s), r.val)
    BY Zenon, <2>6, <2>8, <2>10, <2>11
  <2> QED BY Zenon, <2>3, <2>9, <2>11, <2>12 DEF s, r
<1> QED BY Zenon, <1>5, <1>6

\* Where the parts of the URL of a head lie.
PathAt(head)   == UrlAt(head) + Len(Front(head.url))
PathEnd(head)  == PathAt(head) + Len(head.url.path)
QueryEnd(head) == PathEnd(head) + Len(Marked("?", head.url.query))

UrlLaid(text, head) ==
    /\ text \in Seq(Char) /\ UrlAt(head) \in Nat /\ sees(text, UrlAt(head), Front(head.url))
    /\ PathAt(head) \in Nat /\ sees(text, PathAt(head), head.url.path)
    /\ PathEnd(head) \in Nat /\ sees(text, PathEnd(head), Marked("?", head.url.query))
    /\ QueryEnd(head) \in Nat /\ sees(text, QueryEnd(head), Marked("#", head.url.fragment))
    /\ VersionAt(head) = QueryEnd(head) + Len(Marked("#", head.url.fragment))
    /\ VersionAt(head) \in Nat
    /\ \A chars : next_in(text, VersionAt(head), chars) <=> Gap \in chars

LEMMA UrlIs ==
    ASSUME NEW head \in RequestTexts, NEW text, text = HeadText(head)
    PROVE  UrlLaid(text, head)
<1> DEFINE u == head.url
           f == Front(u)
           p == u.path
           q == Marked("?", u.query)
           g == Marked("#", u.fragment)
           o == UrlAt(head)
           v == head.version
<1>1. /\ text \in Seq(Char) /\ o \in Nat /\ sees(text, o, URLText(u))
      /\ VersionAt(head) \in Nat /\ v \in Seq(Char) /\ sees(text, VersionAt(head), v)
  BY Zenon, HeadIs DEF HeadLaid
<1>2. IsURL(u) /\ v \in VersionTokens
  BY Zenon, MeaningAssumption DEF IsHead
<1>3. /\ f \in Seq(Char) /\ p \in Seq(Char) /\ q \in Seq(Char) /\ g \in Seq(Char)
      /\ URLText(u) = f \o p \o q \o g
  <2>1. f \in Seq(UrlChar) /\ p \in Seq(UrlChar) /\ q \in Seq(UrlChar) /\ g \in Seq(UrlChar)
    BY Zenon, <1>2, URLParts
  <2>2. UrlChar \subseteq Char
    BY Zenon, UrlClasses
  <2>3. URLText(u) = f \o p \o q \o g
    BY Zenon, <1>2, URLParts
  <2> HIDE DEF f, p, q, g
  <2>4. f \in Seq(Char) /\ p \in Seq(Char)
    BY Zenon, <2>1, <2>2, Wider
  <2>5. q \in Seq(Char) /\ g \in Seq(Char)
    BY Zenon, <2>1, <2>2, Wider
  <2> QED BY Zenon, <2>3, <2>4, <2>5 DEF f, p, q, g
<1> HIDE DEF f, p, q, g
<1>4. /\ f \o p \in Seq(Char) /\ Len(f \o p) = Len(f) + Len(p)
      /\ f \o p \o q \in Seq(Char) /\ Len(f \o p \o q) = Len(f) + Len(p) + Len(q)
      /\ Len(f \o p \o q \o g) = Len(f) + Len(p) + Len(q) + Len(g)
  <2>1. f \o p \in Seq(Char) /\ Len(f \o p) = Len(f) + Len(p)
    BY Zenon, <1>3, Joins
  <2>2. f \o p \o q \in Seq(Char) /\ Len(f \o p \o q) = Len(f \o p) + Len(q)
    BY Zenon, <1>3, <2>1, Joins
  <2>3. Len(f \o p \o q \o g) = Len(f \o p \o q) + Len(g)
    BY Zenon, <1>3, <2>2, Joins
  <2> QED BY Zenon, <2>1, <2>2, <2>3
<1>5. sees(text, o, f \o p \o q) /\ sees(text, o + Len(f \o p \o q), g)
  <2>1. sees(text, o, (f \o p \o q) \o g)
    BY Zenon, <1>1, <1>3
  <2>2. text \in Seq(Char) /\ o \in Nat /\ f \o p \o q \in Seq(Char) /\ g \in Seq(Char)
    BY Zenon, <1>1, <1>3, <1>4
  <2> HIDE DEF o
  <2> QED BY Zenon, <2>1, <2>2, SeesParts
<1>6. sees(text, o, f \o p) /\ sees(text, o + Len(f \o p), q)
  BY Zenon, <1>1, <1>3, <1>4, <1>5, SeesParts
<1>7. sees(text, o, f) /\ sees(text, o + Len(f), p)
  BY Zenon, <1>1, <1>3, <1>6, SeesParts
<1>8. /\ o + Len(f) \in Nat /\ o + Len(f) + Len(p) \in Nat /\ o + Len(f) + Len(p) + Len(q) \in Nat
      /\ o + (Len(f) + Len(p)) = o + Len(f) + Len(p)
      /\ o + (Len(f) + Len(p) + Len(q)) = o + Len(f) + Len(p) + Len(q)
      /\ o + (Len(f) + Len(p) + Len(q) + Len(g)) = o + Len(f) + Len(p) + Len(q) + Len(g)
  <2> HIDE DEF o
  <2>1. Len(f) \in Nat /\ Len(p) \in Nat /\ Len(q) \in Nat /\ Len(g) \in Nat
    BY <1>3
  <2> QED BY <1>1, <2>1
<1>9. /\ PathAt(head) = o + Len(f) /\ PathEnd(head) = o + Len(f) + Len(p)
      /\ QueryEnd(head) = o + Len(f) + Len(p) + Len(q)
  BY Zenon DEF PathAt, PathEnd, QueryEnd, f, p, q
<1>10. VersionAt(head) = QueryEnd(head) + Len(g)
  BY Zenon, <1>3, <1>4, <1>8, <1>9 DEF VersionAt
<1>11. \A chars : next_in(text, VersionAt(head), chars) <=> Gap \in chars
  <2>1. v # <<>> /\ v[1] = Gap
    BY Zenon, <1>2, VersionText
  <2> QED BY Zenon, <1>1, <2>1, NextIsFirst
<1>12. /\ sees(text, PathAt(head), p) /\ sees(text, PathEnd(head), q) /\ sees(text, QueryEnd(head), g)
       /\ PathAt(head) \in Nat /\ PathEnd(head) \in Nat /\ QueryEnd(head) \in Nat
  BY Zenon, <1>4, <1>5, <1>6, <1>7, <1>8, <1>9
<1> QED BY Zenon, <1>1, <1>7, <1>10, <1>11, <1>12 DEF UrlLaid, f, p, q, g

\* No mark of a URL is part of what it ends.
LEMMA MarksApart ==
    /\ "?" \notin Pchar \cup {"/"} /\ "#" \notin Pchar \cup {"/", "?"}
    /\ "#" \notin Pchar \cup {"/"} /\ Gap \notin Pchar \cup {"/", "?"} /\ Gap \notin Pchar \cup {"/"}
    /\ Gap # "?" /\ Gap # "#" /\ "/" \notin Pchar
<1>1. "?" \notin Alpha /\ "#" \notin Alpha /\ "/" \notin Alpha
  BY Zenon, LettersAssumption DEF Other
<1>2. "?" \notin Digit /\ "#" \notin Digit /\ "/" \notin Digit
  <2>1. /\ "?" \notin {"0", "1", "2", "3", "4", "5", "6", "7", "8", "9"}
        /\ "#" \notin {"0", "1", "2", "3", "4", "5", "6", "7", "8", "9"}
        /\ "/" \notin {"0", "1", "2", "3", "4", "5", "6", "7", "8", "9"}
    BY Zenon
  <2> QED BY Zenon, <2>1, NotDigit
<1>3. "?" \notin Unreserved /\ "#" \notin Unreserved /\ "/" \notin Unreserved
  BY Zenon, <1>1, <1>2 DEF Unreserved
<1>4. "?" \notin Pchar /\ "#" \notin Pchar /\ "/" \notin Pchar
  BY Zenon, <1>3 DEF Pchar, Subdelim
<1>5. Gap \notin Pchar \cup {"/", "?"} /\ Gap \notin Pchar \cup {"/"} /\ Gap # "?" /\ Gap # "#"
  BY Zenon, GapApart, UrlClasses, UrlMarks
<1>6. "?" # "#" /\ "?" # "/" /\ "#" # "/"
  BY Zenon
<1> QED BY Zenon, <1>4, <1>5, <1>6

\* What lies where a part begins that may be missing.
LEMMA AtMarked ==
    ASSUME NEW text \in Seq(Char), NEW off \in Nat, NEW mark \in UrlChar,
           NEW part \in Optional(Seq(Pchar \cup {"/", "?"})), sees(text, off, Marked(mark, part))
    PROVE  /\ part = <<>> => off + Len(Marked(mark, part)) = off
           /\ part # <<>> => \A chars : next_in(text, off, chars) <=> mark \in chars
           /\ Marked(mark, part) \in Seq(Char)
<1> DEFINE P == Pchar \cup {"/", "?"}
           s == Marked(mark, part)
<1>1. P \subseteq UrlChar /\ UrlChar \subseteq Char /\ part \in Optional(Seq(P))
  BY Zenon, UrlClasses
<1> HIDE DEF P
<1>2. /\ s \in Seq(UrlChar)
      /\ part = <<>> => s = <<>>
      /\ part # <<>> => part[1] \in Seq(P) /\ s = <<mark>> \o part[1]
  BY Zenon, <1>1, MarkedText
<1>3. s \in Seq(Char)
  <2> HIDE DEF s
  <2> QED BY Zenon, <1>1, <1>2, Wider
<1>4. part = <<>> => off + Len(s) = off
  <2> HIDE DEF s
  <2>1. part = <<>> => Len(s) = 0
    BY Zenon, <1>2, Empty
  <2> QED BY <2>1
<1>5. ASSUME part # <<>> PROVE \A chars : next_in(text, off, chars) <=> mark \in chars
  <2> DEFINE p == part[1]
             m == <<mark>>
  <2>1. p \in Seq(P) /\ s = m \o p
    BY Zenon, <1>2, <1>5
  <2>2. mark \in Char /\ m[1] = mark /\ P \subseteq Char /\ m # <<>>
    BY Zenon, <1>1, OneIn
  <2> HIDE DEF p
  <2>3. p \in Seq(Char) /\ m \in Seq(Char)
    BY Zenon, <2>1, <2>2, Wider, OneIn
  <2> HIDE DEF m
  <2>4. sees(text, off, m)
    BY Zenon, <2>1, <2>3, SeesParts
  <2> QED BY Zenon, <2>2, <2>3, <2>4, NextIsFirst
<1> QED BY Zenon, <1>3, <1>4, <1>5

\* None of the characters of a part follow it.
PartsEnd(text, head) ==
    /\ ~next_in(text, PathEnd(head), Pchar \cup {"/"})
    /\ head.url.query = <<>> => ~next_in(text, PathEnd(head), {"?"})
    /\ ~next_in(text, QueryEnd(head), Pchar \cup {"/", "?"})
    /\ head.url.fragment = <<>> => ~next_in(text, QueryEnd(head), {"#"})
    /\ ~next_in(text, VersionAt(head), Pchar \cup {"/", "?"})

LEMMA PartsEndThere ==
    ASSUME NEW head, IsURL(head.url), NEW text, UrlLaid(text, head)
    PROVE  PartsEnd(text, head)
<1> DEFINE P == Pchar \cup {"/"}
           Q == Pchar \cup {"/", "?"}
           q == head.url.query
           g == head.url.fragment
           o == PathEnd(head)
           k == QueryEnd(head)
           v == VersionAt(head)
<1>1. q \in Optional(Seq(Q)) /\ g \in Optional(Seq(Q)) /\ "?" \in UrlChar /\ "#" \in UrlChar
  BY Zenon, UrlMarks DEF IsURL
<1>2. /\ text \in Seq(Char) /\ o \in Nat /\ sees(text, o, Marked("?", q))
      /\ k \in Nat /\ sees(text, k, Marked("#", g)) /\ v = k + Len(Marked("#", g))
      /\ k = o + Len(Marked("?", q))
      /\ \A chars : next_in(text, v, chars) <=> Gap \in chars
  BY Zenon DEF UrlLaid, QueryEnd
<1> HIDE DEF o, v, k
<1>3. /\ q = <<>> => k = o
      /\ q # <<>> => \A chars : next_in(text, o, chars) <=> "?" \in chars
  BY Zenon, <1>1, <1>2, AtMarked
<1>4. /\ g = <<>> => v = k
      /\ g # <<>> => \A chars : next_in(text, k, chars) <=> "#" \in chars
  <2>1. text \in Seq(Char) /\ k \in Nat /\ sees(text, k, Marked("#", g)) /\ v = k + Len(Marked("#", g))
    BY Zenon, <1>2
  <2>2. "#" \in UrlChar /\ g \in Optional(Seq(Q))
    BY Zenon, <1>1
  <2>3. /\ g = <<>> => k + Len(Marked("#", g)) = k
        /\ g # <<>> => \A chars : next_in(text, k, chars) <=> "#" \in chars
    BY ZenonT(60), <2>1, <2>2, AtMarked
  <2> QED BY Zenon, <2>1, <2>3
<1>5. /\ "?" \notin P /\ "#" \notin Q /\ "#" \notin P /\ Gap \notin Q /\ Gap \notin P
      /\ Gap \notin {"?"} /\ Gap \notin {"#"}
  BY Zenon, MarksApart
<1>6. "#" \notin {"?"}
  BY Zenon
<1> HIDE DEF P, Q, q, g
<1>7. ~next_in(text, v, Q)
  BY Zenon, <1>2, <1>5
<1>8. ~next_in(text, k, Q) /\ ~next_in(text, k, P) /\ ~next_in(text, k, {"?"})
  <2>1. CASE g = <<>>
    <3>1. v = k
      BY Zenon, <1>4, <2>1
    <3>2. ~next_in(text, v, Q) /\ ~next_in(text, v, P) /\ ~next_in(text, v, {"?"})
      BY Zenon, <1>2, <1>5
    <3> QED BY Zenon, <3>1, <3>2
  <2>2. CASE g # <<>>
    BY Zenon, <1>4, <1>5, <1>6, <2>2
  <2> QED BY Zenon, <2>1, <2>2
<1>9. g = <<>> => ~next_in(text, k, {"#"})
  <2>1. ~next_in(text, v, {"#"})
    BY Zenon, <1>2, <1>5
  <2> QED BY Zenon, <1>4, <2>1
<1>10. ~next_in(text, o, P)
  <2>1. CASE q = <<>>
    BY Zenon, <1>3, <1>8, <2>1
  <2>2. CASE q # <<>>
    BY Zenon, <1>3, <1>5, <2>2
  <2> QED BY Zenon, <2>1, <2>2
<1>11. q = <<>> => ~next_in(text, o, {"?"})
  BY Zenon, <1>3, <1>8
<1> QED BY Zenon, <1>7, <1>8, <1>9, <1>10, <1>11 DEF PartsEnd, P, Q, q, g, o, k, v

\* What a query and a fragment are read as.
TailIs(q, g, text, head) ==
    /\ q = Read(QueryEnd(head), q.val) /\ q.res = "true" /\ q.off = QueryEnd(head)
    /\ Denoted(text, q.val) = Part(head.url.query)
    /\ g = Read(VersionAt(head), g.val) /\ g.res = "true" /\ g.off = VersionAt(head)
    /\ Denoted(text, g.val) = Part(head.url.fragment)

LEMMA TailRead ==
    ASSUME NEW head, IsURL(head.url), NEW text, UrlLaid(text, head)
    PROVE  TailIs(parse_marked(text, PathEnd(head), "?"), parse_marked(text, QueryEnd(head), "#"),
                  text, head)
<1> DEFINE Q == Pchar \cup {"/", "?"}
           q == head.url.query
           g == head.url.fragment
           o == PathEnd(head)
           k == QueryEnd(head)
           v == VersionAt(head)
           r == parse_marked(text, o, "?")
           s == parse_marked(text, k, "#")
<1>1. q \in Optional(Seq(Q)) /\ g \in Optional(Seq(Q)) /\ "?" \in UrlChar /\ "#" \in UrlChar
  BY Zenon, UrlMarks DEF IsURL
<1>2. /\ text \in Seq(Char) /\ o \in Nat /\ sees(text, o, Marked("?", q))
      /\ k \in Nat /\ sees(text, k, Marked("#", g)) /\ v = k + Len(Marked("#", g))
      /\ k = o + Len(Marked("?", q))
  BY Zenon DEF UrlLaid, QueryEnd
<1>3. /\ q = <<>> => ~next_in(text, o, {"?"})
      /\ ~next_in(text, k, Q)
      /\ g = <<>> => ~next_in(text, k, {"#"})
      /\ ~next_in(text, v, Q)
  BY Zenon, PartsEndThere DEF PartsEnd
<1> HIDE DEF o, v, k, q, g
<1>4. r = Read(k, r.val) /\ Denoted(text, r.val) = Part(q)
  <2>1. Marked("?", q) \in Seq(Char)
    BY Zenon, <1>1, <1>2, AtMarked
  <2>2. Followed(text, o, Marked("?", q), Q)
    BY Zenon, <1>2, <1>3, <2>1 DEF Followed
  <2>3. r = Read(o + Len(Marked("?", q)), r.val) /\ Denoted(text, r.val) = Part(q)
    BY Zenon, <1>1, <1>3, <2>2, MarkedAt
  <2> QED BY Zenon, <1>2, <2>3
<1>5. s = Read(v, s.val) /\ Denoted(text, s.val) = Part(g)
  <2>1. Marked("#", g) \in Seq(Char)
    BY Zenon, <1>1, <1>2, AtMarked
  <2>2. Followed(text, k, Marked("#", g), Q)
    BY Zenon, <1>2, <1>3, <2>1 DEF Followed
  <2>3. s = Read(k + Len(Marked("#", g)), s.val) /\ Denoted(text, s.val) = Part(g)
    BY Zenon, <1>1, <1>3, <2>2, MarkedAt
  <2> QED BY Zenon, <1>2, <2>3
<1> HIDE DEF r, s
<1>6. r.res = "true" /\ r.off = k
  <2>1. Read(k, r.val).res = "true" /\ Read(k, r.val).off = k
    BY DEF Read
  <2> QED BY Zenon, <1>4, <2>1
<1>7. s.res = "true" /\ s.off = v
  <2>1. Read(v, s.val).res = "true" /\ Read(v, s.val).off = v
    BY DEF Read
  <2> QED BY Zenon, <1>5, <2>1
<1> QED BY Zenon, <1>4, <1>5, <1>6, <1>7 DEF TailIs, r, s, o, k, v, q, g

\* The parts of a URL, each read behind the one before it.
ReadParts(text, off, s, absolute, a, p, q, g) ==
    /\ s = parse_scheme(text, off) /\ s.res = "true"
    /\ absolute = sees(text, s.off, Slashes)
    /\ a = IF absolute THEN parse_authority(text, s.off + 2) ELSE Read(s.off, NoAuthority)
    /\ p = url_path(text, a.off, absolute)
    /\ q = parse_marked(text, p.off, "?")
    /\ g = parse_marked(text, q.off, "#")

LEMMA URLUnfolds ==
    ASSUME NEW text, NEW off, NEW s, NEW absolute, NEW a, NEW p, NEW q, NEW g,
           ReadParts(text, off, s, absolute, a, p, q, g)
    PROVE  /\ a.res # "true" => parse_url(text, off) = a
           /\ a.res = "true" /\ p.res # "true" => parse_url(text, off) = p
           /\ a.res = "true" /\ p.res = "true" /\ q.res = "true" /\ g.res = "true" =>
                 parse_url(text, off) =
                    Read(g.off, [full |-> Slice(off, g.off), scheme |-> s.val,
                                 authority |-> a.val, path |-> p.val,
                                 query |-> q.val, fragment |-> g.val])
<1> DEFINE all == Read(g.off, [full |-> Slice(off, g.off), scheme |-> s.val,
                               authority |-> a.val, path |-> p.val,
                               query |-> q.val, fragment |-> g.val])
           r4 == IF g.res = "true" THEN all ELSE g
           r3 == IF q.res = "true" THEN r4 ELSE q
           r2 == IF p.res = "true" THEN r3 ELSE p
           r1 == IF a.res = "true" THEN r2 ELSE a
<1>1. parse_url(text, off) = IF s.res = "true" THEN r1 ELSE s
  <2> DEFINE s0 == parse_scheme(text, off)
             absolute0 == sees(text, s0.off, Slashes)
             a0 == IF absolute0 THEN parse_authority(text, s0.off + 2) ELSE Read(s0.off, NoAuthority)
             p0 == url_path(text, a0.off, absolute0)
             q0 == parse_marked(text, p0.off, "?")
             g0 == parse_marked(text, q0.off, "#")
             all0 == Read(g0.off, [full |-> Slice(off, g0.off), scheme |-> s0.val,
                                   authority |-> a0.val, path |-> p0.val,
                                   query |-> q0.val, fragment |-> g0.val])
  <2>1. parse_url(text, off) =
          IF s0.res = "true"
          THEN IF a0.res = "true"
               THEN IF p0.res = "true"
                    THEN IF q0.res = "true" THEN IF g0.res = "true" THEN all0 ELSE g0 ELSE q0
                    ELSE p0
               ELSE a0
          ELSE s0
    BY DEF parse_url, Then, Slashes
  <2>2. s = s0
    BY Zenon DEF ReadParts
  <2>3. absolute = absolute0
    BY Zenon, <2>2 DEF ReadParts
  <2>4. a = a0
    BY Zenon, <2>2, <2>3 DEF ReadParts
  <2>5. p = p0
    <3> HIDE DEF a0, absolute0
    <3> QED BY Zenon, <2>3, <2>4 DEF ReadParts
  <2>6. q = q0
    <3> HIDE DEF p0
    <3> QED BY Zenon, <2>5 DEF ReadParts
  <2>7. g = g0
    <3> HIDE DEF q0
    <3> QED BY Zenon, <2>6 DEF ReadParts
  <2> HIDE DEF s0, a0, p0, q0, g0
  <2> QED BY Zenon, <2>1, <2>2, <2>4, <2>5, <2>6, <2>7
<1> HIDE DEF all
<1>2. parse_url(text, off) = r1
  BY Zenon, <1>1 DEF ReadParts
<1>3. a.res # "true" => parse_url(text, off) = a
  BY Zenon, <1>2
<1>4. a.res = "true" /\ p.res # "true" => parse_url(text, off) = p
  BY Zenon, <1>2
<1>5. a.res = "true" /\ p.res = "true" /\ q.res = "true" /\ g.res = "true" => parse_url(text, off) = all
  BY Zenon, <1>2
<1> QED BY Zenon, <1>3, <1>4, <1>5 DEF all

\* What a URL without an authority is read as.
URLMeans(url, text, head) ==
    /\ url.res = "true" /\ url.off = VersionAt(head)
    /\ Denoted(text, url.val.full) = URLText(head.url)
    /\ Denoted(text, url.val.path) = head.url.path
    /\ Denoted(text, url.val.query) = Part(head.url.query)
    /\ Denoted(text, url.val.fragment) = Part(head.url.fragment)

\* The path of a URL is followed by none of its characters.
LEMMA PathFollowed ==
    ASSUME NEW head, IsURL(head.url), NEW text, UrlLaid(text, head)
    PROVE  Followed(text, PathAt(head), head.url.path, Pchar \cup {"/"})
<1> DEFINE p == head.url.path
<1>1. p \in Seq(UrlChar) /\ UrlChar \subseteq Char
  BY Zenon, URLParts, UrlClasses
<1>2. p \in Seq(Char)
  <2> HIDE DEF p
  <2> QED BY Zenon, <1>1, Wider
<1>3. ~next_in(text, PathEnd(head), Pchar \cup {"/"})
  BY Zenon, PartsEndThere DEF PartsEnd
<1> QED BY Zenon, <1>2, <1>3 DEF Followed, UrlLaid, PathEnd

LEMMA RelativeRead ==
    ASSUME NEW head \in RequestTexts, head.url.authority = <<>>,
           NEW text, text = HeadText(head)
    PROVE  URLMeans(parse_url(text, UrlAt(head)), text, head)
<1> DEFINE o == UrlAt(head)
           P == Pchar \cup {"/"}
           path == head.url.path
           s == parse_scheme(text, o)
           a == Read(s.off, NoAuthority)
           p == url_path(text, a.off, FALSE)
           q == parse_marked(text, p.off, "?")
           g == parse_marked(text, q.off, "#")
           end == span(text, o, P)
           url == [full |-> Slice(o, g.off), scheme |-> s.val, authority |-> a.val, path |-> p.val,
                   query |-> q.val, fragment |-> g.val]
<1>1. /\ IsURL(head.url) /\ UrlLaid(text, head)
      /\ text \in Seq(Char) /\ o \in Nat /\ sees(text, o, URLText(head.url))
  BY Zenon, HeadIs, UrlIs, MeaningAssumption DEF HeadLaid, IsHead
<1>2. PathAt(head) = o
  <2>1. Front(head.url) = <<>>
    BY Zenon DEF Front
  <2>2. Len(Front(head.url)) = 0
    BY Zenon, <2>1, Empty
  <2> HIDE DEF o
  <2>3. o + 0 = o
    BY <1>1
  <2> QED BY Zenon, <2>2, <2>3 DEF PathAt, o
<1>3. Followed(text, o, path, P)
  BY Zenon, <1>1, <1>2, PathFollowed
<1>4. /\ path \in Seq(P)
      /\ ~(next_in(path, 0, {"/"}) /\ next_in(path, 1, {"/"}))
      /\ next_in(path, 0, Upper) =>
            ~next_in(path, span(path, 0, Upper \cup Digit \cup {"+", "-", "."}), {":"})
  BY Zenon, <1>1 DEF IsURL
<1>5. s = Read(o, NoSlice) /\ ~sees(text, o, Slashes)
  BY Zenon, <1>3, <1>4, NoScheme, NotAbsolute
<1>6. s.res = "true" /\ s.off = o /\ a.res = "true" /\ a.off = o
  <2> HIDE DEF o
  <2>1. s.res = "true" /\ s.off = o
    BY <1>5 DEF Read
  <2> HIDE DEF s
  <2> QED BY <2>1 DEF Read
<1>7. end = PathEnd(head) /\ o + Len(path) = PathEnd(head) /\ path \in Seq(Char)
  <2>1. text \in Seq(Char) /\ path \in Seq(Char) /\ sees(text, o, path) /\ ~next_in(text, o + Len(path), P)
    BY Zenon, <1>3 DEF Followed
  <2>2. PathEnd(head) = o + Len(path)
    BY Zenon, <1>2 DEF PathEnd
  <2> HIDE DEF P, o, path
  <2>3. span(text, o, P) = o + Len(path)
    BY Zenon, <1>1, <1>4, <2>1, SpanOf
  <2> QED BY Zenon, <2>1, <2>2, <2>3 DEF end
<1>8. url_path(text, o, FALSE) = Read(end, Slice(o, end))
  BY Zenon DEF url_path
<1> HIDE DEF o, end, s, a, P, path
<1>9. p = Read(PathEnd(head), Slice(o, PathEnd(head)))
  BY Zenon, <1>6, <1>7, <1>8
<1>10. p.res = "true" /\ p.off = PathEnd(head) /\ p.val = Slice(o, PathEnd(head))
  <2> DEFINE e == PathEnd(head)
             v == Slice(o, e)
  <2>1. Read(e, v).res = "true" /\ Read(e, v).off = e /\ Read(e, v).val = v
    BY Zenon DEF Read
  <2> HIDE DEF p
  <2> QED BY Zenon, <1>9, <2>1
<1> HIDE DEF p
<1>11. TailIs(q, g, text, head)
  <2>1. TailIs(parse_marked(text, PathEnd(head), "?"), parse_marked(text, QueryEnd(head), "#"),
               text, head)
    BY Zenon, <1>1, TailRead
  <2>2. q = parse_marked(text, PathEnd(head), "?")
    BY Zenon, <1>10
  <2>3. q.off = QueryEnd(head)
    BY Zenon, <2>1, <2>2 DEF TailIs
  <2> QED BY Zenon, <2>1, <2>2, <2>3
<1>12. /\ q.res = "true" /\ g.res = "true" /\ g.off = VersionAt(head)
       /\ Denoted(text, q.val) = Part(head.url.query)
       /\ Denoted(text, g.val) = Part(head.url.fragment)
  BY Zenon, <1>11 DEF TailIs
<1> HIDE DEF q, g
<1>13. parse_url(text, o) = Read(g.off, url)
  <2> DEFINE absolute == sees(text, s.off, Slashes)
             b == IF absolute THEN parse_authority(text, s.off + 2) ELSE Read(s.off, NoAuthority)
  <2>1. absolute = FALSE
    BY Zenon, <1>5, <1>6 DEF sees
  <2>2. b = a
    BY Zenon, <2>1 DEF a
  <2> HIDE DEF absolute
  <2>3. s = parse_scheme(text, o) /\ s.res = "true" /\ a.res = "true" /\ p.res = "true"
    BY Zenon, <1>6, <1>10 DEF s
  <2>4. b = IF absolute THEN parse_authority(text, s.off + 2) ELSE Read(s.off, NoAuthority)
    BY Zenon
  <2> HIDE DEF b
  <2>5. a = IF absolute THEN parse_authority(text, s.off + 2) ELSE Read(s.off, NoAuthority)
    BY Zenon, <2>2, <2>4
  <2>6. p = url_path(text, a.off, absolute)
    BY Zenon, <2>1 DEF p
  <2>7. absolute = sees(text, s.off, Slashes)
    BY Zenon DEF absolute
  <2>8. q = parse_marked(text, p.off, "?") /\ g = parse_marked(text, q.off, "#")
    BY Zenon DEF q, g
  <2>9. parse_url(text, o) =
           Read(g.off, [full |-> Slice(o, g.off), scheme |-> s.val, authority |-> a.val, path |-> p.val,
                        query |-> q.val, fragment |-> g.val])
    <3>1. q.res = "true" /\ g.res = "true"
      BY Zenon, <1>12
    <3>2. ReadParts(text, o, s, absolute, a, p, q, g)
      BY Zenon, <2>3, <2>5, <2>6, <2>7, <2>8 DEF ReadParts
    <3>3. a.res = "true" /\ p.res = "true"
      BY Zenon, <2>3
    <3> QED BY SMT, <3>1, <3>2, <3>3, URLUnfolds
  <2> QED BY Zenon, <2>9
<1>14. /\ url.full = Slice(o, g.off) /\ url.path = p.val /\ url.query = q.val /\ url.fragment = g.val
  BY Zenon
<1> HIDE DEF url
<1>15. Read(g.off, url).res = "true" /\ Read(g.off, url).off = g.off /\ Read(g.off, url).val = url
  BY Zenon DEF Read
<1>16. Denoted(text, url.path) = path
  <2>1. Denoted(text, Slice(o, o + Len(path))) = path
    BY Zenon, <1>1, <1>3, DenotedIs DEF Followed
  <2> QED BY Zenon, <1>7, <1>10, <1>14, <2>1
<1>17. Denoted(text, url.full) = URLText(head.url)
  <2>1. URLText(head.url) \in Seq(Char)
    <3>1. URLText(head.url) \in Seq(UrlChar) /\ UrlChar \subseteq Char
      BY Zenon, <1>1, URLParts, UrlClasses
    <3> QED BY Zenon, <3>1, Wider
  <2>2. Denoted(text, Slice(o, o + Len(URLText(head.url)))) = URLText(head.url)
    BY Zenon, <1>1, <2>1, DenotedIs
  <2>3. VersionAt(head) = o + Len(URLText(head.url))
    BY Zenon DEF VersionAt, o
  <2> QED BY Zenon, <1>12, <1>14, <2>2, <2>3
<1> QED BY Zenon, <1>12, <1>13, <1>14, <1>15, <1>16, <1>17 DEF URLMeans, o, path

\* What has arrived belongs to its head.
LEMMA ArrivalOf ==
    ASSUME NEW head, NEW t \in Arrivals(head)
    PROVE  t.of = head
BY DEF Arrivals

\* A head whose URL has no authority is accepted, and what is read from it is what
\* was written: its method, the parts of its URL, and the headers that fit, in
\* order.
THEOREM RequestsAreAsMeant == Spec => []RequestAsMeant
<1>1. Called => RequestAsMeant
  <2> DEFINE t == arg.means
             head == t.of
             text == RequestText(t)
             url == parse_url(text, UrlAt(head))
             r == parse_request(text)
             n == Len(HeadText(head))
  <2> SUFFICES ASSUME Called, arg.fn = "Request", IsWhole(t), head.url.authority = <<>>
               PROVE  /\ ret = [res |-> "true", off |-> n] /\ req.valid
                      /\ req.method = head.method
                      /\ Denoted(text, req.url.full) = URLText(head.url)
                      /\ Denoted(text, req.url.path) = head.url.path
                      /\ Denoted(text, req.url.query) = Part(head.url.query)
                      /\ Denoted(text, req.url.fragment) = Part(head.url.fragment)
                      /\ Len(req.headers) + req.ignored_count = Len(head.headers)
                      /\ req.ignored_count > 0 => Len(req.headers) = MAX_REQUEST_HEADERS
                      /\ \A i \in 1 .. Len(req.headers) :
                            /\ Denoted(text, req.headers[i].name) = head.headers[i].name
                            /\ Denoted(text, req.headers[i].value) = head.headers[i].value.text
    BY Zenon DEF RequestAsMeant, Part
  <2>1. PICK x : /\ arg = Call("Request", x) /\ Parsed(x)
                 /\ ret.res = parse_request(RequestText(x)).res
                 /\ ret = [res |-> ret.res, off |-> parse_request(RequestText(x)).off]
    BY Zenon, CalledFunction DEF RequestCalled
  <2>2. x = t
    BY Zenon, <2>1, CallFields
  <2>3. Parsed(t) /\ ret = [res |-> r.res, off |-> r.off]
    BY Zenon, <2>1, <2>2
  <2>4. PICK h \in RequestTexts : t \in Arrivals(h)
    BY Zenon, <2>3 DEF Parsed
  <2>5. head = h
    BY Zenon, <2>4, ArrivalOf
  <2>6. head \in RequestTexts /\ text = HeadText(head)
    BY Zenon, <2>4, <2>5, WholeText DEF IsWhole
  <2>7. URLMeans(url, text, head)
    BY Zenon, <2>6, RelativeRead
  <2>8. WhollyRead(r, text, head, url.val)
    BY Zenon, <2>6, <2>7, ReadThrough DEF URLMeans
  <2>9. req = r.val
    BY Zenon, <2>3 DEF Parsed
  <2>10. /\ r.res = "true" /\ r.off = n /\ req.valid /\ req.method = head.method /\ req.url = url.val
         /\ HeadersKept(text, req, head.headers)
    BY Zenon, <2>6, <2>8, <2>9 DEF WhollyRead
  <2>11. ret = [res |-> "true", off |-> n]
    BY Zenon, <2>3, <2>10
  <2>12. /\ Denoted(text, req.url.full) = URLText(head.url)
         /\ Denoted(text, req.url.path) = head.url.path
         /\ Denoted(text, req.url.query) = Part(head.url.query)
         /\ Denoted(text, req.url.fragment) = Part(head.url.fragment)
    BY Zenon, <2>7, <2>10 DEF URLMeans
  <2>13. /\ Len(req.headers) + req.ignored_count = Len(head.headers)
         /\ req.ignored_count > 0 => Len(req.headers) = MAX_REQUEST_HEADERS
    <3> DEFINE k == Len(req.headers)
               m == Len(head.headers)
               c == req.ignored_count
    <3>1. (k = IF m < MAX_REQUEST_HEADERS THEN m ELSE MAX_REQUEST_HEADERS) /\ c = m - k
      BY Zenon, <2>10 DEF HeadersKept
    <3>2. m \in Nat /\ MAX_REQUEST_HEADERS \in Nat
      <4>1. head.headers \in Seq(HeaderLine)
        BY Zenon, <2>6, MeaningAssumption DEF IsHead
      <4>2. m \in Nat
        BY <4>1
      <4> QED BY <4>2, LimitsAssumption
    <3> HIDE DEF k, m, c
    <3>3. k + c = m /\ (c > 0 => k = MAX_REQUEST_HEADERS)
      BY <3>1, <3>2
    <3> QED BY Zenon, <3>3 DEF k, m, c
  <2>14. \A i \in 1 .. Len(req.headers) :
            /\ Denoted(text, req.headers[i].name) = head.headers[i].name
            /\ Denoted(text, req.headers[i].value) = head.headers[i].value.text
    BY Zenon, <2>10 DEF HeadersKept, Denotes
  <2> QED BY Zenon, <2>10, <2>11, <2>12, <2>13, <2>14
<1> QED BY <1>1, AlwaysCalled, PTL

-----------------------------------------------------------------------------
(* No part of a URL is read over what cannot be part of it.                 *)

Wall(text, end) == text \in Seq(Char) /\ end \in 0 .. Len(text) /\ ~next_in(text, end, UrlChar)

LEMMA WallPlaces ==
    ASSUME NEW text, NEW end, Wall(text, end), NEW off \in 0 .. end
    PROVE  /\ Len(text) \in Nat /\ end \in Nat /\ off \in Nat /\ off \in 0 .. Len(text)
           /\ \A chars : next_in(text, off, chars) /\ chars \subseteq UrlChar => off + 1 \in 0 .. end
<1>1. Len(text) \in Nat /\ end \in 0 .. Len(text)
  <2>1. text \in Seq(Char) /\ end \in 0 .. Len(text)
    BY Zenon DEF Wall
  <2> QED BY <2>1
<1>2. end \in Nat /\ off \in Nat /\ off \in 0 .. Len(text) /\ (off # end => off + 1 \in 0 .. end)
  BY <1>1
<1>3. ASSUME NEW chars, next_in(text, off, chars), chars \subseteq UrlChar
      PROVE  off + 1 \in 0 .. end
  <2>1. off # end
    BY Zenon, <1>3, FewerNext DEF Wall
  <2> QED BY Zenon, <1>2, <2>1
<1> QED BY Zenon, <1>1, <1>2, <1>3

LEMMA SpanStops ==
    ASSUME NEW text, NEW end, Wall(text, end), NEW off \in 0 .. end, NEW chars, chars \subseteq UrlChar
    PROVE  span(text, off, chars) \in off .. end
<1> DEFINE stop == span(text, off, chars)
<1>1. Len(text) \in Nat /\ end \in Nat /\ off \in Nat /\ off \in 0 .. Len(text)
  BY Zenon, WallPlaces
<1>2. stop \in off .. Len(text) /\ \A i \in off .. stop - 1 : text[i + 1] \in chars
  BY Zenon, <1>1, SpanEnds
<1> HIDE DEF stop
<1>3. ASSUME stop > end PROVE FALSE
  <2>1. end \in off .. stop - 1 /\ end < Len(text)
    BY <1>1, <1>2, <1>3
  <2>2. text[end + 1] \in chars
    BY Zenon, <1>2, <2>1
  <2> QED BY Zenon, <2>1, <2>2 DEF Wall, next_in
<1>4. stop \in off .. end
  BY <1>1, <1>2, <1>3
<1> QED BY Zenon, <1>4 DEF stop

\* The cursor does not pass "end" when something is read.
Stops(r, from, end) == r.res = "true" => r.off \in from .. end

LEMMA NumberStops ==
    ASSUME NEW text, NEW end, Wall(text, end), NEW off \in 0 .. end, NEW max, Limit(max)
    PROVE  parse_number(text, off, 10, max).off \in off .. end
<1> DEFINE stop == span(text, off, Digit)
           digits == SubSeq(text, off + 1, stop)
           value == Accumulated(digits, 10, max)
           n == Len(digits)
           count == count_in(value)
           r == parse_number(text, off, 10, max)
<1>1. Len(text) \in Nat /\ end \in Nat /\ off \in Nat /\ off \in 0 .. Len(text)
  BY Zenon, WallPlaces
<1>2. stop \in off .. end /\ text \in Seq(Char)
  BY Zenon, SpanStops, UrlClasses DEF Wall
<1>3. IsDigits(digits) /\ n = stop - off
  BY Zenon, <1>1, <1>2, DigitsOf
<1>4. r = number_of(text, off, 10, value)
  BY Zenon DEF parse_number
<1>5. r.off \in off .. Len(text)
  <2>1. 10 \in {10, 16} /\ max \in Nat /\ max >= 9 /\ 10 = 10
    BY DEF Limit
  <2>2. r \in Results(text, off, 0 .. max) /\ r # Abort
    BY Zenon, <1>1, <1>2, <2>1, NumberRead
  <2> HIDE DEF r
  <2> QED BY <2>2 DEF Results
<1> HIDE DEF stop, digits
<1>6. n \in Nat /\ DOMAIN value = 0 .. n /\ value[0] # -1
  <2>1. max \in Nat /\ 10 \in {10, 16} /\ n \in Nat
    BY <1>1, <1>2, <1>3 DEF Limit
  <2>2. value \in [0 .. Len(digits) -> -1 .. max] /\ value[0] = 0
    BY Zenon, <1>3, <2>1, AccumulatedUnfolds
  <2> HIDE DEF value
  <2> QED BY <2>1, <2>2
<1> HIDE DEF value, n
<1>7. count \in 0 .. n
  BY Zenon, <1>6, CountIn
<1>8. r.off \in {off + count - 1, off, off + count}
  <2>1. r = IF count + 1 \in DOMAIN value THEN Read(off + count - 1, value[count])
            ELSE IF 10 = 16 /\ next_in(text, off + count, HexLetter) THEN Abort
            ELSE IF count = 0 THEN Unread(off)
            ELSE Read(off + count, value[count])
    BY Zenon, <1>4 DEF number_of
  <2> HIDE DEF r, count
  <2>2. r = Read(off + count - 1, value[count]) \/ r = Unread(off) \/ r = Read(off + count, value[count])
    BY <2>1
  <2> QED BY <2>2 DEF Read, Unread
<1> HIDE DEF count, r
<1>9. r.off \in off .. end
  BY <1>1, <1>2, <1>3, <1>5, <1>7, <1>8
<1> QED BY Zenon, <1>9 DEF r

\* An IPv4 address: wherever the cursor is left.
LEMMA IPv4Stops ==
    ASSUME NEW text, NEW end, Wall(text, end), NEW off \in 0 .. end
    PROVE  parse_ipv4(text, off).off \in off .. end
<1>1. Len(text) \in Nat /\ end \in Nat /\ off \in Nat /\ off \in 0 .. Len(text) /\ text \in Seq(Char)
  BY Zenon, WallPlaces DEF Wall
<1>2. PICK g : Octets(g, text, off) /\ parse_ipv4(text, off) = g[4]
  BY Zenon, <1>1, IPv4Unfolds
<1> DEFINE T == {i \in 0 .. 4 : g[i].off \in off .. end}
<1>3. Limit(UINT8_MAX)
  BY LimitsAssumption DEF Limit
<1>4. 0 \in T
  <2>1. g[0] = Read(off, <<>>)
    BY Zenon, <1>2 DEF Octets
  <2>2. g[0].off = off
    BY <2>1 DEF Read
  <2> QED BY <1>1, <2>2
<1>5. ASSUME NEW i \in 1 .. 4, i - 1 \in T PROVE i \in T
  <2> DEFINE s == g[i - 1]
             start == IF s.val = <<>> THEN s.off ELSE s.off + 1
             num == parse_number(text, start, 10, UINT8_MAX)
             r == next_group(text, s, ".", 10, UINT8_MAX)
  <2>1. s.off \in off .. end
    BY <1>5
  <2>2. g[i] = IF s.res = "true" THEN r ELSE s
    BY Zenon, <1>2 DEF Octets
  <2> HIDE DEF s
  <2>3. r = IF s.val # <<>> /\ ~next_in(text, s.off, {"."}) THEN Unread(s.off)
            ELSE IF num.res = "true" THEN Read(num.off, Append(s.val, num.val)) ELSE num
    BY DEF next_group, Then
  <2>4. CASE s.val # <<>> /\ ~next_in(text, s.off, {"."})
    <3>1. r = Unread(s.off)
      BY Zenon, <2>3, <2>4
    <3> HIDE DEF r
    <3>2. r.off = s.off
      BY <3>1 DEF Unread
    <3> QED BY <2>1, <2>2, <3>2
  <2>5. CASE ~(s.val # <<>> /\ ~next_in(text, s.off, {"."}))
    <3>1. start \in 0 .. end /\ start \in off .. end
      <4>1. s.off \in 0 .. end
        BY <1>1, <2>1
      <4>2. next_in(text, s.off, {"."}) => s.off + 1 \in 0 .. end
        <5>1. {"."} \subseteq UrlChar
          BY Zenon, UrlMarks
        <5> QED BY Zenon, <4>1, <5>1, WallPlaces
      <4>3. CASE s.val = <<>>
        BY Zenon, <2>1, <4>1, <4>3
      <4>4. CASE s.val # <<>>
        <5>1. start = s.off + 1 /\ s.off + 1 \in 0 .. end
          BY Zenon, <2>5, <4>2, <4>4
        <5> HIDE DEF start
        <5> QED BY <1>1, <2>1, <5>1
      <4> QED BY Zenon, <4>3, <4>4
    <3> HIDE DEF start
    <3>2. num.off \in start .. end
      BY Zenon, <1>3, <3>1, NumberStops
    <3> HIDE DEF num
    <3>3. r = IF num.res = "true" THEN Read(num.off, Append(s.val, num.val)) ELSE num
      BY Zenon, <2>3, <2>5
    <3> HIDE DEF r
    <3>4. r.off = num.off
      BY <3>3 DEF Read
    <3> QED BY <1>1, <2>1, <2>2, <3>1, <3>2, <3>4
  <2> QED BY Zenon, <2>4, <2>5
<1>6. 0 .. 4 \subseteq T
  <2>1. 4 \in Nat
    OBVIOUS
  <2> HIDE DEF T
  <2> QED BY Zenon, <1>4, <1>5, <2>1, Upwards
<1>7. 4 \in T
  BY <1>6
<1>8. g[4].off \in off .. end
  BY Zenon, <1>7
<1> QED BY Zenon, <1>2, <1>8

\* No IPv6 address begins with a bracket, as the host does that is to be one.
LEMMA NoIPv6 ==
    ASSUME NEW text \in Seq(Char), NEW off \in 0 .. Len(text), next_in(text, off, {"["})
    PROVE  parse_ipv6(text, off).res # "true"
<1>1. off \in Nat /\ ~next_in(text, off, Digit) /\ ~sees(text, off, Colons)
  <2>1. off \in Nat
    OBVIOUS
  <2>2. "[" \notin Digit
    <3>1. "[" \notin {"0", "1", "2", "3", "4", "5", "6", "7", "8", "9"}
      BY Zenon
    <3> QED BY Zenon, <3>1, NotDigit
  <2>3. "[" \notin {":"}
    BY Zenon
  <2>4. ~next_in(text, off, Digit) /\ ~next_in(text, off, {":"})
    BY Zenon, <2>2, <2>3 DEF next_in
  <2> QED BY Zenon, <2>1, <2>4, SeesColons
<1> DEFINE first == Read(off, <<>>)
           num == parse_number(text, off, 16, UINT16_MAX)
<1>2. PICK g : Groups(g, text, off, 8, TRUE) /\ groups16(text, off, 8, TRUE) = g[8]
  <2>1. 8 \in Nat /\ TRUE \in BOOLEAN
    OBVIOUS
  <2> QED BY Zenon, <2>1, Groups16Unfold
<1>3. num.res # "true"
  <2>1. 16 \in {10, 16} /\ Limit(UINT16_MAX)
    BY LimitsAssumption DEF Limit
  <2> QED BY Zenon, <1>1, <2>1, NoNumber
<1>4. next_group(text, first, ":", 16, UINT16_MAX) = num
  <2>1. first.val = <<>> /\ first.off = off
    BY DEF Read
  <2> HIDE DEF first
  <2> QED BY Zenon, <1>3, <2>1 DEF next_group, Then
<1>5. g[1].res # "true"
  <2>1. g[0] = first
    BY Zenon, <1>2 DEF Groups
  <2>2. first.res = "true" /\ first.off = off
    BY DEF Read
  <2>3. 1 \in 1 .. 8 /\ 1 - 1 = 0
    OBVIOUS
  <2>4. g[1] = IF g[1 - 1].res = "true"
               THEN IF TRUE /\ sees(text, g[1 - 1].off, Colons) THEN g[1 - 1]
                    ELSE next_group(text, g[1 - 1], ":", 16, UINT16_MAX)
               ELSE g[1 - 1]
    BY Zenon, <1>2, <2>3 DEF Groups
  <2> HIDE DEF first, num
  <2>5. g[1 - 1] = first
    BY Zenon, <2>1, <2>3
  <2> QED BY Zenon, <1>1, <1>3, <1>4, <2>2, <2>4, <2>5
<1>6. g[8].res # "true"
  <2> DEFINE T == {i \in 0 .. 7 : g[i + 1].res # "true"}
  <2>1. 0 \in T
    BY <1>5
  <2>2. ASSUME NEW i \in 1 .. 7, i - 1 \in T PROVE i \in T
    <3>1. i + 1 \in 1 .. 8 /\ (i + 1) - 1 = i /\ (i - 1) + 1 = i
      OBVIOUS
    <3>2. g[(i - 1) + 1].res # "true"
      BY Zenon, <2>2
    <3>3. g[(i + 1) - 1].res # "true"
      BY Zenon, <3>1, <3>2
    <3>4. g[i + 1] = g[(i + 1) - 1]
      BY Zenon, <1>2, <3>1, <3>3 DEF Groups
    <3>5. g[i + 1].res # "true"
      BY Zenon, <3>3, <3>4
    <3> QED BY <3>5
  <2>3. 0 .. 7 \subseteq T
    <3>1. 7 \in Nat
      OBVIOUS
    <3> HIDE DEF T
    <3> QED BY Zenon, <2>1, <2>2, <3>1, Upwards
  <2>4. 7 \in T /\ 7 + 1 = 8
    BY <2>3
  <2> QED BY Zenon, <2>4
<1>7. parse_ipv6(text, off) = groups16(text, off, 8, TRUE)
  BY Zenon, <1>2, <1>6, IPv6Unfolds
<1> QED BY Zenon, <1>2, <1>6, <1>7

LEMMA HostNameStops ==
    ASSUME NEW text, NEW end, Wall(text, end), NEW off \in 0 .. end
    PROVE  host_name(text, off).off \in off .. end
<1> DEFINE stop == span(text, off, Unreserved \cup Subdelim)
           v == [type |-> "NAME", text |-> Slice(off, stop)]
<1>1. stop \in off .. end
  BY Zenon, SpanStops, UrlClasses
<1>2. host_name(text, off) = Read(stop, v)
  BY Zenon DEF host_name
<1> HIDE DEF stop, v
<1>3. Read(stop, v).off = stop
  BY DEF Read
<1> QED BY Zenon, <1>1, <1>2, <1>3

LEMMA HostStops ==
    ASSUME NEW text, NEW end, Wall(text, end), NEW off \in 0 .. end
    PROVE  Stops(parse_host(text, off), off, end)
<1> DEFINE ip4 == parse_ipv4(text, off)
           ip6 == parse_ipv6(text, off)
           h == parse_host(text, off)
           v6 == [type |-> "IPV6", text |-> Slice(off, ip6.off)]
           v4 == [type |-> "IPV4", text |-> Slice(off, ip4.off)]
           r6 == IF next_in(text, ip6.off, {"]"}) THEN Read(ip6.off + 1, v6) ELSE Unread(ip6.off)
<1>1. Len(text) \in Nat /\ end \in Nat /\ off \in Nat /\ off \in 0 .. Len(text) /\ text \in Seq(Char)
  BY Zenon, WallPlaces DEF Wall
<1>2. ip4.off \in off .. end
  BY Zenon, IPv4Stops
<1>3. h = IF off = Len(text) THEN Unread(off)
          ELSE IF next_in(text, off, {"["}) THEN IF ip6.res = "true" THEN r6 ELSE ip6
          ELSE IF ~next_in(text, off, Digit) THEN host_name(text, off)
          ELSE IF ip4.res = "true" THEN Read(ip4.off, v4)
          ELSE host_name(text, ip4.off)
  BY DEF parse_host, Then
<1>4. next_in(text, off, {"["}) => ip6.res # "true"
  BY Zenon, <1>1, NoIPv6
<1>5. host_name(text, off).off \in off .. end
  BY Zenon, HostNameStops
<1>6. host_name(text, ip4.off).off \in off .. end
  <2>1. ip4.off \in 0 .. end
    BY <1>1, <1>2
  <2>2. host_name(text, ip4.off).off \in ip4.off .. end
    BY Zenon, <2>1, HostNameStops
  <2> HIDE DEF ip4
  <2> QED BY <1>1, <1>2, <2>2
<1> HIDE DEF h, r6, v4, v6, ip4, ip6
<1>7. Unread(off).res # "true" /\ Read(ip4.off, v4).off = ip4.off
  BY DEF Unread, Read
<1> QED BY Zenon, <1>2, <1>3, <1>4, <1>5, <1>6, <1>7 DEF Stops, h

LEMMA UserInfoStops ==
    ASSUME NEW text, NEW end, Wall(text, end), NEW off \in 0 .. end
    PROVE  parse_user_info(text, off).off \in off .. end /\ parse_user_info(text, off).res = "true"
<1> DEFINE stop == span(text, off, Unreserved \cup Subdelim \cup {":"})
           r == parse_user_info(text, off)
           v == Slice(off, Len(text))
<1>1. Len(text) \in Nat /\ end \in Nat /\ off \in Nat
  BY Zenon, WallPlaces
<1>2. stop \in off .. end
  BY Zenon, SpanStops, UrlClasses
<1>3. r = IF stop > off /\ next_in(text, stop, {"@"}) THEN Read(stop + 1, v) ELSE Read(off, NoSlice)
  BY Zenon DEF parse_user_info
<1> HIDE DEF stop, r, v
<1>4. next_in(text, stop, {"@"}) => stop + 1 \in 0 .. end
  <2>1. stop \in 0 .. end
    BY <1>1, <1>2
  <2>2. {"@"} \subseteq UrlChar
    BY Zenon, UrlMarks
  <2> QED BY Zenon, <2>1, <2>2, WallPlaces
<1>5. /\ Read(stop + 1, v).off = stop + 1 /\ Read(stop + 1, v).res = "true"
      /\ Read(off, NoSlice).off = off /\ Read(off, NoSlice).res = "true"
  BY Zenon DEF Read
<1>6. stop + 1 \in 0 .. end => stop + 1 \in off .. end
  BY <1>1, <1>2
<1>7. off \in off .. end
  BY <1>1, <1>2
<1>8. CASE stop > off /\ next_in(text, stop, {"@"})
  BY Zenon, <1>3, <1>4, <1>5, <1>6, <1>8 DEF r
<1>9. CASE ~(stop > off /\ next_in(text, stop, {"@"}))
  BY Zenon, <1>3, <1>5, <1>7, <1>9 DEF r
<1> QED BY Zenon, <1>8, <1>9

LEMMA PortStops ==
    ASSUME NEW text, NEW end, Wall(text, end), NEW off \in 0 .. end
    PROVE  parse_port(text, off).off \in off .. end
<1> DEFINE num == parse_number(text, off + 1, 10, UINT16_MAX)
           r == parse_port(text, off)
<1>1. Len(text) \in Nat /\ end \in Nat /\ off \in Nat
  BY Zenon, WallPlaces
<1>2. Limit(UINT16_MAX)
  BY LimitsAssumption DEF Limit
<1>3. r = IF ~next_in(text, off, {":"}) THEN Read(off, -1)
          ELSE IF next_in(text, off + 1, Digit) THEN num ELSE Read(off + 1, -1)
  BY Zenon DEF parse_port
<1>4. next_in(text, off, {":"}) => off + 1 \in 0 .. end
  <2>1. {":"} \subseteq UrlChar
    BY Zenon, UrlMarks
  <2> QED BY Zenon, <2>1, WallPlaces
<1>5. next_in(text, off, {":"}) => num.off \in off + 1 .. end
  BY Zenon, <1>2, <1>4, NumberStops
<1> HIDE DEF num, r
<1>6. Read(off, -1).off = off /\ Read(off + 1, -1).off = off + 1
  BY DEF Read
<1>7. r.off = off \/ (next_in(text, off, {":"}) /\ (r.off = num.off \/ r.off = off + 1))
  BY Zenon, <1>3, <1>6
<1>8. r.off \in off .. end
  BY <1>1, <1>4, <1>5, <1>7
<1> QED BY Zenon, <1>8 DEF r

\* An authority is what its parts are, each read behind the one before it.
AuthorityFrom(text, off, info, host, port) ==
    /\ info = parse_user_info(text, off) /\ info.res = "true"
    /\ host = parse_host(text, info.off)
    /\ port = parse_port(text, host.off)

LEMMA AuthorityUnfolds ==
    ASSUME NEW text, NEW off, NEW info, NEW host, NEW port, AuthorityFrom(text, off, info, host, port)
    PROVE  /\ host.res # "true" => parse_authority(text, off) = host
           /\ host.res = "true" /\ port.res # "true" => parse_authority(text, off) = port
           /\ host.res = "true" /\ port.res = "true" =>
                 parse_authority(text, off) =
                    Read(port.off, [userinfo |-> info.val, host |-> host.val, port |-> port.val])
<1> DEFINE i0 == parse_user_info(text, off)
           h0 == parse_host(text, i0.off)
           p0 == parse_port(text, h0.off)
           v == [userinfo |-> i0.val, host |-> h0.val, port |-> p0.val]
           r == parse_authority(text, off)
<1>1. r = IF i0.res = "true"
          THEN IF h0.res = "true" THEN IF p0.res = "true" THEN Read(p0.off, v) ELSE p0 ELSE h0
          ELSE i0
  BY DEF parse_authority, Then
<1>2. info = i0 /\ info.res = "true"
  BY Zenon DEF AuthorityFrom
<1> HIDE DEF i0
<1>3. host = h0
  BY Zenon, <1>2 DEF AuthorityFrom
<1> HIDE DEF h0
<1>4. port = p0
  BY Zenon, <1>3 DEF AuthorityFrom
<1> HIDE DEF p0
<1>5. v = [userinfo |-> info.val, host |-> host.val, port |-> port.val]
  BY SMT, <1>2, <1>3, <1>4
<1> HIDE DEF v, r
<1>6. r = IF host.res = "true" THEN IF port.res = "true" THEN Read(port.off, v) ELSE port ELSE host
  BY Zenon, <1>1, <1>2, <1>3, <1>4
<1>7. /\ host.res # "true" => r = host
      /\ host.res = "true" /\ port.res # "true" => r = port
      /\ host.res = "true" /\ port.res = "true" => r = Read(port.off, v)
  BY Zenon, <1>6
<1> QED BY SMT, <1>5, <1>7 DEF r

LEMMA AuthorityStops ==
    ASSUME NEW text, NEW end, Wall(text, end), NEW off \in 0 .. end
    PROVE  Stops(parse_authority(text, off), off, end)
<1> DEFINE info == parse_user_info(text, off)
           host == parse_host(text, info.off)
           port == parse_port(text, host.off)
           v == [userinfo |-> info.val, host |-> host.val, port |-> port.val]
           r == parse_authority(text, off)
<1>1. end \in Nat /\ off \in Nat
  BY Zenon, WallPlaces
<1>2. info.off \in off .. end /\ info.res = "true"
  BY Zenon, UserInfoStops
<1>3. AuthorityFrom(text, off, info, host, port)
  BY Zenon, <1>2 DEF AuthorityFrom
<1>4. /\ host.res # "true" => r = host
      /\ host.res = "true" /\ port.res # "true" => r = port
      /\ host.res = "true" /\ port.res = "true" => r = Read(port.off, v)
  BY SMT, <1>3, AuthorityUnfolds
<1>5. info.off \in 0 .. end
  BY <1>1, <1>2
<1> HIDE DEF info
<1>6. Stops(host, info.off, end)
  BY Zenon, <1>5, HostStops
<1> HIDE DEF host
<1>7. host.res = "true" => port.off \in host.off .. end /\ host.off \in info.off .. end
  <2> SUFFICES ASSUME host.res = "true" PROVE port.off \in host.off .. end /\ host.off \in info.off .. end
    OBVIOUS
  <2>1. host.off \in info.off .. end
    BY Zenon, <1>6 DEF Stops
  <2>2. host.off \in 0 .. end
    BY <1>5, <2>1
  <2> QED BY Zenon, <2>1, <2>2, PortStops
<1> HIDE DEF port, v, r
<1>8. Read(port.off, v).off = port.off
  BY DEF Read
<1>9. r.res = "true" => host.res = "true" /\ port.res = "true" /\ r.off = port.off
  BY Zenon, <1>4, <1>8
<1>10. host.res = "true" => port.off \in off .. end
  BY <1>1, <1>2, <1>7
<1> QED BY Zenon, <1>9, <1>10 DEF Stops, r

LEMMA SchemeStops ==
    ASSUME NEW text, NEW end, Wall(text, end), NEW off \in 0 .. end
    PROVE  parse_scheme(text, off).off \in off .. end /\ parse_scheme(text, off).res = "true"
<1> DEFINE stop == span(text, off, Upper \cup Digit \cup {"+", "-", "."})
           r == parse_scheme(text, off)
           v == [str |-> stop + 1, off |-> off, len |-> stop + 1 - off]
<1>1. Len(text) \in Nat /\ end \in Nat /\ off \in Nat
  BY Zenon, WallPlaces
<1>2. stop \in off .. end
  BY Zenon, SpanStops, UrlClasses
<1>3. r = IF next_in(text, off, Upper) /\ next_in(text, stop, {":"}) THEN Read(stop + 1, v)
          ELSE Read(off, NoSlice)
  BY Zenon DEF parse_scheme
<1> HIDE DEF stop, r, v
<1>4. next_in(text, stop, {":"}) => stop + 1 \in 0 .. end
  <2>1. stop \in 0 .. end
    BY <1>1, <1>2
  <2>2. {":"} \subseteq UrlChar
    BY Zenon, UrlMarks
  <2> QED BY Zenon, <2>1, <2>2, WallPlaces
<1>5. /\ Read(stop + 1, v).off = stop + 1 /\ Read(stop + 1, v).res = "true"
      /\ Read(off, NoSlice).off = off /\ Read(off, NoSlice).res = "true"
  BY Zenon DEF Read
<1>6. (stop + 1 \in 0 .. end => stop + 1 \in off .. end) /\ off \in off .. end
  BY <1>1, <1>2
<1> QED BY Zenon, <1>3, <1>4, <1>5, <1>6 DEF r

LEMMA MarkedStops ==
    ASSUME NEW text, NEW end, Wall(text, end), NEW off \in 0 .. end, NEW mark \in UrlChar
    PROVE  parse_marked(text, off, mark).off \in off .. end /\ parse_marked(text, off, mark).res = "true"
<1> DEFINE stop == span(text, off + 1, Pchar \cup {"/", "?"})
           r == parse_marked(text, off, mark)
           v == Slice(off + 1, stop)
<1>1. Len(text) \in Nat /\ end \in Nat /\ off \in Nat
  BY Zenon, WallPlaces
<1>2. r = IF next_in(text, off, {mark}) THEN Read(stop, v) ELSE Read(off, NoSlice)
  BY Zenon DEF parse_marked
<1>3. next_in(text, off, {mark}) => stop \in off + 1 .. end
  <2> SUFFICES ASSUME next_in(text, off, {mark}) PROVE stop \in off + 1 .. end
    OBVIOUS
  <2>1. {mark} \subseteq UrlChar
    BY Zenon
  <2>2. off + 1 \in 0 .. end
    BY Zenon, <2>1, WallPlaces
  <2> QED BY Zenon, <2>2, SpanStops, UrlClasses
<1> HIDE DEF stop, r, v
<1>4. /\ Read(stop, v).off = stop /\ Read(stop, v).res = "true"
      /\ Read(off, NoSlice).off = off /\ Read(off, NoSlice).res = "true"
  BY Zenon DEF Read
<1>5. (stop \in off + 1 .. end => stop \in off .. end) /\ off \in off .. end
  BY <1>1
<1> QED BY Zenon, <1>2, <1>3, <1>4, <1>5 DEF r

LEMMA PathStops ==
    ASSUME NEW text, NEW end, Wall(text, end), NEW off \in 0 .. end
    PROVE  parse_path_abempty(text, off) \in off .. end
<1>1. Len(text) \in Nat /\ end \in Nat /\ off \in Nat /\ off \in 0 .. Len(text) /\ text \in Seq(Char)
      /\ end \in 0 .. Len(text)
  BY Zenon, WallPlaces DEF Wall
<1>2. PICK g : Pieces(g, text, off) /\ parse_path_abempty(text, off) = g[off]
  BY Zenon, <1>1, PathUnfolds
<1> DEFINE T == {o \in off .. end : g[o] \in off .. end}
<1>3. ASSUME NEW k \in off .. end, \A j \in k + 1 .. end : j \in T
      PROVE  k \in T
  <2> DEFINE next == span(text, k + 1, Pchar)
  <2>1. k \in off .. Len(text) /\ k \in 0 .. end /\ k \in Nat
    BY <1>1
  <2>2. g[k] = IF next_in(text, k, {"/"}) THEN g[next] ELSE k
    BY Zenon, <1>2, <2>1 DEF Pieces
  <2>3. next_in(text, k, {"/"}) => next \in k + 1 .. end
    <3> SUFFICES ASSUME next_in(text, k, {"/"}) PROVE next \in k + 1 .. end
      OBVIOUS
    <3>1. {"/"} \subseteq UrlChar
      BY Zenon, UrlMarks
    <3>2. k + 1 \in 0 .. end
      BY Zenon, <2>1, <3>1, WallPlaces
    <3> QED BY Zenon, <3>2, SpanStops, UrlClasses
  <2> HIDE DEF next
  <2>4. next_in(text, k, {"/"}) => g[next] \in off .. end
    BY Zenon, <1>3, <2>3
  <2>5. g[k] \in off .. end
    BY Zenon, <2>2, <2>4
  <2> QED BY Zenon, <2>5
<1>4. off .. end \subseteq T
  <2> HIDE DEF T
  <2> QED BY Zenon, <1>1, <1>3, Downwards
<1>5. off \in off .. end
  BY <1>1
<1> QED BY Zenon, <1>2, <1>4, <1>5

LEMMA URLPathStops ==
    ASSUME NEW text, NEW end, Wall(text, end), NEW off \in 0 .. end, NEW absolute \in BOOLEAN
    PROVE  Stops(url_path(text, off, absolute), off, end)
<1> DEFINE one == span(text, off, Pchar \cup {"/"})
           all == parse_path_abempty(text, off)
           stop == IF absolute THEN all ELSE one
           v == Slice(off, stop)
           r == url_path(text, off, absolute)
<1>1. end \in Nat /\ off \in Nat
  BY Zenon, WallPlaces
<1>2. all \in off .. end
  BY Zenon, PathStops
<1>3. one \in off .. end
  BY Zenon, SpanStops, UrlClasses
<1>4. r = IF absolute /\ off + 1 >= Len(text) THEN Abort
          ELSE IF absolute /\ ~next_in(text, off + 1, {"/"}) THEN Read(off, NoSlice)
          ELSE Read(stop, v)
  BY Zenon DEF url_path
<1>5. stop \in off .. end
  BY Zenon, <1>2, <1>3
<1> HIDE DEF stop, v, r
<1>6. Read(stop, v).off = stop /\ Read(off, NoSlice).off = off /\ Abort.res # "true"
  BY DEF Read, Abort
<1>7. off \in off .. end
  BY <1>1
<1> QED BY Zenon, <1>4, <1>5, <1>6, <1>7 DEF Stops, r

\* What a URL that is accepted was put together from.
LEMMA URLAccepted ==
    ASSUME NEW text, NEW off, NEW s, NEW absolute, NEW a, NEW p, NEW q, NEW g,
           ReadParts(text, off, s, absolute, a, p, q, g), parse_url(text, off).res = "true"
    PROVE  /\ a.res = "true" /\ p.res = "true" /\ q.res = "true" /\ g.res = "true"
           /\ parse_url(text, off) =
                 Read(g.off, [full |-> Slice(off, g.off), scheme |-> s.val,
                              authority |-> a.val, path |-> p.val,
                              query |-> q.val, fragment |-> g.val])
<1> DEFINE u == parse_url(text, off)
           all == Read(g.off, [full |-> Slice(off, g.off), scheme |-> s.val,
                               authority |-> a.val, path |-> p.val,
                               query |-> q.val, fragment |-> g.val])
<1>1. /\ a.res # "true" => u = a
      /\ a.res = "true" /\ p.res # "true" => u = p
      /\ a.res = "true" /\ p.res = "true" /\ q.res = "true" /\ g.res = "true" => u = all
  BY SMT, URLUnfolds
<1>2. q.res = "true" /\ g.res = "true"
  <2>1. \A o, mark : parse_marked(text, o, mark).res = "true"
    BY DEF parse_marked, Read
  <2> QED BY Zenon, <2>1 DEF ReadParts
<1> HIDE DEF u, all
<1>3. u.res = "true"
  BY Zenon DEF u
<1>4. a.res = "true" /\ p.res = "true" /\ u = all
  BY Zenon, <1>1, <1>2, <1>3
<1> QED BY Zenon, <1>2, <1>4 DEF u, all

\* The results of the parts, for a text and a place.
LEMMA PartsThere ==
    ASSUME NEW text \in Seq(Char), NEW off \in 0 .. Len(text)
    PROVE  \E s, absolute, a, p, q, g :
              ReadParts(text, off, s, absolute, a, p, q, g) /\ absolute \in BOOLEAN
<1> DEFINE s == parse_scheme(text, off)
           absolute == sees(text, s.off, Slashes)
           a == IF absolute THEN parse_authority(text, s.off + 2) ELSE Read(s.off, NoAuthority)
           p == url_path(text, a.off, absolute)
           q == parse_marked(text, p.off, "?")
           g == parse_marked(text, q.off, "#")
<1>1. s.res = "true"
  BY Zenon, SchemeRead
<1>2. absolute \in BOOLEAN
  BY Zenon DEF sees
<1>3. ReadParts(text, off, s, absolute, a, p, q, g)
  BY Zenon, <1>1 DEF ReadParts
<1> HIDE DEF s, absolute, a, p, q, g
<1> QED BY Zenon, <1>2, <1>3

\* A URL is read no further than "end", and neither is any part of it.
Reach(off, end, s, a, p, q, g) ==
    /\ s.off \in off .. end /\ a.off \in s.off .. end /\ p.off \in a.off .. end
    /\ q.off \in p.off .. end /\ g.off \in q.off .. end

LEMMA SlashesStop ==
    ASSUME NEW text, NEW end, Wall(text, end), NEW off \in 0 .. end, sees(text, off, Slashes)
    PROVE  off + 2 \in 0 .. end
<1>1. text \in Seq(Char) /\ off \in Nat /\ {"/"} \subseteq UrlChar
  BY Zenon, WallPlaces, UrlMarks DEF Wall
<1>2. next_in(text, off, {"/"}) /\ next_in(text, off + 1, {"/"})
  BY Zenon, <1>1, SeesSlashes
<1>3. off + 1 \in 0 .. end
  BY Zenon, <1>1, <1>2, WallPlaces
<1>4. (off + 1) + 1 \in 0 .. end
  BY Zenon, <1>1, <1>2, <1>3, WallPlaces
<1>5. (off + 1) + 1 = off + 2
  BY <1>1
<1> QED BY Zenon, <1>4, <1>5

LEMMA URLStops ==
    ASSUME NEW text, NEW end, Wall(text, end), NEW off \in 0 .. end,
           NEW s, NEW absolute \in BOOLEAN, NEW a, NEW p, NEW q, NEW g,
           ReadParts(text, off, s, absolute, a, p, q, g), a.res = "true", p.res = "true"
    PROVE  Reach(off, end, s, a, p, q, g)
<1>1. end \in Nat /\ off \in Nat
  BY Zenon, WallPlaces
<1>2. /\ s = parse_scheme(text, off)
      /\ absolute = sees(text, s.off, Slashes)
      /\ a = IF absolute THEN parse_authority(text, s.off + 2) ELSE Read(s.off, NoAuthority)
      /\ p = url_path(text, a.off, absolute)
      /\ q = parse_marked(text, p.off, "?")
      /\ g = parse_marked(text, q.off, "#")
  BY Zenon DEF ReadParts
<1>3. s.off \in off .. end
  BY Zenon, <1>2, SchemeStops
<1>4. a.off \in s.off .. end
  <2>1. s.off \in 0 .. end
    BY <1>1, <1>3
  <2>2. CASE absolute
    <3>1. s.off + 2 \in 0 .. end
      BY Zenon, <1>2, <2>1, <2>2, SlashesStop
    <3>2. Stops(parse_authority(text, s.off + 2), s.off + 2, end)
      BY Zenon, <3>1, AuthorityStops
    <3>3. a.off \in s.off + 2 .. end
      BY Zenon, <1>2, <2>2, <3>2 DEF Stops
    <3> QED BY <1>1, <2>1, <3>3
  <2>3. CASE ~absolute
    <3>1. a = Read(s.off, NoAuthority)
      BY Zenon, <1>2, <2>3
    <3>2. a.off = s.off
      BY <3>1 DEF Read
    <3> QED BY <1>1, <2>1, <3>2
  <2> QED BY Zenon, <2>2, <2>3
<1>5. p.off \in a.off .. end
  <2>1. a.off \in 0 .. end
    BY <1>1, <1>3, <1>4
  <2> QED BY Zenon, <1>2, <2>1, URLPathStops DEF Stops
<1>6. q.off \in p.off .. end
  <2>1. p.off \in 0 .. end
    BY <1>1, <1>3, <1>4, <1>5
  <2> QED BY Zenon, <1>2, <2>1, MarkedStops, UrlMarks
<1>7. g.off \in q.off .. end
  <2>1. q.off \in 0 .. end
    BY <1>1, <1>3, <1>4, <1>5, <1>6
  <2> QED BY Zenon, <1>2, <2>1, MarkedStops, UrlMarks
<1> QED BY Zenon, <1>3, <1>4, <1>5, <1>6, <1>7 DEF Reach

\* Behind the URL of a head is a wall, and no blank is in the URL.
LEMMA WallAtVersion ==
    ASSUME NEW head \in RequestTexts, NEW text, text = HeadText(head)
    PROVE  /\ Wall(text, VersionAt(head)) /\ UrlAt(head) \in 0 .. VersionAt(head)
           /\ \A off \in UrlAt(head) .. VersionAt(head) : next_in(text, off, {Gap}) => off = VersionAt(head)
<1> DEFINE u == URLText(head.url)
           o == UrlAt(head)
           v == VersionAt(head)
           n == Len(u)
<1>1. /\ text \in Seq(Char) /\ o \in Nat /\ sees(text, o, u) /\ v \in Nat
      /\ head.version \in Seq(Char) /\ sees(text, v, head.version)
  BY Zenon, HeadIs DEF HeadLaid
<1>2. u \in Seq(UrlChar) /\ u \in Seq(Char)
  <2>1. u \in Seq(UrlChar) /\ UrlChar \subseteq Char
    BY Zenon, MeaningAssumption, URLParts, UrlClasses DEF IsHead
  <2> HIDE DEF u
  <2> QED BY Zenon, <2>1, Wider
<1>3. n \in Nat /\ v = o + n /\ v \in 0 .. Len(text)
  <2>1. v = o + n
    BY Zenon DEF VersionAt
  <2>2. n \in Nat
    BY <1>2
  <2>3. v + Len(head.version) <= Len(text)
    BY Zenon, <1>1 DEF sees
  <2>4. Len(head.version) \in Nat /\ Len(text) \in Nat
    BY <1>1
  <2>5. v \in Nat
    BY Zenon, <1>1
  <2> HIDE DEF v, n, o
  <2>6. v \in 0 .. Len(text)
    BY <2>3, <2>4, <2>5
  <2> QED BY Zenon, <2>1, <2>2, <2>6
<1>4. ~next_in(text, v, UrlChar)
  BY Zenon, UrlIs, GapApart DEF UrlLaid
<1>5. ASSUME NEW off \in o .. v, next_in(text, off, {Gap}), off # v PROVE FALSE
  <2> DEFINE k == off - o
  <2>1. k \in 0 .. n - 1 /\ off = o + k
    <3> HIDE DEF v, n, o
    <3> QED BY <1>1, <1>3, <1>5
  <2> HIDE DEF k, u
  <2>2. /\ k < Len(u) /\ text[o + k + 1] = u[k + 1]
    BY Zenon, <1>1, <1>2, <2>1, NextWithin
  <2>3. u[k + 1] \in UrlChar
    <3>1. k + 1 \in 1 .. Len(u)
      BY <1>3, <2>1
    <3> HIDE DEF n
    <3> QED BY <1>2, <3>1
  <2>4. text[o + k + 1] = Gap
    BY Zenon, <1>5, <2>1 DEF next_in
  <2> QED BY Zenon, <2>2, <2>3, <2>4, GapApart
<1>6. o \in 0 .. v
  <2> HIDE DEF v, n, o
  <2> QED BY <1>1, <1>3
<1> QED BY Zenon, <1>1, <1>3, <1>4, <1>5, <1>6 DEF Wall

\* A head is accepted only with the cursor behind its whole URL.
LEMMA AcceptedEnds ==
    ASSUME NEW head \in RequestTexts, NEW text, text = HeadText(head),
           NEW url, url = parse_url(text, UrlAt(head)), parse_request(text).val.valid
    PROVE  url.res = "true" /\ url.off = VersionAt(head)
<1> DEFINE o == UrlAt(head)
           end == VersionAt(head)
<1>1. /\ Wall(text, end) /\ o \in 0 .. end
      /\ \A off \in o .. end : next_in(text, off, {Gap}) => off = end
  BY Zenon, WallAtVersion
<1>2. text \in Seq(Char) /\ end \in 0 .. Len(text) /\ o \in 0 .. Len(text)
      /\ end \in Nat /\ o \in Nat /\ Len(text) \in Nat
  BY Zenon, <1>1, WallPlaces DEF Wall
<1>3. url.res = "true"
  BY Zenon, ValidMeans
<1>4. PICK v \in VersionTokens : sees(text, url.off, v)
  BY Zenon, ValidMeans
<1>5. PICK s, absolute, a, p, q, g : ReadParts(text, o, s, absolute, a, p, q, g) /\ absolute \in BOOLEAN
  BY Zenon, <1>2, PartsThere
<1> HIDE DEF o, end
<1>6. /\ a.res = "true" /\ p.res = "true"
      /\ url.off = g.off
  <2> DEFINE u == [full |-> Slice(o, g.off), scheme |-> s.val, authority |-> a.val, path |-> p.val,
                   query |-> q.val, fragment |-> g.val]
  <2>1. parse_url(text, o).res = "true"
    BY Zenon, <1>3 DEF o
  <2>2. a.res = "true" /\ p.res = "true" /\ parse_url(text, o) = Read(g.off, u)
    BY SMT, <1>5, <2>1, URLAccepted
  <2> HIDE DEF u
  <2>3. Read(g.off, u).off = g.off
    BY DEF Read
  <2> QED BY Zenon, <2>2, <2>3 DEF o
<1>7. Reach(o, end, s, a, p, q, g)
  BY Zenon, <1>1, <1>5, <1>6, URLStops
<1>8. url.off \in o .. end
  <2>1. g.off \in o .. end
    BY <1>2, <1>7 DEF Reach
  <2> QED BY Zenon, <1>6, <2>1
<1>9. next_in(text, url.off, {Gap})
  <2> DEFINE x == url.off
  <2>1. v # <<>> /\ v[1] = Gap /\ Len(v) # 0 /\ Len(v) \in Nat
    <3>1. v \in Seq(VersionChar) /\ v[1] = Gap /\ (Len(v) = 9 \/ Len(v) = 11) /\ v # <<>>
      BY Zenon, VersionText
    <3>2. Len(v) \in Nat
      BY <3>1
    <3>3. Len(v) # 0
      BY <3>1
    <3> QED BY Zenon, <3>1, <3>2, <3>3
  <2>2. x + Len(v) <= Len(text) /\ SubSeq(text, x + 1, x + Len(v)) = v
    BY Zenon, <1>4 DEF sees
  <2>3. x \in Nat /\ x \in 0 .. Len(text)
    BY <1>2, <1>8
  <2> HIDE DEF x
  <2>4. x < Len(text) /\ text[x + 1] = v[1]
    <3> DEFINE w == SubSeq(text, x + 1, x + Len(v))
    <3>1. x < Len(text)
      BY <1>2, <2>1, <2>2, <2>3
    <3>2. w[1] = text[x + 1]
      BY <1>2, <2>1, <2>2, <2>3
    <3> QED BY Zenon, <2>2, <3>1, <3>2
  <2>5. text[x + 1] \in {Gap}
    BY Zenon, <2>1, <2>4
  <2> QED BY Zenon, <2>4, <2>5 DEF next_in, x
<1>10. url.off = end
  BY Zenon, <1>1, <1>8, <1>9 DEF o, end
<1> QED BY Zenon, <1>3, <1>10 DEF end

-----------------------------------------------------------------------------
(* The length of the body.                                                  *)

LEMMA OverLimit ==
    ASSUME NEW m \in Nat, NEW d \in 0 .. 9, NEW e \in Nat
    PROVE  e > (m - d) \div 10 <=> e * 10 + d > m
<1> DEFINE q == (m - d) \div 10
           r == (m - d) % 10
<1>1. q \in Int /\ r \in 0 .. 9 /\ m - d = 10 * q + r
  OBVIOUS
<1> HIDE DEF q, r
<1>2. e > q <=> e * 10 + d > m
  BY <1>1
<1> QED BY <1>2 DEF q

\* The number in the value of a header is read as what its digits denote, and as
\* -1 when that is beyond the limit.
LEMMA LengthIs ==
    ASSUME NEW value, value.text \in Seq(Char), IsLength(value)
    PROVE  LET start  == span(value.text, 0, Space)
               digits == SubSeq(value.text, start + 1, span(value.text, start, Digit))
           IN  Accumulated(digits, 10, MAX_INT)[Len(digits)] = value.val
<1> DEFINE text == value.text
           start == span(text, 0, Space)
           digits == SubSeq(text, start + 1, span(text, start, Digit))
           exact == Denotation(digits, 10)
           n == Len(digits)
           over == \E k \in 1 .. n : exact[k - 1] > (MAX_INT - DigitValue(digits[k])) \div 10
<1>1. Len(text) \in Nat /\ 0 \in 0 .. Len(text)
  OBVIOUS
<1>2. start \in 0 .. Len(text)
  BY Zenon, <1>1, SpanEnds
<1>3. value.val = IF over THEN -1 ELSE exact[n]
  BY DEF IsLength
<1> HIDE DEF start
<1>4. IsDigits(digits)
  BY Zenon, <1>2, DigitsOf
<1> HIDE DEF digits
<1>5. MAX_INT \in Nat /\ 10 \in {10, 16} /\ n \in Nat
  BY <1>4, LimitsAssumption DEF IsDigits
<1>6. /\ exact \in [0 .. n -> Nat] /\ exact[0] = 0
      /\ \A k \in 1 .. n : exact[k] = exact[k - 1] * 10 + DigitValue(digits[k])
  BY Zenon, <1>4, <1>5, DenotationUnfolds
<1>7. \A k \in 0 .. n : exact[k] <= exact[n]
  <2>1. n \in 0 .. Len(digits)
    BY <1>5
  <2> QED BY Zenon, <1>4, <1>5, <2>1, DenotationGrows
<1>8. Accumulated(digits, 10, MAX_INT)[n] = IF exact[n] <= MAX_INT THEN exact[n] ELSE -1
  <2> HIDE DEF exact
  <2>1. n \in 0 .. Len(digits)
    BY <1>5
  <2> HIDE DEF n
  <2>2. exact \in [0 .. Len(digits) -> Nat] /\ exact[0] = 0
        /\ \A k \in 1 .. Len(digits) : exact[k] = exact[k - 1] * 10 + DigitValue(digits[k])
    BY Zenon, <1>6 DEF n
  <2> QED BY Zenon, <1>4, <1>5, <2>1, <2>2, NumeralExact
<1> HIDE DEF exact, n
<1>9. \A k \in 1 .. n : exact[k - 1] > (MAX_INT - DigitValue(digits[k])) \div 10 <=> exact[k] > MAX_INT
  <2> TAKE k \in 1 .. n
  <2>1. DigitValue(digits[k]) \in 0 .. 9
    BY <1>4 DEF IsDigits, n
  <2>2. exact[k - 1] \in Nat
    BY <1>5, <1>6
  <2>3. exact[k] = exact[k - 1] * 10 + DigitValue(digits[k])
    BY Zenon, <1>6
  <2> QED BY Zenon, <1>5, <2>1, <2>2, <2>3, OverLimit
<1>10. over <=> exact[n] > MAX_INT
  <2>1. ASSUME NEW k \in 1 .. n, exact[k] > MAX_INT PROVE exact[n] > MAX_INT
    <3>1. k \in 0 .. n /\ n \in 0 .. n
      BY <1>5
    <3>2. exact[k] \in Nat /\ exact[n] \in Nat
      BY <1>6, <3>1
    <3>3. exact[k] <= exact[n]
      BY Zenon, <1>7, <3>1
    <3> QED BY <1>5, <2>1, <3>2, <3>3
  <2>2. ASSUME exact[n] > MAX_INT PROVE n \in 1 .. n
    BY <1>5, <1>6, <2>2
  <2> QED BY Zenon, <1>9, <2>1, <2>2
<1>11. Accumulated(digits, 10, MAX_INT)[n] = value.val
  <2>1. exact[n] \in Nat
    BY <1>5, <1>6
  <2>2. exact[n] <= MAX_INT <=> ~(exact[n] > MAX_INT)
    BY <1>5, <2>1
  <2> HIDE DEF over, exact, n
  <2>3. CASE over
    <3>1. value.val = -1 /\ ~(exact[n] <= MAX_INT)
      BY Zenon, <1>3, <1>10, <2>2, <2>3
    <3> QED BY Zenon, <1>8, <3>1
  <2>4. CASE ~over
    <3>1. value.val = exact[n] /\ exact[n] <= MAX_INT
      BY Zenon, <1>3, <1>10, <2>2, <2>4
    <3> QED BY Zenon, <1>8, <3>1
  <2> QED BY Zenon, <2>3, <2>4
<1> QED BY Zenon, <1>11 DEF n, digits, start, text

\* Only a request of which all was read is valid.
LEMMA ValidIsRead ==
    ASSUME NEW text, parse_request(text).val.valid
    PROVE  parse_request(text).res = "true"
<1> DEFINE stop == span(text, 0, Upper)
           name == SubSeq(text, 1, stop)
           some == [NewRequest EXCEPT !.method = name]
           url == parse_url(text, stop + 1)
           versions == {v \in VersionTokens : sees(text, url.off, v)}
           v == CHOOSE x \in versions : TRUE
           with == [some EXCEPT !.url = url.val]
           lines == parse_headers(text, url.off + Len(v))
           good == lines.res = "true" /\ lines.off = Len(text)
           p == with_headers(text, with, lines)
           w == with_url(text, some, url)
           a == [res |-> "false", off |-> stop, val |-> NewRequest]
           b == [res |-> "false", off |-> stop, val |-> some]
           c == [res |-> url.res, off |-> url.off, val |-> some]
           d == [res |-> "false", off |-> url.off, val |-> with]
           r == parse_request(text)
<1>1. r = IF name \notin Methods THEN a ELSE IF ~next_in(text, stop, {Gap}) THEN b ELSE w
  BY Zenon DEF parse_request, Gap
<1>2. w = IF url.res # "true" THEN c ELSE IF versions = {} THEN d ELSE p
  BY Zenon DEF with_url
<1>3. ~NewRequest.valid /\ ~some.valid /\ ~with.valid
  BY DEF NewRequest
<1>4. a.val = NewRequest /\ b.val = some /\ c.val = some /\ d.val = with
  BY Zenon
<1>5. p.val.valid => p.res = "true"
  <2> DEFINE count == IF Len(lines.val) < MAX_REQUEST_HEADERS THEN Len(lines.val)
                      ELSE MAX_REQUEST_HEADERS
             kept == SubSeq(lines.val, 1, count)
             ignored == Len(lines.val) - count
             e == [with EXCEPT !.valid = good, !.headers = kept, !.ignored_count = ignored]
             z == [res |-> IF good THEN "true" ELSE "false", off |-> lines.off, val |-> e]
  <2>1. p = z
    BY DEF with_headers
  <2> HIDE DEF kept, ignored, good, p, lines, url, name
  <2>2. e.valid = good
    BY DEF NewRequest
  <2> HIDE DEF e
  <2>3. z.val = e /\ (good => z.res = "true")
    BY Zenon
  <2> HIDE DEF z
  <2> QED BY Zenon, <2>1, <2>2, <2>3
<1> HIDE DEF a, b, c, d, p, w, r, some, with, name, url, versions
<1> QED BY Zenon, <1>1, <1>2, <1>3, <1>4, <1>5 DEF r

\* What was accepted is a head that was written, and its headers are those that
\* are kept.
LEMMA AcceptedKept ==
    ASSUME NEW head \in RequestTexts, NEW t \in Arrivals(head),
           parse_request(RequestText(t)).val.valid
    PROVE  /\ RequestText(t) = HeadText(head)
           /\ HeadersKept(RequestText(t), parse_request(RequestText(t)).val, head.headers)
<1> DEFINE text == RequestText(t)
           r == parse_request(text)
           url == parse_url(text, UrlAt(head))
<1>1. r.res = "true"
  BY Zenon, ValidIsRead
<1>2. text \in Seq(Char) /\ (EmptyLine(text, Len(text)) => IsWhole(t) \/ (t.lacks = 1 /\ t.behind = <<"LF">>))
  BY Zenon, Arrived
<1>3. EmptyLine(text, Len(text))
  BY Zenon, <1>1, <1>2, RequestRead DEF IsParsed
<1>4. text = HeadText(head)
  BY Zenon, <1>2, <1>3, WholeText, AlmostWholeText DEF IsWhole
<1>5. url.res = "true" /\ url.off = VersionAt(head)
  BY Zenon, <1>4, AcceptedEnds
<1>6. WhollyRead(r, text, head, url.val)
  BY Zenon, <1>4, <1>5, ReadThrough
<1> QED BY Zenon, <1>4, <1>6 DEF WhollyRead

\* The length is that of the first header of its name among the ones that are kept.
LEMMA LengthKept ==
    ASSUME NEW head \in RequestTexts, NEW text, NEW r, r.valid, HeadersKept(text, r, head.headers)
    PROVE  LET headers == head.headers
               named == {i \in 1 .. Len(headers) : headers[i].name = CONTENT_LENGTH
                                                    /\ i <= MAX_REQUEST_HEADERS}
               first == CHOOSE i \in named : \A j \in named : i <= j
           IN  content_length(text, r) = IF named = {} THEN 0 ELSE headers[first].value.val
<1> DEFINE headers == head.headers
           n == Len(headers)
           k == Len(r.headers)
           max == MAX_REQUEST_HEADERS
           named == {i \in 1 .. n : headers[i].name = CONTENT_LENGTH /\ i <= max}
           first == CHOOSE i \in named : \A j \in named : i <= j
           found == {i \in 1 .. k : Denoted(text, r.headers[i].name) = CONTENT_LENGTH}
           pick == CHOOSE i \in found : \A j \in found : i <= j
           value == Denoted(text, r.headers[pick].value)
           start == span(value, 0, Space)
           digits == SubSeq(value, start + 1, span(value, start, Digit))
<1>1. headers \in Seq(HeaderLine)
      /\ \A i \in 1 .. n : headers[i].name = CONTENT_LENGTH => IsLength(headers[i].value)
  BY Zenon, MeaningAssumption DEF IsHead
<1>2. n \in Nat /\ max \in Nat
  <2>1. n \in Nat
    BY <1>1
  <2> QED BY <2>1, LimitsAssumption
<1>3. k = IF n < max THEN n ELSE max
  BY Zenon DEF HeadersKept
<1>4. \A i \in 1 .. k : /\ Denoted(text, r.headers[i].name) = headers[i].name
                        /\ Denoted(text, r.headers[i].value) = headers[i].value.text
  BY Zenon DEF HeadersKept, Denotes
<1>5. content_length(text, r) =
        IF ~r.valid \/ found = {} THEN 0 ELSE Accumulated(digits, 10, MAX_INT)[Len(digits)]
  BY Zenon DEF content_length
<1>6. found = named
  <2> HIDE DEF headers, n, k, max
  <2>1. \A i : i \in 1 .. k <=> i \in 1 .. n /\ i <= max
    BY <1>2, <1>3
  <2>2. \A i : i \in found <=> i \in named
    BY Zenon, <1>4, <2>1
  <2> HIDE DEF found, named
  <2> QED BY <2>2
<1>7. CASE named = {}
  BY Zenon, <1>5, <1>6, <1>7
<1>8. CASE named # {}
  <2>1. pick = first
    BY Zenon, <1>6
  <2>2. first \in named
    <3>1. named \subseteq Nat
      <4> HIDE DEF n, headers
      <4> QED BY <1>2
    <3> HIDE DEF named
    <3>2. \E m \in named : \A j \in named : m <= j
      BY Zenon, <1>8, <3>1, Smallest
    <3> QED BY Zenon, <3>2
  <2> HIDE DEF first
  <2>3. first \in 1 .. n /\ headers[first].name = CONTENT_LENGTH /\ first \in 1 .. k
    <3>1. first \in found
      BY Zenon, <1>6, <2>2
    <3> QED BY Zenon, <2>2, <3>1
  <2>4. value = headers[first].value.text
    BY Zenon, <1>4, <2>1, <2>3
  <2>5. IsLength(headers[first].value) /\ headers[first].value.text \in Seq(Char)
    <3>1. headers[first] \in HeaderLine
      <4> HIDE DEF headers
      <4> QED BY <1>1, <2>3
    <3>2. headers[first].value.text \in Seq(Char)
      BY Zenon, <3>1, LineParts
    <3> QED BY Zenon, <1>1, <2>3, <3>2
  <2>6. Accumulated(digits, 10, MAX_INT)[Len(digits)] = headers[first].value.val
    BY Zenon, <2>4, <2>5, LengthIs
  <2>7. content_length(text, r) = headers[first].value.val
    BY Zenon, <1>5, <1>6, <1>8, <2>6
  <2> QED BY Zenon, <1>8, <2>7 DEF first
<1> QED BY Zenon, <1>7, <1>8

\* Request::content_length() gives the number in the first Content-Length header
\* among those that were kept, -1 when that is beyond an int, and 0 without one.
THEOREM ContentLengthsAreExact == Spec => []ContentLengthExact
<1>1. Called => ContentLengthExact
  <2> DEFINE t == arg.means
             headers == t.of.headers
             named == {i \in 1 .. Len(headers) : headers[i].name = CONTENT_LENGTH
                                                  /\ i <= MAX_REQUEST_HEADERS}
             first == CHOOSE i \in named : \A j \in named : i <= j
             text == RequestText(t)
  <2> SUFFICES ASSUME Called, arg.fn = "content_length"
               PROVE  ret.val = IF ~req.valid \/ named = {} THEN 0 ELSE headers[first].value.val
    BY Zenon DEF ContentLengthExact
  <2>1. PICK x : /\ arg = Call("content_length", x) /\ Parsed(x)
                 /\ ret.val = content_length(RequestText(x), req)
    BY Zenon, CalledFunction DEF LengthCalled
  <2>2. x = t
    BY Zenon, <2>1, CallFields
  <2>3. Parsed(t) /\ ret.val = content_length(text, req)
    BY Zenon, <2>1, <2>2
  <2>4. PICK h \in RequestTexts : t \in Arrivals(h)
    BY Zenon, <2>3 DEF Parsed
  <2>5. t.of = h
    BY Zenon, <2>4, ArrivalOf
  <2>6. req = parse_request(text).val
    BY Zenon, <2>3 DEF Parsed
  <2>7. CASE ~req.valid
    <3>1. content_length(text, req) = 0
      BY Zenon, <2>7 DEF content_length
    <3> QED BY Zenon, <2>3, <2>7, <3>1
  <2>8. CASE req.valid
    <3>1. HeadersKept(text, req, h.headers)
      BY Zenon, <2>4, <2>6, <2>8, AcceptedKept
    <3>2. headers = h.headers
      BY Zenon, <2>5
    <3> HIDE DEF text, headers
    <3>3. content_length(text, req) = IF named = {} THEN 0 ELSE headers[first].value.val
      BY Zenon, <2>4, <2>8, <3>1, <3>2, LengthKept
    <3> QED BY Zenon, <2>3, <2>8, <3>3
  <2> QED BY Zenon, <2>7, <2>8
<1> QED BY <1>1, AlwaysCalled, PTL

-----------------------------------------------------------------------------
(* The parts of an authority that is written.                               *)

\* What may lie behind an authority, and behind a host.
PathMarks == {"/", "?", "#", Gap}
HostMarks == {":"} \cup PathMarks

LEMMA NoneOf ==
    ASSUME NEW text, NEW off, NEW S, NEW T, next_in(text, off, S), S \cap T = {}
    PROVE  ~next_in(text, off, T)
BY Zenon DEF next_in

LEMMA HostMarksApart ==
    /\ PathMarks \cap (Unreserved \cup Subdelim \cup {":"}) = {} /\ PathMarks \cap {"@"} = {}
    /\ HostMarks \cap (Unreserved \cup Subdelim) = {} /\ HostMarks \cap Digit = {}
    /\ HostMarks \cap {"."} = {} /\ HostMarks \cap {"["} = {} /\ PathMarks \cap {":"} = {}
    /\ PathMarks \cap Digit = {}
<1>1. "/" \notin Pchar /\ "?" \notin Pchar /\ "#" \notin Pchar /\ Gap \notin Pchar
  BY Zenon, MarksApart
<1>2. /\ Unreserved \cup Subdelim \cup {":"} \subseteq Pchar /\ Unreserved \cup Subdelim \subseteq Pchar
      /\ Digit \subseteq Pchar /\ "." \in Pchar /\ "@" \in Pchar /\ ":" \in Pchar
  BY Zenon DEF Pchar, Unreserved
<1>3. PathMarks \cap Pchar = {}
  BY Zenon, <1>1 DEF PathMarks
<1>4. ":" \notin Unreserved \cup Subdelim /\ ":" \notin Digit
  <2>1. ":" \notin Alpha
    BY Zenon, LettersAssumption
  <2>2. ":" \notin Digit
    <3>1. ":" \notin {"0", "1", "2", "3", "4", "5", "6", "7", "8", "9"}
      BY Zenon
    <3> QED BY Zenon, <3>1, NotDigit
  <2>3. ":" \notin Unreserved
    BY Zenon, <2>1, <2>2 DEF Unreserved
  <2>4. ":" \notin Subdelim
    BY Zenon DEF Subdelim
  <2> QED BY Zenon, <2>2, <2>3, <2>4
<1>5. HostMarks \cap {"."} = {}
  <2>1. ":" # "."
    BY Zenon
  <2> QED BY Zenon, <1>2, <1>3, <2>1 DEF HostMarks
<1>6. HostMarks \cap {"["} = {}
  <2>1. ":" # "[" /\ "/" # "[" /\ "?" # "[" /\ "#" # "["
    BY Zenon
  <2>2. Gap # "["
    BY Zenon, GapApart, UrlMarks
  <2> QED BY Zenon, <2>1, <2>2 DEF HostMarks, PathMarks
<1>7. HostMarks \cap (Unreserved \cup Subdelim) = {} /\ HostMarks \cap Digit = {}
  BY Zenon, <1>2, <1>3, <1>4 DEF HostMarks
<1> QED BY Zenon, <1>2, <1>3, <1>5, <1>6, <1>7

\* Where the parts of the authority of a head lie.
HostAt(head) == UrlAt(head) + 2 + Len(UserText(head.url.authority[1]))
PortAt(head) == HostAt(head) + Len(head.url.authority[1].host.text)

AuthorityLaid(text, head) ==
    LET a == head.url.authority[1]
    IN  /\ text \in Seq(Char) /\ UrlAt(head) \in Nat /\ sees(text, UrlAt(head), Slashes)
        /\ UserText(a) \in Seq(Char) /\ sees(text, UrlAt(head) + 2, UserText(a))
        /\ HostAt(head) \in Nat /\ a.host.text \in Seq(Char) /\ sees(text, HostAt(head), a.host.text)
        /\ PortAt(head) \in Nat /\ PortText(a) \in Seq(Char) /\ sees(text, PortAt(head), PortText(a))
        /\ PathAt(head) = PortAt(head) + Len(PortText(a)) /\ PathAt(head) \in Nat

LEMMA AuthorityIs ==
    ASSUME NEW head \in RequestTexts, NEW text, text = HeadText(head), head.url.authority # <<>>
    PROVE  AuthorityLaid(text, head) /\ IsAuthority(head.url.authority[1])
<1> DEFINE a == head.url.authority[1]
           o == UrlAt(head)
           u == UserText(a)
           h == a.host.text
           p == PortText(a)
           m == Slashes
<1>1. IsAuthority(a) /\ IsURL(head.url)
  BY Zenon, MeaningAssumption DEF IsHead, IsURL
<1>2. text \in Seq(Char) /\ o \in Nat /\ sees(text, o, Front(head.url))
  BY Zenon, UrlIs DEF UrlLaid
<1>3. u \in Seq(Char) /\ h \in Seq(Char) /\ p \in Seq(Char) /\ m \in Seq(Char) /\ Len(m) = 2
  <2>1. u \in Seq(UrlChar) /\ h \in Seq(UrlChar) /\ p \in Seq(UrlChar)
    BY Zenon, <1>1, UserIn, HostText, PortIn DEF IsAuthority
  <2>2. UrlChar \subseteq Char
    BY Zenon, UrlClasses
  <2>3. m \in Seq(Char) /\ Len(m) = 2
    <3>1. "/" \in Char
      BY Zenon, <2>2, UrlMarks
    <3> QED BY <3>1 DEF Slashes
  <2> HIDE DEF u, h, p, m
  <2> QED BY Zenon, <2>1, <2>2, <2>3, Wider
<1>4. Front(head.url) = m \o u \o h \o p
  BY Zenon DEF Front, AuthorityText, UserText, PortText, Slashes
<1> HIDE DEF u, h, p, m
<1>5. /\ m \o u \in Seq(Char) /\ Len(m \o u) = 2 + Len(u)
      /\ m \o u \o h \in Seq(Char) /\ Len(m \o u \o h) = 2 + Len(u) + Len(h)
      /\ Len(m \o u \o h \o p) = 2 + Len(u) + Len(h) + Len(p)
  <2>1. m \o u \in Seq(Char) /\ Len(m \o u) = 2 + Len(u)
    BY Zenon, <1>3, Joins
  <2>2. m \o u \o h \in Seq(Char) /\ Len(m \o u \o h) = Len(m \o u) + Len(h)
    BY Zenon, <1>3, <2>1, Joins
  <2>3. Len(m \o u \o h \o p) = Len(m \o u \o h) + Len(p)
    BY Zenon, <1>3, <2>2, Joins
  <2> QED BY Zenon, <2>1, <2>2, <2>3
<1> HIDE DEF o
<1>6. sees(text, o, m \o u \o h) /\ sees(text, o + Len(m \o u \o h), p)
  <2>1. sees(text, o, (m \o u \o h) \o p)
    BY Zenon, <1>2, <1>4
  <2>2. text \in Seq(Char) /\ o \in Nat /\ m \o u \o h \in Seq(Char) /\ p \in Seq(Char)
    BY Zenon, <1>2, <1>3, <1>5
  <2> QED BY Zenon, <2>1, <2>2, SeesParts
<1>7. sees(text, o, m \o u) /\ sees(text, o + Len(m \o u), h)
  <2>1. text \in Seq(Char) /\ o \in Nat /\ m \o u \in Seq(Char) /\ h \in Seq(Char)
    BY Zenon, <1>2, <1>3, <1>5
  <2> QED BY Zenon, <1>6, <2>1, SeesParts
<1>8. sees(text, o, m) /\ sees(text, o + Len(m), u)
  <2>1. text \in Seq(Char) /\ o \in Nat /\ m \in Seq(Char) /\ u \in Seq(Char)
    BY Zenon, <1>2, <1>3
  <2> QED BY Zenon, <1>7, <2>1, SeesParts
<1>9. /\ o + 2 \in Nat /\ o + 2 + Len(u) \in Nat /\ o + 2 + Len(u) + Len(h) \in Nat
      /\ o + 2 + Len(u) + Len(h) + Len(p) \in Nat
      /\ o + (2 + Len(u)) = o + 2 + Len(u)
      /\ o + (2 + Len(u) + Len(h)) = o + 2 + Len(u) + Len(h)
      /\ o + (2 + Len(u) + Len(h) + Len(p)) = o + 2 + Len(u) + Len(h) + Len(p)
  <2>1. Len(u) \in Nat /\ Len(h) \in Nat /\ Len(p) \in Nat
    BY <1>3
  <2>2. o \in Nat
    BY Zenon, <1>2
  <2> QED BY <2>1, <2>2
<1>10. HostAt(head) = o + 2 + Len(u) /\ PortAt(head) = o + 2 + Len(u) + Len(h)
  BY Zenon DEF HostAt, PortAt, o, u, h
<1>11. PathAt(head) = o + 2 + Len(u) + Len(h) + Len(p)
  BY Zenon, <1>4, <1>5, <1>9 DEF PathAt, o
<1>12. /\ sees(text, o + 2, u) /\ sees(text, HostAt(head), h) /\ sees(text, PortAt(head), p)
       /\ sees(text, o, m)
  BY Zenon, <1>3, <1>5, <1>6, <1>7, <1>8, <1>9, <1>10
<1>13. HostAt(head) \in Nat /\ PortAt(head) \in Nat /\ PathAt(head) \in Nat
       /\ PathAt(head) = PortAt(head) + Len(p)
  BY Zenon, <1>9, <1>10, <1>11
<1> QED BY Zenon, <1>1, <1>2, <1>3, <1>12, <1>13 DEF AuthorityLaid, o, u, h, p, m

\* What lies behind the authority, and behind the host.
LEMMA BehindAuthority ==
    ASSUME NEW head \in RequestTexts, NEW text, text = HeadText(head), head.url.authority # <<>>
    PROVE  /\ next_in(text, PathAt(head), PathMarks)
           /\ head.url.path = <<>> => PathEnd(head) = PathAt(head)
           /\ head.url.path # <<>> => next_in(text, PathAt(head), {"/"})
<1> DEFINE u == head.url
           P == Pchar \cup {"/", "?"}
           x == PathAt(head)
           e == PathEnd(head)
           k == QueryEnd(head)
           v == VersionAt(head)
<1>1. IsURL(u) /\ UrlLaid(text, head)
  BY Zenon, MeaningAssumption, UrlIs DEF IsHead
<1>2. /\ text \in Seq(Char) /\ x \in Nat /\ sees(text, x, u.path) /\ e = x + Len(u.path)
      /\ e \in Nat /\ sees(text, e, Marked("?", u.query)) /\ k = e + Len(Marked("?", u.query))
      /\ k \in Nat /\ sees(text, k, Marked("#", u.fragment)) /\ v = k + Len(Marked("#", u.fragment))
      /\ next_in(text, v, {Gap})
  <2>1. next_in(text, v, {Gap})
    BY Zenon, <1>1 DEF UrlLaid
  <2> QED BY Zenon, <1>1, <2>1 DEF UrlLaid, PathEnd, QueryEnd
<1>3. /\ u.query \in Optional(Seq(P)) /\ u.fragment \in Optional(Seq(P))
      /\ u.path = <<>> \/ next_in(u.path, 0, {"/"})
      /\ "?" \in UrlChar /\ "#" \in UrlChar
  BY Zenon, <1>1, UrlMarks DEF IsURL
<1>4. u.path \in Seq(Char)
  BY Zenon, <1>1, PathFollowed DEF Followed
<1> HIDE DEF x, e, k, v, P
<1>5. u.path = <<>> => e = x
  <2>1. u.path = <<>> => Len(u.path) = 0
    BY Zenon, Empty
  <2> HIDE DEF u
  <2> QED BY <1>2, <2>1
<1>6. u.path # <<>> => next_in(text, x, {"/"})
  <2> SUFFICES ASSUME u.path # <<>> PROVE next_in(text, x, {"/"})
    OBVIOUS
  <2>1. u.path[1] = "/"
    <3>1. u.path[0 + 1] \in {"/"}
      BY Zenon, <1>3 DEF next_in
    <3> QED BY <3>1
  <2> QED BY Zenon, <1>2, <1>4, <2>1, NextIsFirst
<1>7. /\ u.query = <<>> => k = e
      /\ u.query # <<>> => next_in(text, e, {"?"})
  <2>1. /\ u.query = <<>> => e + Len(Marked("?", u.query)) = e
        /\ u.query # <<>> => \A chars : next_in(text, e, chars) <=> "?" \in chars
    BY Zenon, <1>2, <1>3, AtMarked DEF P
  <2> QED BY Zenon, <1>2, <2>1
<1>8. /\ u.fragment = <<>> => v = k
      /\ u.fragment # <<>> => next_in(text, k, {"#"})
  <2>1. text \in Seq(Char) /\ k \in Nat /\ sees(text, k, Marked("#", u.fragment))
    BY Zenon, <1>2
  <2>2. /\ u.fragment = <<>> => k + Len(Marked("#", u.fragment)) = k
        /\ u.fragment # <<>> => \A chars : next_in(text, k, chars) <=> "#" \in chars
    BY ZenonT(60), <1>3, <2>1, AtMarked DEF P
  <2> QED BY Zenon, <1>2, <2>2
<1>9. \A off : next_in(text, off, {"/"}) \/ next_in(text, off, {"?"}) \/ next_in(text, off, {"#"})
               \/ next_in(text, off, {Gap}) => next_in(text, off, PathMarks)
  BY Zenon DEF next_in, PathMarks
<1>10. next_in(text, k, PathMarks)
  BY Zenon, <1>2, <1>8, <1>9
<1>11. next_in(text, e, PathMarks)
  BY Zenon, <1>7, <1>9, <1>10
<1>12. next_in(text, x, PathMarks)
  BY Zenon, <1>5, <1>6, <1>9, <1>11
<1> QED BY Zenon, <1>5, <1>6, <1>12 DEF x, e

\* Where no part begins, the cursor stays.
LEMMA Unmoved ==
    ASSUME NEW text \in Seq(Char), NEW off \in 0 .. Len(text),
           NEW p, p = url_path(text, off, TRUE), p.res = "true",
           NEW q, q = parse_marked(text, p.off, "?"), NEW g, g = parse_marked(text, q.off, "#"),
           ~next_in(text, off, {"/"}) \/ ~next_in(text, off + 1, {"/"}),
           ~next_in(text, off, {"?"}), ~next_in(text, off, {"#"})
    PROVE  g.off = off
<1> DEFINE all == parse_path_abempty(text, off)
           v == Slice(off, all)
<1>1. p = IF TRUE /\ off + 1 >= Len(text) THEN Abort
          ELSE IF TRUE /\ ~next_in(text, off + 1, {"/"}) THEN Read(off, NoSlice)
          ELSE Read(all, v)
  BY Zenon DEF url_path
<1>2. ~next_in(text, off, {"/"}) => all = off
  <2>1. PICK h : Pieces(h, text, off) /\ all = h[off]
    BY Zenon, PathUnfolds
  <2>2. off \in off .. Len(text)
    OBVIOUS
  <2> QED BY Zenon, <2>1, <2>2 DEF Pieces
<1> HIDE DEF all, v
<1>3. Abort.res # "true" /\ Read(off, NoSlice).off = off /\ Read(all, v).off = all
  BY DEF Abort, Read
<1>4. p.off = off
  BY Zenon, <1>1, <1>2, <1>3
<1>5. q = Read(off, NoSlice)
  BY Zenon, <1>4 DEF parse_marked
<1>6. q.off = off
  BY Zenon, <1>3, <1>5
<1>7. g = Read(off, NoSlice)
  BY Zenon, <1>6 DEF parse_marked
<1> QED BY Zenon, <1>3, <1>7

\* The parts of a URL with an authority that is accepted.
AcceptedParts(text, head, url, a, p, q, g) ==
    /\ a = parse_authority(text, UrlAt(head) + 2) /\ a.res = "true"
    /\ p = url_path(text, a.off, TRUE) /\ p.res = "true"
    /\ q = parse_marked(text, p.off, "?") /\ g = parse_marked(text, q.off, "#")
    /\ a.off \in UrlAt(head) .. VersionAt(head) /\ g.off = VersionAt(head)
    /\ url.authority = a.val /\ url.path = p.val

LEMMA AuthorityAccepted ==
    ASSUME NEW head \in RequestTexts, NEW text, text = HeadText(head), head.url.authority # <<>>,
           NEW url, url = parse_url(text, UrlAt(head)), parse_request(text).val.valid
    PROVE  \E a, p, q, g : AcceptedParts(text, head, url.val, a, p, q, g)
<1> DEFINE o == UrlAt(head)
           end == VersionAt(head)
<1>1. Wall(text, end) /\ o \in 0 .. end
  BY Zenon, WallAtVersion
<1>2. text \in Seq(Char) /\ o \in 0 .. Len(text) /\ end \in Nat /\ o \in Nat
  BY Zenon, <1>1, WallPlaces DEF Wall
<1>3. url.res = "true" /\ url.off = end
  BY Zenon, AcceptedEnds
<1>4. PICK s, absolute, a, p, q, g : ReadParts(text, o, s, absolute, a, p, q, g) /\ absolute \in BOOLEAN
  BY Zenon, <1>2, PartsThere
<1>5. sees(text, o, Slashes)
  BY Zenon, AuthorityIs DEF AuthorityLaid
<1> HIDE DEF o, end
<1> DEFINE u == [full |-> Slice(o, g.off), scheme |-> s.val, authority |-> a.val, path |-> p.val,
                 query |-> q.val, fragment |-> g.val]
<1>6. a.res = "true" /\ p.res = "true" /\ url = Read(g.off, u)
  <2>1. parse_url(text, o).res = "true" /\ url = parse_url(text, o)
    BY Zenon, <1>3 DEF o
  <2>2. a.res = "true" /\ p.res = "true" /\ parse_url(text, o) = Read(g.off, u)
    BY SMT, <1>4, <2>1, URLAccepted
  <2> QED BY Zenon, <2>1, <2>2
<1>7. u.authority = a.val /\ u.path = p.val
  BY Zenon
<1> HIDE DEF u
<1>8. url.off = g.off /\ url.val = u
  <2>1. Read(g.off, u).off = g.off /\ Read(g.off, u).val = u
    BY DEF Read
  <2> QED BY Zenon, <1>6, <2>1
<1>9. Reach(o, end, s, a, p, q, g)
  BY Zenon, <1>1, <1>4, <1>6, URLStops
<1>10. a.off \in o .. end
  BY <1>2, <1>9 DEF Reach
<1>11. s.off = o
  <2>1. ~next_in(text, o, Upper)
    <3>1. next_in(text, o, {"/"})
      BY Zenon, <1>2, <1>5, SeesSlashes
    <3>2. "/" \notin Upper
      BY Zenon, LettersAssumption DEF Alpha, Other
    <3>3. {"/"} \cap Upper = {}
      BY Zenon, <3>2
    <3> QED BY Zenon, <3>1, <3>3, NoneOf
  <2>2. s = Read(o, NoSlice)
    BY Zenon, <1>4, <2>1 DEF ReadParts, parse_scheme
  <2> QED BY <2>2 DEF Read
<1>12. absolute = TRUE
  BY Zenon, <1>4, <1>5, <1>11 DEF ReadParts
<1>13. a = parse_authority(text, o + 2)
  BY Zenon, <1>4, <1>11, <1>12 DEF ReadParts
<1>14. p = url_path(text, a.off, TRUE) /\ q = parse_marked(text, p.off, "?") /\ g = parse_marked(text, q.off, "#")
  BY Zenon, <1>4, <1>12 DEF ReadParts
<1>15. AcceptedParts(text, head, url.val, a, p, q, g)
  BY Zenon, <1>3, <1>6, <1>7, <1>8, <1>10, <1>13, <1>14 DEF AcceptedParts, o, end
<1> QED BY Zenon, <1>15

\* It is accepted only when the authority was read up to where a path may begin.
LEMMA AuthorityEnds ==
    ASSUME NEW head \in RequestTexts, NEW text, text = HeadText(head),
           NEW url, NEW a, NEW p, NEW q, NEW g, AcceptedParts(text, head, url, a, p, q, g)
    PROVE  /\ next_in(text, a.off, PathMarks)
           /\ next_in(text, a.off, {"/"}) => next_in(text, a.off + 1, {"/"})
           /\ a.off \in Nat
<1> DEFINE x == a.off
           end == VersionAt(head)
<1>1. Wall(text, end) /\ UrlAt(head) \in 0 .. end
  BY Zenon, WallAtVersion
<1>2. x \in 0 .. end
  <2> DEFINE o == UrlAt(head)
  <2>1. x \in o .. end /\ o \in 0 .. end /\ end \in Nat
    BY Zenon, <1>1, WallPlaces DEF AcceptedParts
  <2> HIDE DEF o, x, end
  <2> QED BY <2>1
<1>3. text \in Seq(Char) /\ x \in 0 .. Len(text) /\ x \in Nat
  BY Zenon, <1>1, <1>2, WallPlaces DEF Wall
<1>4. /\ p = url_path(text, x, TRUE) /\ p.res = "true"
      /\ q = parse_marked(text, p.off, "?") /\ g = parse_marked(text, q.off, "#")
      /\ g.off = end
  BY Zenon DEF AcceptedParts
<1>5. next_in(text, end, {Gap})
  <2>1. Gap \in {Gap}
    BY Zenon
  <2> QED BY Zenon, <2>1, UrlIs DEF UrlLaid
<1> HIDE DEF x, end
<1>6. ~next_in(text, end, {"/"}) /\ ~next_in(text, end, {"?"}) /\ ~next_in(text, end, {"#"})
  <2>1. {Gap} \cap {"/"} = {} /\ {Gap} \cap {"?"} = {} /\ {Gap} \cap {"#"} = {}
    BY Zenon, MarksApart
  <2> QED BY Zenon, <1>5, <2>1, NoneOf
<1>7. CASE next_in(text, x, {"?"}) \/ next_in(text, x, {"#"})
  <2>1. next_in(text, x, PathMarks)
    BY Zenon, <1>7 DEF next_in, PathMarks
  <2>2. ~next_in(text, x, {"/"})
    <3>1. {"?"} \cap {"/"} = {} /\ {"#"} \cap {"/"} = {}
      BY Zenon
    <3> QED BY Zenon, <1>7, <3>1, NoneOf
  <2> QED BY Zenon, <1>3, <2>1, <2>2 DEF x
<1>8. CASE ~next_in(text, x, {"?"}) /\ ~next_in(text, x, {"#"})
  <2>1. CASE ~next_in(text, x, {"/"}) \/ ~next_in(text, x + 1, {"/"})
    <3>1. g.off = x
      BY Zenon, <1>3, <1>4, <1>8, <2>1, Unmoved
    <3>2. x = end
      BY Zenon, <1>4, <3>1
    <3>3. next_in(text, x, PathMarks)
      BY Zenon, <1>5, <3>2 DEF next_in, PathMarks
    <3>4. ~next_in(text, x, {"/"})
      BY Zenon, <1>6, <3>2
    <3> QED BY Zenon, <1>3, <3>3, <3>4 DEF x
  <2>2. CASE next_in(text, x, {"/"}) /\ next_in(text, x + 1, {"/"})
    <3>1. next_in(text, x, PathMarks)
      BY Zenon, <2>2 DEF next_in, PathMarks
    <3> QED BY Zenon, <1>3, <2>2, <3>1 DEF x
  <2> QED BY Zenon, <2>1, <2>2
<1> QED BY Zenon, <1>7, <1>8

\* The path behind an authority is read to its end.
LEMMA PathWhole ==
    ASSUME NEW text, NEW off, NEW path \in Seq(Pchar \cup {"/"}),
           Followed(text, off, path, Pchar \cup {"/"}),
           path = <<>> \/ next_in(text, off, {"/"})
    PROVE  parse_path_abempty(text, off) = off + Len(path)
<1> DEFINE P == Pchar \cup {"/"}
           n == Len(path)
           end == off + n
<1>1. /\ text \in Seq(Char) /\ off \in Nat /\ path \in Seq(Char) /\ sees(text, off, path)
      /\ ~next_in(text, end, P)
  BY Zenon DEF Followed
<1>2. n \in Nat /\ Len(text) \in Nat /\ end <= Len(text) /\ end \in Nat /\ off <= end
  <2>1. n \in Nat /\ Len(text) \in Nat
    BY <1>1
  <2>2. off + n <= Len(text)
    BY Zenon, <1>1 DEF sees
  <2>3. off \in Nat
    BY Zenon, <1>1
  <2> HIDE DEF n
  <2> QED BY <2>1, <2>2, <2>3
<1>3. off \in 0 .. Len(text) /\ off \in off .. end /\ off \in Nat
  <2>1. off \in Nat
    BY Zenon, <1>1
  <2> HIDE DEF end
  <2> QED BY <1>2, <2>1
<1>4. PICK g : Pieces(g, text, off) /\ parse_path_abempty(text, off) = g[off]
  BY Zenon, <1>1, <1>3, PathUnfolds
<1>5. ~next_in(text, end, Pchar) /\ ~next_in(text, end, {"/"})
  BY Zenon, <1>1 DEF next_in
<1>6. \A o \in off .. end - 1 : o < Len(text) /\ text[o + 1] \in P
  <2> TAKE o \in off .. end - 1
  <2> DEFINE k == o - off
  <2>1. k \in 0 .. n - 1 /\ off + k = o
    <3> HIDE DEF n
    <3> QED BY <1>2, <1>3
  <2> HIDE DEF k
  <2>2. off + k < Len(text) /\ text[off + k + 1] = path[k + 1]
    BY ZenonT(60), <1>1, <2>1, NextWithin
  <2>3. path[k + 1] \in P
    <3>1. path \in Seq(P) /\ k \in 0 .. Len(path) - 1
      BY Zenon, <2>1
    <3> HIDE DEF P
    <3> QED BY <3>1
  <2> HIDE DEF P
  <2> QED BY Zenon, <2>1, <2>2, <2>3
<1> HIDE DEF end, n
<1> DEFINE T == {o \in off .. end : (o = end \/ next_in(text, o, {"/"})) => g[o] = end}
<1>7. ASSUME NEW k \in off .. end, \A j \in k + 1 .. end : j \in T
      PROVE  k \in T
  <2> DEFINE next == span(text, k + 1, Pchar)
  <2>1. k \in off .. Len(text) /\ k \in Nat
    BY <1>2, <1>3
  <2>2. g[k] = IF next_in(text, k, {"/"}) THEN g[next] ELSE k
    BY Zenon, <1>4, <2>1 DEF Pieces
  <2>3. CASE k = end
    BY Zenon, <1>5, <2>2, <2>3
  <2>4. CASE k # end /\ next_in(text, k, {"/"})
    <3>1. k + 1 \in 0 .. Len(text) /\ k + 1 \in Nat
      BY <1>2, <2>1, <2>4
    <3>2. /\ next \in k + 1 .. Len(text)
          /\ \A i \in k + 1 .. next - 1 : text[i + 1] \in Pchar
          /\ ~next_in(text, next, Pchar)
      BY Zenon, <1>2, <3>1, SpanEnds
    <3> HIDE DEF next
    <3>3. ASSUME next > end PROVE FALSE
      <4>1. end \in k + 1 .. next - 1 /\ end < Len(text)
        BY <1>2, <2>1, <2>4, <3>2, <3>3
      <4>2. text[end + 1] \in Pchar
        BY Zenon, <3>2, <4>1
      <4> QED BY Zenon, <1>5, <4>1, <4>2 DEF next_in
    <3>4. next \in k + 1 .. end
      BY <1>2, <3>1, <3>2, <3>3
    <3>5. next = end \/ next_in(text, next, {"/"})
      <4> SUFFICES ASSUME next # end PROVE next_in(text, next, {"/"})
        OBVIOUS
      <4>1. next \in off .. end - 1
        BY <1>2, <1>3, <2>1, <3>4
      <4>2. next < Len(text) /\ text[next + 1] \in P
        BY Zenon, <1>6, <4>1
      <4> QED BY Zenon, <3>2, <4>2 DEF next_in
    <3>6. g[next] = end
      BY Zenon, <1>7, <3>4, <3>5
    <3>7. g[k] = end
      BY Zenon, <2>2, <2>4, <3>6
    <3> QED BY Zenon, <3>7
  <2>5. CASE k # end /\ ~next_in(text, k, {"/"})
    BY Zenon, <2>5
  <2> QED BY Zenon, <2>3, <2>4, <2>5
<1>8. off .. end \subseteq T
  <2> HIDE DEF T
  <2> QED BY Zenon, <1>2, <1>3, <1>7, Downwards
<1>9. off = end \/ next_in(text, off, {"/"})
  <2> SUFFICES ASSUME path = <<>> PROVE off = end
    BY Zenon
  <2>1. n = 0
    BY Zenon, Empty DEF n
  <2> QED BY <1>3, <2>1 DEF end
<1>10. g[off] = end
  BY Zenon, <1>3, <1>8, <1>9
<1> QED BY Zenon, <1>4, <1>10 DEF end, n

\* It is what was written, when the authority was.
LEMMA PathAccepted ==
    ASSUME NEW head \in RequestTexts, NEW text, text = HeadText(head), head.url.authority # <<>>,
           NEW url, NEW a, NEW p, NEW q, NEW g, AcceptedParts(text, head, url, a, p, q, g),
           a.off = PathAt(head)
    PROVE  Denoted(text, p.val) = head.url.path
<1> DEFINE path == head.url.path
           x == PathAt(head)
           all == parse_path_abempty(text, x)
           v == Slice(x, all)
<1>1. IsURL(head.url) /\ UrlLaid(text, head)
  BY Zenon, MeaningAssumption, UrlIs DEF IsHead
<1>2. path \in Seq(Pchar \cup {"/"}) /\ Followed(text, x, path, Pchar \cup {"/"})
  BY Zenon, <1>1, PathFollowed DEF IsURL
<1>3. /\ path # <<>> => next_in(text, x, {"/"})
  BY Zenon, BehindAuthority
<1>4. path # <<>> => next_in(text, x + 1, {"/"})
  BY Zenon, <1>3, AuthorityEnds
<1>5. all = x + Len(path)
  BY Zenon, <1>2, <1>3, PathWhole
<1>6. text \in Seq(Char) /\ x \in Nat /\ path \in Seq(Char) /\ sees(text, x, path)
  BY Zenon, <1>2 DEF Followed
<1>7. Denoted(text, v) = path
  BY Zenon, <1>5, <1>6, DenotedIs
<1>8. Denoted(text, NoSlice) = <<>>
  BY <1>6 DEF Denoted, NoSlice
<1>9. p = url_path(text, x, TRUE) /\ p.res = "true"
  BY Zenon DEF AcceptedParts
<1> HIDE DEF x, all
<1>10. p = IF TRUE /\ x + 1 >= Len(text) THEN Abort
           ELSE IF TRUE /\ ~next_in(text, x + 1, {"/"}) THEN Read(x, NoSlice)
           ELSE Read(all, v)
  BY Zenon, <1>9 DEF url_path, all
<1> HIDE DEF v, path
<1>11. Abort.res # "true" /\ Read(x, NoSlice).val = NoSlice /\ Read(all, v).val = v
  BY DEF Abort, Read
<1>12. p.val = v \/ (p.val = NoSlice /\ ~next_in(text, x + 1, {"/"}))
  BY Zenon, <1>9, <1>10, <1>11
<1>13. CASE p.val = v
  BY Zenon, <1>7, <1>13 DEF path
<1>14. CASE p.val = NoSlice /\ ~next_in(text, x + 1, {"/"})
  <2>1. path = <<>>
    BY Zenon, <1>4, <1>14
  <2> QED BY Zenon, <1>8, <1>14, <2>1 DEF path
<1> QED BY Zenon, <1>12, <1>13, <1>14

LEMMA BracketApart ==
    "[" \notin Unreserved \cup Subdelim /\ "[" \notin Unreserved \cup Subdelim \cup {":"}
    /\ "@" \notin Unreserved \cup Subdelim \cup {":"} /\ "@" \notin Digit /\ "@" # "[" /\ "@" # ":"
    /\ "@" \notin PathMarks /\ "." \notin Digit /\ ":" \notin Digit /\ "[" \notin Digit
<1>1. "[" \notin Digit /\ "@" \notin Digit /\ "." \notin Digit /\ ":" \notin Digit
  BY NotDigit
<1>2. "[" \notin Alpha /\ "@" \notin Alpha
  BY Zenon, LettersAssumption DEF Other
<1>3. "[" \notin Subdelim /\ "@" \notin Subdelim
  BY DEF Subdelim
<1>4. "[" \notin Unreserved /\ "@" \notin Unreserved
  BY <1>1, <1>2 DEF Unreserved
<1>5. "[" # ":" /\ "@" # ":" /\ "@" # "["
  OBVIOUS
<1>6. "@" \notin PathMarks
  <2>1. PathMarks \cap {"@"} = {}
    BY Zenon, HostMarksApart
  <2> QED BY Zenon, <2>1
<1> HIDE DEF Unreserved
<1> QED BY Zenon, <1>1, <1>3, <1>4, <1>5, <1>6

\* What lies behind the host.
LEMMA BehindHost ==
    ASSUME NEW head \in RequestTexts, NEW text, text = HeadText(head), head.url.authority # <<>>
    PROVE  /\ next_in(text, PortAt(head), HostMarks)
           /\ head.url.authority[1].port = <<>> => PathAt(head) = PortAt(head)
           /\ head.url.authority[1].port # <<>> => next_in(text, PortAt(head), {":"})
<1> DEFINE a == head.url.authority[1]
           x == PortAt(head)
           y == PathAt(head)
<1>1. /\ text \in Seq(Char) /\ x \in Nat /\ PortText(a) \in Seq(Char) /\ sees(text, x, PortText(a))
      /\ y = x + Len(PortText(a))
  BY Zenon, AuthorityIs DEF AuthorityLaid
<1>2. a.port \in Optional(Numeral(10))
  BY Zenon, AuthorityIs DEF IsAuthority
<1>3. next_in(text, y, PathMarks)
  BY Zenon, BehindAuthority
<1> HIDE DEF x, y
<1>4. CASE a.port = <<>>
  <2>1. Len(PortText(a)) = 0
    BY Zenon, <1>4, Empty DEF PortText
  <2> HIDE DEF a
  <2>2. y = x
    BY <1>1, <2>1
  <2>3. next_in(text, x, HostMarks)
    BY Zenon, <1>3, <2>2 DEF next_in, HostMarks
  <2> QED BY Zenon, <1>4, <2>2, <2>3 DEF x, y, a
<1>5. CASE a.port # <<>>
  <2>1. PortText(a) = <<":">> \o a.port[1].text /\ a.port[1].text \in Seq(Char)
    <3>1. a.port[1].text \in Seq(Char)
      BY Zenon, <1>2, <1>5, PortIn, NumeralText
    <3> QED BY Zenon, <1>5, <3>1 DEF PortText
  <2>2. PortText(a) # <<>> /\ PortText(a)[1] = ":"
    <3> DEFINE s == PortText(a)
               t == a.port[1].text
    <3> HIDE DEF s, t
    <3>1. s = <<":">> \o t /\ t \in Seq(Char)
      BY Zenon, <2>1 DEF s, t
    <3>2. s # <<>> /\ s[1] = ":"
      BY <3>1
    <3> QED BY Zenon, <3>2 DEF s
  <2>3. \A chars : next_in(text, x, chars) <=> ":" \in chars
    <3>1. \A chars : next_in(text, x, chars) <=> PortText(a)[1] \in chars
      BY Zenon, <1>1, <2>2, NextIsFirst
    <3> QED BY Zenon, <2>2, <3>1
  <2>4. next_in(text, x, {":"})
    BY Zenon, <2>3
  <2>5. next_in(text, x, HostMarks)
    BY Zenon, <2>4 DEF next_in, HostMarks
  <2> QED BY Zenon, <1>5, <2>4, <2>5 DEF x, a
<1> QED BY Zenon, <1>4, <1>5

\* A part of an authority was read as it was written, or the cursor is where no
\* path begins.
Missed(r, text) == r.res # "true" \/ next_in(text, r.off, Digit)

HostIs(r, off, h) ==
    r = Read(off + Len(h.text), [type |-> h.type, text |-> Slice(off, off + Len(h.text))])

LEMMA NameIs ==
    ASSUME NEW text \in Seq(Char), NEW off \in 0 .. Len(text), NEW h, h.type = "NAME",
           h.text \in Seq(Unreserved \cup Subdelim), h.text \in Seq(Char), sees(text, off, h.text),
           next_in(text, off + Len(h.text), HostMarks), ~next_in(h.text, 0, Digit)
    PROVE  HostIs(parse_host(text, off), off, h)
<1> DEFINE s == h.text
           C == Unreserved \cup Subdelim
           end == off + Len(s)
           r == parse_host(text, off)
           n == host_name(text, off)
           ip4 == parse_ipv4(text, off)
           ip6 == parse_ipv6(text, off)
           v4 == Read(ip4.off, [type |-> "IPV4", text |-> Slice(off, ip4.off)])
           v6 == IF ip6.res = "true"
                 THEN IF next_in(text, ip6.off, {"]"})
                      THEN Read(ip6.off + 1, [type |-> "IPV6", text |-> Slice(off, ip6.off)])
                      ELSE Unread(ip6.off)
                 ELSE ip6
<1>1. off \in Nat /\ Len(text) \in Nat
  OBVIOUS
<1>2. ~next_in(text, end, C)
  BY Zenon, HostMarksApart, NoneOf
<1>3. span(text, off, C) = end
  <2>1. s \in Seq(Char) /\ s \in Seq(C) /\ sees(text, off, s)
    BY Zenon
  <2> HIDE DEF s, C
  <2>2. ~next_in(text, off + Len(s), C)
    BY Zenon, <1>2
  <2> QED BY ZenonT(60), <1>1, <2>1, <2>2, SpanOf
<1>4. n = Read(end, [type |-> "NAME", text |-> Slice(off, end)])
  BY Zenon, <1>3 DEF host_name
<1>5. off # Len(text)
  <2>1. end < Len(text)
    BY Zenon DEF next_in
  <2>2. Len(s) \in Nat
    OBVIOUS
  <2> HIDE DEF s
  <2> QED BY <1>1, <2>1, <2>2
<1>6. ~next_in(text, off, {"["}) /\ ~next_in(text, off, Digit)
  <2>1. CASE s = <<>>
    <3>1. Len(s) = 0
      BY Zenon, <2>1, Empty
    <3> HIDE DEF s
    <3>2. end = off
      BY <1>1, <3>1
    <3>3. next_in(text, off, HostMarks)
      BY Zenon, <3>2 DEF s
    <3> QED BY Zenon, <3>3, HostMarksApart, NoneOf
  <2>2. CASE s # <<>>
    <3>1. \A chars : next_in(text, off, chars) <=> s[1] \in chars
      BY Zenon, <1>1, <2>2, NextIsFirst
    <3>2. s[1] \in C /\ s[1] = s[0 + 1] /\ 0 < Len(s)
      <4> HIDE DEF C
      <4>1. s \in Seq(C)
        BY Zenon DEF C
      <4> HIDE DEF s
      <4> QED BY <2>2, <4>1
    <3>3. "[" \notin C
      BY Zenon, BracketApart
    <3>4. s[1] \notin Digit
      BY Zenon, <3>2 DEF next_in
    <3> QED BY Zenon, <3>1, <3>2, <3>3, <3>4
  <2> QED BY Zenon, <2>1, <2>2
<1>7. r = IF off = Len(text) THEN Unread(off)
          ELSE IF next_in(text, off, {"["}) THEN v6
          ELSE IF ~next_in(text, off, Digit) THEN n
          ELSE IF ip4.res = "true" THEN v4
          ELSE host_name(text, ip4.off)
  BY DEF parse_host, Then
<1> HIDE DEF r, n, v4, v6
<1>8. r = n
  BY Zenon, <1>5, <1>6, <1>7
<1> QED BY Zenon, <1>4, <1>8 DEF r, HostIs

LEMMA NthIn ==
    ASSUME NEW S, NEW s \in Seq(S), NEW i \in 1 .. Len(s)
    PROVE  s[i] \in S
OBVIOUS

LEMMA IPv4HostIs ==
    ASSUME NEW text \in Seq(Char), NEW off \in 0 .. Len(text), NEW h, h.type = "IPV4",
           h.octets \in Seq(Numeral(10)), Len(h.octets) = 4,
           \A i \in 1 .. 3 : h.octets[i].val <= UINT8_MAX,
           h.text = Joined(h.octets, "."), sees(text, off, h.text),
           next_in(text, off + Len(h.text), HostMarks)
    PROVE  HostIs(parse_host(text, off), off, h) \/ Missed(parse_host(text, off), text)
<1> DEFINE octets == h.octets
           max == UINT8_MAX
           end == off + Len(h.text)
           r == parse_host(text, off)
           ip4 == parse_ipv4(text, off)
           ip6 == parse_ipv6(text, off)
           v4 == Read(ip4.off, [type |-> "IPV4", text |-> Slice(off, ip4.off)])
           v6 == IF ip6.res = "true"
                 THEN IF next_in(text, ip6.off, {"]"})
                      THEN Read(ip6.off + 1, [type |-> "IPV6", text |-> Slice(off, ip6.off)])
                      ELSE Unread(ip6.off)
                 ELSE ip6
<1>1. off \in Nat /\ Len(text) \in Nat /\ 10 \in {10, 16} /\ Separator(".") /\ 4 \in 1 .. 4
  BY Separators
<1>2. Ends(text, end, ".")
  <2>1. ~next_in(text, end, Digit) /\ ~next_in(text, end, {"."})
    BY Zenon, HostMarksApart, NoneOf
  <2> QED BY Zenon, <2>1 DEF Ends
<1> HIDE DEF octets
<1>3. octets \in Seq(Numeral(10)) /\ Len(octets) = 4 /\ h.text = Joined(octets, ".")
      /\ \A i \in 1 .. 3 : octets[i].val <= max
  BY Zenon DEF octets
<1>4. PICK at : Written(at, text, off, octets, 10, ".")
  BY Zenon, <1>1, <1>2, <1>3, JoinedWritten
<1>5. at[0] = off /\ at[4] = end
  BY Zenon, <1>3, <1>4 DEF Written, Places
<1>6. PICK g : Octets(g, text, off) /\ ip4 = g[4]
  BY Zenon, IPv4Unfolds
<1>7. Limit(max)
  BY LimitsAssumption DEF Limit
<1> HIDE DEF max, ip4
<1>8. g[3] = Read(at[3], ValuesTo(octets, 3))
  <2>1. GroupSteps(g, text, off, 3, ".", 10, max, FALSE)
    <3>1. g[0] = Read(off, <<>>)
      BY Zenon, <1>6 DEF Octets
    <3>2. \A i \in 1 .. 3 : i \in 1 .. 4
      OBVIOUS
    <3>3. \A i \in 1 .. 4 : g[i] = IF g[i - 1].res = "true"
                                   THEN next_group(text, g[i - 1], ".", 10, max) ELSE g[i - 1]
      BY Zenon, <1>6 DEF Octets, max
    <3> QED BY Zenon, <3>1, <3>2, <3>3 DEF GroupSteps
  <2>2. 3 \in Nat /\ FALSE \in BOOLEAN /\ 10 # 16 /\ 3 \in 0 .. 4
    OBVIOUS
  <2>3. GroupsAre(g[3], at, text, octets, 10, max, Last(at, text, octets, FALSE, 3))
    BY Zenon, <1>4, <1>7, <2>1, <2>2, GroupsIn
  <2>4. Last(at, text, octets, FALSE, 3) = 3
    BY Zenon DEF Last
  <2>5. Clean(at, text, octets, 10, max, 3)
    BY Zenon, <1>3, <2>2 DEF Clean
  <2> QED BY Zenon, <2>3, <2>4, <2>5 DEF GroupsAre
<1>9. g[4] = next_group(text, Read(at[3], ValuesTo(octets, 3)), ".", 10, max)
  <2>1. g[4] = IF g[4 - 1].res = "true"
               THEN next_group(text, g[4 - 1], ".", 10, max) ELSE g[4 - 1]
    BY Zenon, <1>1, <1>6 DEF Octets, max
  <2>2. 4 - 1 = 3
    OBVIOUS
  <2>3. Read(at[3], ValuesTo(octets, 3)).res = "true"
    BY Zenon DEF Read
  <2> QED BY Zenon, <1>8, <2>1, <2>2, <2>3
<1>10. g[4] = Read(at[4], ValuesTo(octets, 4)) \/ Stuck(g[4], text)
  <2> DEFINE s == Read(at[4 - 1], ValuesTo(octets, 4 - 1))
             n == next_group(text, s, ".", 10, max)
  <2>1. /\ octets[4].val <= max =>
              n = IF 10 = 16 /\ next_in(text, at[4], HexLetter) THEN Abort
                  ELSE Read(at[4], ValuesTo(octets, 4))
        /\ octets[4].val > max => Stuck(n, text)
    BY Zenon, <1>1, <1>3, <1>4, <1>7, GroupIn
  <2>2. 4 - 1 = 3 /\ 10 # 16
    OBVIOUS
  <2>3. n = g[4]
    BY Zenon, <1>9, <2>2
  <2>4. octets[4] \in Numeral(10)
    BY Zenon, <1>1, <1>3, NthIn
  <2>5. octets[4].val \in Nat /\ max \in Nat
    BY Zenon, <1>7, <2>4, NumeralText DEF Limit
  <2>6. octets[4].val <= max \/ octets[4].val > max
    <3> DEFINE v == octets[4].val
    <3> HIDE DEF v
    <3>1. v \in Nat /\ max \in Nat => v <= max \/ v > max
      OBVIOUS
    <3> QED BY Zenon, <2>5, <3>1 DEF v
  <2> HIDE DEF n
  <2> QED BY Zenon, <2>1, <2>2, <2>3, <2>6
<1>11. next_in(text, off, Digit)
  <2>1. 1 \in 1 .. 4
    OBVIOUS
  <2>2. NumberIn(at, text, octets, 10, ".", 1)
    BY Zenon, <1>3, <1>4, <2>1, WrittenPlaces
  <2> QED BY Zenon, <1>5, <2>2 DEF NumberIn, Begin
<1>12. off # Len(text) /\ ~next_in(text, off, {"["})
  <2>1. off < Len(text)
    BY Zenon, <1>11 DEF next_in
  <2>2. Digit \cap {"["} = {}
    BY Zenon, BracketApart
  <2>3. ~next_in(text, off, {"["})
    BY Zenon, <1>11, <2>2, NoneOf
  <2>4. off # Len(text)
    BY <1>1, <2>1
  <2> QED BY Zenon, <2>3, <2>4
<1>13. r = IF off = Len(text) THEN Unread(off)
           ELSE IF next_in(text, off, {"["}) THEN v6
           ELSE IF ~next_in(text, off, Digit) THEN host_name(text, off)
           ELSE IF ip4.res = "true" THEN v4
           ELSE host_name(text, ip4.off)
  BY DEF parse_host, Then, ip4
<1> HIDE DEF r, v6
<1>14. ip4.res = "true"
  <2>1. Read(at[4], ValuesTo(octets, 4)).res = "true"
    BY Zenon DEF Read
  <2> QED BY Zenon, <1>6, <1>10, <2>1 DEF Stuck
<1>15. r = v4
  BY Zenon, <1>11, <1>12, <1>13, <1>14
<1>16. CASE g[4] = Read(at[4], ValuesTo(octets, 4))
  <2>1. ip4.off = end
    <3>1. Read(at[4], ValuesTo(octets, 4)).off = at[4]
      BY Zenon DEF Read
    <3>2. ip4 = Read(at[4], ValuesTo(octets, 4))
      BY Zenon, <1>6, <1>16
    <3> QED BY Zenon, <1>5, <3>1, <3>2
  <2>2. r = Read(end, [type |-> "IPV4", text |-> Slice(off, end)])
    BY Zenon, <1>15, <2>1
  <2>3. h.type = "IPV4"
    BY Zenon
  <2> QED BY Zenon, <2>2, <2>3 DEF HostIs, r
<1>17. CASE Stuck(g[4], text)
  <2>1. next_in(text, ip4.off, Digit)
    BY Zenon, <1>6, <1>17 DEF Stuck
  <2>2. r.off = ip4.off
    BY Zenon, <1>15 DEF Read
  <2> QED BY Zenon, <2>1, <2>2 DEF Missed, r
<1> QED BY Zenon, <1>10, <1>16, <1>17

\* A host is read as it was written.
LEMMA HostWritten ==
    ASSUME NEW text \in Seq(Char), NEW off \in 0 .. Len(text), NEW h, IsHost(h),
           h.text \in Seq(Char), sees(text, off, h.text),
           next_in(text, off + Len(h.text), HostMarks),
           h.type = "NAME" => ~next_in(h.text, 0, Digit)
    PROVE  HostIs(parse_host(text, off), off, h) \/ Missed(parse_host(text, off), text)
<1>1. CASE h.type = "NAME" /\ h.text \in Seq(Unreserved \cup Subdelim)
  BY Zenon, <1>1, NameIs
<1>2. CASE /\ h.type = "IPV4" /\ h.octets \in Seq(Numeral(10)) /\ Len(h.octets) = 4
           /\ \A i \in 1 .. 3 : h.octets[i].val <= UINT8_MAX
           /\ h.text = Joined(h.octets, ".")
  BY Zenon, <1>2, IPv4HostIs
<1>3. CASE h.type = "IPV6" /\ h.text \in Seq(Char \ Space) /\ next_in(h.text, 0, {"["})
  <2> DEFINE s == h.text
             r == parse_host(text, off)
             ip4 == parse_ipv4(text, off)
             ip6 == parse_ipv6(text, off)
             v6 == IF next_in(text, ip6.off, {"]"})
                   THEN Read(ip6.off + 1, [type |-> "IPV6", text |-> Slice(off, ip6.off)])
                   ELSE Unread(ip6.off)
             rest == IF ~next_in(text, off, Digit) THEN host_name(text, off)
                     ELSE IF ip4.res = "true"
                     THEN Read(ip4.off, [type |-> "IPV4", text |-> Slice(off, ip4.off)])
                     ELSE host_name(text, ip4.off)
  <2>1. next_in(text, off, {"["})
    <3>1. 0 < Len(s) /\ s[0 + 1] = "["
      BY Zenon, <1>3 DEF next_in
    <3>2. s # <<>> /\ s[1] = "["
      <4> HIDE DEF s
      <4> QED BY <3>1
    <3>3. off \in Nat
      OBVIOUS
    <3>4. \A chars : next_in(text, off, chars) <=> s[1] \in chars
      BY Zenon, <3>2, <3>3, NextIsFirst
    <3> QED BY Zenon, <3>2, <3>4
  <2>2. ip6.res # "true"
    BY Zenon, <2>1, NoIPv6
  <2>3. r = IF off = Len(text) THEN Unread(off)
            ELSE IF next_in(text, off, {"["}) THEN IF ip6.res = "true" THEN v6 ELSE ip6
            ELSE rest
    BY DEF parse_host, Then
  <2>4. Unread(off).res # "true"
    BY DEF Unread
  <2> HIDE DEF r, ip6, v6, rest
  <2>5. r.res # "true"
    BY Zenon, <2>1, <2>2, <2>3, <2>4
  <2> QED BY Zenon, <2>5 DEF Missed, r
<1> QED BY Zenon, <1>1, <1>2, <1>3 DEF IsHost

\* A port is read as it was written.
LEMMA PortWritten ==
    ASSUME NEW text \in Seq(Char), NEW off \in 0 .. Len(text),
           NEW a, a.port \in Optional(Numeral(10)), sees(text, off, PortText(a)),
           a.port # <<>> => next_in(text, off, {":"}),
           next_in(text, off + Len(PortText(a)), PathMarks)
    PROVE  \/ parse_port(text, off) =
                 Read(off + Len(PortText(a)), IF a.port = <<>> THEN -1 ELSE a.port[1].val)
           \/ Missed(parse_port(text, off), text)
<1> DEFINE r == parse_port(text, off)
           t == PortText(a)
           n == a.port[1]
           num == parse_number(text, off + 1, 10, UINT16_MAX)
<1>1. off \in Nat
  OBVIOUS
<1>2. r = IF ~next_in(text, off, {":"}) THEN Read(off, -1)
          ELSE IF next_in(text, off + 1, Digit) THEN num ELSE Read(off + 1, -1)
  BY Zenon DEF parse_port
<1>3. CASE a.port = <<>>
  <2>1. Len(t) = 0
    BY Zenon, <1>3, Empty DEF PortText
  <2> HIDE DEF t
  <2>2. off + Len(t) = off
    BY <1>1, <2>1
  <2>3. ~next_in(text, off, {":"})
    <3>1. next_in(text, off, PathMarks)
      BY Zenon, <2>2 DEF t
    <3> QED BY Zenon, <3>1, HostMarksApart, NoneOf
  <2> HIDE DEF r, num
  <2>4. r = Read(off, -1)
    BY Zenon, <1>2, <2>3
  <2> QED BY Zenon, <1>3, <2>2, <2>4 DEF t, r
<1>4. CASE a.port # <<>>
  <2>1. n \in Numeral(10)
    BY Zenon, <1>4, PortIn
  <2>2. t = <<":">> \o n.text /\ n.text \in Seq(Char) /\ n.text # <<>> /\ n.text[1] \in Digit
        /\ n.val \in Nat
    BY Zenon, <1>4, <2>1, NumeralText DEF PortText
  <2>3. <<":">> \in Seq(Char) /\ Len(<<":">>) = 1
    <3>1. ":" \in Char
      BY Separators DEF Separator
    <3> QED BY Zenon, <3>1, OneIn
  <2>4. sees(text, off + 1, n.text) /\ Len(t) = 1 + Len(n.text)
    <3>1. sees(text, off, <<":">> \o n.text)
      BY Zenon, <2>2
    <3>2. sees(text, off + Len(<<":">>), n.text)
      BY Zenon, <1>1, <2>2, <2>3, <3>1, SeesParts
    <3>3. Len(<<":">> \o n.text) = Len(<<":">>) + Len(n.text)
      BY Zenon, <2>2, <2>3, Joins
    <3> QED BY Zenon, <2>2, <2>3, <3>2, <3>3
  <2> DEFINE end == off + Len(t)
             k == off + 1
  <2>5. end = k + Len(n.text) /\ k \in Nat
    <3> DEFINE l == Len(n.text)
    <3>1. l \in Nat /\ Len(t) = 1 + l
      BY <2>2, <2>4
    <3> HIDE DEF t, l
    <3>2. end = k + l
      BY <1>1, <3>1
    <3>3. k \in Nat
      BY <1>1
    <3> QED BY Zenon, <3>2, <3>3 DEF l
  <2> HIDE DEF n, t
  <2>6. ~next_in(text, end, Digit)
    <3>1. next_in(text, end, PathMarks)
      BY Zenon DEF t
    <3> QED BY Zenon, <3>1, HostMarksApart, NoneOf
  <2>7. Limit(UINT16_MAX) /\ 10 \in {10, 16} /\ 10 # 16
    BY LimitsAssumption DEF Limit
  <2> HIDE DEF end, k
  <2>8. ~next_in(text, k + Len(n.text), Digit)
    BY Zenon, <2>5, <2>6
  <2>9. ReadAs(parse_number(text, k, 10, UINT16_MAX), text, k, 10, UINT16_MAX, n)
    BY Zenon, <2>1, <2>4, <2>5, <2>7, <2>8, NumberAt DEF k
  <2>10. next_in(text, k, Digit) /\ next_in(text, off, {":"})
    <3>1. \A chars : next_in(text, k, chars) <=> n.text[1] \in chars
      BY Zenon, <2>2, <2>4, <2>5, NextIsFirst DEF k, n
    <3> QED BY Zenon, <1>4, <2>2, <3>1 DEF n
  <2>11. r = parse_number(text, k, 10, UINT16_MAX)
    BY Zenon, <1>2, <2>10 DEF k
  <2> HIDE DEF r
  <2>12. n.val <= UINT16_MAX \/ n.val > UINT16_MAX
    <3> DEFINE v == n.val
    <3>1. v \in Nat /\ UINT16_MAX \in Nat
      BY Zenon, <2>2, <2>7 DEF Limit, n
    <3> HIDE DEF v
    <3>2. v <= UINT16_MAX \/ v > UINT16_MAX
      BY <3>1
    <3> QED BY Zenon, <3>2 DEF v
  <2>13. CASE n.val <= UINT16_MAX
    <3>1. r = Read(end, n.val)
      BY Zenon, <2>5, <2>7, <2>9, <2>11, <2>13 DEF ReadAs
    <3> QED BY Zenon, <1>4, <3>1 DEF r, end, n, t
  <2>14. CASE n.val > UINT16_MAX
    <3>1. next_in(text, r.off, Digit)
      BY Zenon, <2>9, <2>11, <2>14 DEF ReadAs
    <3> QED BY Zenon, <3>1 DEF Missed, r
  <2> QED BY Zenon, <2>12, <2>13, <2>14
<1> QED BY Zenon, <1>3, <1>4

InfoChars == Unreserved \cup Subdelim \cup {":"}

LEMMA InfoUnfolds ==
    ASSUME NEW text, NEW off, NEW end, end = span(text, off, InfoChars)
    PROVE  parse_user_info(text, off).off =
              IF end > off /\ next_in(text, end, {"@"}) THEN end + 1 ELSE off
<1> DEFINE r == parse_user_info(text, off)
           v == Slice(off, Len(text))
<1>1. r = IF end > off /\ next_in(text, end, {"@"}) THEN Read(end + 1, v) ELSE Read(off, NoSlice)
  BY Zenon DEF parse_user_info, InfoChars
<1> HIDE DEF r, v
<1>2. Read(end + 1, v).off = end + 1 /\ Read(off, NoSlice).off = off
  BY Zenon DEF Read
<1>3. r.off = IF end > off /\ next_in(text, end, {"@"}) THEN end + 1 ELSE off
  BY Zenon, <1>1, <1>2
<1> QED BY Zenon, <1>3 DEF r

\* A host that is no IPv6 address and the port behind it could be user info.
LEMMA HostAndPort ==
    ASSUME NEW a, IsAuthority(a), a.host.type # "IPV6"
    PROVE  a.host.text \o PortText(a) \in Seq(InfoChars)
<1> DEFINE s == a.host.text
           t == PortText(a)
<1>1. Digit \subseteq InfoChars /\ "." \in InfoChars /\ ":" \in InfoChars
      /\ Unreserved \cup Subdelim \subseteq InfoChars /\ "." \in Char
  <2>1. Digit \subseteq InfoChars /\ Unreserved \cup Subdelim \subseteq InfoChars /\ "." \in Unreserved
    BY Zenon DEF InfoChars, Unreserved
  <2>2. ":" \in InfoChars
    BY Zenon DEF InfoChars
  <2>3. "." \in Char
    BY Separators DEF Separator
  <2> QED BY Zenon, <2>1, <2>2, <2>3
<1>2. s \in Seq(InfoChars)
  <2>1. CASE s \in Seq(Unreserved \cup Subdelim)
    BY Zenon, <1>1, <2>1, Wider
  <2>2. CASE a.host.octets \in Seq(Numeral(10)) /\ s = Joined(a.host.octets, ".")
    <3>1. Joined(a.host.octets, ".") \in Seq(Digit \cup {"."})
      BY Zenon, <1>1, <2>2, JoinedIn
    <3>2. Digit \cup {"."} \subseteq InfoChars
      BY Zenon, <1>1
    <3>3. s \in Seq(Digit \cup {"."})
      BY Zenon, <2>2, <3>1
    <3> QED BY Zenon, <3>2, <3>3, Wider
  <2> QED BY Zenon, <2>1, <2>2 DEF IsAuthority, IsHost
<1>3. t \in Seq(InfoChars)
  <2>1. CASE a.port = <<>>
    <3>1. <<>> \in Seq(InfoChars)
      OBVIOUS
    <3> QED BY Zenon, <2>1, <3>1 DEF PortText
  <2>2. CASE a.port # <<>>
    <3> DEFINE d == a.port[1].text
    <3>1. d \in Seq(Digit)
      BY Zenon, <2>2, PortIn, NumeralText DEF IsAuthority
    <3>2. d \in Seq(InfoChars) /\ <<":">> \in Seq(InfoChars)
      BY Zenon, <1>1, <3>1, Wider, OneIn
    <3>3. <<":">> \o d \in Seq(InfoChars)
      BY Zenon, <3>2, JoinsIn
    <3> QED BY Zenon, <2>2, <3>3 DEF PortText
  <2> QED BY Zenon, <2>1, <2>2
<1> QED BY Zenon, <1>2, <1>3, JoinsIn

\* User info is read to its end, unless there is none of it in front of an "@".
LEMMA InfoWritten ==
    ASSUME NEW head \in RequestTexts, NEW text, text = HeadText(head), head.url.authority # <<>>
    PROVE  LET off == UrlAt(head) + 2
               r == parse_user_info(text, off)
           IN  r.off = HostAt(head) \/ (r.off = off /\ next_in(text, off, {"@"}))
<1> DEFINE a == head.url.authority[1]
           o == UrlAt(head) + 2
           r == parse_user_info(text, o)
           end == span(text, o, InfoChars)
           y == HostAt(head)
           z == PortAt(head)
           e == PathAt(head)
<1>1. AuthorityLaid(text, head) /\ IsAuthority(a)
  BY Zenon, AuthorityIs
<1>2. /\ text \in Seq(Char) /\ UserText(a) \in Seq(Char) /\ sees(text, o, UserText(a))
      /\ y = o + Len(UserText(a)) /\ y \in Nat /\ a.host.text \in Seq(Char)
      /\ sees(text, y, a.host.text) /\ z = y + Len(a.host.text) /\ z \in Nat
      /\ PortText(a) \in Seq(Char) /\ sees(text, z, PortText(a)) /\ e = z + Len(PortText(a))
  BY Zenon, <1>1 DEF AuthorityLaid, HostAt, PortAt
<1>3. o \in Nat
  <2>1. UrlAt(head) \in Nat
    BY Zenon, <1>1 DEF AuthorityLaid
  <2> QED BY <2>1
<1>4. r.off = IF end > o /\ next_in(text, end, {"@"}) THEN end + 1 ELSE o
  BY Zenon, InfoUnfolds
<1>5. next_in(text, e, PathMarks)
  BY Zenon, BehindAuthority
<1> HIDE DEF a, o, r, y, z, e
<1>6. CASE a.user = <<>>
  <2>1. y = o
    <3>1. Len(UserText(a)) = 0
      BY Zenon, <1>6, Empty DEF UserText
    <3> QED BY <1>2, <1>3, <3>1
  <2>2. CASE a.host.type # "IPV6"
    <3> DEFINE s == a.host.text
               t == PortText(a)
               w == s \o t
    <3>1. w \in Seq(InfoChars) /\ w \in Seq(Char) /\ Len(w) = Len(s) + Len(t)
      BY Zenon, <1>1, <1>2, <2>2, HostAndPort, Joins
    <3>2. sees(text, o, s) /\ sees(text, o + Len(s), t) /\ e = (o + Len(s)) + Len(t)
      BY Zenon, <1>2, <2>1
    <3>3. sees(text, o, w)
      BY Zenon, <1>2, <1>3, <3>2, SeesParts
    <3>4. e = o + Len(w)
      <4> DEFINE l == Len(s)
                 m == Len(t)
      <4>1. l \in Nat /\ m \in Nat
        BY <1>2
      <4>2. Len(w) = l + m /\ e = (o + l) + m
        BY Zenon, <3>1, <3>2
      <4> HIDE DEF l, m, w
      <4> QED BY <1>3, <4>1, <4>2
    <3> HIDE DEF w
    <3>5. ~next_in(text, o + Len(w), InfoChars) /\ ~next_in(text, e, {"@"})
      <4>1. ~next_in(text, e, InfoChars) /\ ~next_in(text, e, {"@"})
        BY Zenon, <1>5, HostMarksApart, NoneOf DEF InfoChars
      <4> QED BY Zenon, <3>4, <4>1
    <3>6. span(text, o, InfoChars) = o + Len(w)
      <4>1. text \in Seq(Char) /\ o \in Nat /\ w \in Seq(Char) /\ w \in Seq(InfoChars)
            /\ sees(text, o, w) /\ ~next_in(text, o + Len(w), InfoChars)
        BY Zenon, <1>2, <1>3, <3>1, <3>3, <3>5
      <4> QED BY Zenon, <4>1, SpanOf
    <3>7. end = e
      BY Zenon, <3>4, <3>6
    <3> HIDE DEF end
    <3>8. r.off = o
      BY Zenon, <1>4, <3>5, <3>7
    <3> QED BY Zenon, <2>1, <3>8 DEF r, y, o
  <2>3. CASE a.host.type = "IPV6"
    <3> DEFINE s == a.host.text
    <3>1. next_in(s, 0, {"["})
      <4>1. "IPV6" # "NAME" /\ "IPV6" # "IPV4"
        OBVIOUS
      <4>2. a.host.type # "NAME" /\ a.host.type # "IPV4"
        BY Zenon, <2>3, <4>1
      <4> QED BY Zenon, <1>1, <4>2 DEF IsAuthority, IsHost
    <3>2. s # <<>> /\ s[1] = "["
      <4>1. 0 < Len(s) /\ s[0 + 1] = "["
        BY Zenon, <3>1 DEF next_in
      <4> HIDE DEF s
      <4> QED BY <4>1
    <3>3. sees(text, o, s) /\ s \in Seq(Char)
      BY Zenon, <1>2, <2>1
    <3>4. \A chars : next_in(text, o, chars) <=> s[1] \in chars
      BY Zenon, <1>2, <1>3, <3>2, <3>3, NextIsFirst
    <3>5. ~next_in(text, o, InfoChars)
      BY Zenon, <3>2, <3>4, BracketApart DEF InfoChars
    <3>6. end = o
      <4>1. next_in(text, o, {"["})
        BY Zenon, <3>2, <3>4
      <4>2. o < Len(text)
        BY Zenon, <4>1 DEF next_in
      <4>3. o \in 0 .. Len(text) /\ o \in o .. Len(text) /\ \A i \in o .. o - 1 : FALSE
        BY <1>2, <1>3, <4>2
      <4> QED BY Zenon, <1>2, <3>5, <4>3, SpanIs
    <3> HIDE DEF end
    <3>7. ~(end > o)
      BY <1>3, <3>6
    <3>8. r.off = o
      BY Zenon, <1>4, <3>7
    <3> QED BY Zenon, <2>1, <3>8 DEF r, y, o
  <2> QED BY Zenon, <2>2, <2>3
<1>7. CASE a.user # <<>>
  <2> DEFINE u == a.user[1]
             k == o + Len(u)
  <2>1. u \in Seq(InfoChars) /\ UserText(a) = u \o <<"@">>
    BY Zenon, <1>1, <1>7, UserIn DEF IsAuthority, InfoChars, UserText
  <2>2. u \in Seq(Char) /\ <<"@">> \in Seq(Char) /\ Len(<<"@">>) = 1 /\ <<"@">>[1] = "@"
        /\ <<"@">> # <<>>
    <3>1. InfoChars \subseteq Char /\ "@" \in Char
      BY Zenon, UrlClasses, UrlMarks DEF InfoChars
    <3> QED BY Zenon, <2>1, <3>1, Wider, OneIn
  <2>3. sees(text, o, u) /\ sees(text, k, <<"@">>)
    <3>1. sees(text, o, u \o <<"@">>)
      BY Zenon, <1>2, <2>1
    <3> QED BY Zenon, <1>2, <1>3, <2>2, <3>1, SeesParts
  <2>4. y = o + (Len(u) + 1) /\ Len(u) \in Nat
    <3>1. Len(u \o <<"@">>) = Len(u) + Len(<<"@">>)
      BY Zenon, <2>2, Joins
    <3>2. Len(u) \in Nat
      BY <2>2
    <3> QED BY Zenon, <1>2, <2>1, <2>2, <3>1, <3>2
  <2>5. k \in Nat
    <3> HIDE DEF u
    <3> QED BY <1>3, <2>4
  <2>6. \A chars : next_in(text, k, chars) <=> "@" \in chars
    <3>1. \A chars : next_in(text, k, chars) <=> <<"@">>[1] \in chars
      BY Zenon, <1>2, <2>2, <2>3, <2>5, NextIsFirst
    <3> QED BY Zenon, <2>2, <3>1
  <2>7. ~next_in(text, k, InfoChars) /\ next_in(text, k, {"@"})
    BY Zenon, <2>6, BracketApart DEF InfoChars
  <2>8. end = k
    <3> HIDE DEF u
    <3>1. text \in Seq(Char) /\ o \in Nat /\ u \in Seq(Char) /\ u \in Seq(InfoChars)
          /\ sees(text, o, u) /\ ~next_in(text, o + Len(u), InfoChars)
      BY Zenon, <1>2, <1>3, <2>1, <2>2, <2>3, <2>7
    <3>2. span(text, o, InfoChars) = o + Len(u)
      BY Zenon, <3>1, SpanOf
    <3> QED BY Zenon, <3>2
  <2> HIDE DEF end
  <2>9. CASE Len(u) = 0
    <3> HIDE DEF u
    <3>1. k = o
      BY <1>3, <2>9
    <3>2. ~(end > o)
      <4> HIDE DEF k
      <4> QED BY <1>3, <2>8, <3>1
    <3>3. r.off = o
      BY Zenon, <1>4, <3>2
    <3>4. next_in(text, o, {"@"})
      BY Zenon, <2>7, <3>1
    <3> QED BY Zenon, <3>3, <3>4 DEF r, o
  <2>10. CASE Len(u) # 0
    <3> HIDE DEF u
    <3>1. k > o /\ k + 1 = y
      BY <1>3, <2>4, <2>10
    <3>2. r.off = end + 1
      BY Zenon, <1>4, <2>7, <2>8, <3>1
    <3> QED BY Zenon, <2>8, <3>1, <3>2 DEF r, y, o
  <2> QED BY Zenon, <2>9, <2>10
<1> QED BY Zenon, <1>6, <1>7

LEMMA LenIn ==
    ASSUME NEW S, NEW s \in Seq(S)
    PROVE  Len(s) \in Nat
OBVIOUS

\* Where the parts of the authority lie inside of the text.
LEMMA AuthorityPlaces ==
    ASSUME NEW head \in RequestTexts, NEW text, text = HeadText(head), head.url.authority # <<>>
    PROVE  /\ HostAt(head) \in 0 .. Len(text) /\ PortAt(head) \in 0 .. Len(text)
           /\ UrlAt(head) + 2 \in 0 .. VersionAt(head) /\ UrlAt(head) + 2 \in 0 .. Len(text)
<1> DEFINE y == HostAt(head)
           z == PortAt(head)
           l == Len(head.url.authority[1].host.text)
           o == UrlAt(head) + 2
           end == VersionAt(head)
<1>1. y \in Nat /\ z = y + l /\ text \in Seq(Char) /\ head.url.authority[1].host.text \in Seq(Char)
      /\ sees(text, UrlAt(head), Slashes)
  BY Zenon, AuthorityIs DEF AuthorityLaid, PortAt
<1>2. l \in Nat /\ Len(text) \in Nat
  <2> DEFINE s == head.url.authority[1].host.text
  <2>1. s \in Seq(Char) /\ text \in Seq(Char)
    BY Zenon, <1>1
  <2> HIDE DEF s
  <2>2. Len(s) \in Nat /\ Len(text) \in Nat
    BY Zenon, <2>1, LenIn
  <2> QED BY Zenon, <2>2 DEF s
<1>3. next_in(text, z, HostMarks)
  BY Zenon, BehindHost
<1>4. z < Len(text)
  BY Zenon, <1>3 DEF next_in
<1>5. Wall(text, end) /\ UrlAt(head) \in 0 .. end
  BY Zenon, WallAtVersion
<1>6. o \in 0 .. end
  BY Zenon, <1>1, <1>5, SlashesStop
<1>7. o \in 0 .. Len(text)
  BY Zenon, <1>5, <1>6, WallPlaces
<1> HIDE DEF y, z, l
<1>8. y \in 0 .. Len(text) /\ z \in 0 .. Len(text)
  BY <1>1, <1>2, <1>4
<1> QED BY Zenon, <1>6, <1>7, <1>8 DEF y, z

\* Where neither a host nor a port begins nothing of either is read.
LEMMA NothingAt ==
    ASSUME NEW text \in Seq(Char), NEW off \in 0 .. Len(text), next_in(text, off, {"@"})
    PROVE  parse_port(text, parse_host(text, off).off).off = off
<1> DEFINE C == Unreserved \cup Subdelim
           r == parse_host(text, off)
           n == host_name(text, off)
           ip4 == parse_ipv4(text, off)
           ip6 == parse_ipv6(text, off)
           v4 == IF ip4.res = "true" THEN Read(ip4.off, [type |-> "IPV4", text |-> Slice(off, ip4.off)])
                 ELSE host_name(text, ip4.off)
           v6 == IF ip6.res = "true"
                 THEN IF next_in(text, ip6.off, {"]"})
                      THEN Read(ip6.off + 1, [type |-> "IPV6", text |-> Slice(off, ip6.off)])
                      ELSE Unread(ip6.off)
                 ELSE ip6
<1>1. ~next_in(text, off, {"["}) /\ ~next_in(text, off, Digit) /\ ~next_in(text, off, {":"})
      /\ ~next_in(text, off, C)
  <2>1. /\ {"@"} \cap {"["} = {} /\ {"@"} \cap Digit = {} /\ {"@"} \cap {":"} = {}
        /\ {"@"} \cap C = {}
    BY Zenon, BracketApart
  <2> QED BY Zenon, <2>1, NoneOf
<1>2. off # Len(text) /\ off \in Nat /\ off \in off .. Len(text) /\ \A i \in off .. off - 1 : FALSE
  <2>1. off < Len(text)
    BY Zenon DEF next_in
  <2> QED BY <2>1
<1>3. span(text, off, C) = off
  BY Zenon, <1>1, <1>2, SpanIs
<1>4. n = Read(off, [type |-> "NAME", text |-> Slice(off, off)])
  BY Zenon, <1>3 DEF host_name
<1>5. r = IF off = Len(text) THEN Unread(off)
          ELSE IF next_in(text, off, {"["}) THEN v6
          ELSE IF ~next_in(text, off, Digit) THEN n
          ELSE v4
  BY DEF parse_host, Then
<1> HIDE DEF r, n, v4, v6
<1>6. r.off = off
  <2>1. r = n
    BY Zenon, <1>1, <1>2, <1>5
  <2> QED BY Zenon, <1>4, <2>1 DEF Read
<1>7. parse_port(text, off) = Read(off, -1)
  BY Zenon, <1>1 DEF parse_port
<1>8. parse_port(text, r.off).off = off
  <2>1. Read(off, -1).off = off
    BY DEF Read
  <2>2. parse_port(text, r.off) = Read(off, -1)
    BY Zenon, <1>6, <1>7
  <2> QED BY Zenon, <2>1, <2>2
<1> QED BY Zenon, <1>8 DEF r

\* No port begins at a digit.
LEMMA NoPortAt ==
    ASSUME NEW text, NEW off, next_in(text, off, Digit)
    PROVE  parse_port(text, off).off = off
<1>1. ~next_in(text, off, {":"})
  <2>1. Digit \cap {":"} = {}
    BY Zenon, BracketApart
  <2> QED BY Zenon, <2>1, NoneOf
<1>2. parse_port(text, off) = Read(off, -1)
  BY Zenon, <1>1 DEF parse_port
<1>3. Read(off, -1).off = off
  BY DEF Read
<1> QED BY Zenon, <1>2, <1>3

\* An authority that was read as it was written.
AuthorityMeans(a, head) ==
    LET written == head.url.authority[1]
    IN  /\ a.off = PathAt(head)
        /\ a.val.host = [type |-> written.host.type, text |-> Slice(HostAt(head), PortAt(head))]
        /\ a.val.port = IF written.port = <<>> THEN -1 ELSE written.port[1].val

LEMMA AuthorityWritten ==
    ASSUME NEW head \in RequestTexts, NEW text, text = HeadText(head), head.url.authority # <<>>,
           NEW host, host = head.url.authority[1].host,
           host.type = "NAME" => ~next_in(host.text, 0, Digit),
           NEW url, NEW a, NEW p, NEW q, NEW g, AcceptedParts(text, head, url, a, p, q, g)
    PROVE  AuthorityMeans(a, head)
<1> DEFINE o == UrlAt(head) + 2
           written == head.url.authority[1]
           i == parse_user_info(text, o)
           h == parse_host(text, i.off)
           n == parse_port(text, h.off)
           y == HostAt(head)
           z == PortAt(head)
           e == PathAt(head)
           num == IF written.port = <<>> THEN -1 ELSE written.port[1].val
           val == [userinfo |-> i.val, host |-> h.val, port |-> n.val]
<1>1. AuthorityLaid(text, head) /\ IsAuthority(written)
  BY Zenon, AuthorityIs
<1>2. /\ text \in Seq(Char) /\ y \in Nat /\ host.text \in Seq(Char) /\ sees(text, y, host.text)
      /\ z = y + Len(host.text) /\ sees(text, z, PortText(written)) /\ e = z + Len(PortText(written))
  BY Zenon, <1>1 DEF AuthorityLaid, PortAt
<1>3. /\ y \in 0 .. Len(text) /\ z \in 0 .. Len(text) /\ o \in 0 .. Len(text)
      /\ o \in 0 .. VersionAt(head)
  BY Zenon, AuthorityPlaces
<1>4. i.res = "true"
  <2>1. Wall(text, VersionAt(head))
    BY Zenon, WallAtVersion
  <2> QED BY Zenon, <1>3, <2>1, UserInfoStops
<1>5. a = parse_authority(text, o) /\ a.res = "true"
  BY Zenon DEF AcceptedParts
<1>6. /\ h.res # "true" => parse_authority(text, o) = h
      /\ h.res = "true" /\ n.res # "true" => parse_authority(text, o) = n
      /\ h.res = "true" /\ n.res = "true" => parse_authority(text, o) = Read(n.off, val)
  <2>1. AuthorityFrom(text, o, i, h, n)
    BY Zenon, <1>4 DEF AuthorityFrom
  <2> HIDE DEF i, h, n, o
  <2>2. /\ h.res # "true" => parse_authority(text, o) = h
        /\ h.res = "true" /\ n.res # "true" => parse_authority(text, o) = n
        /\ h.res = "true" /\ n.res = "true" =>
              parse_authority(text, o) =
                 Read(n.off, [userinfo |-> i.val, host |-> h.val, port |-> n.val])
    BY <2>1, AuthorityUnfolds
  <2> QED BY <2>2
<1>7. next_in(text, a.off, PathMarks) /\ next_in(text, e, PathMarks) /\ next_in(text, z, HostMarks)
      /\ (written.port # <<>> => next_in(text, z, {":"}))
  BY Zenon, AuthorityEnds, BehindAuthority, BehindHost
<1>8. i.off = y \/ (i.off = o /\ next_in(text, o, {"@"}))
  BY Zenon, InfoWritten
<1>9. ~next_in(text, a.off, Digit) /\ ~next_in(text, a.off, {"@"})
  BY Zenon, <1>7, HostMarksApart, NoneOf
<1>10. n.off = parse_port(text, parse_host(text, i.off).off).off
  BY Zenon
<1>11. HostIs(parse_host(text, y), y, host) \/ Missed(parse_host(text, y), text)
  <2>1. IsHost(host) /\ next_in(text, y + Len(host.text), HostMarks)
    BY Zenon, <1>1, <1>2, <1>7 DEF IsAuthority
  <2> HIDE DEF y
  <2> QED BY Zenon, <1>2, <1>3, <2>1, HostWritten
<1>12. \/ parse_port(text, z) = Read(e, num)
       \/ Missed(parse_port(text, z), text)
  <2>1. written.port \in Optional(Numeral(10)) /\ next_in(text, z + Len(PortText(written)), PathMarks)
    BY Zenon, <1>1, <1>2, <1>7 DEF IsAuthority
  <2> HIDE DEF z, e, written
  <2>2. \/ parse_port(text, z) = Read(z + Len(PortText(written)),
                                      IF written.port = <<>> THEN -1 ELSE written.port[1].val)
        \/ Missed(parse_port(text, z), text)
    BY Zenon, <1>2, <1>3, <1>7, <2>1, PortWritten
  <2> QED BY Zenon, <1>2, <2>2
<1> HIDE DEF o, y, z, e, h, n, i, val, num
<1>13. h.res = "true" /\ n.res = "true" /\ a = Read(n.off, val)
  BY Zenon, <1>5, <1>6
<1>14. a.off = n.off /\ a.val = val
  BY Zenon, <1>13 DEF Read
<1>15. i.off = y
  <2> SUFFICES ASSUME i.off = o, next_in(text, o, {"@"}) PROVE FALSE
    BY Zenon, <1>8
  <2>1. parse_port(text, parse_host(text, o).off).off = o
    BY Zenon, <1>2, <1>3, NothingAt
  <2>2. a.off = o
    BY Zenon, <1>10, <1>14, <2>1
  <2> QED BY Zenon, <1>9, <2>2
<1>16. h = parse_host(text, y)
  BY Zenon, <1>15 DEF h
<1>17. HostIs(h, y, host)
  <2> SUFFICES ASSUME Missed(h, text) PROVE FALSE
    BY Zenon, <1>11, <1>16
  <2>1. next_in(text, h.off, Digit)
    BY Zenon, <1>13 DEF Missed
  <2>2. n.off = h.off
    BY Zenon, <2>1, NoPortAt DEF n
  <2> QED BY Zenon, <1>9, <1>14, <2>1, <2>2
<1>18. h = Read(z, [type |-> host.type, text |-> Slice(y, z)])
  BY Zenon, <1>2, <1>17 DEF HostIs
<1>19. h.off = z /\ h.val = [type |-> host.type, text |-> Slice(y, z)]
  BY Zenon, <1>18 DEF Read
<1>20. n = parse_port(text, z)
  BY Zenon, <1>19 DEF n
<1>21. n = Read(e, num)
  <2> SUFFICES ASSUME Missed(n, text) PROVE FALSE
    BY Zenon, <1>12, <1>20
  <2>1. next_in(text, n.off, Digit)
    BY Zenon, <1>13 DEF Missed
  <2> QED BY Zenon, <1>9, <1>14, <2>1
<1>22. n.off = e /\ n.val = num
  BY Zenon, <1>21 DEF Read
<1>23. a.val.host = h.val /\ a.val.port = n.val
  BY <1>14 DEF val
<1>24. /\ a.off = e /\ a.val.host = [type |-> host.type, text |-> Slice(y, z)] /\ a.val.port = num
  BY Zenon, <1>14, <1>19, <1>22, <1>23
<1> QED BY <1>24 DEF AuthorityMeans, e, y, z, num

\* What AuthorityAsMeant says of a URL that was read from text.
AuthorityKept(text, url, u) ==
    LET written == u.authority[1]
    IN  /\ url.authority.host.type = written.host.type
        /\ Denoted(text, url.authority.host.text) = written.host.text
        /\ url.authority.port = IF written.port = <<>> THEN -1 ELSE written.port[1].val
        /\ Denoted(text, url.path) = u.path

LEMMA AcceptedAuthority ==
    ASSUME NEW head \in RequestTexts, NEW text, text = HeadText(head), head.url.authority # <<>>,
           NEW host, host = head.url.authority[1].host,
           host.type = "NAME" => ~next_in(host.text, 0, Digit),
           NEW r, r = parse_request(text).val, r.valid
    PROVE  AuthorityKept(text, r.url, head.url)
<1> DEFINE url == parse_url(text, UrlAt(head))
           y == HostAt(head)
           z == PortAt(head)
           v == Slice(y, z)
           num == IF head.url.authority[1].port = <<>> THEN -1 ELSE head.url.authority[1].port[1].val
<1>1. parse_request(text).val.valid
  BY Zenon
<1>2. r.url = url.val
  <2>1. url.res = "true" /\ url.off = VersionAt(head)
    BY Zenon, <1>1, AcceptedEnds
  <2>2. WhollyRead(parse_request(text), text, head, url.val)
    BY Zenon, <2>1, ReadThrough
  <2> QED BY Zenon, <2>2 DEF WhollyRead
<1> HIDE DEF url
<1>3. PICK a, p, q, g : AcceptedParts(text, head, url.val, a, p, q, g)
  BY Zenon, <1>1, AuthorityAccepted DEF url
<1>4. AuthorityMeans(a, head)
  BY Zenon, <1>3, AuthorityWritten
<1>5. /\ a.off = PathAt(head) /\ a.val.host = [type |-> host.type, text |-> v] /\ a.val.port = num
  <2> DEFINE type == head.url.authority[1].host.type
             x == PathAt(head)
  <2>1. a.off = x /\ a.val.port = num /\ a.val.host = [type |-> type, text |-> v]
    BY Zenon, <1>4 DEF AuthorityMeans
  <2>2. host.type = type
    BY Zenon
  <2> HIDE DEF v, num, type, x
  <2>3. a.off = x /\ a.val.host = [type |-> host.type, text |-> v] /\ a.val.port = num
    BY SMT, <2>1, <2>2
  <2> QED BY <2>3 DEF x
<1>6. Denoted(text, p.val) = head.url.path
  <2>1. a.off = PathAt(head)
    BY <1>5
  <2> DEFINE w == url.val
  <2>2. AcceptedParts(text, head, w, a, p, q, g)
    BY Zenon, <1>3
  <2> HIDE DEF w, v, y, z, num
  <2> QED BY Zenon, <2>1, <2>2, PathAccepted
<1>7. url.val.authority = a.val /\ url.val.path = p.val
  BY Zenon, <1>3 DEF AcceptedParts
<1>8. text \in Seq(Char) /\ y \in Nat /\ host.text \in Seq(Char) /\ sees(text, y, host.text)
      /\ z = y + Len(host.text)
  BY Zenon, AuthorityIs DEF AuthorityLaid, PortAt
<1> HIDE DEF y, z, num
<1>9. Denoted(text, v) = host.text
  BY Zenon, <1>8, DenotedIs
<1> HIDE DEF v
<1>10. a.val.host.type = host.type /\ a.val.host.text = v
  BY <1>5
<1>11. /\ r.url.authority.host.type = host.type /\ r.url.authority.host.text = v
       /\ r.url.authority.port = num /\ r.url.path = p.val
  BY Zenon, <1>2, <1>5, <1>7, <1>10
<1>12. /\ Denoted(text, r.url.authority.host.text) = host.text
       /\ Denoted(text, r.url.path) = head.url.path
  BY Zenon, <1>6, <1>9, <1>11
<1> QED BY Zenon, <1>11, <1>12 DEF AuthorityKept, num

\* When a URL with an authority is accepted, the type and the text of its host, its
\* port and its path are those that were written, unless its host is a name that
\* begins with a digit.
THEOREM AuthoritiesAreAsMeant == Spec => []AuthorityAsMeant
<1>1. Called => AuthorityAsMeant
  <2> DEFINE t == arg.means
             head == t.of
             text == RequestText(t)
             host == head.url.authority[1].host
  <2> SUFFICES ASSUME Called, arg.fn = "Request", IsWhole(t), req.valid, head.url.authority # <<>>,
                      host.type = "NAME" => ~next_in(host.text, 0, Digit)
               PROVE  AuthorityKept(text, req.url, head.url)
    BY Zenon DEF AuthorityAsMeant, AuthorityKept
  <2>1. PICK x : arg = Call("Request", x) /\ Parsed(x)
    BY Zenon, CalledFunction DEF RequestCalled
  <2>2. x = t
    BY Zenon, <2>1, CallFields
  <2>3. Parsed(t)
    BY Zenon, <2>1, <2>2
  <2>4. PICK h \in RequestTexts : t \in Arrivals(h)
    BY Zenon, <2>3 DEF Parsed
  <2>5. head = h
    BY Zenon, <2>4, ArrivalOf
  <2>6. text = HeadText(h)
    <3>1. t.lacks = 0
      BY Zenon DEF IsWhole
    <3> QED BY Zenon, <2>4, <3>1, WholeText
  <2>7. req = parse_request(text).val
    BY Zenon, <2>3 DEF Parsed
  <2> HIDE DEF text
  <2>8. /\ h.url.authority # <<>>
        /\ h.url.authority[1].host.type = "NAME" => ~next_in(h.url.authority[1].host.text, 0, Digit)
    BY Zenon, <2>5
  <2>9. AuthorityKept(text, req.url, h.url)
    BY Zenon, <2>4, <2>6, <2>7, <2>8, AcceptedAuthority
  <2> QED BY Zenon, <2>5, <2>9
<1> QED BY <1>1, AlwaysCalled, PTL
=============================================================================
