---------------------------- MODULE OutputProofs ----------------------------
(***************************************************************************)
(* Theorems about Output: that only a string longer than the first array is *)
(* ever written past the end of the buffer's array, that every response is  *)
(* in it as it was asked for, that bytes reach the socket in their number   *)
(* and, until it takes a part of them, in their order, and that Output does *)
(* what Outbox promises to Server.                                          *)
(***************************************************************************)
EXTENDS Output, SequenceTheorems, TLAPS

Text == Seq(Byte)

\* What the buffer's methods keep of a buffer: the array holds the bytes in use
\* unless one was written past its end, and none is smaller than the first, so
\* that doubling it makes the room a short string needs.
Buffers ==
    {b \in [data: Text, size: Nat, fail: BOOLEAN, overrun: BOOLEAN] :
        (~b.overrun => Len(b.data) <= b.size) /\ (b.size = 0 \/ b.size >= INITIAL_SIZE)}

-----------------------------------------------------------------------------
(* Texts and buffers.                                                      *)

LEMMA Texts ==
    /\ <<>> \in Text /\ Len(<<>>) = 0
    /\ \A s \in Text : Len(s) \in Nat /\ s \o <<>> = s /\ <<>> \o s = s
    /\ \A s, t \in Text : /\ s \o t \in Text /\ Len(s \o t) = Len(s) + Len(t)
                          /\ s \o t = <<>> => s = <<>> /\ t = <<>>
<1>1. <<>> \in Text /\ Len(<<>>) = 0
  BY EmptySeq DEF Text
<1>2. \A s \in Text : Len(s) \in Nat /\ s \o <<>> = s /\ <<>> \o s = s
  BY LenProperties, ConcatEmptySeq DEF Text
<1>3. \A s, t \in Text : s \o t \in Text /\ Len(s \o t) = Len(s) + Len(t)
  BY ConcatProperties DEF Text
<1>4. \A s, t \in Text : s \o t = <<>> => s = <<>> /\ t = <<>>
  BY ConcatEqualIffEmpty DEF Text
<1> QED BY <1>1, <1>2, <1>3, <1>4

LEMMA Associative ==
    ASSUME NEW s \in Text, NEW t \in Text, NEW u \in Text
    PROVE  (s \o t) \o u = s \o (t \o u)
BY ConcatAssociative DEF Text

LEMMA OneByte ==
    ASSUME NEW x \in Byte
    PROVE  <<x>> \in Text /\ Len(<<x>>) = 1 /\ <<x>> # <<>>
<1>1. <<x>> \in Text /\ Len(<<x>>) = 1
  BY DEF Text
<1> QED BY <1>1, Texts, Zenon

LEMMA TwoBytes ==
    ASSUME NEW x \in Byte, NEW y \in Byte
    PROVE  <<x, y>> = <<x>> \o <<y>>
<1>1. <<x>> \in Seq(Byte) /\ <<y>> \in Seq(Byte) /\ <<x, y>> \in Seq(Byte)
  OBVIOUS
<1>2. <<x, y>> = Append(<<x>>, y)
  OBVIOUS
<1> QED BY <1>1, <1>2, AppendIsConcat, Zenon

LEMMA FirstArray == INITIAL_SIZE \in Nat \ {0} /\ WIDTH \in Nat /\ WIDTH + 1 <= INITIAL_SIZE
BY OutputAssumption DEF OutputAssumption

LEMMA TheBlanks ==
    /\ Blanks \in Text /\ Len(Blanks) = WIDTH
    /\ Append(Blanks, "CRLF") = Blanks \o <<"CRLF">>
    /\ Append(Blanks, "CRLF") \in Text /\ Len(Append(Blanks, "CRLF")) <= INITIAL_SIZE
<1>1. " " \in Byte /\ "CRLF" \in Byte
  BY DEF Byte, Literal
<1>2. ASSUME NEW x \in Byte, NEW n \in Nat
      PROVE  [i \in 1 .. n |-> x] \in Text /\ Len([i \in 1 .. n |-> x]) = n
  BY DEF Text
<1>3. Blanks \in Text /\ Len(Blanks) = WIDTH
  BY <1>1, <1>2, FirstArray, Zenon DEF Blanks
<1>4. /\ Append(Blanks, "CRLF") = Blanks \o <<"CRLF">>
      /\ Append(Blanks, "CRLF") \in Text /\ Len(Append(Blanks, "CRLF")) = Len(Blanks) + 1
  BY <1>1, <1>3, AppendIsConcat, AppendProperties DEF Text
<1> QED BY <1>3, <1>4, FirstArray

\* ensure_unused_space() changes neither the data nor what Buffers says; for no
\* more bytes than the first array has it makes room or fails.
LEMMA RoomIsMade ==
    ASSUME NEW b \in Buffers, ~b.fail, NEW min \in Nat, NEW memory \in Nat
    PROVE  LET r == ensure_unused_space(b, min, memory)
           IN  /\ r \in Buffers /\ r.data = b.data /\ r.overrun = b.overrun
               /\ ~b.overrun /\ min <= INITIAL_SIZE /\ ~r.fail => Len(b.data) + min <= r.size
<1> DEFINE r == ensure_unused_space(b, min, memory)
           new_size == IF b.size > 0 THEN 2 * b.size ELSE INITIAL_SIZE
<1>1. /\ b \in [data: Text, size: Nat, fail: BOOLEAN, overrun: BOOLEAN] /\ Len(b.data) \in Nat /\ b.size \in Nat
      /\ (~b.overrun => Len(b.data) <= b.size) /\ (b.size = 0 \/ b.size >= INITIAL_SIZE)
  BY Texts DEF Buffers
<1>2. /\ new_size \in Nat /\ b.size <= new_size /\ new_size >= INITIAL_SIZE
      /\ ~b.overrun /\ min <= INITIAL_SIZE => Len(b.data) + min <= new_size
  BY <1>1, FirstArray
<1>3. CASE Len(b.data) + min <= b.size
  BY <1>3 DEF ensure_unused_space
<1>4. CASE ~(Len(b.data) + min <= b.size)
  <2>1. r = IF new_size > memory THEN Failed(b) ELSE [b EXCEPT !.size = new_size]
    BY <1>4 DEF ensure_unused_space
  <2> HIDE DEF new_size, r
  <2>2. CASE new_size > memory
    <3>1. r = [b EXCEPT !.fail = TRUE]
      BY <2>1, <2>2 DEF Failed
    <3>2. r.data = b.data /\ r.size = b.size /\ r.fail /\ r.overrun = b.overrun
          /\ r \in [data: Text, size: Nat, fail: BOOLEAN, overrun: BOOLEAN]
      BY <1>1, <3>1
    <3> QED BY <1>1, <3>2 DEF Buffers, r
  <2>3. CASE ~(new_size > memory)
    <3>1. r = [b EXCEPT !.size = new_size]
      BY <2>1, <2>3
    <3>2. r.data = b.data /\ r.size = new_size /\ r.overrun = b.overrun
          /\ r \in [data: Text, size: Nat, fail: BOOLEAN, overrun: BOOLEAN]
      BY <1>1, <1>2, <3>1
    <3>3. r \in Buffers
      BY <1>1, <1>2, <3>2, FirstArray DEF Buffers
    <3> QED BY <1>2, <3>2, <3>3 DEF r
  <2> QED BY <2>2, <2>3
<1> QED BY <1>3, <1>4

\* write() appends the string or fails, and fails for good; it stays inside of the
\* array when the string is no longer than the first one.
LEMMA WriteAppends ==
    ASSUME NEW b \in Buffers, NEW str \in Text, NEW memory \in Memory
    PROVE  LET r == write(b, str, memory)
           IN  /\ r \in Buffers /\ (~r.fail => ~b.fail /\ r.data = b.data \o str)
               /\ r.overrun => b.overrun \/ Len(str) > INITIAL_SIZE
<1> DEFINE r == write(b, str, memory)
<1>1. memory \in Nat /\ MAX_INT \in Nat
  BY OutputAssumption DEF OutputAssumption
<1>2. CASE b.fail
  BY <1>2 DEF write
<1>3. CASE ~b.fail /\ Len(b.data) > MAX_INT - Len(str)
  BY <1>3 DEF write, Failed, Buffers
<1>4. CASE ~b.fail /\ ~(Len(b.data) > MAX_INT - Len(str))
  <2> DEFINE g == ensure_unused_space(b, Len(str), memory)
             d == b.data \o str
             past == g.overrun \/ Len(d) > g.size
  <2>1. r = IF g.fail THEN g ELSE [g EXCEPT !.data = d, !.overrun = past]
    BY <1>4 DEF write
  <2>2. /\ g \in Buffers /\ g.data = b.data /\ g.overrun = b.overrun
        /\ ~b.overrun /\ Len(str) <= INITIAL_SIZE /\ ~g.fail => Len(b.data) + Len(str) <= g.size
    BY <1>1, <1>4, Texts, RoomIsMade
  <2>3. d \in Text /\ Len(d) = Len(b.data) + Len(str) /\ Len(str) \in Nat
    BY Texts DEF Buffers
  <2> HIDE DEF g, r
  <2>4. CASE g.fail
    BY <2>1, <2>2, <2>4 DEF r
  <2>5. CASE ~g.fail
    <3>1. g \in [data: Text, size: Nat, fail: BOOLEAN, overrun: BOOLEAN]
          /\ (g.size = 0 \/ g.size >= INITIAL_SIZE)
      BY <2>2 DEF Buffers
    <3>2. past \in BOOLEAN /\ (~past => Len(d) <= g.size)
          /\ (past => b.overrun \/ Len(str) > INITIAL_SIZE)
      <4>1. Len(d) \in Nat /\ g.size \in Nat /\ INITIAL_SIZE \in Nat /\ g.overrun \in BOOLEAN
        BY <2>3, <3>1, FirstArray, Texts
      <4> HIDE DEF d
      <4> QED BY <2>2, <2>3, <2>5, <4>1
    <3> HIDE DEF d, past
    <3>3. r = [g EXCEPT !.data = d, !.overrun = past]
      BY <2>1, <2>5
    <3>4. /\ r.data = d /\ r.size = g.size /\ r.overrun = past
          /\ r \in [data: Text, size: Nat, fail: BOOLEAN, overrun: BOOLEAN]
      BY <2>3, <3>1, <3>2, <3>3
    <3>5. r \in Buffers
      BY <3>1, <3>2, <3>4 DEF Buffers
    <3> QED BY <1>4, <3>2, <3>4, <3>5 DEF r, d
  <2> QED BY <2>4, <2>5
<1> QED BY <1>2, <1>3, <1>4

LEMMA ByteAppends ==
    ASSUME NEW b \in Buffers, NEW x \in Byte, NEW memory \in Memory
    PROVE  LET r == write(b, <<x>>, memory)
           IN  /\ r \in Buffers /\ (~r.fail => ~b.fail /\ r.data = b.data \o <<x>>)
               /\ r.overrun => b.overrun
<1>1. <<x>> \in Text /\ ~(Len(<<x>>) > INITIAL_SIZE)
  BY OneByte, FirstArray
<1> QED BY <1>1, WriteAppends

\* The pieces of a header line, the status line, and the two special headers.
LEMMA HeaderAppends ==
    ASSUME NEW b \in Buffers, NEW value \in Text, NEW memory \in Memory
    PROVE  LET r == write_header(b, value, memory)
           IN  /\ r \in Buffers
               /\ ~r.fail => /\ ~b.fail
                             /\ r.data = b.data \o <<"name">> \o <<":">> \o value \o <<"CRLF">>
               /\ r.overrun => b.overrun \/ Len(value) > INITIAL_SIZE
<1>1. "name" \in Byte /\ ":" \in Byte /\ "CRLF" \in Byte
  BY DEF Byte, Literal
<1> DEFINE p == write(b, <<"name">>, memory)
           q == write(p, <<":">>, memory)
           s == write(q, value, memory)
           r == write(s, <<"CRLF">>, memory)
<1>2. /\ p \in Buffers /\ (~p.fail => ~b.fail /\ p.data = b.data \o <<"name">>)
      /\ p.overrun => b.overrun
  BY <1>1, ByteAppends
<1> HIDE DEF p
<1>3. /\ q \in Buffers /\ (~q.fail => ~p.fail /\ q.data = p.data \o <<":">>)
      /\ q.overrun => p.overrun
  BY <1>1, <1>2, ByteAppends
<1> HIDE DEF q
<1>4. /\ s \in Buffers /\ (~s.fail => ~q.fail /\ s.data = q.data \o value)
      /\ s.overrun => q.overrun \/ Len(value) > INITIAL_SIZE
  BY <1>3, WriteAppends
<1> HIDE DEF s
<1>5. /\ r \in Buffers /\ (~r.fail => ~s.fail /\ r.data = s.data \o <<"CRLF">>)
      /\ r.overrun => s.overrun
  BY <1>1, <1>4, ByteAppends
<1>6. r = write_header(b, value, memory)
  BY DEF write_header, s, q, p
<1> HIDE DEF r
<1> QED BY <1>2, <1>3, <1>4, <1>5, <1>6, Zenon

LEMMA SpecialHeadersAppend ==
    ASSUME NEW b \in Buffers, NEW keep \in {0, 1}, NEW memory \in Memory
    PROVE  LET h == SpecialHeaders(b, keep, memory)
               n == b.data \o ConnectionLine(keep) \o <<"Content-Length:">>
               f == n \o Append(Blanks, "CRLF") \o <<"CRLF">>
           IN  /\ h.out \in Buffers /\ h.content_length \in Nat /\ h.content \in Nat
               /\ ~h.out.fail => /\ ~b.fail /\ h.out.data = f
                                 /\ h.content_length = Len(n) /\ h.content = Len(f)
               /\ h.out.overrun => b.overrun
<1>1. "Content-Length:" \in Byte /\ "CRLF" \in Byte
  BY DEF Byte, Literal
<1>2. \E x \in Byte : ConnectionLine(keep) = <<x>>
  BY DEF ConnectionLine, Byte, Literal
<1> DEFINE p == write(b, ConnectionLine(keep), memory)
           q == write(p, <<"Content-Length:">>, memory)
           v == write(q, Append(Blanks, "CRLF"), memory)
           e == write(v, <<"CRLF">>, memory)
<1>4. /\ p \in Buffers /\ (~p.fail => ~b.fail /\ p.data = b.data \o ConnectionLine(keep))
      /\ p.overrun => b.overrun
  BY <1>2, ByteAppends
<1> HIDE DEF p
<1>5. /\ q \in Buffers /\ (~q.fail => ~p.fail /\ q.data = p.data \o <<"Content-Length:">>)
      /\ q.overrun => p.overrun
  BY <1>1, <1>4, ByteAppends
<1> HIDE DEF q
<1>6. /\ v \in Buffers /\ (~v.fail => ~q.fail /\ v.data = q.data \o Append(Blanks, "CRLF"))
      /\ v.overrun => q.overrun
  <2>1. ~(Len(Append(Blanks, "CRLF")) > INITIAL_SIZE)
    BY TheBlanks, Texts, FirstArray
  <2> QED BY <1>5, <2>1, TheBlanks, WriteAppends
<1> HIDE DEF v
<1>7. /\ e \in Buffers /\ (~e.fail => ~v.fail /\ e.data = v.data \o <<"CRLF">>)
      /\ e.overrun => v.overrun
  BY <1>1, <1>6, ByteAppends
<1> HIDE DEF e
<1>8. SpecialHeaders(b, keep, memory) =
         [out |-> e, content_length |-> Len(q.data), content |-> Len(e.data)]
  BY DEF SpecialHeaders, e, v, q, p
<1>9. Len(q.data) \in Nat /\ Len(e.data) \in Nat
  BY <1>5, <1>7, Texts DEF Buffers
<1>10. ~e.fail => /\ ~b.fail
                  /\ q.data = b.data \o ConnectionLine(keep) \o <<"Content-Length:">>
                  /\ e.data = b.data \o ConnectionLine(keep) \o <<"Content-Length:">>
                                 \o Append(Blanks, "CRLF") \o <<"CRLF">>
  BY <1>4, <1>5, <1>6, <1>7, Zenon
<1> DEFINE h == SpecialHeaders(b, keep, memory)
           n == b.data \o ConnectionLine(keep) \o <<"Content-Length:">>
           f == n \o Append(Blanks, "CRLF") \o <<"CRLF">>
<1>11. h.out = e /\ h.content_length = Len(q.data) /\ h.content = Len(e.data)
  BY <1>8
<1>12. (~e.fail => ~b.fail /\ q.data = n /\ e.data = f) /\ (e.overrun => b.overrun)
  BY <1>4, <1>5, <1>6, <1>7, <1>10, Zenon
<1> HIDE DEF h, n, f
<1>13. /\ h.out \in Buffers /\ h.content_length \in Nat /\ h.content \in Nat
       /\ ~h.out.fail => /\ ~b.fail /\ h.out.data = f
                         /\ h.content_length = Len(n) /\ h.content = Len(f)
       /\ h.out.overrun => b.overrun
  BY <1>7, <1>9, <1>11, <1>12, Zenon
<1> QED BY <1>13, Zenon DEF h, n, f

\* The text m with str over its first bytes.
Patched(m, str) == [i \in 1 .. Len(m) |-> IF i <= Len(str) THEN str[i] ELSE m[i]]

\* overwrite() of the middle part of a buffer by a text that fits into it
\* changes that part only.
OverwritesMiddle(b, n, m, t, str) ==
    ~b.fail /\ b.data = n \o (m \o t) /\ Len(str) <= Len(m) =>
       /\ Patched(m, str) \in Text
       /\ overwrite(b, Len(n), str) \in Buffers /\ ~overwrite(b, Len(n), str).fail
       /\ overwrite(b, Len(n), str).data = n \o (Patched(m, str) \o t)
       /\ overwrite(b, Len(n), str).overrun = b.overrun

LEMMA MiddleIsOverwritten ==
    ASSUME NEW b \in Buffers, NEW n \in Text, NEW m \in Text, NEW t \in Text,
           NEW str \in Text
    PROVE  OverwritesMiddle(b, n, m, t, str)
<1> SUFFICES ASSUME ~b.fail, b.data = n \o (m \o t), Len(str) <= Len(m)
             PROVE  /\ Patched(m, str) \in Text
                    /\ overwrite(b, Len(n), str) \in Buffers
                    /\ ~overwrite(b, Len(n), str).fail
                    /\ overwrite(b, Len(n), str).data = n \o (Patched(m, str) \o t)
                    /\ overwrite(b, Len(n), str).overrun = b.overrun
  BY Zenon DEF OverwritesMiddle
<1> DEFINE v == [i \in 1 .. Len(m) |-> IF i <= Len(str) THEN str[i] ELSE m[i]]
           d == [i \in 1 .. Len(b.data) |->
                    IF i - Len(n) \in 1 .. Len(str) THEN str[i - Len(n)] ELSE b.data[i]]
           r == overwrite(b, Len(n), str)
<1>1. /\ Len(n) \in Nat /\ Len(m) \in Nat /\ Len(t) \in Nat /\ Len(str) \in Nat
      /\ m \o t \in Text /\ Len(m \o t) = Len(m) + Len(t)
      /\ b.data \in Text /\ Len(b.data) = Len(n) + Len(m) + Len(t)
  <2>1. m \o t \in Text /\ Len(m \o t) = Len(m) + Len(t)
    BY Texts
  <2>2. b.data \in Text /\ Len(b.data) = Len(n) + Len(m \o t)
    BY <2>1, Texts
  <2> QED BY <2>1, <2>2, Texts
<1>2. /\ \A i \in 1 .. Len(n) : n[i] \in Byte
      /\ \A i \in 1 .. Len(m) : m[i] \in Byte
      /\ \A i \in 1 .. Len(str) : str[i] \in Byte
      /\ \A i \in 1 .. Len(b.data) : b.data[i] \in Byte
  BY <1>1, ElementOfSeq DEF Text
<1>3. v \in Text /\ Len(v) = Len(m) /\ \A i \in 1 .. Len(m) : v[i] = IF i <= Len(str) THEN str[i] ELSE m[i]
  <2>1. \A i \in 1 .. Len(m) : (IF i <= Len(str) THEN str[i] ELSE m[i]) \in Byte
    BY <1>1, <1>2
  <2>2. v \in [1 .. Len(m) -> Byte]
    BY <2>1
  <2> QED BY <1>1, <2>2 DEF Text
<1>4. d \in Text /\ Len(d) = Len(b.data)
  <2>1. \A i \in 1 .. Len(b.data) :
           (IF i - Len(n) \in 1 .. Len(str) THEN str[i - Len(n)] ELSE b.data[i]) \in Byte
    BY <1>1, <1>2
  <2>2. d \in [1 .. Len(b.data) -> Byte]
    BY <2>1
  <2> QED BY <1>1, <2>2 DEF Text
<1>5. r = [b EXCEPT !.data = d]
  <2>1. ~(Len(n) < 0) /\ ~(Len(n) + Len(str) > Len(b.data))
    BY <1>1
  <2> QED BY <2>1 DEF overwrite
<1>6. r.data = d /\ ~r.fail /\ r \in Buffers /\ r.overrun = b.overrun
  <2>1. b \in [data: Text, size: Nat, fail: BOOLEAN, overrun: BOOLEAN]
        /\ (~b.overrun => Len(b.data) <= b.size) /\ (b.size = 0 \/ b.size >= INITIAL_SIZE)
    BY DEF Buffers
  <2> HIDE DEF d, r
  <2>2. r.data = d /\ r.size = b.size /\ r.fail = b.fail /\ r.overrun = b.overrun
        /\ r \in [data: Text, size: Nat, fail: BOOLEAN, overrun: BOOLEAN]
    BY <1>4, <1>5, <2>1
  <2> QED BY <1>4, <2>1, <2>2 DEF Buffers
<1>7. d = n \o (v \o t)
  <2>1. v \o t \in Text /\ Len(v \o t) = Len(m) + Len(t)
    BY <1>3, Texts
  <2>2. n \o (v \o t) \in Text /\ Len(n \o (v \o t)) = Len(b.data)
    <3> HIDE DEF v
    <3>1. n \o (v \o t) \in Text /\ Len(n \o (v \o t)) = Len(n) + Len(v \o t)
      BY <2>1, Texts
    <3> QED BY <1>1, <2>1, <3>1
  <2>3. ASSUME NEW i \in 1 .. Len(b.data)
        PROVE  d[i] = (n \o (v \o t))[i]
    <3>1. b.data[i] = IF i <= Len(n) THEN n[i] ELSE (m \o t)[i - Len(n)]
      BY <1>1, ConcatProperties DEF Text
    <3>2. (n \o (v \o t))[i] = IF i <= Len(n) THEN n[i] ELSE (v \o t)[i - Len(n)]
      <4> HIDE DEF v
      <4> QED BY <1>1, <2>1, ConcatProperties DEF Text
    <3>3. d[i] = IF i - Len(n) \in 1 .. Len(str) THEN str[i - Len(n)] ELSE b.data[i]
      OBVIOUS
    <3> HIDE DEF d
    <3>4. CASE i <= Len(n)
      BY <1>1, <3>1, <3>2, <3>3, <3>4
    <3>5. CASE ~(i <= Len(n))
      <4> DEFINE j == i - Len(n)
      <4>1. j \in 1 .. Len(m) + Len(t)
        BY <1>1, <3>5
      <4> HIDE DEF v
      <4>2. (m \o t)[j] = IF j <= Len(m) THEN m[j] ELSE t[j - Len(m)]
        BY <1>1, <4>1, ConcatProperties DEF Text
      <4>3. (v \o t)[j] = IF j <= Len(m) THEN v[j] ELSE t[j - Len(m)]
        BY <1>1, <1>3, <4>1, ConcatProperties DEF Text
      <4> HIDE DEF j
      <4>4. d[i] = IF j \in 1 .. Len(str) THEN str[j] ELSE b.data[i]
        BY <3>3 DEF j
      <4>5. b.data[i] = (m \o t)[j] /\ (n \o (v \o t))[i] = (v \o t)[j]
        BY <3>1, <3>2, <3>5 DEF j
      <4> QED BY <1>1, <1>3, <4>1, <4>2, <4>3, <4>4, <4>5
    <3> QED BY <3>4, <3>5
  <2> HIDE DEF d, v
  <2> QED BY <1>4, <2>2, <2>3, SeqEqual DEF Text
<1> HIDE DEF d, r, v
<1>8. v \in Text /\ r \in Buffers /\ ~r.fail /\ r.data = n \o (v \o t)
      /\ r.overrun = b.overrun
  BY <1>3, <1>6, <1>7
<1> QED BY <1>8, Zenon DEF r, v, Patched

\* unread() leaves what is behind the bytes that were taken in number, and in
\* truth when it was nothing or everything.
LEMMA RestIsKept ==
    ASSUME NEW b \in Buffers, NEW copied \in 0 .. Len(b.data)
    PROVE  LET r == unread(b, copied)
           IN  /\ r \in Buffers /\ r.fail = b.fail /\ r.overrun = b.overrun
               /\ Len(r.data) = Len(b.data) - copied
               /\ copied = 0 => r.data = b.data
               /\ copied = Len(b.data) => r.data = <<>>
<1> DEFINE n == Len(b.data)
           d == [i \in 1 .. n - copied |-> IF i <= copied THEN b.data[i] ELSE b.data[i - copied]]
           r == unread(b, copied)
<1>1. /\ b \in [data: Text, size: Nat, fail: BOOLEAN, overrun: BOOLEAN]
      /\ (~b.overrun => Len(b.data) <= b.size) /\ (b.size = 0 \/ b.size >= INITIAL_SIZE)
      /\ n \in Nat /\ b.data \in Text
  BY Texts DEF Buffers
<1>2. \A i \in 1 .. n : b.data[i] \in Byte
  BY <1>1, ElementOfSeq DEF Text
<1>3. d \in Text /\ Len(d) = n - copied
  <2>1. \A i \in 1 .. n - copied :
           (IF i <= copied THEN b.data[i] ELSE b.data[i - copied]) \in Byte
    BY <1>1, <1>2
  <2>2. d \in [1 .. n - copied -> Byte] /\ n - copied \in Nat
    BY <1>1, <2>1
  <2> HIDE DEF d
  <2> QED BY <2>2 DEF Text
<1>4. copied = 0 => d = b.data
  <2> SUFFICES ASSUME copied = 0 PROVE d = b.data
    OBVIOUS
  <2>1. \A i \in 1 .. n : d[i] = b.data[i]
    BY <1>1
  <2>2. Len(d) = n
    BY <1>1, <1>3
  <2> HIDE DEF d
  <2> QED BY <1>1, <1>3, <2>1, <2>2, SeqEqual DEF Text
<1>5. copied = n => d = <<>>
  <2> HIDE DEF d
  <2> QED BY <1>1, <1>3, EmptySeq DEF Text
<1>6. r = [b EXCEPT !.data = d]
  BY DEF unread
<1> HIDE DEF d, r
<1>7. r.data = d /\ r.size = b.size /\ r.fail = b.fail /\ r.overrun = b.overrun
      /\ r \in [data: Text, size: Nat, fail: BOOLEAN, overrun: BOOLEAN]
  BY <1>1, <1>3, <1>6
<1>8. r \in Buffers
  BY <1>1, <1>3, <1>7 DEF Buffers
<1> QED BY <1>3, <1>4, <1>5, <1>7, <1>8 DEF r

-----------------------------------------------------------------------------
(* The inductive invariant.                                                *)

Answers == [headers: Text, connection: Byte \cup {""}, body: Text]

\* The parts of a response in the order in which they are written, behind what
\* was in the buffer: up to its headers, up to the value of Content-Length, and
\* up to its body.
Headed(a) == earlier \o StatusLine \o a.headers
Named(a)  == Headed(a) \o <<a.connection>> \o <<"Content-Length:">>
Framed(a) == Named(a) \o Append(Blanks, "CRLF") \o <<"CRLF">>

\* What is in the buffer b once write() has been called for the answer a.
Begun(b, a, content_length, content) ==
    /\ b.data = Framed(a) \o a.body
    /\ content_length = Len(Named(a))
    /\ content = Len(Framed(a))

\* How far the response has come, until an allocation fails.
Shape ==
    /\ state = "STATUS" => answer.headers = <<>>
    /\ state \in {"STATUS", "HEADERS"} => answer.body = <<>>
    /\ state = "CONTENT" => answer.connection \in Byte
    /\ ~out.fail =>
          /\ state = "STATUS"  => out.data = earlier
          /\ state = "HEADERS" => out.data = Headed(answer)
          /\ state = "CONTENT" => Begun(out, answer, offset_content_length, offset_content)

\* What the socket has not taken of the responses before this one.
Waiting == IF state = "NOTARGET" THEN out.data ELSE earlier

Accounted ==
    /\ splits = 0 => sent \o Waiting = expected
    /\ Len(sent) + Len(Waiting) = Len(expected)

\* Between responses no write has failed, and a connection is only to be closed
\* while its last response is in the buffer.
Closing ==
    /\ state = "NOTARGET" => ~out.fail
    /\ state # "NOTARGET" \/ out.data = <<>> => ~close_when_flushed

OInv ==
    /\ TypeOK
    /\ out \in Buffers
    /\ Len(answer.body) <= MaxBody
    /\ Closing
    /\ Shape
    /\ Accounted

\* The types, in the terms of the lemmas.
LEMMA Typed ==
    ASSUME OInv
    PROVE  /\ answer \in Answers /\ answer.headers \in Text /\ answer.body \in Text
           /\ earlier \in Text /\ expected \in Text /\ sent \in Text
           /\ out \in Buffers /\ out.data \in Text /\ out.fail \in BOOLEAN
           /\ state \in {"NOTARGET", "STATUS", "HEADERS", "CONTENT"}
BY DEF OInv, TypeOK, Answers, Text, Buffers

LEMMA StringsAreTexts ==
    ASSUME NEW str \in Strings
    PROVE  str \in Text
<1>1. str \in Seq(Char)
  BY StringsAssumption DEF StringsAssumption
<1>2. Char \subseteq Byte
  BY DEF Byte
<1> QED BY <1>1, <1>2, SeqMonotonic DEF Text

LEMMA LiteralsAreBytes ==
    /\ \A x \in Literal : x \in Byte
    /\ StatusLine \in Text /\ StatusLine # <<>> /\ Len(StatusLine) = 1
    /\ <<"CRLF">> \in Text /\ <<"Content-Length:">> \in Text
<1>1. \A x \in Literal : x \in Byte
  BY DEF Byte
<1>2. "S" \in Byte /\ "CRLF" \in Byte /\ "Content-Length:" \in Byte
  BY <1>1 DEF Literal
<1> QED BY <1>1, <1>2, OneByte DEF StatusLine

LEMMA PartsAreTexts ==
    ASSUME earlier \in Text, NEW a, a.headers \in Text
    PROVE  /\ Headed(a) \in Text /\ Headed(a) # <<>>
           /\ a.connection \in Byte =>
                 /\ Named(a) \in Text /\ Len(Named(a)) \in Nat
                 /\ Framed(a) \in Text /\ Framed(a) # <<>> /\ Len(Framed(a)) \in Nat
<1> DEFINE s == earlier \o StatusLine
           h == Headed(a)
           n == Named(a)
           f == Framed(a)
           w == Append(Blanks, "CRLF")
           e == <<"CRLF">>
           l == <<"Content-Length:">>
<1>1. s \in Text /\ s # <<>>
  BY Texts, LiteralsAreBytes
<1>2. h = s \o a.headers
  BY DEF Headed
<1> HIDE DEF s, h
<1>3. h \in Text /\ h # <<>>
  BY <1>1, <1>2, Texts
<1>4. ASSUME a.connection \in Byte
      PROVE  n \in Text /\ f \in Text /\ f # <<>>
  <2> DEFINE c == <<a.connection>>
             hc == h \o c
             nw == n \o w
  <2>1. n = hc \o l /\ f = nw \o e
    BY DEF Named, Framed, h
  <2>2. c \in Text /\ w \in Text /\ e \in Text /\ l \in Text /\ e # <<>>
    <3>1. "CRLF" \in Byte
      BY LiteralsAreBytes DEF Literal
    <3> QED BY <1>4, <3>1, OneByte, TheBlanks, LiteralsAreBytes
  <2> HIDE DEF c, w, e, l, n, f
  <2>3. hc \in Text
    BY <1>3, <2>2, Texts
  <2> HIDE DEF hc
  <2>4. n \in Text
    BY <2>1, <2>2, <2>3, Texts
  <2>5. nw \in Text
    BY <2>2, <2>4, Texts
  <2> HIDE DEF nw
  <2> QED BY <2>1, <2>2, <2>4, <2>5, Texts
<1> HIDE DEF n, f
<1> QED BY <1>3, <1>4, Texts DEF h, n, f

\* status(), called when there is no status line yet.
LEMMA StatusWritten ==
    ASSUME OInv, state \in {"STATUS", "HEADERS"}, NEW memory \in Memory
    PROVE  LET r == with_status(out, memory)
           IN  /\ r \in Buffers /\ (~r.fail => ~out.fail /\ r.data = Headed(answer))
               /\ r.overrun => out.overrun
<1>1. CASE state = "STATUS"
  <2>1. "S" \in Byte
    BY LiteralsAreBytes DEF Literal
  <2> DEFINE r == write(out, <<"S">>, memory)
  <2>2. /\ r \in Buffers /\ (~r.fail => ~out.fail /\ r.data = out.data \o <<"S">>)
        /\ r.overrun => out.overrun
    BY <2>1, Typed, ByteAppends
  <2>3. r = with_status(out, memory)
    BY <1>1 DEF with_status, StatusLine
  <2> HIDE DEF r
  <2>4. ~out.fail => out.data = earlier
    BY <1>1 DEF OInv, Shape
  <2>5. Headed(answer) = earlier \o <<"S">>
    <3>1. answer.headers = <<>>
      BY <1>1 DEF OInv, Shape
    <3>2. earlier \o StatusLine \in Text
      BY Typed, Texts, LiteralsAreBytes
    <3> QED BY <3>1, <3>2, Texts DEF Headed, StatusLine
  <2> QED BY <2>2, <2>3, <2>4, <2>5
<1>2. CASE state = "HEADERS"
  BY <1>2, Typed DEF with_status, OInv, Shape
<1> QED BY <1>1, <1>2

\* write(): the special headers are there once, and the body grows.
LEMMA WriteBegins ==
    ASSUME OInv, state # "NOTARGET", NEW str \in Text, NEW memory \in Memory,
           NEW keep \in KeepChoices
    PROVE  LET w == Written(str, keep, memory)
               a == Answered(str, keep)
           IN  /\ w.out \in Buffers /\ w.keep_alive = keep /\ keep \in {0, 1}
               /\ w.content_length \in Nat /\ w.content \in Nat
               /\ a \in Answers /\ a.connection \in Byte
               /\ a.headers = answer.headers /\ a.body = answer.body \o str
               /\ ~w.out.fail => /\ ~out.fail
                                 /\ Begun(w.out, a, w.content_length, w.content)
               /\ w.out.overrun => out.overrun \/ Len(str) > INITIAL_SIZE
<1> DEFINE w == Written(str, keep, memory)
           a == Answered(str, keep)
<1>1. keep \in {0, 1} /\ (state = "CONTENT" => keep = keep_alive)
  BY DEF KeepChoices, OInv, TypeOK
<1>2. ConnectionLine(keep)[1] \in Byte /\ ConnectionLine(keep) = <<ConnectionLine(keep)[1]>>
  BY LiteralsAreBytes DEF ConnectionLine, Literal
<1>3. /\ a \in Answers /\ a.connection \in Byte
      /\ a.headers = answer.headers /\ a.body = answer.body \o str
      /\ a.connection = IF state = "CONTENT" THEN answer.connection ELSE ConnectionLine(keep)[1]
  <2> DEFINE c == IF state = "CONTENT" THEN answer.connection ELSE ConnectionLine(keep)[1]
             body == answer.body \o str
  <2>1. a = [answer EXCEPT !.connection = c, !.body = body]
    BY DEF Answered
  <2>2. c \in Byte
    BY <1>2 DEF OInv, Shape
  <2>3. body \in Text
    BY Typed, Texts
  <2> HIDE DEF c, body, a
  <2>4. /\ a \in Answers /\ a.connection = c /\ a.body = body /\ a.headers = answer.headers
    BY <2>1, <2>2, <2>3, Typed DEF Answers
  <2> QED BY <2>2, <2>4 DEF c, body
<1> HIDE DEF a
<1>4. Framed(a) \in Text
  BY <1>3, Typed, PartsAreTexts
<1>5. CASE state = "CONTENT"
  <2> DEFINE r == write(out, str, memory)
  <2>1. w = [out |-> r, keep_alive |-> keep_alive,
             content_length |-> offset_content_length, content |-> offset_content]
    BY <1>5 DEF Written
  <2>2. /\ r \in Buffers /\ (~r.fail => ~out.fail /\ r.data = out.data \o str)
        /\ r.overrun => out.overrun \/ Len(str) > INITIAL_SIZE
    BY Typed, WriteAppends
  <2>3. Named(a) = Named(answer) /\ Framed(a) = Framed(answer)
    BY <1>3, <1>5 DEF Framed, Named, Headed
  <2>4. (Framed(answer) \o answer.body) \o str = Framed(a) \o a.body
    <3>1. answer.body \in Text
      BY Typed
    <3>2. \A f, x \in Text : (f \o x) \o str = f \o (x \o str)
      BY Associative
    <3>3. (Framed(a) \o answer.body) \o str = Framed(a) \o (answer.body \o str)
      BY <1>4, <3>1, <3>2, Zenon
    <3> QED BY <1>3, <2>3, <3>3, Zenon
  <2>5. ~out.fail => /\ out.data = Framed(answer) \o answer.body
                     /\ offset_content_length = Len(Named(answer))
                     /\ offset_content = Len(Framed(answer))
    BY <1>5 DEF OInv, Shape, Begun
  <2>6. offset_content_length \in Nat /\ offset_content \in Nat
    BY DEF OInv, TypeOK
  <2> HIDE DEF r, w
  <2>7. /\ w.out = r /\ w.keep_alive = keep
        /\ w.content_length = offset_content_length /\ w.content = offset_content
    BY <1>1, <1>5, <2>1
  <2>8. ~r.fail => /\ r.data = Framed(a) \o a.body
                   /\ offset_content_length = Len(Named(a)) /\ offset_content = Len(Framed(a))
    BY <2>2, <2>3, <2>4, <2>5, Zenon
  <2>9. ~w.out.fail => ~out.fail /\ Begun(w.out, a, w.content_length, w.content)
    BY <2>2, <2>7, <2>8, Zenon DEF Begun
  <2>10. w.out \in Buffers /\ (w.out.overrun => out.overrun \/ Len(str) > INITIAL_SIZE)
    BY <2>2, <2>7, Zenon
  <2> QED BY <1>1, <1>3, <2>6, <2>7, <2>9, <2>10, Zenon DEF w, a
<1>6. CASE state # "CONTENT"
  <2> DEFINE b == with_status(out, memory)
             h == SpecialHeaders(b, keep, memory)
             r == write(h.out, str, memory)
             n == b.data \o ConnectionLine(keep) \o <<"Content-Length:">>
             f == n \o Append(Blanks, "CRLF") \o <<"CRLF">>
  <2>1. w = [out |-> r, keep_alive |-> keep,
             content_length |-> h.content_length, content |-> h.content]
    BY <1>6 DEF Written
  <2>2. state \in {"STATUS", "HEADERS"}
    BY <1>6, Typed
  <2>3. /\ b \in Buffers /\ (~b.fail => ~out.fail /\ b.data = Headed(answer))
        /\ b.overrun => out.overrun
    BY <2>2, StatusWritten
  <2> HIDE DEF b
  <2>4. /\ h.out \in Buffers /\ h.content_length \in Nat /\ h.content \in Nat
        /\ ~h.out.fail => /\ ~b.fail /\ h.out.data = f
                          /\ h.content_length = Len(n) /\ h.content = Len(f)
        /\ h.out.overrun => b.overrun
    BY <1>1, <2>3, SpecialHeadersAppend
  <2> HIDE DEF h
  <2>5. /\ r \in Buffers /\ (~r.fail => ~h.out.fail /\ r.data = h.out.data \o str)
        /\ r.overrun => h.out.overrun \/ Len(str) > INITIAL_SIZE
    BY <2>4, WriteAppends
  <2> HIDE DEF r
  <2>6. b.data = Headed(answer) => n = Named(a) /\ f = Framed(a)
    <3>1. <<a.connection>> = ConnectionLine(keep) /\ Headed(a) = Headed(answer)
      BY <1>2, <1>3, <1>6, Zenon DEF Headed
    <3> QED BY <3>1, Zenon DEF Named, Framed
  <2>7. a.body = str
    BY <1>3, <2>2, Texts DEF OInv, Shape
  <2> HIDE DEF n, f, w
  <2>8. /\ w.out = r /\ w.keep_alive = keep
        /\ w.content_length = h.content_length /\ w.content = h.content
    BY <2>1
  <2>9. ~w.out.fail => ~out.fail /\ Begun(w.out, a, w.content_length, w.content)
    BY <2>3, <2>4, <2>5, <2>6, <2>7, <2>8, Zenon DEF Begun
  <2>10. w.out \in Buffers /\ (w.out.overrun => out.overrun \/ Len(str) > INITIAL_SIZE)
    BY <2>3, <2>4, <2>5, <2>8, Zenon
  <2> QED BY <1>1, <1>3, <2>4, <2>8, <2>9, <2>10, Zenon DEF w, a
<1> QED BY <1>5, <1>6

-----------------------------------------------------------------------------
(* The end of a response.                                                  *)

LEMMA FourParts ==
    ASSUME NEW p \in Text, NEW v \in Text, NEW k \in Text, NEW b \in Text
    PROVE  p \o v \o k \o b = p \o (v \o (k \o b)) /\ p \o v \o k \o b \in Text
<1> DEFINE pv  == p \o v
           pvk == pv \o k
           kb  == k \o b
<1>1. pv \in Text /\ kb \in Text
  BY Texts
<1>2. pv \o kb = p \o (v \o kb)
  <2> HIDE DEF kb
  <2> QED BY SMTT(30), <1>1, Associative DEF pv
<1> HIDE DEF pv
<1>3. pvk \in Text
  BY <1>1, Texts
<1>4. pvk \o b = pv \o kb
  <2>1. \A x, y \in Text : (pv \o x) \o y = pv \o (x \o y)
    BY <1>1, Associative
  <2> QED BY <2>1, Zenon
<1>5. pvk \o b \in Text
  <2> HIDE DEF pvk
  <2> QED BY <1>3, Texts
<1>6. pvk \o b = p \o (v \o kb)
  BY <1>2, <1>4, Zenon
<1> QED BY <1>5, <1>6, Zenon DEF pv

\* A text of six parts, the same way.
LEMMA SixParts ==
    ASSUME NEW s \in Text, NEW a \in Text, NEW n \in Text, NEW c \in Text,
           NEW v \in Text, NEW e \in Text
    PROVE  /\ a \o (n \o c) \o v \o e \in Text
           /\ s \o (a \o (n \o c) \o v \o e) = (s \o a) \o n \o c \o v \o e
<1> DEFINE nc  == n \o c
           sa  == s \o a
           san == sa \o n
           anc == a \o nc
           ancv == anc \o v
<1>0. \A x, y \in Text : (s \o x) \o y = s \o (x \o y)
  BY Associative
<1>1. sa \in Text /\ nc \in Text /\ sa \o nc = san \o c /\ sa \o nc = s \o (a \o nc)
  <2>1. nc \in Text /\ sa \in Text
    BY Texts
  <2>2. san \o c = sa \o nc
    <3> HIDE DEF sa
    <3>1. \A x, y \in Text : (sa \o x) \o y = sa \o (x \o y)
      BY <2>1, Associative
    <3> QED BY <3>1, Zenon
  <2>3. sa \o nc = s \o (a \o nc)
    BY <1>0, <2>1, Zenon
  <2> QED BY <2>1, <2>2, <2>3, Zenon
<1>2. anc \in Text /\ (s \o anc) \o v = s \o (anc \o v)
  <2>1. anc \in Text
    BY <1>1, Texts
  <2> QED BY <1>0, <2>1, Zenon
<1>3. ancv \in Text /\ (s \o ancv) \o e = s \o (ancv \o e) /\ ancv \o e \in Text
  <2>1. ancv \in Text
    BY <1>2, Texts
  <2>2. ancv \o e \in Text
    BY <2>1, Texts
  <2> QED BY <1>0, <2>1, <2>2, Zenon
<1>4. s \o (ancv \o e) = san \o c \o v \o e
  <2> HIDE DEF nc, sa
  <2>1. s \o anc = san \o c
    BY <1>1, Zenon
  <2>2. s \o (anc \o v) = san \o c \o v
    BY <1>2, <2>1, Zenon
  <2> QED BY <1>3, <2>2, Zenon
<1> QED BY <1>3, <1>4, Zenon

\* A text of eight parts, put together from the left and with its head apart.
LEMMA EightParts ==
    ASSUME NEW e \in Text, NEW s \in Text, NEW h \in Text, NEW c \in Text,
           NEW l \in Text, NEW v \in Text, NEW k \in Text, NEW b \in Text
    PROVE  /\ e \o (s \o h \o (c \o l) \o v \o k \o b) = (e \o s \o h \o c \o l) \o (v \o (k \o b))
           /\ s \o h \o (c \o l) \o v \o k \o b \in Text
<1> DEFINE cl  == c \o l
           sh  == s \o h
           p   == sh \o cl
           vkb == v \o (k \o b)
           r   == p \o v \o k \o b
           ep  == e \o p
           eshcl == e \o s \o h \o c \o l
<1>1. cl \in Text /\ sh \in Text /\ k \o b \in Text
  BY Texts
<1>2. vkb \in Text
  <2> DEFINE kb == k \o b
  <2>1. kb \in Text
    BY <1>1
  <2> HIDE DEF kb
  <2> QED BY <2>1, Texts DEF kb
<1>3. p \in Text
  <2> HIDE DEF cl, sh
  <2> QED BY <1>1, Texts
<1>4. ep = eshcl
  <2> DEFINE es == e \o s
             esh == es \o h
  <2>1. es \in Text
    BY Texts
  <2>2. esh = e \o sh
    <3>1. \A x \in Text : es \o x = e \o (s \o x)
      BY Associative
    <3> QED BY <3>1, Zenon
  <2>3. esh \o c \o l = esh \o cl
    <3>1. esh \in Text
      <4> HIDE DEF es
      <4> QED BY <2>1, Texts
    <3> HIDE DEF esh
    <3>2. \A x, y \in Text : (esh \o x) \o y = esh \o (x \o y)
      BY <3>1, Associative
    <3> QED BY <3>2, Zenon
  <2>4. (e \o sh) \o cl = e \o (sh \o cl)
    <3>1. \A x, y \in Text : (e \o x) \o y = e \o (x \o y)
      BY Associative
    <3> QED BY <1>1, <3>1, Zenon
  <2> HIDE DEF sh, cl, esh
  <2>5. ep = esh \o cl
    BY <2>2, <2>4, Zenon DEF p, ep
  <2> QED BY <2>3, <2>5, Zenon DEF esh
<1> HIDE DEF p, ep, eshcl
<1>5. r = p \o vkb /\ r \in Text
  BY <1>3, FourParts
<1>6. ep \o vkb = e \o (p \o vkb)
  <2>1. \A x, y \in Text : (e \o x) \o y = e \o (x \o y)
    BY Associative
  <2> QED BY <1>2, <1>3, <2>1, Zenon DEF ep
<1> HIDE DEF vkb
<1>7. e \o r = eshcl \o vkb /\ r \in Text
  BY <1>4, <1>5, <1>6, Zenon
<1> QED BY <1>7, Zenon DEF vkb, p, sh, cl, eshcl

\* What send() leaves in the buffer when nothing has failed.
LEMMA ResponseIsEncoded ==
    ASSUME OInv, state # "NOTARGET", NEW memory \in Memory, NEW keep \in KeepChoices,
           ~Written(<<>>, keep, memory).out.fail
    PROVE  LET w == Written(<<>>, keep, memory)
               a == Answered(<<>>, keep)
               o == overwrite(w.out, w.content_length, Decimal[Len(w.out.data) - w.content])
           IN  /\ o \in Buffers /\ ~o.fail /\ o.data # <<>>
               /\ Encoding(a) \in Text /\ o.data = earlier \o Encoding(a)
               /\ o.overrun => out.overrun
<1> DEFINE w == Written(<<>>, keep, memory)
           a == Answered(<<>>, keep)
           k == Len(w.out.data) - w.content
           str == Decimal[k]
           o == overwrite(w.out, w.content_length, str)
           e == <<"CRLF">>
           n == Named(a)
           t == (e \o e) \o a.body
           v == Patched(Blanks, str)
<1>1. <<>> \in Text /\ ~(Len(<<>>) > INITIAL_SIZE)
  BY Texts, FirstArray
<1>2. /\ w.out \in Buffers /\ ~w.out.fail /\ ~out.fail
      /\ a \in Answers /\ a.connection \in Byte
      /\ a.headers = answer.headers /\ a.body = answer.body \o <<>>
      /\ Begun(w.out, a, w.content_length, w.content)
      /\ w.out.overrun => out.overrun
  BY <1>1, WriteBegins
<1>3. a.headers \in Text /\ a.body \in Text /\ a.body = answer.body
  BY <1>2, Typed, Texts
<1> HIDE DEF w, a
<1>4. n \in Text /\ Framed(a) \in Text /\ Framed(a) # <<>> /\ e \in Text /\ Blanks \in Text
  BY <1>2, <1>3, Typed, PartsAreTexts, LiteralsAreBytes, TheBlanks
<1>5. k = Len(a.body) /\ k \in 0 .. MaxBody
  <2>1. w.out.data = Framed(a) \o a.body /\ w.content = Len(Framed(a))
    BY <1>2 DEF Begun
  <2>2. Len(w.out.data) = Len(Framed(a)) + Len(a.body)
        /\ Len(Framed(a)) \in Nat /\ Len(a.body) \in Nat
    BY <1>3, <1>4, <2>1, Texts
  <2>3. Len(a.body) <= MaxBody /\ MaxBody \in Nat
    BY <1>3, OutputAssumption DEF OInv, OutputAssumption
  <2> QED BY <2>1, <2>2, <2>3
<1>6. str \in Text /\ Len(str) <= Len(Blanks) /\ str = Decimal[Len(a.body)]
  BY <1>5, BodiesFit, FirstArray, TheBlanks DEF BodiesFit, Text
<1> HIDE DEF n, e
<1>7. w.out.data = n \o (Blanks \o t) /\ t \in Text
  <2> DEFINE be == Blanks \o e
             ee == e \o e
             eb == e \o a.body
             nb == n \o be
  <2>1. Framed(a) = nb \o e
    BY TheBlanks DEF Framed, n, e
  <2>2. be \in Text /\ ee \in Text /\ eb \in Text
    BY <1>3, <1>4, Texts
  <2>3. t = e \o eb
    BY ZenonT(60), <1>3, <1>4, Associative
  <2>4. be \o eb = Blanks \o (e \o eb)
    <3> HIDE DEF eb
    <3> QED BY ZenonT(60), <1>4, <2>2, Associative
  <2> HIDE DEF be
  <2>5. nb \in Text
    BY <1>4, <2>2, Texts
  <2>6. nb \o eb = n \o (be \o eb)
    <3>1. \A x, y \in Text : (n \o x) \o y = n \o (x \o y)
      BY <1>4, Associative
    <3> QED BY <2>2, <3>1, Zenon
  <2> HIDE DEF nb
  <2>7. (nb \o e) \o a.body = nb \o eb
    BY <1>3, <1>4, <2>5, Associative
  <2>8. t \in Text
    <3> HIDE DEF eb, t
    <3> QED BY <1>4, <2>2, <2>3, Texts
  <2>9. w.out.data = (nb \o e) \o a.body
    BY <1>2, <2>1 DEF Begun
  <2> HIDE DEF t, eb, ee
  <2> QED BY <2>3, <2>4, <2>6, <2>7, <2>8, <2>9, Zenon
<1> HIDE DEF t, str
<1>8. /\ o \in Buffers /\ ~o.fail /\ v \in Text /\ o.data = n \o (v \o t)
      /\ o.overrun = w.out.overrun
  <2>1. w.content_length = Len(n)
    BY <1>2 DEF Begun, n
  <2> DEFINE r == overwrite(w.out, Len(n), str)
  <2>2. /\ r \in Buffers /\ ~r.fail /\ v \in Text /\ r.data = n \o (v \o t)
        /\ r.overrun = w.out.overrun
    <3>1. OverwritesMiddle(w.out, n, Blanks, t, str)
      BY <1>2, <1>4, <1>6, <1>7, MiddleIsOverwritten
    <3>2. ~w.out.fail /\ w.out.data = n \o (Blanks \o t) /\ Len(str) <= Len(Blanks)
      BY <1>2, <1>6, <1>7
    <3> QED BY <3>1, <3>2, Zenon DEF OverwritesMiddle
  <2> HIDE DEF v
  <2> QED BY <2>1, <2>2, Zenon
<1>9. Encoding(a) \in Text /\ earlier \o Encoding(a) = n \o (v \o t)
  <2> DEFINE c == <<a.connection>>
             l == <<"Content-Length:">>
             ee == e \o e
  <2>1. v = [i \in 1 .. WIDTH |-> LET digits == Decimal[Len(a.body)]
                                  IN  IF i <= Len(digits) THEN digits[i] ELSE " "]
    <3>1. Len(Blanks) = WIDTH /\ \A i \in 1 .. WIDTH : Blanks[i] = " "
      BY TheBlanks DEF Blanks
    <3> QED BY <1>6, <3>1 DEF Patched
  <2>2. <<a.connection, "Content-Length:">> = c \o l /\ <<"CRLF", "CRLF">> = ee
    BY <1>2, TwoBytes, LiteralsAreBytes, Zenon DEF Literal, e
  <2> HIDE DEF v
  <2>3. Encoding(a) = StatusLine \o a.headers \o (c \o l) \o v \o ee \o a.body
    BY <2>1, <2>2, Zenon DEF Encoding
  <2>4. n = earlier \o StatusLine \o a.headers \o c \o l
    BY DEF n, Named, Headed
  <2>5. c \in Text /\ l \in Text /\ ee \in Text /\ StatusLine \in Text /\ earlier \in Text
    BY <1>2, <1>4, Typed, Texts, OneByte, LiteralsAreBytes
  <2>6. t = ee \o a.body
    BY DEF t
  <2> HIDE DEF c, l, ee
  <2> DEFINE p == a.headers
             q == a.body
  <2>7. p \in Text /\ q \in Text /\ v \in Text
    BY <1>3, <1>8
  <2> HIDE DEF p, q
  <2>8. /\ earlier \o (StatusLine \o p \o (c \o l) \o v \o ee \o q)
              = (earlier \o StatusLine \o p \o c \o l) \o (v \o (ee \o q))
        /\ StatusLine \o p \o (c \o l) \o v \o ee \o q \in Text
    <3> DEFINE F(e_, s_, h_, c_, l_, v_, k_, b_) ==
                  /\ e_ \o (s_ \o h_ \o (c_ \o l_) \o v_ \o k_ \o b_)
                       = (e_ \o s_ \o h_ \o c_ \o l_) \o (v_ \o (k_ \o b_))
                  /\ s_ \o h_ \o (c_ \o l_) \o v_ \o k_ \o b_ \in Text
    <3>1. \A e_, s_, h_, c_, l_, v_, k_, b_ \in Text : F(e_, s_, h_, c_, l_, v_, k_, b_)
      BY EightParts
    <3> HIDE DEF F
    <3>2. F(earlier, StatusLine, p, c, l, v, ee, q)
      BY <2>5, <2>7, <3>1
    <3> QED BY <3>2, Zenon DEF F
  <2> QED BY <2>3, <2>4, <2>6, <2>8, Zenon DEF p, q
<1>10. o.data # <<>>
  <2> HIDE DEF v
  <2>1. n # <<>>
    <3>1. \A x \in Text : x \o <<"Content-Length:">> # <<>>
      BY LiteralsAreBytes, OneByte, Texts DEF Literal
    <3>2. Headed(a) \in Text /\ <<a.connection>> \in Text
      BY <1>2, <1>3, Typed, PartsAreTexts, OneByte
    <3>3. Headed(a) \o <<a.connection>> \in Text
      BY <3>2, Texts
    <3> QED BY <3>1, <3>3 DEF n, Named
  <2>2. v \o t \in Text
    BY <1>7, <1>8, Texts
  <2> QED BY <1>4, <1>8, <2>1, <2>2, Texts
<1> HIDE DEF o, v
<1>11. /\ o \in Buffers /\ ~o.fail /\ o.data # <<>>
       /\ Encoding(a) \in Text /\ o.data = earlier \o Encoding(a)
       /\ o.overrun => out.overrun
  BY <1>2, <1>8, <1>9, <1>10
<1> QED BY <1>11, Zenon DEF o, str, w, a
-----------------------------------------------------------------------------
(* Every step keeps the invariant.                                         *)

LEMMA InitHolds == Init => OInv
<1> SUFFICES ASSUME Init PROVE OInv
  OBVIOUS
<1>1. <<>> \in Text /\ <<>> \o <<>> = <<>> /\ Len(<<>>) = 0 /\ 0 <= MaxBody
  BY Texts, OutputAssumption DEF OutputAssumption
<1>2. EmptyBuffer \in Buffers /\ EmptyBuffer.data = <<>> /\ EmptyBuffer.fail = FALSE
  BY <1>1 DEF EmptyBuffer, Buffers
<1>3. NoAnswer \in Answers /\ NoAnswer.body = <<>>
  BY <1>1 DEF NoAnswer, Answers
<1>4. TypeOK
  <2>1. /\ keep_alive \in IF state = "CONTENT" THEN {0, 1} ELSE {-1, 0, 1}
        /\ state \in {"NOTARGET", "STATUS", "HEADERS", "CONTENT"}
        /\ close_when_flushed \in BOOLEAN
        /\ num_served \in Nat /\ splits \in Nat
        /\ offset_content_length \in Nat /\ offset_content \in Nat
    BY DEF Init
  <2>2. out \in [data: Seq(Byte), size: Nat, fail: BOOLEAN, overrun: BOOLEAN]
    BY <1>2 DEF Init, Buffers, Text
  <2>3. answer \in [headers: Seq(Byte), connection: Byte \cup {""}, body: Seq(Byte)]
    BY <1>3 DEF Init, Answers, Text
  <2>4. earlier \in Seq(Byte) /\ expected \in Seq(Byte) /\ sent \in Seq(Byte)
    BY <1>1 DEF Init, Text
  <2> QED BY <2>1, <2>2, <2>3, <2>4 DEF TypeOK
<1>5. Closing /\ Shape
  BY <1>2 DEF Init, Closing, Shape
<1>6. Accounted
  BY <1>1, <1>2 DEF Init, Accounted, Waiting
<1> QED BY <1>1, <1>2, <1>3, <1>4, <1>5, <1>6 DEF Init, OInv

LEMMA DroppedKeeps == Dropped => OInv'
<1> SUFFICES ASSUME Dropped PROVE OInv'
  OBVIOUS
<1>1. <<>> \in Text /\ <<>> \o <<>> = <<>> /\ Len(<<>>) = 0 /\ 0 <= MaxBody
  BY Texts, OutputAssumption DEF OutputAssumption
<1>2. EmptyBuffer \in Buffers /\ EmptyBuffer.data = <<>> /\ EmptyBuffer.fail = FALSE
  BY <1>1 DEF EmptyBuffer, Buffers
<1>3. NoAnswer \in Answers /\ NoAnswer.body = <<>>
  BY <1>1 DEF NoAnswer, Answers
<1>4. TypeOK'
  <2>1. /\ keep_alive' \in IF state' = "CONTENT" THEN {0, 1} ELSE {-1, 0, 1}
        /\ state' \in {"NOTARGET", "STATUS", "HEADERS", "CONTENT"}
        /\ close_when_flushed' \in BOOLEAN
        /\ num_served' \in Nat /\ splits' \in Nat
        /\ offset_content_length' \in Nat /\ offset_content' \in Nat
    BY DEF Dropped
  <2>2. out' \in [data: Seq(Byte), size: Nat, fail: BOOLEAN, overrun: BOOLEAN]
    BY <1>2 DEF Dropped, Buffers, Text
  <2>3. answer' \in [headers: Seq(Byte), connection: Byte \cup {""}, body: Seq(Byte)]
    BY <1>3 DEF Dropped, Answers, Text
  <2>4. earlier' \in Seq(Byte) /\ expected' \in Seq(Byte) /\ sent' \in Seq(Byte)
    BY <1>1 DEF Dropped, Text
  <2> QED BY <2>1, <2>2, <2>3, <2>4 DEF TypeOK
<1>5. Closing' /\ Shape'
  BY <1>2 DEF Dropped, Closing, Shape
<1>6. Accounted'
  BY <1>1, <1>2 DEF Dropped, Accounted, Waiting
<1> QED BY <1>1, <1>2, <1>3, <1>4, <1>5, <1>6 DEF Dropped, OInv

LEMMA ServeKeeps == OInv /\ Serve => OInv'
<1> SUFFICES ASSUME OInv, Serve PROVE OInv'
  OBVIOUS
<1>1. NoAnswer \in Answers /\ NoAnswer.headers = <<>> /\ NoAnswer.body = <<>>
      /\ Len(NoAnswer.body) <= MaxBody
  BY Texts, OutputAssumption DEF NoAnswer, Answers, OutputAssumption
<1>2. TypeOK'
  BY <1>1, Typed DEF OInv, TypeOK, Serve, offsets, Answers, Text
<1>3. Closing'
  BY DEF OInv, Closing, Serve
<1>4. Shape'
  BY <1>1 DEF Shape, Serve
<1>5. Accounted'
  <2>1. Waiting' = Waiting /\ sent' = sent /\ expected' = expected /\ splits' = splits
    BY DEF Waiting, Serve
  <2> QED BY <2>1 DEF OInv, Accounted
<1> QED BY <1>1, <1>2, <1>3, <1>4, <1>5, Typed DEF OInv, Serve

\* status() and header(): what is behind the earlier responses is the status line
\* and the headers so far.
LEMMA HeadKeeps ==
    ASSUME OInv, state \in {"STATUS", "HEADERS"}, state' = "HEADERS",
           out' \in Buffers, ~out'.fail => out'.data = Headed(answer)',
           keep_alive' \in {-1, 0, 1}, answer' \in Answers, answer'.body = <<>>,
           UNCHANGED <<offsets, num_served, close_when_flushed,
                       earlier, expected, sent, splits>>
    PROVE  OInv'
<1>1. TypeOK'
  BY DEF OInv, TypeOK, offsets, Buffers, Answers, Text
<1>2. Closing'
  BY DEF OInv, Closing
<1>3. Shape'
  BY DEF Shape
<1>4. Accounted'
  <2>1. Waiting' = Waiting /\ sent' = sent /\ expected' = expected /\ splits' = splits
    BY DEF Waiting
  <2> QED BY <2>1 DEF OInv, Accounted
<1>5. Len(answer'.body) <= MaxBody
  BY Texts, OutputAssumption DEF OutputAssumption
<1> QED BY <1>1, <1>2, <1>3, <1>4, <1>5 DEF OInv

LEMMA StatusKeeps ==
    OInv /\ (Status \/ HeaderConnection) =>
       /\ OInv' /\ (~out'.fail => ~out.fail) /\ out' \in Buffers /\ answer'.headers \in Text
       /\ out'.overrun => out.overrun
<1> SUFFICES ASSUME OInv, Status \/ HeaderConnection
             PROVE  OInv' /\ (~out'.fail => ~out.fail) /\ out' \in Buffers
                    /\ answer'.headers \in Text /\ (out'.overrun => out.overrun)
  OBVIOUS
<1>1. /\ state \in {"STATUS", "HEADERS"} /\ state' = "HEADERS"
      /\ keep_alive' \in {-1, 0, 1}
      /\ UNCHANGED <<offsets, num_served, close_when_flushed, history>>
  BY DEF Status, HeaderConnection, OInv, TypeOK
<1>2. PICK memory \in Memory : out' = with_status(out, memory)
  BY DEF Status, HeaderConnection
<1>3. /\ out' \in Buffers /\ (~out'.fail => ~out.fail /\ out'.data = Headed(answer))
      /\ out'.overrun => out.overrun
  BY <1>1, <1>2, StatusWritten
<1>4. Headed(answer)' = Headed(answer)
  BY <1>1 DEF Headed, history
<1>5. answer' \in Answers /\ answer'.body = <<>> /\ answer'.headers \in Text
  BY <1>1, Typed DEF OInv, Shape, history
<1>6. OInv'
  BY <1>1, <1>3, <1>4, <1>5, HeadKeeps DEF history
<1> QED BY <1>3, <1>5, <1>6

LEMMA HeaderKeeps ==
    ASSUME NEW value \in Strings
    PROVE  OInv /\ Header(value) =>
              /\ OInv' /\ (~out'.fail => ~out.fail)
              /\ out'.overrun => out.overrun \/ Len(value) > INITIAL_SIZE
<1> SUFFICES ASSUME OInv, Header(value)
             PROVE  /\ OInv' /\ (~out'.fail => ~out.fail)
                    /\ out'.overrun => out.overrun \/ Len(value) > INITIAL_SIZE
  OBVIOUS
<1>1. /\ state \in {"STATUS", "HEADERS"} /\ state' = "HEADERS"
      /\ answer' = [answer EXCEPT !.headers =
                       answer.headers \o <<"name", ":">> \o value \o <<"CRLF">>]
      /\ UNCHANGED <<keep_alive, offsets, num_served, close_when_flushed,
                     earlier, expected, sent, splits>>
  BY DEF Header
<1>2. PICK memory \in Memory :
         out' = write_header(with_status(out, memory), value, memory)
  BY DEF Header
<1> DEFINE b == with_status(out, memory)
           n == <<"name">>
           c == <<":">>
           e == <<"CRLF">>
<1>3. /\ b \in Buffers /\ (~b.fail => ~out.fail /\ b.data = Headed(answer))
      /\ b.overrun => out.overrun
  BY <1>1, StatusWritten
<1> HIDE DEF b
<1>4. value \in Text
  BY StringsAreTexts
<1>5. /\ out' \in Buffers /\ (~out'.fail => ~b.fail /\ out'.data = b.data \o n \o c \o value \o e)
      /\ out'.overrun => b.overrun \/ Len(value) > INITIAL_SIZE
  <2>1. out' = write_header(b, value, memory)
    BY <1>2 DEF b
  <2> QED BY <1>3, <1>4, <2>1, HeaderAppends
<1>6. n \in Text /\ c \in Text /\ e \in Text /\ <<"name", ":">> = n \o c
  BY OneByte, TwoBytes, LiteralsAreBytes DEF Literal
<1> HIDE DEF n, c, e
<1>7. answer' = [answer EXCEPT !.headers = answer.headers \o (n \o c) \o value \o e]
  BY <1>1, <1>6, Zenon DEF e
<1> DEFINE h == answer.headers \o (n \o c) \o value \o e
           s == earlier \o StatusLine
<1>8. s \in Text /\ answer.headers \in Text
  BY Typed, Texts, LiteralsAreBytes
<1>9. h \in Text /\ s \o h = (s \o answer.headers) \o n \o c \o value \o e
  <2> DEFINE F(s_, a_, n_, c_, v_, e_) ==
                /\ a_ \o (n_ \o c_) \o v_ \o e_ \in Text
                /\ s_ \o (a_ \o (n_ \o c_) \o v_ \o e_) = (s_ \o a_) \o n_ \o c_ \o v_ \o e_
  <2>1. \A s_, a_, n_, c_, v_, e_ \in Text : F(s_, a_, n_, c_, v_, e_)
    BY SixParts
  <2> HIDE DEF F, s
  <2>2. F(s, answer.headers, n, c, value, e)
    BY <1>4, <1>6, <1>8, <2>1
  <2> QED BY <2>2, Zenon DEF F
<1>10. Headed(answer)' = s \o h
  <2> HIDE DEF h
  <2>1. answer'.headers = h
    BY <1>7, Typed DEF Answers, h
  <2>2. earlier' = earlier
    BY <1>1
  <2> QED BY <2>1, <2>2 DEF Headed
<1> HIDE DEF h
<1>11. answer' \in Answers /\ answer'.body = <<>>
  <2>1. answer.body = <<>>
    BY <1>1 DEF OInv, Shape
  <2> QED BY <1>7, <1>9, <2>1, Typed DEF Answers, h
<1>12. ~out'.fail => ~out.fail /\ out'.data = Headed(answer)'
  <2>1. Headed(answer) = s \o answer.headers
    BY DEF Headed
  <2> QED BY <1>3, <1>5, <1>9, <1>10, <2>1, Zenon
<1>13. OInv'
  <2>1. keep_alive' \in {-1, 0, 1}
    BY <1>1 DEF OInv, TypeOK
  <2> QED BY <1>1, <1>5, <1>11, <1>12, <2>1, HeadKeeps
<1> QED BY <1>3, <1>5, <1>12, <1>13

LEMMA WriteKeeps ==
    ASSUME NEW str \in Strings
    PROVE  OInv /\ Write(str) =>
              /\ OInv'
              /\ ~out'.fail => ~out.fail /\ out'.data # <<>>
              /\ out'.overrun => out.overrun \/ Len(str) > INITIAL_SIZE
<1> SUFFICES ASSUME OInv, Write(str)
             PROVE  /\ OInv' /\ (~out'.fail => ~out.fail /\ out'.data # <<>>)
                    /\ out'.overrun => out.overrun \/ Len(str) > INITIAL_SIZE
  OBVIOUS
<1>1. /\ state # "NOTARGET" /\ state' = "CONTENT"
      /\ Len(answer.body) + Len(str) <= MaxBody
      /\ UNCHANGED <<num_served, close_when_flushed, earlier, expected, sent, splits>>
  BY DEF Write
<1>2. PICK memory \in Memory, keep \in KeepChoices :
         LET w == Written(str, keep, memory)
         IN  /\ out' = w.out
             /\ keep_alive' = w.keep_alive
             /\ offset_content_length' = w.content_length
             /\ offset_content' = w.content
             /\ answer' = Answered(str, keep)
  BY DEF Write
<1>3. str \in Text
  BY StringsAreTexts
<1> DEFINE w == Written(str, keep, memory)
           a == Answered(str, keep)
<1>4. /\ w.out \in Buffers /\ w.keep_alive = keep /\ keep \in {0, 1}
      /\ w.content_length \in Nat /\ w.content \in Nat
      /\ a \in Answers /\ a.connection \in Byte
      /\ a.headers = answer.headers /\ a.body = answer.body \o str
      /\ ~w.out.fail => /\ ~out.fail
                        /\ Begun(w.out, a, w.content_length, w.content)
      /\ w.out.overrun => out.overrun \/ Len(str) > INITIAL_SIZE
  BY <1>1, <1>3, WriteBegins
<1>5. /\ out' = w.out /\ keep_alive' = w.keep_alive /\ answer' = a
      /\ offset_content_length' = w.content_length /\ offset_content' = w.content
  BY <1>2
<1> HIDE DEF w, a
<1>6. /\ out' \in Buffers /\ keep_alive' \in {0, 1}
      /\ offset_content_length' \in Nat /\ offset_content' \in Nat
      /\ answer' \in Answers /\ answer'.connection \in Byte
      /\ answer'.headers \in Text /\ answer'.body \in Text
  BY <1>4, <1>5, Zenon DEF Answers
<1>7. TypeOK'
  BY <1>1, <1>6 DEF OInv, TypeOK, Buffers, Answers, Text
<1>8. ~out'.fail => ~out.fail /\ Begun(out', answer', offset_content_length', offset_content')
  BY <1>4, <1>5, Zenon
<1>9. Closing'
  BY <1>1 DEF OInv, Closing
<1>10. Shape'
  <2>1. Framed(answer') = Framed(answer)' /\ Named(answer') = Named(answer)'
    BY <1>1 DEF Framed, Named, Headed
  <2>2. ~out'.fail => Begun(out, answer, offset_content_length, offset_content)'
    BY <1>8, <2>1 DEF Begun
  <2> QED BY <1>1, <1>6, <2>2 DEF Shape
<1>11. Accounted'
  <2>1. Waiting' = Waiting /\ sent' = sent /\ expected' = expected /\ splits' = splits
    BY <1>1 DEF Waiting
  <2> QED BY <2>1 DEF OInv, Accounted
<1>12. Len(answer'.body) <= MaxBody
  <2>1. answer'.body = answer.body \o str
    BY <1>4, <1>5
  <2>2. Len(answer.body \o str) = Len(answer.body) + Len(str)
    BY <1>3, Typed, Texts
  <2> QED BY <1>1, <2>1, <2>2
<1>13. ~out'.fail => out'.data # <<>>
  <2>1. earlier' \in Text
    BY <1>1, Typed
  <2>2. Framed(answer') \in Text /\ Framed(answer') # <<>>
    BY <1>6, Typed, PartsAreTexts
  <2>3. Framed(answer') \o answer'.body # <<>>
    BY <1>6, <2>2, Texts
  <2> QED BY <1>8, <2>3 DEF Begun
<1>14. OInv'
  BY <1>6, <1>7, <1>9, <1>10, <1>11, <1>12 DEF OInv
<1> QED BY <1>4, <1>5, <1>8, <1>13, <1>14

\* send() that does not fail: the whole response is in the buffer.
SendSucceeds ==
    /\ ~out.fail /\ state' = "NOTARGET"
    /\ out'.data = earlier \o Encoding(answer') /\ out'.data # <<>> /\ ~out'.fail
    /\ close_when_flushed' \in BOOLEAN /\ (out'.overrun => out.overrun)

LEMMA SendKeeps ==
    OInv /\ Send => OInv' /\ state # "NOTARGET" /\ (Dropped \/ SendSucceeds)
<1> SUFFICES ASSUME OInv, Send
             PROVE  OInv' /\ state # "NOTARGET" /\ (Dropped \/ SendSucceeds)
  OBVIOUS
<1>1. state # "NOTARGET"
  BY DEF Send
<1>2. PICK memory \in Memory, keep \in KeepChoices :
         LET w == Written(<<>>, keep, memory)
             content_length == Len(w.out.data) - w.content
         IN  IF w.out.fail THEN Dropped
             ELSE /\ state' = "NOTARGET" /\ keep_alive' = -1
                  /\ out' = overwrite(w.out, w.content_length, Decimal[content_length])
                  /\ offset_content_length' = w.content_length
                  /\ offset_content' = w.content
                  /\ num_served' = num_served + 1
                  /\ close_when_flushed' = (close_when_flushed \/ w.keep_alive = 0)
                  /\ answer' = Answered(<<>>, keep)
                  /\ expected' = expected \o Encoding(Answered(<<>>, keep))
                  /\ UNCHANGED <<earlier, sent, splits>>
  BY DEF Send
<1> DEFINE w == Written(<<>>, keep, memory)
           a == Answered(<<>>, keep)
<1>3. CASE w.out.fail
  <2>1. Dropped
    BY <1>2, <1>3
  <2> QED BY <1>1, <2>1, DroppedKeeps
<1>4. CASE ~w.out.fail
  <2> DEFINE o == overwrite(w.out, w.content_length, Decimal[Len(w.out.data) - w.content])
  <2>1. /\ state' = "NOTARGET" /\ keep_alive' = -1 /\ out' = o
        /\ offset_content_length' = w.content_length
        /\ offset_content' = w.content
        /\ num_served' = num_served + 1
        /\ close_when_flushed' = (close_when_flushed \/ w.keep_alive = 0)
        /\ answer' = a
        /\ expected' = expected \o Encoding(a)
        /\ UNCHANGED <<earlier, sent, splits>>
    BY <1>2, <1>4, Zenon
  <2>2. /\ o \in Buffers /\ ~o.fail /\ o.data # <<>>
        /\ Encoding(a) \in Text /\ o.data = earlier \o Encoding(a)
        /\ o.overrun => out.overrun
    BY <1>1, <1>4, ResponseIsEncoded
  <2>3. <<>> \in Text
    BY Texts
  <2>4. /\ w.content_length \in Nat /\ w.content \in Nat
        /\ a \in Answers /\ a.body = answer.body \o <<>> /\ ~out.fail
    BY <1>1, <1>4, <2>3, WriteBegins
  <2> HIDE DEF w, o, a
  <2>5. /\ close_when_flushed' \in BOOLEAN
        /\ close_when_flushed' = TRUE \/ close_when_flushed' = FALSE
    <3>1. close_when_flushed \in BOOLEAN
      BY DEF OInv, TypeOK
    <3> QED BY <2>1, <3>1, Zenon
  <2>6. SendSucceeds
    BY <2>1, <2>2, <2>4, <2>5 DEF SendSucceeds
  <2>7. TypeOK'
    <3>1. expected' \in Text
      BY <2>1, <2>2, Typed, Texts
    <3>2. /\ state' = "NOTARGET" /\ keep_alive' = -1 /\ out' \in Buffers
          /\ offset_content_length' \in Nat /\ offset_content' \in Nat /\ answer' \in Answers
          /\ num_served' \in Nat /\ earlier' \in Text /\ sent' \in Text /\ splits' \in Nat
      <4>1. num_served \in Nat /\ splits \in Nat
        BY DEF OInv, TypeOK
      <4>2. earlier \in Text /\ sent \in Text
        BY Typed
      <4> QED BY <2>1, <2>2, <2>4, <4>1, <4>2
    <3>3. out' \in [data: Seq(Byte), size: Nat, fail: BOOLEAN, overrun: BOOLEAN]
      BY <3>2 DEF Buffers, Text
    <3>4. /\ state' \in {"NOTARGET", "STATUS", "HEADERS", "CONTENT"}
          /\ keep_alive' \in IF state' = "CONTENT" THEN {0, 1} ELSE {-1, 0, 1}
      BY <3>2
    <3> QED BY <2>5, <3>1, <3>2, <3>3, <3>4, Zenon DEF TypeOK, Answers, Text
  <2>8. Closing' /\ Shape'
    BY <2>1, <2>2 DEF Closing, Shape
  <2>9. Accounted'
    <3>1. /\ Waiting = earlier /\ Waiting' = earlier \o Encoding(a)
          /\ sent' = sent /\ splits' = splits /\ expected' = expected \o Encoding(a)
      BY <1>1, <2>1, <2>2 DEF Waiting
    <3> DEFINE x == Encoding(a)
    <3>2. sent \in Text /\ earlier \in Text /\ x \in Text /\ expected \in Text
      BY <2>2, Typed
    <3> HIDE DEF x
    <3>3. \A s, t \in Text : (s \o t) \o x = s \o (t \o x)
      BY ZenonT(60), <3>2, Associative
    <3>4. (sent \o earlier) \o x = sent \o (earlier \o x)
      BY <3>2, <3>3, Zenon
    <3>5. splits = 0 => sent \o earlier = expected
      BY <3>1 DEF OInv, Accounted
    <3>6. splits = 0 => sent \o (earlier \o x) = expected \o x
      BY <3>4, <3>5, Zenon
    <3>7. Len(sent) + Len(earlier \o x) = Len(expected \o x)
      <4>1. Len(sent) + Len(earlier) = Len(expected)
        BY <3>1 DEF OInv, Accounted
      <4>2. /\ Len(earlier \o x) = Len(earlier) + Len(x)
            /\ Len(expected \o x) = Len(expected) + Len(x)
            /\ Len(sent) \in Nat /\ Len(earlier) \in Nat /\ Len(x) \in Nat
        BY <3>2, Texts
      <4> QED BY <4>1, <4>2
    <3> QED BY <3>1, <3>6, <3>7 DEF Accounted, x
  <2>10. Len(answer'.body) <= MaxBody
    BY <2>1, <2>4, Typed, Texts DEF OInv
  <2>11. OInv'
    BY <2>1, <2>2, <2>7, <2>8, <2>9, <2>10 DEF OInv
  <2> QED BY <1>1, <2>6, <2>11
<1> QED BY <1>3, <1>4

\* Behind the status line there is always something in the buffer.
LEMMA HeadIsThere ==
    OInv' /\ state' = "HEADERS" => (~out'.fail => out'.data # <<>>)
<1> SUFFICES ASSUME OInv', state' = "HEADERS", ~out'.fail PROVE out'.data # <<>>
  OBVIOUS
<1>1. earlier' \in Text /\ answer'.headers \in Text
  BY DEF OInv, TypeOK, Text
<1>2. out'.data = Headed(answer)'
  BY DEF OInv, Shape
<1> DEFINE s == earlier' \o StatusLine
<1>3. s \in Text /\ s # <<>>
  BY <1>1, Texts, LiteralsAreBytes
<1>4. Headed(answer)' = s \o answer'.headers
  BY DEF Headed
<1> HIDE DEF s
<1>5. s \o answer'.headers # <<>>
  BY <1>1, <1>3, Texts
<1> QED BY <1>2, <1>4, <1>5

\* A flush that does not end the connection.
FlushSucceeds ==
    /\ UNCHANGED <<state, num_served, close_when_flushed>>
    /\ ~out'.fail /\ (out'.data = <<>> => ~close_when_flushed)
    /\ out'.overrun = out.overrun

LEMMA FlushKeeps ==
    OInv /\ Flush =>
       /\ OInv' /\ state = "NOTARGET" /\ out.data # <<>> /\ ~out.fail
       /\ Dropped \/ FlushSucceeds
<1> SUFFICES ASSUME OInv, Flush
             PROVE  /\ OInv' /\ state = "NOTARGET" /\ out.data # <<>> /\ ~out.fail
                    /\ Dropped \/ FlushSucceeds
  OBVIOUS
<1>1. state = "NOTARGET" /\ out.data # <<>> /\ ~out.fail
  BY DEF Flush, OInv, Closing
<1>2. PICK memory \in Memory, copied \in 0 .. Len(out.data) :
         LET roomy == ensure_unused_space(out, MIN_READ, memory)
             rest  == unread(roomy, copied)
         IN  IF roomy.fail \/ (rest.data = <<>> /\ close_when_flushed) THEN Dropped
             ELSE /\ out' = rest
                  /\ sent' = sent \o SubSeq(out.data, 1, copied)
                  /\ splits' = IF copied \in 1 .. Len(out.data) - 1 THEN splits + 1 ELSE splits
                  /\ UNCHANGED <<state, keep_alive, offsets, num_served,
                                 close_when_flushed, answer, earlier, expected>>
  BY DEF Flush
<1> DEFINE roomy == ensure_unused_space(out, MIN_READ, memory)
           rest  == unread(roomy, copied)
<1>3. CASE roomy.fail \/ (rest.data = <<>> /\ close_when_flushed)
  <2>1. Dropped
    BY <1>2, <1>3
  <2> QED BY <1>1, <2>1, DroppedKeeps
<1>4. CASE ~(roomy.fail \/ (rest.data = <<>> /\ close_when_flushed))
  <2> DEFINE taken == SubSeq(out.data, 1, copied)
  <2>1. /\ out' = rest /\ sent' = sent \o taken
        /\ splits' = IF copied \in 1 .. Len(out.data) - 1 THEN splits + 1 ELSE splits
        /\ UNCHANGED <<state, keep_alive, offsets, num_served,
                       close_when_flushed, answer, earlier, expected>>
    BY <1>2, <1>4, Zenon
  <2>2. MIN_READ \in Nat /\ memory \in Nat
    BY OutputAssumption DEF OutputAssumption
  <2>3. roomy \in Buffers /\ roomy.data = out.data /\ roomy.overrun = out.overrun
    BY <1>1, <2>2, Typed, RoomIsMade
  <2>4. ~roomy.fail /\ (rest.data = <<>> => ~close_when_flushed)
    BY <1>4, Zenon
  <2> HIDE DEF roomy
  <2>5. /\ rest \in Buffers /\ rest.fail = roomy.fail /\ rest.overrun = roomy.overrun
        /\ Len(rest.data) = Len(out.data) - copied
        /\ copied = 0 => rest.data = out.data
        /\ copied = Len(out.data) => rest.data = <<>>
    BY <2>3, RestIsKept
  <2> HIDE DEF rest
  <2>6. out.data \in Text /\ Len(out.data) \in Nat /\ sent \in Text /\ expected \in Text
    BY Typed, Texts
  <2>7. taken \in Text /\ Len(taken) = copied
        /\ (copied = 0 => taken = <<>>) /\ (copied = Len(out.data) => taken = out.data)
    <3>1. \A i \in 1 .. copied : out.data[i] \in Byte
      BY <2>6, ElementOfSeq DEF Text
    <3>2. /\ taken \in Text /\ Len(taken) = IF 1 <= copied THEN copied - 1 + 1 ELSE 0
          /\ \A i \in 1 .. copied - 1 + 1 : taken[i] = out.data[1 + i - 1]
      BY <2>6, <3>1, SubSeqProperties DEF Text
    <3> HIDE DEF taken
    <3>3. Len(taken) = copied /\ \A i \in 1 .. copied : taken[i] = out.data[i]
      BY <2>6, <3>2
    <3>4. copied = 0 => taken = <<>>
      BY <3>2, <3>3, EmptySeq DEF Text
    <3>5. copied = Len(out.data) => taken = out.data
      BY <2>6, <3>2, <3>3, SeqEqual DEF Text
    <3> QED BY <3>2, <3>3, <3>4, <3>5
  <2> HIDE DEF taken
  <2>8. FlushSucceeds
    <3>1. out'.fail = FALSE
      BY <2>1, <2>4, <2>5, Typed DEF Buffers
    <3>2. out'.data = <<>> => ~close_when_flushed
      BY <2>1, <2>4, Zenon
    <3>3. out'.overrun = out.overrun
      BY <2>1, <2>3, <2>5, Zenon
    <3> QED BY <2>1, <3>1, <3>2, <3>3, Zenon DEF FlushSucceeds
  <2>9. TypeOK'
    <3>1. sent' \in Text /\ splits' \in Nat /\ out' \in Buffers
      <4>1. sent \o taken \in Text
        BY <2>6, <2>7, Texts
      <4>2. splits \in Nat
        BY DEF OInv, TypeOK
      <4> QED BY <2>1, <2>5, <4>1, <4>2
    <3> QED BY <2>1, <3>1 DEF OInv, TypeOK, offsets, Buffers, Text
  <2>10. Closing'
    BY <1>1, <2>1, <2>8 DEF Closing, FlushSucceeds
  <2>11. Shape'
    BY <1>1, <2>1 DEF Shape
  <2>12. Accounted'
    <3>1. /\ Waiting = out.data /\ Waiting' = rest.data /\ sent' = sent \o taken
          /\ expected' = expected
      BY <1>1, <2>1 DEF Waiting
    <3>2. Len(sent') + Len(Waiting') = Len(expected')
      <4>1. Len(sent) + Len(Waiting) = Len(expected)
        BY DEF OInv, Accounted
      <4>2. Len(sent \o taken) = Len(sent) + copied /\ Len(sent) \in Nat
        BY <2>6, <2>7, Texts
      <4>3. Len(sent \o taken) + Len(rest.data) = Len(expected)
        <5> DEFINE x == Len(sent \o taken)
        <5>1. Len(sent) + Len(out.data) = Len(expected)
          BY <3>1, <4>1, Zenon
        <5>2. x = Len(sent) + copied
          BY <4>2
        <5> HIDE DEF x
        <5>3. x + Len(rest.data) = Len(expected)
          <6> DEFINE o == Len(out.data)
                     l == Len(rest.data)
                     t == Len(sent)
                     u == Len(expected)
          <6>1. l = o - copied /\ o \in Nat /\ t \in Nat /\ t + o = u /\ x = t + copied
            BY <2>5, <2>6, <4>2, <5>1, <5>2
          <6>2. copied \in 0 .. o
            OBVIOUS
          <6> HIDE DEF o, l, t, u
          <6>3. x + l = u
            BY <6>1, <6>2
          <6> QED BY <6>3 DEF l, u
        <5> QED BY <5>3, Zenon DEF x
      <4> QED BY <3>1, <4>3, Zenon
    <3>3. splits' = 0 => sent' \o Waiting' = expected'
      <4> SUFFICES ASSUME splits' = 0 PROVE sent \o taken \o rest.data = expected
        BY <3>1
      <4>1. splits = 0 /\ (copied = 0 \/ copied = Len(out.data))
        <5>1. splits \in Nat
          BY DEF OInv, TypeOK
        <5> QED BY <2>1, <2>6, <5>1
      <4>2. sent \o out.data = expected
        BY <3>1, <4>1 DEF OInv, Accounted
      <4>3. CASE copied = 0
        BY <2>5, <2>6, <2>7, <4>2, <4>3, Texts
      <4>4. CASE copied = Len(out.data)
        <5>1. taken = out.data /\ rest.data = <<>>
          BY <2>5, <2>7, <4>4
        <5> QED BY <2>6, <4>2, <5>1, Texts
      <4> QED BY <4>1, <4>3, <4>4
    <3> QED BY <3>2, <3>3 DEF Accounted
  <2>13. OInv'
    BY <2>1, <2>5, <2>9, <2>10, <2>11, <2>12 DEF OInv
  <2> QED BY <1>1, <2>8, <2>13
<1> QED BY <1>3, <1>4

LEMMA NextKeepsOInv == OInv /\ [Next]_vars => OInv'
<1> SUFFICES ASSUME OInv, [Next]_vars PROVE OInv'
  OBVIOUS
<1>1. CASE Serve
  BY <1>1, ServeKeeps
<1>2. CASE Status \/ HeaderConnection
  BY <1>2, StatusKeeps
<1>3. CASE Send
  BY <1>3, SendKeeps
<1>4. CASE Flush
  BY <1>4, FlushKeeps
<1>5. CASE Broken
  BY <1>5, DroppedKeeps DEF Broken
<1>6. ASSUME NEW str \in Strings, Header(str) PROVE OInv'
  BY <1>6, HeaderKeeps
<1>7. ASSUME NEW str \in Strings, Write(str) PROVE OInv'
  BY <1>7, WriteKeeps
<1>8. CASE UNCHANGED vars
  <2>1. UNCHANGED <<TypeOK, Closing, Shape, Accounted, out, answer>>
    BY <1>8 DEF vars, TypeOK, Closing, Shape, Accounted, Waiting, Begun, Framed, Named, Headed
  <2> QED BY <2>1 DEF OInv
<1>9. CASE Undefined
  BY <1>8, <1>9 DEF Undefined
<1> QED BY <1>1, <1>2, <1>3, <1>4, <1>5, <1>6, <1>7, <1>8, <1>9 DEF Next

\* The types, the array that holds the bytes in use, the parts of the response
\* that is being written and the account of the bytes hold in every state.
THEOREM ResponsesTakeShape == Spec => []OInv
BY InitHolds, NextKeepsOInv, PTL DEF Spec

-----------------------------------------------------------------------------
(* What the runs check.                                                    *)

\* Every variable keeps its type, whatever memory can be had and whatever the
\* socket takes.
THEOREM TypeCorrect == Spec => []TypeOK
<1>1. OInv => TypeOK
  BY DEF OInv
<1> QED BY <1>1, ResponsesTakeShape, PTL

\* However many responses gather in the buffer and wherever a growth fails, a write
\* goes past the end of the array only when it is given a string longer than the
\* first array: for anything else one doubling makes room enough.
THEOREM OnlyLongStringsOverrun == Spec => OverrunNeedsLongString
<1>1. OInv /\ [Next]_vars =>
         [out'.overrun => \/ out.overrun
                          \/ \E str \in Strings : /\ Len(str) > INITIAL_SIZE
                                                  /\ Header(str) \/ Write(str)]_vars
  <2> DEFINE Long == \E str \in Strings : /\ Len(str) > INITIAL_SIZE
                                          /\ Header(str) \/ Write(str)
  <2> SUFFICES ASSUME OInv, Next, out'.overrun, ~out.overrun PROVE Long
    BY Zenon
  <2>1. ~Dropped
    BY DEF Dropped, EmptyBuffer
  <2>2. CASE Serve
    BY <2>2 DEF Serve
  <2>3. CASE Status \/ HeaderConnection
    BY <2>3, StatusKeeps
  <2>4. CASE Send
    BY <2>1, <2>4, SendKeeps DEF SendSucceeds
  <2>5. CASE Flush
    BY <2>1, <2>5, FlushKeeps DEF FlushSucceeds
  <2>6. CASE Broken \/ Undefined
    BY <2>1, <2>6 DEF Broken, Undefined, vars
  <2>7. ASSUME NEW str \in Strings, Header(str) PROVE Long
    BY <2>7, HeaderKeeps
  <2>8. ASSUME NEW str \in Strings, Write(str) PROVE Long
    BY <2>8, WriteKeeps
  <2> QED BY <2>2, <2>3, <2>4, <2>5, <2>6, <2>7, <2>8 DEF Next
<1> QED BY <1>1, ResponsesTakeShape, PTL DEF Spec, OverrunNeedsLongString

\* Until a flush is partial, what the socket took and what the buffer holds are
\* together the responses in the order in which they were sent.
THEOREM InOrder == Spec => []InOrderUntilSplit
<1>1. OInv => InOrderUntilSplit
  BY DEF OInv, Accounted, Waiting, InOrderUntilSplit
<1> QED BY <1>1, ResponsesTakeShape, PTL

\* Partial flushes neither lose nor repeat a byte in number.
THEOREM BytesCounted == Spec => []BytesAddUp
<1>1. OInv => BytesAddUp
  BY DEF OInv, Accounted, Waiting, BytesAddUp
<1> QED BY <1>1, ResponsesTakeShape, PTL

\* A part of a text, found from the lengths of what is before it and of itself.
LEMMA MiddleIsFound ==
    ASSUME NEW p \in Text, NEW m \in Text, NEW t \in Text
    PROVE  SubSeq(p \o (m \o t), Len(p) + 1, Len(p) + Len(m)) = m
<1> DEFINE mt == m \o t
           d == p \o mt
           r == SubSeq(d, Len(p) + 1, Len(p) + Len(m))
<1>1. /\ Len(p) \in Nat /\ Len(m) \in Nat /\ Len(t) \in Nat
      /\ mt \in Text /\ Len(mt) = Len(m) + Len(t)
      /\ \A i \in 1 .. Len(m) + Len(t) : mt[i] = IF i <= Len(m) THEN m[i] ELSE t[i - Len(m)]
  BY Texts, ConcatProperties DEF Text
<1> HIDE DEF mt
<1>2. /\ d \in Text /\ Len(d) = Len(p) + Len(mt)
      /\ \A i \in 1 .. Len(p) + Len(mt) : d[i] = IF i <= Len(p) THEN p[i] ELSE mt[i - Len(p)]
  <2>1. p \in Seq(Byte) /\ mt \in Seq(Byte)
    BY <1>1, Zenon DEF Text
  <2> QED BY <2>1, ConcatProperties, Zenon DEF Text
<1> HIDE DEF d
<1>3. \A i \in Len(p) + 1 .. Len(p) + Len(m) : d[i] \in Byte
  <2>1. \A i \in 1 .. Len(d) : d[i] \in Byte
    BY <1>2, ElementOfSeq DEF Text
  <2> QED BY <1>1, <1>2, <2>1
<1>4. /\ r \in Text /\ Len(r) = Len(m)
      /\ \A i \in 1 .. Len(m) : r[i] = d[Len(p) + i]
  <2> DEFINE a == Len(p) + 1
             b == Len(p) + Len(m)
  <2>1. a \in Int /\ b \in Int /\ \A i \in a .. b : d[i] \in Byte
    BY <1>1, <1>3
  <2>2. /\ SubSeq(d, a, b) \in Seq(Byte)
        /\ Len(SubSeq(d, a, b)) = IF a <= b THEN b - a + 1 ELSE 0
        /\ \A i \in 1 .. b - a + 1 : SubSeq(d, a, b)[i] = d[a + i - 1]
    <3> HIDE DEF a, b
    <3> QED BY <2>1, SubSeqProperties
  <2>3. r = SubSeq(d, a, b)
    OBVIOUS
  <2> HIDE DEF r
  <2> QED BY <1>1, <2>2, <2>3 DEF Text
<1> HIDE DEF r
<1>5. \A i \in 1 .. Len(m) : r[i] = m[i]
  <2> SUFFICES ASSUME NEW i \in 1 .. Len(m) PROVE r[i] = m[i]
    OBVIOUS
  <2>1. /\ Len(p) + i \in 1 .. Len(p) + Len(mt) /\ ~(Len(p) + i <= Len(p))
        /\ Len(p) + i - Len(p) = i /\ i \in 1 .. Len(m) + Len(t) /\ i <= Len(m)
    BY <1>1
  <2>2. d[Len(p) + i] = mt[i]
    BY <1>2, <2>1
  <2>3. mt[i] = m[i]
    BY <1>1, <2>1
  <2> QED BY <1>4, <2>2, <2>3
<1>6. r = m
  BY <1>4, <1>5, SeqEqual DEF Text
<1> QED BY <1>6, Zenon DEF r, d, mt

\* While a body is written the two offsets are those of the blanks left for its
\* length and of its first byte.
THEOREM OffsetsAreRight == Spec => []OffsetsMatch
<1>1. OInv => OffsetsMatch
  <2> SUFFICES ASSUME OInv, state = "CONTENT", ~out.fail
               PROVE  /\ SubSeq(out.data, offset_content_length + 1, offset_content_length + WIDTH) = Blanks
                      /\ SubSeq(out.data, offset_content + 1, Len(out.data)) = answer.body
    BY DEF OffsetsMatch
  <2> DEFINE n == Named(answer)
             f == Framed(answer)
             e == <<"CRLF">>
             q == answer.body
  <2>1. /\ out.data = f \o q /\ offset_content_length = Len(n) /\ offset_content = Len(f)
        /\ answer.connection \in Byte
    BY DEF OInv, Shape, Begun
  <2>2. f = n \o (Blanks \o e) \o e
    BY TheBlanks DEF Framed
  <2>3. n \in Text /\ f \in Text /\ e \in Text /\ q \in Text /\ Blanks \in Text
    BY <2>1, Typed, PartsAreTexts, LiteralsAreBytes, TheBlanks
  <2> HIDE DEF n, f, e, q
  <2>4. SubSeq(out.data, Len(f) + 1, Len(out.data)) = q
    <3>1. q \o <<>> = q /\ <<>> \in Text /\ Len(f \o q) = Len(f) + Len(q)
      BY <2>3, Texts
    <3>2. SubSeq(f \o (q \o <<>>), Len(f) + 1, Len(f) + Len(q)) = q
      BY <2>3, <3>1, MiddleIsFound
    <3> QED BY <2>1, <3>1, <3>2, Zenon
  <2>5. \E t \in Text : out.data = n \o (Blanks \o t)
    <3> DEFINE be == Blanks \o e
               eq == e \o q
               nb == n \o be
    <3>1. be \in Text /\ eq \in Text
      BY <2>3, Texts
    <3>2. be \o eq = Blanks \o (e \o eq)
      <4> HIDE DEF eq
      <4> QED BY ZenonT(60), <2>3, <3>1, Associative
    <3>3. e \o eq \in Text
      <4> HIDE DEF eq
      <4> QED BY <2>3, <3>1, Texts
    <3> HIDE DEF be
    <3>4. nb \in Text
      BY <2>3, <3>1, Texts
    <3>5. nb \o eq = n \o (be \o eq)
      <4>1. \A x, y \in Text : (n \o x) \o y = n \o (x \o y)
        BY <2>3, Associative
      <4> QED BY <3>1, <4>1, Zenon
    <3> HIDE DEF nb
    <3>6. (nb \o e) \o q = nb \o eq
      BY <2>3, <3>4, Associative
    <3>7. out.data = (nb \o e) \o q
      BY <2>1, <2>2, Zenon DEF nb, be
    <3> HIDE DEF eq
    <3>8. out.data = n \o (Blanks \o (e \o eq))
      BY <3>2, <3>5, <3>6, <3>7, Zenon
    <3> QED BY <3>3, <3>8, Zenon
  <2>6. PICK t \in Text : out.data = n \o (Blanks \o t)
    BY <2>5
  <2>7. SubSeq(out.data, Len(n) + 1, Len(n) + WIDTH) = Blanks
    <3>1. SubSeq(n \o (Blanks \o t), Len(n) + 1, Len(n) + Len(Blanks)) = Blanks
      BY <2>3, MiddleIsFound
    <3> QED BY <2>6, <3>1, TheBlanks, Zenon
  <2> QED BY <2>1, <2>4, <2>7, Zenon DEF q
<1> QED BY <1>1, ResponsesTakeShape, PTL

\* send() leaves in the buffer what was there before the response and then the
\* response as it was asked for, with the length of its body in its place.
THEOREM ResponseIsAppended == Spec => SendAppendsResponse
<1>1. OInv /\ [Next]_vars => [num_served' > num_served => out'.data = earlier \o Encoding(answer')]_vars
  <2> SUFFICES ASSUME OInv, Next, num_served' > num_served
               PROVE  out'.data = earlier \o Encoding(answer')
    BY DEF SendAppendsResponse
  <2>1. num_served \in Nat /\ num_served' # num_served
    <3>1. num_served \in Nat
      BY DEF OInv, TypeOK
    <3>2. ~(num_served > num_served)
      BY <3>1
    <3> QED BY <3>1, <3>2, Zenon
  <2>2. ~Dropped
    <3>1. ~(0 > num_served)
      BY <2>1
    <3> QED BY <3>1 DEF Dropped
  <2>3. CASE Send
    BY <2>2, <2>3, SendKeeps DEF SendSucceeds
  <2>4. CASE Flush
    BY <2>1, <2>2, <2>4, FlushKeeps DEF FlushSucceeds
  <2>5. CASE \/ Undefined \/ Serve \/ Status \/ HeaderConnection \/ Broken
             \/ \E str \in Strings : Header(str) \/ Write(str)
    BY <2>1, <2>2, <2>5 DEF Undefined, vars, Serve, Status, HeaderConnection, Broken, Header, Write
  <2> QED BY <2>3, <2>4, <2>5 DEF Next
<1> QED BY <1>1, ResponsesTakeShape, PTL DEF Spec, SendAppendsResponse

-----------------------------------------------------------------------------
(* What Server knows of a client's output.                                 *)

Responding == state # "NOTARGET"
Filled == IF out.fail THEN "failed" ELSE IF out.data = <<>> THEN "empty" ELSE "pending"

\* What a step of Output is to Outbox.
LEMMA StepsAreAbstract ==
    ASSUME OInv, Next
    PROVE  \/ Abstract!Next
           \/ UNCHANGED <<Responding, Filled, close_when_flushed>>
<1> DEFINE r  == Responding
           f  == Filled
           r1 == Responding'
           f1 == Filled'
           c  == close_when_flushed
           c1 == close_when_flushed'
<1>1. /\ c \in BOOLEAN /\ r \in BOOLEAN
      /\ f \in {"failed", "empty", "pending"} /\ f1 \in {"failed", "empty", "pending"}
      /\ f = "failed" <=> out.fail
      /\ f1 = "failed" <=> out'.fail
      /\ ~out.fail => (f = "empty" <=> out.data = <<>>)
      /\ ~out'.fail => (f1 = "empty" <=> out'.data = <<>>)
  BY DEF Filled, Responding, OInv, TypeOK
<1>2. /\ ~r => f # "failed"
      /\ r \/ f = "empty" => ~c
  BY <1>1 DEF OInv, Closing, Filled, Responding
<1>3. Dropped => ~r1 /\ f1 = "empty" /\ ~c1
  BY DEF Dropped, EmptyBuffer, Responding, Filled
<1>4. (r \/ f = "pending") /\ Dropped => Abstract!Drop
  BY DEF Abstract!Drop, Dropped, EmptyBuffer, Responding, Filled
<1>5. r /\ r1 /\ c1 = c /\ f1 \in {"failed", "pending"} /\ (f = "failed" => f1 = "failed")
         => Abstract!Build
  BY DEF Abstract!Build, Responding, Filled
<1>6. CASE Serve
  BY <1>6 DEF Serve, Abstract!Serve, Abstract!Next
<1>7. CASE Status \/ HeaderConnection
  <2>1. r /\ r1 /\ c1 = c /\ state' = "HEADERS"
    BY <1>7 DEF Status, HeaderConnection, history, Responding
  <2>2. OInv' /\ (~out'.fail => ~out.fail) /\ answer'.headers \in Text
    BY <1>7, StatusKeeps
  <2>3. ~out'.fail => out'.data # <<>>
    BY <2>1, <2>2, HeadIsThere
  <2> QED BY <1>1, <1>5, <2>1, <2>2, <2>3 DEF Abstract!Next
<1>8. ASSUME NEW str \in Strings, Header(str)
      PROVE  Abstract!Next
  <2>1. r /\ r1 /\ c1 = c /\ state' = "HEADERS"
    BY <1>8 DEF Header, Responding
  <2>2. OInv' /\ (~out'.fail => ~out.fail)
    BY <1>8, HeaderKeeps
  <2>3. ~out'.fail => out'.data # <<>>
    BY <2>1, <2>2, HeadIsThere
  <2> QED BY <1>1, <1>5, <2>1, <2>2, <2>3 DEF Abstract!Next
<1>9. ASSUME NEW str \in Strings, Write(str)
      PROVE  Abstract!Next
  <2>1. r /\ r1 /\ c1 = c
    BY <1>9 DEF Write, Responding
  <2>2. ~out'.fail => ~out.fail /\ out'.data # <<>>
    BY <1>9, WriteKeeps
  <2> QED BY <1>1, <1>5, <2>1, <2>2 DEF Abstract!Next
<1>10. CASE Send
  <2>1. r /\ (Dropped \/ SendSucceeds)
    BY <1>10, SendKeeps DEF Responding
  <2>2. CASE SendSucceeds
    <3>1. /\ f # "failed" /\ ~r1 /\ f1 = "pending" /\ c1 \in BOOLEAN
      BY <1>1, <2>2 DEF SendSucceeds, Responding
    <3> QED BY <2>1, <3>1 DEF Abstract!Send, Abstract!Next, Responding, Filled
  <2> QED BY <1>4, <2>1, <2>2 DEF Abstract!Next
<1>11. CASE Flush
  <2>1. ~r /\ f = "pending" /\ (Dropped \/ FlushSucceeds)
    BY <1>1, <1>11, FlushKeeps DEF Responding
  <2>2. CASE FlushSucceeds
    <3>1. r1 = r /\ c1 = c /\ f1 \in {"empty", "pending"} /\ (f1 = "empty" => ~c)
      BY <1>1, <2>2 DEF FlushSucceeds, Responding
    <3>2. CASE f1 = "empty"
      BY <2>1, <3>1, <3>2 DEF Abstract!Flush, Abstract!Next, Responding, Filled
    <3>3. CASE f1 = "pending"
      BY <2>1, <3>1, <3>3
    <3> QED BY <3>1, <3>2, <3>3
  <2> QED BY <1>4, <2>1, <2>2 DEF Abstract!Next
<1>12. CASE Broken
  <2>1. ~r /\ Dropped
    BY <1>12 DEF Broken, Responding
  <2>2. CASE f = "pending"
    BY <1>4, <2>1, <2>2 DEF Abstract!Next
  <2>3. CASE f = "empty"
    <3>1. state = "NOTARGET" /\ state' = "NOTARGET"
      BY <2>1 DEF Dropped, Responding
    <3>2. c = FALSE /\ c1 = FALSE
      BY <1>1, <1>2, <2>1, <2>3 DEF Dropped
    <3>3. Responding' = Responding
      BY <3>1 DEF Responding
    <3>4. Filled' = Filled
      BY <1>3, <2>1, <2>3
    <3> QED BY <3>2, <3>3, <3>4
  <2> QED BY <1>1, <1>2, <2>1, <2>2, <2>3
<1>13. CASE Undefined
  BY <1>13 DEF Undefined, vars, Responding, Filled
<1> QED BY <1>6, <1>7, <1>8, <1>9, <1>10, <1>11, <1>12, <1>13 DEF Next

\* The output of a client, as its bytes are built and flushed, does what Outbox
\* promises to the server: a response is begun and ended once, ends with bytes in
\* the buffer, and a connection is not closed before they are gone.
THEOREM OutputImplementsOutbox == Spec => ImplementsOutbox
<1>1. Init => Abstract!Init
  BY DEF Init, EmptyBuffer, Abstract!Init
<1>2. OInv /\ [Next]_vars => [Abstract!Next]_<<Responding, Filled, close_when_flushed>>
  <2>1. UNCHANGED vars => UNCHANGED <<Responding, Filled, close_when_flushed>>
    BY DEF vars, Responding, Filled
  <2> QED BY <2>1, StepsAreAbstract
<1>3. OInv /\ [Next]_vars => [Abstract!Next]_(Abstract!vars)
  BY <1>2 DEF Abstract!vars, Responding, Filled
<1> QED BY <1>1, <1>3, ResponsesTakeShape, PTL DEF Spec, ImplementsOutbox, Abstract!Spec
=============================================================================
