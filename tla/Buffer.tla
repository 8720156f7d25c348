------------------------------- MODULE Buffer -------------------------------
(***************************************************************************)
(* Operators on the byte buffer of src/buffer.hpp: a record of the bytes in *)
(* use, the size of the allocated array, whether an operation failed, and   *)
(* whether one wrote past the end of the array, which the code never        *)
(* notices: what the program does from then on is undefined.                *)
(* Operators that may allocate take "memory", the size up to which an       *)
(* allocation succeeds.                                                     *)
(***************************************************************************)
EXTENDS Integers, Sequences

CONSTANTS
    INITIAL_SIZE,   \* of the first array (256)
    MIN_READ,       \* unused bytes wanted before the socket is used (256)
    MAX_INT         \* the largest int

EmptyBuffer == [data |-> <<>>, size |-> 0, fail |-> FALSE, overrun |-> FALSE]

Failed(b) == [b EXCEPT !.fail = TRUE]

\* Mutant of ensure_unused_space: only a full array is replaced.
grow_when_full(b, min, memory) ==
    IF Len(b.data) < b.size THEN b
    ELSE LET new_size == IF b.size > 0 THEN 2 * b.size ELSE INITIAL_SIZE
         IN  IF new_size > memory THEN Failed(b) ELSE [b EXCEPT !.size = new_size]

\* The array is doubled once when it has fewer than min unused bytes, and may
\* have fewer of them even then.
ensure_unused_space(b, min, memory) ==
    IF Len(b.data) + min <= b.size THEN b
    ELSE LET new_size == IF b.size > 0 THEN 2 * b.size ELSE INITIAL_SIZE
         IN  IF new_size > memory THEN Failed(b) ELSE [b EXCEPT !.size = new_size]

write(b, str, memory) ==
    IF b.fail THEN b
    ELSE IF Len(b.data) > MAX_INT - Len(str) THEN Failed(b)
    ELSE LET grown == ensure_unused_space(b, Len(str), memory)
             data  == b.data \o str
         IN  IF grown.fail THEN grown
             ELSE [grown EXCEPT !.data = data, !.overrun = @ \/ Len(data) > grown.size]

\* Mutant of overwrite: one byte too far.
overwrite_behind(b, off, str) ==
    IF b.fail THEN b
    ELSE IF off < 0 \/ off + Len(str) > Len(b.data) THEN Failed(b)
    ELSE [b EXCEPT !.data = [i \in 1 .. Len(b.data) |->
             IF i - off - 1 \in 1 .. Len(str) THEN str[i - off - 1] ELSE b.data[i]]]

\* overwrite(): the slice must lie inside of the bytes in use.
overwrite(b, off, str) ==
    IF b.fail THEN b
    ELSE IF off < 0 \/ off + Len(str) > Len(b.data) THEN Failed(b)
    ELSE [b EXCEPT !.data = [i \in 1 .. Len(b.data) |->
             IF i - off \in 1 .. Len(str) THEN str[i - off] ELSE b.data[i]]]

\* Mutant of unread: the count of bytes in use is not decreased.
all_kept(b, copied) == b

\* The end of read(sock), behind the loop that gave the socket the first
\* "copied" bytes: memmove(data + copied, data, used - copied).
unread(b, copied) ==
    [b EXCEPT !.data = [i \in 1 .. Len(b.data) - copied |->
                           IF i <= copied THEN b.data[i] ELSE b.data[i - copied]]]

\* seek(), without the cache that Request has: the first place of needle.  The
\* loop ends at lim when there is none, and only a negative lim is a miss.
seek(data, needle) ==
    LET lim  == Len(data) - Len(needle) + 1
        hits == {i \in 0 .. lim - 1 : SubSeq(data, i + 1, i + Len(needle)) = needle}
    IN  IF hits # {} THEN CHOOSE i \in hits : \A j \in hits : i <= j
        ELSE IF lim < 0 THEN -1 ELSE lim

\* slice_until(token, true) of a buffer with the bytes "behind" in its array
\* behind the ones in use, which a false hit makes a part of the slice.
slice_until(data, behind, token) ==
    LET end == seek(data, token)
    IN  IF end < 0 THEN <<>> ELSE SubSeq(data \o behind, 1, end + Len(token))
=============================================================================
