------------------------------- MODULE Request -------------------------------
(***************************************************************************)
(* Requests as the server sees them: the bytes of a connection, the search *)
(* for the end of a head (Buffer::seek in src/buffer.hpp), the outcome of  *)
(* parsing a head and the value of Content-Length (src/parse.cpp).         *)
(*                                                                         *)
(* A byte stream is a sequence of units.  A request is a head and the body *)
(* units behind it.  The units of a head are "start" (its first two bytes), *)
(* "rest" (everything up to the last byte of the head, or to a few bytes   *)
(* before it) and "end" (what is left, which completes the CRLF CRLF);     *)
(* HeadParts may leave the first ones out.  A unit of a body is one byte.  *)
(* A unit carries the request it belongs to: ok says whether the head is   *)
(* well formed, cl is the value of its Content-Length header, NoLength     *)
(* when it has none and TooLong when the number overflows an int.          *)
(***************************************************************************)
EXTENDS Integers, Sequences

CONSTANTS
    HeadParts,              \* the units a head is cut into
    Slot,                   \* the client structures of the pool
    MAX_REQUEST_HEADERS,
    JunkLengths             \* what Content-Length may read as in freed memory

NoLength == -2
TooLong  == -1

RequestHead == [ok: BOOLEAN, cl: Int]
Unit == [part: {"start", "rest", "end", "body"}, req: RequestHead]

\* A header as Request keeps it: slices into the input buffer of "own"; once
\* that buffer has been freed they dangle and live is FALSE.  Only headers
\* named Content-Length are represented.
HeaderEntry == [own: Slot, cl: Int, live: BOOLEAN]

HEAD_LEN == Len(HeadParts)

-----------------------------------------------------------------------------
Terminators(in) == {i \in 1 .. Len(in) : in[i].part = "end"}

\* What a unit counts for in a search for four bytes.
Bytes(unit) == CASE unit.part = "body" -> 1 [] unit.part = "start" -> 2 [] OTHER -> 3

\* Fewer bytes than the token is long, less one: the search never starts.
TooShort(in) ==
    \/ Len(in) = 0
    \/ Len(in) = 1 /\ Bytes(in[1]) < 3
    \/ Len(in) = 2 /\ Bytes(in[1]) + Bytes(in[2]) < 3

\* seek("\r\n\r\n"): the unit the search stops at, taken from the cache "crlf"
\* when the last search left one there (no read from the socket clears it).
\* Without a terminator the loop runs to "lim", and lim itself counts as a hit
\* (i > lim is never true once lim >= 0): up to there is all of the data.
seek(in, crlf) ==
    IF crlf > -1 THEN crlf
    ELSE IF Terminators(in) # {}
    THEN CHOOSE i \in Terminators(in) : \A j \in Terminators(in) : i <= j
    ELSE IF TooShort(in) THEN -1 ELSE Len(in)

\* Mutant of contains: "== 0" for ">= 0".
starts_with(in, crlf) == seek(in, crlf) = 0

contains(in, crlf) == seek(in, crlf) >= 0

slice_until(in, crlf) == SubSeq(in, 1, seek(in, crlf))

\* slice(off, end) gives an empty slice when the end of the slice is the end
\* of the data.
slice(in, off, end) ==
    IF end < off \/ off < 0 \/ end >= Len(in) THEN <<>> ELSE SubSeq(in, off + 1, end)

-----------------------------------------------------------------------------
BeginsHead(h, n) == h # <<>> /\ Len(h) >= n /\ \A i \in 1 .. n : h[i].part = HeadParts[i]

WellFormedHead(h) == Len(h) = HEAD_LEN /\ BeginsHead(h, HEAD_LEN) /\ h[1].req.ok

\* A head cut short: the slice made from it is one byte longer than the data the
\* search saw, and may be the whole head if only its last byte was missing and
\* that byte has arrived since, or lies there by chance.
LacksLastByte(h) ==
    Len(h) = HEAD_LEN - 1 /\ BeginsHead(h, HEAD_LEN - 1) /\ h[1].req.ok

\* The results Request::parse may give for a head slice.
ParseResults(h) ==
    (IF WellFormedHead(h) \/ LacksLastByte(h) THEN {TRUE} ELSE {})
        \cup (IF WellFormedHead(h) THEN {} ELSE {FALSE})

\* A parse appends to the headers the structure already holds.
Parsed(headers, h, slot) ==
    IF h[1].req.cl = NoLength \/ Len(headers) >= MAX_REQUEST_HEADERS
    THEN headers
    ELSE Append(headers, [own |-> slot, cl |-> h[1].req.cl, live |-> TRUE])

\* A parse that fails may have stored the headers in front of the error.
ParsedInVain(headers, h, slot) ==
    {headers} \cup (IF BeginsHead(h, HEAD_LEN - 1) THEN {Parsed(headers, h, slot)} ELSE {})

\* The buffer of "slot" was freed: what points into it dangles.
Dangling(headers, slot) ==
    [i \in 1 .. Len(headers) |->
        IF headers[i].own = slot THEN [headers[i] EXCEPT !.live = FALSE] ELSE headers[i]]

\* Request::content_length(): the first Content-Length header decides, and a
\* dangling header in front of it may read as one or not.
ContentLengths(headers) ==
    LET live  == {i \in 1 .. Len(headers) : headers[i].live}
        first == IF live = {} THEN Len(headers) + 1
                 ELSE CHOOSE i \in live : \A j \in live : i <= j
    IN  {IF live = {} THEN 0 ELSE headers[first].cl}
            \cup (IF first > 1 THEN JunkLengths ELSE {})
=============================================================================
