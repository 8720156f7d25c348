------------------------------- MODULE Output -------------------------------
(***************************************************************************)
(* The bytes of the responses to one client: status(), header(), write()    *)
(* and send() of src/server.hpp build them in the output buffer of the      *)
(* client, and the flushes in wait() give them to its socket, which may     *)
(* take only a part.  Every literal the code writes counts as one byte.     *)
(* A string a caller passes may be longer than the room that one growth of  *)
(* the buffer makes: it is then written past the end of the array, and what *)
(* the program does after that is undefined, so that no step of it is       *)
(* modelled any more.                                                       *)
(*                                                                         *)
(* answer, earlier, expected, sent and splits are history: no action depends *)
(* on them, but for the bounds of an instance.                              *)
(***************************************************************************)
EXTENDS Buffer

CONSTANTS
    WIDTH,          \* blanks left for the value of Content-Length (9)
    BASE,           \* of the digits of that value (10)
    Char,           \* the characters a caller may pass
    Strings,        \* what a caller may pass as a header value or a part of a body
    Memory,         \* sizes up to which an allocation may succeed
    MaxHeaderBytes, MaxBody, MaxResponses, MaxSplits    \* bounds of an instance

ASSUME OutputAssumption ==
    /\ INITIAL_SIZE \in Nat \ {0}
    /\ MIN_READ \in 0 .. INITIAL_SIZE
    /\ MAX_INT \in Nat
    /\ WIDTH \in 1 .. INITIAL_SIZE - 1
    /\ BASE \in 2 .. 10
    /\ Memory \subseteq Nat
    /\ MaxHeaderBytes \in Nat /\ MaxBody \in Nat /\ MaxResponses \in Nat
    /\ MaxSplits \in Nat

\* They may be of any length.
ASSUME StringsAssumption == \A str \in Strings : str \in Seq(Char)

Digit == <<"0", "1", "2", "3", "4", "5", "6", "7", "8", "9">>

\* What the code writes of itself, and all a buffer may hold.
Literal == {"S", "name", ":", "Keep-Alive", "Close", "Content-Length:", " ", "CRLF"}
Byte    == Char \cup Literal \cup {Digit[i] : i \in 1 .. 10}

VARIABLES
    state,                  \* of the response API; the target is always this client
    keep_alive,
    out,                    \* the client's output buffer
    offset_content_length,
    offset_content,
    num_served,
    close_when_flushed,
    answer,                 \* what the caller asked to be sent
    earlier,                \* the contents of "out" when wait() returned
    expected,               \* the responses that were sent, one after the other
    sent,                   \* what the socket has taken
    splits                  \* how often it took only a part of the contents of "out"

vars == <<state, keep_alive, out, offset_content_length, offset_content,
          num_served, close_when_flushed, answer, earlier, expected, sent, splits>>

offsets == <<offset_content_length, offset_content>>
history == <<answer, earlier, expected, sent, splits>>

\* A response as it is asked for: header lines, what "Connection" says, body.
NoAnswer == [headers |-> <<>>, connection |-> "", body |-> <<>>]

Init ==
    /\ state = "NOTARGET" /\ keep_alive = -1
    /\ out = EmptyBuffer
    /\ offset_content_length = 0 /\ offset_content = 0
    /\ num_served = 0 /\ close_when_flushed = FALSE
    /\ answer = NoAnswer /\ earlier = <<>> /\ expected = <<>> /\ sent = <<>>
    /\ splits = 0

-----------------------------------------------------------------------------
\* snprintf("%d").
Decimal[n \in Nat] ==
    IF n < BASE THEN <<Digit[n + 1]>>
    ELSE Decimal[n \div BASE] \o <<Digit[(n % BASE) + 1]>>

\* The assertion of server.hpp:597: the value fits into the blanks left for it.
ASSUME BodiesFit ==
    \A n \in 0 .. MaxBody : Decimal[n] \in Seq(Byte) /\ Len(Decimal[n]) \in 1 .. WIDTH

Blanks == [i \in 1 .. WIDTH |-> " "]

StatusLine == <<"S">>

\* The pieces of one call, written one by one.
write_header(b, value, memory) ==
    write(write(write(write(b, <<"name">>, memory), <<":">>, memory), value, memory),
          <<"CRLF">>, memory)

with_status(b, memory) == IF state = "STATUS" THEN write(b, StatusLine, memory) ELSE b

ConnectionLine(keep) == IF keep = 1 THEN <<"Keep-Alive">> ELSE <<"Close">>

\* Mutant of SpecialHeaders: the offset is taken before the header's name.
SpecialHeadersBeforeName(b, keep, memory) ==
    LET connected == write(b, ConnectionLine(keep), memory)
        named == write(connected, <<"Content-Length:">>, memory)
        valued == write(named, Append(Blanks, "CRLF"), memory)
        ended == write(valued, <<"CRLF">>, memory)
    IN  [out |-> ended, content_length |-> Len(connected.data), content |-> Len(ended.data)]

\* The two special headers and the empty line, and the offsets they set.
SpecialHeaders(b, keep, memory) ==
    LET named == write(write(b, ConnectionLine(keep), memory), <<"Content-Length:">>, memory)
        valued == write(named, Append(Blanks, "CRLF"), memory)
        ended == write(valued, <<"CRLF">>, memory)
    IN  [out |-> ended, content_length |-> Len(named.data), content |-> Len(ended.data)]

\* What write(str) leaves, with "keep" as its choice of keep_alive.
Written(str, keep, memory) ==
    IF state = "CONTENT"
    THEN [out |-> write(out, str, memory), keep_alive |-> keep_alive,
          content_length |-> offset_content_length, content |-> offset_content]
    ELSE LET h == SpecialHeaders(with_status(out, memory), keep, memory)
         IN  [out |-> write(h.out, str, memory), keep_alive |-> keep,
              content_length |-> h.content_length, content |-> h.content]

\* Mutant of KeepChoices: what the caller has not decided stays undecided.
KeepUndecided ==
    IF state = "CONTENT" THEN {keep_alive}
    ELSE IF keep_alive = 0 THEN {0} ELSE {0, keep_alive}

\* keep_alive as write() sets it: a wish to close is granted, any other only
\* when the load allows it, which Server decides.
KeepChoices ==
    IF state = "CONTENT" THEN {keep_alive} ELSE IF keep_alive = 0 THEN {0} ELSE {0, 1}

\* The bytes of a response, from what was asked for alone.
Encoding(a) ==
    StatusLine \o a.headers \o <<a.connection, "Content-Length:">>
        \o [i \in 1 .. WIDTH |->
               LET digits == Decimal[Len(a.body)]
               IN  IF i <= Len(digits) THEN digits[i] ELSE " "]
        \o <<"CRLF", "CRLF">> \o a.body

-----------------------------------------------------------------------------
\* wait() returned a request of this client.
Serve ==
    /\ state = "NOTARGET" /\ ~close_when_flushed
    /\ num_served < MaxResponses
    /\ state' = "STATUS" /\ keep_alive' = -1
    /\ answer' = NoAnswer /\ earlier' = out.data
    /\ UNCHANGED <<out, offsets, num_served, close_when_flushed, expected, sent, splits>>

Status ==
    /\ state = "STATUS"
    /\ state' = "HEADERS"
    /\ \E memory \in Memory : out' = with_status(out, memory)
    /\ UNCHANGED <<keep_alive, offsets, num_served, close_when_flushed, history>>

\* header(): a status line comes first if there is none.  "Content-Length" is
\* ignored, which leaves what status() does; "Connection" is remembered, any other name is written.
HeaderConnection ==
    /\ state \in {"STATUS", "HEADERS"}
    /\ state' = "HEADERS"
    /\ \E memory \in Memory : out' = with_status(out, memory)
    /\ keep_alive' \in {0, 1}
    /\ UNCHANGED <<offsets, num_served, close_when_flushed, history>>

Header(value) ==
    /\ state \in {"STATUS", "HEADERS"}
    /\ Len(answer.headers) < MaxHeaderBytes
    /\ state' = "HEADERS"
    /\ \E memory \in Memory :
          out' = write_header(with_status(out, memory), value, memory)
    /\ answer' = [answer EXCEPT !.headers = @ \o <<"name", ":">> \o value \o <<"CRLF">>]
    /\ UNCHANGED <<keep_alive, offsets, num_served, close_when_flushed,
                   earlier, expected, sent, splits>>

Answered(str, keep) ==
    [answer EXCEPT !.connection = IF state = "CONTENT" THEN @ ELSE ConnectionLine(keep)[1],
                   !.body = @ \o str]

Write(str) ==
    /\ state # "NOTARGET"
    /\ Len(answer.body) + Len(str) <= MaxBody
    /\ state' = "CONTENT"
    /\ \E memory \in Memory, keep \in KeepChoices :
          LET w == Written(str, keep, memory)
          IN  /\ out' = w.out
              /\ keep_alive' = w.keep_alive
              /\ offset_content_length' = w.content_length
              /\ offset_content' = w.content
              /\ answer' = Answered(str, keep)
    /\ UNCHANGED <<num_served, close_when_flushed, earlier, expected, sent, splits>>

\* Mutant of Dropped: the next client of the slot is to be closed as well.
DroppedClosing ==
    /\ state' = "NOTARGET" /\ keep_alive' = -1
    /\ out' = EmptyBuffer
    /\ offset_content_length' = 0 /\ offset_content' = 0
    /\ num_served' = 0 /\ UNCHANGED close_when_flushed
    /\ answer' = NoAnswer /\ earlier' = <<>> /\ expected' = <<>> /\ sent' = <<>>
    /\ splits' = 0

\* remove_client(): the slot is free for another connection.
Dropped ==
    /\ state' = "NOTARGET" /\ keep_alive' = -1
    /\ out' = EmptyBuffer
    /\ offset_content_length' = 0 /\ offset_content' = 0
    /\ num_served' = 0 /\ close_when_flushed' = FALSE
    /\ answer' = NoAnswer /\ earlier' = <<>> /\ expected' = <<>> /\ sent' = <<>>
    /\ splits' = 0

\* send(): write(""), then the value of Content-Length is put in its place.
Send ==
    /\ state # "NOTARGET"
    /\ \E memory \in Memory, keep \in KeepChoices :
          LET w == Written(<<>>, keep, memory)
              content_length == Len(w.out.data) - w.content
          IN  IF w.out.fail THEN Dropped
              ELSE /\ state' = "NOTARGET" /\ keep_alive' = -1
                   /\ out' = overwrite(w.out, w.content_length, Decimal[content_length])
                   /\ offset_content_length' = w.content_length
                   /\ offset_content' = w.content
                   /\ num_served' = num_served + 1
                   /\ close_when_flushed' = (close_when_flushed \/ w.keep_alive = 0)
                   /\ answer' = Answered(<<>>, keep)
                   /\ expected' = expected \o Encoding(Answered(<<>>, keep))
                   /\ UNCHANGED <<earlier, sent, splits>>

\* flush_buffered_bytes_to_client_and_close_if_done(): the socket is ready and
\* takes some or all of the bytes, or none after all.  Room for a read is made
\* here too, and may not be had.
Flush ==
    /\ state = "NOTARGET" /\ out.data # <<>>
    /\ \E memory \in Memory, copied \in 0 .. Len(out.data) :
          /\ splits < MaxSplits \/ copied \in {0, Len(out.data)}
          /\ LET roomy == ensure_unused_space(out, MIN_READ, memory)
                 rest  == unread(roomy, copied)
             IN  IF roomy.fail \/ (rest.data = <<>> /\ close_when_flushed) THEN Dropped
                 ELSE /\ out' = rest
                      /\ sent' = sent \o SubSeq(out.data, 1, copied)
                      /\ splits' = IF copied \in 1 .. Len(out.data) - 1 THEN splits + 1 ELSE splits
                      /\ UNCHANGED <<state, keep_alive, offsets, num_served,
                                     close_when_flushed, answer, earlier, expected>>

\* The flush, or a read in between, finds the connection closed or broken.
Broken == state = "NOTARGET" /\ Dropped

\* Behind a write past the end of the array the program may do anything.
Undefined == out.overrun /\ UNCHANGED vars

Next ==
    \/ Undefined
    \/ /\ ~out.overrun
       /\ \/ Serve \/ Status \/ HeaderConnection \/ Send \/ Flush \/ Broken
          \/ \E str \in Strings : Header(str) \/ Write(str)

Spec == Init /\ [][Next]_vars

-----------------------------------------------------------------------------
TypeOK ==
    /\ state \in {"NOTARGET", "STATUS", "HEADERS", "CONTENT"}
    /\ keep_alive \in IF state = "CONTENT" THEN {0, 1} ELSE {-1, 0, 1}
    /\ out \in [data: Seq(Byte), size: Nat, fail: BOOLEAN, overrun: BOOLEAN]
    /\ offset_content_length \in Nat /\ offset_content \in Nat
    /\ num_served \in Nat
    /\ close_when_flushed \in BOOLEAN
    /\ answer \in [headers: Seq(Byte), connection: Byte \cup {""}, body: Seq(Byte)]
    /\ earlier \in Seq(Byte) /\ expected \in Seq(Byte) /\ sent \in Seq(Byte)
    /\ splits \in Nat

\* However many responses gather in the buffer, and wherever a growth fails, a
\* write past the end of the array is one of a string a caller passed that is
\* longer than the first array: nothing the server writes of itself, and no
\* shorter string, needs more room than one growth makes.
OverrunNeedsLongString ==
    [][out'.overrun => \/ out.overrun
                       \/ \E str \in Strings : /\ Len(str) > INITIAL_SIZE
                                               /\ Header(str) \/ Write(str)]_vars

\* While the body of a response is written, behind whatever earlier responses
\* are still in the buffer, the offset of Content-Length is that of the blanks
\* left for its value, and the offset of the content that of the body.
OffsetsMatch ==
    state = "CONTENT" /\ ~out.fail =>
        /\ SubSeq(out.data, offset_content_length + 1, offset_content_length + WIDTH) = Blanks
        /\ SubSeq(out.data, offset_content + 1, Len(out.data)) = answer.body

\* send() leaves what was in the buffer before the response, followed by the
\* response as it was asked for with the length of its body in it: the value
\* fits into the blanks, and nothing else is overwritten.
SendAppendsResponse ==
    [][num_served' > num_served => out'.data = earlier \o Encoding(answer')]_vars

\* Until the socket takes a part of the buffer's contents, what it has taken and
\* what is in the buffer are together the responses in their order.
InOrderUntilSplit ==
    state = "NOTARGET" /\ splits = 0 => sent \o out.data = expected

\* No byte is lost or sent twice in number, partial flushes or not: a peer gets
\* as many bytes as it was sent.
BytesAddUp == state = "NOTARGET" => Len(sent) + Len(out.data) = Len(expected)

\* What Server knows of a client's output is what happens here.
Abstract == INSTANCE Outbox WITH
    responding <- state # "NOTARGET",
    out <- IF out.fail THEN "failed" ELSE IF out.data = <<>> THEN "empty" ELSE "pending",
    closing <- close_when_flushed

ImplementsOutbox == Abstract!Spec

-----------------------------------------------------------------------------
\* buffer.hpp:21 and 26: ensure_unused_space(min) allocates a new array where
\* "allocation of a new buffer is necessary" for min more bytes, so that what
\* write() copies behind the bytes in use is inside of the array.
NoOverrun == ~out.overrun

\* buffer.hpp:185: read(sock) "moves byte from the buffer to the socket": the
\* bytes the socket did not take are the ones that are left.
SentInOrder == state = "NOTARGET" => sent \o out.data = expected
=============================================================================
