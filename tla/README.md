# A verification project for cpphttp

cpphttp is a single-threaded HTTP/1 server in header-only C++ (`src/src/server.hpp`
and what it includes). One thread owns everything; what makes it hard is that
the state of a connection is spread over five structures (pool, event loop,
candidate queue, two buffers) which every handler must keep in step, while
peers send, stop sending, reset and connect between any two steps of the
thread, and slots and descriptors are reused at once.

All paths below are relative to the repository (`src/` here is the repository's
own `src` directory).

## 1. Inventory

| Component | State | Operations | Met by |
|---|---|---|---|
| **Server** `src/server.hpp` | `state`, `target`, `keep_alive`, `req_bytes`, offsets into the output; per client: socket, two buffers, `num_served`, `queued`, `close_when_flushed` | `listen`, `wait`, `status`, `header`, `write`, `send`; handlers `handle_single_event`, `accept_incoming_connections`, `handle_client_data_and_queue_if_candidate`, `flush_buffered_bytes_to_client_and_close_if_done`, `remove_client` | the caller; calls everything below |
| **EventLoop** `src/socket.hpp` | array of `pollfd`, parallel array of pointers, `count`, `cursor` | `add`, `add_events`, `remove_events`, `remove`, `wait` | the server; calls `poll` |
| **Candidate queue** `src/queue.hpp` | ring buffer: `head`, `used`, `items` | `push`, `pop`, `remove` | the server |
| **Client pool** `src/pool.hpp` | slots, bit sets, `num_allocated` | `allocate`, `deallocate`, `allocated` | the server |
| **Buffer** `src/buffer.hpp` | `data`, `size`, `used`, `fail`, cache `crlfcrlf` | `write`, `read` (memory and socket), `overwrite`, `seek`, `consume`, slices | the server |
| **Parser** `src/parse.cpp` | none (a `Request` accumulates headers) | `Request::parse`, `content_length`, URL, IPv4, IPv6 | `wait` |
| **Socket** `src/socket.hpp` | a descriptor | `start_server`, `accept`, `read`, `write`, close | the server, buffers |
| Slice `src/slice.hpp`, netutils | none | a pointer with an offset and a length | the parser, as operators |
| print, `SocketSubsystem` | none | helpers | not modelled |

How they interact: `wait` pops a *candidate* (a client whose input seems to hold
a whole head) or, if there is none, takes one event from the event loop and
handles it. A request that is complete becomes the *target* and is returned; the
caller builds the response in the target's output buffer; `send` registers the
socket for output, drops the request from the input buffer and makes the client a
candidate again if another head is behind it. Events carry raw `Client*`.

Hard behaviour and what must be right there:

- *Reuse under way.* A client is removed while events reported by the same
  `poll` are still to be delivered, and its slot and descriptor may be taken by a
  new connection before they are. Events must never reach the wrong client.
- *Redundant state.* `queued` repeats the queue; `events` repeats whether there
  is output; `count` repeats the pool.
- *Lost wake-ups.* Nothing but `queue` remembers a request that is in a buffer
  already; nothing but POLLOUT remembers output.
- *Closing.* `Connection: Close` must be final whatever is reported, pipelined or
  half-flushed.
- *Partial failure.* Every allocation, read, write and accept may fail.
- *Starvation.* One event per call, one candidate per call, a full pool that
  keeps `poll` from blocking.
- *Requests in pieces.* The end of a head is searched over and over with a
  cache, and several candidates are parsed into one `Request`.
- *Offsets held over calls.* The place of Content-Length is measured when the body
  of a response begins and used when it ends, in a buffer that grows, may hold
  earlier responses and may have failed in between.
- *Counts that guard walks.* The pool looks for a free slot as long as its count
  says there is one; nothing else ends that walk over the words.
- *Limits and cursors.* Numbers stop at their largest value, and a parser that
  gives up must leave the cursor where the next one expects it.

`PROJECT.json` lists each of these at its line, under `hazards`.

## 2. Modules

| Module | Models | How |
|---|---|---|
| `EventLoop` | `EventLoop<N>` | One record `[count, cursor, bufs]`; each method an operator from the loop before to the loop after, so that a handler composes them as the code does |
| `Fifo` | the queue as its callers see it | `push`, `pop` and `remove` as operators on a sequence: `Shifted` is what `remove` does: what is behind the item moves up, and a NULL takes the last place |
| `BoundedFifo` | abstract specification | a bounded FIFO queue |
| `Queue` | `Queue<T, N>` | the ring buffer; refines `BoundedFifo` but for `remove` |
| `Request` | `Buffer::seek` and slices, outcome of `Request::parse`, `content_length` | bytes are units `start`, `rest`, `end`, `body`; see below |
| `Server` | `Server<N>`, its callers, the kernel, the peers | one action per call and per handler outcome |
| `Outbox` | abstract specification | what `Server` knows of a client's output: empty, pending or failed, being built or not, the last or not |
| `Buffer` | `Buffer` byte by byte | growth, failure, `write`, `overwrite`, the end of `read(sock)`, `seek`, `slice_until`, as operators |
| `Output` | the bytes of the responses to one client | `status`, `header`, `write`, `send` and the flush over `Buffer`; refines `Outbox` |
| `SlotSet` | abstract specification | a set of slots, the lowest free one first |
| `Pool` | `Pool<T, N>` | the packed words, the search for a bit, the count; refines `SlotSet` |
| `Parse` | `src/parse.cpp` | one operator per function, from a text and an offset to the offset after and what was read |
| `MCServer`, `MCQueue`, `MCOutput`, `MCPool`, `MCParse` | instances for TLC | what peers send, what callers write, the texts to be parsed |
| `ServerProofs`, `WakeupProofs`, `ServingProofs` | theorems about `Server`, each module building on the one before | TLAPS |
| `OutputProofs`, `PoolProofs`, `QueueProofs`, `ParseProofs` | theorems about the module they are named for | TLAPS |
| `MeaningProofs` | theorems about `Parse`, on top of `ParseProofs`: what is read is what was written | TLAPS |

How they fit together: `Server` is the system, and uses `EventLoop`, `Fifo` and
`Request` directly. Three of the things it takes as simple have a detailed module
of their own. `Queue` implements `BoundedFifo`, and so does the queue of `Server`.
`Pool` implements `SlotSet`, whose `Allocate` is `FreeSlot` of `Server`. `Output`
implements `Outbox`, whose steps are what `Server` does to `client[c].out` and
`close_when_flushed`. `Parse` with `Buffer!seek` shows what `Request` assumes of
heads: a part of a head parses only when just the last byte was missing
(`OnlyWholeHeads` is `Request!LacksLastByte`), and Content-Length is the number,
-1 or 0 (`ContentLengthExact`).

### State and actions of `Server`

`pc` is where the thread is: `init` before `listen`, `user` in the caller's
code, `waiting` in the loop of `wait`, `accepting` in the loop of
`accept_incoming_connections`. `pool` is the set of allocated slots, `client`
their contents (`in` the input buffer, `crlf` its cache `crlfcrlf`, `out` whether
output is empty, pending or failed), `queue`, `loop`, and the response variables
carry the names of the code. `backlog` and `conn` are the kernel's side:
completed connections, and for each descriptor what has been received, what the
peer has still to send, whether the send buffer has room, and whether the peer
has finished or reset.

A step is a whole handler, because no other thread can see its middle; only
what the kernel decides happens between steps. The exception is the accept loop,
one step per connection, since peers do connect while it runs. `Pop` has an action
for each way through the body of `wait`'s loop (head does not parse, malformed
length, complete, incomplete); `Event(c)` has one for each way through the RECV,
SEND and FAILURE handlers. `remove_client` is an operator that every one of them
uses, in the code's order: event loop, queue, pool, and with the pool the
destructor that closes the socket and frees the buffers.

The caller is any program that calls `status`, `header`, `write`, `send` and
`wait` in any order. Calls that the state does not admit return at once in the
code and are no step. Like `main.cpp` it passes a fresh `Request` to each `wait`;
within one `wait` the code parses several candidates into it, and the model keeps
what they leave (`request.headers`).

### Requests

A head is cut into at most three units: `start` (its first two bytes, too few for
the search to begin), `rest` (up to a few bytes before the end of the head) and
`end` (what completes CRLF CRLF); a unit of a body is a byte. That is what the code
tells apart: a buffer of less than three bytes (`TooShort`, which adds up the `Bytes` of
its units), one without a terminator, one with a terminator. In the second case `seek` hits the end of its range and caches it, and the slice made of
the hit is one byte longer than the data searched; `ParseResults` allows both
results for a head that lacks exactly that byte. A head carries whether it is
well formed and its Content-Length (`NoLength` without one, `TooLong` for a number
that overflows an `int`). Headers kept in a `Request` whose buffer was freed are
marked `live = FALSE`, and what they read as is any value of `JunkLengths` or no
Content-Length at all.

### The output of a client

`Output` follows one slot: `out` is its output buffer, `offset_content_length` and
`offset_content` the two members of `Server` with these names. A literal of the
code ("Content-Length: ", CRLF, a status line) is one byte, and so is a character of
what the caller passes (`Literal` and `Char`; with the digits they are `Byte`); the nine blanks for the value are `WIDTH` bytes, its digits
have base `BASE`. Every piece the code writes is a `write` of its own, each of which
may find memory short (`Memory` is how much there is in a call). What callers pass
(`Strings`) may be of any length: a `write` that ends behind the array sets `overrun`,
and from there on the behaviour is undefined, of which the model says no more
(`Undefined`). The model keeps the history the
properties need: what the caller asked for (`answer`), the buffer when the response
began (`earlier`), all the responses (`expected`) and what the socket has taken
(`sent`); no action reads it but for the bounds. `Dropped` is `remove_client`: the
slot begins anew with another connection.

### The pool

A word is the set of its bits. Shifting right and comparing with zero is all the
search does to a word once only its lowest bit is left, so that 64 is eight times
the width of the table, `8 * TableBits`. Callers may pass any address to
`deallocate`.

### Texts

A text is a sequence of characters, most of them strings of one letter. `Then` is
the `if (!parse_x(...)) return false;` between two parsers. `Parse`
gives each function of `parse.cpp` its result and the cursor after it, `res` being
true, false, or the failure of an assertion, after which nothing follows. The
arguments are put together from what they are to say: an address from its numbers, a
head from method, URL, version and headers, to which `Joined` and `HeadText` are
what a correct client does. `Data` cuts a head off anywhere or puts another one
behind it, and the text that is parsed is what `slice_until` makes of that, with one
more byte when the end was not there.

Four assumptions say what the arguments are. The limits are those of types that hold a
digit (`LimitsAssumption`), no letter is one of the other characters
(`LettersAssumption`), and every head ends with an empty line, the only one in it
(`TextsAssumption`). `MeaningAssumption` says that an argument is of the form its parts
promise: a number is any digits and what they denote; the groups of an address are any
numbers, and what is behind them, letters included, continues none of them by a digit; a URL is made of the characters
its parts may have, its path begins with a slash behind an authority and without one
neither like an authority nor like a scheme; the host is a name, four numbers of which
the last may be too large, or something in brackets; a header line is any name and
value, and the value of a Content-Length is its digits behind spaces, -1 beyond an
`int`. Nothing bounds how long or how many they are. TLC evaluates all four for the
texts of `MCParse`.

## 3. What the runs check

| Run | Bounds | Shows |
|---|---|---|
| `server_pipelining` | 3 slots, 2 descriptors, keep-alive limit 1, backlog 1, three pipelined requests per connection | `QueueConsistent`, `LoopMatchesPool`, `NothingSkipped`, `ClosingIsFinal`, `ServedWithinLimit`, `NoRequestForgotten`; `CandidatesAreFifo`: the queue of the server implements `BoundedFifo`, so that `remove`'s defect is never met |
| `server_faults` | 2 slots, 2 descriptors, every failure allowed, heads in two pieces, requests with a body or malformed | `TypeOK`, `RequestFits`; `ClosingIsFinal` and the bookkeeping under failures; `OutputHasWakeup`, `InputHasWakeup` |
| `server_live` | 2 slots, 2 descriptors, fairness, one request per connection, the pool full or not | `ClientsMoveOn`; `InputIsRead`: no socket is starved, one event per call notwithstanding |
| `queue` | a ring of 4 slots, 2 items | `TypeOK`, `NothingLeftBehind`, `FifoButForRemove` |
| `pool` | 17 slots, words of 16 bits, addresses in and around the array | `TypeOK`, `CountMatchesBits`, `RoomIsFound`; `ImplementsSlotSet` |
| `output` | 2 responses per connection, a first array of 7 bytes, strings of 3 and of 8 bytes, bodies of at most 8, 2 flushes in part | `TypeOK`, `OverrunNeedsLongString`, `OffsetsMatch`, `InOrderUntilSplit`, `BytesAddUp`, `SendAppendsResponse`; `ImplementsOutbox` |
| `parse` | see below | `TypeOK`, `IPv4Read`, `IPv6Read`, `RequestAsMeant`, `AuthorityAsMeant`, `OnlyWholeHeads`, `ContentLengthExact` |
| `server_partial_head` | 2 slots, 1 descriptor, heads in three pieces of every kind, no failures | *violated*: `CandidatesHaveFullHead` |
| `server_stale_headers` | 3 slots, posts with bodies of one and two units | *violated*: `ServedOnlyWhenReceived` |
| `output_partial_flush` | as `output` | *violated*: `SentInOrder` |
| `output_overrun` | as `output` | *violated*: `NoOverrun` |
| `parse_inet_pton` | as `parse` | *violated*: `AddressesAsInetPton` |

Why the bounds are enough for the questions asked:

- `should_keep_alive` refuses above 70 % load and at the limit of responses. With two
  descriptors there are never more than two clients. In `server_pipelining`, with three
  slots, they may both be kept alive (20 <= 21), so that only the limit refuses; in
  `server_faults`, with two slots, one may (10 <= 14) and two may not, so that the load
  refuses there. The code's limit of five responses is the constant `KeepAliveLimit`; 1
  leaves room for one response that keeps the connection and one that closes it
  (`server_pipelining` offers three requests, so that a missing limit would show), 0 (in
  `server_live`) makes every response the last.
- Two clients and the listening socket are three entries: the least number for
  which `remove` moves an entry over another while the cursor stands before, at
  or behind it.
- Fewer descriptors than slots in the pipelining run make a descriptor come back under
  another slot, and leave connections in the backlog because `accept` has no descriptor
  for them (`FreeDescriptor`); equal numbers in the faults run fill the pool, which leaves
  them there too.
- What `poll` adds to the error of a reset connection differs between systems: the
  kernel may show it as readable and writable or as an error alone, so that all
  three handlers meet it.
- `MaxBacklog` bounds what the kernel holds; one waiting connection is renewed as
  often as it is accepted.
- `Streams` is what one connection may carry. It is cut off anywhere, so that
  every arrival pattern of its units occurs.

- `pool` has two words, the last with one bit in use, so that the walk crosses a
  word and must stop inside one; a table of four entries still takes all three
  halvings. The 64 bits and the 256 entries of the code are covered by the proofs.
- `output` scales 256 to 7 and nine blanks to two ternary digits. A head of a response
  takes more than the first array, so that growth happens inside of a response, and
  the second response begins behind the first whenever that was not flushed. One of the
  two strings is longer than the first array: it fits into the doubled array or leaves it, depending on what is there already; the
  latter is the finding of `output_overrun`. `BodiesFit` is the assertion `len < 10` for the bodies of an
  instance. After two flushes in part
  (`MaxSplits`) nothing new happens to the counts, and the order is lost already.
- `parse` has numbers at, below and above each limit with their true values (255,
  65535, 2147483647), leading zeros, zero to five octets, up to eight groups on
  either side of "::", addresses with a digit, a separator or a letter behind them and
  groups with letters in front, URLs of every shape (path, query, fragment, authority with
  user, the three kinds of host, ports), up to three header lines where two are
  kept, and every head cut off after every byte with four different bytes behind.

No run of `Server` bounds the number of connections: descriptors and slots are reused for
ever and the state space is finite none the less. Deadlock is checked in every
run but `parse` and `parse_inet_pton`, where a failed assertion ends the program; the server never stops,
since peers may always act or the thread can.

### Fairness

- The thread goes on when it can, and the caller ends every response and comes
  back to `wait` (`WF` of the thread's steps as a whole, which covers its loop
  whatever the path).
- The accept loop ends again and again (`SF(AcceptEnd)`): connections do not
  come in faster than they are accepted for ever. The code has no bound of its own
  there.
- Output is finite and each `send` moves at least a byte, so that a flush tried
  again and again is complete at last (`SF(EventFlushed(c))`).
- A peer that is there reads what it is sent (`WF(PeerRead)`). The server has no
  timers (`server.hpp:147` says so): without this assumption a silent peer keeps
  its slot.

Peers owe nothing else: they need not send, finish or reset.

## 4. What is proved

`ServerProofs` proves, for any number of slots, descriptors, headers and any set
of streams and for both values of `Faults`:

| Theorem | Statement |
|---|---|
| `Inductive` | `Spec => []IInv` |
| `TypeCorrect` | `Spec => []TypeOK` |
| `QueueIsConsistent` | `Spec => []QueueConsistent` |
| `EventLoopMatchesPool` | `Spec => []LoopMatchesPool` |
| `RequestStays` | `Spec => []RequestFits` |

They assume `ServerAssumption` (module `Server`) and nothing else.

The invariant `IInv` is `Control /\ Structures /\ Started /\ RequestFits`: the
four properties must be proved together, with one strengthening each way.
`TypeOK` alone is not inductive: the slice of a head is a sequence of units only
if the cached end of the head lies inside of the buffer, which `Clients` adds
(`crlf \in -1 .. Len(in)`). `QueueConsistent` is what keeps the queue a sequence
of clients: `push` must find room (`RoomForOneMore`: a queue without duplicates
that lacks a client is shorter than the pool, by the pigeonhole principle), and
`remove`, which would leave a NULL in it, must never be called for a queued
client. `Watches` needs the descriptors of allocated clients to be distinct and
open (`Owned`), or removing one client would remove another's entry;
`RemoveWatches` and `AddWatches` then show that `remove` and `add` keep the event
loop in step with the pool, wherever the cursor is. `NatMinimum` gives the searches
of the code a least element. Each action has a lemma `<Action>Keeps`, and
`NextKeeps` puts them together.

`WakeupProofs` proves from the same assumption:

| Theorem | Statement |
|---|---|
| `EventsAgree` | `Spec => []WInv` |
| `NoEventSkipped` | `Spec => []NothingSkipped` |
| `ClosingStays` | `Spec => []ClosingIsFinal` |
| `OutputIsWatched` | `Spec => []OutputHasWakeup` |
| `InputIsWatched` | `Spec => []InputHasWakeup` |

`WInv` is `IInv /\ Attended`. None of the four properties is inductive, because each
handler relies on what the others left in the event loop: `Agrees` says for every entry
which events it must be watched for, given what its client has in its output, whether
it is to be closed and whether it is being served, and that a candidate and the target
have no POLLIN left to be delivered: nothing is read from them in between. `Passed` is about the cursor. `remove` fills the gap with
the last entry and takes one off the cursor when the gap is behind it; if a passed
entry were removed while the last one has an event, that event would be skipped. So no passed entry may belong to a client that `wait` or `send` can
remove before the next event, a candidate or the target, and passed entries have
nothing left to deliver. That holds since a client first becomes either when its own
entry is handled, on which the cursor still stands, and `wait` looks at all candidates
before the cursor moves on. The lemmas on `add_events` and
`remove_events` replace one entry (`EventsReplaced`); those on `remove` follow the entry
that moves.

`ServingProofs` proves:

| Theorem | Statement |
|---|---|
| `CandidatesInOrder` | `Spec => CandidatesAreFifo` |
| `ResponsesLimited` | `Spec => []ServedWithinLimit` |
| `RequestsRemembered` | `NoBodies` implies `Spec => []NoRequestForgotten` |

The first is the refinement of `BoundedFifo`, step by step: with `IInv` a push finds room
and whoever is removed is not in the queue. `Counted` has the limit of keep-alive one
step earlier, at the moment `write` decides. `RequestsRemembered` needs its hypothesis,
and so does the run (`server_pipelining` has requests without bodies): with a
Content-Length a client whose body is incomplete has a whole head in its buffer and
rightly is no candidate, since POLLIN will make it one.

`OutputProofs` proves, for any sizes, strings of any length and any memory, from
`OutputAssumption`, `StringsAssumption` (strings are made of `Char`) and, for what is
patched in, `BodiesFit`:

| Theorem | Statement |
|---|---|
| `ResponsesTakeShape` | `Spec => []OInv` |
| `TypeCorrect` | `Spec => []TypeOK` |
| `OnlyLongStringsOverrun` | `Spec => OverrunNeedsLongString` |
| `OffsetsAreRight` | `Spec => []OffsetsMatch` |
| `ResponseIsAppended` | `Spec => SendAppendsResponse` |
| `InOrder` | `Spec => []InOrderUntilSplit` |
| `BytesCounted` | `Spec => []BytesAddUp` |
| `OutputImplementsOutbox` | `Spec => ImplementsOutbox` |

`OInv` has the types and four parts. `Buffers`: until it is overrun the array holds its
bytes, and its size is zero or at least that of the first array, which is why a single
doubling makes room for a string that is no longer than that. `Shape`: unless a growth failed, the buffer is what was in it before,
then the parts of the response as far as it has come (`Headed`, `Named`, `Framed`), so
that the offsets are the lengths of such parts. `Accounted`: what was taken and what
waits are the responses in number, and in order while `splits` is zero. `Closing`:
between responses no failure is pending. `send` then overwrites exactly the blanks, and
each step of `Output` is one of `Outbox` or a stutter.

`PoolProofs` proves, for any number of slots and any width of the table, from
`PoolAssumption`:

| Theorem | Statement |
|---|---|
| `FirstSetBit` | `find_first_set_bit` gives the lowest bit of a word, -1 for an empty one |
| `TypeCorrect` | `Spec => []TypeOK` |
| `CountIsRight` | `Spec => [](TypeOK /\ CountMatchesBits)` |
| `RoomFound` | `Spec => []RoomIsFound` |
| `PoolImplementsSlotSet` | `Spec => ImplementsSlotSet` |

`FirstSetBit` follows the search: each halving keeps the one bit that is left at
`index` plus its place, and cuts the places there are in half, down to those of the
table. `CountMatchesBits` needs that no bit lies beyond the last slot, since a bit
there would be found but never counted; `RoomFound` then is the pigeonhole
principle: fewer set bits than slots leave a slot, hence a word that is not full,
hence a first one, whose lowest zero is a slot. The refinement follows, because the
words in front of it are full.

`QueueProofs` proves, for a ring of any size and any items, from `QueueAssumption`:

| Theorem | Statement |
|---|---|
| `TypeCorrect` | `Spec => []TypeOK` |
| `NoPointerLeft` | `Spec => []NothingLeftBehind` |
| `ImplementsFifo` | `Spec => FifoButForRemove` |

Its invariant is the conjunction of the first two. The arithmetic is in four lemmas on
places around the ring, all from `Around`: `%` takes off the size once at most. Two
places less than a turn apart differ (`PlacesDiffer`), so `push` writes over nothing
in use and `pop` disturbs nothing but the head; counting from the slot behind the head
only shifts the places by one (`PlaceFromNext`), so `pop` is `Tail`; and `remove` reads
the slot behind each it writes (`NextPlace`), so it is `Shifted`. In a ring of one slot
the head and its neighbour are the same, which the lemmas cover.

`ParseProofs` proves, for any texts and any limits that meet `LimitsAssumption` and
`TextsAssumption`:

| Theorem | Statement |
|---|---|
| `NumeralExact` | the loop of the number parsers holds the exact value of any number of digits up to its limit, and stops at the first digit that takes it beyond |
| `CursorStaysInside` | `Spec => []TypeOK` |
| `ValuesAreInRange` | `Spec => []ValuesInRange`: the groups of addresses fit their types, a Content-Length is -1 or fits an `int` |
| `WholeHeads` | `Spec => []OnlyWholeHeads` |

`Parse` recurs along a text. A recursive function is a choice of one that solves its
equation, so what it computes can be used once a solution is known to exist; there is
one because the least place at which all partial solutions fail cannot exist
(`Smallest`, `RecursionExists`, `BackwardExists`). The same argument by a
least counterexample stands for induction in `NumeralExact`. Each parser has a
lemma of one form: its result is in `Results`, the cursor between where it began and the
end of the text and the value of its type, and `Onward` passes this through a chain of
`Then`. `Returned` is what each call may have left, hence inductive. For `WholeHeads`,
`parse_headers` accepts only at an empty line that it has found in the text
(`HeadersRead`), and a head that was cut off has none before its end (`ArrivedPart`), not
even across the byte behind, but for the one case that the theorem names.

`MeaningProofs` proves from these and from `LettersAssumption` and `MeaningAssumption`:

| Theorem | Statement |
|---|---|
| `IPv4AsWritten` | `Spec => []IPv4Read` |
| `IPv6AsWritten` | `Spec => []IPv6Read`, the aborts on hexadecimal letters included |
| `RequestsAreAsMeant` | `Spec => []RequestAsMeant` |
| `AuthoritiesAreAsMeant` | `Spec => []AuthorityAsMeant` |
| `ContentLengthsAreExact` | `Spec => []ContentLengthExact` |

The inductive invariant is `Called`: the result is that of the call, and `req` is what
`parse_request` made of the text that arrived, which `content_length` needs one step
later. What is left is a statement about each function, and the work is to say where
things are. A text that is put together from parts has each part at a known place
(`PartsLaid`, from which `JoinedPlaces`, `HeadIs`, `UrlIs` and `AuthorityIs`), and a
parser that is set at such a place reads as far as the part goes, because the character
behind it is none of its own (`SpanOf`, `NumberAt`, `LineRead`, `MarkedAt`).

- Addresses: `GroupsIn` follows the loop over the groups. After i groups the result is
  the values of the first i numbers, or there is none, or the cursor is `Stuck`: at a
  digit of a number that was too large, from where no separator is found. For "::" the
  numbers on both sides are two such sequences, and `SkipFilled` puts them together.
  A hexadecimal letter is what may be behind the last number: where the loop still wants
  a group there, or is inside of one, `next_group` aborts on it (`LetterMet`,
  `LetterAborts`), and nothing that follows undoes that (`AbortStays`).
- Heads: `MethodRead` and `ReadThrough` are all but the URL, `RelativeRead` a URL without
  an authority, `HeadersAt` the lines, from the last one to the first.
- Lengths: `content_length` also reads what was accepted in spite of the defects of
  `parse_authority`, so that its theorem needs to know what an accepted head is even if
  its URL was misread. No parser of a part of a URL takes a character that cannot be in
  one (`Wall` and the lemmas on what `Stops` in front of it), hence none passes the blank
  behind the URL, and a version is found only there: `AcceptedEnds`.
- Authorities: with the cursor behind the URL the parts behind the authority must have
  been read from where it ended, and so it ended at a slash, "?", "#" or the blank
  (`AuthorityEnds`). A host, a port or a user that was missed leaves the cursor at a
  digit, an "@" or a "[" (`Missed`, `InfoWritten`, `NothingAt`), so a head of which one
  was missed is not accepted. The one exception, a name that begins with a digit, is the
  one the property makes.

Left to TLC:

- `ClientsMoveOn` and `InputIsRead`: fairness is beyond the prover.
- The properties that are violated (`CandidatesHaveFullHead`, `ServedOnlyWhenReceived`,
  `SentInOrder`, `NoOverrun`, `AddressesAsInetPton`).

## 5. Findings

- `Buffer::seek` takes the end of its range for a hit (`buffer.hpp:242` tests
  `i > lim` where the loop leaves `i = lim`). A client is a candidate as soon as
  three bytes have arrived, and one whose head comes in two reads is dropped for a
  parse error (`server_partial_head`).
- `parse_request` appends to the headers of earlier candidates (`parse.cpp:607`),
  so that the Content-Length of one client's unfinished request decides whether
  another's is complete (`server_stale_headers`).
- `Buffer::read` moves the wrong bytes after the socket took only a part
  (`buffer.hpp:213` swaps the arguments of `memmove`): the peer gets the beginning of
  the response twice and not its end (`output_partial_flush`). The number of bytes is
  right (`BytesAddUp`), which hides it.
- `ensure_unused_space` doubles the array once, whatever it was asked for
  (`buffer.hpp:27`), so that a header or a body that is longer than 256 bytes is copied
  behind the end of the array when the doubled one has no room for it
  (`output_overrun`). Only such strings do that (`OverrunNeedsLongString`).
- `IPv4::parse` and `IPv6::parse` do not answer as `inet_pton`, which
  `test/fuzz_parse_ipv4.cpp` and `test/fuzz_parse_ipv6.cpp` compare them with
  (`parse_inet_pton`; with `IPv4Texts = {}` in its configuration the run shows it for
  IPv6). Both accept text behind an address and leading zeros. Where a number exceeds its
  limit the cursor goes back over a digit that counted (`parse.cpp:318`), so that
  1.1.1.256 is read as 1.1.1.25 with "56" left, and accepted. In IPv6 "::" must stand for
  exactly one group (`parse.cpp:267` goes on to seven), although the comment at 235 lets
  it stand for any number; 00009 is a group, although a group "has a maximum of 4 hex
  digits" (232); and a letter fails the assertion of `parse.cpp:211`. What is read of
  all other texts is stated by `IPv4Read` and `IPv6Read`.

Seen while reading or modelling, and not stated by a run:

- `Queue::remove` does not shrink the queue (`queue.hpp:79`, where the comment at 63
  says "Removes the first occurrence of item from the queue"): `pop` would later hand out the NULL
  it leaves. `FifoButForRemove` states what it does, and `CandidatesAreFifo` that the
  server never meets it.
- `buffer.hpp:281` returns an empty slice when the slice ends with the data, so that
  a body which is last in the buffer is lost; `buffer.hpp:15-16` has the comments of
  `size` and `used` swapped.
- `server.hpp:309` may overflow; `server.hpp:101` says "after `send`" for "before".
- A peer that half-closes loses a complete request (`server.hpp:387`).
- With the pool full the listening socket stays readable and `wait` polls without
  blocking (`server.hpp:356`).
- The `[` of a host is never consumed (`parse.cpp:393`), so that no host that is an IPv6
  address is read.
- URLs: a name that begins with a digit loses what looked like an address
  (`parse.cpp:408`), `peek` looks at the character behind the next one
  (`parse.cpp:518`), so that a path behind an authority is read only if it begins
  with two slashes, and fails its assertion when the text ends there; the slices of
  scheme and user info are wrong (`parse.cpp:134`, `182`), the scheme must be in
  upper case.

## 6. Not modelled, and why

- The texts of status codes, of errors and of log lines; `print.*`, which is not part
  of the build and only formats.
- `Buffer::read(char*, int)` and the move operations of `Buffer`: nothing calls them.
- The addresses behind slices: a slice is an offset into a text, and one whose buffer
  was freed is marked in `Request`.
- The constructors `IPv4(const char*)` and `IPv6(const char*)`, which turn a failed
  parse into zero.
- A head whose URL has an authority, in `Server`: cut off behind it, parsing fails
  an assertion (`Parse` has it, and `Server` has only heads that parse or do not).
- `listen` without `wait`, a failed `listen` (it changes nothing), a `wait`
  before `listen` (`poll` on nothing, for ever).
- SIGPIPE on a reset connection, Windows, logging, `SocketSubsystem`.
- `poll` failing: an event without a client, which the server ignores.

## 7. What could come next

Every invariant that a run checks, every action property and every refinement has its
theorem. Two things would go further:

1. That a candidate's head parses as `Request` says (`ParseResults`), as a refinement of
   `Request` by `Parse`, for heads whose URL has no authority. `WholeHeads`,
   `RequestsAreAsMeant` and `ContentLengthsAreExact` are its parts.
2. What remains of a head with an authority that is refused: which assertion or error
   ends it.
