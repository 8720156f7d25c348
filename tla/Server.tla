------------------------------- MODULE Server -------------------------------
(***************************************************************************)
(* The server of src/server.hpp: one thread that owns the client pool, the *)
(* event loop and the candidate queue, the caller that runs "wait" and     *)
(* builds responses, and the peers whose bytes, closes and resets arrive   *)
(* between any two steps of that thread.                                   *)
(*                                                                         *)
(* pc says where the thread is: before listen(), in the caller's code, in  *)
(* the loop of wait(), or in the loop of accept_incoming_connections(),    *)
(* which is one step per accepted connection.  Every other handler is one  *)
(* step.                                                                   *)
(***************************************************************************)
EXTENDS Integers, Sequences, FiniteSets

CONSTANTS
    MAX_CLIENTS,            \* the template parameter of Server
    KeepAliveLimit,         \* responses after which a connection is closed (5)
    MAX_REQUEST_HEADERS,
    HeadParts,              \* the units a request head arrives in, see Request
    JunkLengths,            \* what Content-Length may read as in freed memory
    Fd,                     \* descriptors the kernel may hand out
    ListenFd,               \* the descriptor of the listening socket
    THIS, NULL,             \* the server's own pointer, the null pointer
    Streams,                \* what a peer may send over one connection
    MaxBacklog,             \* bound on connections that wait for accept()
    Faults                  \* whether allocations and system calls may fail

Client == 0 .. MAX_CLIENTS - 1

EL == INSTANCE EventLoop WITH Capacity <- MAX_CLIENTS + 1,
                              Fd <- Fd \cup {ListenFd}, Ptr <- Client \cup {THIS}
RQ == INSTANCE Request WITH Slot <- Client
QU == INSTANCE Fifo WITH Size <- MAX_CLIENTS

ASSUME ServerAssumption ==
    /\ MAX_CLIENTS \in Nat \ {0}
    /\ KeepAliveLimit \in Nat
    /\ MAX_REQUEST_HEADERS \in Nat
    /\ HeadParts \in {<<"start", "rest", "end">>, <<"rest", "end">>, <<"end">>}
    /\ JunkLengths \subseteq Int
    /\ ListenFd \notin Fd
    /\ THIS \notin Client /\ NULL \notin Client /\ NULL \notin Fd
    /\ Streams \subseteq Seq(RQ!Unit)
    /\ MaxBacklog \in Nat
    /\ Faults \in BOOLEAN

VARIABLES
    pc,             \* "init", "user", "waiting" or "accepting"
    state,          \* the response API's state
    target,         \* client being responded to, NULL outside a response
    keep_alive,     \* -1, 0 or 1
    req_bytes,      \* size of the request being served
    request,        \* the caller's Request: its headers and its body
    pool,           \* the allocated client structures
    client,         \* their contents
    queue,          \* the candidate queue, oldest first
    loop,           \* the event loop
    backlog,        \* connections the kernel has completed, not yet accepted
    conn            \* the kernel's and the peer's side of each descriptor

vars == <<pc, state, target, keep_alive, req_bytes, request, pool, client,
          queue, loop, backlog, conn>>

response == <<state, target, keep_alive, req_bytes>>

-----------------------------------------------------------------------------
ClientState ==
    [sock: Fd \cup {NULL}, in: Seq(RQ!Unit), crlf: Int, out: {"empty", "pending", "failed"},
     num_served: Nat, queued: BOOLEAN, close_when_flushed: BOOLEAN]

\* Client(): what the constructor leaves.  A slot that is not allocated is
\* shown this way too; its old contents are never read.
NewClient(fd) ==
    [sock |-> fd, in |-> <<>>, crlf |-> -1, out |-> "empty", num_served |-> 0,
     queued |-> FALSE, close_when_flushed |-> FALSE]

\* st: "none" (closed on this side), "open", "fin" (the peer closed its sending
\* side) or "reset".  rx is received and not yet read, todo not yet sent by the
\* peer; room is whether the send buffer takes at least a byte.
ConnState ==
    [st: {"none", "open", "fin", "reset"}, rx: Seq(RQ!Unit), todo: Seq(RQ!Unit),
     room: BOOLEAN]

NoConn == [st |-> "none", rx |-> <<>>, todo |-> <<>>, room |-> TRUE]

NewRequest == [headers |-> <<>>, body |-> <<>>]

Init ==
    /\ pc = "init"
    /\ state = "NOTARGET" /\ target = NULL /\ keep_alive = -1 /\ req_bytes = -1
    /\ request = NewRequest
    /\ pool = {}
    /\ client = [c \in Client |-> NewClient(NULL)]
    /\ queue = <<>>
    /\ loop = EL!EmptyLoop
    /\ backlog = 0
    /\ conn = [f \in Fd |-> NoConn]

\* listen() succeeded: the listening socket is registered for RECV.  A failed
\* listen() changes nothing and may be repeated.
Listen ==
    /\ pc = "init"
    /\ loop' = EL!add(loop, ListenFd, {"RECV"}, THIS)
    /\ pc' = "user"
    /\ UNCHANGED <<response, request, pool, client, queue, backlog, conn>>

-----------------------------------------------------------------------------
(* Pieces of the handlers.                                                 *)

\* remove_client(c), called when the clients are cl, the queue is q and the
\* event loop is l: the socket leaves the event loop, the client the queue if
\* it is marked as queued, and the destructor closes the socket and frees both
\* buffers, so that headers the Request req keeps of this client dangle.
remove_client(c, cl, q, l, req) ==
    /\ loop' = EL!remove(l, cl[c].sock)
    /\ queue' = IF cl[c].queued THEN QU!Shifted(q, c) ELSE q
    /\ pool' = pool \ {c}
    /\ client' = [cl EXCEPT ![c] = NewClient(NULL)]
    /\ conn' = [conn EXCEPT ![cl[c].sock] = NoConn]
    /\ request' = [req EXCEPT !.headers = RQ!Dangling(@, c)]

\* Mutant of should_keep_alive: only the load counts.
keep_alive_while_idle(num_clients, num_served) == 10 * num_clients <= 7 * MAX_CLIENTS

should_keep_alive(num_clients, num_served) ==
    /\ 10 * num_clients <= 7 * MAX_CLIENTS
    /\ num_served < KeepAliveLimit

\* keep_alive once write() has put the "Connection" header out: what the
\* caller asked for, kept alive only when the server's load allows it.
KeepAliveWritten ==
    IF state \notin {"STATUS", "HEADERS"} THEN keep_alive
    ELSE IF keep_alive = 0
            \/ ~should_keep_alive(Cardinality(pool), client[target].num_served)
         THEN 0 ELSE 1

\* Buffer::write: an allocation may fail, and a failed buffer stays failed.
WriteResults(out) ==
    IF out = "failed" THEN {"failed"}
    ELSE {"pending"} \cup (IF Faults THEN {"failed"} ELSE {})

-----------------------------------------------------------------------------
(* The caller: status(), header(), write(), send() and wait().  A call the *)
(* state does not admit returns at once and is no step.                    *)

Status ==
    /\ pc = "user" /\ state = "STATUS"
    /\ state' = "HEADERS"
    /\ \E out \in WriteResults(client[target].out) :
          client' = [client EXCEPT ![target].out = out]
    /\ UNCHANGED <<pc, target, keep_alive, req_bytes, request, pool, queue, loop, backlog, conn>>

\* header(): preceded by a status line if there is none.  "Connection" only
\* records the caller's wish, any other name is written.
Header ==
    /\ pc = "user" /\ state \in {"STATUS", "HEADERS"}
    /\ state' = "HEADERS"
    /\ \E out \in WriteResults(client[target].out) :
          client' = [client EXCEPT ![target].out = out]
    /\ keep_alive' \in {keep_alive, 0, 1}
    /\ UNCHANGED <<pc, target, req_bytes, request, pool, queue, loop, backlog, conn>>

\* write(): the first one puts out whatever the head of the response lacks.
Write ==
    /\ pc = "user" /\ state # "NOTARGET"
    /\ state' = "CONTENT"
    /\ keep_alive' = KeepAliveWritten
    /\ \E out \in WriteResults(client[target].out) :
          client' = [client EXCEPT ![target].out = out]
    /\ UNCHANGED <<pc, target, req_bytes, request, pool, queue, loop, backlog, conn>>

\* Mutant of NoTarget: the state is not reset.
OnlyTargetReset == target' = NULL /\ keep_alive' = -1 /\ req_bytes' = -1 /\ UNCHANGED state

NoTarget ==
    state' = "NOTARGET" /\ target' = NULL /\ keep_alive' = -1 /\ req_bytes' = -1

\* The response could not be built: the client is dropped.
SendFailed ==
    /\ "failed" \in WriteResults(client[target].out)
    /\ remove_client(target, client, queue, loop, NewRequest)

\* The response is complete: it is flushed from now on, the request leaves the
\* input buffer, and what is behind it may make the client a candidate again.
SendDone ==
    LET c       == target
        keep    == KeepAliveWritten # 0
        in      == SubSeq(client[c].in, req_bytes + 1, Len(client[c].in))
        again   == keep /\ RQ!contains(in, -1)
        flushed == EL!add_events(loop, client[c].sock, {"SEND"})
    IN  /\ "pending" \in WriteResults(client[c].out)
        /\ loop' = IF keep THEN flushed
                   ELSE EL!remove_events(flushed, client[c].sock, {"RECV"})
        /\ queue' = IF again THEN QU!Pushed(queue, c) ELSE queue
        /\ client' = [client EXCEPT ![c].in = in,
                                    ![c].crlf = IF keep THEN RQ!seek(in, -1) ELSE -1,
                                    ![c].out = "pending",
                                    ![c].num_served = @ + 1,
                                    ![c].queued = @ \/ again,
                                    ![c].close_when_flushed = @ \/ ~keep]
        /\ request' = NewRequest
        /\ UNCHANGED <<pool, conn>>

\* send(): the caller is through with its Request as well.
SendResponse ==
    /\ state # "NOTARGET"
    /\ SendDone \/ SendFailed
    /\ NoTarget

Send ==
    /\ pc = "user"
    /\ SendResponse
    /\ UNCHANGED <<pc, backlog>>

\* wait(req): sends the response under construction, if there is one.  The
\* Request passed in holds nothing yet.
Wait ==
    /\ pc = "user"
    /\ \/ SendResponse
       \/ /\ state = "NOTARGET"
          /\ UNCHANGED <<response, request, pool, client, queue, loop, conn>>
    /\ pc' = "waiting"
    /\ UNCHANGED backlog

-----------------------------------------------------------------------------
(* The loop of wait(): it pops a candidate as long as there is one, and     *)
(* handles an event of the event loop otherwise.                           *)

candidate == Head(queue)

\* Mutant of Unqueued: candidate->queued stays true.
StillMarked == client

\* The candidate has left the queue.
Unqueued == [client EXCEPT ![candidate].queued = FALSE]

CandidateHead == RQ!slice_until(client[candidate].in, client[candidate].crlf)

\* The Request after a parse that succeeds; its Content-Length is looked for
\* among all its headers, those of earlier candidates included.
ParsedRequest ==
    [request EXCEPT !.headers = RQ!Parsed(@, CandidateHead, candidate)]

Popping == pc = "waiting" /\ queue # <<>> /\ candidate \in pool

DropCandidate(req) ==
    /\ remove_client(candidate, Unqueued, QU!Popped(queue), loop, req)
    /\ UNCHANGED <<pc, response, backlog>>

\* The head does not parse; the headers before the error may have been stored.
PopInvalid ==
    /\ Popping
    /\ FALSE \in RQ!ParseResults(CandidateHead)
    /\ \E headers \in RQ!ParsedInVain(request.headers, CandidateHead, candidate) :
          DropCandidate([request EXCEPT !.headers = headers])

PopMalformedLength ==
    /\ Popping
    /\ TRUE \in RQ!ParseResults(CandidateHead)
    /\ \E len \in RQ!ContentLengths(ParsedRequest.headers) : len < 0
    /\ DropCandidate(ParsedRequest)

\* The whole request is there: wait() returns it.
PopReady ==
    /\ Popping
    /\ TRUE \in RQ!ParseResults(CandidateHead)
    /\ \E len \in RQ!ContentLengths(ParsedRequest.headers) :
          LET total == RQ!HEAD_LEN + len
              in    == client[candidate].in
          IN  /\ len >= 0 /\ Len(in) >= total
              /\ request' = [ParsedRequest EXCEPT !.body = RQ!slice(in, RQ!HEAD_LEN, total)]
              /\ req_bytes' = total
    /\ target' = candidate /\ state' = "STATUS" /\ keep_alive' = -1
    /\ pc' = "user"
    /\ queue' = QU!Popped(queue)
    /\ client' = Unqueued
    /\ UNCHANGED <<pool, loop, backlog, conn>>

\* The body has not been received: the client is no candidate until it sends
\* more, and the headers stay in the Request.
PopIncomplete ==
    /\ Popping
    /\ TRUE \in RQ!ParseResults(CandidateHead)
    /\ \E len \in RQ!ContentLengths(ParsedRequest.headers) :
          len >= 0 /\ Len(client[candidate].in) < RQ!HEAD_LEN + len
    /\ request' = ParsedRequest
    /\ queue' = QU!Popped(queue)
    /\ client' = Unqueued
    /\ UNCHANGED <<pc, response, pool, loop, backlog, conn>>

Pop == PopInvalid \/ PopMalformedLength \/ PopReady \/ PopIncomplete

-----------------------------------------------------------------------------
\* What the kernel has to say of a descriptor.  A reset may be shown as an error
\* alone (what poll() adds to it is the system's own), for the ones in broken.
Ready(fd, broken) ==
    IF fd = ListenFd THEN IF backlog > 0 THEN {"POLLIN"} ELSE {}
    ELSE IF fd \in broken THEN {"POLLERR"}
    ELSE (IF conn[fd].rx # <<>> \/ conn[fd].st \in {"fin", "reset"} THEN {"POLLIN"} ELSE {})
            \cup (IF conn[fd].room \/ conn[fd].st = "reset" THEN {"POLLOUT"} ELSE {})
            \cup (IF conn[fd].st = "reset" THEN {"POLLERR"} ELSE {})

\* evloop.wait() with nothing left to report: poll() returns as soon as there
\* is.  A poll() that fails is reported as an event of no client, which the
\* server ignores: no step.
Poll ==
    /\ pc = "waiting" /\ queue = <<>> /\ EL!must_poll(loop)
    /\ \E broken \in SUBSET {fd \in Fd : conn[fd].st = "reset"} :
          LET revents == [i \in EL!Indices(loop) |->
                             EL!Revents(loop.bufs[i], Ready(loop.bufs[i].fd, broken))]
          IN  /\ \E i \in EL!Indices(loop) : revents[i] # {}
              /\ loop' = EL!poll(loop, revents)
    /\ UNCHANGED <<pc, response, request, pool, client, queue, backlog, conn>>

\* The event evloop.wait() returns and the event loop it leaves.
EventIs(type, ptr) ==
    /\ pc = "waiting" /\ queue = <<>> /\ ~EL!must_poll(loop)
    /\ EL!EventType(EL!skip(loop)) = type
    /\ EL!EventPtr(EL!skip(loop)) = ptr

EventTaken == EL!take(EL!skip(loop))

EventAccept ==
    /\ EventIs("RECV", THIS)
    /\ loop' = EventTaken
    /\ pc' = "accepting"
    /\ UNCHANGED <<response, request, pool, client, queue, backlog, conn>>

EventFailure(c) ==
    /\ EventIs("FAILURE", c)
    /\ remove_client(c, client, queue, EventTaken, request)
    /\ UNCHANGED <<pc, response, backlog>>

\* The client with "in" as its input buffer: a candidate when it holds a head,
\* or seems to.
WithInput(cl, in) ==
    LET crlf == RQ!seek(in, cl.crlf)
    IN  [cl EXCEPT !.in = in, !.crlf = crlf, !.queued = @ \/ crlf > -1]

\* Mutant of Queued: the client is marked and not pushed.
OnlyMarked(q, before, after, c) == q

Queued(q, before, after, c) == IF after.queued /\ ~before.queued THEN QU!Pushed(q, c) ELSE q

\* Buffer::write(sock): recv() until it would block.
AllInput(c) == client[c].in \o conn[client[c].sock].rx

\* handle_client_data_and_queue_if_candidate(): all there is to read is read.
\* A buffer that grows moves, and headers kept from this client dangle.
EventRecv(c) ==
    /\ EventIs("RECV", c)
    /\ conn[client[c].sock].st = "open"
    /\ LET fd == client[c].sock
           cl == WithInput(client[c], AllInput(c))
       IN  /\ client' = [client EXCEPT ![c] = cl]
           /\ queue' = Queued(queue, client[c], cl, c)
           /\ conn' = [conn EXCEPT ![fd].rx = <<>>]
    /\ \E headers \in {request.headers, RQ!Dangling(request.headers, c)} :
          request' = [request EXCEPT !.headers = headers]
    /\ loop' = EventTaken
    /\ UNCHANGED <<pc, response, pool, backlog>>

\* The same handler when the peer has closed its side, the read fails or the
\* buffer cannot grow: whatever was read is dropped with the client.
EventClosed(c) ==
    /\ EventIs("RECV", c)
    /\ conn[client[c].sock].st \in {"fin", "reset"} \/ Faults
    /\ remove_client(c, client, queue, EventTaken, request)
    /\ UNCHANGED <<pc, response, backlog>>

\* flush_buffered_bytes_to_client_and_close_if_done(): the socket takes all of
\* the output, or a part of it until its send buffer is full.
EventFlushed(c) ==
    /\ EventIs("SEND", c)
    /\ conn[client[c].sock].st # "reset"
    /\ IF client[c].close_when_flushed
       THEN remove_client(c, client, queue, EventTaken, request)
       ELSE /\ loop' = EL!remove_events(EventTaken, client[c].sock, {"SEND"})
            /\ client' = [client EXCEPT ![c].out = "empty"]
            /\ UNCHANGED <<request, pool, queue, conn>>
    /\ UNCHANGED <<pc, response, backlog>>

EventFlushedInPart(c) ==
    /\ EventIs("SEND", c)
    /\ conn[client[c].sock].st # "reset"
    /\ loop' = EventTaken
    /\ conn' = [conn EXCEPT ![client[c].sock].room = FALSE]
    /\ UNCHANGED <<pc, response, request, pool, client, queue, backlog>>

EventFlushFailed(c) ==
    /\ EventIs("SEND", c)
    /\ conn[client[c].sock].st = "reset" \/ Faults
    /\ remove_client(c, client, queue, EventTaken, request)
    /\ UNCHANGED <<pc, response, backlog>>

Event(c) ==
    \/ EventFailure(c) \/ EventRecv(c) \/ EventClosed(c)
    \/ EventFlushed(c) \/ EventFlushedInPart(c) \/ EventFlushFailed(c)

-----------------------------------------------------------------------------
(* The loop of accept_incoming_connections().                              *)

\* allocate() takes the first slot that is free.
FreeSlot == {c \in Client \ pool : \A d \in Client \ pool : c <= d}

FreeDescriptor == {f \in Fd : conn[f].st = "none"}

\* Mutant of CanAccept: the result of accept() is ignored.
CanAcceptAnyway == pc = "accepting" /\ pool # Client /\ FreeDescriptor # {}

\* There is room for a client, and accept() has a connection and a descriptor
\* for it.
CanAccept == pc = "accepting" /\ backlog > 0 /\ pool # Client /\ FreeDescriptor # {}

\* A connection joins the pool and the event loop and is read from at once: the
\* first n units of its stream have arrived by then.
AcceptClient ==
    /\ CanAccept
    /\ loop.count < MAX_CLIENTS + 1
    /\ \E c \in FreeSlot, fd \in FreeDescriptor, stream \in Streams :
          \E n \in 0 .. Len(stream) :
             LET cl == WithInput(NewClient(fd), SubSeq(stream, 1, n))
             IN  /\ pool' = pool \cup {c}
                 /\ loop' = EL!add(loop, fd, {"RECV"}, c)
                 /\ client' = [client EXCEPT ![c] = cl]
                 /\ queue' = Queued(queue, NewClient(fd), cl, c)
                 /\ conn' = [conn EXCEPT ![fd] =
                        [st |-> "open", rx |-> <<>>, room |-> TRUE,
                         todo |-> SubSeq(stream, n + 1, Len(stream))]]
    /\ backlog' = backlog - 1
    /\ UNCHANGED <<pc, response, request>>

\* The connection is gone as soon as it is accepted: it was closed or reset by
\* then, or its first read failed, or the event loop has no entry for it.
AcceptRefused ==
    /\ CanAccept
    /\ backlog' = backlog - 1
    /\ UNCHANGED <<pc, response, request, pool, client, queue, loop, conn>>

\* No more room, or accept() has no connection or no descriptor to give, and a
\* connection stays in the backlog; or accept() fails, or the connection it gave
\* cannot be made non-blocking and is closed again.
AcceptEnd ==
    /\ pc = "accepting"
    /\ \/ (backlog = 0 \/ pool = Client \/ FreeDescriptor = {}) /\ UNCHANGED backlog
       \/ Faults /\ backlog' \in {backlog, backlog - 1} \cap Nat
    /\ pc' = "waiting"
    /\ UNCHANGED <<response, request, pool, client, queue, loop, conn>>

-----------------------------------------------------------------------------
(* The peers, which act between any two steps of the server.               *)

PeerConnect ==
    /\ pc # "init" /\ backlog < MaxBacklog
    /\ backlog' = backlog + 1
    /\ UNCHANGED <<pc, response, request, pool, client, queue, loop, conn>>

Peer(fd, c) ==
    /\ conn' = [conn EXCEPT ![fd] = c]
    /\ UNCHANGED <<pc, response, request, pool, client, queue, loop, backlog>>

PeerSend(fd) ==
    /\ conn[fd].st = "open"
    /\ \E n \in 1 .. Len(conn[fd].todo) :
          Peer(fd, [conn[fd] EXCEPT !.rx = @ \o SubSeq(conn[fd].todo, 1, n),
                                    !.todo = SubSeq(@, n + 1, Len(@))])

\* The peer closes its sending side and may go on reading.
PeerFinish(fd) == conn[fd].st = "open" /\ Peer(fd, [conn[fd] EXCEPT !.st = "fin"])

PeerReset(fd) ==
    conn[fd].st \in {"open", "fin"} /\ Peer(fd, [conn[fd] EXCEPT !.st = "reset"])

\* The peer reads, and the send buffer has room again.
PeerRead(fd) ==
    /\ conn[fd].st \in {"open", "fin"} /\ ~conn[fd].room
    /\ Peer(fd, [conn[fd] EXCEPT !.room = TRUE])

-----------------------------------------------------------------------------
Caller == Status \/ Header \/ Write \/ Send \/ Wait
Waiting == Pop \/ Poll \/ EventAccept \/ \E c \in Client : Event(c)
Accepting == AcceptClient \/ AcceptRefused \/ AcceptEnd
Peers == PeerConnect \/ \E fd \in Fd :
            PeerSend(fd) \/ PeerFinish(fd) \/ PeerReset(fd) \/ PeerRead(fd)

Next == Listen \/ Caller \/ Waiting \/ Accepting \/ Peers

Spec == Init /\ [][Next]_vars

\* What the thread and its surroundings owe each other.  The caller ends every
\* response and comes back to wait(); wait() does not stop while it can go on.
\* Connections do not come in faster than they are accepted for ever, output is
\* finite, and a peer that is there reads what it is sent.
Fairness ==
    /\ WF_vars(Listen \/ Send \/ Wait \/ Waiting \/ Accepting)
    /\ SF_vars(AcceptEnd)
    /\ \A c \in Client : SF_vars(EventFlushed(c))
    /\ \A fd \in Fd : WF_vars(PeerRead(fd))

FairSpec == Spec /\ Fairness

-----------------------------------------------------------------------------
TypeOK ==
    /\ pc \in {"init", "user", "waiting", "accepting"}
    /\ state \in {"NOTARGET", "STATUS", "HEADERS", "CONTENT"}
    /\ target \in Client \cup {NULL}
    /\ keep_alive \in {-1, 0, 1}
    /\ req_bytes \in Nat \cup {-1}
    /\ request \in [headers: Seq(RQ!HeaderEntry), body: Seq(RQ!Unit)]
    /\ pool \subseteq Client
    /\ client \in [Client -> ClientState]
    /\ queue \in Seq(Client)
    /\ EL!IsLoop(loop)
    /\ backlog \in 0 .. MaxBacklog
    /\ conn \in [Fd -> ConnState]

\* The candidate queue holds exactly the clients marked as queued, each once and
\* each of them allocated, so that the candidate wait() pops is never a client
\* that is gone or an emptied slot (the assertion of server.hpp:284) and push(),
\* whose result nobody looks at, never finds the queue full.
QueueConsistent ==
    /\ \A c \in Client : client[c].queued <=> \E i \in 1 .. Len(queue) : queue[i] = c
    /\ \A i, j \in 1 .. Len(queue) : queue[i] = queue[j] => i = j
    /\ \A i \in 1 .. Len(queue) : queue[i] \in pool

\* The event loop l has one entry per client of p and one for the listening
\* socket, each with the descriptor of its own.
Watches(l, p, cl) ==
    /\ l.count = Cardinality(p) + 1
    /\ \A ptr \in p \cup {THIS} : \E i \in EL!Indices(l) : l.bufs[i].ptr = ptr
    /\ \A i \in EL!Indices(l) :
          LET entry == l.bufs[i]
          IN  IF entry.ptr = THIS THEN entry.fd = ListenFd
              ELSE entry.ptr \in p /\ entry.fd = cl[entry.ptr].sock /\ entry.fd \in Fd
    /\ \A i, j \in EL!Indices(l) : l.bufs[i].fd = l.bufs[j].fd => i = j

\* Whatever connections were accepted, dropped and accepted again on the same
\* slot and descriptor between poll() and the delivery of what poll() reported,
\* the event loop watches the allocated clients and no others: no event reaches
\* a client that is gone (the assertion of server.hpp:450) or the one that came
\* in its place.
LoopMatchesPool ==
    /\ IF pc = "init" THEN loop.count = 0 /\ pool = {}
       ELSE Watches(loop, pool, client)
    /\ \A fd \in Fd : conn[fd].st # "none" <=> \E c \in pool : client[c].sock = fd

\* No reported event is ever skipped: entries the cursor has passed have nothing
\* left to deliver, although remove() puts the last entry in the place of the
\* removed one.
NothingSkipped == \A i \in 0 .. loop.cursor - 1 : i < loop.count => loop.bufs[i].revents = {}

EntryOf(c) == loop.bufs[EL!find_socket_index(loop, client[c].sock)]

\* A client whose response says "Connection: Close" is never read from again,
\* never becomes a candidate and never gets a second response, and its output
\* stays registered until the flush that closes it.
ClosingIsFinal ==
    \A c \in pool : client[c].close_when_flushed =>
        /\ "POLLIN" \notin EntryOf(c).events \cup EntryOf(c).revents
        /\ "POLLOUT" \in EntryOf(c).events
        /\ ~client[c].queued /\ c # target

\* Between responses a client has output pending exactly when the event loop
\* watches its socket for POLLOUT: no response is left in a buffer nobody will
\* flush, and no idle socket keeps poll() from blocking.
OutputHasWakeup ==
    \A c \in pool : c # target =>
        (client[c].out = "pending" <=> "POLLOUT" \in EntryOf(c).events)

\* A client is watched for input until its last response, so that a request or
\* a close that comes later is noticed.
InputHasWakeup ==
    \A c \in pool : ~client[c].close_when_flushed => "POLLIN" \in EntryOf(c).events

\* The request being served is all in the input buffer of a client that is
\* still there and is not a candidate (the assertion of buffer.hpp:253, the
\* comment of server.hpp:624).
RequestFits ==
    state # "NOTARGET" =>
        /\ pc = "user"
        /\ target \in pool
        /\ ~client[target].queued
        /\ req_bytes \in RQ!HEAD_LEN .. Len(client[target].in)

\* No client gets more responses than the limit allows, the closing one included.
ServedWithinLimit == \A c \in pool : client[c].num_served <= KeepAliveLimit + 1

\* A client whose whole request (none has a body in this instance) has been read
\* is in the queue, being served, or has had its last response: the wake-up a
\* request owes its client is not lost between a read, a pop and a send().
NoRequestForgotten ==
    \A c \in pool :
        RQ!Terminators(client[c].in) # {} =>
            client[c].queued \/ c = target \/ client[c].close_when_flushed

\* Candidates are served in the order in which they became candidates, and leave
\* the queue in no other way than by being popped.
Candidates == INSTANCE BoundedFifo WITH Size <- MAX_CLIENTS, Item <- Client, q <- queue
CandidatesAreFifo == Candidates!Spec

-----------------------------------------------------------------------------
(* What the comments say of wait(), and the code does not do.              *)

\* server.hpp:286: "It's known that the input buffer contains a \r\n\r\n or the
\* client wouldn't have been inserted in the queue."
CandidatesHaveFullHead ==
    \A c \in pool : client[c].queued => RQ!Terminators(client[c].in) # {}

\* server.hpp:259: wait() "parses the request into the user-provided structure
\* and checks that the request body was fully received": the request it returns
\* extends to the end of the body its own head announces.
ServedOnlyWhenReceived ==
    state # "NOTARGET" =>
        LET own == client[target].in[1].req.cl
        IN  own > 0 => req_bytes >= RQ!HEAD_LEN + own

-----------------------------------------------------------------------------
\* Nobody waits for ever: a candidate is taken, and a client that is to be
\* closed once its last response is out is closed and its slot free again.
ClientsMoveOn ==
    \A c \in Client :
        client[c].queued \/ client[c].close_when_flushed
            ~> ~client[c].queued /\ ~client[c].close_when_flushed

\* What a connected peer sends is read sooner or later, or its connection is
\* closed, however many other connections keep the server busy.
InputIsRead == \A fd \in Fd : conn[fd].rx # <<>> ~> conn[fd].rx = <<>>
=============================================================================
