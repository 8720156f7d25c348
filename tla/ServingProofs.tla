---------------------------- MODULE ServingProofs ----------------------------
(***************************************************************************)
(* Theorems about what Server owes the requests it has read: candidates in *)
(* their order, no more responses to a client than the limit allows, and   *)
(* no request that is in a buffer and that nobody looks at.                *)
(***************************************************************************)
EXTENDS WakeupProofs

(* The queue.                                                              *)

\* A client that is no candidate finds room in the queue.
LEMMA PushIsPush ==
    ASSUME IInv, NEW c \in Client, ~client[c].queued, queue' = QU!Pushed(queue, c)
    PROVE  Candidates!Push(c)
<1>1. queue \in Seq(Client) /\ Len(queue) \in Nat
  BY DEF IInv, Structures, Consistent
<1>2. \A i \in 1 .. Len(queue) : queue[i] # c
  BY DEF IInv, Structures, Consistent
<1>3. Len(queue) < MAX_CLIENTS
  BY <1>1, <1>2, RoomForOneMore DEF IInv, Structures, Consistent
<1> QED BY <1>1, <1>3 DEF QU!Pushed, Candidates!Push

LEMMA QueuedIsPush ==
    ASSUME IInv, NEW c \in Client, ~client[c].queued, NEW before, NEW after,
           queue' = Queued(queue, before, after, c)
    PROVE  Candidates!Push(c) \/ UNCHANGED queue
BY PushIsPush DEF Queued

\* Whoever is removed is no candidate.
LEMMA RemovalKeepsQueue ==
    ASSUME NEW c, NEW cl, ~cl[c].queued, NEW q, NEW l, NEW req,
           remove_client(c, cl, q, l, req)
    PROVE  queue' = q
BY DEF remove_client

LEMMA NextIsFifo == IInv /\ [Next]_vars => [Candidates!Next]_queue
<1> SUFFICES ASSUME IInv, [Next]_vars
             PROVE  Candidates!Next \/ UNCHANGED queue
  OBVIOUS
<1>1. CASE Listen
  BY <1>1 DEF Listen
<1>2. CASE Caller
  <2>1. ASSUME SendResponse
        PROVE  Candidates!Next \/ UNCHANGED queue
    <3>1. target \in Client /\ ~client[target].queued
      BY <2>1 DEF SendResponse, IInv, RequestFits, Structures
    <3>2. CASE SendFailed
      BY <3>1, <3>2, RemovalKeepsQueue DEF SendFailed
    <3>3. CASE SendDone
      <4>1. queue' = QU!Pushed(queue, target) \/ UNCHANGED queue
        BY <3>3 DEF SendDone
      <4> QED BY <3>1, <4>1, PushIsPush DEF Candidates!Next
    <3> QED BY <2>1, <3>2, <3>3 DEF SendResponse
  <2> QED BY <1>2, <2>1 DEF Caller, Status, Header, Write, Send, Wait
<1>3. CASE Pop
  <2>1. Popping
    BY <1>3 DEF Pop, PopInvalid, PopMalformedLength, PopReady, PopIncomplete
  <2>2. queue' = QU!Popped(queue)
    <3>1. ~Unqueued[candidate].queued
      BY <2>1, PoppedCandidate
    <3>2. ASSUME NEW req, DropCandidate(req)
          PROVE  queue' = QU!Popped(queue)
      BY <3>1, <3>2, RemovalKeepsQueue DEF DropCandidate
    <3> QED BY <1>3, <3>2 DEF Pop, PopInvalid, PopMalformedLength, PopReady, PopIncomplete
  <2> QED BY <2>1, <2>2 DEF Popping, QU!Popped, Candidates!Next, Candidates!Pop
<1>4. CASE Poll \/ EventAccept
  BY <1>4 DEF Poll, EventAccept
<1>5. ASSUME NEW c \in Client, Event(c)
      PROVE  Candidates!Next \/ UNCHANGED queue
  <2>1. ASSUME NEW type, EventIs(type, c)
        PROVE  ~client[c].queued
    BY <2>1, EventIsOfAClient
  <2>2. CASE EventRecv(c)
    <3>1. ~client[c].queued
      BY <2>1, <2>2 DEF EventRecv
    <3>2. queue' = Queued(queue, client[c], WithInput(client[c], AllInput(c)), c)
      BY <2>2 DEF EventRecv
    <3> QED BY <3>1, <3>2, QueuedIsPush DEF Candidates!Next
  <2>3. CASE EventFailure(c) \/ EventClosed(c) \/ EventFlushFailed(c)
    BY <2>1, <2>3, RemovalKeepsQueue DEF EventFailure, EventClosed, EventFlushFailed
  <2>4. CASE EventFlushed(c)
    BY <2>1, <2>4, RemovalKeepsQueue DEF EventFlushed
  <2>5. CASE EventFlushedInPart(c)
    BY <2>5 DEF EventFlushedInPart
  <2> QED BY <1>5, <2>2, <2>3, <2>4, <2>5 DEF Event
<1>6. CASE AcceptClient
  <2>1. PICK c \in FreeSlot : \E before, after : queue' = Queued(queue, before, after, c)
    BY <1>6, Zenon DEF AcceptClient
  <2>2. c \in Client /\ ~client[c].queued
    <3>1. c \in Client /\ c \notin pool
      BY DEF FreeSlot
    <3> QED BY <3>1 DEF IInv, Structures, Consistent
  <2> QED BY <2>1, <2>2, QueuedIsPush DEF Candidates!Next
<1>7. CASE AcceptRefused \/ AcceptEnd
  BY <1>7 DEF AcceptRefused, AcceptEnd
<1>8. CASE Peers
  BY <1>8 DEF Peers, PeerConnect, PeerSend, PeerFinish, PeerReset, PeerRead, Peer
<1>9. CASE UNCHANGED vars
  BY <1>9 DEF vars
<1> QED BY <1>1, <1>2, <1>3, <1>4, <1>5, <1>6, <1>7, <1>8, <1>9 DEF Next, Waiting, Accepting

\* The candidate queue of the server is a bounded queue and no more: push() always
\* finds room, and nobody leaves it but by being popped.
THEOREM CandidatesInOrder == Spec => CandidatesAreFifo
<1>1. Init => Candidates!Init
  BY DEF Init, Candidates!Init
<1>2. IInv /\ [Next]_vars => [Candidates!Next]_queue
  BY NextIsFifo
<1> QED BY <1>1, <1>2, Inductive, PTL DEF Spec, CandidatesAreFifo, Candidates!Spec

-----------------------------------------------------------------------------
(* The number of responses.                                                *)

\* The last response is the one that closes; write() may only promise to keep the
\* connection when another response is left.
Counted ==
    /\ \A c \in pool :
          client[c].num_served <= KeepAliveLimit + (IF client[c].close_when_flushed THEN 1 ELSE 0)
    /\ state = "CONTENT" /\ keep_alive # 0 => client[target].num_served < KeepAliveLimit

\* The clients cl have had as many responses as they have in this state.
SameCounts(cl) ==
    \A d \in Client : /\ cl[d].num_served = client[d].num_served
                      /\ cl[d].close_when_flushed = client[d].close_when_flushed

LEMMA CountsStay ==
    ASSUME IInv, Counted, pool' \subseteq pool, state' # "CONTENT",
           \A d \in pool' : /\ client'[d].num_served = client[d].num_served
                            /\ client'[d].close_when_flushed = client[d].close_when_flushed
    PROVE  Counted'
BY DEF Counted

LEMMA RemovalCounts ==
    ASSUME IInv, Counted, NEW c \in Client, NEW cl \in [Client -> ClientState], SameCounts(cl),
           NEW q, NEW l, NEW req, remove_client(c, cl, q, l, req), state' # "CONTENT"
    PROVE  Counted'
<1>1. pool' = pool \ {c} /\ client' = [cl EXCEPT ![c] = NewClient(NULL)]
  BY DEF remove_client
<1>2. pool \in SUBSET Client
  BY DEF IInv, Structures
<1>3. \A d \in pool' : client'[d] = cl[d] /\ d \in Client
  BY <1>1, <1>2
<1> QED BY <1>1, <1>3, CountsStay DEF SameCounts

LEMMA OutputCounts ==
    ASSUME IInv, Counted, state # "NOTARGET", NEW out,
           client' = [client EXCEPT ![target].out = out], pool' = pool
    PROVE  /\ \A d \in pool : /\ client'[d].num_served = client[d].num_served
                              /\ client'[d].close_when_flushed = client[d].close_when_flushed
           /\ target \in pool
<1>1. target \in pool /\ target \in Client /\ client \in [Client -> ClientState] /\ pool \in SUBSET Client
  BY DEF IInv, RequestFits, Structures, Clients
<1>2. ASSUME NEW d \in pool
      PROVE  /\ client'[d].num_served = client[d].num_served
             /\ client'[d].close_when_flushed = client[d].close_when_flushed
  BY <1>1 DEF ClientState
<1> QED BY <1>1, <1>2

\* write() grants what is asked for only below the limit.
LEMMA WriteCounts == IInv /\ Counted /\ Write => Counted'
<1> SUFFICES ASSUME IInv, Counted, Write PROVE Counted'
  OBVIOUS
<1>1. PICK out : client' = [client EXCEPT ![target].out = out]
  BY DEF Write
<1>2. /\ state # "NOTARGET" /\ keep_alive' = KeepAliveWritten
      /\ UNCHANGED <<target, pool>>
  BY DEF Write
<1>3. /\ \A d \in pool : /\ client'[d].num_served = client[d].num_served
                         /\ client'[d].close_when_flushed = client[d].close_when_flushed
      /\ target \in pool
  BY <1>1, <1>2, OutputCounts
<1>4. keep_alive' # 0 => client[target].num_served < KeepAliveLimit
  <2>1. CASE state \in {"STATUS", "HEADERS"}
    BY <1>2, <2>1 DEF KeepAliveWritten, should_keep_alive
  <2>2. CASE state = "CONTENT"
    BY <1>2, <2>2 DEF KeepAliveWritten, Counted
  <2> QED BY <1>2, <2>1, <2>2 DEF IInv, Control
<1> QED BY <1>2, <1>3, <1>4 DEF Counted

\* send() counts the response, and closes the connection unless one more may come.
LEMMA SendDoneCounts ==
    ASSUME WInv, Counted, state # "NOTARGET", SendDone, NoTarget
    PROVE  Counted'
<1> DEFINE c     == target
           keep  == KeepAliveWritten # 0
           n     == client[c].num_served
<1>1. c \in pool /\ c \in Client /\ ~client[c].close_when_flushed
  BY TargetAttended DEF Agrees
<1>2. client[c] \in ClientState /\ client \in [Client -> ClientState] /\ pool \in SUBSET Client
  BY <1>1 DEF WInv, IInv, Structures, Clients
<1>3. PICK r : /\ client' = [client EXCEPT ![c] = r]
               /\ r.num_served = n + 1
               /\ r.close_when_flushed = (client[c].close_when_flushed \/ ~keep)
  <2> DEFINE in    == SubSeq(client[c].in, req_bytes + 1, Len(client[c].in))
             again == keep /\ RQ!contains(in, -1)
             crlf  == IF keep THEN RQ!seek(in, -1) ELSE -1
             r     == [client[c] EXCEPT !.in = in, !.crlf = crlf, !.out = "pending",
                                        !.num_served = @ + 1, !.queued = @ \/ again,
                                        !.close_when_flushed = @ \/ ~keep]
  <2>1. client' = [client EXCEPT ![c] = r]
    BY DEF SendDone
  <2> HIDE DEF in, again, crlf, keep
  <2>2. r.num_served = n + 1 /\ r.close_when_flushed = (client[c].close_when_flushed \/ ~keep)
    BY <1>2 DEF ClientState
  <2> QED BY <2>1, <2>2
<1>4. pool' = pool /\ state' = "NOTARGET"
  BY DEF SendDone, NoTarget
<1>5. n \in Nat /\ KeepAliveLimit \in Nat
  BY <1>2, ServerAssumption DEF ClientState, ServerAssumption
<1>6. keep => n < KeepAliveLimit
  <2>1. CASE state \in {"STATUS", "HEADERS"}
    BY <2>1 DEF KeepAliveWritten, should_keep_alive
  <2>2. CASE state = "CONTENT"
    BY <2>2 DEF KeepAliveWritten, Counted
  <2> QED BY <2>1, <2>2 DEF WInv, IInv, Control
<1>7. n <= KeepAliveLimit
  BY <1>1, <1>5 DEF Counted
<1>8. /\ client'[c] = r /\ \A d \in pool : d # c => client'[d] = client[d]
  BY <1>1, <1>2, <1>3
<1> HIDE DEF keep, c, n
<1> SUFFICES ASSUME NEW d \in pool
             PROVE  client'[d].num_served <=
                       KeepAliveLimit + (IF client'[d].close_when_flushed THEN 1 ELSE 0)
  BY <1>4 DEF Counted
<1>9. CASE d = c
  <2>1. CASE keep
    BY <1>1, <1>3, <1>5, <1>6, <1>8, <1>9, <2>1
  <2>2. CASE ~keep
    <3>1. client'[d] = r
      BY <1>8, <1>9
    <3>2. r.close_when_flushed
      BY <1>3, <2>2, Zenon
    <3>3. r.num_served <= KeepAliveLimit + 1
      BY <1>3, <1>5, <1>7
    <3> QED BY <3>1, <3>2, <3>3
  <2> QED BY <2>1, <2>2
<1>10. CASE d # c
  BY <1>8, <1>10 DEF Counted
<1> QED BY <1>9, <1>10

LEMMA CallerCounts ==
    ASSUME WInv, Counted, Caller
    PROVE  Counted'
<1>1. IInv
  BY DEF WInv
<1>2. CASE Status
  <2>1. PICK out : client' = [client EXCEPT ![target].out = out]
    BY <1>2 DEF Status
  <2> QED BY <1>1, <1>2, <2>1, OutputCounts, CountsStay DEF Status
<1>3. CASE Header
  <2>1. PICK out : client' = [client EXCEPT ![target].out = out]
    BY <1>3 DEF Header
  <2> QED BY <1>1, <1>3, <2>1, OutputCounts, CountsStay DEF Header
<1>4. CASE Write
  BY <1>1, <1>4, WriteCounts
<1>5. ASSUME SendResponse
      PROVE  Counted'
  <2>1. state # "NOTARGET" /\ NoTarget /\ state' # "CONTENT"
    BY <1>5 DEF SendResponse, NoTarget
  <2>2. CASE SendDone
    BY <2>1, <2>2, SendDoneCounts
  <2>3. CASE SendFailed
    <3>1. target \in Client /\ client \in [Client -> ClientState] /\ SameCounts(client)
      BY <1>1, <2>1 DEF IInv, RequestFits, Structures, Clients, SameCounts
    <3> QED BY <1>1, <2>1, <2>3, <3>1, RemovalCounts DEF SendFailed
  <2> QED BY <1>5, <2>2, <2>3 DEF SendResponse
<1>6. CASE Wait
  BY <1>5, <1>6 DEF Wait, Counted, response
<1> QED BY <1>2, <1>3, <1>4, <1>5, <1>6 DEF Caller, Send

LEMMA PopCounts ==
    ASSUME IInv, Counted, Pop
    PROVE  Counted'
<1>1. Popping
  BY DEF Pop, PopInvalid, PopMalformedLength, PopReady, PopIncomplete
<1>2. candidate \in Client /\ Unqueued \in [Client -> ClientState] /\ state = "NOTARGET"
  BY <1>1, PoppedCandidate, NoResponseInWait DEF Clients, Popping
<1>3. SameCounts(Unqueued)
  <2>1. client \in [Client -> ClientState]
    BY DEF IInv, Structures, Clients
  <2> QED BY <1>2, <2>1 DEF SameCounts, Unqueued, ClientState
<1>4. ASSUME NEW req, DropCandidate(req)
      PROVE  Counted'
  <2>1. state' # "CONTENT"
    BY <1>2, <1>4 DEF DropCandidate, response
  <2> QED BY <1>2, <1>3, <1>4, <2>1, RemovalCounts DEF DropCandidate
<1>5. CASE PopReady \/ PopIncomplete
  <2>1. client' = Unqueued /\ pool' = pool /\ state' # "CONTENT"
    BY <1>2, <1>5 DEF PopReady, PopIncomplete, response
  <2>2. pool \in SUBSET Client
    BY DEF IInv, Structures
  <2> QED BY <1>3, <2>1, <2>2, CountsStay DEF SameCounts
<1> QED BY <1>4, <1>5 DEF Pop, PopInvalid, PopMalformedLength

LEMMA EventCounts ==
    ASSUME IInv, Counted, NEW c \in Client, Event(c)
    PROVE  Counted'
<1>1. client \in [Client -> ClientState] /\ client[c] \in ClientState /\ pool \in SUBSET Client
  BY DEF IInv, Structures, Clients
<1>2. SameCounts(client)
  BY DEF SameCounts
<1>3. state' = state /\ state = "NOTARGET"
  <2>1. \E type : EventIs(type, c)
    BY DEF Event, EventFailure, EventRecv, EventClosed, EventFlushed, EventFlushedInPart,
           EventFlushFailed
  <2>2. state' = state
    BY DEF Event, EventFailure, EventRecv, EventClosed, EventFlushed, EventFlushedInPart,
           EventFlushFailed, response
  <2> QED BY <2>1, <2>2, EventIsOfAClient
<1>4. ASSUME remove_client(c, client, queue, EventTaken, request)
      PROVE  Counted'
  BY <1>1, <1>2, <1>3, <1>4, RemovalCounts
<1>5. CASE EventRecv(c)
  <2> DEFINE r == WithInput(client[c], AllInput(c))
  <2>1. client' = [client EXCEPT ![c] = r] /\ pool' = pool
    BY <1>5 DEF EventRecv
  <2>2. r.num_served = client[c].num_served /\ r.close_when_flushed = client[c].close_when_flushed
    BY <1>1 DEF WithInput, ClientState
  <2> HIDE DEF r
  <2>3. \A d \in pool : /\ client'[d].num_served = client[d].num_served
                        /\ client'[d].close_when_flushed = client[d].close_when_flushed
    BY <1>1, <2>1, <2>2
  <2> QED BY <1>3, <2>1, <2>3, CountsStay
<1>6. CASE EventFlushed(c) /\ ~client[c].close_when_flushed
  <2> DEFINE r == [client[c] EXCEPT !.out = "empty"]
  <2>1. client' = [client EXCEPT ![c] = r] /\ pool' = pool
    BY <1>6 DEF EventFlushed
  <2>2. r.num_served = client[c].num_served /\ r.close_when_flushed = client[c].close_when_flushed
    BY <1>1 DEF ClientState
  <2> HIDE DEF r
  <2>3. \A d \in pool : /\ client'[d].num_served = client[d].num_served
                        /\ client'[d].close_when_flushed = client[d].close_when_flushed
    BY <1>1, <2>1, <2>2
  <2> QED BY <1>3, <2>1, <2>3, CountsStay
<1>7. CASE EventFlushedInPart(c)
  BY <1>3, <1>7, CountsStay DEF EventFlushedInPart
<1> QED BY <1>4, <1>5, <1>6, <1>7
        DEF Event, EventFailure, EventClosed, EventFlushed, EventFlushFailed

LEMMA AcceptClientCounts == IInv /\ Counted /\ AcceptClient => Counted'
<1> SUFFICES ASSUME IInv, Counted, AcceptClient PROVE Counted'
  OBVIOUS
<1>1. pc = "accepting" /\ state' = state
  BY DEF AcceptClient, CanAccept, response
<1>2. state = "NOTARGET"
  BY <1>1, NoResponseInWait
<1>3. PICK c \in FreeSlot, fd \in Fd :
         \E in : /\ pool' = pool \cup {c}
                 /\ client' = [client EXCEPT ![c] = WithInput(NewClient(fd), in)]
  BY ZenonT(60) DEF AcceptClient, FreeDescriptor
<1>4. PICK in : /\ pool' = pool \cup {c}
                /\ client' = [client EXCEPT ![c] = WithInput(NewClient(fd), in)]
  BY <1>3
<1>5. c \in Client /\ c \notin pool /\ pool \in SUBSET Client /\ client \in [Client -> ClientState]
  BY DEF FreeSlot, IInv, Structures, Clients
<1>6. WithInput(NewClient(fd), in).num_served = 0
  BY DEF WithInput, NewClient
<1>7. KeepAliveLimit \in Nat
  BY ServerAssumption DEF ServerAssumption
<1> SUFFICES ASSUME NEW d \in pool'
             PROVE  client'[d].num_served <=
                       KeepAliveLimit + (IF client'[d].close_when_flushed THEN 1 ELSE 0)
  BY <1>1, <1>2 DEF Counted
<1>8. CASE d = c
  BY <1>4, <1>5, <1>6, <1>7, <1>8
<1>9. CASE d # c
  BY <1>4, <1>5, <1>9 DEF Counted
<1> QED BY <1>8, <1>9

LEMMA NextCounts == WInv /\ Counted /\ [Next]_vars => Counted'
<1> SUFFICES ASSUME WInv, Counted, [Next]_vars PROVE Counted'
  OBVIOUS
<1>0. IInv
  BY DEF WInv
<1>1. CASE Listen
  BY <1>1 DEF Listen, Counted, response
<1>2. CASE Caller
  BY <1>2, CallerCounts
<1>3. CASE Waiting
  <2>1. CASE Poll \/ EventAccept
    BY <2>1 DEF Poll, EventAccept, Counted, response
  <2> QED BY <1>0, <1>3, <2>1, PopCounts, EventCounts DEF Waiting
<1>4. CASE Accepting
  <2>1. CASE AcceptRefused \/ AcceptEnd
    BY <2>1 DEF AcceptRefused, AcceptEnd, Counted, response
  <2> QED BY <1>0, <1>4, <2>1, AcceptClientCounts DEF Accepting
<1>5. CASE Peers
  BY <1>5 DEF Peers, PeerConnect, PeerSend, PeerFinish, PeerReset, PeerRead, Peer, Counted, response
<1>6. CASE UNCHANGED vars
  BY <1>6 DEF vars, response, Counted
<1> QED BY <1>1, <1>2, <1>3, <1>4, <1>5, <1>6 DEF Next

\* Whatever the load was when each response was written, and whatever the caller
\* wished, a connection ends with the response behind the limit.
THEOREM ResponsesLimited == Spec => []ServedWithinLimit
<1>1. Init => Counted
  BY DEF Init, Counted
<1>2. WInv /\ Counted /\ [Next]_vars => Counted'
  BY NextCounts
<1>3. WInv /\ Counted => ServedWithinLimit
  <2> SUFFICES ASSUME WInv, Counted, NEW c \in pool
               PROVE  client[c].num_served <= KeepAliveLimit + 1
    BY DEF ServedWithinLimit
  <2>1. client[c].num_served \in Nat /\ KeepAliveLimit \in Nat
    BY ServerAssumption DEF WInv, IInv, Structures, Clients, ClientState, ServerAssumption
  <2> QED BY <2>1 DEF Counted
<1> QED BY <1>1, <1>2, <1>3, EventsAgree, PTL DEF Spec

-----------------------------------------------------------------------------
(* Requests that have been read.                                           *)

\* No unit of s belongs to a request with a Content-Length.
Bodiless(s) == \A i \in 1 .. Len(s) : s[i].req.cl = RQ!NoLength

\* Peers send requests without bodies.
NoBodies == \A s \in Streams : Bodiless(s)

\* NoRequestForgotten for a client with the contents r.
Owed(r, served) == RQ!Terminators(r.in) # {} => r.queued \/ served \/ r.close_when_flushed

\* With no body on its way a candidate is popped either to be served or with its
\* head incomplete, and the Request wait() fills holds no header that decides.
Remembered ==
    /\ request.headers = <<>>
    /\ \A c \in pool : Bodiless(client[c].in) /\ Owed(client[c], c = target)
    /\ \A fd \in Fd : Bodiless(conn[fd].rx) /\ Bodiless(conn[fd].todo)

LEMMA PartIsBodiless ==
    ASSUME NEW s \in Seq(RQ!Unit), Bodiless(s), NEW m \in Int, NEW n \in Int, m >= 1, n <= Len(s)
    PROVE  Bodiless(SubSeq(s, m, n))
<1>1. CASE m > n
  BY <1>1, SubSeqProperties, EmptySeq DEF Bodiless
<1>2. CASE m <= n
  <2>1. /\ Len(SubSeq(s, m, n)) = n - m + 1
        /\ \A i \in 1 .. n - m + 1 : SubSeq(s, m, n)[i] = s[m + i - 1]
    BY <1>2, SubSeqProperties
  <2> QED BY <1>2, <2>1 DEF Bodiless
<1> QED BY <1>1, <1>2

LEMMA BothAreBodiless ==
    ASSUME NEW s \in Seq(RQ!Unit), NEW t \in Seq(RQ!Unit), Bodiless(s), Bodiless(t)
    PROVE  Bodiless(s \o t)
BY ConcatProperties DEF Bodiless

LEMMA NothingDangles ==
    ASSUME NEW c \in Client
    PROVE  RQ!Dangling(<<>>, c) = <<>>
<1>1. <<>> \in Seq(RQ!HeaderEntry) /\ Len(<<>>) = 0
  BY EmptySeq
<1>2. RQ!Dangling(<<>>, c) \in Seq(RQ!HeaderEntry)
  BY <1>1, HeadersStayTyped, EmptySeq
<1>3. DOMAIN RQ!Dangling(<<>>, c) = 1 .. 0
  BY <1>1 DEF RQ!Dangling
<1>4. Len(RQ!Dangling(<<>>, c)) = 0
  BY <1>2, <1>3
<1> QED BY <1>2, <1>4, EmptySeq

\* A search that starts anew stops at the end of a head when there is one, and
\* one that has stopped somewhere stays there.
LEMMA HeadIsFound ==
    ASSUME NEW in \in Seq(RQ!Unit), NEW crlf, RQ!Terminators(in) # {}
    PROVE  RQ!seek(in, crlf) > -1
<1>1. CASE crlf > -1
  BY <1>1 DEF RQ!seek
<1>2. CASE ~(crlf > -1)
  <2>1. RQ!Terminators(in) \subseteq Nat
    BY DEF RQ!Terminators
  <2>2. \E m \in RQ!Terminators(in) : \A k \in RQ!Terminators(in) : m <= k
    BY <2>1, NatMinimum
  <2> QED BY <1>2, <2>1, <2>2 DEF RQ!seek
<1> QED BY <1>1, <1>2

\* A client that holds a whole head after a read is a candidate.
LEMMA InputIsOwed ==
    ASSUME NEW r, r \in ClientState, NEW in \in Seq(RQ!Unit), NEW served
    PROVE  WithInput(r, in).in = in /\ Owed(WithInput(r, in), served)
<1> DEFINE k == RQ!seek(in, r.crlf)
           x == r.queued \/ k > -1
<1>1. WithInput(r, in) = [r EXCEPT !.in = in, !.crlf = k, !.queued = x]
  BY DEF WithInput
<1>2. RQ!Terminators(in) # {} => x
  BY HeadIsFound
<1> HIDE DEF x, k
<1>3. WithInput(r, in).in = in /\ WithInput(r, in).queued = x
  BY <1>1 DEF ClientState
<1> QED BY <1>2, <1>3 DEF Owed

LEMMA RemovalRemembers ==
    ASSUME IInv, Remembered, NEW c \in Client, NEW cl \in [Client -> ClientState],
           \A d \in pool : d # c => cl[d] = client[d],
           NEW q, NEW l, NEW req \in Requests, req.headers = <<>>,
           remove_client(c, cl, q, l, req), target' = target \/ target = c
    PROVE  Remembered'
<1>1. /\ pool' = pool \ {c} /\ client' = [cl EXCEPT ![c] = NewClient(NULL)]
      /\ conn' = [conn EXCEPT ![cl[c].sock] = NoConn]
      /\ request' = [req EXCEPT !.headers = RQ!Dangling(@, c)]
  BY DEF remove_client
<1>2. pool \in SUBSET Client /\ conn \in [Fd -> ConnState]
  BY DEF IInv, Structures, Owned
<1>3. request'.headers = <<>>
  BY <1>1, NothingDangles DEF Requests
<1>4. \A d \in pool' : Bodiless(client'[d].in) /\ Owed(client'[d], d = target')
  <2> SUFFICES ASSUME NEW d \in pool'
               PROVE  Bodiless(client'[d].in) /\ Owed(client'[d], d = target')
    OBVIOUS
  <2>1. d \in pool /\ d # c /\ client'[d] = client[d]
    BY <1>1, <1>2
  <2> QED BY <2>1 DEF Remembered, Owed
<1>5. \A fd \in Fd : Bodiless(conn'[fd].rx) /\ Bodiless(conn'[fd].todo)
  <2>1. Bodiless(NoConn.rx) /\ Bodiless(NoConn.todo)
    BY EmptySeq DEF NoConn, Bodiless
  <2>2. \A fd \in Fd : conn'[fd] = conn[fd] \/ conn'[fd] = NoConn
    BY <1>1, <1>2
  <2> QED BY <2>1, <2>2 DEF Remembered
<1> QED BY <1>3, <1>4, <1>5 DEF Remembered

\* Only the output of the clients changes.
LEMMA OutputRemembers ==
    ASSUME IInv, Remembered, NEW c \in Client, NEW out, client' = [client EXCEPT ![c].out = out],
           UNCHANGED <<pool, request, conn, target>>
    PROVE  Remembered'
<1>1. pool \in SUBSET Client /\ client \in [Client -> ClientState]
  BY DEF IInv, Structures, Clients
<1>2. ASSUME NEW d \in pool
      PROVE  /\ client'[d].in = client[d].in /\ client'[d].queued = client[d].queued
             /\ client'[d].close_when_flushed = client[d].close_when_flushed
  BY <1>1 DEF ClientState
<1> QED BY <1>2 DEF Remembered, Owed

\* What is behind the request that was served makes its client a candidate again.
LEMMA SendDoneRemembers ==
    ASSUME IInv, Remembered, state # "NOTARGET", SendDone, NoTarget
    PROVE  Remembered'
<1> DEFINE c     == target
           keep  == KeepAliveWritten # 0
           in    == SubSeq(client[c].in, req_bytes + 1, Len(client[c].in))
           again == keep /\ RQ!contains(in, -1)
           crlf  == IF keep THEN RQ!seek(in, -1) ELSE -1
           r     == [client[c] EXCEPT !.in = in, !.crlf = crlf, !.out = "pending",
                                      !.num_served = @ + 1, !.queued = @ \/ again,
                                      !.close_when_flushed = @ \/ ~keep]
<1>1. c \in pool /\ c \in Client /\ pool \in SUBSET Client /\ req_bytes \in Nat
  BY HeadLength DEF IInv, RequestFits, Structures
<1>2. client[c] \in ClientState /\ client \in [Client -> ClientState]
  BY <1>1 DEF IInv, Structures, Clients
<1>3. client' = [client EXCEPT ![c] = r]
  BY DEF SendDone
<1>4. in \in Seq(RQ!Unit) /\ Bodiless(in)
  <2>1. client[c].in \in Seq(RQ!Unit) /\ Bodiless(client[c].in) /\ Len(client[c].in) \in Nat
    BY <1>1, <1>2 DEF ClientState, Remembered
  <2> QED BY <1>1, <2>1, SubSeqProperties, PartIsBodiless
<1>5. RQ!Terminators(in) # {} => again \/ ~keep
  <2> HIDE DEF in
  <2>1. RQ!seek(in, -1) \in -1 .. Len(in) /\ Len(in) \in Nat
    BY <1>4, SeekBounds
  <2>2. RQ!Terminators(in) # {} => RQ!seek(in, -1) > -1
    BY <1>4, HeadIsFound
  <2>3. RQ!Terminators(in) # {} => RQ!contains(in, -1)
    BY <2>1, <2>2 DEF RQ!contains
  <2> QED BY <2>3
<1> HIDE DEF in, again, crlf, keep
<1>6. /\ r.in = in /\ r.queued = (client[c].queued \/ again)
      /\ r.close_when_flushed = (client[c].close_when_flushed \/ ~keep)
  BY <1>2 DEF ClientState
<1>7. Owed(r, FALSE) /\ Bodiless(r.in)
  BY <1>4, <1>5, <1>6, Zenon DEF Owed
<1> HIDE DEF r
<1>8. client'[c] = r /\ \A d \in pool : d # c => client'[d] = client[d]
  BY <1>1, <1>2, <1>3
<1>9. pool' = pool /\ conn' = conn /\ request' = NewRequest
  BY DEF SendDone
<1> SUFFICES ASSUME NEW d \in pool
             PROVE  Bodiless(client'[d].in) /\ Owed(client'[d], d = target')
  BY <1>9 DEF Remembered, NewRequest
<1>10. CASE d = c
  BY <1>7, <1>8, <1>10 DEF Owed
<1>11. CASE d # c
  BY <1>8, <1>11 DEF Remembered, Owed
<1> QED BY <1>10, <1>11

LEMMA CallerRemembers ==
    ASSUME WInv, Remembered, Caller
    PROVE  Remembered'
<1>1. IInv
  BY DEF WInv
<1>2. ASSUME state # "NOTARGET", NEW out, client' = [client EXCEPT ![target].out = out],
             UNCHANGED <<pool, request, conn, target>>
      PROVE  Remembered'
  <2>1. target \in Client
    BY <1>1, <1>2 DEF IInv, RequestFits, Structures
  <2> QED BY <1>1, <1>2, <2>1, OutputRemembers
<1>3. CASE Status \/ Header \/ Write
  <2>1. \E out : client' = [client EXCEPT ![target].out = out]
    BY <1>3 DEF Status, Header, Write
  <2>2. state # "NOTARGET" /\ UNCHANGED <<pool, request, conn, target>>
    BY <1>3 DEF Status, Header, Write
  <2> QED BY <1>2, <2>1, <2>2
<1>4. ASSUME SendResponse
      PROVE  Remembered'
  <2>1. state # "NOTARGET" /\ NoTarget
    BY <1>4 DEF SendResponse
  <2>2. CASE SendDone
    BY <1>1, <2>1, <2>2, SendDoneRemembers
  <2>3. CASE SendFailed
    <3>1. target \in Client /\ client \in [Client -> ClientState]
      BY <1>1, <2>1 DEF IInv, RequestFits, Structures, Clients
    <3>2. NewRequest \in Requests /\ NewRequest.headers = <<>>
      BY EmptySeq DEF NewRequest, Requests
    <3> QED BY <1>1, <2>3, <3>1, <3>2, RemovalRemembers DEF SendFailed
  <2> QED BY <1>4, <2>2, <2>3 DEF SendResponse
<1>5. CASE Wait
  BY <1>4, <1>5 DEF Wait, Remembered, response
<1> QED BY <1>3, <1>4, <1>5 DEF Caller, Send


\* Without a Content-Length to wait for, a head that is popped and is not whole
\* has no end in the buffer.
LEMMA IncompleteHasNoEnd ==
    ASSUME IInv, Popping, TRUE \in RQ!ParseResults(CandidateHead),
           Len(client[candidate].in) < RQ!HEAD_LEN
    PROVE  RQ!Terminators(client[candidate].in) = {}
<1> DEFINE in == client[candidate].in
           k  == RQ!seek(in, client[candidate].crlf)
<1>1. in \in Seq(RQ!Unit) /\ client[candidate].crlf \in -1 .. Len(in)
  BY PoppedCandidate DEF IInv, Structures, Clients
<1>2. k \in -1 .. Len(in) /\ Len(in) \in Nat
  BY <1>1, SeekBounds
<1>3. CandidateHead = SubSeq(in, 1, k)
  BY DEF CandidateHead, RQ!slice_until
<1> HIDE DEF in, k
<1>4. CandidateHead # <<>>
  BY ParsedHeadIsNotEmpty
<1>5. k >= 1 /\ Len(CandidateHead) = k /\ \A i \in 1 .. k : CandidateHead[i] = in[i]
  <2>1. \A n \in Int : n <= Len(in) /\ 1 > n => SubSeq(in, 1, n) = <<>>
    BY <1>1, SubSeqProperties
  <2>2. k >= 1
    BY <1>2, <1>3, <1>4, <2>1
  <2> QED BY <1>1, <1>2, <1>3, <2>2, SubSeqProperties
<1>6. Len(in) < RQ!HEAD_LEN
  BY DEF in
<1>7. RQ!LacksLastByte(CandidateHead)
  <2>1. Len(CandidateHead) # RQ!HEAD_LEN
    BY <1>2, <1>5, <1>6, HeadLength
  <2> QED BY <2>1 DEF RQ!ParseResults, RQ!WellFormedHead
<1>8. k = RQ!HEAD_LEN - 1 /\ Len(in) = k
  BY <1>2, <1>5, <1>6, <1>7, HeadLength DEF RQ!LacksLastByte
<1>9. \A i \in 1 .. k : in[i].part = HeadParts[i]
  BY <1>5, <1>7, <1>8 DEF RQ!LacksLastByte, RQ!BeginsHead
<1>10. \A i \in 1 .. k : HeadParts[i] # "end"
  BY <1>8, ServerAssumption DEF ServerAssumption, RQ!HEAD_LEN
<1> QED BY <1>8, <1>9, <1>10 DEF RQ!Terminators, in

LEMMA PopRemembers ==
    ASSUME WInv, Remembered, Pop
    PROVE  Remembered'
<1> DEFINE in == client[candidate].in
<1>1. IInv /\ Popping
  BY DEF WInv, Pop, PopInvalid, PopMalformedLength, PopReady, PopIncomplete
<1>2. /\ candidate \in pool /\ candidate \in Client
      /\ client \in [Client -> ClientState] /\ Unqueued \in [Client -> ClientState]
      /\ pool \in SUBSET Client /\ request \in Requests
      /\ \A d \in pool : d # target
  BY <1>1, PoppedCandidate, NobodyServed DEF Popping, IInv, Structures, Clients
<1>3. /\ Unqueued[candidate].in = in
      /\ Unqueued[candidate].close_when_flushed = client[candidate].close_when_flushed
      /\ \A d \in Client : d # candidate => Unqueued[d] = client[d]
  BY <1>2 DEF Unqueued, ClientState
<1>4. Bodiless(CandidateHead) /\ CandidateHead \in Seq(RQ!Unit)
  <2>1. in \in Seq(RQ!Unit) /\ client[candidate].crlf \in -1 .. Len(in) /\ Bodiless(in)
    BY <1>1, <1>2 DEF IInv, Structures, Clients, ClientState, Remembered
  <2>2. RQ!seek(in, client[candidate].crlf) \in -1 .. Len(in) /\ Len(in) \in Nat
    BY <2>1, SeekBounds
  <2>3. CandidateHead = SubSeq(in, 1, RQ!seek(in, client[candidate].crlf))
    BY DEF CandidateHead, RQ!slice_until
  <2> HIDE DEF in
  <2>4. Bodiless(SubSeq(in, 1, RQ!seek(in, client[candidate].crlf)))
    BY <2>1, <2>2, PartIsBodiless
  <2> QED BY <1>1, <2>3, <2>4, PoppedCandidate
<1>5. CandidateHead # <<>> => RQ!Parsed(request.headers, CandidateHead, candidate) = <<>>
  <2>1. CandidateHead # <<>> => CandidateHead[1].req.cl = RQ!NoLength
    BY <1>4, EmptySeq DEF Bodiless
  <2> QED BY <2>1 DEF RQ!Parsed, Remembered
<1>6. TRUE \in RQ!ParseResults(CandidateHead) =>
         ParsedRequest \in Requests /\ ParsedRequest.headers = <<>>
  <2> HAVE TRUE \in RQ!ParseResults(CandidateHead)
  <2>1. RQ!Parsed(request.headers, CandidateHead, candidate) = <<>>
    BY <1>5, ParsedHeadIsNotEmpty
  <2>2. ParsedRequest.headers = <<>>
    BY <1>2, <2>1 DEF ParsedRequest, Requests
  <2> QED BY <1>1, <2>2, PoppedCandidate
<1>7. ASSUME NEW req \in Requests, req.headers = <<>>, DropCandidate(req)
      PROVE  Remembered'
  <2>1. /\ target' = target
        /\ remove_client(candidate, Unqueued, QU!Popped(queue), loop, req)
    BY <1>7 DEF DropCandidate, response
  <2>2. \A d \in pool : d # candidate => Unqueued[d] = client[d]
    BY <1>2, <1>3
  <2> QED BY <1>1, <1>2, <1>7, <2>1, <2>2, RemovalRemembers
<1>8. CASE PopInvalid
  <2>1. PICK headers \in RQ!ParsedInVain(request.headers, CandidateHead, candidate) :
           DropCandidate([request EXCEPT !.headers = headers])
    BY <1>8 DEF PopInvalid
  <2>2. headers = <<>>
    BY <1>5 DEF RQ!ParsedInVain, RQ!BeginsHead, Remembered
  <2>3. [request EXCEPT !.headers = headers] \in Requests
        /\ [request EXCEPT !.headers = headers].headers = <<>>
    BY <1>2, <2>2, EmptySeq DEF Requests
  <2> QED BY <1>7, <2>1, <2>3
<1>9. CASE PopMalformedLength
  BY <1>6, <1>7, <1>9 DEF PopMalformedLength
<1>10. ASSUME client' = Unqueued, UNCHANGED <<pool, conn>>, request'.headers = <<>>,
              Owed(Unqueued[candidate], candidate = target')
       PROVE  Remembered'
  <2> SUFFICES ASSUME NEW d \in pool
               PROVE  Bodiless(client'[d].in) /\ Owed(client'[d], d = target')
    BY <1>10 DEF Remembered
  <2>1. CASE d = candidate
    BY <1>2, <1>3, <1>10, <2>1 DEF Remembered
  <2>2. CASE d # candidate
    BY <1>2, <1>3, <1>10, <2>2 DEF Remembered, Owed
  <2> QED BY <2>1, <2>2
<1>11. CASE PopReady
  <2>1. PICK body : request' = [ParsedRequest EXCEPT !.body = body]
    BY <1>11, Zenon DEF PopReady
  <2>2. request'.headers = <<>>
    BY <1>6, <1>11, <2>1 DEF PopReady, Requests
  <2>3. /\ client' = Unqueued /\ UNCHANGED <<pool, conn>> /\ target' = candidate
    BY <1>11 DEF PopReady
  <2> QED BY <1>10, <2>2, <2>3 DEF Owed
<1>12. CASE PopIncomplete
  <2>1. /\ TRUE \in RQ!ParseResults(CandidateHead) /\ request' = ParsedRequest
        /\ client' = Unqueued /\ UNCHANGED <<pool, conn>>
    BY <1>12 DEF PopIncomplete
  <2>2. RQ!ContentLengths(ParsedRequest.headers) = {0}
    BY <1>6, <2>1, EmptySeq DEF RQ!ContentLengths
  <2>3. Len(in) < RQ!HEAD_LEN
    BY <1>12, <2>2, HeadLength DEF PopIncomplete
  <2>4. RQ!Terminators(in) = {}
    BY <1>1, <2>1, <2>3, IncompleteHasNoEnd
  <2>5. Owed(Unqueued[candidate], candidate = target')
    BY <1>3, <2>4 DEF Owed
  <2> QED BY <1>6, <1>10, <2>1, <2>5
<1> QED BY <1>8, <1>9, <1>11, <1>12 DEF Pop

LEMMA EventRemembers ==
    ASSUME WInv, Remembered, NEW c \in Client, Event(c)
    PROVE  Remembered'
<1>1. /\ client \in [Client -> ClientState] /\ client[c] \in ClientState
      /\ pool \in SUBSET Client /\ request \in Requests /\ IInv /\ conn \in [Fd -> ConnState]
  BY DEF WInv, IInv, Structures, Clients, Owned
<1>2. target' = target
  BY DEF Event, EventFailure, EventRecv, EventClosed, EventFlushed, EventFlushedInPart,
         EventFlushFailed, response
<1>3. ASSUME remove_client(c, client, queue, EventTaken, request)
      PROVE  Remembered'
  BY <1>1, <1>2, <1>3, RemovalRemembers DEF Remembered
<1>4. CASE EventRecv(c)
  <2> DEFINE fd == client[c].sock
             in == AllInput(c)
             r  == WithInput(client[c], in)
  <2>1. /\ client' = [client EXCEPT ![c] = r] /\ pool' = pool
        /\ conn' = [conn EXCEPT ![fd].rx = <<>>]
        /\ EventIs("RECV", c)
        /\ \E headers \in {request.headers, RQ!Dangling(request.headers, c)} :
              request' = [request EXCEPT !.headers = headers]
    BY <1>4 DEF EventRecv
  <2>2. c \in pool /\ fd \in Fd
    BY <1>1, <2>1, EventIsOfAClient, SocketsDiffer
  <2>3. in \in Seq(RQ!Unit) /\ Bodiless(in)
    <3>1. client[c].in \in Seq(RQ!Unit) /\ conn[fd].rx \in Seq(RQ!Unit)
      BY <1>1, <2>2 DEF ClientState, ConnState
    <3>2. Bodiless(client[c].in) /\ Bodiless(conn[fd].rx)
      BY <2>2 DEF Remembered
    <3> QED BY <3>1, <3>2, BothAreBodiless, ConcatProperties DEF AllInput
  <2> HIDE DEF in
  <2>4. r.in = in /\ Owed(r, c = target)
    BY <1>1, <2>3, InputIsOwed
  <2> HIDE DEF r
  <2>5. request'.headers = <<>>
    <3>1. RQ!Dangling(request.headers, c) = request.headers /\ request.headers = <<>>
      BY NothingDangles DEF Remembered
    <3> QED BY <1>1, <2>1, <3>1 DEF Requests
  <2>6. \A d \in pool : Bodiless(client'[d].in) /\ Owed(client'[d], d = target')
    <3> SUFFICES ASSUME NEW d \in pool
                 PROVE  Bodiless(client'[d].in) /\ Owed(client'[d], d = target')
      OBVIOUS
    <3>1. CASE d = c
      BY <1>1, <1>2, <2>1, <2>3, <2>4, <3>1
    <3>2. CASE d # c
      BY <1>1, <1>2, <2>1, <3>2 DEF Remembered
    <3> QED BY <3>1, <3>2
  <2>7. ASSUME NEW f \in Fd
        PROVE  Bodiless(conn'[f].rx) /\ Bodiless(conn'[f].todo)
    <3>1. conn'[f].todo = conn[f].todo /\ (conn'[f].rx = conn[f].rx \/ conn'[f].rx = <<>>)
      <4>1. conn[f] \in ConnState
        BY <1>1
      <4>2. conn'[f] = conn[f] \/ conn'[f] = [conn[f] EXCEPT !.rx = <<>>]
        BY <1>1, <2>1, <2>2
      <4> QED BY <4>1, <4>2 DEF ConnState
    <3> QED BY <3>1, EmptySeq DEF Remembered, Bodiless
  <2> QED BY <2>1, <2>5, <2>6, <2>7 DEF Remembered
<1>5. CASE EventFlushed(c) /\ ~client[c].close_when_flushed
  <2>1. client' = [client EXCEPT ![c].out = "empty"] /\ UNCHANGED <<pool, request, conn, target>>
    BY <1>2, <1>5 DEF EventFlushed
  <2> QED BY <1>1, <2>1, OutputRemembers
<1>6. CASE EventFlushedInPart(c)
  <2>1. conn' = [conn EXCEPT ![client[c].sock].room = FALSE] /\ UNCHANGED <<pool, request, client>>
    BY <1>6 DEF EventFlushedInPart
  <2>2. \A f \in Fd : conn'[f].rx = conn[f].rx /\ conn'[f].todo = conn[f].todo
    BY <1>1, <2>1 DEF ConnState
  <2> QED BY <1>2, <2>1, <2>2 DEF Remembered
<1> QED BY <1>3, <1>4, <1>5, <1>6
        DEF Event, EventFailure, EventClosed, EventFlushed, EventFlushFailed

LEMMA AcceptClientRemembers == NoBodies /\ IInv /\ Remembered /\ AcceptClient => Remembered'
<1> SUFFICES ASSUME NoBodies, IInv, Remembered, AcceptClient PROVE Remembered'
  OBVIOUS
<1>1. PICK c \in FreeSlot, fd \in {f \in Fd : conn[f].st = "none"}, stream \in Streams :
         \E n \in 0 .. Len(stream) :
            LET cl == WithInput(NewClient(fd), SubSeq(stream, 1, n))
            IN  /\ pool' = pool \cup {c}
                /\ loop' = EL!add(loop, fd, {"RECV"}, c)
                /\ client' = [client EXCEPT ![c] = cl]
                /\ queue' = Queued(queue, NewClient(fd), cl, c)
                /\ conn' = [conn EXCEPT ![fd] =
                      [st |-> "open", rx |-> <<>>, room |-> TRUE,
                       todo |-> SubSeq(stream, n + 1, Len(stream))]]
  BY DEF AcceptClient, FreeDescriptor
<1>3. PICK n \in 0 .. Len(stream) :
            /\ pool' = pool \cup {c}
            /\ client' = [client EXCEPT ![c] = WithInput(NewClient(fd), SubSeq(stream, 1, n))]
            /\ conn' = [conn EXCEPT ![fd] =
                  [st |-> "open", rx |-> <<>>, room |-> TRUE,
                   todo |-> SubSeq(stream, n + 1, Len(stream))]]
  BY <1>1
<1>4. stream \in Seq(RQ!Unit) /\ Bodiless(stream) /\ Len(stream) \in Nat
  BY ServerAssumption DEF ServerAssumption, NoBodies
<1> DEFINE in   == SubSeq(stream, 1, n)
           todo == SubSeq(stream, n + 1, Len(stream))
<1>5. in \in Seq(RQ!Unit) /\ Bodiless(in) /\ Bodiless(todo)
  BY <1>4, SubSeqProperties, PartIsBodiless
<1> HIDE DEF in, todo
<1>6. NewClient(fd) \in ClientState
  BY EmptySeq DEF NewClient, ClientState
<1> DEFINE r == WithInput(NewClient(fd), in)
<1>7. r.in = in /\ Owed(r, FALSE)
  BY <1>5, <1>6, InputIsOwed
<1> HIDE DEF r
<1>8. /\ c \in Client /\ client \in [Client -> ClientState] /\ pool \in SUBSET Client
      /\ conn \in [Fd -> ConnState]
  BY DEF FreeSlot, IInv, Structures, Clients, Owned
<1>9. UNCHANGED <<request, target>>
  BY DEF AcceptClient, response
<1>10. pool' = pool \cup {c} /\ client' = [client EXCEPT ![c] = r]
  BY <1>3 DEF in, r
<1>11. ASSUME NEW d \in pool'
       PROVE  Bodiless(client'[d].in) /\ Owed(client'[d], d = target')
  <2>1. CASE d = c
    BY <1>5, <1>7, <1>8, <1>10, <2>1 DEF Owed
  <2>2. CASE d # c
    BY <1>8, <1>9, <1>10, <2>2 DEF Remembered
  <2> QED BY <2>1, <2>2
<1>12. ASSUME NEW f \in Fd
       PROVE  Bodiless(conn'[f].rx) /\ Bodiless(conn'[f].todo)
  <2>1. CASE f = fd
    <3>1. conn'[f].rx = <<>> /\ conn'[f].todo = todo
      BY <1>3, <1>8, <2>1 DEF todo
    <3> QED BY <1>5, <3>1, EmptySeq DEF Bodiless
  <2>2. CASE f # fd
    BY <1>3, <1>8, <2>2 DEF Remembered
  <2> QED BY <2>1, <2>2
<1> QED BY <1>9, <1>11, <1>12 DEF Remembered

LEMMA PeersRemember == IInv /\ Remembered /\ Peers => Remembered'
<1> SUFFICES ASSUME IInv, Remembered, Peers PROVE Remembered'
  OBVIOUS
<1>1. CASE PeerConnect
  BY <1>1 DEF PeerConnect, Remembered, response
<1>2. ASSUME NEW fd \in Fd, PeerSend(fd) \/ PeerFinish(fd) \/ PeerReset(fd) \/ PeerRead(fd)
      PROVE  Remembered'
  <2>1. conn \in [Fd -> ConnState] /\ conn[fd] \in ConnState
    BY DEF IInv, Structures, Owned
  <2>2. Bodiless(conn[fd].rx) /\ Bodiless(conn[fd].todo)
    BY DEF Remembered
  <2>3. ASSUME NEW k, Peer(fd, k), Bodiless(k.rx), Bodiless(k.todo)
        PROVE  Remembered'
    <3>1. conn' = [conn EXCEPT ![fd] = k] /\ UNCHANGED <<request, pool, client, target>>
      BY <2>3 DEF Peer, response
    <3>2. \A f \in Fd : conn'[f] = conn[f] \/ conn'[f] = k
      BY <2>1, <3>1
    <3> QED BY <2>3, <3>1, <3>2 DEF Remembered
  <2>4. CASE PeerSend(fd)
    <3>1. PICK n \in 1 .. Len(conn[fd].todo) :
             Peer(fd, [conn[fd] EXCEPT !.rx = @ \o SubSeq(conn[fd].todo, 1, n),
                                       !.todo = SubSeq(@, n + 1, Len(@))])
      BY <2>4 DEF PeerSend
    <3> DEFINE rx   == conn[fd].rx \o SubSeq(conn[fd].todo, 1, n)
               todo == SubSeq(conn[fd].todo, n + 1, Len(conn[fd].todo))
               k    == [conn[fd] EXCEPT !.rx = rx, !.todo = todo]
    <3>2. /\ conn[fd].rx \in Seq(RQ!Unit) /\ conn[fd].todo \in Seq(RQ!Unit)
          /\ Len(conn[fd].todo) \in Nat
      BY <2>1 DEF ConnState
    <3>3. SubSeq(conn[fd].todo, 1, n) \in Seq(RQ!Unit)
      BY <3>2, SubSeqProperties
    <3>4. Bodiless(SubSeq(conn[fd].todo, 1, n)) /\ Bodiless(todo)
      BY <2>2, <3>2, PartIsBodiless
    <3>5. Bodiless(rx)
      BY <2>2, <3>2, <3>3, <3>4, BothAreBodiless
    <3>6. Peer(fd, k)
      BY <3>1
    <3> HIDE DEF rx, todo
    <3>7. k.rx = rx /\ k.todo = todo
      BY <2>1 DEF ConnState
    <3> HIDE DEF k
    <3> QED BY <2>3, <3>4, <3>5, <3>6, <3>7
  <2>5. CASE PeerFinish(fd) \/ PeerReset(fd)
    <3>1. PICK st : Peer(fd, [conn[fd] EXCEPT !.st = st])
      BY <2>5 DEF PeerFinish, PeerReset
    <3>2. /\ [conn[fd] EXCEPT !.st = st].rx = conn[fd].rx
          /\ [conn[fd] EXCEPT !.st = st].todo = conn[fd].todo
      BY <2>1 DEF ConnState
    <3> QED BY <2>2, <2>3, <3>1, <3>2
  <2>6. CASE PeerRead(fd)
    <3>1. Peer(fd, [conn[fd] EXCEPT !.room = TRUE])
      BY <2>6 DEF PeerRead
    <3>2. /\ [conn[fd] EXCEPT !.room = TRUE].rx = conn[fd].rx
          /\ [conn[fd] EXCEPT !.room = TRUE].todo = conn[fd].todo
      BY <2>1 DEF ConnState
    <3> QED BY <2>2, <2>3, <3>1, <3>2
  <2> QED BY <1>2, <2>4, <2>5, <2>6
<1> QED BY <1>1, <1>2 DEF Peers

LEMMA NextRemembers == NoBodies /\ WInv /\ Remembered /\ [Next]_vars => Remembered'
<1> SUFFICES ASSUME NoBodies, WInv, Remembered, [Next]_vars PROVE Remembered'
  OBVIOUS
<1>0. IInv
  BY DEF WInv
<1>1. CASE Listen
  BY <1>1 DEF Listen, Remembered, response
<1>2. CASE Caller
  BY <1>2, CallerRemembers
<1>3. CASE Waiting
  <2>1. CASE Poll \/ EventAccept
    BY <2>1 DEF Poll, EventAccept, Remembered, response
  <2> QED BY <1>3, <2>1, PopRemembers, EventRemembers DEF Waiting
<1>4. CASE Accepting
  <2>1. CASE AcceptRefused \/ AcceptEnd
    BY <2>1 DEF AcceptRefused, AcceptEnd, Remembered, response
  <2> QED BY <1>0, <1>4, <2>1, AcceptClientRemembers DEF Accepting
<1>5. CASE Peers
  BY <1>0, <1>5, PeersRemember
<1>6. CASE UNCHANGED vars
  BY <1>6 DEF vars, response, Remembered
<1> QED BY <1>1, <1>2, <1>3, <1>4, <1>5, <1>6 DEF Next

\* As long as peers send requests without bodies, no whole request lies in a
\* buffer without its client being a candidate, the target, or through.
THEOREM RequestsRemembered ==
    ASSUME NoBodies
    PROVE  Spec => []NoRequestForgotten
<1>1. Init => Remembered
  BY EmptySeq DEF Init, Remembered, NewRequest, NoConn, Bodiless
<1>2. WInv /\ Remembered /\ [Next]_vars => Remembered'
  BY NextRemembers
<1>3. Remembered => NoRequestForgotten
  BY DEF Remembered, NoRequestForgotten, Owed
<1> QED BY <1>1, <1>2, <1>3, EventsAgree, PTL DEF Spec
=============================================================================
