---------------------------- MODULE ServerProofs ----------------------------
(***************************************************************************)
(* Theorems about Server, for any number of clients, descriptors and       *)
(* streams.                                                                *)
(***************************************************************************)
EXTENDS Server, FiniteSetTheorems, SequenceTheorems, WellFoundedInduction, TLAPS

(* Arithmetic and finite sets.                                             *)

\* Every set of natural numbers that is not empty has a least element, the one
\* the searches of the code stop at.
LEMMA NatMinimum ==
    ASSUME NEW S, S \subseteq Nat, S # {}
    PROVE  \E m \in S : \A k \in S : m <= k
<1>1. IsWellFoundedOn(OpToRel(<, Nat), Nat)
  BY NatLessThanWellFounded
<1>2. PICK m \in S : \A k \in S : ~(<<k, m>> \in OpToRel(<, Nat))
  BY <1>1, WFMin
<1>3. \A k \in S : ~(k < m)
  BY <1>2 DEF OpToRel
<1> QED BY <1>3

\* There are MAX_CLIENTS client structures, and pools are finite.
LEMMA ClientsFinite == IsFiniteSet(Client) /\ Cardinality(Client) = MAX_CLIENTS
<1>1. 0 \in Int /\ MAX_CLIENTS - 1 \in Int /\ MAX_CLIENTS \in Nat \ {0}
  BY ServerAssumption DEF ServerAssumption
<1>2. IsFiniteSet(Client) /\ Cardinality(Client) = IF 0 > MAX_CLIENTS - 1 THEN 0 ELSE MAX_CLIENTS - 1 - 0 + 1
  BY <1>1, FS_Interval DEF Client
<1> QED BY <1>1, <1>2

\* A queue without duplicates that lacks a client has room for it: push() finds
\* the queue full for no client that is not in it.
LEMMA RoomForOneMore ==
    ASSUME NEW q \in Seq(Client), NEW c \in Client,
           \A i, j \in 1 .. Len(q) : q[i] = q[j] => i = j,
           \A i \in 1 .. Len(q) : q[i] # c
    PROVE  Len(q) < MAX_CLIENTS
<1>1. IsFiniteSet(Client \ {c}) /\ Cardinality(Client \ {c}) = MAX_CLIENTS - 1
  BY ClientsFinite, FS_RemoveElement
<1>2. Len(q) \in Nat
  OBVIOUS
<1>6. IsFiniteSet(1 .. Len(q)) /\ Cardinality(1 .. Len(q)) = IF 1 > Len(q) THEN 0 ELSE Len(q) - 1 + 1
  BY <1>2, FS_Interval
<1>3. q \in [1 .. Len(q) -> Client \ {c}]
  BY ElementOfSeq, LenProperties
<1>4. CASE Len(q) > MAX_CLIENTS - 1
  <2>1. \E i, j \in 1 .. Len(q) : i # j /\ q[i] = q[j]
    BY <1>1, <1>2, <1>6, <1>3, <1>4, FS_PigeonHole
  <2> QED BY <2>1
<1>5. MAX_CLIENTS \in Nat
  BY ServerAssumption DEF ServerAssumption
<1> QED BY <1>2, <1>4, <1>5

-----------------------------------------------------------------------------
(* The event loop.                                                         *)

\* The entries are those of another loop but for the events.
SameEntries(l, m) ==
    /\ m.count = l.count
    /\ \A i \in EL!Indices(l) : m.bufs[i].fd = l.bufs[i].fd /\ m.bufs[i].ptr = l.bufs[i].ptr

\* A loop is a record of three fields.
LEMMA LoopRecord ==
    ASSUME NEW l, EL!IsLoop(l)
    PROVE  \E n \in 0 .. MAX_CLIENTS + 1 : \E k \in 0 .. n :
              \E b \in [0 .. n - 1 -> EL!Entry] :
                 /\ l = [count |-> n, cursor |-> k, bufs |-> b]
                 /\ l.count = n /\ l.cursor = k /\ l.bufs = b
                 /\ EL!Indices(l) = 0 .. n - 1
<1>1. /\ l = [count |-> l.count, cursor |-> l.cursor, bufs |-> l.bufs]
      /\ l.count \in 0 .. MAX_CLIENTS + 1 /\ l.cursor \in 0 .. l.count
      /\ l.bufs \in [0 .. l.count - 1 -> EL!Entry]
  BY DEF EL!IsLoop
<1> QED BY <1>1, Zenon DEF EL!Indices

LEMMA RecordIsLoop ==
    ASSUME NEW n \in 0 .. MAX_CLIENTS + 1, NEW k \in 0 .. n,
           NEW b \in [0 .. n - 1 -> EL!Entry]
    PROVE  EL!IsLoop([count |-> n, cursor |-> k, bufs |-> b])
BY DEF EL!IsLoop

LEMMA SameEntriesWatched ==
    ASSUME NEW l, NEW m, NEW p, NEW cl, NEW dl,
           SameEntries(l, m), Watches(l, p, cl),
           \A c \in p : dl[c].sock = cl[c].sock
    PROVE  Watches(m, p, dl)
BY DEF SameEntries, Watches, EL!Indices

\* find_socket_index() gives the index of an entry of the socket or -1.
LEMMA FindIndex ==
    ASSUME NEW l, EL!IsLoop(l), NEW fd
    PROVE  \/ /\ EL!find_socket_index(l, fd) = -1
              /\ \A i \in EL!Indices(l) : l.bufs[i].fd # fd
           \/ /\ EL!find_socket_index(l, fd) \in EL!Indices(l)
              /\ l.bufs[EL!find_socket_index(l, fd)].fd = fd
<1> DEFINE S == {i \in EL!Indices(l) : l.bufs[i].fd = fd}
<1>1. CASE S = {}
  BY <1>1 DEF EL!find_socket_index
<1>2. CASE S # {}
  <2>1. S \subseteq Nat
    BY DEF EL!Indices, EL!IsLoop
  <2>2. PICK m \in S : \A k \in S : m <= k
    BY <1>2, <2>1, NatMinimum
  <2>3. \A j \in 0 .. m-1 : l.bufs[j].fd # fd
    BY <2>1, <2>2 DEF EL!Indices, EL!IsLoop
  <2>4. \E i \in EL!Indices(l) : l.bufs[i].fd = fd /\ \A j \in 0 .. i-1 : l.bufs[j].fd # fd
    BY <2>2, <2>3
  <2> QED BY <2>4 DEF EL!find_socket_index
<1> QED BY <1>1, <1>2

\* add_events() and remove_events() change no entry but for its events.
LEMMA EventsKeepEntries ==
    ASSUME NEW l, EL!IsLoop(l), NEW fd, NEW events
    PROVE  /\ EL!IsLoop(EL!add_events(l, fd, events))
           /\ SameEntries(l, EL!add_events(l, fd, events))
           /\ EL!IsLoop(EL!remove_events(l, fd, events))
           /\ SameEntries(l, EL!remove_events(l, fd, events))
<1> DEFINE i == EL!find_socket_index(l, fd)
<1>1. CASE i = -1
  BY <1>1 DEF EL!add_events, EL!remove_events, SameEntries
<1>2. CASE i \in EL!Indices(l)
  <2>1. i \in Int /\ ~(i < 0)
    BY <1>2 DEF EL!Indices, EL!IsLoop
  <2>2. EL!convert_event_flags(events) \subseteq EL!Requestable
    BY DEF EL!convert_event_flags, EL!Requestable
  <2> DEFINE a == EL!add_events(l, fd, events)
             r == EL!remove_events(l, fd, events)
  <2>3. /\ a = [l EXCEPT !.bufs[i].events = @ \cup EL!convert_event_flags(events)]
        /\ r = [l EXCEPT !.bufs[i].events = @ \ EL!convert_event_flags(events)]
    BY <2>1 DEF EL!add_events, EL!remove_events
  <2>4. l.bufs[i] \in EL!Entry
    BY <1>2 DEF EL!Indices, EL!IsLoop
  <2> HIDE DEF a, r, i
  <2>5. EL!IsLoop(a) /\ EL!IsLoop(r)
    BY <1>2, <2>2, <2>3, <2>4 DEF EL!IsLoop, EL!Entry, EL!Indices
  <2>6. SameEntries(l, a) /\ SameEntries(l, r)
    BY <1>2, <2>2, <2>3, <2>4 DEF EL!IsLoop, EL!Entry, EL!Indices, SameEntries
  <2> QED BY <2>5, <2>6 DEF a, r
<1> QED BY <1>1, <1>2, FindIndex

\* With an event to report, skip() stops at an entry of the loop and taking the
\* event changes no entry but for what is reported of it.
LEMMA TakenKeepsEntries ==
    ASSUME NEW l, EL!IsLoop(l), ~EL!must_poll(l)
    PROVE  /\ EL!IsLoop(EL!take(EL!skip(l)))
           /\ SameEntries(l, EL!take(EL!skip(l)))
           /\ EL!skip(l).cursor \in EL!Indices(l)
           /\ EL!EventPtr(EL!skip(l)) = l.bufs[EL!skip(l).cursor].ptr
<1> DEFINE k == EL!skip(l).cursor
           s == EL!skip(l)
           t == EL!take(s)
<1>1. EL!Reported(l) # {} /\ EL!Reported(l) \subseteq Nat
  BY DEF EL!must_poll, EL!Reported, EL!IsLoop
<1>2. PICK m \in EL!Reported(l) : \A j \in EL!Reported(l) : m <= j
  BY <1>1, NatMinimum
<1>3. k \in EL!Reported(l)
  BY <1>1, <1>2 DEF EL!skip, EL!IsLoop
<1>4. k \in EL!Indices(l)
  BY <1>3 DEF EL!Reported, EL!Indices, EL!IsLoop
<1>5. s = [count |-> l.count, cursor |-> k, bufs |-> l.bufs]
  <2>1. PICK n, j, b : l = [count |-> n, cursor |-> j, bufs |-> b]
    BY LoopRecord
  <2>2. \A x : [l EXCEPT !.cursor = x] = [count |-> n, cursor |-> x, bufs |-> b]
    BY <2>1
  <2> QED BY <2>1, <2>2 DEF EL!skip
<1>6. l.bufs[k] \in EL!Entry
  BY <1>4 DEF EL!IsLoop, EL!Indices
<1>7. PICK r \in SUBSET EL!Reportable : t = [s EXCEPT !.bufs[s.cursor].revents = r]
  <2>1. l.bufs[k].revents \in SUBSET EL!Reportable
    BY <1>6 DEF EL!Entry
  <2>2. EL!EventType(s) \in {"RECV", "SEND", "FAILURE"}
    BY DEF EL!EventType
  <2>3. s.bufs[s.cursor] = l.bufs[k]
    BY <1>5
  <2> HIDE DEF s, k
  <2>4. CASE EL!EventType(s) = "RECV"
    BY <2>1, <2>3, <2>4 DEF EL!take
  <2>5. CASE EL!EventType(s) = "SEND"
    BY <2>1, <2>3, <2>5 DEF EL!take
  <2>6. CASE EL!EventType(s) = "FAILURE"
    BY <2>6 DEF EL!take
  <2> QED BY <2>2, <2>4, <2>5, <2>6
<1>8. t = [count |-> l.count, cursor |-> k,
           bufs |-> [l.bufs EXCEPT ![k] = [l.bufs[k] EXCEPT !.revents = r]]]
  BY <1>5, <1>7
<1> HIDE DEF k, s, t
<1>9. EL!IsLoop(t)
  <2>1. l.count \in 0 .. MAX_CLIENTS + 1 /\ k \in 0 .. l.count
    BY <1>4 DEF EL!IsLoop, EL!Indices
  <2>2. [l.bufs EXCEPT ![k] = [l.bufs[k] EXCEPT !.revents = r]] \in [0 .. l.count - 1 -> EL!Entry]
    BY <1>4, <1>6 DEF EL!IsLoop, EL!Indices, EL!Entry
  <2> QED BY <1>8, <2>1, <2>2, RecordIsLoop
<1>10. SameEntries(l, t)
  BY <1>4, <1>6, <1>8 DEF EL!IsLoop, EL!Indices, EL!Entry, SameEntries
<1>11. EL!EventPtr(s) = l.bufs[k].ptr
  BY <1>5 DEF EL!EventPtr
<1> QED BY <1>4, <1>9, <1>10, <1>11 DEF k, s, t

\* poll() overwrites what is reported and nothing else.
LEMMA PollKeepsEntries ==
    ASSUME NEW l, EL!IsLoop(l),
           NEW revents \in [EL!Indices(l) -> SUBSET EL!Reportable]
    PROVE  EL!IsLoop(EL!poll(l, revents)) /\ SameEntries(l, EL!poll(l, revents))
<1>1. \A i \in EL!Indices(l) : l.bufs[i] \in EL!Entry
  BY DEF EL!IsLoop, EL!Indices
<1>2. EL!poll(l, revents) =
        [count |-> l.count, cursor |-> 0,
         bufs |-> [i \in EL!Indices(l) |-> [l.bufs[i] EXCEPT !.revents = revents[i]]]]
  BY DEF EL!poll
<1>3. \A i \in EL!Indices(l) : [l.bufs[i] EXCEPT !.revents = revents[i]] \in EL!Entry
  BY <1>1 DEF EL!Entry
<1>4. EL!IsLoop(EL!poll(l, revents))
  <2>1. l.count \in 0 .. MAX_CLIENTS + 1 /\ 0 \in 0 .. l.count
    BY SMTT(30) DEF EL!IsLoop
  <2> QED BY <1>2, <1>3, <2>1, RecordIsLoop DEF EL!Indices
<1> QED BY SMTT(30), <1>1, <1>2, <1>3, <1>4 DEF SameEntries, EL!Entry

\* remove() of a client's socket leaves the entries of the other clients,
\* whichever entry takes the place of the removed one.
LEMMA RemoveWatches ==
    ASSUME NEW l, EL!IsLoop(l), NEW p \in SUBSET Client, NEW cl \in [Client -> ClientState],
           Watches(l, p, cl), NEW c \in p
    PROVE  /\ EL!IsLoop(EL!remove(l, cl[c].sock))
           /\ Watches(EL!remove(l, cl[c].sock), p \ {c}, [cl EXCEPT ![c] = NewClient(NULL)])
<1> DEFINE fd == cl[c].sock
           i  == EL!find_socket_index(l, fd)
           r  == EL!remove(l, fd)
<1>1. c # THIS
  BY ServerAssumption DEF ServerAssumption
<1>2. PICK h \in EL!Indices(l) : l.bufs[h].ptr = c
  BY DEF Watches
<1>3. l.bufs[h].fd = fd
  BY <1>1, <1>2 DEF Watches
<1>4. i \in EL!Indices(l) /\ l.bufs[i].fd = fd
  BY <1>2, <1>3, FindIndex
<1>5. i = h
  BY <1>2, <1>3, <1>4 DEF Watches
<1>6. i \in Int /\ ~(i < 0) /\ l.count \in Nat /\ l.cursor \in 0 .. l.count /\ i < l.count
  BY <1>4 DEF EL!Indices, EL!IsLoop
<1>7. r = [count  |-> l.count - 1,
           cursor |-> IF l.cursor > i THEN l.cursor - 1 ELSE l.cursor,
           bufs   |-> [j \in 0 .. l.count - 2 |->
                         IF j = i THEN l.bufs[l.count - 1] ELSE l.bufs[j]]]
  BY <1>6 DEF EL!remove
<1> HIDE DEF i, r, fd
<1>8. EL!IsLoop(r)
  <2> DEFINE n == l.count - 1
             k == IF l.cursor > i THEN l.cursor - 1 ELSE l.cursor
             b == [j \in 0 .. l.count - 2 |-> IF j = i THEN l.bufs[l.count - 1] ELSE l.bufs[j]]
  <2>1. n \in 0 .. MAX_CLIENTS + 1 /\ k \in 0 .. n
    BY <1>4, <1>6, ServerAssumption DEF EL!IsLoop, EL!Indices, ServerAssumption
  <2>2. b \in [0 .. n - 1 -> EL!Entry]
    BY <1>4, <1>6 DEF EL!IsLoop, EL!Indices
  <2>3. r = [count |-> n, cursor |-> k, bufs |-> b]
    BY <1>7
  <2> HIDE DEF n, k, b
  <2> QED BY <2>1, <2>2, <2>3, RecordIsLoop
\* Every entry that is left was one of l other than i, and the other way round.
<1> DEFINE from(j) == IF j = i THEN l.count - 1 ELSE j
<1>9. \A j \in EL!Indices(r) : from(j) \in EL!Indices(l) \ {i} /\ r.bufs[j] = l.bufs[from(j)]
  BY <1>6, <1>7 DEF EL!Indices
<1>10. \A g \in EL!Indices(l) \ {i} : \E j \in EL!Indices(r) : r.bufs[j] = l.bufs[g]
  <2> TAKE g \in EL!Indices(l) \ {i}
  <2>1. CASE g = l.count - 1
    <3>1. i \in EL!Indices(r) /\ r.bufs[i] = l.bufs[g]
      BY <1>4, <1>6, <1>7, <2>1 DEF EL!Indices
    <3> QED BY <3>1
  <2>2. CASE g # l.count - 1
    <3>1. g \in EL!Indices(r) /\ r.bufs[g] = l.bufs[g]
      BY <1>6, <1>7, <2>2 DEF EL!Indices
    <3> QED BY <3>1
  <2> QED BY <2>1, <2>2
<1>11. \A j, k \in EL!Indices(r) : r.bufs[j].fd = r.bufs[k].fd => j = k
  <2> TAKE j, k \in EL!Indices(r)
  <2> HAVE r.bufs[j].fd = r.bufs[k].fd
  <2>1. from(j) = from(k)
    BY <1>9 DEF Watches
  <2> QED BY <1>6, <1>7, <2>1 DEF EL!Indices
<1>12. r.count = Cardinality(p \ {c}) + 1
  <2>1. IsFiniteSet(p)
    BY ClientsFinite, FS_Subset
  <2>2. Cardinality(p \ {c}) = Cardinality(p) - 1 /\ Cardinality(p) \in Nat
    BY <2>1, FS_RemoveElement, FS_CardinalityType
  <2> QED BY <1>7, <2>2 DEF Watches
<1>13. \A ptr \in (p \ {c}) \cup {THIS} : \E j \in EL!Indices(r) : r.bufs[j].ptr = ptr
  <2> TAKE ptr \in (p \ {c}) \cup {THIS}
  <2>1. PICK g \in EL!Indices(l) : l.bufs[g].ptr = ptr
    BY DEF Watches
  <2>2. g # i
    BY <1>1, <1>2, <1>5, <2>1
  <2> QED BY <1>10, <2>1, <2>2
<1>14. \A g \in EL!Indices(l) \ {i} : l.bufs[g].ptr # c
  BY <1>1, <1>2, <1>3, <1>5 DEF Watches, fd
<1> DEFINE dl == [cl EXCEPT ![c] = NewClient(NULL)]
<1>15. \A d \in p \ {c} : dl[d].sock = cl[d].sock
  OBVIOUS
<1> HIDE DEF dl
<1>16. \A j \in EL!Indices(r) :
          IF r.bufs[j].ptr = THIS THEN r.bufs[j].fd = ListenFd
          ELSE r.bufs[j].ptr \in p \ {c} /\ r.bufs[j].fd = dl[r.bufs[j].ptr].sock
               /\ r.bufs[j].fd \in Fd
  <2> TAKE j \in EL!Indices(r)
  <2>1. PICK g \in EL!Indices(l) \ {i} : r.bufs[j] = l.bufs[g]
    BY <1>9, Zenon
  <2> QED BY <1>14, <1>15, <2>1 DEF Watches
<1> QED BY <1>8, <1>11, <1>12, <1>13, <1>16 DEF Watches, r, fd, dl

\* add() of a new client's socket.
LEMMA AddWatches ==
    ASSUME NEW l, EL!IsLoop(l), NEW p \in SUBSET Client, NEW cl \in [Client -> ClientState],
           Watches(l, p, cl), NEW c \in Client \ p, l.count < MAX_CLIENTS + 1,
           NEW fd \in Fd, \A d \in p : cl[d].sock # fd,
           NEW dl, \A d \in p : dl[d].sock = cl[d].sock, dl[c].sock = fd
    PROVE  /\ EL!IsLoop(EL!add(l, fd, {"RECV"}, c))
           /\ Watches(EL!add(l, fd, {"RECV"}, c), p \cup {c}, dl)
<1> DEFINE e == [fd |-> fd, ptr |-> c, revents |-> {}, events |-> EL!convert_event_flags({"RECV"})]
           a == EL!add(l, fd, {"RECV"}, c)
<1>1. e \in EL!Entry
  BY DEF EL!Entry, EL!convert_event_flags, EL!Requestable, EL!Reportable
<1>2. l.count \in Nat /\ l.cursor \in 0 .. l.count /\ MAX_CLIENTS \in Nat
  BY ServerAssumption DEF EL!IsLoop, ServerAssumption
<1>3. a = [count |-> l.count + 1, cursor |-> l.cursor,
           bufs |-> [i \in 0 .. l.count |-> IF i = l.count THEN e ELSE l.bufs[i]]]
  BY <1>2 DEF EL!add
<1>4. e.fd = fd /\ e.ptr = c /\ c # THIS /\ fd # ListenFd
  BY ServerAssumption DEF ServerAssumption
<1> HIDE DEF a, e
<1>5. EL!IsLoop(a)
  BY <1>1, <1>2, <1>3 DEF EL!IsLoop, EL!Indices
<1>6. a.count = Cardinality(p \cup {c}) + 1
  <2>1. IsFiniteSet(p)
    BY ClientsFinite, FS_Subset
  <2>2. Cardinality(p \cup {c}) = Cardinality(p) + 1 /\ Cardinality(p) \in Nat
    BY <2>1, FS_AddElement, FS_CardinalityType
  <2> QED BY <1>3, <2>2 DEF Watches
<1>7. \A i \in EL!Indices(a) : \/ i = l.count /\ a.bufs[i] = e
                               \/ i \in EL!Indices(l) /\ a.bufs[i] = l.bufs[i]
  <2> TAKE i \in EL!Indices(a)
  <2>1. i \in 0 .. l.count
    BY <1>2, <1>3 DEF EL!Indices
  <2>2. a.bufs[i] = IF i = l.count THEN e ELSE l.bufs[i]
    BY <1>3, <2>1
  <2>3. i # l.count => i \in EL!Indices(l)
    BY <1>2, <2>1 DEF EL!Indices
  <2> QED BY <2>2, <2>3
<1>8. l.count \in EL!Indices(a) /\ a.bufs[l.count] = e
  BY <1>2, <1>3 DEF EL!Indices
<1>9. \A i \in EL!Indices(l) : i \in EL!Indices(a) /\ a.bufs[i] = l.bufs[i]
  BY <1>2, <1>3 DEF EL!Indices
<1>10. \A ptr \in p \cup {c} \cup {THIS} : \E i \in EL!Indices(a) : a.bufs[i].ptr = ptr
  BY <1>4, <1>8, <1>9 DEF Watches
<1>11. \A i \in EL!Indices(l) : l.bufs[i].fd # fd
  <2> TAKE i \in EL!Indices(l)
  <2>1. CASE l.bufs[i].ptr = THIS
    BY <1>4, <2>1 DEF Watches
  <2>2. CASE l.bufs[i].ptr # THIS
    BY <2>2 DEF Watches
  <2> QED BY <2>1, <2>2
<1>12. \A i, j \in EL!Indices(a) : a.bufs[i].fd = a.bufs[j].fd => i = j
  BY <1>4, <1>7, <1>11 DEF Watches
<1>13. \A i \in EL!Indices(a) :
          IF a.bufs[i].ptr = THIS THEN a.bufs[i].fd = ListenFd
          ELSE a.bufs[i].ptr \in p \cup {c} /\ a.bufs[i].fd = dl[a.bufs[i].ptr].sock
               /\ a.bufs[i].fd \in Fd
  BY <1>4, <1>7 DEF Watches
<1> QED BY <1>5, <1>6, <1>10, <1>12, <1>13 DEF Watches, a

-----------------------------------------------------------------------------
(* Requests.                                                               *)

\* A head has one to three units.
LEMMA HeadLength == RQ!HEAD_LEN \in 1 .. 3
BY ServerAssumption DEF ServerAssumption, RQ!HEAD_LEN

\* The search for the end of a head stops inside of the data or gives -1, from
\* the cache of an earlier search in a shorter buffer as well.
LEMMA SeekBounds ==
    ASSUME NEW in \in Seq(RQ!Unit), NEW crlf \in -1 .. Len(in)
    PROVE  RQ!seek(in, crlf) \in -1 .. Len(in)
<1>1. CASE crlf > -1
  BY <1>1 DEF RQ!seek
<1>2. CASE ~(crlf > -1) /\ RQ!Terminators(in) # {}
  <2>1. RQ!Terminators(in) \subseteq 1 .. Len(in) /\ Len(in) \in Nat
    BY DEF RQ!Terminators
  <2>2. \E m \in RQ!Terminators(in) : \A k \in RQ!Terminators(in) : m <= k
    BY <1>2, <2>1, NatMinimum
  <2> QED BY <1>2, <2>1, <2>2 DEF RQ!seek
<1>3. CASE ~(crlf > -1) /\ RQ!Terminators(in) = {}
  BY <1>3 DEF RQ!seek
<1> QED BY <1>1, <1>2, <1>3

\* What slice_until() and slice() cut out of a buffer is a sequence of units.
LEMMA SlicesAreUnits ==
    ASSUME NEW in \in Seq(RQ!Unit)
    PROVE  /\ \A crlf \in -1 .. Len(in) : RQ!slice_until(in, crlf) \in Seq(RQ!Unit)
           /\ \A off, end \in Int : RQ!slice(in, off, end) \in Seq(RQ!Unit)
<1>1. \A m, n \in Int : m >= 1 /\ n <= Len(in) => SubSeq(in, m, n) \in Seq(RQ!Unit)
  BY SubSeqProperties
<1>2. Len(in) \in Nat
  OBVIOUS
<1>3. \A crlf \in -1 .. Len(in) : RQ!slice_until(in, crlf) \in Seq(RQ!Unit)
  BY <1>1, <1>2, SeekBounds DEF RQ!slice_until
<1>4. ASSUME NEW off \in Int, NEW end \in Int
      PROVE  RQ!slice(in, off, end) \in Seq(RQ!Unit)
  BY <1>1, <1>2 DEF RQ!slice
<1> QED BY <1>3, <1>4

\* Only a head that begins like one parses, so that there is a first unit.
LEMMA ParsedHeadIsNotEmpty ==
    ASSUME NEW h, TRUE \in RQ!ParseResults(h)
    PROVE  h # <<>>
BY DEF RQ!ParseResults, RQ!WellFormedHead, RQ!LacksLastByte, RQ!BeginsHead

\* Parsing and freeing a buffer leave a list of headers.
LEMMA HeadersStayTyped ==
    ASSUME NEW headers \in Seq(RQ!HeaderEntry), NEW h \in Seq(RQ!Unit), NEW c \in Client
    PROVE  /\ h # <<>> => RQ!Parsed(headers, h, c) \in Seq(RQ!HeaderEntry)
           /\ RQ!ParsedInVain(headers, h, c) \subseteq Seq(RQ!HeaderEntry)
           /\ RQ!Dangling(headers, c) \in Seq(RQ!HeaderEntry)
<1>1. h # <<>> => RQ!Parsed(headers, h, c) \in Seq(RQ!HeaderEntry)
  <2> HAVE h # <<>>
  <2>1. h[1] \in RQ!Unit
    OBVIOUS
  <2>2. [own |-> c, cl |-> h[1].req.cl, live |-> TRUE] \in RQ!HeaderEntry
    BY <2>1 DEF RQ!Unit, RQ!RequestHead, RQ!HeaderEntry
  <2> QED BY <2>2 DEF RQ!Parsed
<1>2. RQ!ParsedInVain(headers, h, c) \subseteq Seq(RQ!HeaderEntry)
  BY <1>1 DEF RQ!ParsedInVain, RQ!BeginsHead
<1>3. RQ!Dangling(headers, c) \in Seq(RQ!HeaderEntry)
  <2>1. Len(headers) \in Nat /\ \A i \in 1 .. Len(headers) : headers[i] \in RQ!HeaderEntry
    BY ElementOfSeq
  <2>2. \A i \in 1 .. Len(headers) :
           (IF headers[i].own = c THEN [headers[i] EXCEPT !.live = FALSE] ELSE headers[i])
              \in RQ!HeaderEntry
    BY <2>1 DEF RQ!HeaderEntry
  <2> QED BY <2>1, <2>2, IsASeq DEF RQ!Dangling
<1> QED BY <1>1, <1>2, <1>3

\* Whatever a dangling header reads as, Content-Length is a number.
LEMMA ContentLengthsAreInts ==
    ASSUME NEW headers \in Seq(RQ!HeaderEntry)
    PROVE  RQ!ContentLengths(headers) \subseteq Int
<1> DEFINE live == {i \in 1 .. Len(headers) : headers[i].live}
<1>1. Len(headers) \in Nat /\ JunkLengths \subseteq Int
  BY ServerAssumption DEF ServerAssumption
<1>2. \A i \in 1 .. Len(headers) : headers[i].cl \in Int
  <2>1. \A i \in 1 .. Len(headers) : headers[i] \in RQ!HeaderEntry
    BY ElementOfSeq
  <2> QED BY <2>1 DEF RQ!HeaderEntry
<1>3. CASE live = {}
  BY <1>1, <1>3 DEF RQ!ContentLengths
<1>4. CASE live # {}
  <2>1. \E m \in live : \A k \in live : m <= k
    <3>1. live \subseteq Nat
      OBVIOUS
    <3> HIDE DEF live
    <3> QED BY <1>4, <3>1, NatMinimum
  <2> DEFINE first == CHOOSE i \in live : \A j \in live : i <= j
  <2>2. first \in live
    BY <2>1
  <2>3. headers[first].cl \in Int
    BY <1>2, <2>2
  <2> HIDE DEF first
  <2>4. RQ!ContentLengths(headers) = {headers[first].cl} \cup (IF first > 1 THEN JunkLengths ELSE {})
    BY <1>4, Zenon DEF RQ!ContentLengths, first
  <2> QED BY <1>1, <2>3, <2>4
<1> QED BY <1>3, <1>4

-----------------------------------------------------------------------------
(* The inductive invariant, and what the pieces of the handlers do to its   *)
(* parts.                                                                  *)

Control ==
    /\ pc \in {"init", "user", "waiting", "accepting"}
    /\ state \in {"NOTARGET", "STATUS", "HEADERS", "CONTENT"}
    /\ target \in Client \cup {NULL}
    /\ keep_alive \in {-1, 0, 1}
    /\ req_bytes \in Nat \cup {-1}
    /\ backlog \in 0 .. MaxBacklog

Requests == [headers: Seq(RQ!HeaderEntry), body: Seq(RQ!Unit)]

\* The cached end of a head lies inside of the buffer: without this the slice
\* made of it need not be a sequence of units, and TypeOK is not inductive.
Clients(cl) ==
    /\ cl \in [Client -> ClientState]
    /\ \A c \in Client : cl[c].crlf \in -1 .. Len(cl[c].in)

\* QueueConsistent for the queue q, the pool p and the clients cl.
Consistent(q, p, cl) ==
    /\ q \in Seq(Client)
    /\ \A c \in Client : cl[c].queued <=> \E i \in 1 .. Len(q) : q[i] = c
    /\ \A i, j \in 1 .. Len(q) : q[i] = q[j] => i = j
    /\ \A i \in 1 .. Len(q) : q[i] \in p

\* Open descriptors are those of the clients in p.
Owned(k, p, cl) ==
    /\ k \in [Fd -> ConnState]
    /\ \A fd \in Fd : k[fd].st # "none" <=> \E c \in p : cl[c].sock = fd

Structures ==
    /\ request \in Requests
    /\ pool \in SUBSET Client
    /\ Clients(client)
    /\ Consistent(queue, pool, client)
    /\ EL!IsLoop(loop)
    /\ Owned(conn, pool, client)

Started ==
    IF pc = "init" THEN loop.count = 0 /\ pool = {} /\ state = "NOTARGET"
    ELSE Watches(loop, pool, client)

IInv == Control /\ Structures /\ Started /\ RequestFits

\* The invariant contains the ones the runs check.
LEMMA IInvContains == IInv => TypeOK /\ QueueConsistent /\ LoopMatchesPool /\ RequestFits
BY DEF IInv, Control, Structures, Started, Requests, Clients, Consistent, Owned,
       TypeOK, QueueConsistent, LoopMatchesPool

\* The clients of a pool have descriptors, and each its own.
LEMMA SocketsDiffer ==
    ASSUME NEW l, NEW p \in SUBSET Client, NEW cl, Watches(l, p, cl)
    PROVE  /\ \A c \in p : cl[c].sock \in Fd
           /\ \A c, d \in p : cl[c].sock = cl[d].sock => c = d
<1>1. THIS \notin Client
  BY ServerAssumption DEF ServerAssumption
<1>2. \A c \in p : \E i \in EL!Indices(l) :
         l.bufs[i].ptr = c /\ l.bufs[i].fd = cl[c].sock /\ cl[c].sock \in Fd
  BY <1>1 DEF Watches
<1> QED BY <1>2 DEF Watches

\* A client that changes, joins the pool if it is new, and is pushed when it
\* becomes a candidate.
LEMMA QueuedIsConsistent ==
    ASSUME NEW q, NEW p \in SUBSET Client, NEW cl \in [Client -> ClientState],
           Consistent(q, p, cl), NEW c \in Client, NEW r \in ClientState,
           cl[c].queued => r.queued
    PROVE  Consistent(Queued(q, cl[c], r, c), p \cup {c}, [cl EXCEPT ![c] = r])
<1> DEFINE dl == [cl EXCEPT ![c] = r]
<1>1. dl[c] = r /\ \A d \in Client : d # c => dl[d] = cl[d]
  OBVIOUS
<1>2. cl[c].queued \in BOOLEAN /\ r.queued \in BOOLEAN
  BY DEF ClientState
<1> HIDE DEF dl
<1>3. CASE r.queued /\ ~cl[c].queued
  <2>1. q \in Seq(Client) /\ Len(q) \in Nat /\ \A i \in 1 .. Len(q) : q[i] # c
    BY <1>3 DEF Consistent
  <2>2. Len(q) < MAX_CLIENTS
    BY <2>1, RoomForOneMore DEF Consistent
  <2>3. Queued(q, cl[c], r, c) = Append(q, c)
    BY <1>3, <2>2 DEF Queued, QU!Pushed
  <2> DEFINE t == Append(q, c)
  <2>4. /\ t \in Seq(Client) /\ Len(t) = Len(q) + 1 /\ t[Len(t)] = c
        /\ \A i \in 1 .. Len(q) : t[i] = q[i]
    BY <2>1
  <2>5. \A i \in 1 .. Len(t) : i = Len(t) \/ i \in 1 .. Len(q)
    BY <2>1, <2>4
  <2>6. Len(t) \in 1 .. Len(t) /\ 1 .. Len(q) \subseteq 1 .. Len(t)
    BY <2>1, <2>4
  <2> HIDE DEF t
  <2>7. \A i, j \in 1 .. Len(t) : t[i] = t[j] => i = j
    BY <2>1, <2>4, <2>5 DEF Consistent
  <2>8. \A d \in Client : dl[d].queued <=> \E i \in 1 .. Len(t) : t[i] = d
    <3> TAKE d \in Client
    <3>1. CASE d = c
      BY <1>1, <1>3, <2>4, <2>6, <3>1
    <3>2. CASE d # c
      <4>1. dl[d].queued <=> \E i \in 1 .. Len(q) : q[i] = d
        BY <1>1, <3>2 DEF Consistent
      <4> QED BY <2>4, <2>5, <2>6, <3>2, <4>1
    <3> QED BY <3>1, <3>2
  <2>9. \A i \in 1 .. Len(t) : t[i] \in p \cup {c}
    BY <2>4, <2>5 DEF Consistent
  <2> QED BY <2>3, <2>4, <2>7, <2>8, <2>9 DEF Consistent, dl, t
<1>4. CASE ~(r.queued /\ ~cl[c].queued)
  <2>1. Queued(q, cl[c], r, c) = q
    BY <1>4 DEF Queued
  <2>2. \A d \in Client : dl[d].queued <=> cl[d].queued
    BY <1>1, <1>2, <1>4
  <2> QED BY <2>1, <2>2 DEF Consistent, dl
<1> QED BY <1>3, <1>4

\* The head of the queue leaves it together with its mark.
LEMMA PoppedIsConsistent ==
    ASSUME pool \in SUBSET Client, Clients(client), Consistent(queue, pool, client),
           queue # <<>>
    PROVE  /\ candidate \in pool
           /\ Clients(Unqueued)
           /\ Consistent(QU!Popped(queue), pool, Unqueued)
           /\ ~Unqueued[candidate].queued
           /\ \A d \in Client : Unqueued[d].sock = client[d].sock
<1> DEFINE t == Tail(queue)
           n == Len(queue)
<1>1. queue \in Seq(Client) /\ n \in Nat \ {0} /\ candidate = queue[1]
  BY DEF Consistent, candidate
<1>2. candidate \in pool /\ candidate \in Client
  BY <1>1 DEF Consistent
<1>3. t \in Seq(Client) /\ Len(t) = n - 1 /\ \A i \in 1 .. n - 1 : t[i] = queue[i+1]
  BY <1>1
<1>4. /\ Unqueued \in [Client -> ClientState]
      /\ \A d \in Client : /\ Unqueued[d].sock = client[d].sock
                           /\ Unqueued[d].crlf = client[d].crlf
                           /\ Unqueued[d].in = client[d].in
                           /\ d # candidate => Unqueued[d].queued = client[d].queued
      /\ ~Unqueued[candidate].queued
  BY <1>2 DEF Unqueued, Clients, ClientState
<1>5. Clients(Unqueued)
  BY <1>4 DEF Clients
<1> HIDE DEF t, n
<1>6. \A i, j \in 1 .. Len(t) : t[i] = t[j] => i = j
  <2> TAKE i, j \in 1 .. Len(t)
  <2> HAVE t[i] = t[j]
  <2>1. i \in 1 .. n - 1 /\ j \in 1 .. n - 1 /\ i + 1 \in 1 .. n /\ j + 1 \in 1 .. n
    BY <1>1, <1>3
  <2>2. queue[i+1] = queue[j+1]
    BY <1>3, <2>1
  <2>3. i + 1 = j + 1
    BY <2>1, <2>2 DEF Consistent, n
  <2> QED BY <2>1, <2>3
<1>7. \A i \in 1 .. Len(t) : t[i] \in pool /\ t[i] # candidate
  <2> TAKE i \in 1 .. Len(t)
  <2>1. i \in 1 .. n - 1 /\ i + 1 \in 1 .. n /\ 1 \in 1 .. n /\ i + 1 # 1
    BY <1>1, <1>3
  <2>2. queue[i+1] \in pool /\ queue[i+1] # queue[1]
    BY <2>1 DEF Consistent, n
  <2> QED BY <1>1, <1>3, <2>1, <2>2
<1>8. \A d \in Client : Unqueued[d].queued <=> \E i \in 1 .. Len(t) : t[i] = d
  <2> TAKE d \in Client
  <2>1. CASE d = candidate
    BY <1>4, <1>7, <2>1
  <2>2. CASE d # candidate
    <3>1. Unqueued[d].queued <=> \E i \in 1 .. n : queue[i] = d
      BY <1>4, <2>2 DEF Consistent, n
    <3>2. ASSUME NEW i \in 1 .. n, queue[i] = d
          PROVE  i - 1 \in 1 .. Len(t) /\ t[i - 1] = d
      <4>1. i # 1
        BY <1>1, <2>2, <3>2
      <4>2. i - 1 \in 1 .. n - 1 /\ (i - 1) + 1 = i
        BY <1>1, <4>1
      <4> QED BY <1>3, <3>2, <4>2
    <3>3. ASSUME NEW i \in 1 .. Len(t), t[i] = d
          PROVE  i + 1 \in 1 .. n /\ queue[i + 1] = d
      BY <1>1, <1>3, <3>3
    <3> QED BY <3>1, <3>2, <3>3
  <2> QED BY <2>1, <2>2
<1> QED BY <1>2, <1>3, <1>4, <1>5, <1>6, <1>7, <1>8 DEF Consistent, QU!Popped, t

\* A client changes but for its socket, and is pushed when it becomes a candidate.
LEMMA ClientChanges ==
    ASSUME Structures, NEW c \in pool, NEW r \in ClientState,
           r.crlf \in -1 .. Len(r.in), r.sock = client[c].sock,
           client[c].queued => r.queued,
           client' = [client EXCEPT ![c] = r],
           queue' = Queued(queue, client[c], r, c)
    PROVE  /\ Clients(client')
           /\ Consistent(queue', pool, client')
           /\ Owned(conn, pool, client')
           /\ \A d \in Client : client'[d].sock = client[d].sock
<1>1. c \in Client /\ client \in [Client -> ClientState]
  BY DEF Structures, Clients
<1>2. client'[c] = r /\ \A d \in Client : d # c => client'[d] = client[d]
  BY <1>1
<1>3. Clients(client')
  BY <1>1, <1>2 DEF Structures, Clients
<1>4. \A d \in Client : client'[d].sock = client[d].sock
  BY <1>2
<1>5. Consistent(queue', pool, client')
  <2>1. Consistent(queue', pool \cup {c}, client')
    BY <1>1, QueuedIsConsistent DEF Structures
  <2>2. pool \cup {c} = pool
    OBVIOUS
  <2> QED BY <2>1, <2>2
<1>6. Owned(conn, pool, client')
  BY <1>4 DEF Structures, Owned
<1> QED BY <1>3, <1>4, <1>5, <1>6

\* remove_client() of a client that is not marked as queued: what is left of the
\* pool, the queue, the event loop and the descriptors fits together.
LEMMA RemoveClient ==
    ASSUME pool \in SUBSET Client, NEW c \in pool, NEW cl, Clients(cl),
           ~cl[c].queued, NEW q, Consistent(q, pool, cl),
           NEW l, EL!IsLoop(l), Watches(l, pool, cl), Owned(conn, pool, cl),
           NEW req \in Requests, remove_client(c, cl, q, l, req)
    PROVE  Structures' /\ Watches(loop', pool', client')
<1>1. c \in Client /\ cl \in [Client -> ClientState]
  BY DEF Clients
<1>2. /\ loop' = EL!remove(l, cl[c].sock)
      /\ queue' = q
      /\ pool' = pool \ {c}
      /\ client' = [cl EXCEPT ![c] = NewClient(NULL)]
      /\ conn' = [conn EXCEPT ![cl[c].sock] = NoConn]
      /\ request' = [req EXCEPT !.headers = RQ!Dangling(@, c)]
  BY DEF remove_client
<1>3. EL!IsLoop(loop') /\ Watches(loop', pool', client')
  BY <1>1, <1>2, RemoveWatches
<1>4. request' \in Requests
  <2>1. req.headers \in Seq(RQ!HeaderEntry)
    BY DEF Requests
  <2>2. RQ!Dangling(req.headers, c) \in Seq(RQ!HeaderEntry)
    BY <1>1, <2>1, HeadersStayTyped, EmptySeq
  <2> QED BY <1>2, <2>2 DEF Requests
<1>5. /\ NewClient(NULL) \in ClientState
      /\ NewClient(NULL).crlf \in -1 .. Len(NewClient(NULL).in)
      /\ ~NewClient(NULL).queued
  BY EmptySeq DEF NewClient, ClientState
<1>6. client'[c] = NewClient(NULL) /\ \A d \in Client : d # c => client'[d] = cl[d]
  BY <1>1, <1>2
<1>7. Clients(client')
  BY <1>1, <1>2, <1>5, <1>6 DEF Clients
<1>8. Consistent(queue', pool', client')
  <2>1. \A i \in 1 .. Len(q) : q[i] # c
    BY <1>1 DEF Consistent
  <2> QED BY <1>2, <1>5, <1>6, <2>1 DEF Consistent
<1>9. Owned(conn', pool', client')
  <2>1. cl[c].sock \in Fd /\ \A d \in pool : cl[d].sock = cl[c].sock => d = c
    BY SocketsDiffer
  <2>2. NoConn \in ConnState /\ NoConn.st = "none"
    BY EmptySeq DEF NoConn, ConnState
  <2>3. conn' \in [Fd -> ConnState]
    BY <1>2, <2>2 DEF Owned
  <2>4. \A d \in pool' : d \in pool /\ d # c /\ client'[d] = cl[d]
    BY <1>2, <1>6
  <2>5. ASSUME NEW fd \in Fd
        PROVE  conn'[fd].st # "none" <=> \E d \in pool' : client'[d].sock = fd
    <3>1. CASE fd = cl[c].sock
      BY <1>2, <2>1, <2>2, <2>4, <3>1 DEF Owned
    <3>2. CASE fd # cl[c].sock
      <4>1. conn'[fd] = conn[fd]
        BY <1>2, <3>2 DEF Owned
      <4> QED BY <1>2, <2>4, <3>2, <4>1 DEF Owned
    <3> QED BY <3>1, <3>2
  <2> QED BY <2>3, <2>5 DEF Owned
<1> QED BY <1>2, <1>3, <1>4, <1>7, <1>8, <1>9 DEF Structures

-----------------------------------------------------------------------------
(* The invariant holds at the start, and every step keeps it.               *)

LEMMA InitEstablishes == Init => IInv
<1> SUFFICES ASSUME Init PROVE IInv
  OBVIOUS
<1>1. \A c \in Client : client[c] = NewClient(NULL)
  BY DEF Init
<1>2. /\ NewClient(NULL) \in ClientState /\ ~NewClient(NULL).queued
      /\ NewClient(NULL).crlf \in -1 .. Len(NewClient(NULL).in)
  BY EmptySeq DEF NewClient, ClientState
<1>3. Control
  BY ServerAssumption DEF Init, Control, ServerAssumption
<1>4. request \in Requests
  BY EmptySeq DEF Init, NewRequest, Requests
<1>5. Clients(client)
  BY <1>1, <1>2 DEF Init, Clients
<1>6. Consistent(queue, pool, client)
  <2>1. queue \in Seq(Client) /\ Len(queue) = 0
    BY EmptySeq DEF Init
  <2> QED BY <1>1, <1>2, <2>1 DEF Consistent
<1>7. EL!IsLoop(loop) /\ loop.count = 0
  BY ServerAssumption DEF Init, EL!EmptyLoop, EL!IsLoop, ServerAssumption
<1>8. Owned(conn, pool, client)
  <2>1. NoConn \in ConnState /\ NoConn.st = "none"
    BY EmptySeq DEF NoConn, ConnState
  <2> QED BY <2>1 DEF Init, Owned
<1> QED BY <1>3, <1>4, <1>5, <1>6, <1>7, <1>8 DEF Init, IInv, Structures, Started, RequestFits

\* The listening socket is the first entry of the event loop.
LEMMA ListenKeeps == IInv /\ Listen => IInv'
<1> SUFFICES ASSUME IInv, Listen PROVE IInv'
  OBVIOUS
<1> DEFINE e == [fd |-> ListenFd, ptr |-> THIS, revents |-> {},
                 events |-> EL!convert_event_flags({"RECV"})]
<1>1. EL!IsLoop(loop) /\ loop.count = 0 /\ pool = {} /\ state = "NOTARGET"
  BY DEF IInv, Structures, Started, Listen
<1>2. e \in EL!Entry /\ e.fd = ListenFd /\ e.ptr = THIS
  BY DEF EL!Entry, EL!convert_event_flags, EL!Requestable, EL!Reportable
<1>3. loop' = [count |-> 1, cursor |-> loop.cursor,
               bufs |-> [i \in 0 .. 0 |-> IF i = 0 THEN e ELSE loop.bufs[i]]]
  BY <1>1, ServerAssumption DEF Listen, EL!add, ServerAssumption
<1> HIDE DEF e
<1>4. EL!IsLoop(loop')
  BY <1>1, <1>2, <1>3, ServerAssumption DEF EL!IsLoop, ServerAssumption
<1>5. EL!Indices(loop') = {0} /\ loop'.count = 1 /\ loop'.bufs[0] = e
  BY <1>3 DEF EL!Indices
<1>6. Watches(loop', pool', client')
  <2>1. pool' = {} /\ Cardinality({}) = 0
    BY <1>1, FS_EmptySet DEF Listen
  <2> QED BY <1>2, <1>5, <2>1 DEF Watches
<1> QED BY <1>1, <1>4, <1>6
        DEF IInv, Control, Structures, Started, RequestFits, Listen, response

\* Outside of a response the target does not matter, and the invariant is made
\* of its parts.
LEMMA IInvFromParts ==
    ASSUME Control', Structures', Watches(loop', pool', client'), pc' # "init",
           state' = "NOTARGET"
    PROVE  IInv'
BY DEF IInv, Started, RequestFits

\* status(), header() and write() of a response: only the output of the target
\* and the state of the response change.
LEMMA OutputKeeps ==
    ASSUME IInv, state # "NOTARGET", NEW out \in WriteResults(client[target].out),
           client' = [client EXCEPT ![target].out = out],
           state' \in {"STATUS", "HEADERS", "CONTENT"}, keep_alive' \in {-1, 0, 1},
           UNCHANGED <<pc, target, req_bytes, request, pool, queue, loop, backlog, conn>>
    PROVE  IInv'
<1> DEFINE r == [client[target] EXCEPT !.out = out]
<1>1. pc = "user" /\ target \in pool /\ ~client[target].queued /\ target \in Client
  BY DEF IInv, RequestFits, Structures
<1>2. client[target] \in ClientState
  BY <1>1 DEF IInv, Structures, Clients
<1>3. out \in {"empty", "pending", "failed"}
  BY DEF WriteResults
<1>4. /\ r \in ClientState /\ r.in = client[target].in /\ r.crlf = client[target].crlf
      /\ r.sock = client[target].sock /\ r.queued = client[target].queued
  BY <1>2, <1>3 DEF ClientState
<1>5. client' = [client EXCEPT ![target] = r]
  OBVIOUS
<1>6. r.crlf \in -1 .. Len(r.in)
  BY <1>1, <1>4 DEF IInv, Structures, Clients
<1> HIDE DEF r
<1>7. queue' = Queued(queue, client[target], r, target)
  BY <1>4 DEF Queued
<1>8. /\ Clients(client') /\ Consistent(queue', pool, client') /\ Owned(conn, pool, client')
      /\ \A d \in Client : client'[d].sock = client[d].sock
  BY <1>1, <1>4, <1>5, <1>6, <1>7, ClientChanges DEF IInv
<1>9. Structures'
  BY <1>8 DEF IInv, Structures
<1>10. Watches(loop', pool', client')
  <2>1. \A c \in pool : client'[c].sock = client[c].sock
    BY <1>8 DEF IInv, Structures
  <2> QED BY <1>1, <2>1 DEF IInv, Started, Watches
<1>11. client'[target].in = client[target].in /\ client'[target].queued = client[target].queued
  BY <1>1, <1>4, <1>5 DEF IInv, Structures, Clients
<1> QED BY <1>1, <1>9, <1>10, <1>11 DEF IInv, Control, Started, RequestFits

LEMMA StatusKeeps == IInv /\ Status => IInv'
<1> SUFFICES ASSUME IInv, Status PROVE IInv'
  OBVIOUS
<1>1. keep_alive' \in {-1, 0, 1}
  BY DEF IInv, Control, Status
<1> QED BY <1>1, OutputKeeps DEF Status

LEMMA HeaderKeeps == IInv /\ Header => IInv'
<1> SUFFICES ASSUME IInv, Header PROVE IInv'
  OBVIOUS
<1>1. keep_alive' \in {-1, 0, 1}
  BY DEF IInv, Control, Header
<1> QED BY <1>1, OutputKeeps DEF Header

LEMMA WriteKeeps == IInv /\ Write => IInv'
<1> SUFFICES ASSUME IInv, Write PROVE IInv'
  OBVIOUS
<1>1. keep_alive' \in {-1, 0, 1}
  BY DEF IInv, Control, Write, KeepAliveWritten
<1> QED BY <1>1, OutputKeeps DEF Write

\* send(): the client is dropped, or answered and perhaps a candidate again.
LEMMA SendResponseKeeps ==
    ASSUME IInv, SendResponse, pc' \in {"user", "waiting"}, backlog' = backlog
    PROVE  IInv'
<1> DEFINE c == target
<1>1. /\ pc = "user" /\ c \in pool /\ ~client[c].queued /\ c \in Client
      /\ req_bytes \in RQ!HEAD_LEN .. Len(client[c].in)
  BY DEF IInv, RequestFits, Structures, SendResponse
<1>2. Watches(loop, pool, client)
  BY <1>1 DEF IInv, Started
<1>3. Control' /\ pc' # "init" /\ state' = "NOTARGET"
  BY DEF IInv, Control, SendResponse, NoTarget
<1>4. NewRequest \in Requests
  BY EmptySeq DEF NewRequest, Requests
<1>5. CASE SendFailed
  <2>1. Structures' /\ Watches(loop', pool', client')
    BY <1>1, <1>2, <1>4, <1>5, RemoveClient DEF IInv, Structures, SendFailed
  <2> QED BY <1>3, <2>1, IInvFromParts
<1>6. CASE SendDone
  <2> DEFINE keep  == KeepAliveWritten # 0
             in    == SubSeq(client[c].in, req_bytes + 1, Len(client[c].in))
             again == keep /\ RQ!contains(in, -1)
             crlf  == IF keep THEN RQ!seek(in, -1) ELSE -1
             add   == EL!add_events(loop, client[c].sock, {"SEND"})
             r     == [client[c] EXCEPT !.in = in, !.crlf = crlf, !.out = "pending",
                                        !.num_served = @ + 1, !.queued = @ \/ again,
                                        !.close_when_flushed = @ \/ ~keep]
  <2>1. client[c] \in ClientState /\ client[c].in \in Seq(RQ!Unit)
    BY <1>1 DEF IInv, Structures, Clients, ClientState
  <2>2. in \in Seq(RQ!Unit)
    <3>1. req_bytes + 1 \in Int /\ req_bytes + 1 >= 1
      BY <1>1, HeadLength
    <3> QED BY <2>1, <3>1, SubSeqProperties
  <2>3. Len(in) \in Nat /\ crlf \in -1 .. Len(in) /\ crlf \in Int
    <3> HIDE DEF in
    <3>1. Len(in) \in Nat /\ -1 \in -1 .. Len(in)
      BY <2>2
    <3>2. RQ!seek(in, -1) \in -1 .. Len(in)
      BY <2>2, <3>1, SeekBounds
    <3> QED BY <3>1, <3>2
  <2>4. again \in BOOLEAN /\ keep \in BOOLEAN
    BY SMTT(30) DEF RQ!contains
  <2>5. /\ loop' = IF keep THEN add ELSE EL!remove_events(add, client[c].sock, {"RECV"})
        /\ queue' = IF again THEN QU!Pushed(queue, c) ELSE queue
        /\ client' = [client EXCEPT ![c] = r]
        /\ request' = NewRequest
        /\ UNCHANGED <<pool, conn>>
    BY <1>6 DEF SendDone
  <2> HIDE DEF keep, in, again, crlf
  <2>6. /\ r \in ClientState /\ r.crlf = crlf /\ r.in = in /\ r.sock = client[c].sock
        /\ r.queued <=> client[c].queued \/ again
    <3>1. /\ client[c].num_served + 1 \in Nat
          /\ (client[c].queued \/ again) \in BOOLEAN
          /\ (client[c].close_when_flushed \/ ~keep) \in BOOLEAN
      BY <2>1, <2>4 DEF ClientState
    <3> QED BY <2>1, <2>2, <2>3, <3>1 DEF ClientState
  <2> HIDE DEF r
  <2>7. queue' = Queued(queue, client[c], r, c)
    BY <1>1, <2>4, <2>5, <2>6 DEF Queued
  <2>8. /\ Clients(client') /\ Consistent(queue', pool, client') /\ Owned(conn, pool, client')
        /\ \A d \in Client : client'[d].sock = client[d].sock
    BY <1>1, <2>3, <2>5, <2>6, <2>7, ClientChanges DEF IInv
  <2>9. EL!IsLoop(loop') /\ SameEntries(loop, loop')
    <3>1. EL!IsLoop(add) /\ SameEntries(loop, add)
      BY EventsKeepEntries DEF IInv, Structures
    <3> HIDE DEF add
    <3>2. /\ EL!IsLoop(EL!remove_events(add, client[c].sock, {"RECV"}))
          /\ SameEntries(add, EL!remove_events(add, client[c].sock, {"RECV"}))
      BY <3>1, EventsKeepEntries
    <3> QED BY <2>5, <3>1, <3>2 DEF SameEntries, EL!Indices
  <2>10. Watches(loop', pool', client')
    <3>1. pool' = pool /\ \A d \in pool : client'[d].sock = client[d].sock
      BY <2>5, <2>8 DEF IInv, Structures
    <3> QED BY <1>2, <2>9, <3>1, SameEntriesWatched
  <2>11. Structures'
    BY <1>4, <2>5, <2>8, <2>9 DEF IInv, Structures
  <2> QED BY <1>3, <2>10, <2>11, IInvFromParts
<1> QED BY <1>5, <1>6 DEF SendResponse

LEMMA SendKeeps == IInv /\ Send => IInv'
<1> SUFFICES ASSUME IInv, Send PROVE IInv'
  OBVIOUS
<1> QED BY SendResponseKeeps DEF Send

LEMMA WaitKeeps == IInv /\ Wait => IInv'
<1> SUFFICES ASSUME IInv, Wait PROVE IInv'
  OBVIOUS
<1>1. pc = "user" /\ pc' = "waiting" /\ backlog' = backlog
  BY DEF Wait
<1>2. CASE SendResponse
  BY <1>1, <1>2, SendResponseKeeps
<1>3. CASE /\ state = "NOTARGET"
           /\ UNCHANGED <<response, request, pool, client, queue, loop, conn>>
  BY <1>1, <1>3 DEF IInv, Control, Structures, Started, RequestFits, Watches, response
<1> QED BY <1>2, <1>3 DEF Wait

-----------------------------------------------------------------------------
(* Candidates.                                                             *)

\* In the loop of wait() the invariant says that no response is under way.
LEMMA NoResponseInWait ==
    ASSUME IInv, pc # "user", pc # "init"
    PROVE  state = "NOTARGET" /\ Watches(loop, pool, client)
BY DEF IInv, RequestFits, Started

\* What is known when a candidate has been popped.
LEMMA PoppedCandidate ==
    ASSUME IInv, Popping
    PROVE  /\ candidate \in pool /\ candidate \in Client
           /\ Clients(Unqueued) /\ Consistent(QU!Popped(queue), pool, Unqueued)
           /\ ~Unqueued[candidate].queued
           /\ \A d \in Client : Unqueued[d].sock = client[d].sock
           /\ Watches(loop, pool, Unqueued) /\ Owned(conn, pool, Unqueued)
           /\ client[candidate].in \in Seq(RQ!Unit)
           /\ CandidateHead \in Seq(RQ!Unit)
           /\ request.headers \in Seq(RQ!HeaderEntry)
           /\ TRUE \in RQ!ParseResults(CandidateHead) =>
                 ParsedRequest \in Requests /\ ParsedRequest.headers \in Seq(RQ!HeaderEntry)
<1>1. pool \in SUBSET Client /\ Clients(client) /\ Consistent(queue, pool, client) /\ queue # <<>>
  BY DEF IInv, Structures, Popping
<1>2. /\ candidate \in pool /\ Clients(Unqueued)
      /\ Consistent(QU!Popped(queue), pool, Unqueued)
      /\ ~Unqueued[candidate].queued
      /\ \A d \in Client : Unqueued[d].sock = client[d].sock
  BY <1>1, PoppedIsConsistent
<1>3. candidate \in Client
  BY <1>1, <1>2
<1>4. Watches(loop, pool, client)
  BY NoResponseInWait DEF Popping
<1>5. Watches(loop, pool, Unqueued)
  <2>1. SameEntries(loop, loop) /\ \A d \in pool : Unqueued[d].sock = client[d].sock
    BY <1>1, <1>2 DEF SameEntries
  <2> QED BY <1>4, <2>1, SameEntriesWatched
<1>6. Owned(conn, pool, Unqueued)
  <2>1. \A d \in pool : Unqueued[d].sock = client[d].sock
    BY <1>1, <1>2
  <2> QED BY <2>1 DEF IInv, Structures, Owned
<1>7. client[candidate].in \in Seq(RQ!Unit) /\ client[candidate].crlf \in -1 .. Len(client[candidate].in)
  BY <1>1, <1>3 DEF Clients, ClientState
<1>8. CandidateHead \in Seq(RQ!Unit)
  BY <1>7, SlicesAreUnits DEF CandidateHead
<1>9. request \in Requests /\ request.headers \in Seq(RQ!HeaderEntry)
  BY DEF IInv, Structures, Requests
<1>10. ASSUME TRUE \in RQ!ParseResults(CandidateHead)
       PROVE  ParsedRequest \in Requests /\ ParsedRequest.headers \in Seq(RQ!HeaderEntry)
  <2>1. RQ!Parsed(request.headers, CandidateHead, candidate) \in Seq(RQ!HeaderEntry)
    BY <1>3, <1>8, <1>9, <1>10, ParsedHeadIsNotEmpty, HeadersStayTyped
  <2>2. ParsedRequest = [request EXCEPT !.headers = RQ!Parsed(request.headers, CandidateHead, candidate)]
    BY DEF ParsedRequest
  <2> QED BY <1>9, <2>1, <2>2 DEF Requests
<1> QED BY <1>2, <1>3, <1>5, <1>6, <1>7, <1>8, <1>9, <1>10

LEMMA DropCandidateKeeps ==
    ASSUME IInv, Popping, NEW req \in Requests, DropCandidate(req)
    PROVE  IInv'
<1>1. Structures' /\ Watches(loop', pool', client')
  BY PoppedCandidate, RemoveClient DEF IInv, Structures, DropCandidate
<1>2. state = "NOTARGET" /\ pc = "waiting"
  BY NoResponseInWait DEF Popping
<1>3. Control' /\ pc' # "init" /\ state' = "NOTARGET"
  BY <1>2 DEF IInv, Control, DropCandidate, response
<1> QED BY <1>1, <1>3, IInvFromParts

LEMMA PopInvalidKeeps == IInv /\ PopInvalid => IInv'
<1> SUFFICES ASSUME IInv, PopInvalid PROVE IInv'
  OBVIOUS
<1>1. PICK headers \in RQ!ParsedInVain(request.headers, CandidateHead, candidate) :
         DropCandidate([request EXCEPT !.headers = headers])
  BY DEF PopInvalid
<1>2. Popping
  BY DEF PopInvalid
<1>3. headers \in Seq(RQ!HeaderEntry)
  BY <1>1, <1>2, PoppedCandidate, HeadersStayTyped
<1>4. [request EXCEPT !.headers = headers] \in Requests
  BY <1>3 DEF IInv, Structures, Requests
<1> QED BY <1>1, <1>2, <1>4, DropCandidateKeeps

LEMMA PopMalformedLengthKeeps == IInv /\ PopMalformedLength => IInv'
<1> SUFFICES ASSUME IInv, PopMalformedLength PROVE IInv'
  OBVIOUS
<1>1. Popping /\ TRUE \in RQ!ParseResults(CandidateHead) /\ DropCandidate(ParsedRequest)
  BY DEF PopMalformedLength
<1>2. ParsedRequest \in Requests
  BY <1>1, PoppedCandidate
<1> QED BY <1>1, <1>2, DropCandidateKeeps

LEMMA PopIncompleteKeeps == IInv /\ PopIncomplete => IInv'
<1> SUFFICES ASSUME IInv, PopIncomplete PROVE IInv'
  OBVIOUS
<1>1. /\ Popping /\ TRUE \in RQ!ParseResults(CandidateHead)
      /\ request' = ParsedRequest /\ queue' = QU!Popped(queue) /\ client' = Unqueued
      /\ UNCHANGED <<pc, response, pool, loop, backlog, conn>>
  BY DEF PopIncomplete
<1>2. Structures' /\ Watches(loop', pool', client')
  BY <1>1, PoppedCandidate DEF IInv, Structures
<1>3. state = "NOTARGET" /\ pc = "waiting"
  BY <1>1, NoResponseInWait DEF Popping
<1>4. Control' /\ pc' # "init" /\ state' = "NOTARGET"
  BY <1>1, <1>3 DEF IInv, Control, response
<1> QED BY <1>2, <1>4, IInvFromParts

LEMMA PopReadyKeeps == IInv /\ PopReady => IInv'
<1> SUFFICES ASSUME IInv, PopReady PROVE IInv'
  OBVIOUS
<1>1. /\ Popping /\ TRUE \in RQ!ParseResults(CandidateHead)
      /\ target' = candidate /\ state' = "STATUS" /\ keep_alive' = -1 /\ pc' = "user"
      /\ queue' = QU!Popped(queue) /\ client' = Unqueued
      /\ UNCHANGED <<pool, loop, backlog, conn>>
  BY DEF PopReady
<1>2. PICK len \in RQ!ContentLengths(ParsedRequest.headers) :
         /\ len >= 0 /\ Len(client[candidate].in) >= RQ!HEAD_LEN + len
         /\ request' = [ParsedRequest EXCEPT
               !.body = RQ!slice(client[candidate].in, RQ!HEAD_LEN, RQ!HEAD_LEN + len)]
         /\ req_bytes' = RQ!HEAD_LEN + len
  BY DEF PopReady
<1>3. /\ candidate \in pool /\ candidate \in Client /\ ~Unqueued[candidate].queued
      /\ Clients(Unqueued) /\ Consistent(QU!Popped(queue), pool, Unqueued)
      /\ Watches(loop, pool, Unqueued) /\ Owned(conn, pool, Unqueued)
      /\ client[candidate].in \in Seq(RQ!Unit)
      /\ ParsedRequest \in Requests /\ ParsedRequest.headers \in Seq(RQ!HeaderEntry)
  BY <1>1, PoppedCandidate
<1>4. len \in Nat /\ RQ!HEAD_LEN \in Nat
  <2>1. len \in Int
    BY <1>2, <1>3, ContentLengthsAreInts
  <2> QED BY <1>2, <2>1, HeadLength
<1>5. request' \in Requests
  <2>1. RQ!slice(client[candidate].in, RQ!HEAD_LEN, RQ!HEAD_LEN + len) \in Seq(RQ!Unit)
    BY <1>3, <1>4, SlicesAreUnits
  <2> QED BY <1>2, <1>3, <2>1 DEF Requests
<1>6. Unqueued[candidate].in = client[candidate].in
  BY <1>3 DEF Unqueued, IInv, Structures, Clients
<1>7. Structures' /\ Started'
  BY <1>1, <1>3, <1>5 DEF IInv, Structures, Started
<1>8. Control'
  BY <1>1, <1>2, <1>3, <1>4 DEF IInv, Control
<1>9. RequestFits'
  <2>1. req_bytes' \in RQ!HEAD_LEN .. Len(client[candidate].in)
    BY <1>2, <1>3, <1>4
  <2> QED BY <1>1, <1>3, <1>6, <2>1 DEF RequestFits
<1> QED BY <1>7, <1>8, <1>9 DEF IInv

-----------------------------------------------------------------------------
(* Events.                                                                 *)

LEMMA PollKeeps == IInv /\ Poll => IInv'
<1> SUFFICES ASSUME IInv, Poll PROVE IInv'
  OBVIOUS
<1>0. PICK broken \in SUBSET Fd :
          loop' = EL!poll(loop, [i \in EL!Indices(loop) |->
                     EL!Revents(loop.bufs[i], Ready(loop.bufs[i].fd, broken))])
  BY Zenon DEF Poll
<1> DEFINE revents == [i \in EL!Indices(loop) |->
                          EL!Revents(loop.bufs[i], Ready(loop.bufs[i].fd, broken))]
<1>1. /\ pc = "waiting" /\ loop' = EL!poll(loop, revents)
      /\ UNCHANGED <<pc, response, request, pool, client, queue, backlog, conn>>
  BY <1>0 DEF Poll
<1>2. state = "NOTARGET" /\ Watches(loop, pool, client)
  BY <1>1, NoResponseInWait
<1>3. \A i \in EL!Indices(loop) : loop.bufs[i].events \subseteq EL!Requestable
  BY DEF IInv, Structures, EL!IsLoop, EL!Indices, EL!Entry
<1>4. revents \in [EL!Indices(loop) -> SUBSET EL!Reportable]
  BY <1>3 DEF EL!Revents, EL!Reportable
<1> HIDE DEF revents
<1>5. EL!IsLoop(loop') /\ SameEntries(loop, loop')
  BY <1>1, <1>4, PollKeepsEntries DEF IInv, Structures
<1>6. Watches(loop', pool', client')
  BY <1>1, <1>2, <1>5, SameEntriesWatched
<1>7. Structures' /\ Control'
  BY <1>1, <1>5 DEF IInv, Structures, Control, response
<1> QED BY <1>1, <1>2, <1>6, <1>7, IInvFromParts DEF response

\* An event of a client names one that is in the pool and, the queue being empty,
\* no candidate.
LEMMA EventIsOfAClient ==
    ASSUME IInv, NEW type, NEW c \in Client, EventIs(type, c)
    PROVE  /\ c \in pool /\ ~client[c].queued
           /\ pc = "waiting" /\ state = "NOTARGET"
           /\ EL!IsLoop(EventTaken) /\ Watches(EventTaken, pool, client)
<1>1. /\ pc = "waiting" /\ queue = <<>> /\ ~EL!must_poll(loop)
      /\ EL!EventPtr(EL!skip(loop)) = c
  BY DEF EventIs
<1>2. state = "NOTARGET" /\ Watches(loop, pool, client)
  BY <1>1, NoResponseInWait
<1>3. /\ EL!IsLoop(EventTaken) /\ SameEntries(loop, EventTaken)
      /\ EL!skip(loop).cursor \in EL!Indices(loop)
      /\ loop.bufs[EL!skip(loop).cursor].ptr = c
  BY <1>1, TakenKeepsEntries DEF IInv, Structures, EventTaken
<1>4. Watches(EventTaken, pool, client)
  BY <1>2, <1>3, SameEntriesWatched
<1>5. c \in pool
  <2>1. c # THIS
    BY ServerAssumption DEF ServerAssumption
  <2> QED BY <1>2, <1>3, <2>1 DEF Watches
<1>6. ~client[c].queued
  <2>1. Len(queue) = 0
    BY <1>1, EmptySeq
  <2> QED BY <2>1 DEF IInv, Structures, Consistent
<1> QED BY <1>1, <1>2, <1>3, <1>4, <1>5, <1>6

\* Three handlers end in the removal of the client, and the flush of a closing
\* client does.
LEMMA EventRemoves ==
    ASSUME IInv, NEW type, NEW c \in Client, EventIs(type, c),
           remove_client(c, client, queue, EventTaken, request),
           UNCHANGED <<pc, response, backlog>>
    PROVE  IInv'
<1>1. /\ c \in pool /\ ~client[c].queued /\ pc = "waiting" /\ state = "NOTARGET"
      /\ EL!IsLoop(EventTaken) /\ Watches(EventTaken, pool, client)
  BY EventIsOfAClient
<1>2. Structures' /\ Watches(loop', pool', client')
  BY <1>1, RemoveClient DEF IInv, Structures
<1>3. Control' /\ pc' # "init" /\ state' = "NOTARGET"
  BY <1>1 DEF IInv, Control, response
<1> QED BY <1>2, <1>3, IInvFromParts

LEMMA EventAcceptKeeps == IInv /\ EventAccept => IInv'
<1> SUFFICES ASSUME IInv, EventAccept PROVE IInv'
  OBVIOUS
<1>1. /\ pc = "waiting" /\ ~EL!must_poll(loop) /\ loop' = EventTaken /\ pc' = "accepting"
      /\ UNCHANGED <<response, request, pool, client, queue, backlog, conn>>
  BY DEF EventAccept, EventIs
<1>2. state = "NOTARGET" /\ Watches(loop, pool, client)
  BY <1>1, NoResponseInWait
<1>3. EL!IsLoop(loop') /\ SameEntries(loop, loop')
  BY <1>1, TakenKeepsEntries DEF IInv, Structures, EventTaken
<1>4. Watches(loop', pool', client')
  BY <1>1, <1>2, <1>3, SameEntriesWatched
<1>5. Structures' /\ Control'
  BY <1>1, <1>3 DEF IInv, Structures, Control, response
<1> QED BY <1>1, <1>2, <1>4, <1>5, IInvFromParts DEF response

\* A client takes what has been received and may become a candidate.
LEMMA EventRecvKeeps ==
    ASSUME IInv, NEW c \in Client, EventRecv(c)
    PROVE  IInv'
<1> DEFINE fd == client[c].sock
           input == client[c].in \o conn[fd].rx
           r  == WithInput(client[c], input)
<1>1. /\ EventIs("RECV", c)
      /\ client' = [client EXCEPT ![c] = r]
      /\ queue' = Queued(queue, client[c], r, c)
      /\ conn' = [conn EXCEPT ![fd].rx = <<>>]
      /\ loop' = EventTaken
      /\ UNCHANGED <<pc, response, pool, backlog>>
      /\ \E headers \in {request.headers, RQ!Dangling(request.headers, c)} :
            request' = [request EXCEPT !.headers = headers]
  BY DEF EventRecv, AllInput
<1>2. /\ c \in pool /\ ~client[c].queued /\ pc = "waiting" /\ state = "NOTARGET"
      /\ EL!IsLoop(EventTaken) /\ Watches(EventTaken, pool, client)
  BY <1>1, EventIsOfAClient
<1>3. fd \in Fd
  BY <1>2, SocketsDiffer DEF IInv, Structures
<1>4. client[c] \in ClientState /\ client[c].in \in Seq(RQ!Unit)
      /\ client[c].crlf \in -1 .. Len(client[c].in)
  BY DEF IInv, Structures, Clients, ClientState
<1>5. conn \in [Fd -> ConnState] /\ conn[fd].rx \in Seq(RQ!Unit)
  BY <1>3 DEF IInv, Structures, Owned, ConnState
<1>6. input \in Seq(RQ!Unit) /\ Len(input) \in Nat /\ Len(client[c].in) <= Len(input)
  <2>1. input \in Seq(RQ!Unit) /\ Len(input) = Len(client[c].in) + Len(conn[fd].rx)
    BY <1>4, <1>5, ConcatProperties
  <2>2. Len(client[c].in) \in Nat /\ Len(conn[fd].rx) \in Nat
    BY <1>4, <1>5
  <2>3. \A x \in Int, y, z \in Nat : x = y + z => x \in Nat /\ y <= x
    OBVIOUS
  <2>4. Len(input) \in Int
    <3> HIDE DEF input
    <3>1. Len(client[c].in) + Len(conn[fd].rx) \in Int
      BY <2>2
    <3> QED BY <2>1, <3>1, Zenon
  <2> QED BY <2>1, <2>2, <2>3, <2>4, Zenon
<1> HIDE DEF input, fd
<1>7. /\ r \in ClientState /\ r.crlf \in -1 .. Len(r.in) /\ r.sock = client[c].sock
      /\ client[c].queued => r.queued
  <2>1. client[c].crlf \in -1 .. Len(input)
    <3>1. Len(client[c].in) \in Nat
      BY <1>4
    <3> QED BY <1>4, <1>6, <3>1
  <2>2. RQ!seek(input, client[c].crlf) \in -1 .. Len(input)
    BY <1>6, <2>1, SeekBounds
  <2> DEFINE k == RQ!seek(input, client[c].crlf)
             x == client[c].queued \/ k > -1
  <2>3. r = [client[c] EXCEPT !.in = input, !.crlf = k, !.queued = x]
    BY DEF WithInput
  <2>4. x \in BOOLEAN /\ (client[c].queued => x) /\ k \in -1 .. Len(input) /\ k \in Int
    BY <1>6, <2>2
  <2> HIDE DEF x, k, r
  <2> QED BY <1>4, <1>6, <2>3, <2>4 DEF ClientState
<1> HIDE DEF r
<1>8. /\ Clients(client') /\ Consistent(queue', pool, client') /\ Owned(conn, pool, client')
      /\ \A d \in Client : client'[d].sock = client[d].sock
  BY <1>1, <1>2, <1>7, ClientChanges DEF IInv
<1>9. Owned(conn', pool', client')
  <2> DEFINE k == [conn[fd] EXCEPT !.rx = <<>>]
  <2>1. conn' \in [Fd -> ConnState] /\ \A f \in Fd : conn'[f].st = conn[f].st
    <3>1. conn[fd] \in ConnState /\ <<>> \in Seq(RQ!Unit)
      BY <1>3, <1>5, EmptySeq
    <3>2. k \in ConnState /\ k.st = conn[fd].st
      BY <3>1 DEF ConnState
    <3>3. conn' = [conn EXCEPT ![fd] = k]
      BY <1>1
    <3> HIDE DEF k
    <3> QED BY <1>3, <1>5, <3>2, <3>3
  <2> QED BY <1>1, <1>8, <2>1 DEF Owned
<1>10. request' \in Requests
  BY <1>1, HeadersStayTyped, EmptySeq DEF IInv, Structures, Requests
<1>11. Watches(loop', pool', client')
  <2>1. SameEntries(loop', loop') /\ pool' = pool /\ \A d \in pool : client'[d].sock = client[d].sock
    BY <1>1, <1>8 DEF SameEntries, IInv, Structures
  <2> QED BY <1>1, <1>2, <2>1, SameEntriesWatched
<1>12. Structures'
  BY <1>1, <1>2, <1>8, <1>9, <1>10 DEF IInv, Structures
<1>13. Control' /\ pc' # "init" /\ state' = "NOTARGET"
  BY <1>1, <1>2 DEF IInv, Control, response
<1> QED BY <1>11, <1>12, <1>13, IInvFromParts

LEMMA EventFlushedKeeps ==
    ASSUME IInv, NEW c \in Client, EventFlushed(c)
    PROVE  IInv'
<1>1. EventIs("SEND", c) /\ UNCHANGED <<pc, response, backlog>>
  BY DEF EventFlushed
<1>2. /\ c \in pool /\ ~client[c].queued /\ pc = "waiting" /\ state = "NOTARGET"
      /\ EL!IsLoop(EventTaken) /\ Watches(EventTaken, pool, client)
  BY <1>1, EventIsOfAClient
<1>3. CASE client[c].close_when_flushed
  BY <1>1, <1>3, EventRemoves DEF EventFlushed
<1>4. CASE ~client[c].close_when_flushed
  <2> DEFINE r == [client[c] EXCEPT !.out = "empty"]
  <2>1. /\ loop' = EL!remove_events(EventTaken, client[c].sock, {"SEND"})
        /\ client' = [client EXCEPT ![c] = r]
        /\ UNCHANGED <<request, pool, queue, conn>>
    BY <1>4 DEF EventFlushed
  <2>2. client[c] \in ClientState /\ client[c].crlf \in -1 .. Len(client[c].in)
    BY DEF IInv, Structures, Clients
  <2>3. /\ r \in ClientState /\ r.crlf \in -1 .. Len(r.in) /\ r.sock = client[c].sock
        /\ r.queued = client[c].queued
    BY <2>2 DEF ClientState
  <2> HIDE DEF r
  <2>4. queue' = Queued(queue, client[c], r, c)
    BY <2>1, <2>3 DEF Queued
  <2>5. /\ Clients(client') /\ Consistent(queue', pool, client') /\ Owned(conn, pool, client')
        /\ \A d \in Client : client'[d].sock = client[d].sock
    BY <1>2, <2>1, <2>3, <2>4, ClientChanges DEF IInv
  <2>6. EL!IsLoop(loop') /\ SameEntries(EventTaken, loop')
    BY <1>2, <2>1, EventsKeepEntries
  <2>7. Watches(loop', pool', client')
    <3>1. pool' = pool /\ \A d \in pool : client'[d].sock = client[d].sock
      BY <2>1, <2>5 DEF IInv, Structures
    <3> QED BY <1>2, <2>6, <3>1, SameEntriesWatched
  <2>8. Structures'
    BY <2>1, <2>5, <2>6 DEF IInv, Structures
  <2>9. Control' /\ pc' # "init" /\ state' = "NOTARGET"
    BY <1>1, <1>2 DEF IInv, Control, response
  <2> QED BY <2>7, <2>8, <2>9, IInvFromParts
<1> QED BY <1>3, <1>4

LEMMA EventFlushedInPartKeeps ==
    ASSUME IInv, NEW c \in Client, EventFlushedInPart(c)
    PROVE  IInv'
<1>1. /\ EventIs("SEND", c) /\ loop' = EventTaken
      /\ conn' = [conn EXCEPT ![client[c].sock].room = FALSE]
      /\ UNCHANGED <<pc, response, request, pool, client, queue, backlog>>
  BY DEF EventFlushedInPart
<1>2. /\ c \in pool /\ ~client[c].queued /\ pc = "waiting" /\ state = "NOTARGET"
      /\ EL!IsLoop(EventTaken) /\ Watches(EventTaken, pool, client)
  BY <1>1, EventIsOfAClient
<1>3. Owned(conn', pool', client')
  <2> DEFINE fd == client[c].sock
             k  == [conn[fd] EXCEPT !.room = FALSE]
  <2>1. conn' \in [Fd -> ConnState] /\ \A f \in Fd : conn'[f].st = conn[f].st
    <3>1. fd \in Fd /\ conn \in [Fd -> ConnState]
      BY <1>2, SocketsDiffer DEF IInv, Structures, Owned
    <3>2. k \in ConnState /\ k.st = conn[fd].st
      BY <3>1 DEF ConnState
    <3>3. conn' = [conn EXCEPT ![fd] = k]
      BY <1>1
    <3> HIDE DEF fd, k
    <3> QED BY <3>1, <3>2, <3>3
  <2> QED BY <1>1, <2>1 DEF IInv, Structures, Owned
<1>4. Watches(loop', pool', client')
  BY <1>1, <1>2
<1>5. Structures' /\ Control'
  BY <1>1, <1>2, <1>3 DEF IInv, Structures, Control, response
<1> QED BY <1>1, <1>2, <1>4, <1>5, IInvFromParts DEF response

LEMMA EventKeeps ==
    ASSUME IInv, NEW c \in Client, Event(c)
    PROVE  IInv'
<1>1. CASE EventFailure(c)
  BY <1>1, EventRemoves DEF EventFailure
<1>2. CASE EventRecv(c)
  BY <1>2, EventRecvKeeps
<1>3. CASE EventClosed(c)
  BY <1>3, EventRemoves DEF EventClosed
<1>4. CASE EventFlushed(c)
  BY <1>4, EventFlushedKeeps
<1>5. CASE EventFlushedInPart(c)
  BY <1>5, EventFlushedInPartKeeps
<1>6. CASE EventFlushFailed(c)
  BY <1>6, EventRemoves DEF EventFlushFailed
<1> QED BY <1>1, <1>2, <1>3, <1>4, <1>5, <1>6 DEF Event

-----------------------------------------------------------------------------
(* Connections.                                                            *)

\* A new client gets a slot and a descriptor that are free.
LEMMA AcceptClientKeeps == IInv /\ AcceptClient => IInv'
<1> SUFFICES ASSUME IInv, AcceptClient PROVE IInv'
  OBVIOUS
<1>1. /\ pc = "accepting" /\ backlog > 0 /\ loop.count < MAX_CLIENTS + 1
      /\ backlog' = backlog - 1 /\ UNCHANGED <<pc, response, request>>
  BY DEF AcceptClient, CanAccept
<1> DEFINE Accepts(c, fd, stream, n) ==
              /\ pool' = pool \cup {c}
              /\ loop' = EL!add(loop, fd, {"RECV"}, c)
              /\ client' = [client EXCEPT ![c] = WithInput(NewClient(fd), SubSeq(stream, 1, n))]
              /\ queue' = Queued(queue, NewClient(fd), WithInput(NewClient(fd), SubSeq(stream, 1, n)), c)
              /\ conn' = [conn EXCEPT ![fd] =
                     [st |-> "open", rx |-> <<>>, room |-> TRUE,
                      todo |-> SubSeq(stream, n + 1, Len(stream))]]
<1>2. PICK c \in FreeSlot, fd \in {f \in Fd : conn[f].st = "none"}, stream \in Streams :
         \E n \in 0 .. Len(stream) : Accepts(c, fd, stream, n)
  BY Zenon DEF AcceptClient, FreeDescriptor
<1>3. PICK n \in 0 .. Len(stream) : Accepts(c, fd, stream, n)
  BY <1>2
<1> DEFINE input == SubSeq(stream, 1, n)
           r  == WithInput(NewClient(fd), input)
           k  == [st |-> "open", rx |-> <<>>, room |-> TRUE,
                  todo |-> SubSeq(stream, n + 1, Len(stream))]
<1>4. /\ pool' = pool \cup {c} /\ loop' = EL!add(loop, fd, {"RECV"}, c)
      /\ client' = [client EXCEPT ![c] = r] /\ queue' = Queued(queue, NewClient(fd), r, c)
      /\ conn' = [conn EXCEPT ![fd] = k]
  BY <1>3
<1>5. c \in Client \ pool /\ c \in Client /\ fd \in Fd /\ conn[fd].st = "none"
  BY DEF FreeSlot
<1>6. state = "NOTARGET" /\ Watches(loop, pool, client)
  BY <1>1, NoResponseInWait
<1>7. stream \in Seq(RQ!Unit) /\ Len(stream) \in Nat
  BY ServerAssumption DEF ServerAssumption
<1>8. input \in Seq(RQ!Unit) /\ SubSeq(stream, n + 1, Len(stream)) \in Seq(RQ!Unit)
  BY <1>7, SubSeqProperties
<1>9. k \in ConnState /\ k.st = "open"
  BY <1>8, EmptySeq DEF ConnState
<1> HIDE DEF input, k
<1>10. /\ r \in ClientState /\ r.crlf \in -1 .. Len(r.in) /\ r.sock = fd
  <2> DEFINE m == RQ!seek(input, -1)
             x == NewClient(fd).queued \/ m > -1
  <2>1. Len(input) \in Nat /\ -1 \in -1 .. Len(input)
    BY <1>8
  <2>2. m \in -1 .. Len(input) /\ m \in Int /\ x \in BOOLEAN
    <3>1. m \in -1 .. Len(input)
      BY <1>8, <2>1, SeekBounds
    <3> HIDE DEF m
    <3> QED BY <2>1, <3>1
  <2>3. /\ NewClient(fd) \in ClientState /\ NewClient(fd).sock = fd
        /\ NewClient(fd).crlf = -1
    BY <1>5, EmptySeq DEF NewClient, ClientState
  <2>4. r = [NewClient(fd) EXCEPT !.in = input, !.crlf = m, !.queued = x]
    BY <2>3 DEF WithInput
  <2> HIDE DEF m, x, r
  <2> QED BY <1>8, <2>2, <2>3, <2>4 DEF ClientState
<1> HIDE DEF r
<1>11. ~client[c].queued
  BY <1>5 DEF IInv, Structures, Consistent
<1>12. Consistent(queue', pool', client')
  <2>1. queue' = Queued(queue, client[c], r, c)
    BY <1>4, <1>11 DEF Queued, NewClient
  <2>2. /\ pool \in SUBSET Client /\ client \in [Client -> ClientState]
        /\ Consistent(queue, pool, client)
    BY DEF IInv, Structures, Clients
  <2>3. Consistent(Queued(queue, client[c], r, c), pool \cup {c}, [client EXCEPT ![c] = r])
    BY <1>5, <1>10, <1>11, <2>2, QueuedIsConsistent
  <2> QED BY <1>4, <2>1, <2>3
<1>13. client'[c] = r /\ \A d \in Client : d # c => client'[d] = client[d]
  BY <1>4, <1>5 DEF IInv, Structures, Clients
<1>14. Clients(client')
  BY <1>4, <1>5, <1>10, <1>13 DEF IInv, Structures, Clients
<1>15. \A d \in pool : d # c /\ d \in Client /\ client'[d].sock = client[d].sock /\ client[d].sock # fd
  BY <1>5, <1>13 DEF IInv, Structures, Owned
<1>16. EL!IsLoop(loop') /\ Watches(loop', pool', client')
  <2>1. /\ EL!IsLoop(loop) /\ pool \in SUBSET Client /\ client \in [Client -> ClientState]
        /\ client'[c].sock = fd
        /\ \A d \in pool : client[d].sock # fd
        /\ \A d \in pool : client'[d].sock = client[d].sock
    BY <1>10, <1>13, <1>15 DEF IInv, Structures, Clients
  <2>2. /\ EL!IsLoop(EL!add(loop, fd, {"RECV"}, c))
        /\ Watches(EL!add(loop, fd, {"RECV"}, c), pool \cup {c}, client')
    <3>1. ASSUME NEW dl, \A d \in pool : dl[d].sock = client[d].sock, dl[c].sock = fd
          PROVE  /\ EL!IsLoop(EL!add(loop, fd, {"RECV"}, c))
                 /\ Watches(EL!add(loop, fd, {"RECV"}, c), pool \cup {c}, dl)
      BY <1>1, <1>5, <1>6, <2>1, <3>1, AddWatches
    <3> QED BY <2>1, <3>1
  <2> QED BY <1>4, <2>2
<1>17. Owned(conn', pool', client')
  <2>1. conn' \in [Fd -> ConnState]
    BY <1>4, <1>9 DEF IInv, Structures, Owned
  <2>2. ASSUME NEW f \in Fd
        PROVE  conn'[f].st # "none" <=> \E d \in pool' : client'[d].sock = f
    <3>1. CASE f = fd
      BY <1>4, <1>5, <1>9, <1>10, <1>13, <3>1 DEF IInv, Structures, Owned
    <3>2. CASE f # fd
      <4>1. conn'[f] = conn[f]
        BY <1>4, <3>2 DEF IInv, Structures, Owned
      <4>2. conn[f].st # "none" <=> \E d \in pool : client[d].sock = f
        BY DEF IInv, Structures, Owned
      <4>3. (\E d \in pool' : client'[d].sock = f) <=> \E d \in pool : client'[d].sock = f
        BY <1>4, <1>10, <1>13, <3>2
      <4> QED BY <1>15, <4>1, <4>2, <4>3
    <3> QED BY <3>1, <3>2
  <2> QED BY <2>1, <2>2 DEF Owned
<1>18. Structures'
  BY <1>1, <1>4, <1>5, <1>12, <1>14, <1>16, <1>17 DEF IInv, Structures
<1>19. Control' /\ pc' # "init" /\ state' = "NOTARGET"
  BY <1>1, <1>6, ServerAssumption DEF IInv, Control, response, ServerAssumption
<1> QED BY <1>16, <1>18, <1>19, IInvFromParts

\* The other steps of the thread and the arrival of a connection only change pc
\* and the backlog.
LEMMA QuietKeeps ==
    ASSUME IInv, pc' \in {"init", "user", "waiting", "accepting"},
           backlog' \in 0 .. MaxBacklog, pc' = "init" <=> pc = "init",
           state = "NOTARGET" \/ pc' = pc,
           UNCHANGED <<response, request, pool, client, queue, loop, conn>>
    PROVE  IInv'
<1>1. Control' /\ Structures'
  BY DEF IInv, Control, Structures, response
<1>2. Started' /\ RequestFits'
  BY DEF IInv, Started, Watches, RequestFits, response
<1> QED BY <1>1, <1>2 DEF IInv

LEMMA AcceptRefusedKeeps == IInv /\ AcceptRefused => IInv'
<1> SUFFICES ASSUME IInv, AcceptRefused PROVE IInv'
  OBVIOUS
<1>1. backlog' \in 0 .. MaxBacklog
  BY ServerAssumption DEF AcceptRefused, CanAccept, IInv, Control, ServerAssumption
<1> QED BY <1>1, QuietKeeps DEF AcceptRefused, IInv, Control

LEMMA AcceptEndKeeps == IInv /\ AcceptEnd => IInv'
<1> SUFFICES ASSUME IInv, AcceptEnd PROVE IInv'
  OBVIOUS
<1>1. backlog' \in 0 .. MaxBacklog
  BY ServerAssumption DEF AcceptEnd, IInv, Control, ServerAssumption
<1>2. state = "NOTARGET"
  BY NoResponseInWait DEF AcceptEnd
<1> QED BY <1>1, <1>2, QuietKeeps DEF AcceptEnd

LEMMA PeerConnectKeeps == IInv /\ PeerConnect => IInv'
<1> SUFFICES ASSUME IInv, PeerConnect PROVE IInv'
  OBVIOUS
<1>1. backlog' \in 0 .. MaxBacklog
  BY ServerAssumption DEF PeerConnect, IInv, Control, ServerAssumption
<1> QED BY <1>1, QuietKeeps DEF PeerConnect, IInv, Control

\* A peer changes its side of an open connection, which stays open here.
LEMMA PeerKeeps ==
    ASSUME IInv, NEW fd \in Fd, NEW k \in ConnState, k.st # "none",
           conn[fd].st # "none", Peer(fd, k)
    PROVE  IInv'
<1>1. /\ conn' = [conn EXCEPT ![fd] = k]
      /\ UNCHANGED <<pc, response, request, pool, client, queue, loop, backlog>>
  BY DEF Peer
<1>2. Owned(conn', pool', client')
  <2>1. conn' \in [Fd -> ConnState] /\ \A f \in Fd : conn'[f].st # "none" <=> conn[f].st # "none"
    BY <1>1 DEF IInv, Structures, Owned
  <2> QED BY <1>1, <2>1 DEF IInv, Structures, Owned
<1>3. Structures' /\ Control'
  BY <1>1, <1>2 DEF IInv, Structures, Control, response
<1>4. Started' /\ RequestFits'
  BY <1>1 DEF IInv, Started, Watches, RequestFits, response
<1> QED BY <1>3, <1>4 DEF IInv

LEMMA PeerStepKeeps ==
    ASSUME IInv, NEW fd \in Fd,
           PeerSend(fd) \/ PeerFinish(fd) \/ PeerReset(fd) \/ PeerRead(fd)
    PROVE  IInv'
<1>1. conn[fd] \in ConnState
  BY DEF IInv, Structures, Owned
<1>2. CASE PeerSend(fd)
  <2>1. PICK n \in 1 .. Len(conn[fd].todo) :
           Peer(fd, [conn[fd] EXCEPT !.rx = @ \o SubSeq(conn[fd].todo, 1, n),
                                     !.todo = SubSeq(@, n + 1, Len(@))])
    BY <1>2 DEF PeerSend
  <2>2. conn[fd].todo \in Seq(RQ!Unit) /\ conn[fd].rx \in Seq(RQ!Unit) /\ Len(conn[fd].todo) \in Nat
    BY <1>1 DEF ConnState
  <2>3. /\ SubSeq(conn[fd].todo, 1, n) \in Seq(RQ!Unit)
        /\ SubSeq(conn[fd].todo, n + 1, Len(conn[fd].todo)) \in Seq(RQ!Unit)
    BY <2>2, SubSeqProperties
  <2>4. conn[fd].rx \o SubSeq(conn[fd].todo, 1, n) \in Seq(RQ!Unit)
    BY <2>2, <2>3, ConcatProperties
  <2>5. [conn[fd] EXCEPT !.rx = @ \o SubSeq(conn[fd].todo, 1, n),
                         !.todo = SubSeq(@, n + 1, Len(@))] \in ConnState
    BY <1>1, <2>3, <2>4 DEF ConnState
  <2>6. conn[fd].st = "open"
    BY <1>2 DEF PeerSend
  <2>7. [conn[fd] EXCEPT !.rx = @ \o SubSeq(conn[fd].todo, 1, n),
                         !.todo = SubSeq(@, n + 1, Len(@))].st = "open"
    BY <1>1, <2>6 DEF ConnState
  <2> QED BY <2>1, <2>5, <2>6, <2>7, PeerKeeps
<1>3. CASE PeerFinish(fd)
  <2>1. conn[fd].st = "open" /\ Peer(fd, [conn[fd] EXCEPT !.st = "fin"])
    BY <1>3 DEF PeerFinish
  <2>2. [conn[fd] EXCEPT !.st = "fin"] \in ConnState /\ [conn[fd] EXCEPT !.st = "fin"].st = "fin"
    BY <1>1 DEF ConnState
  <2> QED BY <2>1, <2>2, PeerKeeps
<1>4. CASE PeerReset(fd)
  <2>1. conn[fd].st \in {"open", "fin"} /\ Peer(fd, [conn[fd] EXCEPT !.st = "reset"])
    BY <1>4 DEF PeerReset
  <2>2. [conn[fd] EXCEPT !.st = "reset"] \in ConnState /\ [conn[fd] EXCEPT !.st = "reset"].st = "reset"
    BY <1>1 DEF ConnState
  <2> QED BY <2>1, <2>2, PeerKeeps
<1>5. CASE PeerRead(fd)
  <2>1. conn[fd].st \in {"open", "fin"} /\ Peer(fd, [conn[fd] EXCEPT !.room = TRUE])
    BY <1>5 DEF PeerRead
  <2>2. /\ [conn[fd] EXCEPT !.room = TRUE] \in ConnState
        /\ [conn[fd] EXCEPT !.room = TRUE].st = conn[fd].st
    BY <1>1 DEF ConnState
  <2> QED BY <2>1, <2>2, PeerKeeps
<1> QED BY <1>2, <1>3, <1>4, <1>5

-----------------------------------------------------------------------------
(* The theorems.                                                           *)

\* One case per action of Next.
LEMMA NextKeeps == IInv /\ [Next]_vars => IInv'
<1> SUFFICES ASSUME IInv, [Next]_vars PROVE IInv'
  OBVIOUS
<1>1. CASE Listen
  BY <1>1, ListenKeeps
<1>2. CASE Caller
  BY <1>2, StatusKeeps, HeaderKeeps, WriteKeeps, SendKeeps, WaitKeeps DEF Caller
<1>3. CASE Waiting
  <2>1. CASE Pop
    BY <2>1, PopInvalidKeeps, PopMalformedLengthKeeps, PopReadyKeeps, PopIncompleteKeeps DEF Pop
  <2>2. CASE Poll
    BY <2>2, PollKeeps
  <2>3. CASE EventAccept
    BY <2>3, EventAcceptKeeps
  <2>4. CASE \E c \in Client : Event(c)
    BY <2>4, EventKeeps
  <2> QED BY <1>3, <2>1, <2>2, <2>3, <2>4 DEF Waiting
<1>4. CASE Accepting
  BY <1>4, AcceptClientKeeps, AcceptRefusedKeeps, AcceptEndKeeps DEF Accepting
<1>5. CASE Peers
  BY <1>5, PeerConnectKeeps, PeerStepKeeps DEF Peers
<1>6. CASE UNCHANGED vars
  BY <1>6 DEF vars, response, IInv, Control, Structures, Started, Watches, RequestFits
<1> QED BY <1>1, <1>2, <1>3, <1>4, <1>5, <1>6 DEF Next

\* The inductive invariant holds in every reachable state.
THEOREM Inductive == Spec => []IInv
<1>1. Init => IInv
  BY InitEstablishes
<1>2. IInv /\ [Next]_vars => IInv'
  BY NextKeeps
<1> QED BY <1>1, <1>2, PTL DEF Spec

\* Every variable keeps its type: the buffers hold request data, the event loop
\* never has more entries than its array, and no count goes below zero.
THEOREM TypeCorrect == Spec => []TypeOK
<1>1. IInv => TypeOK
  BY IInvContains
<1> QED BY <1>1, Inductive, PTL

\* The clients marked as queued are the ones in the queue, each once and each of
\* them allocated, in wait(), send() and remove_client() alike.
THEOREM QueueIsConsistent == Spec => []QueueConsistent
<1>1. IInv => QueueConsistent
  BY IInvContains
<1> QED BY <1>1, Inductive, PTL

\* The event loop watches the listening socket and the allocated clients, each
\* under its own descriptor, and nothing else: no event goes astray.
THEOREM EventLoopMatchesPool == Spec => []LoopMatchesPool
<1>1. IInv => LoopMatchesPool
  BY IInvContains
<1> QED BY <1>1, Inductive, PTL

\* The request wait() returned stays where it is, in the buffer of a client that
\* is not removed before send().
THEOREM RequestStays == Spec => []RequestFits
<1>1. IInv => RequestFits
  BY IInvContains
<1> QED BY <1>1, Inductive, PTL
=============================================================================
