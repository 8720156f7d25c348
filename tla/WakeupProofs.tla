---------------------------- MODULE WakeupProofs ----------------------------
(***************************************************************************)
(* Theorems about what Server tells its event loop: that every client is   *)
(* watched for what it waits for, that no reported event is skipped, and    *)
(* that the last response of a connection is the last.                     *)
(***************************************************************************)
EXTENDS ServerProofs

(* The methods of the event loop and the events of its entries.            *)

\* m is l with the entry e at h.
Replaced(l, m, h, e) ==
    /\ m.count = l.count /\ m.cursor = l.cursor
    /\ \A i \in EL!Indices(l) : m.bufs[i] = IF i = h THEN e ELSE l.bufs[i]

\* A client of the pool has one entry, and find_socket_index() finds it.
LEMMA EntryOfClient ==
    ASSUME NEW l, EL!IsLoop(l), NEW p \in SUBSET Client, NEW cl, Watches(l, p, cl),
           NEW c \in p
    PROVE  LET h == EL!find_socket_index(l, cl[c].sock)
           IN  /\ h \in EL!Indices(l)
               /\ l.bufs[h].ptr = c
               /\ \A i \in EL!Indices(l) : l.bufs[i].ptr = c => i = h
<1> DEFINE h == EL!find_socket_index(l, cl[c].sock)
<1>1. c # THIS
  BY ServerAssumption DEF ServerAssumption
<1>2. \A i \in EL!Indices(l) : l.bufs[i].ptr = c => l.bufs[i].fd = cl[c].sock
  BY <1>1 DEF Watches
<1>3. \E i \in EL!Indices(l) : l.bufs[i].ptr = c
  BY DEF Watches
<1>4. h \in EL!Indices(l) /\ l.bufs[h].fd = cl[c].sock
  BY <1>2, <1>3, FindIndex
<1> HIDE DEF h
<1>5. \A i \in EL!Indices(l) : l.bufs[i].ptr = c => i = h
  BY <1>2, <1>4 DEF Watches
<1> QED BY <1>3, <1>4, <1>5 DEF h

\* add_events() and remove_events() of a client's socket.
LEMMA EventsReplaced ==
    ASSUME NEW l, EL!IsLoop(l), NEW fd, EL!find_socket_index(l, fd) \in EL!Indices(l),
           NEW events
    PROVE  LET h == EL!find_socket_index(l, fd)
               e == l.bufs[h]
           IN  /\ Replaced(l, EL!add_events(l, fd, events), h,
                           [e EXCEPT !.events = @ \cup EL!convert_event_flags(events)])
               /\ Replaced(l, EL!remove_events(l, fd, events), h,
                           [e EXCEPT !.events = @ \ EL!convert_event_flags(events)])
<1> DEFINE h == EL!find_socket_index(l, fd)
           flags == EL!convert_event_flags(events)
<1>1. h \in EL!Indices(l) /\ ~(h < 0)
  BY DEF EL!Indices, EL!IsLoop
<1>2. /\ EL!add_events(l, fd, events) = [l EXCEPT !.bufs[h].events = @ \cup flags]
      /\ EL!remove_events(l, fd, events) = [l EXCEPT !.bufs[h].events = @ \ flags]
  BY <1>1 DEF EL!add_events, EL!remove_events
<1> HIDE DEF h, flags
<1>3. PICK n \in 0 .. MAX_CLIENTS + 1 : \E k \in 0 .. n : \E b \in [0 .. n - 1 -> EL!Entry] :
         /\ l = [count |-> n, cursor |-> k, bufs |-> b]
         /\ EL!Indices(l) = 0 .. n - 1
  BY LoopRecord
<1>4. PICK k \in 0 .. n, b \in [0 .. n - 1 -> EL!Entry] :
         l = [count |-> n, cursor |-> k, bufs |-> b] /\ EL!Indices(l) = 0 .. n - 1
  BY <1>3
<1>5. ASSUME NEW e
      PROVE  Replaced(l, [count |-> n, cursor |-> k, bufs |-> [b EXCEPT ![h] = e]], h, e)
  BY <1>1, <1>4 DEF Replaced
<1>6. b[h] \in EL!Entry /\ l.bufs = b
  BY <1>1, <1>4
<1>7. l.bufs = b /\ \A x : [l EXCEPT !.bufs = x] = [count |-> n, cursor |-> k, bufs |-> x]
  BY <1>4
<1>8. /\ [l EXCEPT !.bufs[h].events = @ \cup flags] =
            [l EXCEPT !.bufs = [b EXCEPT ![h] = [b[h] EXCEPT !.events = @ \cup flags]]]
      /\ [l EXCEPT !.bufs[h].events = @ \ flags] =
            [l EXCEPT !.bufs = [b EXCEPT ![h] = [b[h] EXCEPT !.events = @ \ flags]]]
  BY <1>7
<1>9. /\ Replaced(l, EL!add_events(l, fd, events), h, [b[h] EXCEPT !.events = @ \cup flags])
      /\ Replaced(l, EL!remove_events(l, fd, events), h, [b[h] EXCEPT !.events = @ \ flags])
  <2> DEFINE up   == [b[h] EXCEPT !.events = @ \cup flags]
             down == [b[h] EXCEPT !.events = @ \ flags]
  <2>1. /\ EL!add_events(l, fd, events) = [l EXCEPT !.bufs = [b EXCEPT ![h] = up]]
        /\ EL!remove_events(l, fd, events) = [l EXCEPT !.bufs = [b EXCEPT ![h] = down]]
    BY <1>2, <1>8
  <2> HIDE DEF up, down
  <2>2. /\ EL!add_events(l, fd, events) = [count |-> n, cursor |-> k, bufs |-> [b EXCEPT ![h] = up]]
        /\ EL!remove_events(l, fd, events) = [count |-> n, cursor |-> k, bufs |-> [b EXCEPT ![h] = down]]
    BY <1>7, <2>1, Zenon
  <2>3. /\ Replaced(l, [count |-> n, cursor |-> k, bufs |-> [b EXCEPT ![h] = up]], h, up)
        /\ Replaced(l, [count |-> n, cursor |-> k, bufs |-> [b EXCEPT ![h] = down]], h, down)
    BY <1>5, Zenon
  <2> QED BY <2>2, <2>3 DEF up, down
<1> QED BY <1>7, <1>9 DEF h, flags

\* What evloop.wait() does when there is an event to report: the cursor moves
\* over entries with nothing to report to one that has, RECV comes before SEND,
\* and only the bit of the event is taken out.
LEMMA EventIsTaken ==
    ASSUME NEW l, EL!IsLoop(l), ~EL!must_poll(l)
    PROVE  LET s == EL!skip(l)
               t == EL!take(s)
               k == s.cursor
           IN  /\ k \in EL!Indices(l) /\ l.cursor <= k
               /\ t.count = l.count /\ t.cursor = k
               /\ \A i \in EL!Indices(l) : i # k => t.bufs[i] = l.bufs[i]
               /\ \A i \in EL!Indices(l) : l.cursor <= i /\ i < k => l.bufs[i].revents = {}
               /\ t.bufs[k].ptr = l.bufs[k].ptr /\ t.bufs[k].events = l.bufs[k].events
               /\ t.bufs[k].revents \subseteq l.bufs[k].revents
               /\ EL!EventPtr(s) = l.bufs[k].ptr
               /\ EL!EventType(s) = "RECV" => /\ "POLLIN" \in l.bufs[k].revents
                                              /\ "POLLIN" \notin t.bufs[k].revents
<1> DEFINE s == EL!skip(l)
           t == EL!take(s)
           k == s.cursor
<1>1. EL!Reported(l) # {} /\ EL!Reported(l) \subseteq Nat
  BY DEF EL!must_poll, EL!Reported, EL!IsLoop
<1>2. PICK m \in EL!Reported(l) : \A j \in EL!Reported(l) : m <= j
  BY <1>1, NatMinimum
<1>3. k \in EL!Reported(l) /\ \A j \in EL!Reported(l) : k <= j
  BY <1>1, <1>2 DEF EL!skip, EL!IsLoop
<1>4. k \in EL!Indices(l) /\ l.cursor <= k
  BY <1>3 DEF EL!Reported, EL!Indices, EL!IsLoop
<1>5. s = [count |-> l.count, cursor |-> k, bufs |-> l.bufs]
  <2>1. PICK n, j, b : l = [count |-> n, cursor |-> j, bufs |-> b]
    BY LoopRecord
  <2>2. \A x : [l EXCEPT !.cursor = x] = [count |-> n, cursor |-> x, bufs |-> b]
    BY <2>1
  <2> QED BY <2>1, <2>2 DEF EL!skip
<1>6. l.bufs[k] \in EL!Entry /\ l.bufs \in [EL!Indices(l) -> EL!Entry]
  BY <1>4 DEF EL!IsLoop, EL!Indices
<1>7. s.bufs[s.cursor] = l.bufs[k]
  BY <1>5
<1>8. /\ EL!EventType(s) \in {"RECV", "SEND", "FAILURE"}
      /\ EL!EventType(s) = "RECV" => "POLLIN" \in l.bufs[k].revents
  BY <1>7 DEF EL!EventType
<1> HIDE DEF s, k
<1> DEFINE left == IF EL!EventType(s) = "RECV" THEN l.bufs[k].revents \ {"POLLIN"}
                   ELSE IF EL!EventType(s) = "SEND" THEN l.bufs[k].revents \ {"POLLOUT"} ELSE {}
<1>9. t = [s EXCEPT !.bufs[s.cursor].revents = left]
  <2>1. CASE EL!EventType(s) = "RECV"
    BY <1>7, <2>1 DEF EL!take
  <2>2. CASE EL!EventType(s) = "SEND"
    BY <1>7, <2>2 DEF EL!take
  <2>3. CASE EL!EventType(s) = "FAILURE"
    BY <2>3 DEF EL!take
  <2> QED BY <1>8, <2>1, <2>2, <2>3
<1>10. left \subseteq l.bufs[k].revents /\ (EL!EventType(s) = "RECV" => "POLLIN" \notin left)
  OBVIOUS
<1> HIDE DEF left, t
<1>11. t = [count |-> l.count, cursor |-> k,
            bufs |-> [l.bufs EXCEPT ![k] = [l.bufs[k] EXCEPT !.revents = left]]]
  BY <1>5, <1>9
<1>12. /\ t.count = l.count /\ t.cursor = k
       /\ \A i \in EL!Indices(l) : i # k => t.bufs[i] = l.bufs[i]
       /\ t.bufs[k] = [l.bufs[k] EXCEPT !.revents = left]
  BY <1>4, <1>6, <1>11
<1>13. /\ t.bufs[k].ptr = l.bufs[k].ptr /\ t.bufs[k].events = l.bufs[k].events
       /\ t.bufs[k].revents = left
  BY <1>6, <1>12 DEF EL!Entry
<1>14. \A i \in EL!Indices(l) : l.cursor <= i /\ i < k => l.bufs[i].revents = {}
  BY <1>3, <1>4 DEF EL!Reported, EL!Indices, EL!IsLoop
<1>15. EL!EventPtr(s) = l.bufs[k].ptr
  BY <1>7 DEF EL!EventPtr
<1> QED BY <1>4, <1>8, <1>10, <1>12, <1>13, <1>14, <1>15 DEF s, k, t

\* remove() of a socket the cursor has not passed: every entry that is left was
\* there before, and those behind the cursor were behind it.
LEMMA RemovedAhead ==
    ASSUME NEW l, EL!IsLoop(l), NEW fd,
           EL!find_socket_index(l, fd) \in EL!Indices(l),
           l.cursor <= EL!find_socket_index(l, fd)
    PROVE  LET h == EL!find_socket_index(l, fd)
               r == EL!remove(l, fd)
           IN  \A j \in EL!Indices(r) :
                  \E g \in EL!Indices(l) \ {h} :
                     /\ r.bufs[j] = l.bufs[g]
                     /\ j < r.cursor => g < l.cursor
<1> DEFINE h == EL!find_socket_index(l, fd)
           r == EL!remove(l, fd)
<1>1. h \in Int /\ ~(h < 0) /\ l.count \in Nat /\ l.cursor \in 0 .. l.count /\ h < l.count
  BY DEF EL!Indices, EL!IsLoop
<1> DEFINE cursor == IF l.cursor > h THEN l.cursor - 1 ELSE l.cursor
           bufs == [j \in 0 .. l.count - 2 |->
                       IF j = h THEN l.bufs[l.count - 1] ELSE l.bufs[j]]
<1>7. r = IF h < 0 THEN l ELSE [count |-> l.count - 1, cursor |-> cursor, bufs |-> bufs]
  BY Zenon DEF EL!remove
<1>3. l.cursor <= h
  OBVIOUS
<1> HIDE DEF h, r
<1>8. cursor = l.cursor
  BY <1>1, <1>3
<1> HIDE DEF cursor, bufs
<1>2. r = [count |-> l.count - 1, cursor |-> l.cursor, bufs |-> bufs]
  BY Zenon, <1>1, <1>7, <1>8
<1> USE DEF bufs
<1> SUFFICES ASSUME NEW j \in EL!Indices(r)
             PROVE  \E g \in EL!Indices(l) \ {h} :
                       r.bufs[j] = l.bufs[g] /\ (j < r.cursor => g < l.cursor)
  BY DEF h, r
<1>4. j \in 0 .. l.count - 2 /\ r.bufs[j] = (IF j = h THEN l.bufs[l.count - 1] ELSE l.bufs[j])
      /\ r.cursor = l.cursor
  BY <1>1, <1>2 DEF EL!Indices
<1>5. CASE j = h
  <2>1. l.count - 1 \in EL!Indices(l) \ {h} /\ ~(j < r.cursor)
    BY <1>1, <1>3, <1>4, <1>5 DEF EL!Indices
  <2> QED BY <1>4, <1>5, <2>1
<1>6. CASE j # h
  <2>1. j \in EL!Indices(l) \ {h}
    BY <1>1, <1>4, <1>6 DEF EL!Indices
  <2> QED BY <1>4, <1>6, <2>1
<1> QED BY <1>5, <1>6

-----------------------------------------------------------------------------
(* The invariant: what an entry of the event loop has to do with its client *)
(* and with the cursor.                                                    *)

\* The entry e of a client with the contents k; serving says whether it is being
\* responded to.  POLLIN has been taken out of the reported events of whoever is
\* a candidate or being served, so that it is not read from in between.
Agrees(e, k, serving) ==
    /\ k.close_when_flushed =>
          /\ "POLLIN" \notin e.events \cup e.revents /\ "POLLOUT" \in e.events
          /\ ~k.queued /\ ~serving
    /\ ~k.close_when_flushed => "POLLIN" \in e.events
    /\ ~serving => (k.out = "pending" <=> "POLLOUT" \in e.events)
    /\ k.queued \/ serving => "POLLIN" \notin e.revents

Watched(l, cl, tg) ==
    \A i \in EL!Indices(l) :
       l.bufs[i].ptr # THIS => Agrees(l.bufs[i], cl[l.bufs[i].ptr], l.bufs[i].ptr = tg)

\* What the cursor has passed has nothing to deliver, and is no entry of a client
\* that may be removed before the next event: neither a candidate's nor the target's.
Passed(l, cl, tg) ==
    \A i \in EL!Indices(l) :
       i < l.cursor =>
          /\ l.bufs[i].revents = {}
          /\ l.bufs[i].ptr # THIS => ~cl[l.bufs[i].ptr].queued /\ l.bufs[i].ptr # tg

Attended ==
    /\ state = "NOTARGET" => target = NULL
    /\ Watched(loop, client, target)
    /\ Passed(loop, client, target)

WInv == IInv /\ Attended

\* The invariant contains the ones the runs check.
LEMMA WInvContains ==
    ASSUME WInv
    PROVE  NothingSkipped /\ ClosingIsFinal /\ OutputHasWakeup /\ InputHasWakeup
<1>1. \A c \in pool : /\ EL!find_socket_index(loop, client[c].sock) \in EL!Indices(loop)
                      /\ EntryOf(c).ptr = c
  <2> TAKE c \in pool
  <2>1. pc # "init" /\ Watches(loop, pool, client)
    BY DEF WInv, IInv, Started
  <2> QED BY <2>1, EntryOfClient DEF WInv, IInv, Structures, EntryOf
<1>2. \A c \in pool : Agrees(EntryOf(c), client[c], c = target)
  <2> TAKE c \in pool
  <2>1. c # THIS
    BY ServerAssumption DEF ServerAssumption, WInv, IInv, Structures
  <2> QED BY <1>1, <2>1 DEF WInv, Attended, Watched, EntryOf
<1>3. NothingSkipped
  <2>1. \A i \in 0 .. loop.cursor - 1 : i < loop.count => i \in EL!Indices(loop) /\ i < loop.cursor
    BY DEF WInv, IInv, Structures, EL!IsLoop, EL!Indices
  <2> QED BY <2>1 DEF WInv, Attended, Passed, NothingSkipped
<1> QED BY <1>2, <1>3 DEF Agrees, ClosingIsFinal, OutputHasWakeup, InputHasWakeup

\* A client other than c is the target before and after.
SameTarget(p, c, tg, th) == \A d \in p : d # c => (d = tg <=> d = th)

\* One client and its entry change, and agree afterwards.
LEMMA ClientAttended ==
    ASSUME NEW l, EL!IsLoop(l), NEW p \in SUBSET Client, NEW cl \in [Client -> ClientState],
           Watches(l, p, cl), NEW c \in p, NEW tg, Watched(l, cl, tg), Passed(l, cl, tg),
           NEW h \in EL!Indices(l), l.bufs[h].ptr = c,
           \A i \in EL!Indices(l) : l.bufs[i].ptr = c => i = h,
           NEW m, NEW e, e.ptr = c, Replaced(l, m, h, e),
           NEW r, NEW th, SameTarget(p, c, tg, th), Agrees(e, r, c = th),
           h < l.cursor => e.revents = {} /\ ~r.queued /\ c # th
    PROVE  Watched(m, [cl EXCEPT ![c] = r], th) /\ Passed(m, [cl EXCEPT ![c] = r], th)
<1> DEFINE dl == [cl EXCEPT ![c] = r]
<1>1. dl[c] = r /\ \A d \in Client : d # c => dl[d] = cl[d]
  OBVIOUS
<1> HIDE DEF dl
<1>2. EL!Indices(m) = EL!Indices(l) /\ m.cursor = l.cursor
  BY DEF Replaced, EL!Indices
<1>3. c # THIS /\ m.bufs[h] = e
  BY ServerAssumption DEF ServerAssumption, Replaced
<1>4. ASSUME NEW i \in EL!Indices(l), i # h
      PROVE  /\ m.bufs[i] = l.bufs[i]
             /\ m.bufs[i].ptr # THIS =>
                   /\ dl[m.bufs[i].ptr] = cl[l.bufs[i].ptr]
                   /\ m.bufs[i].ptr = tg <=> m.bufs[i].ptr = th
  <2>1. m.bufs[i] = l.bufs[i] /\ l.bufs[i].ptr # c
    BY <1>4 DEF Replaced
  <2>2. l.bufs[i].ptr # THIS => l.bufs[i].ptr \in p
    BY DEF Watches
  <2> QED BY <1>1, <2>1, <2>2 DEF SameTarget
<1>5. Watched(m, dl, th)
  <2> SUFFICES ASSUME NEW i \in EL!Indices(l), m.bufs[i].ptr # THIS
               PROVE  Agrees(m.bufs[i], dl[m.bufs[i].ptr], m.bufs[i].ptr = th)
    BY <1>2 DEF Watched
  <2>1. CASE i = h
    BY <1>1, <1>3, <2>1
  <2>2. CASE i # h
    <3>1. Agrees(l.bufs[i], cl[l.bufs[i].ptr], l.bufs[i].ptr = tg)
      BY <1>4, <2>2 DEF Watched
    <3> QED BY <1>4, <2>2, <3>1 DEF Agrees
  <2> QED BY <2>1, <2>2
<1>6. Passed(m, dl, th)
  <2> SUFFICES ASSUME NEW i \in EL!Indices(l), i < l.cursor
               PROVE  /\ m.bufs[i].revents = {}
                      /\ m.bufs[i].ptr # THIS => ~dl[m.bufs[i].ptr].queued /\ m.bufs[i].ptr # th
    BY <1>2 DEF Passed
  <2>1. CASE i = h
    BY <1>1, <1>3, <2>1
  <2>2. CASE i # h
    BY <1>4, <2>2 DEF Passed
  <2> QED BY <2>1, <2>2
<1> QED BY <1>5, <1>6 DEF dl

\* A client the cursor has not passed is removed.
LEMMA RemovedAttended ==
    ASSUME NEW l, EL!IsLoop(l), NEW p \in SUBSET Client, NEW cl \in [Client -> ClientState],
           Watches(l, p, cl), NEW c \in p, NEW tg, Watched(l, cl, tg), Passed(l, cl, tg),
           l.cursor <= EL!find_socket_index(l, cl[c].sock),
           NEW th, SameTarget(p, c, tg, th)
    PROVE  /\ Watched(EL!remove(l, cl[c].sock), [cl EXCEPT ![c] = NewClient(NULL)], th)
           /\ Passed(EL!remove(l, cl[c].sock), [cl EXCEPT ![c] = NewClient(NULL)], th)
<1> DEFINE dl == [cl EXCEPT ![c] = NewClient(NULL)]
           h  == EL!find_socket_index(l, cl[c].sock)
           m  == EL!remove(l, cl[c].sock)
<1>1. \A d \in Client : d # c => dl[d] = cl[d]
  OBVIOUS
<1>2. h \in EL!Indices(l) /\ \A i \in EL!Indices(l) : l.bufs[i].ptr = c => i = h
  BY EntryOfClient
<1>3. h \in EL!Indices(l) /\ l.bufs[h].ptr = c
  BY EntryOfClient
<1>4. \A j \in EL!Indices(m) :
         \E g \in EL!Indices(l) \ {h} :
            m.bufs[j] = l.bufs[g] /\ (j < m.cursor => g < l.cursor)
  BY <1>2, RemovedAhead
<1>5. \A g \in EL!Indices(l) \ {h} : l.bufs[g].ptr # c
  BY <1>2
<1> HIDE DEF dl, h, m
<1>6. ASSUME NEW j \in EL!Indices(m)
      PROVE  /\ m.bufs[j].ptr # THIS => Agrees(m.bufs[j], dl[m.bufs[j].ptr], m.bufs[j].ptr = th)
             /\ j < m.cursor =>
                   /\ m.bufs[j].revents = {}
                   /\ m.bufs[j].ptr # THIS => ~dl[m.bufs[j].ptr].queued /\ m.bufs[j].ptr # th
  <2>1. PICK g \in EL!Indices(l) \ {h} :
           m.bufs[j] = l.bufs[g] /\ (j < m.cursor => g < l.cursor)
    BY <1>4
  <2>2. l.bufs[g].ptr # c /\ (l.bufs[g].ptr # THIS => l.bufs[g].ptr \in p)
    BY <1>5 DEF Watches
  <2>3. l.bufs[g].ptr # THIS => /\ dl[l.bufs[g].ptr] = cl[l.bufs[g].ptr]
                                /\ l.bufs[g].ptr = tg <=> l.bufs[g].ptr = th
    BY <1>1, <2>2 DEF SameTarget
  <2>4. l.bufs[g].ptr # THIS => Agrees(l.bufs[g], cl[l.bufs[g].ptr], l.bufs[g].ptr = tg)
    BY DEF Watched
  <2>5. l.bufs[g].ptr # THIS => Agrees(l.bufs[g], dl[l.bufs[g].ptr], l.bufs[g].ptr = th)
    BY <2>3, <2>4 DEF Agrees
  <2>6. g < l.cursor =>
           /\ l.bufs[g].revents = {}
           /\ l.bufs[g].ptr # THIS => ~dl[l.bufs[g].ptr].queued /\ l.bufs[g].ptr # th
    BY <2>3 DEF Passed
  <2> QED BY <2>1, <2>5, <2>6
<1>7. Watched(m, dl, th) /\ Passed(m, dl, th)
  BY <1>6 DEF Watched, Passed
<1> QED BY <1>7 DEF m, dl

\* An event is taken while nobody is a candidate or being served.
LEMMA TakenAttended ==
    ASSUME NEW l, EL!IsLoop(l), ~EL!must_poll(l), NEW p, NEW cl, Watches(l, p, cl),
           NEW tg, Watched(l, cl, tg), Passed(l, cl, tg),
           \A d \in p : ~cl[d].queued /\ d # tg
    PROVE  /\ Watched(EL!take(EL!skip(l)), cl, tg)
           /\ Passed(EL!take(EL!skip(l)), cl, tg)
<1> DEFINE t == EL!take(EL!skip(l))
           k == EL!skip(l).cursor
<1>1. /\ k \in EL!Indices(l) /\ l.cursor <= k
      /\ t.count = l.count /\ t.cursor = k
      /\ \A i \in EL!Indices(l) : i # k => t.bufs[i] = l.bufs[i]
      /\ \A i \in EL!Indices(l) : l.cursor <= i /\ i < k => l.bufs[i].revents = {}
      /\ t.bufs[k].ptr = l.bufs[k].ptr /\ t.bufs[k].events = l.bufs[k].events
      /\ t.bufs[k].revents \subseteq l.bufs[k].revents
  BY EventIsTaken
<1> HIDE DEF t, k
<1>2. EL!Indices(t) = EL!Indices(l)
  BY <1>1 DEF EL!Indices
<1>3. \A i \in EL!Indices(l) : /\ t.bufs[i].ptr = l.bufs[i].ptr
                               /\ t.bufs[i].events = l.bufs[i].events
                               /\ t.bufs[i].revents \subseteq l.bufs[i].revents
  BY <1>1
<1>4. Watched(t, cl, tg)
  <2> SUFFICES ASSUME NEW i \in EL!Indices(l), l.bufs[i].ptr # THIS
               PROVE  Agrees(t.bufs[i], cl[l.bufs[i].ptr], l.bufs[i].ptr = tg)
    BY <1>2, <1>3 DEF Watched
  <2>1. Agrees(l.bufs[i], cl[l.bufs[i].ptr], l.bufs[i].ptr = tg)
    BY DEF Watched
  <2> QED BY <1>3, <2>1 DEF Agrees
<1>5. Passed(t, cl, tg)
  <2> SUFFICES ASSUME NEW i \in EL!Indices(l), i < k
               PROVE  /\ t.bufs[i].revents = {}
                      /\ t.bufs[i].ptr # THIS => ~cl[t.bufs[i].ptr].queued /\ t.bufs[i].ptr # tg
    BY <1>1, <1>2 DEF Passed
  <2>1. i \in Int /\ k \in Int /\ l.cursor \in Int
    BY <1>1 DEF EL!Indices, EL!IsLoop
  <2>2. l.bufs[i].revents = {} /\ t.bufs[i] = l.bufs[i]
    BY <1>1, <2>1 DEF Passed
  <2>3. l.bufs[i].ptr # THIS => l.bufs[i].ptr \in p
    BY DEF Watches
  <2> QED BY <2>2, <2>3
<1> QED BY <1>4, <1>5 DEF t

\* In the loop of wait() there is no target, and with an empty queue no candidate.
LEMMA NobodyServed ==
    ASSUME WInv, pc # "user", pc # "init"
    PROVE  /\ state = "NOTARGET" /\ target = NULL /\ Watches(loop, pool, client)
           /\ \A d \in pool : d # target
           /\ queue = <<>> => \A d \in pool : ~client[d].queued
<1>1. state = "NOTARGET" /\ Watches(loop, pool, client)
  BY NoResponseInWait DEF WInv
<1>2. target = NULL /\ \A d \in pool : d # target
  BY <1>1, ServerAssumption DEF WInv, Attended, IInv, Structures, ServerAssumption
<1>3. queue = <<>> => \A d \in pool : ~client[d].queued
  BY EmptySeq DEF WInv, IInv, Structures, Consistent
<1> QED BY <1>1, <1>2, <1>3

\* What a handler of an event of client c finds.
LEMMA EventAttended ==
    ASSUME WInv, NEW type, NEW c \in Client, EventIs(type, c)
    PROVE  LET h == EL!find_socket_index(EventTaken, client[c].sock)
           IN  /\ c \in pool /\ pc = "waiting" /\ state = "NOTARGET" /\ target = NULL
               /\ EL!IsLoop(EventTaken) /\ Watches(EventTaken, pool, client)
               /\ Watched(EventTaken, client, target) /\ Passed(EventTaken, client, target)
               /\ h \in EL!Indices(EventTaken) /\ EventTaken.cursor = h
               /\ EventTaken.bufs[h].ptr = c
               /\ \A i \in EL!Indices(EventTaken) : EventTaken.bufs[i].ptr = c => i = h
               /\ type = "RECV" => /\ "POLLIN" \notin EventTaken.bufs[h].revents
                                   /\ ~client[c].close_when_flushed
<1> DEFINE h == EL!find_socket_index(EventTaken, client[c].sock)
           k == EL!skip(loop).cursor
<1>1. /\ pc = "waiting" /\ queue = <<>> /\ ~EL!must_poll(loop)
      /\ EL!EventPtr(EL!skip(loop)) = c /\ EL!EventType(EL!skip(loop)) = type
  BY DEF EventIs
<1>2. /\ state = "NOTARGET" /\ target = NULL /\ Watches(loop, pool, client)
      /\ \A d \in pool : d # target /\ ~client[d].queued
  BY <1>1, NobodyServed
<1>3. c \in pool /\ EL!IsLoop(EventTaken) /\ Watches(EventTaken, pool, client)
  BY EventIsOfAClient DEF WInv
<1>4. Watched(EventTaken, client, target) /\ Passed(EventTaken, client, target)
  BY <1>1, <1>2, TakenAttended DEF WInv, Attended, IInv, Structures, EventTaken
<1>5. h \in EL!Indices(EventTaken) /\ EventTaken.bufs[h].ptr = c
  BY <1>3, EntryOfClient DEF WInv, IInv, Structures
<1>6. \A i \in EL!Indices(EventTaken) : EventTaken.bufs[i].ptr = c => i = h
  BY <1>3, EntryOfClient DEF WInv, IInv, Structures
<1>7. /\ k \in EL!Indices(loop) /\ EventTaken.count = loop.count /\ EventTaken.cursor = k
      /\ EventTaken.bufs[k].ptr = loop.bufs[k].ptr /\ loop.bufs[k].ptr = c
      /\ type = "RECV" => /\ "POLLIN" \in loop.bufs[k].revents
                          /\ "POLLIN" \notin EventTaken.bufs[k].revents
  BY <1>1, EventIsTaken DEF WInv, IInv, Structures, EventTaken
<1> HIDE DEF h, k
<1>8. k = h
  BY <1>6, <1>7 DEF EL!Indices
<1>9. type = "RECV" => ~client[c].close_when_flushed
  <2>1. c # THIS
    BY ServerAssumption DEF ServerAssumption
  <2>2. Agrees(loop.bufs[k], client[c], c = target)
    BY <1>7, <2>1 DEF WInv, Attended, Watched
  <2> QED BY <1>7, <2>2 DEF Agrees
<1> QED BY <1>1, <1>2, <1>3, <1>4, <1>5, <1>6, <1>7, <1>8, <1>9 DEF h

\* What the code finds out about the client whose response is being built.
LEMMA TargetAttended ==
    ASSUME WInv, state # "NOTARGET"
    PROVE  LET h == EL!find_socket_index(loop, client[target].sock)
           IN  /\ pc = "user" /\ target \in pool /\ target \in Client
               /\ EL!IsLoop(loop) /\ Watches(loop, pool, client)
               /\ h \in EL!Indices(loop) /\ loop.cursor <= h
               /\ loop.bufs[h].ptr = target
               /\ \A i \in EL!Indices(loop) : loop.bufs[i].ptr = target => i = h
               /\ Agrees(loop.bufs[h], client[target], TRUE)
<1> DEFINE h == EL!find_socket_index(loop, client[target].sock)
<1>1. /\ pc = "user" /\ target \in pool /\ target \in Client
      /\ EL!IsLoop(loop) /\ Watches(loop, pool, client)
  BY DEF WInv, IInv, RequestFits, Structures, Started
<1>2. h \in EL!Indices(loop) /\ loop.bufs[h].ptr = target
  BY <1>1, EntryOfClient DEF WInv, IInv, Structures
<1>3. \A i \in EL!Indices(loop) : loop.bufs[i].ptr = target => i = h
  BY <1>1, EntryOfClient DEF WInv, IInv, Structures
<1> HIDE DEF h
<1>4. target # THIS
  BY <1>1, ServerAssumption DEF ServerAssumption
<1>5. ~(h < loop.cursor)
  BY <1>2, <1>4 DEF WInv, Attended, Passed
<1>6. loop.cursor <= h
  BY <1>1, <1>2, <1>5 DEF EL!IsLoop, EL!Indices
<1>7. Agrees(loop.bufs[h], client[target], TRUE)
  <2>1. Agrees(loop.bufs[h], client[target], target = target)
    BY <1>2, <1>4 DEF WInv, Attended, Watched
  <2> QED BY <2>1 DEF Agrees
<1> QED BY <1>1, <1>2, <1>3, <1>6, <1>7 DEF h

-----------------------------------------------------------------------------
(* The actions.                                                            *)

LEMMA InitAttends == Init => Attended
<1> SUFFICES ASSUME Init PROVE Attended
  OBVIOUS
<1>1. EL!Indices(loop) = {}
  BY DEF Init, EL!EmptyLoop, EL!Indices
<1> QED BY <1>1 DEF Init, Attended, Watched, Passed

LEMMA ListenAttends == WInv /\ Listen => Attended'
<1> SUFFICES ASSUME WInv, Listen PROVE Attended'
  OBVIOUS
<1> DEFINE e == [fd |-> ListenFd, ptr |-> THIS, revents |-> {},
                 events |-> EL!convert_event_flags({"RECV"})]
<1>1. loop.count = 0 /\ loop.cursor = 0
  BY DEF WInv, IInv, Structures, Started, Listen, EL!IsLoop
<1>2. loop' = [count |-> 1, cursor |-> loop.cursor,
               bufs |-> [i \in 0 .. 0 |-> IF i = 0 THEN e ELSE loop.bufs[i]]]
  BY <1>1, ServerAssumption DEF Listen, EL!add, ServerAssumption
<1>3. e.ptr = THIS /\ e.revents = {}
  OBVIOUS
<1> HIDE DEF e
<1>4. EL!Indices(loop') = {0} /\ loop'.bufs[0] = e
  BY <1>2 DEF EL!Indices
<1> QED BY <1>3, <1>4 DEF WInv, Attended, Watched, Passed, Listen, response

\* status(), header() and write() change the output of the target only, which
\* does not matter before send().
LEMMA OutputAttends ==
    ASSUME WInv, state # "NOTARGET", NEW out,
           client' = [client EXCEPT ![target].out = out],
           state' # "NOTARGET", UNCHANGED <<target, loop>>
    PROVE  Attended'
<1> DEFINE h == EL!find_socket_index(loop, client[target].sock)
           r == [client[target] EXCEPT !.out = out]
<1>1. /\ target \in pool /\ target \in Client
      /\ EL!IsLoop(loop) /\ Watches(loop, pool, client)
      /\ h \in EL!Indices(loop) /\ loop.cursor <= h /\ loop.bufs[h].ptr = target
      /\ \A i \in EL!Indices(loop) : loop.bufs[i].ptr = target => i = h
      /\ Agrees(loop.bufs[h], client[target], TRUE)
  BY TargetAttended
<1>2. client[target] \in ClientState /\ client \in [Client -> ClientState] /\ pool \in SUBSET Client
  BY <1>1 DEF WInv, IInv, Structures, Clients
<1>3. /\ r.close_when_flushed = client[target].close_when_flushed
      /\ r.queued = client[target].queued
  BY <1>2 DEF ClientState
<1>4. client' = [client EXCEPT ![target] = r]
  OBVIOUS
<1> HIDE DEF h, r
<1>5. Agrees(loop.bufs[h], r, target = target)
  BY <1>1, <1>3 DEF Agrees
<1>6. Replaced(loop, loop, h, loop.bufs[h]) /\ SameTarget(pool, target, target, target)
  BY DEF Replaced, SameTarget
<1>7. ~(h < loop.cursor)
  BY <1>1 DEF EL!IsLoop, EL!Indices
<1>8. Watched(loop, [client EXCEPT ![target] = r], target)
      /\ Passed(loop, [client EXCEPT ![target] = r], target)
  BY ZenonT(60), <1>1, <1>2, <1>5, <1>6, <1>7, ClientAttended DEF WInv, Attended
<1> QED BY <1>4, <1>8 DEF Attended

\* send(): the response is registered for output, and a client to be closed is
\* not read from any more.
LEMMA SendDoneAttends ==
    ASSUME WInv, state # "NOTARGET", SendDone, NoTarget
    PROVE  Attended'
<1> DEFINE c     == target
           keep  == KeepAliveWritten # 0
           in    == SubSeq(client[c].in, req_bytes + 1, Len(client[c].in))
           again == keep /\ RQ!contains(in, -1)
           crlf  == IF keep THEN RQ!seek(in, -1) ELSE -1
           l     == EL!add_events(loop, client[c].sock, {"SEND"})
           m     == EL!remove_events(l, client[c].sock, {"RECV"})
           h     == EL!find_socket_index(loop, client[c].sock)
           r     == [client[c] EXCEPT !.in = in, !.crlf = crlf, !.out = "pending",
                                      !.num_served = @ + 1, !.queued = @ \/ again,
                                      !.close_when_flushed = @ \/ ~keep]
<1>1. /\ c \in pool /\ c \in Client
      /\ EL!IsLoop(loop) /\ Watches(loop, pool, client)
      /\ h \in EL!Indices(loop) /\ loop.cursor <= h /\ loop.bufs[h].ptr = c
      /\ \A i \in EL!Indices(loop) : loop.bufs[i].ptr = c => i = h
      /\ Agrees(loop.bufs[h], client[c], TRUE)
  BY TargetAttended
<1>2. client[c] \in ClientState /\ client \in [Client -> ClientState] /\ pool \in SUBSET Client
  BY <1>1 DEF WInv, IInv, Structures, Clients
<1>3. /\ loop' = IF keep THEN l ELSE m
      /\ client' = [client EXCEPT ![c] = r]
  BY DEF SendDone
<1>4. state' = "NOTARGET" /\ target' = NULL
  BY DEF NoTarget
<1>5. ~client[c].close_when_flushed /\ ~client[c].queued /\ "POLLIN" \in loop.bufs[h].events
      /\ "POLLIN" \notin loop.bufs[h].revents
  <2>1. ~client[c].queued
    BY DEF WInv, IInv, RequestFits
  <2> QED BY <1>1, <2>1 DEF Agrees
<1>6. loop.bufs[h] \in EL!Entry
  BY <1>1 DEF EL!IsLoop, EL!Indices
<1> HIDE DEF keep, again, crlf, in
<1>7. /\ r.out = "pending" /\ r.queued = (client[c].queued \/ again)
      /\ r.close_when_flushed = (client[c].close_when_flushed \/ ~keep)
  BY <1>2 DEF ClientState
<1>8. again => keep
  BY DEF again
<1> HIDE DEF r
<1> DEFINE e == [loop.bufs[h] EXCEPT !.events = @ \cup EL!convert_event_flags({"SEND"})]
           f == [e EXCEPT !.events = @ \ EL!convert_event_flags({"RECV"})]
<1>9. EL!convert_event_flags({"SEND"}) = {"POLLOUT"} /\ EL!convert_event_flags({"RECV"}) = {"POLLIN"}
  BY DEF EL!convert_event_flags
<1>10. /\ e.events = loop.bufs[h].events \cup {"POLLOUT"}
       /\ e.revents = loop.bufs[h].revents /\ e.ptr = c
       /\ f.events = e.events \ {"POLLIN"} /\ f.revents = e.revents /\ f.ptr = c
  BY <1>1, <1>6, <1>9 DEF EL!Entry
<1>11. Replaced(loop, l, h, e) /\ EL!IsLoop(l) /\ SameEntries(loop, l)
  BY <1>1, EventsReplaced, EventsKeepEntries
<1> HIDE DEF h, l
<1>12. Replaced(loop, m, h, f)
  <2>1. Watches(l, pool, client)
    <3>1. \A d \in pool : client[d].sock = client[d].sock
      OBVIOUS
    <3> QED BY <1>1, <1>11, <3>1, SameEntriesWatched
  <2>2. /\ EL!find_socket_index(l, client[c].sock) \in EL!Indices(l)
        /\ l.bufs[EL!find_socket_index(l, client[c].sock)].ptr = c
    BY <1>1, <1>2, <1>11, <2>1, EntryOfClient
  <2> DEFINE g == EL!find_socket_index(l, client[c].sock)
  <2>3. g = h
    BY <1>1, <1>11, <2>2 DEF SameEntries, EL!Indices
  <2>4. Replaced(l, m, g, [l.bufs[g] EXCEPT !.events = @ \ EL!convert_event_flags({"RECV"})])
    BY <1>11, <2>2, EventsReplaced
  <2> HIDE DEF g, m, e
  <2>5. l.bufs[h] = e
    BY <1>1, <1>11 DEF Replaced
  <2>6. Replaced(l, m, h, f)
    BY <2>3, <2>4, <2>5
  <2> HIDE DEF f
  <2> QED BY <1>11, <2>6 DEF Replaced, EL!Indices
<1>13. Agrees(e, r, FALSE) \/ ~keep
  BY <1>5, <1>7, <1>8, <1>10 DEF Agrees
<1>14. Agrees(f, r, FALSE) \/ keep
  BY <1>5, <1>7, <1>8, <1>10 DEF Agrees
<1> HIDE DEF e, f, m
<1>15. SameTarget(pool, c, target, NULL) /\ (c = NULL <=> FALSE)
  BY <1>1, <1>2, ServerAssumption DEF SameTarget, ServerAssumption
<1>16. ~(h < loop.cursor)
  BY <1>1 DEF EL!IsLoop, EL!Indices
<1>17. Watched(loop', client', NULL) /\ Passed(loop', client', NULL)
  <2>1. CASE keep
    <3>1. Agrees(e, r, c = NULL)
      BY <1>13, <1>15, <2>1 DEF Agrees
    <3>2. /\ Watched(l, [client EXCEPT ![c] = r], NULL)
          /\ Passed(l, [client EXCEPT ![c] = r], NULL)
      BY <1>1, <1>2, <1>10, <1>11, <1>15, <1>16, <3>1, ClientAttended DEF WInv, Attended
    <3> QED BY <1>3, <2>1, <3>2
  <2>2. CASE ~keep
    <3>1. Agrees(f, r, c = NULL)
      BY <1>14, <1>15, <2>2 DEF Agrees
    <3>2. /\ Watched(m, [client EXCEPT ![c] = r], NULL)
          /\ Passed(m, [client EXCEPT ![c] = r], NULL)
      BY <1>1, <1>2, <1>10, <1>12, <1>15, <1>16, <3>1, ClientAttended DEF WInv, Attended
    <3> QED BY <1>3, <2>2, <3>2
  <2> QED BY <2>1, <2>2
<1> QED BY <1>4, <1>17 DEF Attended

LEMMA SendFailedAttends ==
    ASSUME WInv, state # "NOTARGET", SendFailed, NoTarget
    PROVE  Attended'
<1>1. /\ target \in pool /\ target \in Client
      /\ EL!IsLoop(loop) /\ Watches(loop, pool, client)
      /\ loop.cursor <= EL!find_socket_index(loop, client[target].sock)
  BY TargetAttended
<1>2. /\ loop' = EL!remove(loop, client[target].sock)
      /\ client' = [client EXCEPT ![target] = NewClient(NULL)]
      /\ state' = "NOTARGET" /\ target' = NULL
  BY DEF SendFailed, remove_client, NoTarget
<1>3. client \in [Client -> ClientState] /\ pool \in SUBSET Client
  BY DEF WInv, IInv, Structures, Clients
<1>4. SameTarget(pool, target, target, NULL)
  BY <1>3, ServerAssumption DEF SameTarget, ServerAssumption
<1>5. /\ Watched(EL!remove(loop, client[target].sock), [client EXCEPT ![target] = NewClient(NULL)], NULL)
      /\ Passed(EL!remove(loop, client[target].sock), [client EXCEPT ![target] = NewClient(NULL)], NULL)
  BY <1>1, <1>3, <1>4, RemovedAttended DEF WInv, Attended
<1> QED BY <1>2, <1>5 DEF Attended

LEMMA SendResponseAttends ==
    ASSUME WInv, SendResponse
    PROVE  Attended'
BY SendDoneAttends, SendFailedAttends DEF SendResponse

LEMMA CallerAttends ==
    ASSUME WInv, Caller
    PROVE  Attended'
<1>1. CASE Status
  BY <1>1, OutputAttends DEF Status
<1>2. CASE Header
  BY <1>2, OutputAttends DEF Header
<1>3. CASE Write
  BY <1>3, OutputAttends DEF Write
<1>4. CASE Send
  BY <1>4, SendResponseAttends DEF Send
<1>5. CASE Wait
  BY <1>5, SendResponseAttends DEF Wait, WInv, Attended, Watched, Passed, response
<1> QED BY <1>1, <1>2, <1>3, <1>4, <1>5 DEF Caller

\* A candidate that has been popped: its entry is ahead of the cursor, and the
\* event loop agrees with what it is now.
LEMMA PoppedAttended ==
    ASSUME WInv, Popping
    PROVE  /\ candidate \in pool /\ candidate \in Client
           /\ target = NULL /\ state = "NOTARGET" /\ pc = "waiting"
           /\ EL!IsLoop(loop) /\ Watches(loop, pool, Unqueued)
           /\ Unqueued \in [Client -> ClientState] /\ pool \in SUBSET Client
           /\ loop.cursor <= EL!find_socket_index(loop, Unqueued[candidate].sock)
           /\ Watched(loop, Unqueued, NULL) /\ Passed(loop, Unqueued, NULL)
           /\ Watched(loop, Unqueued, candidate) /\ Passed(loop, Unqueued, candidate)
<1>1. /\ candidate \in pool /\ candidate \in Client
      /\ Clients(Unqueued) /\ Consistent(QU!Popped(queue), pool, Unqueued)
      /\ ~Unqueued[candidate].queued
      /\ \A d \in Client : Unqueued[d].sock = client[d].sock
      /\ Watches(loop, pool, Unqueued)
  BY PoppedCandidate DEF WInv
<1>2. pc = "waiting" /\ state = "NOTARGET" /\ target = NULL /\ Watches(loop, pool, client)
  BY NobodyServed DEF Popping
<1>3. EL!IsLoop(loop) /\ pool \in SUBSET Client /\ client \in [Client -> ClientState]
      /\ Unqueued \in [Client -> ClientState]
  BY <1>1 DEF WInv, IInv, Structures, Clients
<1>4. client[candidate].queued
  <2>1. queue \in Seq(Client) /\ queue # <<>> /\ candidate = queue[1]
    BY DEF WInv, IInv, Structures, Consistent, Popping, candidate
  <2>2. 1 \in 1 .. Len(queue)
    BY <2>1
  <2> QED BY <1>1, <2>1, <2>2 DEF WInv, IInv, Structures, Consistent
<1> DEFINE h == EL!find_socket_index(loop, client[candidate].sock)
<1>5. h \in EL!Indices(loop) /\ loop.bufs[h].ptr = candidate
  <2>1. candidate \in pool /\ Watches(loop, pool, client)
    BY <1>1, <1>2
  <2> QED BY <1>3, <2>1, EntryOfClient
<1>6. \A i \in EL!Indices(loop) : loop.bufs[i].ptr = candidate => i = h
  <2>1. candidate \in pool /\ Watches(loop, pool, client)
    BY <1>1, <1>2
  <2> QED BY <1>3, <2>1, EntryOfClient
<1> HIDE DEF h
<1>7. candidate # THIS /\ candidate # NULL
  BY <1>1, ServerAssumption DEF ServerAssumption
<1>8. ~(h < loop.cursor)
  BY <1>4, <1>5, <1>7 DEF WInv, Attended, Passed
<1>9. loop.cursor <= h
  BY <1>3, <1>5, <1>8 DEF EL!IsLoop, EL!Indices
<1> DEFINE r == [client[candidate] EXCEPT !.queued = FALSE]
<1>10. /\ ~r.queued /\ r.out = client[candidate].out
       /\ r.close_when_flushed = client[candidate].close_when_flushed
  BY <1>1, <1>3 DEF ClientState
<1>11. Unqueued = [client EXCEPT ![candidate] = r]
  BY DEF Unqueued
<1> HIDE DEF r
<1>12. Agrees(loop.bufs[h], client[candidate], FALSE)
  <2>1. Agrees(loop.bufs[h], client[candidate], candidate = target)
    BY <1>5, <1>7 DEF WInv, Attended, Watched
  <2> QED BY <1>2, <1>7, <2>1 DEF Agrees
<1>13. Replaced(loop, loop, h, loop.bufs[h])
  BY DEF Replaced
<1>14. Watched(loop, Unqueued, NULL) /\ Passed(loop, Unqueued, NULL)
  <2>1. Agrees(loop.bufs[h], r, candidate = NULL)
    BY <1>7, <1>10, <1>12 DEF Agrees
  <2>2. SameTarget(pool, candidate, target, NULL)
    BY <1>2 DEF SameTarget
  <2> QED BY <1>1, <1>2, <1>3, <1>5, <1>6, <1>8, <1>11, <1>13, <2>1, <2>2, ClientAttended
          DEF WInv, Attended
<1>15. Watched(loop, Unqueued, candidate) /\ Passed(loop, Unqueued, candidate)
  <2>1. Agrees(loop.bufs[h], r, candidate = candidate)
    BY <1>4, <1>10, <1>12 DEF Agrees
  <2>2. SameTarget(pool, candidate, target, candidate)
    BY <1>2, <1>3, ServerAssumption DEF SameTarget, ServerAssumption
  <2>3. /\ candidate \in pool /\ Watches(loop, pool, client)
        /\ Watched(loop, client, target) /\ Passed(loop, client, target)
    BY <1>1, <1>2 DEF WInv, Attended
  <2> QED BY ZenonT(60), <1>3, <1>5, <1>6, <1>8, <1>11, <1>13, <2>1, <2>2, <2>3, ClientAttended
<1>16. h = EL!find_socket_index(loop, Unqueued[candidate].sock)
  BY <1>1 DEF h
<1> QED BY <1>1, <1>2, <1>3, <1>9, <1>14, <1>15, <1>16

LEMMA PopAttends ==
    ASSUME WInv, Pop
    PROVE  Attended'
<1>1. ASSUME Popping, NEW req, DropCandidate(req)
      PROVE  Attended'
  <2>1. /\ loop' = EL!remove(loop, Unqueued[candidate].sock)
        /\ client' = [Unqueued EXCEPT ![candidate] = NewClient(NULL)]
        /\ UNCHANGED <<state, target>>
    BY <1>1 DEF DropCandidate, remove_client, response
  <2>2. SameTarget(pool, candidate, NULL, NULL)
    BY DEF SameTarget
  <2>3. /\ Watched(EL!remove(loop, Unqueued[candidate].sock), [Unqueued EXCEPT ![candidate] = NewClient(NULL)], NULL)
        /\ Passed(EL!remove(loop, Unqueued[candidate].sock), [Unqueued EXCEPT ![candidate] = NewClient(NULL)], NULL)
    BY <1>1, <2>2, PoppedAttended, RemovedAttended
  <2> QED BY <1>1, <2>1, <2>3, PoppedAttended DEF Attended
<1>2. CASE PopInvalid
  BY <1>1, <1>2 DEF PopInvalid
<1>3. CASE PopMalformedLength
  BY <1>1, <1>3 DEF PopMalformedLength
<1>4. CASE PopReady
  <2>1. Popping /\ target' = candidate /\ state' = "STATUS" /\ client' = Unqueued /\ loop' = loop
    BY <1>4 DEF PopReady
  <2> QED BY <2>1, PoppedAttended DEF Attended
<1>5. CASE PopIncomplete
  <2>1. Popping /\ client' = Unqueued /\ UNCHANGED <<state, target, loop>>
    BY <1>5 DEF PopIncomplete, response
  <2> QED BY <2>1, PoppedAttended DEF Attended
<1> QED BY <1>2, <1>3, <1>4, <1>5 DEF Pop

\* poll() reports of a socket what was asked for and errors.
LEMMA PollAttends == WInv /\ Poll => Attended'
<1> SUFFICES ASSUME WInv, Poll PROVE Attended'
  OBVIOUS
<1>0. PICK broken \in SUBSET Fd :
          loop' = EL!poll(loop, [i \in EL!Indices(loop) |->
                     EL!Revents(loop.bufs[i], Ready(loop.bufs[i].fd, broken))])
  BY Zenon DEF Poll
<1>1. pc = "waiting" /\ queue = <<>> /\ UNCHANGED <<state, target, client>>
  BY DEF Poll, response
<1>2. /\ state = "NOTARGET" /\ target = NULL /\ Watches(loop, pool, client)
      /\ \A d \in pool : d # target /\ ~client[d].queued
  BY <1>1, NobodyServed
<1>3. /\ EL!Indices(loop') = EL!Indices(loop) /\ loop'.cursor = 0
      /\ \A i \in EL!Indices(loop) :
            loop'.bufs[i] = [loop.bufs[i] EXCEPT
               !.revents = EL!Revents(loop.bufs[i], Ready(loop.bufs[i].fd, broken))]
  BY <1>0 DEF EL!poll, EL!Indices
<1>4. ASSUME NEW i \in EL!Indices(loop)
      PROVE  /\ loop'.bufs[i].ptr = loop.bufs[i].ptr
             /\ loop'.bufs[i].events = loop.bufs[i].events
             /\ loop'.bufs[i].revents \subseteq loop.bufs[i].events \cup {"POLLERR"}
  <2>1. loop.bufs[i] \in EL!Entry
    BY DEF WInv, IInv, Structures, EL!IsLoop, EL!Indices
  <2> DEFINE e == loop.bufs[i]
             v == EL!Revents(e, Ready(e.fd, broken))
  <2>2. v \subseteq e.events \cup {"POLLERR"}
    BY DEF EL!Revents
  <2>3. loop'.bufs[i] = [e EXCEPT !.revents = v]
    BY <1>3
  <2> HIDE DEF v, e
  <2>4. e \in EL!Entry
    BY <2>1 DEF e
  <2>5. /\ loop'.bufs[i].ptr = e.ptr /\ loop'.bufs[i].events = e.events
        /\ loop'.bufs[i].revents = v
    BY <2>3, <2>4 DEF EL!Entry
  <2> QED BY <2>2, <2>5 DEF e
<1>5. Watched(loop', client, target)
  <2> SUFFICES ASSUME NEW i \in EL!Indices(loop), loop.bufs[i].ptr # THIS
               PROVE  Agrees(loop'.bufs[i], client[loop.bufs[i].ptr], loop.bufs[i].ptr = target)
    BY <1>3, <1>4 DEF Watched
  <2>1. Agrees(loop.bufs[i], client[loop.bufs[i].ptr], loop.bufs[i].ptr = target)
    BY DEF WInv, Attended, Watched
  <2>2. loop.bufs[i].ptr \in pool
    BY <1>2 DEF Watches
  <2> QED BY <1>2, <1>4, <2>1, <2>2 DEF Agrees
<1>6. Passed(loop', client, target)
  BY <1>3 DEF Passed, EL!Indices, WInv, IInv, Structures, EL!IsLoop
<1> QED BY <1>1, <1>2, <1>5, <1>6 DEF Attended

LEMMA EventAcceptAttends == WInv /\ EventAccept => Attended'
<1> SUFFICES ASSUME WInv, EventAccept PROVE Attended'
  OBVIOUS
<1>1. /\ pc = "waiting" /\ queue = <<>> /\ ~EL!must_poll(loop) /\ loop' = EventTaken
      /\ UNCHANGED <<state, target, client>>
  BY DEF EventAccept, EventIs, response
<1>2. /\ state = "NOTARGET" /\ target = NULL /\ Watches(loop, pool, client)
      /\ \A d \in pool : d # target /\ ~client[d].queued
  BY <1>1, NobodyServed
<1>3. Watched(EventTaken, client, target) /\ Passed(EventTaken, client, target)
  BY <1>1, <1>2, TakenAttended DEF WInv, Attended, IInv, Structures, EventTaken
<1> QED BY <1>1, <1>2, <1>3 DEF Attended

\* The client an event is about is removed: its entry is the one at the cursor.
LEMMA EventRemovesAttended ==
    ASSUME WInv, NEW type, NEW c \in Client, EventIs(type, c),
           remove_client(c, client, queue, EventTaken, request),
           UNCHANGED <<pc, response, backlog>>
    PROVE  Attended'
<1>1. /\ c \in pool /\ target = NULL
      /\ EL!IsLoop(EventTaken) /\ Watches(EventTaken, pool, client)
      /\ Watched(EventTaken, client, target) /\ Passed(EventTaken, client, target)
      /\ EventTaken.cursor = EL!find_socket_index(EventTaken, client[c].sock)
  BY EventAttended
<1>2. /\ loop' = EL!remove(EventTaken, client[c].sock)
      /\ client' = [client EXCEPT ![c] = NewClient(NULL)]
      /\ UNCHANGED <<state, target>>
  BY DEF remove_client, response
<1>3. client \in [Client -> ClientState] /\ pool \in SUBSET Client
  BY DEF WInv, IInv, Structures, Clients
<1>4. SameTarget(pool, c, target, target)
  BY DEF SameTarget
<1>5. EventTaken.cursor <= EL!find_socket_index(EventTaken, client[c].sock)
  BY <1>1 DEF EL!IsLoop
<1>6. /\ Watched(EL!remove(EventTaken, client[c].sock), [client EXCEPT ![c] = NewClient(NULL)], target)
      /\ Passed(EL!remove(EventTaken, client[c].sock), [client EXCEPT ![c] = NewClient(NULL)], target)
  BY <1>1, <1>3, <1>4, <1>5, RemovedAttended
<1> QED BY <1>1, <1>2, <1>6 DEF Attended

\* What is read comes to a client that is not to be closed; POLLIN has just been
\* taken, so that it may become a candidate.
LEMMA EventRecvAttends ==
    ASSUME WInv, NEW c \in Client, EventRecv(c)
    PROVE  Attended'
<1> DEFINE h == EL!find_socket_index(EventTaken, client[c].sock)
           r == WithInput(client[c], AllInput(c))
<1>1. /\ EventIs("RECV", c) /\ loop' = EventTaken
      /\ client' = [client EXCEPT ![c] = r] /\ UNCHANGED <<state, target>>
  BY DEF EventRecv, response
<1>2. /\ c \in pool /\ target = NULL
      /\ EL!IsLoop(EventTaken) /\ Watches(EventTaken, pool, client)
      /\ Watched(EventTaken, client, target) /\ Passed(EventTaken, client, target)
      /\ h \in EL!Indices(EventTaken) /\ EventTaken.cursor = h
      /\ EventTaken.bufs[h].ptr = c
      /\ \A i \in EL!Indices(EventTaken) : EventTaken.bufs[i].ptr = c => i = h
      /\ "POLLIN" \notin EventTaken.bufs[h].revents /\ ~client[c].close_when_flushed
  BY <1>1, EventAttended
<1>3. client \in [Client -> ClientState] /\ client[c] \in ClientState /\ pool \in SUBSET Client
  BY DEF WInv, IInv, Structures, Clients
<1>4. r.out = client[c].out /\ r.close_when_flushed = client[c].close_when_flushed
  BY <1>3 DEF WithInput, ClientState
<1> HIDE DEF h, r
<1>5. c # THIS /\ c # NULL
  BY ServerAssumption DEF ServerAssumption
<1>6. Agrees(EventTaken.bufs[h], client[c], c = target)
  BY <1>2, <1>5 DEF Watched
<1>7. Agrees(EventTaken.bufs[h], r, c = target)
  BY <1>2, <1>4, <1>6 DEF Agrees
<1>8. /\ Replaced(EventTaken, EventTaken, h, EventTaken.bufs[h])
      /\ SameTarget(pool, c, target, target)
      /\ ~(h < EventTaken.cursor)
  BY <1>2 DEF Replaced, SameTarget, EL!IsLoop
<1>9. /\ Watched(EventTaken, [client EXCEPT ![c] = r], target)
      /\ Passed(EventTaken, [client EXCEPT ![c] = r], target)
  BY <1>2, <1>3, <1>7, <1>8, ClientAttended
<1> QED BY <1>1, <1>2, <1>9 DEF Attended

\* A flush of everything ends the watch for POLLOUT with the output.
LEMMA EventFlushedAttends ==
    ASSUME WInv, NEW c \in Client, EventFlushed(c)
    PROVE  Attended'
<1>1. EventIs("SEND", c) /\ UNCHANGED <<pc, response, backlog>>
  BY DEF EventFlushed
<1>2. CASE client[c].close_when_flushed
  BY <1>1, <1>2, EventRemovesAttended DEF EventFlushed
<1>3. CASE ~client[c].close_when_flushed
  <2> DEFINE h == EL!find_socket_index(EventTaken, client[c].sock)
             r == [client[c] EXCEPT !.out = "empty"]
             m == EL!remove_events(EventTaken, client[c].sock, {"SEND"})
             e == [EventTaken.bufs[h] EXCEPT !.events = @ \ EL!convert_event_flags({"SEND"})]
  <2>1. loop' = m /\ client' = [client EXCEPT ![c] = r] /\ UNCHANGED <<state, target>>
    BY <1>3 DEF EventFlushed, response
  <2>2. /\ c \in pool /\ target = NULL
        /\ EL!IsLoop(EventTaken) /\ Watches(EventTaken, pool, client)
        /\ Watched(EventTaken, client, target) /\ Passed(EventTaken, client, target)
        /\ h \in EL!Indices(EventTaken) /\ EventTaken.cursor = h
        /\ EventTaken.bufs[h].ptr = c
        /\ \A i \in EL!Indices(EventTaken) : EventTaken.bufs[i].ptr = c => i = h
    BY <1>1, EventAttended
  <2>3. client \in [Client -> ClientState] /\ client[c] \in ClientState /\ pool \in SUBSET Client
    BY DEF WInv, IInv, Structures, Clients
  <2>4. /\ r.out = "empty" /\ r.close_when_flushed = client[c].close_when_flushed
        /\ r.queued = client[c].queued
    BY <2>3 DEF ClientState
  <2>5. Replaced(EventTaken, m, h, e)
    BY <2>2, EventsReplaced
  <2>6. EventTaken.bufs[h] \in EL!Entry /\ EL!convert_event_flags({"SEND"}) = {"POLLOUT"}
    BY <2>2 DEF EL!IsLoop, EL!Indices, EL!convert_event_flags
  <2> HIDE DEF h, r, m
  <2>7. /\ e.events = EventTaken.bufs[h].events \ {"POLLOUT"}
        /\ e.revents = EventTaken.bufs[h].revents /\ e.ptr = c
    BY <2>2, <2>6 DEF EL!Entry
  <2> HIDE DEF e
  <2>8. c # THIS /\ c # NULL
    BY ServerAssumption DEF ServerAssumption
  <2>9. Agrees(EventTaken.bufs[h], client[c], c = target)
    BY <2>2, <2>8 DEF Watched
  <2>10. Agrees(e, r, c = target)
    BY <1>3, <2>4, <2>7, <2>9 DEF Agrees
  <2>11. SameTarget(pool, c, target, target) /\ ~(h < EventTaken.cursor)
    BY <2>2 DEF SameTarget, EL!IsLoop
  <2>12. Watched(m, [client EXCEPT ![c] = r], target) /\ Passed(m, [client EXCEPT ![c] = r], target)
    BY <2>2, <2>3, <2>5, <2>7, <2>10, <2>11, ClientAttended
  <2> QED BY <2>1, <2>2, <2>12 DEF Attended
<1> QED BY <1>2, <1>3

LEMMA EventAttends ==
    ASSUME WInv, NEW c \in Client, Event(c)
    PROVE  Attended'
<1>1. CASE EventFailure(c)
  BY <1>1, EventRemovesAttended DEF EventFailure
<1>2. CASE EventRecv(c)
  BY <1>2, EventRecvAttends
<1>3. CASE EventClosed(c)
  BY <1>3, EventRemovesAttended DEF EventClosed
<1>4. CASE EventFlushed(c)
  BY <1>4, EventFlushedAttends
<1>5. CASE EventFlushedInPart(c)
  BY <1>5, EventAttended DEF EventFlushedInPart, Attended, response
<1>6. CASE EventFlushFailed(c)
  BY <1>6, EventRemovesAttended DEF EventFlushFailed
<1> QED BY <1>1, <1>2, <1>3, <1>4, <1>5, <1>6 DEF Event

\* A new client is watched for input, at the end of the event loop.
LEMMA AcceptClientAttends == WInv /\ AcceptClient => Attended'
<1> SUFFICES ASSUME WInv, AcceptClient PROVE Attended'
  OBVIOUS
<1>1. pc = "accepting" /\ loop.count < MAX_CLIENTS + 1 /\ UNCHANGED <<state, target>>
  BY DEF AcceptClient, CanAccept, response
<1>0. PICK c \in FreeSlot, fd \in Fd :
         \E in : /\ loop' = EL!add(loop, fd, {"RECV"}, c)
                 /\ client' = [client EXCEPT ![c] = WithInput(NewClient(fd), in)]
  BY Zenon DEF AcceptClient, FreeDescriptor
<1>2. PICK in : /\ loop' = EL!add(loop, fd, {"RECV"}, c)
                /\ client' = [client EXCEPT ![c] = WithInput(NewClient(fd), in)]
  BY <1>0
<1> DEFINE r == WithInput(NewClient(fd), in)
           e == [fd |-> fd, ptr |-> c, revents |-> {}, events |-> EL!convert_event_flags({"RECV"})]
<1>3. c \in Client \ pool /\ c # THIS /\ c # NULL
  BY ServerAssumption DEF FreeSlot, ServerAssumption
<1>4. target = NULL /\ Watches(loop, pool, client)
  BY <1>1, NobodyServed
<1>5. loop.count \in Nat /\ loop.cursor \in 0 .. loop.count /\ MAX_CLIENTS \in Nat
  BY ServerAssumption DEF WInv, IInv, Structures, EL!IsLoop, ServerAssumption
<1>6. loop' = [count |-> loop.count + 1, cursor |-> loop.cursor,
               bufs |-> [i \in 0 .. loop.count |-> IF i = loop.count THEN e ELSE loop.bufs[i]]]
  BY <1>1, <1>2, <1>5 DEF EL!add
<1>7. r.out = "empty" /\ ~r.close_when_flushed
  BY DEF WithInput, NewClient
<1>8. e.ptr = c /\ e.revents = {} /\ e.events = {"POLLIN"}
  BY DEF EL!convert_event_flags
<1> HIDE DEF r, e
<1>9. client'[c] = r /\ \A d \in Client : d # c => client'[d] = client[d]
  BY <1>2, <1>3 DEF WInv, IInv, Structures, Clients, r
<1>10. ASSUME NEW i \in EL!Indices(loop')
       PROVE  \/ i = loop.count /\ loop'.bufs[i] = e
              \/ i \in EL!Indices(loop) /\ loop'.bufs[i] = loop.bufs[i]
  <2>1. i \in 0 .. loop.count
    BY <1>5, <1>6 DEF EL!Indices
  <2>2. loop'.bufs[i] = IF i = loop.count THEN e ELSE loop.bufs[i]
    BY <1>6, <2>1
  <2>3. i # loop.count => i \in EL!Indices(loop)
    BY <1>5, <2>1 DEF EL!Indices
  <2> QED BY <2>2, <2>3
<1>11. ASSUME NEW i \in EL!Indices(loop), loop.bufs[i].ptr # THIS
       PROVE  client'[loop.bufs[i].ptr] = client[loop.bufs[i].ptr]
  <2>1. loop.bufs[i].ptr \in pool
    BY <1>4, <1>11 DEF Watches
  <2> QED BY <1>3, <1>9, <2>1 DEF WInv, IInv, Structures
<1>12. loop'.cursor = loop.cursor
  BY <1>6
<1>13. Watched(loop', client', target)
  <2> SUFFICES ASSUME NEW i \in EL!Indices(loop'), loop'.bufs[i].ptr # THIS
               PROVE  Agrees(loop'.bufs[i], client'[loop'.bufs[i].ptr], loop'.bufs[i].ptr = target)
    BY DEF Watched
  <2>1. CASE loop'.bufs[i] = e
    BY <1>3, <1>4, <1>7, <1>8, <1>9, <2>1 DEF Agrees
  <2>2. CASE i \in EL!Indices(loop) /\ loop'.bufs[i] = loop.bufs[i]
    BY <1>11, <2>2 DEF WInv, Attended, Watched
  <2> QED BY <1>10, <2>1, <2>2
<1>14. Passed(loop', client', target)
  <2> SUFFICES ASSUME NEW i \in EL!Indices(loop'), i < loop.cursor
               PROVE  /\ loop'.bufs[i].revents = {}
                      /\ loop'.bufs[i].ptr # THIS =>
                            ~client'[loop'.bufs[i].ptr].queued /\ loop'.bufs[i].ptr # target
    BY <1>12 DEF Passed
  <2>1. i # loop.count
    BY <1>5
  <2>2. i \in EL!Indices(loop) /\ loop'.bufs[i] = loop.bufs[i]
    BY <1>10, <2>1
  <2> QED BY <1>11, <2>2 DEF WInv, Attended, Passed
<1>15. state = "NOTARGET" => target = NULL
  BY <1>4
<1> QED BY <1>1, <1>13, <1>14, <1>15 DEF Attended

\* The other steps leave the event loop, the clients and the response alone.
LEMMA QuietAttends ==
    ASSUME WInv, UNCHANGED <<state, target, client, loop>>
    PROVE  Attended'
BY DEF WInv, Attended, Watched, Passed

LEMMA NextAttends == WInv /\ [Next]_vars => Attended'
<1> SUFFICES ASSUME WInv, [Next]_vars PROVE Attended'
  OBVIOUS
<1>1. CASE Listen
  BY <1>1, ListenAttends
<1>2. CASE Caller
  BY <1>2, CallerAttends
<1>3. CASE Waiting
  BY <1>3, PopAttends, PollAttends, EventAcceptAttends, EventAttends DEF Waiting
<1>4. CASE Accepting
  <2>1. CASE AcceptClient
    BY <2>1, AcceptClientAttends
  <2>2. CASE AcceptRefused
    BY <2>2, QuietAttends DEF AcceptRefused, response
  <2>3. CASE AcceptEnd
    BY <2>3, QuietAttends DEF AcceptEnd, response
  <2> QED BY <1>4, <2>1, <2>2, <2>3 DEF Accepting
<1>5. CASE Peers
  BY <1>5, QuietAttends DEF Peers, PeerConnect, PeerSend, PeerFinish, PeerReset, PeerRead,
                            Peer, response
<1>6. CASE UNCHANGED vars
  BY <1>6, QuietAttends DEF vars, response
<1> QED BY <1>1, <1>2, <1>3, <1>4, <1>5, <1>6 DEF Next

-----------------------------------------------------------------------------
(* The theorems about events.                                              *)

\* The event loop and the clients agree in every reachable state.
THEOREM EventsAgree == Spec => []WInv
<1>1. Init => WInv
  BY InitEstablishes, InitAttends DEF WInv
<1>2. WInv /\ [Next]_vars => WInv'
  BY NextKeeps, NextAttends DEF WInv
<1> QED BY <1>1, <1>2, PTL DEF Spec

\* Whatever remove() moves under the cursor, in a handler, for a candidate that
\* does not parse or in send(), no event poll() reported is passed over.
THEOREM NoEventSkipped == Spec => []NothingSkipped
<1>1. WInv => NothingSkipped
  BY WInvContains
<1> QED BY <1>1, EventsAgree, PTL

\* A client that was told "Connection: Close" is only written to, until the
\* flush that closes it.
THEOREM ClosingStays == Spec => []ClosingIsFinal
<1>1. WInv => ClosingIsFinal
  BY WInvContains
<1> QED BY <1>1, EventsAgree, PTL

\* Output and the watch for POLLOUT come and go together.
THEOREM OutputIsWatched == Spec => []OutputHasWakeup
<1>1. WInv => OutputHasWakeup
  BY WInvContains
<1> QED BY <1>1, EventsAgree, PTL

\* Input is watched for until the last response.
THEOREM InputIsWatched == Spec => []InputHasWakeup
<1>1. WInv => InputHasWakeup
  BY WInvContains
<1> QED BY <1>1, EventsAgree, PTL

=============================================================================
