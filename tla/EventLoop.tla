------------------------------ MODULE EventLoop ------------------------------
(***************************************************************************)
(* The event loop of src/socket.hpp: an array of pollfd structures "bufs"  *)
(* with the parallel array "ptrs", of which the first "count" entries are  *)
(* in use, and a "cursor" that walks over the entries the last call of     *)
(* poll() reported.  The loop is one value, a record, and every method is  *)
(* an operator from the loop before the call to the loop after it, so that *)
(* a handler that calls several methods composes them.                     *)
(*                                                                         *)
(* Entries at or above "count" are dead storage and are not represented.   *)
(* POLLERR stands for every condition poll() may report without being      *)
(* asked (POLLERR, POLLHUP, POLLNVAL).                                     *)
(***************************************************************************)
EXTENDS Integers

CONSTANTS
    Capacity,    \* the template parameter N of EventLoop<N>
    Fd,          \* socket descriptors
    Ptr          \* user pointers handed back with the events of a socket

Requestable == {"POLLIN", "POLLOUT"}
Reportable  == Requestable \cup {"POLLERR"}

Entry == [fd: Fd, ptr: Ptr, events: SUBSET Requestable, revents: SUBSET Reportable]

IsLoop(l) ==
    /\ l = [count |-> l.count, cursor |-> l.cursor, bufs |-> l.bufs]
    /\ l.count \in 0 .. Capacity
    /\ l.cursor \in 0 .. l.count
    /\ l.bufs \in [0 .. l.count - 1 -> Entry]

Indices(l) == 0 .. l.count - 1

EmptyLoop == [count |-> 0, cursor |-> 0, bufs |-> [i \in 0 .. -1 |-> {}]]

-----------------------------------------------------------------------------
convert_event_flags(in) ==
    (IF "RECV" \in in THEN {"POLLIN"} ELSE {}) \cup (IF "SEND" \in in THEN {"POLLOUT"} ELSE {})

\* The first entry of a socket, or -1.
find_socket_index(l, fd) ==
    IF \E i \in Indices(l) : l.bufs[i].fd = fd
    THEN CHOOSE i \in Indices(l) :
            l.bufs[i].fd = fd /\ \A j \in 0 .. i-1 : l.bufs[j].fd # fd
    ELSE -1

\* A full loop refuses the socket; otherwise the entry goes to the end.
add(l, fd, events, ptr) ==
    IF l.count = Capacity
    THEN l
    ELSE LET entry == [fd |-> fd, ptr |-> ptr, revents |-> {},
                       events |-> convert_event_flags(events)]
         IN  [count  |-> l.count + 1,
              cursor |-> l.cursor,
              bufs   |-> [i \in 0 .. l.count |-> IF i = l.count THEN entry ELSE l.bufs[i]]]

\* Mutant of add_events: "=" for "|=".
assign_events(l, fd, events) ==
    LET i == find_socket_index(l, fd)
    IN  IF i < 0 THEN l
        ELSE [l EXCEPT !.bufs[i].events = convert_event_flags(events)]

\* Mutant of add_events: the index is taken for a failure code.
add_events_to_first(l, fd, events) ==
    LET i == find_socket_index(l, fd)
    IN  IF i # 0 THEN l
        ELSE [l EXCEPT !.bufs[i].events = @ \cup convert_event_flags(events)]

add_events(l, fd, events) ==
    LET i == find_socket_index(l, fd)
    IN  IF i < 0 THEN l
        ELSE [l EXCEPT !.bufs[i].events = @ \cup convert_event_flags(events)]

\* Mutant of remove_events: the "~" is missing.
keep_events(l, fd, events) ==
    LET i == find_socket_index(l, fd)
    IN  IF i < 0 THEN l
        ELSE [l EXCEPT !.bufs[i].events = @ \cap convert_event_flags(events)]

remove_events(l, fd, events) ==
    LET i == find_socket_index(l, fd)
    IN  IF i < 0 THEN l
        ELSE [l EXCEPT !.bufs[i].events = @ \ convert_event_flags(events)]

\* Mutant of remove: bufs is compacted and ptrs is not.
remove_from_bufs(l, fd) ==
    LET i == find_socket_index(l, fd)
    IN  IF i < 0 THEN l
        ELSE [count  |-> l.count - 1,
              cursor |-> IF l.cursor > i THEN l.cursor - 1 ELSE l.cursor,
              bufs   |-> [j \in 0 .. l.count - 2 |->
                             IF j = i THEN [l.bufs[l.count - 1] EXCEPT !.ptr = l.bufs[i].ptr]
                             ELSE l.bufs[j]]]

\* Mutant of remove: the last entry is dropped instead of the socket's.
remove_last(l, fd) ==
    LET i == find_socket_index(l, fd)
    IN  IF i < 0 THEN l
        ELSE [count  |-> l.count - 1,
              cursor |-> IF l.cursor > i THEN l.cursor - 1 ELSE l.cursor,
              bufs   |-> [j \in 0 .. l.count - 2 |-> l.bufs[j]]]

\* The last entry takes the place of the removed one, reported events and all.
remove(l, fd) ==
    LET i == find_socket_index(l, fd)
    IN  IF i < 0 THEN l
        ELSE [count  |-> l.count - 1,
              cursor |-> IF l.cursor > i THEN l.cursor - 1 ELSE l.cursor,
              bufs   |-> [j \in 0 .. l.count - 2 |->
                             IF j = i THEN l.bufs[l.count - 1] ELSE l.bufs[j]]]

-----------------------------------------------------------------------------
\* Where skip() leaves the cursor: at the next entry with reported events, or
\* at count.
Reported(l) == {k \in l.cursor .. l.count - 1 : l.bufs[k].revents # {}}

skip(l) ==
    [l EXCEPT !.cursor = IF Reported(l) = {} THEN l.count
                         ELSE CHOOSE k \in Reported(l) : \A j \in Reported(l) : k <= j]

\* wait() polls when no entry from the cursor on has events left; poll()
\* overwrites every revents field with what the kernel says of that socket.
must_poll(l) == Reported(l) = {}

poll(l, revents) ==
    [count  |-> l.count,
     cursor |-> 0,
     bufs   |-> [i \in Indices(l) |-> [l.bufs[i] EXCEPT !.revents = revents[i]]]]

\* What one socket can be reported for, given the kernel's view of it.
Revents(entry, ready) == ready \cap (entry.events \cup {"POLLERR"})

\* The event at a cursor skip() has placed: RECV before SEND, then failure.
EventType(l) ==
    LET revents == l.bufs[l.cursor].revents
    IN  IF "POLLIN" \in revents THEN "RECV"
        ELSE IF "POLLOUT" \in revents THEN "SEND" ELSE "FAILURE"

EventPtr(l) == l.bufs[l.cursor].ptr

\* Mutant of take: one event per entry, and on to the next one.
take_and_advance(l) ==
    [l EXCEPT !.cursor = @ + 1,
              !.bufs[l.cursor].revents =
        CASE EventType(l) = "RECV"    -> @ \ {"POLLIN"}
          [] EventType(l) = "SEND"    -> @ \ {"POLLOUT"}
          [] EventType(l) = "FAILURE" -> {}]

\* Mutant of take: every wait() polls, and the first entry always wins.
take_and_poll_again(l) ==
    [l EXCEPT !.cursor = l.count,
              !.bufs[l.cursor].revents =
        CASE EventType(l) = "RECV"    -> @ \ {"POLLIN"}
          [] EventType(l) = "SEND"    -> @ \ {"POLLOUT"}
          [] EventType(l) = "FAILURE" -> {}]

\* wait() takes the bit of the event it returns out of revents.
take(l) ==
    [l EXCEPT !.bufs[l.cursor].revents =
        CASE EventType(l) = "RECV"    -> @ \ {"POLLIN"}
          [] EventType(l) = "SEND"    -> @ \ {"POLLOUT"}
          [] EventType(l) = "FAILURE" -> {}]
=============================================================================
