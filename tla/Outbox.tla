------------------------------- MODULE Outbox -------------------------------
(***************************************************************************)
(* What the server sees of the output of one client: whether it is being    *)
(* responded to, whether its output buffer is empty, holds bytes or has     *)
(* failed, and whether the connection ends with what is in it.              *)
(***************************************************************************)
VARIABLES responding, out, closing

vars == <<responding, out, closing>>

Init == responding = FALSE /\ out = "empty" /\ closing = FALSE

Serve ==
    /\ ~responding /\ ~closing
    /\ responding' = TRUE
    /\ UNCHANGED <<out, closing>>

\* status(), header() or write(): bytes are added, unless the buffer has failed.
Build ==
    /\ responding
    /\ out' \in {"pending", "failed"}
    /\ out = "failed" => out' = "failed"
    /\ UNCHANGED <<responding, closing>>

\* send(): never leaves an empty or a failed buffer.
Send ==
    /\ responding /\ out # "failed"
    /\ responding' = FALSE
    /\ out' = "pending"
    /\ closing' \in BOOLEAN

\* A flush of everything: the last of a connection only ends it.
Flush ==
    /\ ~responding /\ out = "pending" /\ ~closing
    /\ out' = "empty"
    /\ UNCHANGED <<responding, closing>>

\* The client is dropped after a failure or at its end; a connection that begins
\* in its slot starts anew.
Drop ==
    /\ responding \/ out = "pending"
    /\ responding' = FALSE /\ out' = "empty" /\ closing' = FALSE

Next == Serve \/ Build \/ Send \/ Flush \/ Drop

Spec == Init /\ [][Next]_vars
=============================================================================
