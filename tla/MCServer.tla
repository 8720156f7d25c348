------------------------------ MODULE MCServer ------------------------------
(***************************************************************************)
(* Small instances of Server: what peers may send, built from a few kinds  *)
(* of requests, cut into more or fewer units.                              *)
(***************************************************************************)
EXTENDS Server, TLC

ThreeParts == <<"start", "rest", "end">>
TwoParts   == <<"rest", "end">>
OnePart    == <<"end">>

HeadOf(ok, cl) ==
    [i \in 1 .. Len(HeadParts) |-> [part |-> HeadParts[i], req |-> [ok |-> ok, cl |-> cl]]]

Body(n, cl) == [i \in 1 .. n |-> [part |-> "body", req |-> [ok |-> TRUE, cl |-> cl]]]

Get    == HeadOf(TRUE, RQ!NoLength)
Post   == HeadOf(TRUE, 1) \o Body(1, 1)
Bad    == HeadOf(FALSE, RQ!NoLength)
TooBig == HeadOf(TRUE, RQ!TooLong)

Single    == {Get}
Pipelined == {Get \o Get \o Get}
OneOff    == {Post, Bad}
AllKinds  == {Get \o Get \o Get, Post, Bad, TooBig}
Posts     == {Post, HeadOf(TRUE, 2) \o Body(2, 2)}

Junk == {-1, 2}

Descriptors == Permutations(Fd)
=============================================================================
