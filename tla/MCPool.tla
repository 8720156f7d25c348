------------------------------- MODULE MCPool -------------------------------
(***************************************************************************)
(* Small instances of Pool.                                                *)
(***************************************************************************)
EXTENDS Pool

\* Slots of either half, quarter and table of the first word, the slot of the
\* second word, and an address on either side of the slots.
SomeAddresses == {-1, 0, 1, 3, 5, 7, 8, 10, 13, 15, 16, 17}
=============================================================================
