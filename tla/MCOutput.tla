------------------------------ MODULE MCOutput ------------------------------
(***************************************************************************)
(* Small instances of Output.                                              *)
(***************************************************************************)
EXTENDS Output

Letters == {"x", "y", "z"}

\* Parts of a body or values of a header: a short one, and one that is longer
\* than the first array of seven bytes.
Parts == {<<"y", "z", "y">>, <<"x", "z", "x", "y", "y", "z", "y", "x">>}

\* Allocations fail at once, after the first, or never.
Sizes == {0, 7, 1024}
=============================================================================
