------------------------------- MODULE MCTape -------------------------------
(* Tape with small image files: one of a fixed size, one that grows, one   *)
(* that is longer than its limit, and a small one in tar-compatibility     *)
(* mode.                                                                   *)
EXTENDS Tape

SomeFiles == {<<18, 0, FALSE>>, <<8, 16, FALSE>>, <<12, 4, FALSE>>, <<6, 0, TRUE>>}

\* A drive that has lost its position among data that are not known is not used any further.
Bound == ~(lost /\ torn)
=============================================================================
