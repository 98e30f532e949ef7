------------------------------ MODULE MCZcFile ------------------------------
(* Files of a few bytes, read, written and sought a few bytes at a time. *)
EXTENDS ZcFile

CONSTANTS r, s, w

BackAndForth == {-1, 0, 1, 3}
=============================================================================
