-------------------------- MODULE MCBufferStrategy --------------------------
(***************************************************************************)
(* Model checking BufferStrategy: symmetry, and the calls' ends.           *)
(***************************************************************************)
EXTENDS BufferStrategy, TLC

(* Backends that all run alike can be exchanged. *)
Backends == Permutations(Procs)

(* The call of a backend comes to an end. *)
CallsEnd == \A p \in Procs : pc[p] # "idle" ~> pc[p] = "idle"
=============================================================================
