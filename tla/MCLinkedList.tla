---------------------------- MODULE MCLinkedList ----------------------------
(* Model checking LinkedList: the cells malloc has can be exchanged. *)
EXTENDS LinkedList

AnyCell == Permutations(Cells)
=============================================================================
