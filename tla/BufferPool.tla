----------------------------- MODULE BufferPool -----------------------------
(* The buffers of the pool, numbered as in src/cs3223_freelist-lru.c. *)
EXTENDS Integers

CONSTANT NBuffers

ASSUME NBuffersAssumption == NBuffers \in Nat \ {0}

Buffers == 0 .. NBuffers - 1

NOT_IN_STACK == -1
=============================================================================
