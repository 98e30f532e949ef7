------------------------------ MODULE LruStack ------------------------------
(***************************************************************************)
(* The LRU stack of src/cs3223_freelist-lru.c: one node per buffer, linked *)
(* into a list whose head is the most recently used buffer.  The three     *)
(* operations run under stack_lock, so here each is one step; the module   *)
(* BufferStrategy takes them apart store by store, for the readers that do *)
(* not take the lock.                                                      *)
(***************************************************************************)
EXTENDS BufferPool

BufferOrNone == Buffers \cup {NOT_IN_STACK}

VARIABLES
  next,    \* next_buf_id: the neighbour used just before this buffer
  prev,    \* prev_buf_id: the neighbour used just after this buffer
  isFree,  \* is_free: the node is not in the stack
  top,     \* LRU_top_buf_id
  below    \* history: below[a] are the stacked buffers last used before a

links == <<next, prev, isFree, top>>
vars == <<next, prev, isFree, top, below>>

Stacked == {b \in Buffers : ~isFree[b]}

(***************************************************************************)
(* StrategyInitialize: an empty stack, every node free.                    *)
(***************************************************************************)
Init ==
  /\ next = [b \in Buffers |-> NOT_IN_STACK]
  /\ prev = [b \in Buffers |-> NOT_IN_STACK]
  /\ isFree = [b \in Buffers |-> TRUE]
  /\ top = NOT_IN_STACK
  /\ below = [b \in Buffers |-> {}]

(***************************************************************************)
(* What recency means, independently of the links: a buffer that is used   *)
(* goes above every other stacked buffer, one that is deleted leaves the   *)
(* order, and nothing else changes.                                        *)
(***************************************************************************)
RecordUse(b) ==
  below' = [a \in Buffers |-> IF a = b THEN Stacked \ {b} ELSE below[a] \ {b}]

RecordDelete(b) ==
  below' = [a \in Buffers |-> IF a = b THEN {} ELSE below[a] \ {b}]

(***************************************************************************)
(* push                                                                    *)
(***************************************************************************)
Push(b) ==
  /\ isFree' = [isFree EXCEPT ![b] = FALSE]
  /\ next' = [next EXCEPT ![b] = top]
  /\ prev' = IF top = NOT_IN_STACK
             THEN [prev EXCEPT ![b] = NOT_IN_STACK]
             ELSE [prev EXCEPT ![top] = b, ![b] = NOT_IN_STACK]
  /\ top' = b

(***************************************************************************)
(* moveToTheTop: nothing when b is the top already.  A stacked buffer that *)
(* is not the top has a predecessor, so prev[b] indexes the array.         *)
(***************************************************************************)
MoveToTheTop(b) ==
  \/ /\ b = top
     /\ UNCHANGED links
  \/ /\ b # top
     /\ next' = [next EXCEPT ![prev[b]] = next[b], ![b] = top]
     /\ prev' = IF next[b] = NOT_IN_STACK
                THEN [prev EXCEPT ![top] = b, ![b] = NOT_IN_STACK]
                ELSE [prev EXCEPT ![next[b]] = prev[b],
                                  ![top] = b, ![b] = NOT_IN_STACK]
     /\ top' = b
     /\ UNCHANGED isFree

(***************************************************************************)
(* deleteBuffer: the only node, the top node with a successor, any other.  *)
(***************************************************************************)
DeleteOnly(b) ==
  /\ next[b] = NOT_IN_STACK /\ prev[b] = NOT_IN_STACK
  /\ top' = NOT_IN_STACK
  /\ UNCHANGED <<next, prev>>

DeleteTop(b) ==
  /\ next[b] # NOT_IN_STACK
  /\ b = top
  /\ top' = next[b]
  /\ prev' = [prev EXCEPT ![next[b]] = NOT_IN_STACK, ![b] = NOT_IN_STACK]
  /\ next' = [next EXCEPT ![b] = NOT_IN_STACK]

DeleteInner(b) ==
  /\ prev[b] # NOT_IN_STACK
  /\ b # top
  /\ next' = [next EXCEPT ![prev[b]] = next[b], ![b] = NOT_IN_STACK]
  /\ prev' = IF next[b] = NOT_IN_STACK
             THEN [prev EXCEPT ![b] = NOT_IN_STACK]
             ELSE [prev EXCEPT ![next[b]] = prev[b], ![b] = NOT_IN_STACK]
  /\ UNCHANGED top

DeleteBuffer(b) ==
  /\ DeleteOnly(b) \/ DeleteTop(b) \/ DeleteInner(b)
  /\ isFree' = [isFree EXCEPT ![b] = TRUE]

(***************************************************************************)
(* StrategyUpdateAccessedBuffer, whose callers pass delete = FALSE for a   *)
(* buffer they read or took as a victim and TRUE for one that goes to the  *)
(* freelist.  Only a buffer in the stack is deleted: deleteBuffer relies   *)
(* on it and does not test it.                                             *)
(***************************************************************************)
Access(b) ==
  /\ IF isFree[b] THEN Push(b) ELSE MoveToTheTop(b)
  /\ RecordUse(b)

Delete(b) ==
  /\ ~isFree[b]
  /\ DeleteBuffer(b)
  /\ RecordDelete(b)

Next == \E b \in Buffers : Access(b) \/ Delete(b)

Spec == Init /\ [][Next]_vars

-----------------------------------------------------------------------------

TypeOK ==
  /\ next \in [Buffers -> BufferOrNone]
  /\ prev \in [Buffers -> BufferOrNone]
  /\ isFree \in [Buffers -> BOOLEAN]
  /\ top \in BufferOrNone
  /\ below \in [Buffers -> SUBSET Buffers]

(***************************************************************************)
(* Recency is a strict total order of the stacked buffers.                 *)
(***************************************************************************)
RecencyOrders ==
  /\ \A a \in Buffers : below[a] \subseteq Stacked \ {a}
  /\ \A a \in Buffers : isFree[a] => below[a] = {}
  /\ \A a, c \in Stacked : a = c \/ c \in below[a] \/ a \in below[c]
  /\ \A a \in Buffers : \A c \in below[a] : below[c] \subseteq below[a]
  /\ \A a, c \in Buffers : ~ (c \in below[a] /\ a \in below[c])

(***************************************************************************)
(* top is the most recently used buffer, and there is one as soon as any   *)
(* buffer is stacked.                                                      *)
(***************************************************************************)
TopIsNewest ==
  IF top = NOT_IN_STACK
  THEN Stacked = {}
  ELSE top \in Stacked /\ below[top] = Stacked \ {top}

(***************************************************************************)
(* next leads to the buffer used just before: nothing lies in between.     *)
(***************************************************************************)
NextIsOlderNeighbour ==
  \A a \in Stacked :
    IF next[a] = NOT_IN_STACK
    THEN below[a] = {}
    ELSE next[a] \in Stacked /\ below[a] = {next[a]} \cup below[next[a]]

(***************************************************************************)
(* prev is the inverse of next, and only the top has none.                 *)
(***************************************************************************)
PrevInvertsNext ==
  \A a \in Stacked :
    /\ next[a] # NOT_IN_STACK => prev[next[a]] = a
    /\ IF prev[a] = NOT_IN_STACK
       THEN a = top
       ELSE prev[a] \in Stacked /\ next[prev[a]] = a

FreeNodesUnlinked ==
  \A a \in Buffers : isFree[a] => next[a] = NOT_IN_STACK /\ prev[a] = NOT_IN_STACK

(***************************************************************************)
(* LRU: the links in both directions are the order in which the buffers    *)
(* were last used, whatever was used, reused and deleted before, so that   *)
(* the scan of StrategyGetBuffer visits them from the least recently used. *)
(***************************************************************************)
LinksFollowRecency ==
  /\ RecencyOrders
  /\ TopIsNewest
  /\ NextIsOlderNeighbour
  /\ PrevInvertsNext
  /\ FreeNodesUnlinked
=============================================================================
