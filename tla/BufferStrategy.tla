--------------------------- MODULE BufferStrategy ---------------------------
(***************************************************************************)
(* The buffer replacement of src/cs3223_freelist-lru.c as its backends run *)
(* it: StrategyGetBuffer pops the freelist under buffer_strategy_lock, or  *)
(* scans the LRU stack from its bottom without any lock, while others move *)
(* nodes under stack_lock, pin and unpin buffers, and put invalidated      *)
(* buffers back on the freelist.  The stores of the stack operations are   *)
(* separate steps, since the scan can read between any two of them.  The   *)
(* waking of the background writer at the head of StrategyGetBuffer        *)
(* touches none of this state: it is the module BgWriter.                  *)
(*                                                                         *)
(* The buffer manager is not part of the repository: Hit, Unpin,           *)
(* Invalidate, Fill and Abandon are what the source says of its callers.   *)
(***************************************************************************)
EXTENDS BufferPool, Sequences, FiniteSets

CONSTANTS
  Procs,         \* the backends
  NoProc,        \* the holder of a free lock
  RingUsers,     \* the backends that pass a BAS_BULKREAD strategy object
  RingSize,      \* slots of such a ring
  Invalidators,  \* the backends that drop pages and free their buffers
  Rereads,       \* TRUE: the build reads a link again after testing it
  MaxPins,       \* bound: pins a backend holds at a time
  MaxUsage       \* bound: usage counts above it are not told apart

ASSUME StrategyAssumption ==
  /\ RingUsers \subseteq Procs /\ Invalidators \subseteq Procs
  /\ NoProc \notin Procs
  /\ RingSize \in Nat \ {0}
  /\ Rereads \in BOOLEAN
  /\ MaxPins \in Nat \ {0} /\ MaxUsage \in Nat \ {0}

EndOfList == -1
FREENEXT_NOT_IN_LIST == -2
InvalidBuffer == -1      \* an unfilled ring slot

VARIABLES
  stack,        \* LRU_stack and LRU_top_buf_id: [next, prev, isFree, top]
  stackHolder,  \* who holds stack_lock
  pending,      \* the stores its holder has yet to make
  firstFree, lastFree, freeNext,
  stratHolder,  \* who holds buffer_strategy_lock
  hdr,          \* hdr[b]: who holds the header spinlock of b
  pins,         \* pins[p]: the buffers backend p has pinned
  usage,        \* usage[b]: usage_count, up to MaxUsage
  valid,        \* valid[b]: b holds a page
  ring,         \* ring[p]: [slots, current, wasInRing]
  pc,           \* where backend p is
  buf,          \* buf[p]: the buffer in hand, buf or the scan's curr; 0 if none
  below,        \* history: below[a] are the stacked buffers last used before a
  avail         \* history: avail[p] are the buffers in the stack that nobody
                \* has pinned or claimed at any time since p began its scan

freelistVars == <<firstFree, lastFree, freeNext>>
bufferVars == <<hdr, pins, usage, valid>>
vars == <<stack, stackHolder, pending, below, freelistVars, stratHolder, bufferVars,
          ring, pc, buf, avail>>

RefCount(b) == Cardinality({p \in Procs : b \in pins[p]})

(* A seeded fault: the pins are not looked at. *)
PinnedOrNot(b) == TRUE
NotPinned(b) == RefCount(b) = 0

EmptyRing ==
  [slots |-> [i \in 0 .. RingSize - 1 |-> InvalidBuffer], current |-> 0, wasInRing |-> FALSE]

Init ==
  /\ stack = [next   |-> [b \in Buffers |-> NOT_IN_STACK],
              prev   |-> [b \in Buffers |-> NOT_IN_STACK],
              isFree |-> [b \in Buffers |-> TRUE],
              top    |-> NOT_IN_STACK]
  /\ stackHolder = NoProc /\ stratHolder = NoProc
  /\ pending = <<>>
  /\ firstFree = 0
  /\ lastFree = NBuffers - 1
  /\ freeNext = [b \in Buffers |-> IF b = NBuffers - 1 THEN EndOfList ELSE b + 1]
  /\ hdr = [b \in Buffers |-> NoProc]
  /\ pins = [p \in Procs |-> {}]
  /\ usage = [b \in Buffers |-> 0]
  /\ valid = [b \in Buffers |-> FALSE]
  /\ ring = [p \in RingUsers |-> EmptyRing]
  /\ pc = [p \in Procs |-> "idle"]
  /\ buf = [p \in Procs |-> 0]
  /\ below = [b \in Buffers |-> {}]
  /\ avail = [p \in Procs |-> {}]

Goto(p, label, b) ==
  /\ pc' = [pc EXCEPT ![p] = label]
  /\ buf' = [buf EXCEPT ![p] = b]

Proceed(p, label) == Goto(p, label, buf[p])
Finish(p) == Goto(p, "idle", 0)

-----------------------------------------------------------------------------
(* The stores of push, moveToTheTop and deleteBuffer, in program order.  The
   holder of stack_lock is the only writer of the stack, so what it stores is
   known when it takes the lock. *)

Store(field, at, value) == [field |-> field, at |-> at, value |-> value]
(* A seeded fault: the top stays what it is. *)
KeepTop(value) == Store("top", 0, stack.top)
SetTop(value) == Store("top", 0, value)

Assign(s, st) ==
  IF st.field = "top"
  THEN [s EXCEPT !.top = st.value]
  ELSE [s EXCEPT ![st.field][st.at] = st.value]

(* A seeded fault: a pushed node stays marked as free. *)
Unmarked(b) == <<>>
Marked(b) == << Store("isFree", b, FALSE) >>

PushStores(b) ==
  Marked(b) \o
  IF stack.top = NOT_IN_STACK
  THEN << SetTop(b), Store("next", b, NOT_IN_STACK), Store("prev", b, NOT_IN_STACK) >>
  ELSE << Store("prev", stack.top, b), Store("next", b, stack.top),
          Store("prev", b, NOT_IN_STACK), SetTop(b) >>

(* A seeded fault: the node under the gap still points into it. *)
UnlinkForward(above, under) == << Store("next", above, under) >>

Unlink(above, under) ==
  IF under = NOT_IN_STACK
  THEN << Store("next", above, NOT_IN_STACK) >>
  ELSE << Store("next", above, under), Store("prev", under, above) >>

MoveStores(b) ==
  IF b = stack.top
  THEN <<>>
  ELSE Unlink(stack.prev[b], stack.next[b]) \o
       << Store("prev", stack.top, b), Store("prev", b, NOT_IN_STACK),
          Store("next", b, stack.top), SetTop(b) >>

DeleteStores(b) ==
  IF stack.next[b] = NOT_IN_STACK /\ stack.prev[b] = NOT_IN_STACK
  THEN << Store("isFree", b, TRUE), SetTop(NOT_IN_STACK) >>
  ELSE (IF b = stack.top
        THEN << SetTop(stack.next[b]), Store("prev", stack.next[b], NOT_IN_STACK) >>
        ELSE Unlink(stack.prev[b], stack.next[b])) \o
       << Store("next", b, NOT_IN_STACK), Store("prev", b, NOT_IN_STACK),
          Store("isFree", b, TRUE) >>

-----------------------------------------------------------------------------
(* What the stack will be once the holder of stack_lock has made all its
   stores: this is what a sequential LruStack is. *)

Awaited(stores, field, at) ==
  {stores[i].value : i \in {j \in DOMAIN stores : stores[j].field = field /\ stores[j].at = at}}

Settled(stores, field, at, now) ==
  IF Awaited(stores, field, at) = {} THEN now ELSE CHOOSE v \in Awaited(stores, field, at) : TRUE

SettledNext == [b \in Buffers |-> Settled(pending, "next", b, stack.next[b])]
SettledPrev == [b \in Buffers |-> Settled(pending, "prev", b, stack.prev[b])]
SettledFree == [b \in Buffers |-> Settled(pending, "isFree", b, stack.isFree[b])]
SettledTop == Settled(pending, "top", 0, stack.top)

Stack == INSTANCE LruStack WITH
  next <- SettledNext, prev <- SettledPrev, isFree <- SettledFree, top <- SettledTop

-----------------------------------------------------------------------------
(* StrategyUpdateAccessedBuffer.  A backend enters it at "victim" for the
   buffer it is about to return, with its header lock; at "hit" for a page it
   found in the pool; at "delete" from StrategyFreeBuffer, with
   buffer_strategy_lock.  A store outside the array sends it to "wild": what
   the program does from there is not followed. *)

Updating == [victim |-> "victim-update", hit |-> "hit-update", delete |-> "delete-update"]

UpdateStores(p) ==
  CASE pc[p] = "delete" -> DeleteStores(buf[p])
    [] pc[p] # "delete" /\ stack.isFree[buf[p]] -> PushStores(buf[p])
    [] OTHER -> MoveStores(buf[p])

AcquireStackLock(p) ==
  /\ pc[p] \in {"victim", "hit", "delete"}
  /\ stackHolder = NoProc
  /\ LET stores == UpdateStores(p)
     IN IF \E i \in DOMAIN stores : stores[i].at = NOT_IN_STACK
        THEN Proceed(p, "wild") /\ UNCHANGED <<pending, below>>
        ELSE /\ pending' = stores
             /\ Proceed(p, Updating[pc[p]])
             /\ IF pc[p] = "delete" THEN Stack!RecordDelete(buf[p]) ELSE Stack!RecordUse(buf[p])
  /\ stackHolder' = p
  /\ UNCHANGED <<stack, freelistVars, stratHolder, bufferVars, ring>>

StoreLink(p) ==
  /\ stackHolder = p
  /\ pending # <<>>
  /\ stack' = Assign(stack, Head(pending))
  /\ pending' = Tail(pending)
  /\ UNCHANGED <<stackHolder, below, freelistVars, stratHolder, bufferVars, ring, pc, buf>>

ReleaseStackLock(p) ==
  /\ stackHolder = p
  /\ pending = <<>>
  /\ pc[p] # "wild"
  /\ stackHolder' = NoProc
  /\ IF pc[p] = "victim-update" THEN Proceed(p, "return") ELSE Finish(p)
  /\ stratHolder' = IF pc[p] = "delete-update" THEN NoProc ELSE stratHolder
  /\ UNCHANGED <<stack, pending, below, freelistVars, bufferVars, ring>>

-----------------------------------------------------------------------------
(* StrategyGetBuffer *)

stackVars == <<stack, stackHolder, pending, below>>

(* A backend that misses asks for a victim, first from its ring if it has one. *)
GetBuffer(p) ==
  /\ pc[p] = "idle"
  /\ Cardinality(pins[p]) < MaxPins
  /\ Proceed(p, IF p \in RingUsers THEN "ring" ELSE "probe")
  /\ UNCHANGED <<stackVars, freelistVars, stratHolder, bufferVars, ring>>

(* FreeAccessStrategy and GetAccessStrategy, between two bulk reads. *)
GetAccessStrategy(p) ==
  /\ pc[p] = "idle"
  /\ p \in RingUsers
  /\ ring' = [ring EXCEPT ![p] = EmptyRing]
  /\ UNCHANGED <<stackVars, freelistVars, stratHolder, bufferVars, pc, buf>>

NextSlot(p) == (ring[p].current + 1) % RingSize

(* GetBufferFromRing: the slot after the current one, if it holds a buffer that
   is not pinned and that nobody else has used since. *)
RingSlotUsable(p) ==
  /\ pc[p] = "ring"
  /\ LET b == ring[p].slots[NextSlot(p)]
     IN /\ b # InvalidBuffer
        /\ hdr[b] = NoProc
        /\ NotPinned(b) /\ usage[b] <= 1
        /\ hdr' = [hdr EXCEPT ![b] = p]
        /\ Goto(p, "victim", b)
  /\ ring' = [ring EXCEPT ![p].current = NextSlot(p), ![p].wasInRing = TRUE]
  /\ UNCHANGED <<stackVars, freelistVars, stratHolder, pins, usage, valid>>

RingSlotUnusable(p) ==
  /\ pc[p] = "ring"
  /\ LET b == ring[p].slots[NextSlot(p)]
     IN b # InvalidBuffer => hdr[b] = NoProc /\ ~ (NotPinned(b) /\ usage[b] <= 1)
  /\ ring' = [ring EXCEPT ![p].current = NextSlot(p), ![p].wasInRing = FALSE]
  /\ Proceed(p, "probe")
  /\ UNCHANGED <<stackVars, freelistVars, stratHolder, bufferVars>>

(* A seeded fault: buffer 0 is taken for the end of the freelist. *)
Positive(b) == b > 0
OnList(b) == b >= 0

(* The freelist is looked at without its lock. *)
ProbeFreelist(p) ==
  /\ pc[p] = "probe"
  /\ Proceed(p, IF OnList(firstFree) THEN "pop" ELSE "scan")
  /\ UNCHANGED <<stackVars, freelistVars, stratHolder, bufferVars, ring>>

(* One critical section of the loop that pops the freelist. *)
PopFreelist(p) ==
  /\ pc[p] = "pop"
  /\ stratHolder = NoProc
  /\ IF ~OnList(firstFree)
     THEN Proceed(p, "scan") /\ UNCHANGED freelistVars
     ELSE /\ firstFree' = freeNext[firstFree]
          /\ freeNext' = [freeNext EXCEPT ![firstFree] = FREENEXT_NOT_IN_LIST]
          /\ Goto(p, "check", firstFree)
          /\ UNCHANGED lastFree
  /\ UNCHANGED <<stackVars, stratHolder, bufferVars, ring>>

(* AddBufferToRing, for a backend that has a ring. *)
AddBufferToRing(p, b) ==
  ring' = IF p \in RingUsers
          THEN [ring EXCEPT ![p].slots[ring[p].current] = b]
          ELSE ring

(* The popped buffer is used if nobody pins or has used it, else forgotten. *)
TakePopped(p) ==
  /\ pc[p] = "check"
  /\ hdr[buf[p]] = NoProc
  /\ NotPinned(buf[p]) /\ usage[buf[p]] = 0
  /\ hdr' = [hdr EXCEPT ![buf[p]] = p]
  /\ AddBufferToRing(p, buf[p])
  /\ Proceed(p, "victim")
  /\ UNCHANGED <<stackVars, freelistVars, stratHolder, pins, usage, valid>>

DiscardPopped(p) ==
  /\ pc[p] = "check"
  /\ hdr[buf[p]] = NoProc
  /\ ~ (NotPinned(buf[p]) /\ usage[buf[p]] = 0)
  /\ Goto(p, "pop", 0)
  /\ UNCHANGED <<stackVars, freelistVars, stratHolder, bufferVars, ring>>

(* The scan starts at the top node: at LRU_stack[-1] when there is none. *)
ScanFromTop(p) ==
  /\ pc[p] = "scan"
  /\ IF stack.top = NOT_IN_STACK
     THEN Proceed(p, "wild")
     ELSE Goto(p, "down", stack.top)
  /\ UNCHANGED <<stackVars, freelistVars, stratHolder, bufferVars, ring>>

(* Follow a link, found to lead somewhere, that is read a second time. *)
Follow(p, link, label) ==
  IF link = NOT_IN_STACK
  THEN Proceed(p, "wild")
  ELSE Goto(p, label, link)

(* Down to the node without a next.  A seeded fault: wherever it starts. *)
AnyLink(link) == TRUE
EndLink(link) == link = NOT_IN_STACK

ScanDown(p) ==
  /\ pc[p] = "down"
  /\ LET link == stack.next[buf[p]]
     IN \/ EndLink(link) /\ Proceed(p, "up")
        \/ ~EndLink(link) /\ ~Rereads /\ Follow(p, link, "down")
        \/ ~EndLink(link) /\ Rereads /\ Proceed(p, "reread-next")
  /\ UNCHANGED <<stackVars, freelistVars, stratHolder, bufferVars, ring>>

RereadNext(p) ==
  /\ pc[p] = "reread-next"
  /\ Follow(p, stack.next[buf[p]], "down")
  /\ UNCHANGED <<stackVars, freelistVars, stratHolder, bufferVars, ring>>

(* Up again: the first buffer without a pin is the victim, ... *)
TakeScanned(p) ==
  /\ pc[p] = "up"
  /\ hdr[buf[p]] = NoProc
  /\ NotPinned(buf[p])
  /\ hdr' = [hdr EXCEPT ![buf[p]] = p]
  /\ AddBufferToRing(p, buf[p])
  /\ Proceed(p, "victim")
  /\ UNCHANGED <<stackVars, freelistVars, stratHolder, pins, usage, valid>>

(* ... and a pinned one without a prev is the end of the scan. *)
ScanUp(p) ==
  /\ pc[p] = "up"
  /\ hdr[buf[p]] = NoProc
  /\ ~NotPinned(buf[p])
  /\ LET link == stack.prev[buf[p]]
     IN \/ link = NOT_IN_STACK /\ Proceed(p, "error") /\ UNCHANGED hdr
        \/ link # NOT_IN_STACK /\ ~Rereads /\ Follow(p, link, "up") /\ UNCHANGED hdr
        \/ /\ link # NOT_IN_STACK /\ Rereads
           /\ hdr' = [hdr EXCEPT ![buf[p]] = p]
           /\ Proceed(p, "reread-prev")
  /\ UNCHANGED <<stackVars, freelistVars, stratHolder, pins, usage, valid, ring>>

RereadPrev(p) ==
  /\ pc[p] = "reread-prev"
  /\ Follow(p, stack.prev[buf[p]], "up")
  /\ hdr' = [hdr EXCEPT ![buf[p]] = NoProc]
  /\ UNCHANGED <<stackVars, freelistVars, stratHolder, pins, usage, valid, ring>>

(* elog(ERROR): the transaction is aborted and its pins are dropped. *)
AbortOnError(p) ==
  /\ pc[p] = "error"
  /\ \A b \in pins[p] : hdr[b] = NoProc
  /\ pins' = [pins EXCEPT ![p] = {}]
  /\ Finish(p)
  /\ UNCHANGED <<stackVars, freelistVars, stratHolder, hdr, usage, valid, ring>>

-----------------------------------------------------------------------------
(* StrategyFreeBuffer *)

(* A seeded fault: the tail is not set when the list was empty. *)
OldTail(b) == lastFree
NewTail(b) == IF OnList(firstFree) THEN lastFree ELSE b

FreeBuffer(p) ==
  /\ pc[p] = "free"
  /\ stratHolder = NoProc
  /\ IF freeNext[buf[p]] # FREENEXT_NOT_IN_LIST
     THEN Finish(p) /\ UNCHANGED <<freelistVars, stratHolder>>
     ELSE /\ freeNext' = [freeNext EXCEPT ![buf[p]] = firstFree]
          /\ lastFree' = NewTail(buf[p])
          /\ firstFree' = buf[p]
          /\ stratHolder' = p
          /\ Proceed(p, "delete")
  /\ UNCHANGED <<stackVars, bufferVars, ring>>

-----------------------------------------------------------------------------
(* The buffer manager around it *)

(* The returned victim is pinned and its header unlocked. *)
PinVictim(p) ==
  /\ pc[p] = "return"
  /\ pins' = [pins EXCEPT ![p] = @ \cup {buf[p]}]
  /\ hdr' = [hdr EXCEPT ![buf[p]] = NoProc]
  /\ Proceed(p, "pinned")
  /\ UNCHANGED <<stackVars, freelistVars, stratHolder, usage, valid, ring>>

Unpinned(p, b) ==
  /\ hdr[b] = NoProc
  /\ pins' = [pins EXCEPT ![p] = @ \ {b}]

(* A seeded fault: a rejected buffer stays in the ring. *)
KeptInRing(p) == ring
DroppedFromRing(p) == [ring EXCEPT ![p].slots[ring[p].current] = InvalidBuffer]

(* StrategyRejectBuffer says yes, for a victim whose page needs a WAL flush. *)
RejectBuffer(p) ==
  /\ pc[p] = "pinned"
  /\ p \in RingUsers
  /\ valid[buf[p]]
  /\ ring[p].wasInRing
  /\ ring[p].slots[ring[p].current] = buf[p]
  /\ ring' = DroppedFromRing(p)
  /\ Unpinned(p, buf[p])
  /\ Goto(p, "ring", 0)
  /\ UNCHANGED <<stackVars, freelistVars, stratHolder, hdr, usage, valid>>

(* The new page replaces the old one, if still nobody else pins the buffer. *)
Fill(p) ==
  /\ pc[p] = "pinned"
  /\ hdr[buf[p]] = NoProc
  /\ RefCount(buf[p]) = 1
  /\ valid' = [valid EXCEPT ![buf[p]] = TRUE]
  /\ usage' = [usage EXCEPT ![buf[p]] = 1]
  /\ Finish(p)
  /\ UNCHANGED <<stackVars, freelistVars, stratHolder, hdr, pins, ring>>

(* Somebody pinned the victim: it is given up, and another one asked for. *)
Abandon(p) ==
  /\ pc[p] = "pinned"
  /\ RefCount(buf[p]) > 1
  /\ Unpinned(p, buf[p])
  /\ Goto(p, IF p \in RingUsers THEN "ring" ELSE "probe", 0)
  /\ UNCHANGED <<stackVars, freelistVars, stratHolder, hdr, usage, valid, ring>>

(* Another backend read the same page in first: its buffer is used instead. *)
Collide(p) ==
  /\ pc[p] = "pinned"
  /\ Procs # {p}
  /\ Unpinned(p, buf[p])
  /\ Finish(p)
  /\ UNCHANGED <<stackVars, freelistVars, stratHolder, hdr, usage, valid, ring>>

(* A page found in the pool is pinned, if it was not, and its use recorded. *)
Hit(p) ==
  /\ pc[p] = "idle"
  /\ \E b \in Buffers :
       /\ valid[b]
       /\ b \in pins[p] \/ Cardinality(pins[p]) < MaxPins
       /\ hdr[b] = NoProc
       /\ pins' = [pins EXCEPT ![p] = @ \cup {b}]
       /\ usage' = [usage EXCEPT ![b] = IF b \in pins[p] \/ @ = MaxUsage THEN @ ELSE @ + 1]
       /\ Goto(p, "hit", b)
  /\ UNCHANGED <<stackVars, freelistVars, stratHolder, hdr, valid, ring>>

Unpin(p) ==
  /\ pc[p] = "idle"
  /\ \E b \in pins[p] : Unpinned(p, b)
  /\ UNCHANGED <<stackVars, freelistVars, stratHolder, hdr, usage, valid, ring, pc, buf>>

(* A page is dropped under the header lock; the buffer is freed after it. *)
Invalidate(p) ==
  /\ pc[p] = "idle"
  /\ p \in Invalidators
  /\ \E b \in Buffers :
       /\ valid[b] /\ hdr[b] = NoProc /\ RefCount(b) = 0
       /\ valid' = [valid EXCEPT ![b] = FALSE]
       /\ usage' = [usage EXCEPT ![b] = 0]
       /\ Goto(p, "free", b)
  /\ UNCHANGED <<stackVars, freelistVars, stratHolder, hdr, pins, ring>>

-----------------------------------------------------------------------------

Allocate(p) ==
  \/ RingSlotUsable(p) \/ RingSlotUnusable(p)
  \/ ProbeFreelist(p) \/ PopFreelist(p) \/ TakePopped(p) \/ DiscardPopped(p)
  \/ ScanFromTop(p) \/ ScanDown(p) \/ RereadNext(p)
  \/ TakeScanned(p) \/ ScanUp(p) \/ RereadPrev(p) \/ AbortOnError(p)

Update(p) == AcquireStackLock(p) \/ StoreLink(p) \/ ReleaseStackLock(p)

Manage(p) ==
  \/ GetAccessStrategy(p) \/ GetBuffer(p) \/ PinVictim(p) \/ RejectBuffer(p)
  \/ Fill(p) \/ Abandon(p) \/ Collide(p)
  \/ Hit(p) \/ Unpin(p) \/ Invalidate(p) \/ FreeBuffer(p)

(* A buffer is there for the taking: stacked, not pinned, and in no backend's hand. *)
ForTheTaking == {b \in Buffers : ~stack.isFree[b] /\ hdr[b] = NoProc /\ RefCount(b) = 0}

RecordAvail ==
  avail' = [p \in Procs |->
              CASE pc'[p] = "down" /\ pc[p] = "scan" -> ForTheTaking'
                [] pc'[p] \in {"down", "up", "reread-next", "reread-prev", "error"} ->
                     avail[p] \cap ForTheTaking'
                [] OTHER -> {}]

Next ==
  /\ \E p \in Procs : Allocate(p) \/ Update(p) \/ Manage(p)
  /\ RecordAvail

Spec == Init /\ [][Next]_vars

(* A backend inside a call keeps running; whether an idle one starts is its affair. *)
FairSpec ==
  /\ Spec
  /\ \A p \in Procs :
       WF_vars(/\ Allocate(p) \/ Update(p) \/ PinVictim(p) \/ RejectBuffer(p)
                  \/ Fill(p) \/ Abandon(p) \/ Collide(p) \/ FreeBuffer(p)
               /\ RecordAvail)

-----------------------------------------------------------------------------

(***************************************************************************)
(* The one hard requirement: from the moment a backend settles on a victim *)
(* until it has pinned it, the backend holds the header lock and nobody    *)
(* has the buffer pinned.                                                  *)
(***************************************************************************)
VictimUnpinned ==
  \A p \in Procs : pc[p] \in {"victim", "victim-update", "return"} =>
    hdr[buf[p]] = p /\ RefCount(buf[p]) = 0

(***************************************************************************)
(* The freelist is one chain: the buffers with a freeNext, each once, from *)
(* firstFreeBuffer to lastFreeBuffer.                                      *)
(***************************************************************************)
Listed == {b \in Buffers : freeNext[b] # FREENEXT_NOT_IN_LIST}

ChainOf(n, chain) ==
  /\ \A i, j \in 1 .. n : chain[i] = chain[j] => i = j
  /\ Listed = {chain[i] : i \in 1 .. n}
  /\ firstFree = IF n = 0 THEN EndOfList ELSE chain[1]
  /\ \A i \in 1 .. n : freeNext[chain[i]] = IF i = n THEN EndOfList ELSE chain[i + 1]
  /\ n > 0 => chain[n] = lastFree

FreelistIsChain == \E n \in 0 .. NBuffers : \E chain \in [1 .. n -> Buffers] : ChainOf(n, chain)

(***************************************************************************)
(* Every buffer can be found again: it is on the freelist, in the stack,   *)
(* or just popped by a backend that will stack it.                         *)
(***************************************************************************)
NoBufferLost ==
  \A b \in Buffers :
    \/ freeNext[b] # FREENEXT_NOT_IN_LIST
    \/ ~stack.isFree[b]
    \/ \E p \in Procs : buf[p] = b /\ pc[p] \in {"check", "victim", "victim-update"}

(***************************************************************************)
(* Whatever the backends do at the same time, the stack changes by one     *)
(* access or one deletion of LruStack at a time, each at the moment its    *)
(* backend takes stack_lock, and the others keep their order.              *)
(***************************************************************************)
ImplementsStack == Stack!Spec

(***************************************************************************)
(* So the links in both directions are the order of last use: what a scan  *)
(* without the lock relies on.                                             *)
(***************************************************************************)
LinksFollowRecency == Stack!LinksFollowRecency

(***************************************************************************)
(* While nobody updates the stack its links lead from the top through      *)
(* every node that is marked as stacked and through no other: an update    *)
(* moves or deletes its own buffer only, and cuts off nothing below it.    *)
(***************************************************************************)
HoldsLinked(S) ==
  /\ stack.top \in Buffers => stack.top \in S
  /\ \A b \in S : stack.next[b] \in Buffers => stack.next[b] \in S

StackIsComplete ==
  stackHolder = NoProc =>
    LET nodes == {b \in Buffers : ~stack.isFree[b]}
    IN HoldsLinked(nodes) /\ \A S \in SUBSET Buffers : HoldsLinked(S) => nodes \subseteq S

(***************************************************************************)
(* LRU replacement: when a scan settles on a victim, everything that was   *)
(* used less recently is pinned.                                           *)
(***************************************************************************)
VictimIsLeastRecentlyUsed ==
  [][\A p \in Procs : pc[p] = "up" /\ pc'[p] = "victim" =>
       \A c \in below[buf[p]] : RefCount(c) > 0]_vars

(***************************************************************************)
(* "no unpinned buffers available": a scan fails only if every buffer of   *)
(* the stack was pinned or taken at some time since it began.              *)
(***************************************************************************)
ErrorOnlyWhenAllPinned == \A p \in Procs : pc[p] = "error" => avail[p] = {}

(***************************************************************************)
(* The scan reads only nodes of the array, and the stack operations store  *)
(* only into them.                                                         *)
(***************************************************************************)
NoWildAccess == \A p \in Procs : pc[p] # "wild"
=============================================================================
