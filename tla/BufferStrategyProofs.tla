------------------------ MODULE BufferStrategyProofs ------------------------
(***************************************************************************)
(* The buffer replacement for any number of backends and buffers.          *)
(*                                                                         *)
(* Inv: a victim is unpinned because its header is locked.                 *)
(* StackInv: the links of an LruStack follow the order of last use, which  *)
(* its three operations preserve.                                          *)
(* OrderInv: what the stack will be once the pending stores are made is a  *)
(* state of LruStack, which every step changes as LruStack does; so        *)
(* StackInv holds of it.                                                   *)
(* KeptInv: a buffer that is not stacked has not been used, so a backend   *)
(* that forgets a popped buffer forgets one of the stack.                  *)
(* ScanInv and FirstPush: a scan finds a node to start from, and stays in  *)
(* the array.  UpInv and CalmInv: what a scan without rivals has learnt.   *)
(* BgInv: BgWriter, which is stated and proved at the end.                 *)
(*                                                                         *)
(* Alone is the condition of all but Inv: a buffer that is being           *)
(* invalidated can be taken as a victim before it is freed, if another     *)
(* backend runs in between, and is then deleted from under its new owner.  *)
(***************************************************************************)
EXTENDS BufferStrategy, BgWriter, SequenceTheorems, FiniteSetTheorems, WellFoundedInduction, TLAPS

Labels == {"idle", "ring", "probe", "pop", "check", "scan", "down", "up",
           "reread-next", "reread-prev", "error", "victim", "victim-update", "return",
           "pinned", "hit", "hit-update", "free", "delete", "delete-update", "wild"}

BufferOrNone == Buffers \cup {NOT_IN_STACK}
FreeLinks == Buffers \cup {EndOfList, FREENEXT_NOT_IN_LIST}
ProcOrNone == Procs \cup {NoProc}

Links == [next : [Buffers -> BufferOrNone], prev : [Buffers -> BufferOrNone],
          isFree : [Buffers -> BOOLEAN], top : BufferOrNone]

(* The stores as they are computed, and those that are made. *)
RawStores ==
  [field : {"next", "prev"}, at : BufferOrNone, value : BufferOrNone]
    \cup [field : {"isFree"}, at : Buffers, value : BOOLEAN]
    \cup [field : {"top"}, at : {0}, value : BufferOrNone]
Stores == {st \in RawStores : st.at # NOT_IN_STACK}

Rings == [slots : [0 .. RingSize - 1 -> BufferOrNone], current : 0 .. RingSize - 1,
          wasInRing : BOOLEAN]

TypeInv ==
  /\ stack \in Links
  /\ stackHolder \in ProcOrNone /\ stratHolder \in ProcOrNone
  /\ pending \in Seq(Stores)
  /\ firstFree \in FreeLinks
  /\ freeNext \in [Buffers -> FreeLinks]
  /\ hdr \in [Buffers -> ProcOrNone]
  /\ pins \in [Procs -> SUBSET Buffers]
  /\ usage \in [Buffers -> Nat]
  /\ valid \in [Buffers -> BOOLEAN]
  /\ ring \in [RingUsers -> Rings]
  /\ pc \in [Procs -> Labels]
  /\ buf \in [Procs -> Buffers]

(* Only a backend with a ring looks into it. *)
RingInv == \A p \in Procs : pc[p] = "ring" => p \in RingUsers

(* The backend that waits for its turn with a header lock holds that lock. *)
Holding == {"victim", "victim-update", "return", "reread-prev"}
HeaderInv == \A p \in Procs : pc[p] \in Holding => hdr[buf[p]] = p

-----------------------------------------------------------------------------
(* The stores of an update *)

LEMMA StoreTypes ==
  /\ \A field \in {"next", "prev"}, at, value \in BufferOrNone : Store(field, at, value) \in RawStores
  /\ \A b \in Buffers, value \in BOOLEAN : Store("isFree", b, value) \in RawStores
  /\ \A value \in BufferOrNone : SetTop(value) \in RawStores
BY DEF Store, SetTop, RawStores

(* Sequences of up to four stores. *)
LEMMA ShortSeqs ==
  ASSUME NEW S
  PROVE  /\ <<>> \in Seq(S)
         /\ \A a \in S : <<a>> \in Seq(S)
         /\ \A a, b \in S : <<a, b>> \in Seq(S)
         /\ \A a, b, c \in S : <<a, b, c>> \in Seq(S)
         /\ \A a, b, c, d \in S : <<a, b, c, d>> \in Seq(S)
OBVIOUS

LEMMA UpdateStoresType ==
  ASSUME TypeInv, NEW b \in Buffers
  PROVE  PushStores(b) \in Seq(RawStores) /\ MoveStores(b) \in Seq(RawStores)
         /\ DeleteStores(b) \in Seq(RawStores)
<1>1. /\ stack.top \in BufferOrNone /\ b \in BufferOrNone /\ NOT_IN_STACK \in BufferOrNone
      /\ stack.next[b] \in BufferOrNone /\ stack.prev[b] \in BufferOrNone
  BY DEF TypeInv, Links, BufferOrNone
<1>2. \A above, under \in BufferOrNone : Unlink(above, under) \in Seq(RawStores)
  BY StoreTypes, ShortSeqs, <1>1 DEF Unlink
<1>3. PushStores(b) \in Seq(RawStores)
  BY StoreTypes, ShortSeqs, <1>1, ConcatProperties DEF PushStores, Marked
<1>4. MoveStores(b) \in Seq(RawStores)
  BY StoreTypes, ShortSeqs, <1>1, <1>2, ConcatProperties DEF MoveStores
<1>5. DeleteStores(b) \in Seq(RawStores)
  BY StoreTypes, ShortSeqs, <1>1, <1>2, ConcatProperties DEF DeleteStores
<1> QED BY <1>3, <1>4, <1>5

(* The stores that are made once the lock is taken. *)
LEMMA MadeStores ==
  ASSUME NEW stores \in Seq(RawStores), \A i \in DOMAIN stores : stores[i].at # NOT_IN_STACK
  PROVE  stores \in Seq(Stores)
<1>1. Len(stores) \in Nat /\ stores \in [1 .. Len(stores) -> RawStores]
  BY LenProperties
<1>2. stores \in [1 .. Len(stores) -> Stores]
  BY <1>1 DEF Stores
<1> QED BY <1>1, <1>2, SeqDef

LEMMA AssignType ==
  ASSUME stack \in Links, NEW st \in Stores
  PROVE  Assign(stack, st) \in Links
<1>1. CASE st.field \in {"next", "prev"}
  BY <1>1 DEF Assign, Links, Stores, RawStores, BufferOrNone
<1>2. CASE st.field = "isFree"
  BY <1>2 DEF Assign, Links, Stores, RawStores, BufferOrNone
<1>3. CASE st.field = "top"
  BY <1>3 DEF Assign, Links, Stores, RawStores, BufferOrNone
<1> QED BY <1>1, <1>2, <1>3 DEF Stores, RawStores

-----------------------------------------------------------------------------
(* Types *)

LEMMA BufferZero == 0 \in Buffers /\ Buffers \subseteq Nat /\ NOT_IN_STACK \notin Buffers
BY NBuffersAssumption DEF Buffers, NOT_IN_STACK

LEMMA InitType == Init => TypeInv
<1> SUFFICES ASSUME Init PROVE TypeInv
  OBVIOUS
<1>1. NBuffers - 1 \in Buffers /\ \A b \in Buffers : b = NBuffers - 1 \/ b + 1 \in Buffers
  BY NBuffersAssumption DEF Buffers
<1>2. stack \in Links
  BY DEF Init, Links, BufferOrNone
<1>3. freeNext \in [Buffers -> FreeLinks] /\ firstFree \in FreeLinks
  BY <1>1, BufferZero DEF Init, FreeLinks
<1>4. ring \in [RingUsers -> Rings]
  <2>1. EmptyRing \in Rings
    BY StrategyAssumption DEF EmptyRing, Rings, BufferOrNone, InvalidBuffer, NOT_IN_STACK
  <2> QED BY <2>1 DEF Init
<1>5. pending \in Seq(Stores)
  BY DEF Init
<1> QED BY <1>2, <1>3, <1>4, <1>5, BufferZero DEF Init, TypeInv, ProcOrNone, Labels

(* Where a step of p leads, with which buffer. *)
LEMMA GotoType ==
  ASSUME TypeInv, NEW p \in Procs, NEW label \in Labels, NEW b \in Buffers, Goto(p, label, b)
  PROVE  pc' \in [Procs -> Labels] /\ buf' \in [Procs -> Buffers]
BY DEF Goto, TypeInv

(* What a scan reads. *)
LEMMA ReadType ==
  ASSUME TypeInv
  PROVE  /\ stack.top \in Buffers \cup {NOT_IN_STACK}
         /\ \A b \in Buffers : /\ stack.next[b] \in Buffers \cup {NOT_IN_STACK}
                               /\ stack.prev[b] \in Buffers \cup {NOT_IN_STACK}
BY DEF TypeInv, Links, BufferOrNone

(* A backend that moves on, and takes or releases a header at most. *)
LEMMA MoveType ==
  ASSUME TypeInv, UNCHANGED <<stackVars, freelistVars, stratHolder, pins, usage, valid, ring>>,
         hdr' \in [Buffers -> ProcOrNone], pc' \in [Procs -> Labels], buf' \in [Procs -> Buffers]
  PROVE  TypeInv'
BY DEF TypeInv, stackVars, freelistVars

LEMMA NextSlotType ==
  ASSUME TypeInv, NEW p \in RingUsers
  PROVE  NextSlot(p) \in 0 .. RingSize - 1 /\ ring[p].slots[NextSlot(p)] \in BufferOrNone
<1>1. ring[p].current \in 0 .. RingSize - 1
  BY DEF TypeInv, Rings
<1>2. NextSlot(p) \in 0 .. RingSize - 1
  BY <1>1, StrategyAssumption DEF NextSlot
<1> QED BY <1>2 DEF TypeInv, Rings

LEMMA AllocateType == ASSUME TypeInv, RingInv, NEW p \in Procs, Allocate(p) PROVE TypeInv'
<1> DEFINE b == buf[p]
<1>b. /\ b \in Buffers /\ p \in ProcOrNone
      /\ pc \in [Procs -> Labels] /\ buf \in [Procs -> Buffers] /\ hdr \in [Buffers -> ProcOrNone]
  BY DEF TypeInv, ProcOrNone
<1> HIDE DEF b
<1>a. ASSUME NEW c \in Buffers, AddBufferToRing(p, c)
      PROVE  ring' \in [RingUsers -> Rings]
  <2>1. CASE p \in RingUsers
    <3>1. ring \in [RingUsers -> Rings] /\ ring[p] \in Rings
      BY <2>1 DEF TypeInv
    <3>2. [ring[p] EXCEPT !.slots[ring[p].current] = c] \in Rings
      BY <3>1 DEF Rings, BufferOrNone
    <3> QED BY <1>a, <2>1, <3>1, <3>2 DEF AddBufferToRing
  <2> QED BY <1>a, <2>1 DEF AddBufferToRing, TypeInv
<1>r. ASSUME p \in RingUsers, NEW was \in BOOLEAN,
             ring' = [ring EXCEPT ![p].current = NextSlot(p), ![p].wasInRing = was]
      PROVE  ring' \in [RingUsers -> Rings]
  <2>1. ring \in [RingUsers -> Rings] /\ ring[p] \in Rings
    BY <1>r DEF TypeInv
  <2>2. [ring[p] EXCEPT !.current = NextSlot(p), !.wasInRing = was] \in Rings
    BY <1>r, <2>1, NextSlotType DEF Rings
  <2> QED BY <1>r, <2>1, <2>2
<1> USE DEF Goto, Proceed, Finish, Labels
<1>1. ASSUME RingSlotUsable(p), p \in RingUsers PROVE TypeInv'
  <2>1. PICK c \in Buffers : hdr' = [hdr EXCEPT ![c] = p] /\ Goto(p, "victim", c)
    BY <1>1, NextSlotType DEF RingSlotUsable, BufferOrNone, InvalidBuffer, NOT_IN_STACK
  <2>2. ring' \in [RingUsers -> Rings]
    BY <1>1, <1>r DEF RingSlotUsable
  <2>3. UNCHANGED <<stackVars, freelistVars, stratHolder, pins, usage, valid>>
    BY <1>1 DEF RingSlotUsable
  <2> QED BY <1>b, <2>1, <2>2, <2>3 DEF TypeInv, stackVars, freelistVars
<1>2. ASSUME RingSlotUnusable(p), p \in RingUsers PROVE TypeInv'
  <2>1. ring' \in [RingUsers -> Rings]
    BY <1>2, <1>r DEF RingSlotUnusable
  <2> QED BY <1>2, <1>b, <2>1 DEF RingSlotUnusable, TypeInv, stackVars, freelistVars, bufferVars
<1>3. ASSUME ProbeFreelist(p) PROVE TypeInv'
  BY <1>3, <1>b, MoveType DEF ProbeFreelist, bufferVars
<1>4. ASSUME PopFreelist(p) PROVE TypeInv'
  <2>1. firstFree \in FreeLinks /\ freeNext \in [Buffers -> FreeLinks]
    BY DEF TypeInv
  <2>2. CASE OnList(firstFree)
    <3>1. firstFree \in Buffers
      BY <2>1, <2>2 DEF OnList, FreeLinks, EndOfList, FREENEXT_NOT_IN_LIST
    <3>2. firstFree' \in FreeLinks /\ freeNext' \in [Buffers -> FreeLinks]
      BY <1>4, <2>1, <2>2, <3>1 DEF PopFreelist, FreeLinks
    <3> QED BY <1>4, <1>b, <2>2, <3>1, <3>2 DEF PopFreelist, TypeInv, stackVars, bufferVars
  <2>3. CASE ~OnList(firstFree)
    BY <1>4, <1>b, <2>3, MoveType DEF PopFreelist, bufferVars
  <2> QED BY <2>2, <2>3
<1>5. ASSUME TakePopped(p) PROVE TypeInv'
  BY <1>5, <1>a, <1>b DEF TakePopped, TypeInv, stackVars, freelistVars
<1>6. ASSUME DiscardPopped(p) PROVE TypeInv'
  BY <1>6, <1>b, BufferZero, MoveType DEF DiscardPopped, bufferVars
<1>7. ASSUME ScanFromTop(p) PROVE TypeInv'
  BY <1>7, <1>b, ReadType, MoveType DEF ScanFromTop, bufferVars
<1>8. ASSUME ScanDown(p) PROVE TypeInv'
  BY <1>8, <1>b, ReadType, MoveType DEF ScanDown, Follow, bufferVars
<1>9. ASSUME RereadNext(p) PROVE TypeInv'
  BY <1>9, <1>b, ReadType, MoveType DEF RereadNext, Follow, bufferVars
<1>10. ASSUME TakeScanned(p) PROVE TypeInv'
  BY <1>10, <1>a, <1>b DEF TakeScanned, TypeInv, stackVars, freelistVars
<1>11. ASSUME ScanUp(p) PROVE TypeInv'
  <2>1. hdr' \in [Buffers -> ProcOrNone]
    BY <1>11, <1>b DEF ScanUp
  <2>2. pc' \in [Procs -> Labels] /\ buf' \in [Procs -> Buffers]
    BY <1>11, <1>b, ReadType DEF ScanUp, Follow
  <2> QED BY <1>11, <2>1, <2>2, MoveType DEF ScanUp
<1>12. ASSUME RereadPrev(p) PROVE TypeInv'
  <2>1. hdr' \in [Buffers -> ProcOrNone]
    BY <1>12, <1>b DEF RereadPrev, ProcOrNone
  <2>2. pc' \in [Procs -> Labels] /\ buf' \in [Procs -> Buffers]
    BY <1>12, <1>b, ReadType DEF RereadPrev, Follow
  <2> QED BY <1>12, <2>1, <2>2, MoveType DEF RereadPrev
<1>13. ASSUME AbortOnError(p) PROVE TypeInv'
  BY <1>13, <1>b, BufferZero DEF AbortOnError, TypeInv, stackVars, freelistVars
<1>14. RingSlotUsable(p) \/ RingSlotUnusable(p) => p \in RingUsers
  BY DEF RingSlotUsable, RingSlotUnusable, RingInv
<1> QED BY <1>1, <1>2, <1>3, <1>4, <1>5, <1>6, <1>7, <1>8, <1>9, <1>10, <1>11, <1>12, <1>13, <1>14
        DEF Allocate

LEMMA UpdateType == ASSUME TypeInv, NEW p \in Procs, Update(p) PROVE TypeInv'
<1> USE DEF TypeInv, Goto, Proceed, Finish, Labels, ProcOrNone
<1>1. ASSUME AcquireStackLock(p) PROVE TypeInv'
  <2>1. UpdateStores(p) \in Seq(RawStores)
    BY UpdateStoresType, Zenon DEF UpdateStores
  <2>2. pending' \in Seq(Stores)
    BY <1>1, <2>1, MadeStores DEF AcquireStackLock
  <2>3. Updating[pc[p]] \in Labels
    BY <1>1 DEF AcquireStackLock, Updating
  <2> QED BY <1>1, <2>2, <2>3 DEF AcquireStackLock, freelistVars, bufferVars
<1>2. ASSUME StoreLink(p) PROVE TypeInv'
  <2>1. Head(pending) \in Stores /\ Tail(pending) \in Seq(Stores)
    BY <1>2, HeadTailProperties DEF StoreLink
  <2> QED BY <1>2, <2>1, AssignType DEF StoreLink, freelistVars, bufferVars
<1>3. ASSUME ReleaseStackLock(p) PROVE TypeInv'
  BY <1>3, BufferZero DEF ReleaseStackLock, freelistVars, bufferVars
<1> QED BY <1>1, <1>2, <1>3 DEF Update

LEMMA ManageType == ASSUME TypeInv, NEW p \in Procs, Manage(p) PROVE TypeInv'
<1> USE DEF TypeInv, Goto, Proceed, Finish, Labels, ProcOrNone
<1>1. ASSUME GetAccessStrategy(p) PROVE TypeInv'
  <2>1. EmptyRing \in Rings
    BY StrategyAssumption DEF EmptyRing, Rings, BufferOrNone, InvalidBuffer, NOT_IN_STACK
  <2> QED BY <1>1, <2>1 DEF GetAccessStrategy, stackVars, freelistVars, bufferVars
<1>2. ASSUME GetBuffer(p) PROVE TypeInv'
  BY <1>2 DEF GetBuffer, stackVars, freelistVars, bufferVars
<1>3. ASSUME PinVictim(p) PROVE TypeInv'
  BY <1>3 DEF PinVictim, stackVars, freelistVars
<1>4. ASSUME RejectBuffer(p) PROVE TypeInv'
  <2>1. /\ p \in RingUsers /\ ring' = [ring EXCEPT ![p].slots[ring[p].current] = InvalidBuffer]
        /\ pins' = [pins EXCEPT ![p] = @ \ {buf[p]}]
        /\ pc' = [pc EXCEPT ![p] = "ring"] /\ buf' = [buf EXCEPT ![p] = 0]
        /\ UNCHANGED <<stackVars, freelistVars, stratHolder, hdr, usage, valid>>
    BY <1>4 DEF RejectBuffer, DroppedFromRing, Unpinned
  <2>2. ring' \in [RingUsers -> Rings]
    <3>1. PICK r : r = ring[p]
      OBVIOUS
    <3>2. r \in Rings
      BY <2>1, <3>1
    <3>3. InvalidBuffer \in BufferOrNone
      BY DEF BufferOrNone, InvalidBuffer, NOT_IN_STACK
    <3>4. [r EXCEPT !.slots[r.current] = InvalidBuffer] \in Rings
      BY <3>2, <3>3 DEF Rings
    <3>5. ring' = [ring EXCEPT ![p] = [r EXCEPT !.slots[r.current] = InvalidBuffer]]
      BY <2>1, <3>1
    <3> QED BY <3>4, <3>5
  <2>3. pins' \in [Procs -> SUBSET Buffers]
    BY <2>1
  <2>4. pc' \in [Procs -> Labels] /\ buf' \in [Procs -> Buffers]
    BY <2>1, BufferZero
  <2> QED BY <2>1, <2>2, <2>3, <2>4 DEF stackVars, freelistVars
<1>5. ASSUME Fill(p) PROVE TypeInv'
  BY <1>5, BufferZero DEF Fill, stackVars, freelistVars
<1>6. ASSUME Abandon(p) PROVE TypeInv'
  BY <1>6, BufferZero DEF Abandon, Unpinned, stackVars, freelistVars
<1>7. ASSUME Collide(p) PROVE TypeInv'
  BY <1>7, BufferZero DEF Collide, Unpinned, stackVars, freelistVars
<1>8. ASSUME Hit(p) PROVE TypeInv'
  BY <1>8, StrategyAssumption DEF Hit, stackVars, freelistVars
<1>9. ASSUME Unpin(p) PROVE TypeInv'
  BY <1>9 DEF Unpin, Unpinned, stackVars, freelistVars
<1>10. ASSUME Invalidate(p) PROVE TypeInv'
  BY <1>10 DEF Invalidate, stackVars, freelistVars
<1>11. ASSUME FreeBuffer(p) PROVE TypeInv'
  <2>1. /\ firstFree' \in FreeLinks /\ freeNext' \in [Buffers -> FreeLinks]
        /\ stratHolder' \in ProcOrNone
    <3>1. CASE freeNext[buf[p]] # FREENEXT_NOT_IN_LIST
      BY <1>11, <3>1 DEF FreeBuffer, freelistVars
    <3>2. CASE freeNext[buf[p]] = FREENEXT_NOT_IN_LIST
      <4>1. buf[p] \in FreeLinks /\ firstFree \in FreeLinks
        BY DEF FreeLinks
      <4> QED BY <1>11, <3>2, <4>1 DEF FreeBuffer
    <3> QED BY <3>1, <3>2
  <2>2. pc' \in [Procs -> Labels] /\ buf' \in [Procs -> Buffers]
    <3>1. \/ pc' = [pc EXCEPT ![p] = "idle"] /\ buf' = [buf EXCEPT ![p] = 0]
          \/ pc' = [pc EXCEPT ![p] = "delete"] /\ buf' = [buf EXCEPT ![p] = buf[p]]
      BY <1>11 DEF FreeBuffer
    <3> QED BY <3>1, BufferZero
  <2> QED BY <1>11, <2>1, <2>2 DEF FreeBuffer, stackVars, bufferVars
<1> QED BY <1>1, <1>2, <1>3, <1>4, <1>5, <1>6, <1>7, <1>8, <1>9, <1>10, <1>11 DEF Manage

LEMMA StepType == TypeInv /\ RingInv /\ [Next]_vars => TypeInv'
<1>1. TypeInv /\ RingInv /\ Next => TypeInv'
  BY AllocateType, UpdateType, ManageType DEF Next
<1>2. TypeInv /\ UNCHANGED vars => TypeInv'
  BY DEF TypeInv, vars, freelistVars, bufferVars
<1> QED BY <1>1, <1>2

-----------------------------------------------------------------------------
(* Where the backends are *)

Step(p) == Allocate(p) \/ Update(p) \/ Manage(p)

(* A step of p moves p alone, ... *)
LEMMA OnlyOneMoves ==
  ASSUME TypeInv, NEW p \in Procs, Step(p)
  PROVE  \E label, b : pc' = [pc EXCEPT ![p] = label] /\ buf' = [buf EXCEPT ![p] = b]
<1> DEFINE Moves == \E label, b : pc' = [pc EXCEPT ![p] = label] /\ buf' = [buf EXCEPT ![p] = b]
<1> USE DEF TypeInv, Goto, Proceed, Finish
<1>1. ASSUME Allocate(p) PROVE Moves
  BY <1>1 DEF Allocate, RingSlotUsable, RingSlotUnusable, ProbeFreelist, PopFreelist,
     TakePopped, DiscardPopped, ScanFromTop, ScanDown, RereadNext, TakeScanned, ScanUp,
     RereadPrev, AbortOnError, Follow
<1>2. ASSUME Update(p) PROVE Moves
  BY <1>2 DEF Update, AcquireStackLock, StoreLink, ReleaseStackLock
<1>3. ASSUME Manage(p) PROVE Moves
  BY <1>3 DEF Manage, GetAccessStrategy, GetBuffer, PinVictim, RejectBuffer, Fill, Abandon,
     Collide, Hit, Unpin, Invalidate, FreeBuffer
<1> QED BY <1>1, <1>2, <1>3 DEF Step

LEMMA OthersStay ==
  ASSUME TypeInv, NEW p \in Procs, Step(p)
  PROVE  \A q \in Procs \ {p} : pc'[q] = pc[q] /\ buf'[q] = buf[q]
BY OnlyOneMoves DEF TypeInv

(* ... takes a header only when it is free, and holds it as long as it needs it, ... *)
LEMMA HeaderStep ==
  ASSUME TypeInv, HeaderInv, RingInv, NEW p \in Procs, Step(p)
  PROVE  /\ \A b \in Buffers : hdr'[b] # hdr[b] => hdr[b] \in {NoProc, p}
         /\ pc'[p] \in Holding => hdr'[buf'[p]] = p
<1> DEFINE Taken == /\ \A b \in Buffers : hdr'[b] # hdr[b] => hdr[b] \in {NoProc, p}
                    /\ pc'[p] \in Holding => hdr'[buf'[p]] = p
<1>0. /\ pc \in [Procs -> Labels] /\ buf \in [Procs -> Buffers] /\ hdr \in [Buffers -> ProcOrNone]
      /\ p \in RingUsers => ring[p].slots[NextSlot(p)] \in BufferOrNone
      /\ pc[p] = "ring" => p \in RingUsers
      /\ pc[p] \in Holding => hdr[buf[p]] = p
  BY NextSlotType DEF TypeInv, HeaderInv, RingInv
<1> USE DEF Goto, Proceed, Finish, Holding
<1>1. ASSUME Allocate(p) PROVE Taken
  <2>1. ASSUME RingSlotUsable(p) PROVE Taken
    BY <1>0, <2>1 DEF RingSlotUsable, BufferOrNone, InvalidBuffer, NOT_IN_STACK
  <2>2. ASSUME TakePopped(p) \/ TakeScanned(p) PROVE Taken
    BY <1>0, <2>2 DEF TakePopped, TakeScanned
  <2>3. ASSUME ScanUp(p) PROVE Taken
    BY <1>0, <2>3 DEF ScanUp, Follow
  <2>4. ASSUME RereadPrev(p) PROVE Taken
    BY <1>0, <2>4 DEF RereadPrev, Follow
  <2>5. ASSUME RingSlotUnusable(p) \/ ProbeFreelist(p) \/ PopFreelist(p) \/ DiscardPopped(p)
               \/ ScanFromTop(p) \/ ScanDown(p) \/ RereadNext(p) \/ AbortOnError(p)
        PROVE  Taken
    BY <1>0, <2>5 DEF RingSlotUnusable, ProbeFreelist, PopFreelist, DiscardPopped, ScanFromTop,
       ScanDown, RereadNext, AbortOnError, Follow, bufferVars
  <2> QED BY <1>1, <2>1, <2>2, <2>3, <2>4, <2>5 DEF Allocate
<1>2. ASSUME Update(p) PROVE Taken
  BY <1>0, <1>2 DEF Update, AcquireStackLock, StoreLink, ReleaseStackLock, Updating, bufferVars
<1>3. ASSUME Manage(p) PROVE Taken
  <2>1. ASSUME PinVictim(p) PROVE Taken
    BY <1>0, <2>1 DEF PinVictim
  <2> QED BY <1>0, <1>3, <2>1 DEF Manage, GetAccessStrategy, GetBuffer, RejectBuffer, Fill, Abandon,
          Collide, Hit, Unpin, Invalidate, FreeBuffer, bufferVars
<1> QED BY <1>1, <1>2, <1>3 DEF Step

(* ... and pins or unpins only a buffer whose header is free or its own. *)
LEMMA PinStep ==
  ASSUME TypeInv, HeaderInv, NEW p \in Procs, Step(p),
         NEW q \in Procs, NEW b \in Buffers, (b \in pins'[q]) # (b \in pins[q])
  PROVE  q = p /\ (hdr[b] = NoProc \/ (hdr[b] = p /\ pc[p] = "return" /\ pc'[p] = "pinned"))
<1> DEFINE Allowed == q = p /\ (hdr[b] = NoProc \/ (hdr[b] = p /\ pc[p] = "return" /\ pc'[p] = "pinned"))
<1>0. /\ pc \in [Procs -> Labels] /\ buf \in [Procs -> Buffers] /\ hdr \in [Buffers -> ProcOrNone]
      /\ pins \in [Procs -> SUBSET Buffers]
      /\ pc[p] = "return" => hdr[buf[p]] = p
  BY DEF TypeInv, HeaderInv, Holding
<1>1. ASSUME Allocate(p) PROVE Allowed
  BY <1>0, <1>1 DEF Allocate, RingSlotUsable, RingSlotUnusable, ProbeFreelist, PopFreelist,
     TakePopped, DiscardPopped, ScanFromTop, ScanDown, RereadNext, TakeScanned, ScanUp,
     RereadPrev, AbortOnError, bufferVars
<1>2. ASSUME Update(p) PROVE Allowed
  BY <1>2 DEF Update, AcquireStackLock, StoreLink, ReleaseStackLock, bufferVars
<1>3. ASSUME Manage(p) PROVE Allowed
  <2>1. ASSUME PinVictim(p) PROVE Allowed
    BY <1>0, <2>1 DEF PinVictim, Proceed, Goto
  <2>2. ASSUME Hit(p) PROVE Allowed
    BY <1>0, <2>2 DEF Hit
  <2> QED BY <1>0, <1>3, <2>1, <2>2 DEF Manage, GetAccessStrategy, GetBuffer, RejectBuffer, Fill,
          Abandon, Collide, Unpin, Unpinned, Invalidate, FreeBuffer, bufferVars
<1> QED BY <1>1, <1>2, <1>3 DEF Step

-----------------------------------------------------------------------------
(* The victim *)

Victims == {"victim", "victim-update", "return"}

LEMMA VictimStep ==
  ASSUME TypeInv, RingInv, NEW p \in Procs, Step(p), pc'[p] \in Victims
  PROVE  \/ pc[p] \in Victims /\ buf'[p] = buf[p]
         \/ pins' = pins /\ RefCount(buf'[p]) = 0
<1> DEFINE From == \/ pc[p] \in Victims /\ buf'[p] = buf[p]
                   \/ pins' = pins /\ RefCount(buf'[p]) = 0
<1>0. /\ pc \in [Procs -> Labels] /\ buf \in [Procs -> Buffers] /\ p \in Procs
      /\ p \in RingUsers => ring[p].slots[NextSlot(p)] \in BufferOrNone
      /\ pc[p] = "ring" => p \in RingUsers /\ pc'[p] \in Victims
  BY NextSlotType DEF TypeInv, RingInv
<1> USE DEF Goto, Proceed, Finish, Victims, NotPinned
<1> HIDE DEF From
<1>1. ASSUME Allocate(p) PROVE From
  <2>1. ASSUME RingSlotUsable(p) PROVE From
    BY <1>0, <2>1 DEF RingSlotUsable, From
  <2>2. ASSUME TakePopped(p) \/ TakeScanned(p) PROVE From
    BY <1>0, <2>2 DEF TakePopped, TakeScanned, From
  <2> QED BY <1>0, <1>1, <2>1, <2>2 DEF Allocate, RingSlotUnusable, ProbeFreelist, PopFreelist,
     DiscardPopped, ScanFromTop, ScanDown, RereadNext, ScanUp, RereadPrev, AbortOnError, Follow
<1>2. ASSUME Update(p) PROVE From
  BY <1>0, <1>2 DEF Update, AcquireStackLock, StoreLink, ReleaseStackLock, Updating, From
<1>3. ASSUME Manage(p) PROVE From
  BY <1>0, <1>3 DEF Manage, GetAccessStrategy, GetBuffer, PinVictim, RejectBuffer, Fill, Abandon,
     Collide, Hit, Unpin, Invalidate, FreeBuffer, From
<1> QED BY <1>1, <1>2, <1>3 DEF Step, From

LEMMA RingStep ==
  ASSUME TypeInv, RingInv, NEW p \in Procs, Step(p), pc'[p] = "ring"
  PROVE  p \in RingUsers
<1>0. pc \in [Procs -> Labels] /\ (pc[p] = "ring" => p \in RingUsers)
  BY DEF TypeInv, RingInv
<1> USE DEF Goto, Proceed, Finish
<1>1. ASSUME Allocate(p) PROVE p \in RingUsers
  BY <1>0, <1>1 DEF Allocate, RingSlotUsable, RingSlotUnusable, ProbeFreelist, PopFreelist,
     TakePopped, DiscardPopped, ScanFromTop, ScanDown, RereadNext, TakeScanned, ScanUp,
     RereadPrev, AbortOnError, Follow
<1>2. ASSUME Update(p) PROVE p \in RingUsers
  BY <1>0, <1>2 DEF Update, AcquireStackLock, StoreLink, ReleaseStackLock, Updating
<1>3. ASSUME Manage(p) PROVE p \in RingUsers
  BY <1>0, <1>3 DEF Manage, GetAccessStrategy, GetBuffer, PinVictim, RejectBuffer, Fill, Abandon,
     Collide, Hit, Unpin, Invalidate, FreeBuffer
<1> QED BY <1>1, <1>2, <1>3 DEF Step

Inv == TypeInv /\ RingInv /\ HeaderInv /\ VictimUnpinned

LEMMA InitInv == Init => Inv
<1> SUFFICES ASSUME Init PROVE Inv
  OBVIOUS
<1>1. \A p \in Procs : pc[p] = "idle"
  BY DEF Init
<1> QED BY <1>1, InitType DEF Inv, RingInv, HeaderInv, Holding, VictimUnpinned

(* The backends that have not moved keep their headers and their victims. *)
LEMMA StepInv == Inv /\ [Next]_vars => Inv'
<1> SUFFICES ASSUME Inv, [Next]_vars PROVE Inv'
  OBVIOUS
<1>t. TypeInv /\ RingInv /\ HeaderInv /\ VictimUnpinned
  BY DEF Inv
<1>1. TypeInv'
  BY <1>t, StepType
<1>2. CASE UNCHANGED vars
  <2>1. \A b : RefCount(b)' = RefCount(b)
    BY <1>2 DEF RefCount, vars, bufferVars
  <2> QED BY <1>t, <1>1, <1>2, <2>1
          DEF Inv, RingInv, HeaderInv, VictimUnpinned, vars, bufferVars
<1>3. CASE Next
  <2>1. PICK p \in Procs : Step(p)
    BY <1>3 DEF Next, Step
  <2>2. \A q \in Procs \ {p} : pc'[q] = pc[q] /\ buf'[q] = buf[q]
    BY <1>t, <2>1, OthersStay
  <2>3. /\ \A b \in Buffers : hdr'[b] # hdr[b] => hdr[b] \in {NoProc, p}
        /\ pc'[p] \in Holding => hdr'[buf'[p]] = p
    BY <1>t, <2>1, HeaderStep
  <2>4. RingInv'
    BY <1>t, <2>1, <2>2, RingStep DEF RingInv
  <2>5. HeaderInv'
    <3>1. \A q \in Procs \ {p} : hdr[buf[q]] = q => hdr'[buf[q]] = q
      BY <1>t, <2>3, StrategyAssumption DEF TypeInv
    <3> QED BY <1>t, <2>2, <2>3, <3>1 DEF HeaderInv
  <2>6. ASSUME NEW q \in Procs, NEW b \in Buffers, b = buf'[q], pc'[q] \in Victims
        PROVE  hdr'[b] = q /\ RefCount(b)' = 0
    <3>1. hdr'[b] = q
      BY <1>1, <2>5, <2>6 DEF HeaderInv, Holding, Victims, TypeInv
    <3>2. CASE pc[q] \in Victims /\ b = buf[q]
      <4>1. hdr[b] = q /\ RefCount(b) = 0 /\ hdr[b] # NoProc
        BY <1>t, <3>2, StrategyAssumption DEF VictimUnpinned, Victims
      <4>2. \A r \in Procs : b \in pins'[r] <=> b \in pins[r]
        BY <1>t, <2>1, <2>6, <3>1, <4>1, PinStep DEF Victims
      <4>3. {r \in Procs : b \in pins'[r]} = {r \in Procs : b \in pins[r]}
        BY <4>2
      <4> QED BY <3>1, <4>1, <4>3 DEF RefCount
    <3>3. CASE pins' = pins /\ RefCount(b) = 0
      BY <3>1, <3>3 DEF RefCount
    <3> QED BY <1>t, <2>1, <2>2, <2>6, <3>2, <3>3, VictimStep
  <2>7. VictimUnpinned'
    <3> SUFFICES ASSUME NEW q \in Procs, pc'[q] \in Victims
                 PROVE  (hdr[buf[q]] = q /\ RefCount(buf[q]) = 0)'
      BY DEF VictimUnpinned, Victims
    <3>1. buf'[q] \in Buffers
      BY <1>1 DEF TypeInv
    <3> QED BY <2>6, <3>1 DEF RefCount
  <2> QED BY <1>1, <2>4, <2>5, <2>7 DEF Inv
<1> QED BY <1>2, <1>3

(***************************************************************************)
(* The one hard requirement, for every number of backends and buffers,     *)
(* with rings, invalidations and links read twice: nobody has the buffer   *)
(* pinned that StrategyGetBuffer is about to return.                       *)
(***************************************************************************)
THEOREM VictimsAreUnpinned == Spec => []VictimUnpinned
<1>1. Inv => VictimUnpinned
  BY DEF Inv
<1> QED BY InitInv, StepInv, <1>1, PTL DEF Spec

-----------------------------------------------------------------------------
(* Single steps *)

Freeing == {"free", "delete", "delete-update"}
NothingFreed == \A p \in Procs : pc[p] \notin Freeing

(* Whoever updates the stack has its lock. *)
Updates == {"victim-update", "hit-update", "delete-update"}
LockInv ==
  /\ \A p \in Procs : pc[p] \in Updates => stackHolder = p
  /\ \A p \in Procs : stackHolder = p => pc[p] \in Updates \cup {"wild"}

LEMMA NothingFreedStep ==
  ASSUME Invalidators = {}, TypeInv, NothingFreed, NEW p \in Procs, Step(p)
  PROVE  pc'[p] \notin Freeing
<1>0. pc \in [Procs -> Labels] /\ pc[p] \notin Freeing
  BY DEF TypeInv, NothingFreed
<1> USE DEF Goto, Proceed, Finish, Freeing
<1>1. ASSUME Allocate(p) PROVE pc'[p] \notin Freeing
  BY <1>0, <1>1 DEF Allocate, RingSlotUsable, RingSlotUnusable, ProbeFreelist, PopFreelist,
     TakePopped, DiscardPopped, ScanFromTop, ScanDown, RereadNext, TakeScanned, ScanUp,
     RereadPrev, AbortOnError, Follow
<1>2. ASSUME Update(p) PROVE pc'[p] \notin Freeing
  BY <1>0, <1>2 DEF Update, AcquireStackLock, StoreLink, ReleaseStackLock, Updating
<1>3. ASSUME Manage(p) PROVE pc'[p] \notin Freeing
  BY <1>0, <1>3 DEF Manage, GetAccessStrategy, GetBuffer, PinVictim, RejectBuffer, Fill, Abandon,
     Collide, Hit, Unpin, Invalidate, FreeBuffer
<1> QED BY <1>1, <1>2, <1>3 DEF Step

LEMMA OthersLeaveStack ==
  ASSUME NEW p, Allocate(p) \/ Manage(p)
  PROVE  UNCHANGED stackVars
<1>1. ASSUME Allocate(p) PROVE UNCHANGED stackVars
  BY <1>1 DEF Allocate, RingSlotUsable, RingSlotUnusable, ProbeFreelist, PopFreelist,
     TakePopped, DiscardPopped, ScanFromTop, ScanDown, RereadNext, TakeScanned, ScanUp,
     RereadPrev, AbortOnError
<1>2. ASSUME Manage(p) PROVE UNCHANGED stackVars
  BY <1>2 DEF Manage, GetAccessStrategy, GetBuffer, PinVictim, RejectBuffer, Fill, Abandon,
     Collide, Hit, Unpin, Invalidate, FreeBuffer
<1> QED BY <1>1, <1>2

(* Only an update leads into an update or out of it. *)
LEMMA UpdateEnters ==
  ASSUME TypeInv, NEW p \in Procs, Allocate(p) \/ Manage(p), pc[p] \in Updates \/ pc'[p] \in Updates
  PROVE  pc'[p] = pc[p] /\ buf'[p] = buf[p]
<1> DEFINE Same == pc'[p] = pc[p] /\ buf'[p] = buf[p]
<1>0. pc \in [Procs -> Labels] /\ buf \in [Procs -> Buffers] /\ (pc[p] \in Updates \/ pc'[p] \in Updates)
  BY DEF TypeInv
<1> USE DEF Goto, Proceed, Finish, Updates
<1>1. ASSUME Allocate(p) PROVE Same
  BY <1>0, <1>1 DEF Allocate, RingSlotUsable, RingSlotUnusable, ProbeFreelist, PopFreelist,
     TakePopped, DiscardPopped, ScanFromTop, ScanDown, RereadNext, TakeScanned, ScanUp,
     RereadPrev, AbortOnError, Follow
<1>2. ASSUME Manage(p) PROVE Same
  BY <1>0, <1>2 DEF Manage, GetAccessStrategy, GetBuffer, PinVictim, RejectBuffer, Fill, Abandon,
     Collide, Hit, Unpin, Invalidate, FreeBuffer
<1> QED BY <1>1, <1>2

LEMMA UpdateKept ==
  ASSUME TypeInv, NEW p \in Procs, Step(p), ~AcquireStackLock(p), ~ReleaseStackLock(p),
         NEW q \in Procs, pc[q] \in Updates
  PROVE  pc'[q] = pc[q] /\ buf'[q] = buf[q]
<1>1. CASE q # p
  BY <1>1, OthersStay
<1>2. CASE StoreLink(p)
  BY <1>2 DEF StoreLink
<1>3. CASE q = p /\ (Allocate(p) \/ Manage(p))
  BY <1>3, UpdateEnters
<1> QED BY <1>1, <1>2, <1>3 DEF Step, Update

LEMMA WildStays ==
  ASSUME TypeInv, NEW p \in Procs, Step(p), pc[p] = "wild"
  PROVE  pc'[p] = "wild"
<1>0. pc \in [Procs -> Labels] /\ pc[p] = "wild"
  BY DEF TypeInv
<1> USE DEF Goto, Proceed, Finish
<1>1. CASE Allocate(p)
  BY <1>0, <1>1 DEF Allocate, RingSlotUsable, RingSlotUnusable, ProbeFreelist, PopFreelist,
     TakePopped, DiscardPopped, ScanFromTop, ScanDown, RereadNext, TakeScanned, ScanUp,
     RereadPrev, AbortOnError
<1>2. CASE Update(p)
  BY <1>0, <1>2 DEF Update, AcquireStackLock, StoreLink, ReleaseStackLock
<1>3. CASE Manage(p)
  BY <1>0, <1>3 DEF Manage, GetAccessStrategy, GetBuffer, PinVictim, RejectBuffer, Fill, Abandon,
     Collide, Hit, Unpin, Invalidate, FreeBuffer
<1> QED BY <1>1, <1>2, <1>3 DEF Step

LEMMA LockStep ==
  ASSUME TypeInv, LockInv, NEW p \in Procs, Step(p)
  PROVE  LockInv'
<1>0. /\ pc \in [Procs -> Labels] /\ p # NoProc
      /\ \A q \in Procs \ {p} : pc'[q] = pc[q]
      /\ \A q \in Procs : pc[q] \in Updates => stackHolder = q
      /\ \A q \in Procs : stackHolder = q => pc[q] \in Updates \cup {"wild"}
  BY OthersStay, StrategyAssumption DEF TypeInv, LockInv
<1> USE DEF Goto, Proceed, Finish
<1>1. CASE AcquireStackLock(p)
  <2>1. stackHolder' = p /\ \A q \in Procs : pc[q] \notin Updates
    BY <1>0, <1>1, StrategyAssumption DEF AcquireStackLock
  <2>2. pc'[p] \in Updates \cup {"wild"}
    BY <1>0, <1>1 DEF AcquireStackLock, Updating, Updates
  <2> QED BY <1>0, <2>1, <2>2 DEF LockInv, Updates
<1>2. CASE StoreLink(p)
  BY <1>0, <1>2 DEF StoreLink, LockInv
<1>3. CASE ReleaseStackLock(p)
  <2>1. stackHolder = p /\ stackHolder' = NoProc /\ pc'[p] \notin Updates
    BY <1>0, <1>3 DEF ReleaseStackLock, Updates
  <2> QED BY <1>0, <2>1, StrategyAssumption DEF LockInv
<1>4. CASE Allocate(p) \/ Manage(p)
  <2>1. stackHolder' = stackHolder
    BY <1>4, OthersLeaveStack DEF stackVars
  <2>2. pc[p] \in Updates \/ pc'[p] \in Updates => pc'[p] = pc[p]
    BY <1>4, UpdateEnters
  <2>3. pc[p] = "wild" => pc'[p] = "wild"
    BY WildStays
  <2> QED BY <1>0, <2>1, <2>2, <2>3 DEF LockInv
<1> QED BY <1>1, <1>2, <1>3, <1>4 DEF Step, Update

(* One store; what is left is stored later. *)
LEMMA FirstStore ==
  ASSUME TypeInv, NEW p, StoreLink(p)
  PROVE  /\ pending[1] \in Stores /\ stack' = Assign(stack, pending[1])
         /\ Len(pending) \in Nat \ {0} /\ Len(pending') = Len(pending) - 1
         /\ \A i \in 1 .. Len(pending') : pending'[i] = pending[i + 1]
<1>1. pending \in Seq(Stores) /\ pending # <<>>
  BY DEF TypeInv, StoreLink
<1>2. Len(pending) \in Nat \ {0} /\ 1 \in 1 .. Len(pending)
  BY <1>1, EmptySeq
<1>3. Head(pending) = pending[1] /\ pending[1] \in Stores
  BY <1>1, <1>2, ElementOfSeq
<1> QED BY <1>1, <1>2, <1>3, HeadTailProperties DEF StoreLink

LEMMA NobodyPins ==
  ASSUME NEW b, \A q \in Procs : b \notin pins[q]
  PROVE  RefCount(b) = 0
<1>1. {q \in Procs : b \in pins[q]} = {}
  OBVIOUS
<1> QED BY <1>1, FS_EmptySet DEF RefCount
-----------------------------------------------------------------------------
(* The freelist *)

(* A chain grows at its head and loses its head. *)
LEMMA ChainPop ==
  ASSUME TypeInv, NEW n \in 0 .. NBuffers, NEW chain \in [1 .. n -> Buffers], ChainOf(n, chain),
         OnList(firstFree), lastFree' = lastFree,
         firstFree' = freeNext[firstFree],
         freeNext' = [freeNext EXCEPT ![firstFree] = FREENEXT_NOT_IN_LIST]
  PROVE  FreelistIsChain'
<1>1. n > 0 /\ firstFree = chain[1] /\ n \in Nat
  BY NBuffersAssumption DEF ChainOf, OnList, EndOfList
<1> DEFINE rest == [i \in 1 .. n - 1 |-> chain[i + 1]]
<1>2. n - 1 \in 0 .. NBuffers /\ rest \in [1 .. n - 1 -> Buffers]
  BY <1>1, NBuffersAssumption
<1>3. /\ freeNext \in [Buffers -> FreeLinks] /\ Buffers \subseteq Nat
      /\ freeNext' = [b \in Buffers |-> IF b = chain[1] THEN FREENEXT_NOT_IN_LIST ELSE freeNext[b]]
  BY <1>1, BufferZero DEF TypeInv
<1>4. /\ \A i, j \in 1 .. n : chain[i] = chain[j] => i = j
      /\ Listed = {chain[i] : i \in 1 .. n}
      /\ \A i \in 1 .. n : freeNext[chain[i]] = IF i = n THEN EndOfList ELSE chain[i + 1]
      /\ chain[n] = lastFree
  BY <1>1 DEF ChainOf
<1>5. \A i \in 1 .. n - 1 : i + 1 \in 1 .. n /\ rest[i] = chain[i + 1] /\ rest[i] # chain[1]
  BY <1>1, <1>4
<1>6. \A i, j \in 1 .. n - 1 : rest[i] = rest[j] => i = j
  BY <1>1, <1>4, <1>5
<1>7. Listed' = {rest[i] : i \in 1 .. n - 1}
  <2>1. Listed' = Listed \ {chain[1]}
    BY <1>3 DEF Listed
  <2>2. ASSUME NEW i \in 1 .. n, chain[i] # chain[1] PROVE i - 1 \in 1 .. n - 1 /\ chain[i] = rest[i - 1]
    BY <1>1, <2>2
  <2> HIDE DEF rest
  <2> QED BY <1>4, <1>5, <2>1, <2>2
<1>8. firstFree' = IF n - 1 = 0 THEN EndOfList ELSE rest[1]
  BY <1>1, <1>4
<1>9. \A i \in 1 .. n - 1 : freeNext'[rest[i]] = IF i = n - 1 THEN EndOfList ELSE rest[i + 1]
  BY <1>1, <1>2, <1>3, <1>4, <1>5
<1>10. n - 1 > 0 => rest[n - 1] = lastFree'
  BY <1>1, <1>4
<1> HIDE DEF rest
<1>11. ChainOf(n - 1, rest)'
  BY <1>6, <1>7, <1>8, <1>9, <1>10 DEF ChainOf
<1> QED BY <1>2, <1>11 DEF FreelistIsChain, Buffers

LEMMA ChainPush ==
  ASSUME TypeInv, NEW n \in 0 .. NBuffers, NEW chain \in [1 .. n -> Buffers], ChainOf(n, chain),
         NEW b \in Buffers, freeNext[b] = FREENEXT_NOT_IN_LIST,
         lastFree' = NewTail(b), firstFree' = b, freeNext' = [freeNext EXCEPT ![b] = firstFree]
  PROVE  FreelistIsChain'
<1> DEFINE more == [i \in 1 .. n + 1 |-> IF i = 1 THEN b ELSE chain[i - 1]]
<1>1. /\ n \in Nat /\ more \in [1 .. n + 1 -> Buffers]
      /\ more[1] = b /\ \A i \in 1 .. n : i + 1 \in 1 .. n + 1 /\ more[i + 1] = chain[i]
      /\ \A i \in 1 .. n + 1 : i # 1 => i - 1 \in 1 .. n /\ more[i] = chain[i - 1]
  BY NBuffersAssumption
<1>2. /\ freeNext \in [Buffers -> FreeLinks] /\ Buffers \subseteq Nat
      /\ freeNext' = [c \in Buffers |-> IF c = b THEN firstFree ELSE freeNext[c]]
  BY BufferZero DEF TypeInv
<1>3. /\ \A i, j \in 1 .. n : chain[i] = chain[j] => i = j
      /\ Listed = {chain[i] : i \in 1 .. n}
      /\ firstFree = IF n = 0 THEN EndOfList ELSE chain[1]
      /\ \A i \in 1 .. n : freeNext[chain[i]] = IF i = n THEN EndOfList ELSE chain[i + 1]
      /\ n > 0 => chain[n] = lastFree
  BY DEF ChainOf
<1>4. \A i \in 1 .. n : chain[i] # b
  BY <1>3 DEF Listed
<1> HIDE DEF more
<1>5. \A i, j \in 1 .. n + 1 : more[i] = more[j] => i = j
  BY <1>1, <1>3, <1>4
<1>6. firstFree # FREENEXT_NOT_IN_LIST
  BY <1>1, <1>2, <1>3 DEF EndOfList, FREENEXT_NOT_IN_LIST
<1>7. Listed' = {more[i] : i \in 1 .. n + 1}
  <2>1. Listed' = Listed \cup {b}
    BY <1>2, <1>6 DEF Listed
  <2> QED BY <1>1, <1>3, <2>1
<1>8. firstFree' = IF n + 1 = 0 THEN EndOfList ELSE more[1]
  BY <1>1
<1>9. \A i \in 1 .. n + 1 : freeNext'[more[i]] = IF i = n + 1 THEN EndOfList ELSE more[i + 1]
  <2>1. freeNext'[more[1]] = IF 1 = n + 1 THEN EndOfList ELSE more[2]
    BY <1>1, <1>2, <1>3
  <2>2. ASSUME NEW i \in 1 .. n PROVE freeNext'[more[i + 1]] = IF i = n THEN EndOfList ELSE more[i + 2]
    <3>1. freeNext'[more[i + 1]] = freeNext[chain[i]]
      BY <1>1, <1>2, <1>4
    <3>2. i # n => i + 1 \in 1 .. n
      BY <1>1
    <3> QED BY <1>1, <1>3, <3>1, <3>2
  <2>3. ASSUME NEW i \in 1 .. n + 1, i # 1
        PROVE  freeNext'[more[i]] = IF i = n + 1 THEN EndOfList ELSE more[i + 1]
    <3>1. i - 1 \in 1 .. n /\ (i - 1) + 1 = i /\ (i - 1) + 2 = i + 1 /\ (i - 1 = n <=> i = n + 1)
      BY <1>1, <2>3
    <3> QED BY <2>2, <3>1
  <2> QED BY <2>1, <2>3
<1>10. n + 1 > 0 => more[n + 1] = lastFree'
  BY <1>1, <1>2, <1>3 DEF NewTail, OnList, EndOfList
<1>11. n + 1 \in 0 .. NBuffers
  <2>1. Buffers = 0 .. NBuffers - 1
    BY DEF Buffers
  <2>2. IsFiniteSet(Buffers) /\ Cardinality(Buffers) = NBuffers
    BY <2>1, FS_Interval, NBuffersAssumption
  <2>3. IsFiniteSet(1 .. n + 1) /\ Cardinality(1 .. n + 1) = n + 1
    BY <1>1, FS_Interval
  <2>4. ~(NBuffers < n + 1)
    BY <1>1, <1>5, <2>2, <2>3, FS_PigeonHole
  <2> QED BY <1>1, <2>4, NBuffersAssumption
<1>12. ChainOf(n + 1, more)'
  BY <1>5, <1>7, <1>8, <1>9, <1>10 DEF ChainOf
<1> QED BY <1>1, <1>11, <1>12 DEF FreelistIsChain, Buffers

LEMMA HeadOfChain ==
  ASSUME FreelistIsChain
  PROVE  /\ firstFree \in Buffers \cup {EndOfList} /\ firstFree # FREENEXT_NOT_IN_LIST
         /\ ~OnList(firstFree) => firstFree = EndOfList
         /\ firstFree = EndOfList => Listed = {}
<1>1. PICK n \in 0 .. NBuffers : \E chain \in [1 .. n -> Buffers] : ChainOf(n, chain)
  BY DEF FreelistIsChain
<1>2. PICK chain \in [1 .. n -> Buffers] : ChainOf(n, chain)
  BY <1>1
<1>3. firstFree = IF n = 0 THEN EndOfList ELSE chain[1]
  BY <1>2 DEF ChainOf
<1>4. n = 0 => Listed = {}
  BY <1>2 DEF ChainOf
<1>5. n # 0 => chain[1] \in Buffers
  BY NBuffersAssumption
<1> QED BY <1>3, <1>4, <1>5 DEF OnList, EndOfList, FREENEXT_NOT_IN_LIST, Buffers

LEMMA FreelistUnchanged ==
  ASSUME NEW p \in Procs, Step(p), ~PopFreelist(p), ~FreeBuffer(p)
  PROVE  UNCHANGED freelistVars
<1>1. ASSUME Allocate(p), ~PopFreelist(p) PROVE UNCHANGED freelistVars
  BY <1>1 DEF Allocate, RingSlotUsable, RingSlotUnusable, ProbeFreelist, TakePopped, DiscardPopped,
     ScanFromTop, ScanDown, RereadNext, TakeScanned, ScanUp, RereadPrev, AbortOnError
<1>2. ASSUME Update(p) PROVE UNCHANGED freelistVars
  BY <1>2 DEF Update, AcquireStackLock, StoreLink, ReleaseStackLock
<1>3. ASSUME Manage(p), ~FreeBuffer(p) PROVE UNCHANGED freelistVars
  BY <1>3 DEF Manage, GetAccessStrategy, GetBuffer, PinVictim, RejectBuffer, Fill, Abandon,
     Collide, Hit, Unpin, Invalidate
<1> QED BY <1>1, <1>2, <1>3 DEF Step

LEMMA ChainStep ==
  ASSUME TypeInv, FreelistIsChain, NEW p \in Procs, Step(p)
  PROVE  FreelistIsChain'
<1>a. PICK n \in 0 .. NBuffers : \E chain \in [1 .. n -> Buffers] : ChainOf(n, chain)
  BY DEF FreelistIsChain
<1>0. PICK chain \in [1 .. n -> Buffers] : ChainOf(n, chain)
  BY <1>a
<1>1. ASSUME UNCHANGED freelistVars PROVE FreelistIsChain'
  <2>1. ChainOf(n, chain)' /\ Buffers' = Buffers
    BY <1>0, <1>1 DEF ChainOf, Listed, freelistVars, Buffers
  <2> QED BY <1>1, <2>1 DEF FreelistIsChain
<1>2. CASE PopFreelist(p)
  BY <1>0, <1>1, <1>2, ChainPop DEF PopFreelist
<1>3. CASE FreeBuffer(p)
  <2>1. buf[p] \in Buffers
    BY DEF TypeInv
  <2> QED BY <1>0, <1>1, <1>3, <2>1, ChainPush DEF FreeBuffer
<1> QED BY <1>1, <1>2, <1>3, FreelistUnchanged

LEMMA AllListed == ASSUME Init PROVE Listed = Buffers
<1>1. \A b \in Buffers : freeNext[b] = IF b = NBuffers - 1 THEN EndOfList ELSE b + 1
  BY DEF Init
<1>2. \A b \in Buffers : freeNext[b] # FREENEXT_NOT_IN_LIST
  BY <1>1, NBuffersAssumption DEF EndOfList, FREENEXT_NOT_IN_LIST, Buffers
<1> QED BY <1>2 DEF Listed

LEMMA ChainInit == Init => FreelistIsChain
<1> SUFFICES ASSUME Init PROVE FreelistIsChain
  OBVIOUS
<1> DEFINE all == [i \in 1 .. NBuffers |-> i - 1]
<1>1. NBuffers \in 0 .. NBuffers /\ NBuffers > 0 /\ all \in [1 .. NBuffers -> Buffers]
  BY NBuffersAssumption DEF Buffers
<1>2. Listed = Buffers
  BY AllListed
<1>3. Buffers = {all[i] : i \in 1 .. NBuffers}
  <2>1. \A b \in Buffers : b + 1 \in 1 .. NBuffers /\ all[b + 1] = b
    BY NBuffersAssumption DEF Buffers
  <2> HIDE DEF all
  <2> QED BY <1>1, <2>1
<1>4. \A i \in 1 .. NBuffers : freeNext[all[i]] = IF i = NBuffers THEN EndOfList ELSE all[i + 1]
  BY <1>1, NBuffersAssumption DEF Init
<1>5. ChainOf(NBuffers, all)
  <2>1. firstFree = all[1] /\ all[NBuffers] = lastFree
    BY <1>1, NBuffersAssumption DEF Init
  <2>2. \A i, j \in 1 .. NBuffers : all[i] = all[j] => i = j
    BY NBuffersAssumption
  <2> HIDE DEF all
  <2> QED BY <1>1, <1>2, <1>3, <1>4, <2>1, <2>2 DEF ChainOf
<1> QED BY <1>1, <1>5 DEF FreelistIsChain

(***************************************************************************)
(* The freelist is one chain through every interleaving of pops and frees, *)
(* for every number of buffers: buffer_strategy_lock is held around each   *)
(* of them, and a buffer is freed only if it is in no list.                *)
(***************************************************************************)
THEOREM FreelistCorrect == Spec => []FreelistIsChain
<1>1. Inv /\ FreelistIsChain /\ [Next]_vars => FreelistIsChain'
  <2> SUFFICES ASSUME Inv, FreelistIsChain, [Next]_vars PROVE FreelistIsChain'
    OBVIOUS
  <2>1. CASE Next
    BY <2>1, ChainStep DEF Next, Step, Inv
  <2>2. CASE UNCHANGED vars
    BY <2>2 DEF vars, freelistVars, FreelistIsChain, ChainOf, Listed, Buffers
  <2> QED BY <2>1, <2>2
<1> QED BY InitInv, ChainInit, StepInv, <1>1, PTL DEF Spec

-----------------------------------------------------------------------------
(* The stores as they are read one by one and as they settle *)

(* What a sequence of stores leaves in a place of the stack. *)
Is(st, f, a, v) == st.field = f /\ st.at = a /\ st.value = v
Stored(s, f, a, v) == \E i \in 1 .. Len(s) : Is(s[i], f, a, v)

LEMMA AwaitedStored ==
  ASSUME NEW S, NEW s \in Seq(S), NEW f, NEW a, NEW v
  PROVE  v \in Awaited(s, f, a) <=> Stored(s, f, a, v)
<1>1. DOMAIN s = 1 .. Len(s)
  BY LenProperties
<1> QED BY <1>1 DEF Awaited, Stored, Is

LEMMA SettledAs ==
  ASSUME NEW S, NEW s \in Seq(S), NEW f, NEW a, NEW now
  PROVE  /\ (\A v : ~Stored(s, f, a, v)) => Settled(s, f, a, now) = now
         /\ \A w : Stored(s, f, a, w) /\ (\A v : Stored(s, f, a, v) => v = w) => Settled(s, f, a, now) = w
BY AwaitedStored DEF Settled

LEMMA ConcatStored ==
  ASSUME NEW S, NEW s \in Seq(S), NEW t \in Seq(S), NEW f, NEW a, NEW v
  PROVE  Stored(s \o t, f, a, v) <=> Stored(s, f, a, v) \/ Stored(t, f, a, v)
<1>1. Len(s) \in Nat /\ Len(t) \in Nat /\ Len(s \o t) = Len(s) + Len(t)
  BY LenProperties, ConcatProperties
<1>2. \A i \in 1 .. Len(s) + Len(t) : (s \o t)[i] = IF i <= Len(s) THEN s[i] ELSE t[i - Len(s)]
  BY ConcatProperties
<1>3. ASSUME NEW i \in 1 .. Len(s \o t), Is((s \o t)[i], f, a, v)
      PROVE  Stored(s, f, a, v) \/ Stored(t, f, a, v)
  <2>1. CASE i <= Len(s)
    BY <1>1, <1>2, <1>3, <2>1 DEF Stored
  <2>2. CASE i > Len(s)
    <3>1. i - Len(s) \in 1 .. Len(t) /\ (s \o t)[i] = t[i - Len(s)]
      BY <1>1, <1>2, <2>2
    <3> QED BY <1>3, <3>1 DEF Stored
  <2> QED BY <1>1, <2>1, <2>2
<1>4. ASSUME NEW i \in 1 .. Len(s), Is(s[i], f, a, v)
      PROVE  Stored(s \o t, f, a, v)
  <2>1. i \in 1 .. Len(s \o t) /\ (s \o t)[i] = s[i]
    BY <1>1, <1>2
  <2> QED BY <1>4, <2>1 DEF Stored
<1>5. ASSUME NEW i \in 1 .. Len(t), Is(t[i], f, a, v)
      PROVE  Stored(s \o t, f, a, v)
  <2>1. Len(s) + i \in 1 .. Len(s \o t) /\ (s \o t)[Len(s) + i] = t[i]
    BY <1>1, <1>2
  <2> QED BY <1>5, <2>1 DEF Stored
<1> QED BY <1>3, <1>4, <1>5 DEF Stored

LEMMA ShortStored ==
  ASSUME NEW f, NEW a, NEW v
  PROVE  /\ ~Stored(<<>>, f, a, v)
         /\ \A x : Stored(<<x>>, f, a, v) <=> Is(x, f, a, v)
         /\ \A x, y : Stored(<<x, y>>, f, a, v) <=> Is(x, f, a, v) \/ Is(y, f, a, v)
         /\ \A x, y, z : Stored(<<x, y, z>>, f, a, v) <=> Is(x, f, a, v) \/ Is(y, f, a, v) \/ Is(z, f, a, v)
         /\ \A x, y, z, w : Stored(<<x, y, z, w>>, f, a, v) <=>
              Is(x, f, a, v) \/ Is(y, f, a, v) \/ Is(z, f, a, v) \/ Is(w, f, a, v)
<1> USE DEF Stored
<1>1. ~Stored(<<>>, f, a, v)
  OBVIOUS
<1>2. ASSUME NEW x PROVE Stored(<<x>>, f, a, v) <=> Is(x, f, a, v)
  <2>1. Len(<<x>>) = 1 /\ <<x>>[1] = x
    OBVIOUS
  <2> QED BY <2>1
<1>3. ASSUME NEW x, NEW y PROVE Stored(<<x, y>>, f, a, v) <=> Is(x, f, a, v) \/ Is(y, f, a, v)
  <2> DEFINE s == <<x, y>>
  <2>1. Len(s) = 2 /\ s[1] = x /\ s[2] = y
    OBVIOUS
  <2> HIDE DEF s
  <2>2. Stored(s, f, a, v) <=> Is(x, f, a, v) \/ Is(y, f, a, v)
    BY <2>1
  <2> QED BY <2>2 DEF s
<1>4. ASSUME NEW x, NEW y, NEW z
      PROVE  Stored(<<x, y, z>>, f, a, v) <=> Is(x, f, a, v) \/ Is(y, f, a, v) \/ Is(z, f, a, v)
  <2> DEFINE s == <<x, y, z>>
  <2>1. Len(s) = 3 /\ s[1] = x /\ s[2] = y /\ s[3] = z
    OBVIOUS
  <2> HIDE DEF s
  <2>2. Stored(s, f, a, v) <=> Is(x, f, a, v) \/ Is(y, f, a, v) \/ Is(z, f, a, v)
    BY <2>1
  <2> QED BY <2>2 DEF s
<1>5. ASSUME NEW x, NEW y, NEW z, NEW w
      PROVE  Stored(<<x, y, z, w>>, f, a, v) <=>
               Is(x, f, a, v) \/ Is(y, f, a, v) \/ Is(z, f, a, v) \/ Is(w, f, a, v)
  <2> DEFINE s == <<x, y, z, w>>
  <2>1. Len(s) = 4 /\ s[1] = x /\ s[2] = y /\ s[3] = z /\ s[4] = w
    OBVIOUS
  <2> HIDE DEF s
  <2>2. Stored(s, f, a, v) <=> Is(x, f, a, v) \/ Is(y, f, a, v) \/ Is(z, f, a, v) \/ Is(w, f, a, v)
    BY <2>1
  <2> QED BY <2>2 DEF s
<1> QED BY <1>1, <1>2, <1>3, <1>4, <1>5

LEMMA IsStore ==
  /\ \A f1, a1, v1, f, a, v : Is(Store(f1, a1, v1), f, a, v) <=> f = f1 /\ a = a1 /\ v = v1
  /\ \A v1, f, a, v : Is(SetTop(v1), f, a, v) <=> f = "top" /\ a = 0 /\ v = v1
BY DEF Is, Store, SetTop

LEMMA PushStored ==
  ASSUME TypeInv, NEW b \in Buffers, NEW f, NEW a, NEW v
  PROVE  Stored(PushStores(b), f, a, v) <=>
           \/ f = "isFree" /\ a = b /\ v = FALSE
           \/ f = "next" /\ a = b /\ v = stack.top
           \/ f = "prev" /\ a = b /\ v = NOT_IN_STACK
           \/ f = "prev" /\ a = stack.top /\ v = b /\ stack.top # NOT_IN_STACK
           \/ f = "top" /\ a = 0 /\ v = b
<1> DEFINE free == Store("isFree", b, FALSE)  next == Store("next", b, stack.top)
           none == Store("prev", b, NOT_IN_STACK)  back == Store("prev", stack.top, b)
           top == SetTop(b)
<1>1. /\ free \in RawStores /\ next \in RawStores /\ none \in RawStores /\ back \in RawStores
      /\ top \in RawStores
  <2>1. stack.top \in BufferOrNone /\ b \in BufferOrNone /\ NOT_IN_STACK \in BufferOrNone
    BY DEF TypeInv, Links, BufferOrNone
  <2> QED BY <2>1, StoreTypes
<1>2. /\ Is(free, f, a, v) <=> f = "isFree" /\ a = b /\ v = FALSE
      /\ Is(next, f, a, v) <=> f = "next" /\ a = b /\ v = stack.top
      /\ Is(none, f, a, v) <=> f = "prev" /\ a = b /\ v = NOT_IN_STACK
      /\ Is(back, f, a, v) <=> f = "prev" /\ a = stack.top /\ v = b
      /\ Is(top, f, a, v) <=> f = "top" /\ a = 0 /\ v = b
  BY DEF Is, Store, SetTop
<1>3. CASE stack.top = NOT_IN_STACK
  <2> DEFINE mark == <<free>>  rest == <<top, next, none>>
  <2>1. PushStores(b) = mark \o rest
    BY <1>3 DEF PushStores, Marked
  <2> HIDE DEF free, next, none, back, top
  <2>2. mark \in Seq(RawStores) /\ rest \in Seq(RawStores)
    BY <1>1, ShortSeqs
  <2>3. Stored(mark, f, a, v) <=> Is(free, f, a, v)
    BY ShortStored
  <2>4. Stored(rest, f, a, v) <=> Is(top, f, a, v) \/ Is(next, f, a, v) \/ Is(none, f, a, v)
    BY ShortStored
  <2> HIDE DEF mark, rest
  <2>5. Stored(PushStores(b), f, a, v) <=> Stored(mark, f, a, v) \/ Stored(rest, f, a, v)
    BY <2>1, <2>2, ConcatStored
  <2> QED BY <1>2, <1>3, <2>3, <2>4, <2>5
<1>4. CASE stack.top # NOT_IN_STACK
  <2> DEFINE mark == <<free>>  rest == <<back, next, none, top>>
  <2>1. PushStores(b) = mark \o rest
    BY <1>4 DEF PushStores, Marked
  <2> HIDE DEF free, next, none, back, top
  <2>2. mark \in Seq(RawStores) /\ rest \in Seq(RawStores)
    BY <1>1, ShortSeqs
  <2>3. Stored(mark, f, a, v) <=> Is(free, f, a, v)
    BY ShortStored
  <2>4. Stored(rest, f, a, v) <=> Is(back, f, a, v) \/ Is(next, f, a, v) \/ Is(none, f, a, v) \/ Is(top, f, a, v)
    BY ShortStored
  <2> HIDE DEF mark, rest
  <2>5. Stored(PushStores(b), f, a, v) <=> Stored(mark, f, a, v) \/ Stored(rest, f, a, v)
    BY <2>1, <2>2, ConcatStored
  <2> QED BY <1>2, <1>4, <2>3, <2>4, <2>5
<1> QED BY <1>3, <1>4

LEMMA UnlinkStored ==
  ASSUME NEW above \in BufferOrNone, NEW under \in BufferOrNone, NEW f, NEW a, NEW v
  PROVE  /\ Unlink(above, under) \in Seq(RawStores)
         /\ Stored(Unlink(above, under), f, a, v) <=>
              \/ f = "next" /\ a = above /\ v = under
              \/ f = "prev" /\ a = under /\ v = above /\ under # NOT_IN_STACK
<1> DEFINE next == Store("next", above, under)  back == Store("prev", under, above)
<1>1. next \in RawStores /\ back \in RawStores
  BY StoreTypes
<1>2. /\ Is(next, f, a, v) <=> f = "next" /\ a = above /\ v = under
      /\ Is(back, f, a, v) <=> f = "prev" /\ a = under /\ v = above
  BY IsStore
<1>3. Unlink(above, under) = IF under = NOT_IN_STACK THEN <<next>> ELSE <<next, back>>
  BY DEF Unlink
<1> HIDE DEF next, back
<1>4. <<next>> \in Seq(RawStores) /\ <<next, back>> \in Seq(RawStores)
  BY <1>1, ShortSeqs
<1>5. Stored(<<next>>, f, a, v) <=> Is(next, f, a, v)
  BY ShortStored
<1>6. Stored(<<next, back>>, f, a, v) <=> Is(next, f, a, v) \/ Is(back, f, a, v)
  BY ShortStored
<1> QED BY <1>2, <1>3, <1>4, <1>5, <1>6

LEMMA MoveStored ==
  ASSUME TypeInv, NEW b \in Buffers, b # stack.top, NEW f, NEW a, NEW v
  PROVE  Stored(MoveStores(b), f, a, v) <=>
           \/ f = "next" /\ a = stack.prev[b] /\ v = stack.next[b]
           \/ f = "prev" /\ a = stack.next[b] /\ v = stack.prev[b] /\ stack.next[b] # NOT_IN_STACK
           \/ f = "prev" /\ a = stack.top /\ v = b
           \/ f = "prev" /\ a = b /\ v = NOT_IN_STACK
           \/ f = "next" /\ a = b /\ v = stack.top
           \/ f = "top" /\ a = 0 /\ v = b
<1> DEFINE next == Store("next", b, stack.top)  none == Store("prev", b, NOT_IN_STACK)
           back == Store("prev", stack.top, b)  top == SetTop(b)
           gap == Unlink(stack.prev[b], stack.next[b])  rest == <<back, none, next, top>>
<1>0. /\ stack.top \in BufferOrNone /\ b \in BufferOrNone /\ NOT_IN_STACK \in BufferOrNone
      /\ stack.next[b] \in BufferOrNone /\ stack.prev[b] \in BufferOrNone
  BY DEF TypeInv, Links, BufferOrNone
<1>1. next \in RawStores /\ none \in RawStores /\ back \in RawStores /\ top \in RawStores
  BY <1>0, StoreTypes
<1>2. /\ Is(next, f, a, v) <=> f = "next" /\ a = b /\ v = stack.top
      /\ Is(none, f, a, v) <=> f = "prev" /\ a = b /\ v = NOT_IN_STACK
      /\ Is(back, f, a, v) <=> f = "prev" /\ a = stack.top /\ v = b
      /\ Is(top, f, a, v) <=> f = "top" /\ a = 0 /\ v = b
  BY IsStore
<1>3. MoveStores(b) = gap \o rest
  BY DEF MoveStores
<1>4. /\ gap \in Seq(RawStores)
      /\ Stored(gap, f, a, v) <=>
           \/ f = "next" /\ a = stack.prev[b] /\ v = stack.next[b]
           \/ f = "prev" /\ a = stack.next[b] /\ v = stack.prev[b] /\ stack.next[b] # NOT_IN_STACK
  BY <1>0, UnlinkStored
<1> HIDE DEF next, none, back, top, gap
<1>5. rest \in Seq(RawStores)
  BY <1>1, ShortSeqs
<1>6. Stored(rest, f, a, v) <=> Is(back, f, a, v) \/ Is(none, f, a, v) \/ Is(next, f, a, v) \/ Is(top, f, a, v)
  BY ShortStored
<1> HIDE DEF rest
<1>7. Stored(MoveStores(b), f, a, v) <=> Stored(gap, f, a, v) \/ Stored(rest, f, a, v)
  BY <1>3, <1>4, <1>5, ConcatStored
<1> QED BY <1>2, <1>4, <1>6, <1>7

LEMMA DeleteStored ==
  ASSUME TypeInv, NEW b \in Buffers, NEW f, NEW a, NEW v
  PROVE  /\ stack.next[b] = NOT_IN_STACK /\ stack.prev[b] = NOT_IN_STACK =>
              (Stored(DeleteStores(b), f, a, v) <=>
                 \/ f = "isFree" /\ a = b /\ v = TRUE
                 \/ f = "top" /\ a = 0 /\ v = NOT_IN_STACK)
         /\ ~(stack.next[b] = NOT_IN_STACK /\ stack.prev[b] = NOT_IN_STACK) =>
              (Stored(DeleteStores(b), f, a, v) <=>
                 \/ b = stack.top /\ f = "top" /\ a = 0 /\ v = stack.next[b]
                 \/ b = stack.top /\ f = "prev" /\ a = stack.next[b] /\ v = NOT_IN_STACK
                 \/ b # stack.top /\ f = "next" /\ a = stack.prev[b] /\ v = stack.next[b]
                 \/ b # stack.top /\ f = "prev" /\ a = stack.next[b] /\ v = stack.prev[b] /\ stack.next[b] # NOT_IN_STACK
                 \/ f = "next" /\ a = b /\ v = NOT_IN_STACK
                 \/ f = "prev" /\ a = b /\ v = NOT_IN_STACK
                 \/ f = "isFree" /\ a = b /\ v = TRUE)
<1> DEFINE next == Store("next", b, NOT_IN_STACK)  prev == Store("prev", b, NOT_IN_STACK)
           free == Store("isFree", b, TRUE)  top == SetTop(stack.next[b])  none == SetTop(NOT_IN_STACK)
           back == Store("prev", stack.next[b], NOT_IN_STACK)
           only == <<free, none>>  rest == <<next, prev, free>>  lift == <<top, back>>
           gap == Unlink(stack.prev[b], stack.next[b])
<1>0. /\ b \in BufferOrNone /\ NOT_IN_STACK \in BufferOrNone
      /\ stack.next[b] \in BufferOrNone /\ stack.prev[b] \in BufferOrNone
  BY DEF TypeInv, Links, BufferOrNone
<1>1. /\ next \in RawStores /\ prev \in RawStores /\ free \in RawStores /\ top \in RawStores
      /\ none \in RawStores /\ back \in RawStores
  BY <1>0, StoreTypes
<1>2. /\ Is(next, f, a, v) <=> f = "next" /\ a = b /\ v = NOT_IN_STACK
      /\ Is(prev, f, a, v) <=> f = "prev" /\ a = b /\ v = NOT_IN_STACK
      /\ Is(back, f, a, v) <=> f = "prev" /\ a = stack.next[b] /\ v = NOT_IN_STACK
      /\ Is(free, f, a, v) <=> f = "isFree" /\ a = b /\ v = TRUE
      /\ Is(top, f, a, v) <=> f = "top" /\ a = 0 /\ v = stack.next[b]
      /\ Is(none, f, a, v) <=> f = "top" /\ a = 0 /\ v = NOT_IN_STACK
  BY DEF Is, Store, SetTop
<1>3. DeleteStores(b) = IF stack.next[b] = NOT_IN_STACK /\ stack.prev[b] = NOT_IN_STACK
                        THEN only ELSE (IF b = stack.top THEN lift ELSE gap) \o rest
  BY DEF DeleteStores
<1>4. /\ gap \in Seq(RawStores)
      /\ Stored(gap, f, a, v) <=>
           \/ f = "next" /\ a = stack.prev[b] /\ v = stack.next[b]
           \/ f = "prev" /\ a = stack.next[b] /\ v = stack.prev[b] /\ stack.next[b] # NOT_IN_STACK
  BY <1>0, UnlinkStored
<1> HIDE DEF next, prev, free, top, none, back, gap
<1>5. rest \in Seq(RawStores) /\ lift \in Seq(RawStores)
  BY <1>1, ShortSeqs
<1>6. Stored(only, f, a, v) <=> Is(free, f, a, v) \/ Is(none, f, a, v)
  BY ShortStored
<1>7. Stored(rest, f, a, v) <=> Is(next, f, a, v) \/ Is(prev, f, a, v) \/ Is(free, f, a, v)
  BY ShortStored
<1>8. Stored(lift, f, a, v) <=> Is(top, f, a, v) \/ Is(back, f, a, v)
  BY ShortStored
<1> HIDE DEF only, rest, lift
<1>9. /\ Stored(lift \o rest, f, a, v) <=> Stored(lift, f, a, v) \/ Stored(rest, f, a, v)
      /\ Stored(gap \o rest, f, a, v) <=> Stored(gap, f, a, v) \/ Stored(rest, f, a, v)
  BY <1>4, <1>5, ConcatStored
<1> QED BY <1>2, <1>3, <1>4, <1>6, <1>7, <1>8, <1>9

(* No place is stored to twice with different values. *)
Consistent ==
  \A i, j \in 1 .. Len(pending) :
    pending[i].field = pending[j].field /\ pending[i].at = pending[j].at => pending[i].value = pending[j].value

(* A store changes its place to what was settled there. *)
LEMMA StoreSettles ==
  ASSUME TypeInv, Consistent, NEW p \in Procs, StoreLink(p),
         NEW f, NEW a, NEW now, NEW then,
         then = IF pending[1].field = f /\ pending[1].at = a THEN pending[1].value ELSE now
  PROVE  Settled(pending', f, a, then) = Settled(pending, f, a, now)
<1>1. pending \in Seq(Stores) /\ pending' \in Seq(Stores)
  <2>1. Tail(pending) \in Seq(Stores)
    BY HeadTailProperties DEF TypeInv, StoreLink
  <2> QED BY <2>1 DEF TypeInv, StoreLink
<1>2. /\ Len(pending) \in Nat \ {0} /\ Len(pending') = Len(pending) - 1
      /\ \A i \in 1 .. Len(pending') : pending'[i] = pending[i + 1]
  BY FirstStore
<1>3. \A v : Stored(pending', f, a, v) => Stored(pending, f, a, v)
  BY <1>2 DEF Stored
<1>4. \A v, w : Stored(pending, f, a, v) /\ Stored(pending, f, a, w) => v = w
  BY DEF Stored, Is, Consistent
<1>5. CASE pending[1].field = f /\ pending[1].at = a
  <2>1. Stored(pending, f, a, pending[1].value)
    BY <1>2, <1>5 DEF Stored, Is
  <2>2. Settled(pending, f, a, now) = pending[1].value
    BY <1>1, <1>4, <2>1, SettledAs
  <2>3. \A v : Stored(pending', f, a, v) => v = pending[1].value
    BY <1>3, <1>4, <2>1
  <2>4. Settled(pending', f, a, then) = pending[1].value
    <3>1. CASE \E v : Stored(pending', f, a, v)
      <4>1. Stored(pending', f, a, pending[1].value)
        BY <2>3, <3>1
      <4> QED BY <1>1, <2>3, <4>1, SettledAs
    <3>2. CASE \A v : ~Stored(pending', f, a, v)
      BY <1>1, <1>5, <3>2, SettledAs
    <3> QED BY <3>1, <3>2
  <2> QED BY <2>2, <2>4
<1>6. CASE ~(pending[1].field = f /\ pending[1].at = a)
  <2>1. ASSUME NEW v, Stored(pending, f, a, v) PROVE Stored(pending', f, a, v)
    <3>1. PICK i \in 1 .. Len(pending) : Is(pending[i], f, a, v)
      BY <2>1 DEF Stored
    <3>2. i # 1 /\ i - 1 \in 1 .. Len(pending') /\ pending'[i - 1] = pending[i]
      BY <1>2, <1>6, <3>1 DEF Is
    <3> QED BY <3>1, <3>2 DEF Stored
  <2>2. Awaited(pending', f, a) = Awaited(pending, f, a)
    <3>1. \A v : v \in Awaited(pending', f, a) <=> Stored(pending', f, a, v)
      BY <1>1, AwaitedStored
    <3>2. \A v : v \in Awaited(pending, f, a) <=> Stored(pending, f, a, v)
      BY <1>1, AwaitedStored
    <3> QED BY <1>3, <2>1, <3>1, <3>2
  <2> QED BY <1>6, <2>2 DEF Settled
<1> QED BY <1>5, <1>6

LEMMA AssignPlaces ==
  ASSUME stack \in Links, NEW st \in Stores, NEW s, s = Assign(stack, st)
  PROVE  /\ \A b \in Buffers :
              /\ s.next[b] = IF st.field = "next" /\ st.at = b THEN st.value ELSE stack.next[b]
              /\ s.prev[b] = IF st.field = "prev" /\ st.at = b THEN st.value ELSE stack.prev[b]
              /\ s.isFree[b] = IF st.field = "isFree" /\ st.at = b THEN st.value ELSE stack.isFree[b]
         /\ s.top = IF st.field = "top" /\ st.at = 0 THEN st.value ELSE stack.top
<1>1. CASE st.field \in {"next", "prev"}
  BY <1>1 DEF Assign, Links, Stores, RawStores, BufferOrNone
<1>2. CASE st.field = "isFree"
  BY <1>2 DEF Assign, Links, Stores, RawStores, BufferOrNone
<1>3. CASE st.field = "top"
  BY <1>3 DEF Assign, Links, Stores, RawStores, BufferOrNone
<1> QED BY <1>1, <1>2, <1>3 DEF Stores, RawStores

LEMMA StoreKeepsSettled ==
  ASSUME TypeInv, Consistent, NEW p \in Procs, StoreLink(p)
  PROVE  /\ UNCHANGED <<SettledNext, SettledPrev, SettledFree, SettledTop>>
         /\ Consistent'
<1>1. stack' = Assign(stack, pending[1]) /\ pending[1] \in Stores /\ stack \in Links
  BY FirstStore DEF TypeInv
<1>2. \A b \in Buffers : Settled(pending', "next", b, stack'.next[b]) = Settled(pending, "next", b, stack.next[b])
  BY <1>1, AssignPlaces, StoreSettles
<1>3. \A b \in Buffers : Settled(pending', "prev", b, stack'.prev[b]) = Settled(pending, "prev", b, stack.prev[b])
  BY <1>1, AssignPlaces, StoreSettles
<1>4. \A b \in Buffers :
        Settled(pending', "isFree", b, stack'.isFree[b]) = Settled(pending, "isFree", b, stack.isFree[b])
  BY <1>1, AssignPlaces, StoreSettles
<1>5. Settled(pending', "top", 0, stack'.top) = Settled(pending, "top", 0, stack.top)
  BY <1>1, AssignPlaces, StoreSettles
<1>6. Consistent'
  <2>1. /\ Len(pending) \in Nat \ {0} /\ Len(pending') = Len(pending) - 1
        /\ \A i \in 1 .. Len(pending') : i + 1 \in 1 .. Len(pending) /\ pending'[i] = pending[i + 1]
    BY FirstStore
  <2> QED BY <2>1 DEF Consistent
<1> QED BY <1>2, <1>3, <1>4, <1>5, <1>6 DEF SettledNext, SettledPrev, SettledFree, SettledTop

(* When nothing is pending, what is settled is what is there. *)
LEMMA NothingPending ==
  ASSUME TypeInv, pending = <<>>
  PROVE  /\ SettledNext = stack.next /\ SettledPrev = stack.prev
         /\ SettledFree = stack.isFree /\ SettledTop = stack.top
<1>1. \A f, a, now : Settled(pending, f, a, now) = now
  BY DEF Settled, Awaited
<1> QED BY <1>1 DEF TypeInv, Links, SettledNext, SettledPrev, SettledFree, SettledTop

-----------------------------------------------------------------------------
(* The settled stack is an LruStack *)

StackInv == Stack!TypeOK /\ Stack!LinksFollowRecency

LEMMA SameBuffers ==
  /\ Stack!Buffers = Buffers /\ Stack!NOT_IN_STACK = NOT_IN_STACK
  /\ Stack!BufferOrNone = BufferOrNone
BY DEF Stack!Buffers, Buffers, Stack!NOT_IN_STACK, NOT_IN_STACK, Stack!BufferOrNone, BufferOrNone

(* StrategyInitialize leaves an empty and ordered stack. *)
LEMMA StackInitInv == Stack!Init => StackInv
  BY NBuffersAssumption
  DEF Stack!Init, StackInv, Stack!TypeOK, Stack!LinksFollowRecency, Stack!RecencyOrders, Stack!TopIsNewest,
      Stack!NextIsOlderNeighbour, Stack!PrevInvertsNext, Stack!FreeNodesUnlinked, Stack!Stacked,
      Stack!BufferOrNone, NOT_IN_STACK, Buffers

(* A buffer number is never the mark that ends a chain. *)
LEMMA StackNoneIsNoBuffer == NOT_IN_STACK \notin Buffers
  BY NBuffersAssumption DEF NOT_IN_STACK, Buffers

(* Every operation keeps the variables in their types. *)
LEMMA StackTypeStep == ASSUME Stack!TypeOK, Stack!Next PROVE Stack!TypeOK'
<1> USE SameBuffers, StackNoneIsNoBuffer DEF Stack!TypeOK, Stack!BufferOrNone
<1> SUFFICES ASSUME NEW b \in Buffers, Stack!Access(b) \/ Stack!Delete(b) PROVE Stack!TypeOK'
  BY DEF Stack!Next
<1>1. CASE SettledFree[b] /\ Stack!Access(b)
  <2>1. SettledFree' \in [Buffers -> BOOLEAN]
    BY <1>1 DEF Stack!Access, Stack!Push
  <2>4. SettledNext' \in [Buffers -> BufferOrNone]
    BY <1>1 DEF Stack!Access, Stack!Push
  <2>5. SettledTop' \in BufferOrNone
    BY <1>1 DEF Stack!Access, Stack!Push
  <2>2. SettledPrev' \in [Buffers -> BufferOrNone]
    BY <1>1 DEF Stack!Access, Stack!Push
  <2>3. below' \in [Buffers -> SUBSET Buffers]
    BY <1>1 DEF Stack!Access, Stack!RecordUse, Stack!Stacked
  <2> QED BY <2>1, <2>2, <2>3, <2>4, <2>5
<1>2. CASE ~SettledFree[b] /\ Stack!Access(b) /\ b = SettledTop
  BY <1>2 DEF Stack!Access, Stack!MoveToTheTop, Stack!RecordUse, Stack!Stacked, Stack!links
<1>3. CASE ~SettledFree[b] /\ Stack!Access(b) /\ b # SettledTop
  BY <1>3 DEF Stack!Access, Stack!MoveToTheTop, Stack!RecordUse, Stack!Stacked
<1>4. CASE Stack!Delete(b)
  BY <1>4 DEF Stack!Delete, Stack!DeleteBuffer, Stack!DeleteOnly, Stack!DeleteTop, Stack!DeleteInner, Stack!RecordDelete
<1> QED BY <1>1, <1>2, <1>3, <1>4

(* A use puts the buffer above all others and keeps their order. *)
LEMMA StackUseOrders ==
  ASSUME Stack!TypeOK, Stack!RecencyOrders, NEW b \in Buffers, Stack!RecordUse(b),
         SettledFree' = [SettledFree EXCEPT ![b] = FALSE]
  PROVE  Stack!RecencyOrders'
  BY SameBuffers DEF Stack!TypeOK, Stack!RecencyOrders, Stack!RecordUse, Stack!Stacked

(* A deletion takes the buffer out and keeps the order of the others. *)
LEMMA StackDeleteOrders ==
  ASSUME Stack!TypeOK, Stack!RecencyOrders, NEW b \in Buffers, Stack!RecordDelete(b),
         SettledFree' = [SettledFree EXCEPT ![b] = TRUE]
  PROVE  Stack!RecencyOrders'
  BY SameBuffers DEF Stack!TypeOK, Stack!RecencyOrders, Stack!RecordDelete, Stack!Stacked

(* A push links the new top above the old one. *)
LEMMA StackPushLinks ==
  ASSUME StackInv, NEW b \in Buffers, SettledFree[b], Stack!Push(b), Stack!RecordUse(b)
  PROVE  Stack!LinksFollowRecency'
<1> USE SameBuffers, StackNoneIsNoBuffer DEF StackInv, Stack!TypeOK, Stack!LinksFollowRecency, Stack!BufferOrNone
<1>1. Stack!RecencyOrders'
  BY StackUseOrders DEF Stack!Push
<1>2. Stack!TopIsNewest'
  BY DEF Stack!Push, Stack!RecordUse, Stack!TopIsNewest, Stack!Stacked
<1>3. Stack!NextIsOlderNeighbour'
  <2>1. Stack!Stacked' = Stack!Stacked \cup {b} /\ b \notin Stack!Stacked
    BY DEF Stack!Push, Stack!Stacked
  <2>2. \A a \in Stack!Stacked : SettledNext'[a] = SettledNext[a] /\ below'[a] = below[a] /\ a # b
    BY <2>1 DEF Stack!Push, Stack!RecordUse, Stack!RecencyOrders, Stack!Stacked
  <2>3. SettledNext'[b] = SettledTop /\ below'[b] = Stack!Stacked
    BY <2>1 DEF Stack!Push, Stack!RecordUse, Stack!Stacked
  <2>4. ASSUME NEW a \in Stack!Stacked
        PROVE  IF SettledNext'[a] = NOT_IN_STACK
               THEN below'[a] = {}
               ELSE SettledNext'[a] \in Stack!Stacked' /\ below'[a] = {SettledNext'[a]} \cup below'[SettledNext'[a]]
    BY <2>1, <2>2 DEF Stack!NextIsOlderNeighbour, Stack!Stacked
  <2>5. IF SettledNext'[b] = NOT_IN_STACK
        THEN below'[b] = {}
        ELSE SettledNext'[b] \in Stack!Stacked' /\ below'[b] = {SettledNext'[b]} \cup below'[SettledNext'[b]]
    <3>1. CASE SettledTop = NOT_IN_STACK
      BY <2>3, <3>1 DEF Stack!TopIsNewest
    <3>2. CASE SettledTop # NOT_IN_STACK
      <4>1. SettledTop \in Stack!Stacked /\ below'[SettledTop] = Stack!Stacked \ {SettledTop}
        BY <2>2, <3>2 DEF Stack!TopIsNewest
      <4> QED BY <2>1, <2>3, <3>2, <4>1
    <3> QED BY <3>1, <3>2
  <2> QED BY <2>1, <2>4, <2>5 DEF Stack!NextIsOlderNeighbour
<1>4. Stack!PrevInvertsNext'
  <2>1. CASE SettledTop = NOT_IN_STACK
    BY <2>1 DEF Stack!Push, Stack!TopIsNewest, Stack!PrevInvertsNext, Stack!Stacked
  <2>2. CASE SettledTop # NOT_IN_STACK
    <3>1. SettledNext' = [SettledNext EXCEPT ![b] = SettledTop] /\ SettledTop' = b
          /\ SettledPrev' = [SettledPrev EXCEPT ![SettledTop] = b, ![b] = NOT_IN_STACK]
          /\ Stack!Stacked' = Stack!Stacked \cup {b} /\ b \notin Stack!Stacked
          /\ SettledTop \in Stack!Stacked /\ SettledTop # b
      BY <2>2 DEF Stack!Push, Stack!TopIsNewest, Stack!Stacked
    <3>2. \A a \in Stack!Stacked : SettledNext[a] # SettledTop
      BY <2>2 DEF Stack!TopIsNewest, Stack!NextIsOlderNeighbour, Stack!RecencyOrders
    <3>3. Stack!Stacked \subseteq Buffers
      BY DEF Stack!Stacked
    <3> QED BY <3>1, <3>2, <3>3 DEF Stack!PrevInvertsNext, Stack!NextIsOlderNeighbour
  <2> QED BY <2>1, <2>2
<1>5. Stack!FreeNodesUnlinked'
  BY DEF Stack!Push, Stack!TopIsNewest, Stack!FreeNodesUnlinked, Stack!Stacked
<1> QED BY <1>1, <1>2, <1>3, <1>4, <1>5

(* A stacked buffer moved from the middle or the bottom becomes the top. *)
LEMMA StackMoveLinks ==
  ASSUME StackInv, NEW b \in Buffers, ~SettledFree[b], Stack!MoveToTheTop(b), Stack!RecordUse(b)
  PROVE  Stack!LinksFollowRecency'
<1> USE SameBuffers, StackNoneIsNoBuffer DEF StackInv, Stack!TypeOK, Stack!LinksFollowRecency, Stack!BufferOrNone
<1>0. SettledFree' = SettledFree /\ SettledFree = [SettledFree EXCEPT ![b] = FALSE]
  BY DEF Stack!MoveToTheTop, Stack!links
<1>1. Stack!RecencyOrders'
  BY <1>0, StackUseOrders
<1>2. CASE b = SettledTop
  <2>1. below' = below
    BY <1>2 DEF Stack!RecordUse, Stack!TopIsNewest, Stack!RecencyOrders, Stack!Stacked
  <2> QED BY <2>1, <1>2, <1>1 DEF Stack!MoveToTheTop, Stack!links, Stack!TopIsNewest,
        Stack!NextIsOlderNeighbour, Stack!PrevInvertsNext, Stack!FreeNodesUnlinked, Stack!Stacked
<1>3. CASE b # SettledTop
  <2>1. SettledTop \in Stack!Stacked /\ SettledPrev[b] \in Stack!Stacked /\ SettledNext[SettledPrev[b]] = b
    BY <1>3 DEF Stack!TopIsNewest, Stack!PrevInvertsNext, Stack!Stacked
  <2>2. Stack!TopIsNewest'
    BY <1>0, <1>3 DEF Stack!MoveToTheTop, Stack!RecordUse, Stack!TopIsNewest, Stack!Stacked
  <2>3. Stack!NextIsOlderNeighbour'
    BY <1>0, <1>3, <2>1 DEF Stack!MoveToTheTop, Stack!RecordUse, Stack!TopIsNewest,
      Stack!NextIsOlderNeighbour, Stack!PrevInvertsNext, Stack!RecencyOrders, Stack!Stacked
  <2>4. Stack!PrevInvertsNext'
    BY <1>0, <1>3, <2>1 DEF Stack!MoveToTheTop, Stack!TopIsNewest, Stack!NextIsOlderNeighbour,
      Stack!PrevInvertsNext, Stack!RecencyOrders, Stack!Stacked
  <2>5. Stack!FreeNodesUnlinked'
    BY <1>0, <1>3, <2>1 DEF Stack!MoveToTheTop, Stack!NextIsOlderNeighbour, Stack!FreeNodesUnlinked, Stack!Stacked
  <2> QED BY <1>1, <2>2, <2>3, <2>4, <2>5
<1> QED BY <1>2, <1>3

(* A deletion closes the gap, at the top, in the middle or at the bottom. *)
LEMMA StackDeleteLinks ==
  ASSUME StackInv, NEW b \in Buffers, Stack!Delete(b)
  PROVE  Stack!LinksFollowRecency'
<1> USE SameBuffers, StackNoneIsNoBuffer DEF StackInv, Stack!TypeOK, Stack!LinksFollowRecency, Stack!BufferOrNone
<1>0. ~SettledFree[b] /\ SettledFree' = [SettledFree EXCEPT ![b] = TRUE] /\ Stack!RecordDelete(b)
  BY DEF Stack!Delete, Stack!DeleteBuffer
<1>1. Stack!RecencyOrders'
  BY <1>0, StackDeleteOrders
<1>2. CASE Stack!DeleteOnly(b)
  <2>1. b = SettledTop /\ Stack!Stacked = {b}
    BY <1>0, <1>2 DEF Stack!DeleteOnly, Stack!TopIsNewest, Stack!NextIsOlderNeighbour, Stack!PrevInvertsNext, Stack!Stacked
  <2>2. Stack!Stacked' = {}
    BY <1>0, <2>1 DEF Stack!Stacked
  <2> QED BY <1>0, <1>1, <1>2, <2>1, <2>2 DEF Stack!DeleteOnly, Stack!TopIsNewest,
        Stack!NextIsOlderNeighbour, Stack!PrevInvertsNext, Stack!FreeNodesUnlinked, Stack!Stacked
<1>3. CASE Stack!DeleteTop(b)
  <2>1. Stack!TopIsNewest'
    BY <1>0, <1>3 DEF Stack!DeleteTop, Stack!RecordDelete, Stack!TopIsNewest, Stack!NextIsOlderNeighbour,
      Stack!RecencyOrders, Stack!Stacked
  <2>2. Stack!NextIsOlderNeighbour'
    BY <1>0, <1>3 DEF Stack!DeleteTop, Stack!RecordDelete, Stack!TopIsNewest, Stack!NextIsOlderNeighbour,
      Stack!PrevInvertsNext, Stack!RecencyOrders, Stack!Stacked
  <2>3. Stack!PrevInvertsNext'
    BY <1>0, <1>3 DEF Stack!DeleteTop, Stack!TopIsNewest, Stack!NextIsOlderNeighbour,
      Stack!PrevInvertsNext, Stack!RecencyOrders, Stack!Stacked
  <2>4. Stack!FreeNodesUnlinked'
    BY <1>0, <1>3 DEF Stack!DeleteTop, Stack!NextIsOlderNeighbour, Stack!FreeNodesUnlinked, Stack!Stacked
  <2> QED BY <1>1, <2>1, <2>2, <2>3, <2>4
<1>4. CASE Stack!DeleteInner(b)
  <2>0. SettledPrev[b] \in Stack!Stacked /\ SettledNext[SettledPrev[b]] = b /\ SettledTop \in Stack!Stacked
    BY <1>0, <1>4 DEF Stack!DeleteInner, Stack!TopIsNewest, Stack!PrevInvertsNext, Stack!Stacked
  <2>1. Stack!TopIsNewest'
    BY <1>0, <1>4, <2>0 DEF Stack!DeleteInner, Stack!RecordDelete, Stack!TopIsNewest, Stack!Stacked
  <2>2. Stack!NextIsOlderNeighbour'
    BY <1>0, <1>4, <2>0 DEF Stack!DeleteInner, Stack!RecordDelete, Stack!NextIsOlderNeighbour,
      Stack!PrevInvertsNext, Stack!RecencyOrders, Stack!Stacked
  <2>3. Stack!PrevInvertsNext'
    BY <1>0, <1>4, <2>0 DEF Stack!DeleteInner, Stack!NextIsOlderNeighbour,
      Stack!PrevInvertsNext, Stack!RecencyOrders, Stack!Stacked
  <2>4. Stack!FreeNodesUnlinked'
    BY <1>0, <1>4, <2>0 DEF Stack!DeleteInner, Stack!NextIsOlderNeighbour, Stack!FreeNodesUnlinked, Stack!Stacked
  <2> QED BY <1>1, <2>1, <2>2, <2>3, <2>4
<1> QED BY <1>2, <1>3, <1>4 DEF Stack!Delete, Stack!DeleteBuffer

(* The three operations and the stuttering step preserve the invariant. *)
LEMMA StackNextInv == StackInv /\ [Stack!Next]_(Stack!vars) => StackInv'
<1> USE SameBuffers
<1> SUFFICES ASSUME StackInv, [Stack!Next]_(Stack!vars) PROVE StackInv'
  OBVIOUS
<1>1. CASE Stack!Next
  <2>1. Stack!TypeOK'
    BY <1>1, StackTypeStep DEF StackInv
  <2>2. Stack!LinksFollowRecency'
    BY <1>1, StackPushLinks, StackMoveLinks, StackDeleteLinks DEF Stack!Next, Stack!Access
  <2> QED BY <2>1, <2>2 DEF StackInv
<1>2. CASE UNCHANGED Stack!vars
  BY <1>2 DEF Stack!vars, StackInv, Stack!TypeOK, Stack!LinksFollowRecency, Stack!RecencyOrders, Stack!TopIsNewest,
     Stack!NextIsOlderNeighbour, Stack!PrevInvertsNext, Stack!FreeNodesUnlinked, Stack!Stacked
<1> QED BY <1>1, <1>2

(***************************************************************************)
(* The nodes of the stack keep their types: the links stay inside the      *)
(* array or carry the end mark.  Nothing of how the settled stack is read  *)
(* off the stores is used, only the operations of LruStack.                *)
(***************************************************************************)
THEOREM StackTypeCorrect == Stack!Spec => []Stack!TypeOK
<1>1. StackInv => Stack!TypeOK
  BY DEF StackInv
<1> QED BY StackInitInv, StackNextInv, <1>1, PTL DEF Stack!Spec

(***************************************************************************)
(* The links always are the order of last use, for every number of         *)
(* buffers and every sequence of accesses and deletions.                   *)
(***************************************************************************)
THEOREM RecencyCorrect == Stack!Spec => []Stack!LinksFollowRecency
<1>1. StackInv => Stack!LinksFollowRecency
  BY DEF StackInv
<1> QED BY StackInitInv, StackNextInv, <1>1, PTL DEF Stack!Spec

(* One step of LruStack keeps the links in order. *)
LEMMA StackStep == StackInv /\ (Stack!Next \/ UNCHANGED <<SettledNext, SettledPrev, SettledFree, SettledTop, below>>)
                     => StackInv'
BY StackNextInv DEF Stack!vars

-----------------------------------------------------------------------------
(* The shape of the stack between two updates *)

LEMMA Shape ==
  ASSUME TypeInv, pending = <<>>, StackInv
  PROVE  /\ stack.top # NOT_IN_STACK => stack.top \in Buffers /\ ~stack.isFree[stack.top]
         /\ \A b \in Buffers : ~stack.isFree[b] =>
              /\ stack.top # NOT_IN_STACK
              /\ stack.prev[b] = NOT_IN_STACK <=> b = stack.top
              /\ stack.prev[b] # b /\ stack.next[b] # b /\ stack.next[b] # stack.top
<1> DEFINE next == stack.next  prev == stack.prev  top == stack.top
           Stacked == {b \in Buffers : ~stack.isFree[b]}
<1>1. /\ SettledNext = next /\ SettledPrev = prev
      /\ SettledFree = stack.isFree /\ SettledTop = top
  BY NothingPending
<1>2. Stack!Stacked = Stacked
  BY <1>1, SameBuffers DEF Stack!Stacked
<1>3. /\ \A a \in Buffers : below[a] \subseteq Stacked \ {a}
      /\ \A a, c \in Buffers : ~ (c \in below[a] /\ a \in below[c])
  BY <1>2, SameBuffers DEF StackInv, Stack!LinksFollowRecency, Stack!RecencyOrders
<1>4. IF top = NOT_IN_STACK THEN Stacked = {} ELSE top \in Stacked /\ below[top] = Stacked \ {top}
  BY <1>1, <1>2, SameBuffers DEF StackInv, Stack!LinksFollowRecency, Stack!TopIsNewest
<1>5. \A a \in Stacked : IF next[a] = NOT_IN_STACK
                         THEN below[a] = {}
                         ELSE next[a] \in Stacked /\ below[a] = {next[a]} \cup below[next[a]]
  BY <1>1, <1>2, SameBuffers DEF StackInv, Stack!LinksFollowRecency, Stack!NextIsOlderNeighbour
<1>6. \A a \in Stacked : /\ next[a] # NOT_IN_STACK => prev[next[a]] = a
                         /\ IF prev[a] = NOT_IN_STACK
                            THEN a = top
                            ELSE prev[a] \in Stacked /\ next[prev[a]] = a
  BY <1>1, <1>2, SameBuffers DEF StackInv, Stack!LinksFollowRecency, Stack!PrevInvertsNext
<1> HIDE DEF next, prev, top
<1>7. top # NOT_IN_STACK => top \in Stacked
  BY <1>4
<1>8. ASSUME NEW b \in Stacked
      PROVE  /\ top # NOT_IN_STACK /\ (prev[b] = NOT_IN_STACK <=> b = top)
             /\ prev[b] # b /\ next[b] # b /\ next[b] # top
  <2>1. top # NOT_IN_STACK /\ top \in Stacked
    BY <1>4
  <2>2. NOT_IN_STACK \notin Buffers
    BY BufferZero
  <2>3. next[b] # NOT_IN_STACK => next[b] \in below[b] /\ next[b] \in Stacked
    BY <1>5
  <2>4. next[b] # b
    BY <1>3, <2>2, <2>3
  <2>5. next[b] # top
    <3>1. b # top => b \in below[top]
      BY <1>4, <2>1
    <3> QED BY <1>3, <2>1, <2>2, <2>3, <2>4, <3>1
  <2>6. prev[b] # b
    BY <1>6, <2>2, <2>4
  <2>7. b = top => prev[b] = NOT_IN_STACK
    <3>1. ASSUME prev[top] # NOT_IN_STACK PROVE FALSE
      <4>1. prev[top] \in Stacked /\ next[prev[top]] = top
        BY <1>6, <2>1, <3>1
      <4>2. top \in below[prev[top]]
        BY <1>5, <2>1, <2>2, <4>1
      <4>3. prev[top] # top
        BY <1>3, <4>1, <4>2
      <4>4. prev[top] \in below[top]
        BY <1>4, <2>1, <4>1, <4>3
      <4> QED BY <1>3, <2>1, <4>1, <4>2, <4>4
    <3> QED BY <3>1
  <2> QED BY <1>6, <2>1, <2>4, <2>5, <2>6, <2>7
<1> QED BY <1>7, <1>8 DEF next, prev, top

(* An update as a whole: one value for each place, and each in the array. *)
Functional(s) == \A f, a, v, w : Stored(s, f, a, v) /\ Stored(s, f, a, w) => v = w
InArray(s) == \A f, a, v : Stored(s, f, a, v) => a # NOT_IN_STACK

LEMMA WholeUpdate ==
  ASSUME NEW s \in Seq(RawStores)
  PROVE  /\ InArray(s) => \A i \in DOMAIN s : s[i].at # NOT_IN_STACK
         /\ Functional(s) /\ pending' = s => Consistent'
<1>1. DOMAIN s = 1 .. Len(s)
  BY LenProperties
<1>2. \A i \in 1 .. Len(s) : Stored(s, s[i].field, s[i].at, s[i].value)
  BY DEF Stored, Is
<1> HIDE DEF Stored
<1>3. InArray(s) => \A i \in DOMAIN s : s[i].at # NOT_IN_STACK
  BY <1>1, <1>2 DEF InArray
<1>4. ASSUME Functional(s), pending' = s PROVE Consistent'
  BY <1>2, <1>4 DEF Functional, Consistent
<1> QED BY <1>3, <1>4

LEMMA SettlesAs ==
  ASSUME NEW s \in Seq(RawStores), Functional(s), NEW f, NEW a, NEW now, NEW w
  PROVE  /\ Stored(s, f, a, w) => Settled(s, f, a, now) = w
         /\ (\A v : ~Stored(s, f, a, v)) => Settled(s, f, a, now) = now
BY SettledAs DEF Functional

LEMMA PushSettles ==
  ASSUME TypeInv, pending = <<>>, StackInv, NEW b \in Buffers, stack.isFree[b]
  PROVE  /\ Functional(PushStores(b)) /\ InArray(PushStores(b))
         /\ pending' = PushStores(b) /\ stack' = stack => Stack!Push(b)
<1> DEFINE s == PushStores(b)  top == stack.top
<1>1. /\ top # NOT_IN_STACK => top \in Buffers /\ top # b
      /\ NOT_IN_STACK \notin Buffers /\ 0 # NOT_IN_STACK
  BY Shape, BufferZero
<1>2. \A f, a, v : Stored(s, f, a, v) <=>
           \/ f = "isFree" /\ a = b /\ v = FALSE
           \/ f = "next" /\ a = b /\ v = top
           \/ f = "prev" /\ a = b /\ v = NOT_IN_STACK
           \/ f = "prev" /\ a = top /\ v = b /\ top # NOT_IN_STACK
           \/ f = "top" /\ a = 0 /\ v = b
  BY PushStored
<1>3. s \in Seq(RawStores)
  BY UpdateStoresType
<1> HIDE DEF s, top
<1>4. Functional(s)
  <2> SUFFICES ASSUME NEW f, NEW a, NEW v, NEW w, Stored(s, f, a, v), Stored(s, f, a, w)
               PROVE  v = w
    BY DEF Functional
  <2>1. CASE f = "prev"
    <3>1. (a = b /\ v = NOT_IN_STACK) \/ (a = top /\ v = b /\ top # NOT_IN_STACK)
      BY <1>2, <2>1
    <3>2. (a = b /\ w = NOT_IN_STACK) \/ (a = top /\ w = b /\ top # NOT_IN_STACK)
      BY <1>2, <2>1
    <3> QED BY <1>1, <3>1, <3>2
  <2>2. CASE f = "isFree"
    <3>1. v = FALSE /\ w = FALSE
      BY <1>2, <2>2
    <3> QED BY <3>1, Zenon
  <2>3. CASE f \in {"next", "top"}
    BY <1>2, <2>3
  <2>4. f \in {"isFree", "next", "prev", "top"}
    BY <1>2
  <2> QED BY <2>1, <2>2, <2>3, <2>4
<1>5. InArray(s)
  BY <1>1, <1>2 DEF InArray
<1>6. ASSUME pending' = s, stack' = stack PROVE Stack!Push(b)
  <2>1. SettledFree' = [stack.isFree EXCEPT ![b] = FALSE]
    <3>1. ASSUME NEW c \in Buffers
          PROVE  Settled(s, "isFree", c, stack.isFree[c]) = IF c = b THEN FALSE ELSE stack.isFree[c]
      <4>1. c = b => Stored(s, "isFree", c, FALSE)
        BY <1>2
      <4>2. c # b => \A v : ~Stored(s, "isFree", c, v)
        BY <1>2
      <4> QED BY <1>3, <1>4, <4>1, <4>2, SettlesAs
    <3> QED BY <1>6, <3>1 DEF SettledFree, TypeInv, Links
  <2>2. SettledNext' = [stack.next EXCEPT ![b] = top]
    <3>1. ASSUME NEW c \in Buffers
          PROVE  Settled(s, "next", c, stack.next[c]) = IF c = b THEN top ELSE stack.next[c]
      <4>1. c = b => Stored(s, "next", c, top)
        BY <1>2
      <4>2. c # b => \A v : ~Stored(s, "next", c, v)
        BY <1>2
      <4> QED BY <1>3, <1>4, <4>1, <4>2, SettlesAs
    <3> QED BY <1>6, <3>1 DEF SettledNext, TypeInv, Links
  <2>3. SettledPrev' = IF top = NOT_IN_STACK
                       THEN [stack.prev EXCEPT ![b] = NOT_IN_STACK]
                       ELSE [stack.prev EXCEPT ![top] = b, ![b] = NOT_IN_STACK]
    <3>1. ASSUME NEW c \in Buffers
          PROVE  Settled(s, "prev", c, stack.prev[c]) =
                   IF c = b THEN NOT_IN_STACK ELSE IF c = top THEN b ELSE stack.prev[c]
      <4>1. c = b => Stored(s, "prev", c, NOT_IN_STACK)
        BY <1>2
      <4>2. c = top => Stored(s, "prev", c, b)
        BY <1>1, <1>2
      <4>3. c # b /\ c # top => \A v : ~Stored(s, "prev", c, v)
        BY <1>2
      <4> QED BY <1>3, <1>4, <4>1, <4>2, <4>3, SettlesAs
    <3>2. SettledPrev' = [c \in Buffers |-> IF c = b THEN NOT_IN_STACK
                                            ELSE IF c = top THEN b ELSE stack.prev[c]]
      BY <1>6, <3>1 DEF SettledPrev
    <3>3. stack.prev \in [Buffers -> BufferOrNone]
      BY DEF TypeInv, Links
    <3> QED BY <1>1, <3>2, <3>3
  <2>4. SettledTop' = b
    <3>1. Stored(s, "top", 0, b)
      BY <1>2
    <3> QED BY <1>3, <1>4, <1>6, <3>1, SettlesAs DEF SettledTop
  <2> QED BY <2>1, <2>2, <2>3, <2>4, NothingPending, SameBuffers DEF Stack!Push, top
<1> QED BY <1>4, <1>5, <1>6 DEF s

LEMMA MoveSettles ==
  ASSUME TypeInv, pending = <<>>, StackInv, NEW b \in Buffers, ~stack.isFree[b]
  PROVE  /\ Functional(MoveStores(b)) /\ InArray(MoveStores(b))
         /\ pending' = MoveStores(b) /\ stack' = stack => Stack!MoveToTheTop(b)
<1> DEFINE s == MoveStores(b)
<1>1. CASE b = stack.top
  <2>1. s = <<>>
    BY <1>1 DEF MoveStores
  <2>2. \A f, a, v : ~Stored(s, f, a, v)
    BY <2>1, ShortStored
  <2> HIDE DEF s
  <2>3. Functional(s) /\ InArray(s)
    BY <2>2 DEF Functional, InArray
  <2>4. ASSUME pending' = s, stack' = stack PROVE Stack!MoveToTheTop(b)
    <3>1. pending' = pending
      BY <2>1, <2>4
    <3>2. UNCHANGED <<SettledNext, SettledPrev, SettledFree, SettledTop>>
      BY <2>4, <3>1 DEF SettledNext, SettledPrev, SettledFree, SettledTop
    <3> QED BY <1>1, <3>2, NothingPending DEF Stack!MoveToTheTop, Stack!links
  <2> QED BY <2>3, <2>4 DEF s
<1>2. CASE b # stack.top
  <2> DEFINE up == stack.prev[b]  down == stack.next[b]  top == stack.top
  <2>1. /\ top \in Buffers /\ up \in Buffers /\ down \in BufferOrNone
        /\ up # b /\ down # b /\ down # top
        /\ NOT_IN_STACK \notin Buffers /\ 0 # NOT_IN_STACK
    BY <1>2, Shape, BufferZero DEF TypeInv, Links, BufferOrNone
  <2>2. \A f, a, v : Stored(s, f, a, v) <=>
             \/ f = "next" /\ a = up /\ v = down
             \/ f = "prev" /\ a = down /\ v = up /\ down # NOT_IN_STACK
             \/ f = "prev" /\ a = top /\ v = b
             \/ f = "prev" /\ a = b /\ v = NOT_IN_STACK
             \/ f = "next" /\ a = b /\ v = top
             \/ f = "top" /\ a = 0 /\ v = b
    BY <1>2, MoveStored
  <2>3. s \in Seq(RawStores)
    BY UpdateStoresType
  <2>4. b # top
    BY <1>2
  <2> HIDE DEF s, up, down, top
  <2>5. Functional(s)
    <3> SUFFICES ASSUME NEW f, NEW a, NEW v, NEW w, Stored(s, f, a, v), Stored(s, f, a, w)
                 PROVE  v = w
      BY DEF Functional
    <3>1. CASE f = "prev"
      <4>1. (a = down /\ v = up) \/ (a = top /\ v = b) \/ (a = b /\ v = NOT_IN_STACK)
        BY <2>2, <3>1
      <4>2. (a = down /\ w = up) \/ (a = top /\ w = b) \/ (a = b /\ w = NOT_IN_STACK)
        BY <2>2, <3>1
      <4> QED BY <2>1, <2>4, <4>1, <4>2
    <3>2. CASE f = "next"
      <4>1. (a = up /\ v = down) \/ (a = b /\ v = top)
        BY <2>2, <3>2
      <4>2. (a = up /\ w = down) \/ (a = b /\ w = top)
        BY <2>2, <3>2
      <4> QED BY <2>1, <2>4, <4>1, <4>2
    <3> QED BY <2>2, <3>1, <3>2
  <2>6. InArray(s)
    BY <2>1, <2>2 DEF InArray
  <2>7. ASSUME pending' = s, stack' = stack PROVE Stack!MoveToTheTop(b)
    <3>1. SettledFree' = stack.isFree
      <4>1. ASSUME NEW c \in Buffers
            PROVE  Settled(s, "isFree", c, stack.isFree[c]) = stack.isFree[c]
        <5>1. \A v : ~Stored(s, "isFree", c, v)
          BY <2>2
        <5> QED BY <2>3, <2>5, <5>1, SettlesAs
      <4> QED BY <2>7, <4>1 DEF SettledFree, TypeInv, Links
    <3>2. SettledNext' = [stack.next EXCEPT ![up] = down, ![b] = top]
      <4>1. ASSUME NEW c \in Buffers
            PROVE  Settled(s, "next", c, stack.next[c]) =
                     IF c = b THEN top ELSE IF c = up THEN down ELSE stack.next[c]
        <5>1. c = b => Stored(s, "next", c, top)
          BY <2>2
        <5>2. c = up => Stored(s, "next", c, down)
          BY <2>2
        <5>3. c # b /\ c # up => \A v : ~Stored(s, "next", c, v)
          BY <2>2
        <5> QED BY <2>3, <2>5, <5>1, <5>2, <5>3, SettlesAs
      <4>2. SettledNext' = [c \in Buffers |-> IF c = b THEN top ELSE IF c = up THEN down ELSE stack.next[c]]
        BY <2>7, <4>1 DEF SettledNext
      <4> QED BY <2>1, <4>2 DEF TypeInv, Links
    <3>3. SettledPrev' = IF down = NOT_IN_STACK
                         THEN [stack.prev EXCEPT ![top] = b, ![b] = NOT_IN_STACK]
                         ELSE [stack.prev EXCEPT ![down] = up, ![top] = b, ![b] = NOT_IN_STACK]
      <4>1. ASSUME NEW c \in Buffers
            PROVE  Settled(s, "prev", c, stack.prev[c]) =
                     IF c = b THEN NOT_IN_STACK ELSE IF c = top THEN b
                     ELSE IF c = down THEN up ELSE stack.prev[c]
        <5>1. c = b => Stored(s, "prev", c, NOT_IN_STACK)
          BY <2>2
        <5>2. c = top => Stored(s, "prev", c, b)
          BY <2>2
        <5>3. c = down => Stored(s, "prev", c, up)
          BY <2>1, <2>2
        <5>4. c # b /\ c # top /\ c # down => \A v : ~Stored(s, "prev", c, v)
          BY <2>2
        <5> QED BY <2>3, <2>5, <5>1, <5>2, <5>3, <5>4, SettlesAs
      <4>2. SettledPrev' = [c \in Buffers |-> IF c = b THEN NOT_IN_STACK ELSE IF c = top THEN b
                                              ELSE IF c = down THEN up ELSE stack.prev[c]]
        BY <2>7, <4>1 DEF SettledPrev
      <4>3. stack.prev \in [Buffers -> BufferOrNone]
        BY DEF TypeInv, Links
      <4> QED BY <2>1, <2>4, <4>2, <4>3 DEF BufferOrNone
    <3>4. SettledTop' = b
      <4>1. Stored(s, "top", 0, b)
        BY <2>2
      <4> QED BY <2>3, <2>5, <2>7, <4>1, SettlesAs DEF SettledTop
    <3> QED BY <1>2, <3>1, <3>2, <3>3, <3>4, NothingPending, SameBuffers
            DEF Stack!MoveToTheTop, up, down, top
  <2> QED BY <2>5, <2>6, <2>7 DEF s
<1> QED BY <1>1, <1>2

LEMMA DeleteSettles ==
  ASSUME TypeInv, pending = <<>>, StackInv, NEW b \in Buffers, ~stack.isFree[b]
  PROVE  /\ Functional(DeleteStores(b)) /\ InArray(DeleteStores(b))
         /\ pending' = DeleteStores(b) /\ stack' = stack => Stack!DeleteBuffer(b)
<1> DEFINE s == DeleteStores(b)  up == stack.prev[b]  down == stack.next[b]  top == stack.top
<1>1. /\ top \in Buffers /\ up \in BufferOrNone /\ down \in BufferOrNone
      /\ up # b /\ down # b /\ down # top
      /\ up = NOT_IN_STACK <=> b = top
      /\ NOT_IN_STACK \notin Buffers /\ 0 # NOT_IN_STACK
  BY Shape, BufferZero DEF TypeInv, Links, BufferOrNone
<1>2. s \in Seq(RawStores)
  BY UpdateStoresType
<1>3. /\ stack.prev \in [Buffers -> BufferOrNone] /\ stack.next \in [Buffers -> BufferOrNone]
      /\ stack.isFree \in [Buffers -> BOOLEAN]
  BY DEF TypeInv, Links
<1>4. \A f, a, v :
             /\ down = NOT_IN_STACK /\ up = NOT_IN_STACK =>
                  (Stored(s, f, a, v) <=>
                     \/ f = "isFree" /\ a = b /\ v = TRUE
                     \/ f = "top" /\ a = 0 /\ v = NOT_IN_STACK)
             /\ ~(down = NOT_IN_STACK /\ up = NOT_IN_STACK) =>
                  (Stored(s, f, a, v) <=>
                     \/ b = top /\ f = "top" /\ a = 0 /\ v = down
                     \/ b = top /\ f = "prev" /\ a = down /\ v = NOT_IN_STACK
                     \/ b # top /\ f = "next" /\ a = up /\ v = down
                     \/ b # top /\ f = "prev" /\ a = down /\ v = up /\ down # NOT_IN_STACK
                     \/ f = "next" /\ a = b /\ v = NOT_IN_STACK
                     \/ f = "prev" /\ a = b /\ v = NOT_IN_STACK
                     \/ f = "isFree" /\ a = b /\ v = TRUE)
  <2> TAKE f, a, v
  <2> QED BY ONLY TypeInv, b \in Buffers, DeleteStored, ZenonT(60)
<1> HIDE DEF s, up, down, top
<1>5. ASSUME Functional(s), pending' = s, stack' = stack PROVE SettledFree' = [stack.isFree EXCEPT ![b] = TRUE]
  <2>1. ASSUME NEW c \in Buffers
        PROVE  Settled(s, "isFree", c, stack.isFree[c]) = IF c = b THEN TRUE ELSE stack.isFree[c]
    <3>1. c = b => Stored(s, "isFree", c, TRUE)
      BY <1>4
    <3>2. c # b => \A v : ~Stored(s, "isFree", c, v)
      BY <1>4
    <3> QED BY <1>2, <1>5, <3>1, <3>2, SettlesAs
  <2> QED BY <1>3, <1>5, <2>1 DEF SettledFree
<1>6. CASE up = NOT_IN_STACK /\ down = NOT_IN_STACK
  <2>0. \A f, a, v : Stored(s, f, a, v) <=>
          \/ f = "isFree" /\ a = b /\ v = TRUE
          \/ f = "top" /\ a = 0 /\ v = NOT_IN_STACK
    BY <1>4, <1>6
  <2>1. Functional(s)
    <3> SUFFICES ASSUME NEW f, NEW a, NEW v, NEW w, Stored(s, f, a, v), Stored(s, f, a, w)
                 PROVE  v = w
      BY DEF Functional
    <3>1. CASE f = "isFree"
      <4>1. v = TRUE /\ w = TRUE
        BY <2>0, <3>1
      <4> QED BY <4>1, Zenon
    <3>2. CASE f # "isFree"
      BY <1>1, <2>0, <3>2
    <3> QED BY <3>1, <3>2
  <2>2. InArray(s)
    BY <1>1, <2>0 DEF InArray
  <2>3. ASSUME pending' = s, stack' = stack PROVE Stack!DeleteBuffer(b)
    <3>1. SettledNext' = stack.next
      <4>1. ASSUME NEW c \in Buffers PROVE Settled(s, "next", c, stack.next[c]) = stack.next[c]
        <5>1. \A v : ~Stored(s, "next", c, v)
          BY <2>0
        <5> QED BY <1>2, <2>1, <5>1, SettlesAs
      <4> QED BY <1>3, <2>3, <4>1 DEF SettledNext
    <3>2. SettledPrev' = stack.prev
      <4>1. ASSUME NEW c \in Buffers PROVE Settled(s, "prev", c, stack.prev[c]) = stack.prev[c]
        <5>1. \A v : ~Stored(s, "prev", c, v)
          BY <2>0
        <5> QED BY <1>2, <2>1, <5>1, SettlesAs
      <4> QED BY <1>3, <2>3, <4>1 DEF SettledPrev
    <3>3. SettledTop' = NOT_IN_STACK
      <4>1. Stored(s, "top", 0, NOT_IN_STACK)
        BY <2>0
      <4> QED BY <1>2, <2>1, <2>3, <4>1, SettlesAs DEF SettledTop
    <3> QED BY <1>5, <1>6, <2>1, <2>3, <3>1, <3>2, <3>3, NothingPending, SameBuffers
            DEF Stack!DeleteBuffer, Stack!DeleteOnly, up, down
  <2> QED BY <2>1, <2>2, <2>3 DEF s
<1>7. CASE b = top /\ down # NOT_IN_STACK
  <2>0. /\ up = NOT_IN_STACK /\ down \in Buffers /\ down # b
        /\ \A f, a, v : Stored(s, f, a, v) <=>
             \/ f = "top" /\ a = 0 /\ v = down
             \/ f = "prev" /\ a = down /\ v = NOT_IN_STACK
             \/ f = "next" /\ a = b /\ v = NOT_IN_STACK
             \/ f = "prev" /\ a = b /\ v = NOT_IN_STACK
             \/ f = "isFree" /\ a = b /\ v = TRUE
    BY <1>1, <1>4, <1>7 DEF BufferOrNone
  <2>1. Functional(s)
    <3> SUFFICES ASSUME NEW f, NEW a, NEW v, NEW w, Stored(s, f, a, v), Stored(s, f, a, w)
                 PROVE  v = w
      BY DEF Functional
    <3>1. CASE f = "isFree"
      <4>1. v = TRUE /\ w = TRUE
        BY <2>0, <3>1
      <4> QED BY <4>1, Zenon
    <3>2. CASE f # "isFree"
      BY <1>1, <2>0, <3>2
    <3> QED BY <3>1, <3>2
  <2>2. InArray(s)
    BY <1>1, <2>0 DEF InArray
  <2>3. ASSUME pending' = s, stack' = stack PROVE Stack!DeleteBuffer(b)
    <3>1. SettledNext' = [stack.next EXCEPT ![b] = NOT_IN_STACK]
      <4>1. ASSUME NEW c \in Buffers
            PROVE  Settled(s, "next", c, stack.next[c]) = IF c = b THEN NOT_IN_STACK ELSE stack.next[c]
        <5>1. c = b => Stored(s, "next", c, NOT_IN_STACK)
          BY <2>0
        <5>2. c # b => \A v : ~Stored(s, "next", c, v)
          BY <2>0
        <5> QED BY <1>2, <2>1, <5>1, <5>2, SettlesAs
      <4> QED BY <1>3, <2>3, <4>1 DEF SettledNext
    <3>2. SettledPrev' = [stack.prev EXCEPT ![down] = NOT_IN_STACK, ![b] = NOT_IN_STACK]
      <4>1. ASSUME NEW c \in Buffers
            PROVE  Settled(s, "prev", c, stack.prev[c]) = IF c \in {b, down} THEN NOT_IN_STACK ELSE stack.prev[c]
        <5>1. c \in {b, down} => Stored(s, "prev", c, NOT_IN_STACK)
          BY <2>0
        <5>2. c \notin {b, down} => \A v : ~Stored(s, "prev", c, v)
          BY <2>0
        <5> QED BY <1>2, <2>1, <5>1, <5>2, SettlesAs
      <4>2. SettledPrev' = [c \in Buffers |-> IF c \in {b, down} THEN NOT_IN_STACK ELSE stack.prev[c]]
        BY <2>3, <4>1 DEF SettledPrev
      <4> QED BY <1>3, <2>0, <4>2
    <3>3. SettledTop' = down
      <4>1. Stored(s, "top", 0, down)
        BY <2>0
      <4> QED BY <1>2, <2>1, <2>3, <4>1, SettlesAs DEF SettledTop
    <3> QED BY <1>5, <1>7, <2>1, <2>3, <3>1, <3>2, <3>3, NothingPending, SameBuffers
            DEF Stack!DeleteBuffer, Stack!DeleteTop, down, top
  <2> QED BY <2>1, <2>2, <2>3 DEF s
<1>8. CASE b # top
  <2>0. /\ up \in Buffers
        /\ \A f, a, v : Stored(s, f, a, v) <=>
             \/ f = "next" /\ a = up /\ v = down
             \/ f = "prev" /\ a = down /\ v = up /\ down # NOT_IN_STACK
             \/ f = "next" /\ a = b /\ v = NOT_IN_STACK
             \/ f = "prev" /\ a = b /\ v = NOT_IN_STACK
             \/ f = "isFree" /\ a = b /\ v = TRUE
    BY <1>1, <1>4, <1>8 DEF BufferOrNone
  <2>1. Functional(s)
    <3> SUFFICES ASSUME NEW f, NEW a, NEW v, NEW w, Stored(s, f, a, v), Stored(s, f, a, w)
                 PROVE  v = w
      BY DEF Functional
    <3>1. CASE f = "isFree"
      <4>1. v = TRUE /\ w = TRUE
        BY <2>0, <3>1
      <4> QED BY <4>1, Zenon
    <3>2. CASE f # "isFree"
      BY <1>1, <2>0, <3>2
    <3> QED BY <3>1, <3>2
  <2>2. InArray(s)
    BY <1>1, <2>0 DEF InArray
  <2>3. ASSUME pending' = s, stack' = stack PROVE Stack!DeleteBuffer(b)
    <3>1. SettledNext' = [stack.next EXCEPT ![up] = down, ![b] = NOT_IN_STACK]
      <4>1. ASSUME NEW c \in Buffers
            PROVE  Settled(s, "next", c, stack.next[c]) =
                     IF c = b THEN NOT_IN_STACK ELSE IF c = up THEN down ELSE stack.next[c]
        <5>1. c = b => Stored(s, "next", c, NOT_IN_STACK)
          BY <2>0
        <5>2. c = up => Stored(s, "next", c, down)
          BY <2>0
        <5>3. c # b /\ c # up => \A v : ~Stored(s, "next", c, v)
          BY <2>0
        <5> QED BY <1>2, <2>1, <5>1, <5>2, <5>3, SettlesAs
      <4>2. SettledNext' = [c \in Buffers |-> IF c = b THEN NOT_IN_STACK
                                              ELSE IF c = up THEN down ELSE stack.next[c]]
        BY <2>3, <4>1 DEF SettledNext
      <4> QED BY <1>3, <2>0, <4>2
    <3>2. SettledPrev' = IF down = NOT_IN_STACK
                         THEN [stack.prev EXCEPT ![b] = NOT_IN_STACK]
                         ELSE [stack.prev EXCEPT ![down] = up, ![b] = NOT_IN_STACK]
      <4>1. ASSUME NEW c \in Buffers
            PROVE  Settled(s, "prev", c, stack.prev[c]) =
                     IF c = b THEN NOT_IN_STACK ELSE IF c = down THEN up ELSE stack.prev[c]
        <5>1. c = b => Stored(s, "prev", c, NOT_IN_STACK)
          BY <2>0
        <5>2. c = down => Stored(s, "prev", c, up)
          BY <1>1, <2>0
        <5>3. c # b /\ c # down => \A v : ~Stored(s, "prev", c, v)
          BY <2>0
        <5> QED BY <1>2, <2>1, <5>1, <5>2, <5>3, SettlesAs
      <4>2. SettledPrev' = [c \in Buffers |-> IF c = b THEN NOT_IN_STACK
                                              ELSE IF c = down THEN up ELSE stack.prev[c]]
        BY <2>3, <4>1 DEF SettledPrev
      <4> QED BY <1>1, <1>3, <4>2 DEF BufferOrNone
    <3>3. SettledTop' = top
      <4>1. \A v : ~Stored(s, "top", 0, v)
        BY <2>0
      <4> QED BY <1>2, <2>1, <2>3, <4>1, SettlesAs DEF SettledTop, top
    <3> QED BY <1>1, <1>5, <1>8, <2>1, <2>3, <3>1, <3>2, <3>3, NothingPending, SameBuffers
            DEF Stack!DeleteBuffer, Stack!DeleteInner, up, down, top
  <2> QED BY <2>1, <2>2, <2>3 DEF s
<1> QED BY <1>1, <1>6, <1>7, <1>8

(* Taking stack_lock is one step of LruStack. *)
LEMMA AcquireRefines ==
  ASSUME TypeInv, pending = <<>>, StackInv, NEW p \in Procs, AcquireStackLock(p),
         pc[p] = "delete" => ~SettledFree[buf[p]]
  PROVE  /\ Stack!Next /\ Consistent' /\ pc'[p] = Updating[pc[p]]
         /\ SettledFree' = [SettledFree EXCEPT ![buf[p]] = (pc[p] = "delete")]
<1> DEFINE b == buf[p]  s == UpdateStores(p)
<1>1. /\ b \in Buffers /\ pc \in [Procs -> Labels] /\ stack.isFree \in [Buffers -> BOOLEAN]
      /\ SettledFree = stack.isFree
      /\ pc[p] \in {"victim", "hit", "delete"}
  BY NothingPending DEF TypeInv, AcquireStackLock, Links
<1>2. s = CASE pc[p] = "delete" -> DeleteStores(b)
            [] pc[p] # "delete" /\ stack.isFree[b] -> PushStores(b)
            [] OTHER -> MoveStores(b)
  BY DEF UpdateStores
<1>3. s \in Seq(RawStores)
  BY <1>1, UpdateStoresType, Zenon DEF UpdateStores
<1>4. stack' = stack
  BY DEF AcquireStackLock
<1> HIDE DEF b, s
<1>5. ASSUME Functional(s), InArray(s)
      PROVE  /\ pending' = s /\ Consistent' /\ pc'[p] = Updating[pc[p]]
             /\ IF pc[p] = "delete" THEN Stack!RecordDelete(b) ELSE Stack!RecordUse(b)
  <2>1. \A i \in DOMAIN s : s[i].at # NOT_IN_STACK
    BY <1>3, <1>5, WholeUpdate
  <2>2. /\ pending' = s /\ pc'[p] = Updating[pc[p]]
        /\ IF pc[p] = "delete" THEN Stack!RecordDelete(b) ELSE Stack!RecordUse(b)
    BY <1>1, <2>1 DEF AcquireStackLock, Proceed, Goto, b, s
  <2> QED BY <1>3, <1>5, <2>2, WholeUpdate
<1>6. CASE pc[p] = "delete"
  <2>1. s = DeleteStores(b) /\ ~stack.isFree[b]
    BY <1>1, <1>2, <1>6 DEF b
  <2>2. Functional(s) /\ InArray(s) /\ (pending' = s => Stack!DeleteBuffer(b))
    BY <1>1, <1>4, <2>1, DeleteSettles
  <2>3. pending' = s /\ Stack!RecordDelete(b) /\ Consistent' /\ pc'[p] = Updating[pc[p]]
    BY <1>5, <1>6, <2>2
  <2>4. SettledFree' = [SettledFree EXCEPT ![b] = TRUE]
    BY <2>2, <2>3 DEF Stack!DeleteBuffer
  <2>5. Stack!Next
    BY <1>1, <2>1, <2>2, <2>3, SameBuffers DEF Stack!Next, Stack!Delete
  <2> QED BY <1>6, <2>3, <2>4, <2>5 DEF b
<1>7. CASE pc[p] # "delete" /\ stack.isFree[b]
  <2>1. s = PushStores(b)
    BY <1>2, <1>7
  <2>2. Functional(s) /\ InArray(s) /\ (pending' = s => Stack!Push(b))
    BY <1>1, <1>4, <1>7, <2>1, PushSettles
  <2>3. pending' = s /\ Stack!RecordUse(b) /\ Consistent' /\ pc'[p] = Updating[pc[p]]
    BY <1>5, <1>7, <2>2
  <2>4. SettledFree' = [SettledFree EXCEPT ![b] = FALSE]
    BY <2>2, <2>3 DEF Stack!Push
  <2>5. Stack!Next
    BY <1>1, <1>7, <2>2, <2>3, SameBuffers DEF Stack!Next, Stack!Access
  <2> QED BY <1>7, <2>3, <2>4, <2>5 DEF b
<1>8. CASE pc[p] # "delete" /\ ~stack.isFree[b]
  <2>1. s = MoveStores(b)
    BY <1>2, <1>8
  <2>2. Functional(s) /\ InArray(s) /\ (pending' = s => Stack!MoveToTheTop(b))
    BY <1>1, <1>4, <1>8, <2>1, MoveSettles
  <2>3. pending' = s /\ Stack!RecordUse(b) /\ Consistent' /\ pc'[p] = Updating[pc[p]]
    BY <1>5, <1>8, <2>2
  <2>4. SettledFree' = [SettledFree EXCEPT ![b] = FALSE]
    <3>1. SettledFree' = SettledFree
      BY <2>2, <2>3 DEF Stack!MoveToTheTop, Stack!links
    <3> QED BY <1>1, <1>8, <3>1
  <2>5. Stack!Next
    BY <1>1, <1>8, <2>2, <2>3, SameBuffers DEF Stack!Next, Stack!Access
  <2> QED BY <1>8, <2>3, <2>4, <2>5 DEF b
<1> QED BY <1>6, <1>7, <1>8

-----------------------------------------------------------------------------

(* Pages are dropped by nobody, or by the only backend there is. *)
Alone == Invalidators = {} \/ \A p, q \in Procs : p = q

AloneInv == Invalidators = {} => NothingFreed
IdleInv == stackHolder = NoProc => pending = <<>>

(* The buffers that are or will be stacked: the used ones, and those about to be deleted. *)
Settling == {"victim-update", "return", "pinned", "hit", "hit-update", "free", "delete"}
SettlingInv ==
  \A p \in Procs : /\ pc[p] \in Settling => ~SettledFree[buf[p]]
                   /\ pc[p] \in {"free", "delete"} => ~valid[buf[p]]
ValidInv == \A b \in Buffers : valid[b] => ~SettledFree[b]

OrderInv == AloneInv /\ LockInv /\ IdleInv /\ SettlingInv /\ ValidInv /\ Consistent /\ StackInv

settled == <<SettledNext, SettledPrev, SettledFree, SettledTop>>

LEMMA SameSettled ==
  ASSUME UNCHANGED <<stack, pending>>
  PROVE  UNCHANGED settled /\ Consistent' = Consistent
BY DEF settled, SettledNext, SettledPrev, SettledFree, SettledTop, Consistent

(* The stack changes as LruStack's does, and only where its lock is taken. *)
LEMMA OrderStep ==
  ASSUME TypeInv, OrderInv, NEW p \in Procs, Step(p)
  PROVE  /\ IF AcquireStackLock(p) THEN Stack!Next ELSE UNCHANGED <<settled, below>>
         /\ Consistent' /\ StackInv'
<1>0. TypeInv /\ Consistent /\ StackInv /\ IdleInv /\ SettlingInv
  BY DEF OrderInv
<1>1. CASE AcquireStackLock(p)
  <2>1. pending = <<>> /\ (pc[p] = "delete" => ~SettledFree[buf[p]])
    BY <1>0, <1>1 DEF AcquireStackLock, IdleInv, SettlingInv, Settling
  <2>2. Stack!Next /\ Consistent'
    BY <1>0, <1>1, <2>1, AcquireRefines
  <2> QED BY <1>0, <1>1, <2>2, StackStep
<1>2. CASE StoreLink(p) /\ ~AcquireStackLock(p)
  <2>1. UNCHANGED <<settled, below>> /\ Consistent'
    BY <1>0, <1>2, StoreKeepsSettled DEF StoreLink, settled
  <2> QED BY <1>0, <1>2, <2>1, StackStep DEF settled
<1>3. CASE ~StoreLink(p) /\ ~AcquireStackLock(p)
  <2>1. UNCHANGED <<stack, pending, below>>
    BY <1>3, OthersLeaveStack DEF Step, Update, ReleaseStackLock, stackVars
  <2>2. UNCHANGED <<settled, below>> /\ Consistent'
    BY <1>0, <2>1, SameSettled
  <2> QED BY <1>0, <1>3, <2>2, StackStep DEF settled
<1> QED BY <1>1, <1>2, <1>3

(* A backend comes to a settled buffer by a page it found in it, ... *)
LEMMA SettlingStep ==
  ASSUME TypeInv, NEW p \in Procs, Step(p), ~AcquireStackLock(p), pc'[p] \in Settling
  PROVE  (pc[p] \in Settling /\ buf'[p] = buf[p]) \/ valid[buf'[p]]
<1> DEFINE From == (pc[p] \in Settling /\ buf'[p] = buf[p]) \/ valid[buf'[p]]
<1>0. pc \in [Procs -> Labels] /\ buf \in [Procs -> Buffers] /\ pc'[p] \in Settling
  BY DEF TypeInv
<1> USE DEF Goto, Proceed, Finish, Settling
<1>1. ASSUME Allocate(p) PROVE From
  BY <1>0, <1>1 DEF Allocate, RingSlotUsable, RingSlotUnusable, ProbeFreelist, PopFreelist,
     TakePopped, DiscardPopped, ScanFromTop, ScanDown, RereadNext, TakeScanned, ScanUp,
     RereadPrev, AbortOnError, Follow
<1>2. ASSUME StoreLink(p) \/ ReleaseStackLock(p) PROVE From
  BY <1>0, <1>2 DEF StoreLink, ReleaseStackLock
<1>3. ASSUME Manage(p) PROVE From
  <2>1. CASE Hit(p) \/ Invalidate(p)
    BY <1>0, <2>1 DEF Hit, Invalidate
  <2> QED BY <1>0, <1>3, <2>1 DEF Manage, GetAccessStrategy, GetBuffer, PinVictim, RejectBuffer, Fill,
          Abandon, Collide, Unpin, FreeBuffer
<1> QED BY <1>1, <1>2, <1>3 DEF Step, Update

(* ... a buffer holds a page once its backend has filled it, ... *)
LEMMA ValidStep ==
  ASSUME TypeInv, NEW p \in Procs, Step(p), NEW b \in Buffers, valid'[b], ~valid[b]
  PROVE  pc[p] = "pinned" /\ buf[p] = b
<1> DEFINE Filled == pc[p] = "pinned" /\ buf[p] = b
<1>0. valid \in [Buffers -> BOOLEAN] /\ valid'[b] /\ ~valid[b]
  BY DEF TypeInv
<1>1. ASSUME Allocate(p) PROVE FALSE
  BY <1>0, <1>1 DEF Allocate, RingSlotUsable, RingSlotUnusable, ProbeFreelist, PopFreelist,
     TakePopped, DiscardPopped, ScanFromTop, ScanDown, RereadNext, TakeScanned, ScanUp,
     RereadPrev, AbortOnError, bufferVars
<1>2. ASSUME Update(p) PROVE FALSE
  BY <1>0, <1>2 DEF Update, AcquireStackLock, StoreLink, ReleaseStackLock, bufferVars
<1>3. ASSUME Manage(p) PROVE Filled
  BY <1>0, <1>3 DEF Manage, GetAccessStrategy, GetBuffer, PinVictim, RejectBuffer, Fill, Abandon,
     Collide, Hit, Unpin, Invalidate, FreeBuffer, bufferVars
<1> QED BY <1>1, <1>2, <1>3 DEF Step

(* ... and a buffer that is freed holds none. *)
LEMMA FreedStep ==
  ASSUME TypeInv, SettlingInv, NEW p \in Procs, Step(p), pc'[p] \in {"free", "delete"}
  PROVE  ~valid'[buf'[p]]
<1>0. /\ pc \in [Procs -> Labels] /\ buf \in [Procs -> Buffers] /\ valid \in [Buffers -> BOOLEAN]
      /\ pc[p] \in {"free", "delete"} => ~valid[buf[p]]
      /\ pc'[p] \in {"free", "delete"}
  BY DEF TypeInv, SettlingInv
<1> USE DEF Goto, Proceed, Finish
<1>1. ASSUME Allocate(p) PROVE FALSE
  BY <1>0, <1>1 DEF Allocate, RingSlotUsable, RingSlotUnusable, ProbeFreelist, PopFreelist,
     TakePopped, DiscardPopped, ScanFromTop, ScanDown, RereadNext, TakeScanned, ScanUp,
     RereadPrev, AbortOnError, Follow
<1>2. ASSUME Update(p) PROVE ~valid'[buf'[p]]
  BY <1>0, <1>2 DEF Update, AcquireStackLock, StoreLink, ReleaseStackLock, Updating, bufferVars
<1>3. ASSUME Manage(p) PROVE ~valid'[buf'[p]]
  <2>1. CASE FreeBuffer(p)
    BY <1>0, <2>1 DEF FreeBuffer, bufferVars
  <2>2. CASE Invalidate(p)
    BY <1>0, <2>2 DEF Invalidate
  <2> QED BY <1>0, <1>3, <2>1, <2>2 DEF Manage, GetAccessStrategy, GetBuffer, PinVictim, RejectBuffer,
          Fill, Abandon, Collide, Hit, Unpin
<1> QED BY <1>1, <1>2, <1>3 DEF Step

(* What is taken out of the stack is in the hand of the only backend. *)
LEMMA TakenOut ==
  ASSUME Alone, TypeInv, OrderInv, NEW p \in Procs, Step(p),
         NEW c \in Buffers, SettledFree'[c], ~SettledFree[c]
  PROVE  /\ AcquireStackLock(p) /\ pc[p] = "delete" /\ buf[p] = c /\ pc'[p] = "delete-update"
         /\ Procs = {p} /\ ~valid'[c]
<1>0. /\ pc \in [Procs -> Labels] /\ buf \in [Procs -> Buffers] /\ SettledFree \in [Buffers -> BOOLEAN]
      /\ AloneInv /\ SettlingInv /\ StackInv
  BY SameBuffers DEF OrderInv, TypeInv, StackInv, Stack!TypeOK
<1>1. AcquireStackLock(p)
  BY OrderStep DEF settled
<1>2. /\ SettledFree' = [SettledFree EXCEPT ![buf[p]] = (pc[p] = "delete")]
      /\ pc'[p] = Updating[pc[p]]
  <2>1. pending = <<>> /\ (pc[p] = "delete" => ~SettledFree[buf[p]])
    BY <1>1 DEF OrderInv, AcquireStackLock, IdleInv, SettlingInv, Settling
  <2> QED BY <1>0, <1>1, <2>1, AcquireRefines
<1>3. pc[p] = "delete" /\ buf[p] = c /\ pc'[p] = "delete-update"
  BY <1>0, <1>2 DEF Updating
<1>4. Procs = {p}
  BY <1>0, <1>3 DEF Alone, AloneInv, NothingFreed, Freeing
<1>5. ~valid'[c]
  BY <1>0, <1>1, <1>3 DEF SettlingInv, AcquireStackLock, bufferVars
<1> QED BY <1>1, <1>3, <1>4, <1>5

LEMMA OrderInvStep ==
  ASSUME Alone, TypeInv, TypeInv', OrderInv, NEW p \in Procs, Step(p)
  PROVE  OrderInv'
<1>0. /\ TypeInv /\ AloneInv /\ LockInv /\ IdleInv /\ SettlingInv /\ ValidInv
      /\ pc \in [Procs -> Labels] /\ buf \in [Procs -> Buffers] /\ valid \in [Buffers -> BOOLEAN]
      /\ SettledFree \in [Buffers -> BOOLEAN]
      /\ StackInv /\ Consistent
  BY SameBuffers DEF OrderInv, TypeInv, StackInv, Stack!TypeOK
<1>1. \A q \in Procs \ {p} : pc'[q] = pc[q] /\ buf'[q] = buf[q]
  BY <1>0, OthersStay
<1>2. AloneInv'
  <2>1. Invalidators = {} => pc'[p] \notin Freeing
    BY <1>0, NothingFreedStep DEF AloneInv
  <2> QED BY <1>0, <1>1, <2>1 DEF AloneInv, NothingFreed
<1>3. LockInv'
  BY <1>0, LockStep
<1>4. IdleInv'
  <2>1. CASE Update(p)
    BY <1>0, <2>1, StrategyAssumption DEF Update, AcquireStackLock, StoreLink, ReleaseStackLock, IdleInv
  <2>2. CASE Allocate(p) \/ Manage(p)
    BY <1>0, <2>2, OthersLeaveStack DEF IdleInv, stackVars
  <2> QED BY <2>1, <2>2 DEF Step
<1>5. ASSUME NEW c \in Buffers, SettledFree'[c], ~SettledFree[c]
      PROVE  pc[p] = "delete" /\ buf[p] = c /\ pc'[p] = "delete-update" /\ Procs = {p} /\ ~valid'[c]
  BY <1>5, TakenOut
<1>6. ASSUME NEW q \in Procs PROVE /\ pc'[q] \in Settling => ~SettledFree'[buf'[q]]
                                   /\ pc'[q] \in {"free", "delete"} => ~valid'[buf'[q]]
  <2>1. CASE q # p
    <3>1. pc'[q] = pc[q] /\ buf'[q] = buf[q] /\ buf[q] \in Buffers /\ Procs # {p}
      BY <1>0, <1>1, <2>1
    <3>2. pc[q] \notin {"free", "delete"}
      BY <1>0, <3>1 DEF Alone, AloneInv, NothingFreed, Freeing
    <3> QED BY <1>0, <1>5, <3>1, <3>2 DEF SettlingInv
  <2>2. CASE q = p
    <3>1. pc'[p] \in {"free", "delete"} => ~valid'[buf'[p]]
      BY <1>0, FreedStep
    <3>2. ASSUME pc'[p] \in Settling, AcquireStackLock(p) PROVE ~SettledFree'[buf'[p]]
      <4>1. pending = <<>> /\ (pc[p] = "delete" => ~SettledFree[buf[p]])
        BY <1>0, <3>2 DEF AcquireStackLock, IdleInv, SettlingInv, Settling
      <4>2. /\ SettledFree' = [SettledFree EXCEPT ![buf[p]] = (pc[p] = "delete")]
            /\ pc'[p] = Updating[pc[p]]
        BY <1>0, <3>2, <4>1, AcquireRefines
      <4>3. pc[p] # "delete" /\ buf'[p] = buf[p]
        BY <1>0, <3>2, <4>2 DEF Updating, Settling, AcquireStackLock, Proceed, Goto
      <4> QED BY <1>0, <4>2, <4>3
    <3>3. ASSUME pc'[p] \in Settling, ~AcquireStackLock(p) PROVE ~SettledFree'[buf'[p]]
      <4>1. (pc[p] \in Settling /\ buf'[p] = buf[p]) \/ valid[buf'[p]]
        BY <1>0, <3>3, SettlingStep
      <4>2. SettledFree' = SettledFree
        BY <3>3, OrderStep DEF settled
      <4>3. buf'[p] \in Buffers
        BY DEF TypeInv
      <4> QED BY <1>0, <4>1, <4>2, <4>3 DEF SettlingInv, ValidInv
    <3> QED BY <2>2, <3>1, <3>2, <3>3
  <2> QED BY <2>1, <2>2
<1>7. ASSUME NEW c \in Buffers, valid'[c] PROVE ~SettledFree'[c]
  <2>1. ~SettledFree[c]
    BY <1>0, <1>7, ValidStep DEF SettlingInv, ValidInv, Settling
  <2> QED BY <1>5, <1>7, <2>1
<1>8. Consistent' /\ StackInv'
  BY OrderStep
<1> QED BY <1>2, <1>3, <1>4, <1>6, <1>7, <1>8 DEF OrderInv, SettlingInv, ValidInv

LEMMA OrderInit == Init => OrderInv /\ Stack!Init
<1> SUFFICES ASSUME Init PROVE OrderInv /\ Stack!Init
  OBVIOUS
<1>0. TypeInv /\ pending = <<>> /\ \A p \in Procs : pc[p] = "idle"
  BY InitType DEF Init
<1>1. Stack!Init
  BY <1>0, NothingPending, SameBuffers DEF Init, Stack!Init
<1>2. StackInv
  BY <1>1, StackInitInv
<1>3. SettlingInv /\ AloneInv
  BY <1>0 DEF SettlingInv, Settling, AloneInv, NothingFreed, Freeing
<1>4. LockInv /\ IdleInv /\ Consistent
  BY <1>0, StrategyAssumption DEF Init, LockInv, Updates, IdleInv, Consistent
<1>5. ValidInv
  BY DEF Init, ValidInv
<1> QED BY <1>1, <1>2, <1>3, <1>4, <1>5 DEF OrderInv

LEMMA OrderNext ==
  ASSUME Alone
  PROVE  Inv /\ OrderInv /\ [Next]_vars => OrderInv' /\ [Stack!Next]_(Stack!vars)
<1> SUFFICES ASSUME Inv, OrderInv, [Next]_vars PROVE OrderInv' /\ [Stack!Next]_(Stack!vars)
  OBVIOUS
<1>1. CASE Next
  <2>1. PICK p \in Procs : Step(p)
    BY <1>1 DEF Next, Step
  <2>2. OrderInv'
    BY <2>1, StepInv, OrderInvStep DEF Inv
  <2>3. Stack!Next \/ UNCHANGED <<settled, below>>
    BY <2>1, OrderStep DEF Inv
  <2> QED BY <2>2, <2>3 DEF settled, Stack!vars
<1>2. CASE UNCHANGED vars
  <2>1. UNCHANGED <<settled, below>> /\ Consistent' = Consistent
    BY <1>2, SameSettled DEF vars
  <2>2. StackInv'
    BY <2>1, StackStep DEF OrderInv, settled
  <2>3. AloneInv' /\ LockInv' /\ IdleInv'
    BY <1>2 DEF OrderInv, vars, AloneInv, NothingFreed, LockInv, IdleInv
  <2>4. SettlingInv' /\ ValidInv'
    BY <1>2, <2>1 DEF OrderInv, vars, bufferVars, settled, SettlingInv, ValidInv
  <2> QED BY <2>1, <2>2, <2>3, <2>4 DEF OrderInv, settled, Stack!vars
<1> QED BY <1>1, <1>2

(***************************************************************************)
(* The stores of push, moveToTheTop and deleteBuffer, made one at a time   *)
(* while others read, carry out the accesses and deletions of LruStack,    *)
(* whatever the number of backends and buffers.                            *)
(***************************************************************************)
THEOREM StackImplemented == ASSUME Alone PROVE Spec => ImplementsStack
<1>1. Init => Inv /\ OrderInv /\ Stack!Init
  BY InitInv, OrderInit
<1>2. Inv /\ OrderInv /\ [Next]_vars => Inv' /\ OrderInv' /\ [Stack!Next]_(Stack!vars)
  BY StepInv, OrderNext
<1> QED BY <1>1, <1>2, PTL DEF Spec, ImplementsStack, Stack!Spec

(***************************************************************************)
(* So the links the scan follows are the order of last use.                *)
(***************************************************************************)
THEOREM LinksCorrect == ASSUME Alone PROVE Spec => []LinksFollowRecency
<1>1. Init => Inv /\ OrderInv
  BY InitInv, OrderInit
<1>2. Inv /\ OrderInv /\ [Next]_vars => Inv' /\ OrderInv'
  BY StepInv, OrderNext
<1>3. OrderInv => LinksFollowRecency
  BY DEF OrderInv, StackInv, LinksFollowRecency
<1> QED BY <1>1, <1>2, <1>3, PTL DEF Spec

LEMMA LeastNat ==
  ASSUME NEW T, T \subseteq Nat, T # {}
  PROVE  \E x \in T : \A y \in T : x <= y
<1>1. \A R : IsWellFoundedOn(R, Nat) => \E x \in T : \A y \in T : ~ (<<y, x>> \in R)
  BY WFMin
<1>2. IsWellFoundedOn({xy \in Nat \X Nat : xy[1] < xy[2]}, Nat)
  BY NatLessThanWellFounded DEF OpToRel
<1>3. PICK x \in T : \A y \in T : ~ (<<y, x>> \in {xy \in Nat \X Nat : xy[1] < xy[2]})
  BY <1>1, <1>2
<1>4. ASSUME NEW y \in T, y < x PROVE FALSE
  <2>1. <<y, x>> \in Nat \X Nat
    OBVIOUS
  <2>2. <<y, x>>[1] = y /\ <<y, x>>[2] = x
    OBVIOUS
  <2>3. <<y, x>> \in {xy \in Nat \X Nat : xy[1] < xy[2]}
    BY <1>4, <2>1, <2>2
  <2> QED BY <1>3, <2>3
<1>5. \A y \in T : x <= y
  BY <1>4
<1> QED BY <1>5

(* A set that follows the links down from the top leaves out no node: of the *)
(* nodes it left out, the most recently used would be linked from one in it. *)
LEMMA NoneLeftOut ==
  ASSUME NEW Nodes, Nodes \subseteq Buffers, NEW S,
         \A a \in Nodes : below[a] \subseteq Nodes \ {a},
         \A a \in Nodes : a \in S \/ \E c \in Nodes \ S : a \in below[c] /\ below[a] \subseteq below[c]
  PROVE  Nodes \subseteq S
<1> SUFFICES ASSUME Nodes \ S # {} PROVE FALSE
  OBVIOUS
<1> DEFINE Depth(a) == Cardinality(below[a])
           Height(a) == NBuffers - Depth(a)
           Heights == {Height(a) : a \in Nodes \ S}
<1>1. \A a \in Nodes : IsFiniteSet(below[a]) /\ Depth(a) \in Nat /\ Height(a) \in Nat
  <2> TAKE a \in Nodes
  <2>1. Buffers = 0 .. NBuffers - 1 /\ NBuffers \in Nat /\ below[a] \subseteq Buffers
    BY NBuffersAssumption DEF Buffers
  <2>2. IsFiniteSet(Buffers) /\ Cardinality(Buffers) = NBuffers
    BY <2>1, FS_Interval, NBuffersAssumption
  <2>3. IsFiniteSet(below[a]) /\ Cardinality(below[a]) <= NBuffers
    BY <2>1, <2>2, FS_Subset
  <2>4. Cardinality(below[a]) \in Nat
    BY <2>3, FS_CardinalityType
  <2> QED BY <2>1, <2>3, <2>4
<1> HIDE DEF Height, Depth
<1>2. Heights \subseteq Nat /\ Heights # {}
  BY <1>1
<1>3. PICK h \in Heights : \A g \in Heights : h <= g
  BY <1>2, LeastNat
<1>4. PICK a \in Nodes \ S : h = Height(a)
  BY <1>3
<1>5. PICK c \in Nodes \ S : a \in below[c] /\ below[a] \subseteq below[c]
  BY <1>4
<1>6. Depth(a) < Depth(c)
  <2>1. a \notin below[a]
    BY <1>4
  <2>2. below[a] # below[c]
    BY <1>5, <2>1
  <2>3. Cardinality(below[a]) <= Cardinality(below[c])
         /\ (Cardinality(below[a]) = Cardinality(below[c]) => below[a] = below[c])
    BY <1>1, <1>5, FS_Subset
  <2> QED BY <1>1, <2>2, <2>3 DEF Depth
<1>7. Height(c) < Height(a)
  BY <1>1, <1>6, NBuffersAssumption DEF Height
<1>8. Height(a) <= Height(c)
  BY <1>3, <1>4
<1> QED BY <1>1, <1>7, <1>8

LEMMA LinksComplete == TypeInv /\ OrderInv => StackIsComplete
<1> SUFFICES ASSUME TypeInv, OrderInv, stackHolder = NoProc
             PROVE  StackIsComplete
  BY DEF StackIsComplete
<1>1. pending = <<>>
  BY DEF OrderInv, IdleInv
<1>2. /\ SettledNext = stack.next /\ SettledPrev = stack.prev
      /\ SettledFree = stack.isFree /\ SettledTop = stack.top
  BY <1>1, NothingPending
<1> DEFINE Nodes == {b \in Buffers : ~stack.isFree[b]}
<1>3. Stack!Stacked = Nodes
  BY <1>2, SameBuffers DEF Stack!Stacked
<1>4. /\ Stack!RecencyOrders /\ Stack!TopIsNewest /\ Stack!NextIsOlderNeighbour /\ Stack!PrevInvertsNext
      /\ NOT_IN_STACK \notin Buffers
  BY BufferZero DEF OrderInv, StackInv, Stack!LinksFollowRecency
<1>5. stack.top \in Buffers => stack.top \in Nodes
  BY <1>2, <1>3, <1>4, SameBuffers DEF Stack!TopIsNewest
<1>6. \A a \in Nodes : stack.next[a] \in Buffers =>
        stack.next[a] \in Nodes /\ below[a] = {stack.next[a]} \cup below[stack.next[a]]
  BY <1>2, <1>3, <1>4, SameBuffers DEF Stack!NextIsOlderNeighbour
<1>7. \A a \in Nodes : IF stack.prev[a] = NOT_IN_STACK
                       THEN a = stack.top
                       ELSE stack.prev[a] \in Nodes /\ stack.next[stack.prev[a]] = a
  BY <1>2, <1>3, <1>4, SameBuffers DEF Stack!PrevInvertsNext
<1>8. \A a \in Nodes : below[a] \subseteq Nodes \ {a}
  BY <1>3, <1>4, SameBuffers DEF Stack!RecencyOrders
<1>9. ASSUME NEW S \in SUBSET Buffers, HoldsLinked(S)
      PROVE  Nodes \subseteq S
  <2>1. ASSUME NEW a \in Nodes, a \notin S
        PROVE  \E c \in Nodes \ S : a \in below[c] /\ below[a] \subseteq below[c]
    <3>1. a # stack.top
      BY <1>9, <2>1 DEF HoldsLinked
    <3>2. stack.prev[a] \in Nodes /\ stack.next[stack.prev[a]] = a
      BY <1>7, <3>1
    <3>3. stack.prev[a] \notin S
      BY <1>9, <2>1, <3>2 DEF HoldsLinked
    <3> QED BY <1>6, <3>2, <3>3
  <2>2. \A a \in Nodes : a \in S \/ \E c \in Nodes \ S : a \in below[c] /\ below[a] \subseteq below[c]
    BY <2>1
  <2>3. Nodes \subseteq Buffers
    OBVIOUS
  <2> HIDE DEF Nodes
  <2> QED BY <1>8, <2>2, <2>3, NoneLeftOut
<1>10. HoldsLinked(Nodes)
  BY <1>5, <1>6 DEF HoldsLinked
<1>11. \A S \in SUBSET Buffers : HoldsLinked(S) => Nodes \subseteq S
  BY <1>9
<1> QED BY <1>10, <1>11, Zenon DEF StackIsComplete

(***************************************************************************)
(* Following the links from the top one meets every node of the stack.     *)
(***************************************************************************)
THEOREM StackCorrect == ASSUME Alone PROVE Spec => []StackIsComplete
<1>1. Init => Inv /\ OrderInv
  BY InitInv, OrderInit
<1>2. Inv /\ OrderInv /\ [Next]_vars => Inv' /\ OrderInv'
  BY StepInv, OrderNext
<1>3. Inv /\ OrderInv => StackIsComplete
  BY LinksComplete DEF Inv
<1> QED BY <1>1, <1>2, <1>3, PTL DEF Spec

-----------------------------------------------------------------------------
(* Nothing is lost *)

(* A buffer that is not stacked, or about to leave the stack, is not in use. *)
Unused(b) == usage[b] = 0 /\ \A q \in Procs : b \notin pins[q]
UnusedInv == \A b \in Buffers : SettledFree[b] => Unused(b)
FreedInv == \A p \in Procs : /\ pc[p] \in {"free", "delete"} => Unused(buf[p])
                             /\ pc[p] = "delete" => buf[p] \in Listed

(* What has yet to be marked as stacked is the victim of the update. *)
MarkInv ==
  \A b \in Buffers : stack.isFree[b] /\ ~SettledFree[b] => \E p \in Procs : buf[p] = b /\ pc[p] = "victim-update"

(* What is not stacked is on the freelist or in the hand of a backend that will stack it. *)
InHand(p, b) == buf[p] = b /\ pc[p] \in {"check", "victim"}
FoundInv == \A b \in Buffers : SettledFree[b] => b \in Listed \/ \E p \in Procs : InHand(p, b)

KeptInv == FreelistIsChain /\ UnusedInv /\ FreedInv /\ MarkInv /\ FoundInv

LEMMA UnusedStep ==
  ASSUME TypeInv, OrderInv, UnusedInv, NEW p \in Procs, Step(p), NEW b \in Buffers, SettledFree[b]
  PROVE  Unused(b)'
<1>0. /\ usage[b] = 0 /\ \A q \in Procs : b \notin pins[q]
      /\ ~valid[b] /\ (pc[p] \in {"return", "pinned"} => buf[p] # b)
      /\ usage \in [Buffers -> Nat] /\ pins \in [Procs -> SUBSET Buffers]
  BY DEF TypeInv, OrderInv, UnusedInv, Unused, ValidInv, SettlingInv, Settling
<1> USE DEF Unused
<1>1. ASSUME Allocate(p) PROVE Unused(b)'
  BY <1>0, <1>1 DEF Allocate, RingSlotUsable, RingSlotUnusable, ProbeFreelist, PopFreelist,
     TakePopped, DiscardPopped, ScanFromTop, ScanDown, RereadNext, TakeScanned, ScanUp,
     RereadPrev, AbortOnError, bufferVars
<1>2. ASSUME Update(p) PROVE Unused(b)'
  BY <1>0, <1>2 DEF Update, AcquireStackLock, StoreLink, ReleaseStackLock, bufferVars
<1>3. ASSUME Manage(p) PROVE Unused(b)'
  BY <1>0, <1>3 DEF Manage, GetAccessStrategy, GetBuffer, PinVictim, RejectBuffer, Fill, Abandon,
     Collide, Hit, Unpin, Unpinned, Invalidate, FreeBuffer, bufferVars
<1> QED BY <1>1, <1>2, <1>3 DEF Step

(* Only a pop takes a buffer off the freelist, into the hand of its backend. *)
LEMMA ListedStep ==
  ASSUME TypeInv, FreelistIsChain, NEW p \in Procs, Step(p), NEW b \in Listed
  PROVE  b \in Listed' \/ InHand(p, b)'
<1>0. /\ buf \in [Procs -> Buffers] /\ pc \in [Procs -> Labels] /\ freeNext \in [Buffers -> FreeLinks]
      /\ b \in Buffers /\ freeNext[b] # FREENEXT_NOT_IN_LIST
      /\ firstFree # FREENEXT_NOT_IN_LIST
  BY HeadOfChain DEF TypeInv, Listed
<1>1. ASSUME UNCHANGED freelistVars PROVE b \in Listed'
  BY <1>0, <1>1 DEF Listed, freelistVars, Buffers
<1>2. CASE PopFreelist(p)
  BY <1>0, <1>1, <1>2 DEF PopFreelist, InHand, Goto, Listed, Buffers
<1>3. CASE FreeBuffer(p)
  BY <1>0, <1>1, <1>3 DEF FreeBuffer, Listed, Buffers
<1>4. ASSUME ~PopFreelist(p), ~FreeBuffer(p) PROVE UNCHANGED freelistVars
  BY <1>4, FreelistUnchanged
<1> QED BY <1>1, <1>2, <1>3, <1>4

(* A buffer in the hand of p stays there until it is stacked. *)
LEMMA HandStep ==
  ASSUME TypeInv, OrderInv, UnusedInv, NEW p \in Procs, Step(p),
         NEW b \in Buffers, SettledFree[b], SettledFree'[b], InHand(p, b)
  PROVE  InHand(p, b)'
<1>0. /\ pc \in [Procs -> Labels] /\ buf \in [Procs -> Buffers] /\ buf[p] = b
      /\ pc[p] \in {"check", "victim"}
  BY DEF TypeInv, InHand
<1>u. NotPinned(b) /\ usage[b] = 0
  BY NobodyPins DEF UnusedInv, Unused, NotPinned
<1> USE DEF Goto, Proceed, Finish, InHand
<1>1. CASE Allocate(p)
  <2>1. TakePopped(p)
    BY <1>0, <1>u, <1>1 DEF Allocate, RingSlotUsable, RingSlotUnusable, ProbeFreelist, PopFreelist,
       DiscardPopped, ScanFromTop, ScanDown, RereadNext, TakeScanned, ScanUp, RereadPrev, AbortOnError
  <2> QED BY <1>0, <2>1 DEF TakePopped
<1>2. CASE AcquireStackLock(p)
  <2>1. pending = <<>> /\ pc[p] = "victim" /\ StackInv
    BY <1>0, <1>2 DEF AcquireStackLock, OrderInv, IdleInv
  <2>2. SettledFree' = [SettledFree EXCEPT ![buf[p]] = (pc[p] = "delete")]
    BY <1>2, <2>1, AcquireRefines
  <2>3. SettledFree \in [Buffers -> BOOLEAN]
    BY <2>1, SameBuffers DEF StackInv, Stack!TypeOK
  <2> QED BY <1>0, <2>1, <2>2, <2>3
<1>3. CASE StoreLink(p) \/ ReleaseStackLock(p)
  BY <1>0, <1>3 DEF StoreLink, ReleaseStackLock, OrderInv, LockInv, Updates
<1>4. CASE Manage(p)
  BY <1>0, <1>4 DEF Manage, GetAccessStrategy, GetBuffer, PinVictim, RejectBuffer, Fill, Abandon,
     Collide, Hit, Unpin, Invalidate, FreeBuffer
<1> QED BY <1>1, <1>2, <1>3, <1>4 DEF Step, Update

LEMMA FoundStep ==
  ASSUME Alone, TypeInv, OrderInv, KeptInv, NEW p \in Procs, Step(p)
  PROVE  FoundInv'
<1> SUFFICES ASSUME NEW b \in Buffers, SettledFree'[b], b \notin Listed'
             PROVE  \E q \in Procs : InHand(q, b)'
  BY DEF FoundInv, Buffers
<1>1. CASE ~SettledFree[b]
  <2>1. AcquireStackLock(p) /\ pc[p] = "delete" /\ buf[p] = b
    BY <1>1, TakenOut
  <2>2. b \in Listed /\ Listed' = Listed
    BY <2>1 DEF KeptInv, FreedInv, AcquireStackLock, freelistVars, Listed, Buffers
  <2> QED BY <2>2
<1>2. CASE SettledFree[b] /\ b \in Listed
  BY <1>2, ListedStep DEF KeptInv
<1>3. CASE SettledFree[b] /\ b \notin Listed
  <2>1. PICK q \in Procs : InHand(q, b)
    BY <1>3 DEF KeptInv, FoundInv
  <2>2. CASE q = p
    BY <1>3, <2>1, <2>2, HandStep DEF KeptInv
  <2>3. CASE q # p
    BY <2>1, <2>3, OthersStay DEF InHand
  <2> QED BY <2>2, <2>3
<1> QED BY <1>1, <1>2, <1>3

LEMMA FreedInvStep ==
  ASSUME Alone, TypeInv, OrderInv, KeptInv, NEW p \in Procs, Step(p)
  PROVE  FreedInv'
<1> SUFFICES ASSUME NEW q \in Procs, pc'[q] \in {"free", "delete"}
             PROVE  Unused(buf[q])' /\ (pc'[q] = "delete" => buf'[q] \in Listed')
  BY DEF FreedInv
<1>0. /\ pc \in [Procs -> Labels] /\ buf \in [Procs -> Buffers] /\ AloneInv /\ LockInv
      /\ pins \in [Procs -> SUBSET Buffers] /\ usage \in [Buffers -> Nat]
      /\ freeNext \in [Buffers -> FreeLinks]
      /\ firstFree # FREENEXT_NOT_IN_LIST
      /\ pc[q] \in {"free", "delete"} => Unused(buf[q])
  BY HeadOfChain DEF TypeInv, OrderInv, KeptInv, FreedInv
<1>1. q = p /\ Procs = {p}
  <2>1. Invalidators # {}
    <3>1. Invalidators = {} => NothingFreed
      BY <1>0 DEF AloneInv
    <3> QED BY <1>0, <3>1, NothingFreedStep, OthersStay DEF NothingFreed, Freeing
  <2> QED BY <2>1 DEF Alone
<1> USE DEF Goto, Proceed, Finish
<1>2. ASSUME Allocate(p) PROVE FALSE
  BY <1>0, <1>1, <1>2 DEF Allocate, RingSlotUsable, RingSlotUnusable, ProbeFreelist, PopFreelist,
     TakePopped, DiscardPopped, ScanFromTop, ScanDown, RereadNext, TakeScanned, ScanUp,
     RereadPrev, AbortOnError, Follow
<1>3. ASSUME Update(p) PROVE FALSE
  <2>1. CASE AcquireStackLock(p) \/ ReleaseStackLock(p)
    BY <1>0, <1>1, <2>1 DEF AcquireStackLock, ReleaseStackLock, Updating
  <2>2. CASE StoreLink(p)
    BY <1>0, <1>1, <2>2 DEF StoreLink, LockInv, Updates
  <2> QED BY <1>3, <2>1, <2>2 DEF Update
<1>4. CASE Invalidate(p)
  <2>1. /\ pc'[p] = "free" /\ buf'[p] \in Buffers /\ usage'[buf'[p]] = 0 /\ pins' = pins
        /\ RefCount(buf'[p]) = 0
    BY <1>0, <1>4 DEF Invalidate
  <2> DEFINE b == buf'[p]
  <2>2. {r \in Procs : b \in pins[r]} = {}
    <3>1. IsFiniteSet({p})
      BY FS_Singleton
    <3>2. IsFiniteSet({r \in Procs : b \in pins[r]})
      BY <1>1, <3>1, FS_Subset
    <3> QED BY <2>1, <3>2, FS_EmptySet DEF RefCount
  <2> QED BY <1>1, <2>1, <2>2 DEF Unused
<1>5. CASE FreeBuffer(p)
  <2>1. /\ buf' = buf /\ pc'[p] = "delete" /\ UNCHANGED <<pins, usage>> /\ pc[p] = "free"
        /\ freeNext' = [freeNext EXCEPT ![buf[p]] = firstFree]
    BY <1>0, <1>1, <1>5 DEF FreeBuffer, bufferVars
  <2>2. Unused(buf[p])'
    BY <1>0, <1>1, <2>1 DEF Unused
  <2>3. buf'[p] \in Listed'
    BY <1>0, <2>1 DEF Listed, Buffers
  <2> QED BY <1>1, <2>2, <2>3
<1>6. ASSUME Manage(p), ~Invalidate(p), ~FreeBuffer(p) PROVE FALSE
  BY <1>0, <1>1, <1>6 DEF Manage, GetAccessStrategy, GetBuffer, PinVictim, RejectBuffer, Fill, Abandon,
     Collide, Hit, Unpin
<1> QED BY <1>2, <1>3, <1>4, <1>5, <1>6 DEF Step

LEMMA MarkStep ==
  ASSUME TypeInv, OrderInv, MarkInv, NEW p \in Procs, Step(p)
  PROVE  MarkInv'
<1> SUFFICES ASSUME NEW b \in Buffers, stack'.isFree[b], ~SettledFree'[b]
             PROVE  \E q \in Procs : buf'[q] = b /\ pc'[q] = "victim-update"
  BY DEF MarkInv, Buffers
<1>0. /\ pc \in [Procs -> Labels] /\ buf \in [Procs -> Buffers] /\ TypeInv /\ StackInv /\ SettlingInv
      /\ LockInv /\ SettledFree \in [Buffers -> BOOLEAN] /\ stack \in Links
  BY SameBuffers DEF TypeInv, OrderInv, StackInv, Stack!TypeOK
<1>1. CASE AcquireStackLock(p)
  <2>1. pending = <<>> /\ stack' = stack /\ SettledFree = stack.isFree /\ buf' = buf
        /\ pc[p] \in {"victim", "hit", "delete"}
    BY <1>0, <1>1, NothingPending DEF AcquireStackLock, OrderInv, IdleInv, Proceed, Goto
  <2>2. /\ SettledFree' = [SettledFree EXCEPT ![buf[p]] = (pc[p] = "delete")]
        /\ pc'[p] = Updating[pc[p]]
    <3>1. pc[p] = "delete" => ~SettledFree[buf[p]]
      BY <1>0 DEF SettlingInv, Settling
    <3> QED BY <1>0, <1>1, <2>1, <3>1, AcquireRefines
  <2>3. b = buf[p] /\ pc[p] # "delete" /\ SettledFree[b]
    BY <1>0, <2>1, <2>2
  <2>4. pc[p] = "victim"
    BY <1>0, <2>1, <2>3 DEF SettlingInv, Settling
  <2>5. Updating["victim"] = "victim-update"
    BY DEF Updating
  <2> QED BY <2>1, <2>2, <2>3, <2>4, <2>5
<1>2. CASE ~AcquireStackLock(p)
  <2>1. ~SettledFree[b]
    BY <1>2, OrderStep DEF settled
  <2>2. stack.isFree[b]
    <3>1. CASE StoreLink(p)
      <4>1. CASE ~stack.isFree[b]
        <5>1. pending[1].field = "isFree" /\ pending[1].at = b /\ pending[1].value = TRUE
          BY <1>0, <3>1, <4>1, FirstStore, AssignPlaces
        <5>2. Stored(pending, "isFree", b, TRUE)
          BY <3>1, <5>1, FirstStore DEF Stored, Is
        <5>3. \A v : Stored(pending, "isFree", b, v) => v = TRUE
          BY <5>2 DEF OrderInv, Consistent, Stored, Is
        <5>4. SettledFree[b] = TRUE
          BY <1>0, <5>2, <5>3, SettledAs DEF SettledFree, TypeInv
        <5> QED BY <2>1, <5>4
      <4> QED BY <4>1
    <3>2. CASE ~StoreLink(p)
      BY <1>2, <3>2, OthersLeaveStack DEF Step, Update, ReleaseStackLock, stackVars
    <3> QED BY <3>1, <3>2
  <2>3. PICK q \in Procs : buf[q] = b /\ pc[q] = "victim-update"
    BY <2>1, <2>2 DEF MarkInv
  <2>4. ~ReleaseStackLock(p)
    BY <1>0, <2>1, <2>2, NothingPending DEF ReleaseStackLock
  <2>5. buf'[q] = b /\ pc'[q] = "victim-update"
    BY <1>0, <1>2, <2>3, <2>4, UpdateKept DEF Updates
  <2> QED BY <2>5
<1> QED BY <1>1, <1>2

LEMMA KeptStep ==
  ASSUME Alone
  PROVE  Inv /\ OrderInv /\ KeptInv /\ [Next]_vars => KeptInv'
<1> SUFFICES ASSUME Inv, OrderInv, KeptInv, [Next]_vars PROVE KeptInv'
  OBVIOUS
<1>1. CASE Next
  <2>1. PICK p \in Procs : Step(p)
    BY <1>1 DEF Next, Step
  <2>2. TypeInv /\ FreelistIsChain /\ UnusedInv /\ FreedInv /\ MarkInv
    BY DEF Inv, KeptInv
  <2>3. UnusedInv'
    <3> SUFFICES ASSUME NEW b \in Buffers, SettledFree'[b] PROVE Unused(b)'
      BY DEF UnusedInv, Buffers
    <3>1. CASE SettledFree[b]
      BY <2>1, <2>2, <3>1, UnusedStep
    <3>2. CASE ~SettledFree[b]
      <4>1. AcquireStackLock(p) /\ pc[p] = "delete" /\ buf[p] = b
        BY <2>1, <2>2, <3>2, TakenOut
      <4>2. Unused(b) /\ UNCHANGED <<usage, pins>>
        BY <2>2, <4>1 DEF FreedInv, AcquireStackLock, bufferVars
      <4> QED BY <4>2 DEF Unused
    <3> QED BY <3>1, <3>2
  <2> QED BY <2>1, <2>2, <2>3, ChainStep, FreedInvStep, MarkStep, FoundStep DEF KeptInv
<1>2. CASE UNCHANGED vars
  <2>1. /\ UNCHANGED <<freeNext, firstFree, lastFree, usage, pins, pc, buf, stack>>
        /\ SettledFree' = SettledFree
    BY <1>2, SameSettled DEF vars, freelistVars, bufferVars, settled
  <2>2. Listed' = Listed /\ FreelistIsChain' = FreelistIsChain
    BY <2>1 DEF Listed, FreelistIsChain, ChainOf
  <2>3. UnusedInv' /\ FreedInv'
    BY <2>1, <2>2 DEF KeptInv, UnusedInv, Unused, FreedInv
  <2>4. MarkInv' /\ FoundInv'
    BY <2>1, <2>2 DEF KeptInv, MarkInv, FoundInv, InHand
  <2> QED BY <2>2, <2>3, <2>4 DEF KeptInv
<1> QED BY <1>1, <1>2

LEMMA KeptInit == Init => KeptInv
<1> SUFFICES ASSUME Init PROVE KeptInv
  OBVIOUS
<1>1. FreelistIsChain
  BY ChainInit
<1>2. Listed = Buffers
  BY AllListed
<1>3. \A p \in Procs : pc[p] = "idle" /\ pins[p] = {}
  BY DEF Init
<1>4. UnusedInv /\ FreedInv /\ FoundInv
  BY <1>2, <1>3 DEF Init, UnusedInv, Unused, FreedInv, FoundInv
<1>5. SettledFree = stack.isFree
  BY InitType, NothingPending DEF Init
<1> QED BY <1>1, <1>4, <1>5 DEF KeptInv, MarkInv

(***************************************************************************)
(* Every buffer can be found again: one that a backend pops and then finds *)
(* in use, and forgets, is in the stack already.                           *)
(***************************************************************************)
THEOREM NothingIsLost == ASSUME Alone PROVE Spec => []NoBufferLost
<1>1. Init => Inv /\ OrderInv /\ KeptInv
  BY InitInv, OrderInit, KeptInit
<1>2. Inv /\ OrderInv /\ KeptInv /\ [Next]_vars => Inv' /\ OrderInv' /\ KeptInv'
  BY StepInv, OrderNext, KeptStep
<1>3. KeptInv => NoBufferLost
  BY DEF KeptInv, MarkInv, FoundInv, InHand, Listed, NoBufferLost
<1> QED BY <1>1, <1>2, <1>3, PTL DEF Spec

-----------------------------------------------------------------------------
(* The scan stays in the array *)

(* The stack has a top, but for the moment of its first push. *)
FirstPush ==
  stack.top = NOT_IN_STACK =>
    \A b \in Buffers : SettledFree[b] \/ \E p \in Procs : buf[p] = b /\ pc[p] = "victim-update"

(* A scan finds the freelist empty, and no link that another read takes away. *)
ScanInv ==
  \A p \in Procs : /\ pc[p] = "scan" => firstFree = EndOfList
                   /\ pc[p] \notin {"reread-next", "reread-prev", "wild"}

(* A stack that is settled without a top is empty. *)
LEMMA EmptySettled == StackInv /\ SettledTop = NOT_IN_STACK => \A c \in Buffers : SettledFree[c]
BY SameBuffers DEF StackInv, Stack!LinksFollowRecency, Stack!TopIsNewest, Stack!Stacked

LEMMA PushStep ==
  ASSUME TypeInv, TypeInv', OrderInv, OrderInv', FirstPush, NEW p \in Procs, Step(p), pc[p] # "delete"
  PROVE  FirstPush'
<1> SUFFICES ASSUME stack'.top = NOT_IN_STACK, NEW b \in Buffers, ~SettledFree'[b]
             PROVE  \E q \in Procs : buf'[q] = b /\ pc'[q] = "victim-update"
  BY DEF FirstPush
<1>0. /\ pc \in [Procs -> Labels] /\ buf \in [Procs -> Buffers] /\ TypeInv /\ StackInv /\ SettlingInv
      /\ LockInv
  BY DEF TypeInv, OrderInv
<1>1. /\ SettledTop = NOT_IN_STACK => \A c \in Buffers : SettledFree[c]
      /\ SettledTop' = NOT_IN_STACK => \A c \in Buffers : SettledFree'[c]
  <2>1. (StackInv /\ SettledTop = NOT_IN_STACK => \A c \in Buffers : SettledFree[c])'
    BY EmptySettled, PTL
  <2> QED BY EmptySettled, <2>1 DEF OrderInv
<1>2. CASE AcquireStackLock(p)
  <2>1. pending = <<>> /\ stack' = stack /\ stack.top = NOT_IN_STACK
    BY <1>2 DEF AcquireStackLock, OrderInv, IdleInv
  <2>2. \A c \in Buffers : SettledFree[c]
    BY <1>0, <1>1, <2>1, NothingPending
  <2>3. pc[p] = "victim"
    BY <1>0, <1>2, <2>2 DEF AcquireStackLock, SettlingInv, Settling
  <2>4. /\ SettledFree' = [SettledFree EXCEPT ![buf[p]] = FALSE]
        /\ pc'[p] = "victim-update" /\ buf' = buf
    <3>1. /\ pc'[p] = Updating[pc[p]]
          /\ SettledFree' = [SettledFree EXCEPT ![buf[p]] = (pc[p] = "delete")]
      BY <1>0, <1>2, <2>1, <2>3, AcquireRefines
    <3>2. Updating["victim"] = "victim-update"
      BY DEF Updating
    <3>3. buf' = buf
      BY <1>0, <1>2 DEF AcquireStackLock, Proceed, Goto
    <3> QED BY <1>0, <2>3, <3>1, <3>2, <3>3
  <2>5. b = buf[p]
    BY <1>0, <2>2, <2>4
  <2> QED BY <2>4, <2>5
<1>3. CASE ~AcquireStackLock(p)
  <2>1. UNCHANGED settled
    BY <1>3, OrderStep
  <2>2. SettledTop # NOT_IN_STACK
    BY <1>1, <2>1 DEF settled
  <2>3. stack.top = NOT_IN_STACK
    <3>1. CASE StoreLink(p)
      <4>1. CASE stack'.top # stack.top
        <5>1. pending[1].field = "top" /\ pending[1].at = 0 /\ pending[1].value = NOT_IN_STACK
          BY <1>0, <3>1, <4>1, FirstStore, AssignPlaces DEF TypeInv
        <5>2. Stored(pending, "top", 0, NOT_IN_STACK)
          BY <3>1, <5>1, FirstStore DEF Stored, Is
        <5>3. \A v : Stored(pending, "top", 0, v) => v = NOT_IN_STACK
          BY <5>2 DEF OrderInv, Consistent, Stored, Is
        <5>4. SettledTop = NOT_IN_STACK
          BY <1>0, <5>2, <5>3, SettledAs DEF SettledTop, TypeInv
        <5> QED BY <2>2, <5>4
      <4> QED BY <4>1
    <3>2. CASE ~StoreLink(p)
      BY <1>3, <3>2, OthersLeaveStack DEF Step, Update, ReleaseStackLock, stackVars
    <3> QED BY <3>1, <3>2
  <2>4. PICK q \in Procs : buf[q] = b /\ pc[q] = "victim-update"
    BY <2>1, <2>3 DEF FirstPush, settled
  <2>5. ~ReleaseStackLock(p)
    BY <1>0, <2>2, <2>3, NothingPending DEF ReleaseStackLock
  <2>6. buf'[q] = b /\ pc'[q] = "victim-update"
    BY <1>0, <1>3, <2>4, <2>5, UpdateKept DEF Updates
  <2> QED BY <2>6
<1> QED BY <1>2, <1>3

(* More buffers than backends: not every buffer is in the hand of another one. *)
LEMMA TooFewHands ==
  ASSUME IsFiniteSet(Procs), Cardinality(Procs) <= NBuffers, NEW p \in Procs, NEW holder,
         \A b \in Buffers : holder[b] \in Procs \ {p}
  PROVE  \E b, c \in Buffers : b # c /\ holder[b] = holder[c]
<1>1. IsFiniteSet(Buffers) /\ Cardinality(Buffers) = NBuffers
  <2>1. Buffers = 0 .. NBuffers - 1
    BY DEF Buffers
  <2> QED BY <2>1, FS_Interval, NBuffersAssumption
<1>2. IsFiniteSet(Procs \ {p}) /\ Cardinality(Procs \ {p}) = Cardinality(Procs) - 1
  BY FS_RemoveElement
<1>3. Cardinality(Procs) \in Nat
  BY FS_CardinalityType
<1>4. Cardinality(Buffers) > Cardinality(Procs \ {p})
  BY <1>1, <1>2, <1>3, NBuffersAssumption
<1> DEFINE f == [x \in Buffers |-> holder[x]]
<1>5. f \in [Buffers -> Procs \ {p}] /\ \A x \in Buffers : f[x] = holder[x]
  OBVIOUS
<1> HIDE DEF f
<1>6. \E b, c \in Buffers : b # c /\ f[b] = f[c]
  BY <1>1, <1>2, <1>4, <1>5, FS_PigeonHole
<1> QED BY <1>5, <1>6
(* Once the freelist is empty there is a node to scan. *)
LEMMA TopToScan ==
  ASSUME IsFiniteSet(Procs), Cardinality(Procs) <= NBuffers,
         KeptInv, FirstPush, NEW p \in Procs, pc[p] = "scan", firstFree = EndOfList
  PROVE  stack.top # NOT_IN_STACK
<1> SUFFICES ASSUME stack.top = NOT_IN_STACK PROVE FALSE
  OBVIOUS
<1>1. ASSUME NEW b \in Buffers PROVE \E q \in Procs \ {p} : buf[q] = b
  <2>1. CASE SettledFree[b]
    BY <2>1, HeadOfChain DEF KeptInv, FoundInv, InHand
  <2>2. CASE ~SettledFree[b]
    BY <2>2 DEF FirstPush
  <2> QED BY <2>1, <2>2
<1> DEFINE holder == [b \in Buffers |-> CHOOSE q \in Procs \ {p} : buf[q] = b]
<1>2. \A b \in Buffers : holder[b] \in Procs \ {p} /\ buf[holder[b]] = b
  BY <1>1
<1> HIDE DEF holder
<1>3. \E b, c \in Buffers : b # c /\ holder[b] = holder[c]
  BY <1>2, TooFewHands
<1> QED BY <1>2, <1>3

LEMMA EmptyStays ==
  ASSUME NothingFreed, FreelistIsChain, NEW p \in Procs, Step(p), firstFree = EndOfList
  PROVE  firstFree' = EndOfList
<1>1. CASE PopFreelist(p)
  BY <1>1 DEF PopFreelist, OnList, EndOfList, freelistVars
<1>2. ~FreeBuffer(p)
  BY DEF NothingFreed, Freeing, FreeBuffer
<1> QED BY <1>1, <1>2, FreelistUnchanged DEF freelistVars

LEMMA ScanInvStep ==
  ASSUME Rereads = FALSE, TypeInv, NothingFreed, KeptInv, ScanInv, OrderInv, NEW p \in Procs, Step(p),
         pc[p] = "scan" => stack.top # NOT_IN_STACK
  PROVE  ScanInv'
<1>0. /\ pc \in [Procs -> Labels] /\ pc[p] \notin {"reread-next", "reread-prev", "wild"}
      /\ Rereads = FALSE /\ (pc[p] = "scan" => firstFree = EndOfList)
  BY DEF TypeInv, ScanInv
<1>1. pc'[p] = "scan" => firstFree = EndOfList
  <2>1. ~OnList(firstFree) => firstFree = EndOfList
    BY HeadOfChain DEF KeptInv
  <2> USE DEF Goto, Proceed, Finish
  <2>2. CASE ProbeFreelist(p) \/ PopFreelist(p)
    BY <1>0, <2>1, <2>2 DEF ProbeFreelist, PopFreelist
  <2>3. ASSUME Allocate(p), ~ProbeFreelist(p), ~PopFreelist(p) PROVE pc'[p] # "scan"
    BY <1>0, <2>3 DEF Allocate, RingSlotUsable, RingSlotUnusable, TakePopped, DiscardPopped,
       ScanFromTop, ScanDown, RereadNext, TakeScanned, ScanUp, RereadPrev, AbortOnError, Follow
  <2>4. ASSUME Update(p) PROVE pc'[p] = "scan" => pc[p] = "scan"
    BY <1>0, <2>4 DEF Update, AcquireStackLock, StoreLink, ReleaseStackLock, Updating
  <2>5. ASSUME Manage(p) PROVE pc'[p] # "scan"
    BY <1>0, <2>5 DEF Manage, GetAccessStrategy, GetBuffer, PinVictim, RejectBuffer, Fill, Abandon,
       Collide, Hit, Unpin, Invalidate, FreeBuffer
  <2> QED BY <1>0, <2>2, <2>3, <2>4, <2>5 DEF Step
<1>2. pc'[p] \notin {"reread-next", "reread-prev", "wild"}
  <2>1. CASE Allocate(p)
    <3> USE DEF Goto, Proceed, Finish
    <3>1. CASE ScanFromTop(p)
      BY <1>0, <3>1 DEF ScanFromTop
    <3>2. CASE ScanDown(p) \/ ScanUp(p)
      BY <1>0, <3>2 DEF ScanDown, ScanUp, Follow, EndLink
    <3> QED BY <1>0, <2>1, <3>1, <3>2 DEF Allocate, RingSlotUsable, RingSlotUnusable, ProbeFreelist,
       PopFreelist, TakePopped, DiscardPopped, RereadNext, TakeScanned, RereadPrev, AbortOnError
  <2>2. CASE AcquireStackLock(p)
    <3>1. pending = <<>> /\ (pc[p] = "delete" => ~SettledFree[buf[p]]) /\ StackInv
      BY <2>2 DEF OrderInv, AcquireStackLock, IdleInv, SettlingInv, Settling
    <3>2. pc'[p] = Updating[pc[p]]
      BY <2>2, <3>1, AcquireRefines
    <3> QED BY <2>2, <3>2 DEF AcquireStackLock, Updating
  <2>3. CASE StoreLink(p) \/ ReleaseStackLock(p)
    BY <1>0, <2>3 DEF StoreLink, ReleaseStackLock, Goto, Proceed, Finish
  <2>4. CASE Manage(p)
    BY <1>0, <2>4 DEF Manage, GetAccessStrategy, GetBuffer, PinVictim, RejectBuffer, Fill, Abandon,
       Collide, Hit, Unpin, Invalidate, FreeBuffer, Goto, Proceed, Finish
  <2> QED BY <2>1, <2>2, <2>3, <2>4 DEF Step, Update
<1> QED BY <1>1, <1>2, EmptyStays, OthersStay DEF ScanInv, KeptInv

NotWildInv == Inv /\ OrderInv /\ KeptInv /\ FirstPush /\ ScanInv

LEMMA NotWildInit == Init => NotWildInv
<1> SUFFICES ASSUME Init PROVE NotWildInv
  OBVIOUS
<1>1. Inv /\ KeptInv /\ OrderInv
  BY InitInv, KeptInit, OrderInit
<1>2. FirstPush
  BY InitType, NothingPending DEF Init, FirstPush
<1>3. ScanInv
  BY DEF Init, ScanInv
<1> QED BY <1>1, <1>2, <1>3 DEF NotWildInv

LEMMA NotWildStep ==
  ASSUME Invalidators = {}, Rereads = FALSE, IsFiniteSet(Procs), Cardinality(Procs) <= NBuffers
  PROVE  NotWildInv /\ [Next]_vars => NotWildInv'
<1> SUFFICES ASSUME NotWildInv, [Next]_vars PROVE NotWildInv'
  OBVIOUS
<1>1. Inv' /\ KeptInv' /\ OrderInv'
  BY StepInv, KeptStep, OrderNext DEF NotWildInv, Alone
<1>2. FirstPush' /\ ScanInv'
  <2>1. CASE UNCHANGED vars
    <3>1. SettledFree' = SettledFree
      BY <2>1, SameSettled DEF vars, settled
    <3> QED BY <2>1, <3>1 DEF NotWildInv, FirstPush, ScanInv, vars, freelistVars
  <2>2. CASE Next
    <3>1. PICK p \in Procs : Step(p)
      BY <2>2 DEF Next, Step
    <3>2. /\ TypeInv /\ TypeInv' /\ NothingFreed /\ KeptInv /\ FirstPush
          /\ ScanInv /\ OrderInv /\ OrderInv' /\ pc[p] # "delete"
          /\ pc[p] = "scan" => firstFree = EndOfList
      BY <1>1 DEF NotWildInv, Inv, OrderInv, AloneInv, NothingFreed, Freeing, ScanInv
    <3>3. pc[p] = "scan" => stack.top # NOT_IN_STACK
      BY <3>2, TopToScan
    <3> QED BY <3>1, <3>2, <3>3, PushStep, ScanInvStep
  <2> QED BY <2>1, <2>2
<1> QED BY <1>1, <1>2 DEF NotWildInv

(***************************************************************************)
(* As long as nothing is invalidated and there are no more backends than   *)
(* buffers, a build that reads each link once reads and stores only nodes  *)
(* of the array. A scan begins with the freelist empty, and then some      *)
(* buffer has been stacked and never leaves: with more backends than       *)
(* buffers they could all be in the hands of other backends that have yet  *)
(* to stack them.                                                          *)
(***************************************************************************)
THEOREM NothingWild ==
  ASSUME Invalidators = {}, Rereads = FALSE, IsFiniteSet(Procs), Cardinality(Procs) <= NBuffers
  PROVE  Spec => []NoWildAccess
<1>1. NotWildInv => NoWildAccess
  BY DEF NotWildInv, ScanInv, NoWildAccess
<1> QED BY NotWildInit, NotWildStep, <1>1, PTL DEF Spec

-----------------------------------------------------------------------------
(* One backend *)

(* Only one backend *)
Single == \A p, q \in Procs : p = q

Scanning == {"down", "reread-next", "up", "reread-prev"}

(* What the scan of the only backend has learnt. *)
Learnt(p) ==
  /\ pc[p] \in Scanning => ~stack.isFree[buf[p]]
  /\ pc[p] \in {"up", "reread-prev"} => \A c \in below[buf[p]] : RefCount(c) > 0
  /\ pc[p] = "reread-prev" => RefCount(buf[p]) > 0
  /\ pc[p] = "error" => avail[p] = {}
UpInv == \A p \in Procs : Learnt(p)

LEMMA RefCountType ==
  ASSUME Single, NEW b
  PROVE  RefCount(b) \in Nat
<1>1. IsFiniteSet({q \in Procs : b \in pins[q]})
  <2>1. CASE {q \in Procs : b \in pins[q]} = {}
    BY <2>1, FS_EmptySet
  <2>2. CASE {q \in Procs : b \in pins[q]} # {}
    <3>1. PICK q \in Procs : b \in pins[q]
      BY <2>2
    <3>2. {r \in Procs : b \in pins[r]} = {q}
      BY <3>1 DEF Single
    <3> QED BY <3>2, FS_Singleton
  <2> QED BY <2>1, <2>2
<1> QED BY <1>1, FS_CardinalityType DEF RefCount

(* While the only backend scans, the stack is at rest and its links are the order. *)
LEMMA AtRest ==
  ASSUME Single, TypeInv, OrderInv, NEW p \in Procs, pc[p] \notin Updates \cup {"wild"}
  PROVE  /\ pending = <<>>
         /\ stack.top # NOT_IN_STACK => ~stack.isFree[stack.top]
         /\ \A b \in Buffers : ~stack.isFree[b] =>
              /\ stack.next[b] = NOT_IN_STACK => below[b] = {}
              /\ stack.next[b] # NOT_IN_STACK => ~stack.isFree[stack.next[b]]
              /\ stack.prev[b] # NOT_IN_STACK => /\ ~stack.isFree[stack.prev[b]]
                                                 /\ below[stack.prev[b]] = {b} \cup below[b]
              /\ stack.prev[b] = NOT_IN_STACK =>
                   \A c \in Buffers : ~stack.isFree[c] => c = b \/ c \in below[b]
<1>1. pending = <<>>
  BY DEF Single, TypeInv, ProcOrNone, OrderInv, LockInv, IdleInv
<1>2. /\ SettledNext = stack.next /\ SettledPrev = stack.prev
      /\ SettledFree = stack.isFree /\ SettledTop = stack.top
  BY <1>1, NothingPending
<1> DEFINE Stacked == {b \in Buffers : ~stack.isFree[b]}
<1>3. Stack!Stacked = Stacked
  BY <1>2, SameBuffers DEF Stack!Stacked
<1>4. /\ Stack!TopIsNewest /\ Stack!NextIsOlderNeighbour /\ Stack!PrevInvertsNext
      /\ NOT_IN_STACK \notin Buffers
  BY BufferZero DEF OrderInv, StackInv, Stack!LinksFollowRecency
<1>5. IF stack.top = NOT_IN_STACK THEN Stacked = {}
      ELSE stack.top \in Stacked /\ below[stack.top] = Stacked \ {stack.top}
  BY <1>2, <1>3, <1>4, SameBuffers DEF Stack!TopIsNewest
<1>6. \A a \in Stacked : IF stack.next[a] = NOT_IN_STACK
                         THEN below[a] = {}
                         ELSE stack.next[a] \in Stacked /\ below[a] = {stack.next[a]} \cup below[stack.next[a]]
  BY <1>2, <1>3, <1>4, SameBuffers DEF Stack!NextIsOlderNeighbour
<1>7. \A a \in Stacked : IF stack.prev[a] = NOT_IN_STACK
                         THEN a = stack.top
                         ELSE stack.prev[a] \in Stacked /\ stack.next[stack.prev[a]] = a
  BY <1>2, <1>3, <1>4, SameBuffers DEF Stack!PrevInvertsNext
<1> QED BY <1>1, <1>4, <1>5, <1>6, <1>7

LEMMA ScanSteps ==
  ASSUME TypeInv, LockInv, NEW p \in Procs, Step(p), pc'[p] \in Scanning \cup {"error"}
  PROVE  ScanFromTop(p) \/ ScanDown(p) \/ RereadNext(p) \/ ScanUp(p) \/ RereadPrev(p)
<1> DEFINE Scans == ScanFromTop(p) \/ ScanDown(p) \/ RereadNext(p) \/ ScanUp(p) \/ RereadPrev(p)
<1>0. pc \in [Procs -> Labels] /\ pc'[p] \in Scanning \cup {"error"}
  BY DEF TypeInv
<1> USE DEF Goto, Proceed, Finish, Scanning
<1>1. ASSUME Allocate(p), ~Scans PROVE FALSE
  BY <1>0, <1>1 DEF Allocate, RingSlotUsable, RingSlotUnusable, ProbeFreelist, PopFreelist,
     TakePopped, DiscardPopped, TakeScanned, AbortOnError
<1>2. ASSUME Update(p) PROVE FALSE
  <2>1. CASE AcquireStackLock(p) \/ ReleaseStackLock(p)
    BY <1>0, <2>1 DEF AcquireStackLock, ReleaseStackLock, Updating
  <2>2. CASE StoreLink(p)
    BY <1>0, <2>2, StrategyAssumption DEF StoreLink, LockInv, Updates
  <2> QED BY <1>2, <2>1, <2>2 DEF Update
<1>3. ASSUME Manage(p) PROVE FALSE
  BY <1>0, <1>3 DEF Manage, GetAccessStrategy, GetBuffer, PinVictim, RejectBuffer, Fill, Abandon,
     Collide, Hit, Unpin, Invalidate, FreeBuffer
<1> QED BY <1>1, <1>2, <1>3 DEF Step

LEMMA UpStep ==
  ASSUME Single, TypeInv, TypeInv', OrderInv, UpInv, NEW p \in Procs, Step(p), RecordAvail
  PROVE  UpInv'
<1> SUFFICES ASSUME pc'[p] \in Scanning \cup {"error"} PROVE Learnt(p)'
  BY DEF Single, UpInv, Learnt, Scanning
<1> DEFINE b == buf[p]  Scans == ScanFromTop(p) \/ ScanDown(p) \/ RereadNext(p) \/ ScanUp(p) \/ RereadPrev(p)
<1>0. /\ pc \in [Procs -> Labels] /\ buf \in [Procs -> Buffers] /\ b \in Buffers
      /\ pc[p] \in Scanning => ~stack.isFree[b]
      /\ pc[p] \in {"up", "reread-prev"} => \A c \in below[b] : RefCount(c) > 0
      /\ pc[p] = "reread-prev" => RefCount(b) > 0
  BY DEF TypeInv, UpInv, Learnt
<1>1. Scans
  BY ScanSteps DEF OrderInv
<1>2. /\ UNCHANGED <<stack, below, pins>>
      /\ pc[p] \in Scanning \cup {"scan"}
  BY <1>1 DEF ScanFromTop, ScanDown, RereadNext, ScanUp, RereadPrev, stackVars, bufferVars, Scanning
<1>3. \A c : RefCount(c)' = RefCount(c)
  BY <1>2 DEF RefCount
<1>4. pc[p] \notin Updates \cup {"wild"}
  BY <1>2 DEF Scanning, Updates
<1>5. /\ stack.top # NOT_IN_STACK => ~stack.isFree[stack.top]
      /\ \A c \in Buffers : ~stack.isFree[c] =>
            /\ stack.next[c] = NOT_IN_STACK => below[c] = {}
            /\ stack.next[c] # NOT_IN_STACK => ~stack.isFree[stack.next[c]]
            /\ stack.prev[c] # NOT_IN_STACK => /\ ~stack.isFree[stack.prev[c]]
                                               /\ below[stack.prev[c]] = {c} \cup below[c]
            /\ stack.prev[c] = NOT_IN_STACK =>
                 \A d \in Buffers : ~stack.isFree[d] => d = c \/ d \in below[c]
  BY <1>4, AtRest
<1> HIDE DEF b, Scans
<1> USE DEF Goto, Proceed, Finish, Learnt
<1>6. CASE ScanFromTop(p)
  <2>1. pc'[p] = "down" /\ buf'[p] = stack.top /\ stack.top # NOT_IN_STACK
    BY <1>0, <1>6 DEF ScanFromTop, Scanning
  <2> QED BY <1>2, <1>5, <2>1
<1>7. CASE ScanDown(p) \/ RereadNext(p)
  <2>1. \/ pc'[p] = "up" /\ buf'[p] = b /\ stack.next[b] = NOT_IN_STACK
        \/ pc'[p] = "down" /\ buf'[p] = stack.next[b] /\ stack.next[b] # NOT_IN_STACK
        \/ pc'[p] = "reread-next" /\ buf'[p] = b
    BY <1>0, <1>7 DEF ScanDown, RereadNext, Follow, EndLink, Scanning, b
  <2>2. ~stack.isFree[b]
    BY <1>0, <1>7 DEF ScanDown, RereadNext, Scanning
  <2> QED BY <1>0, <1>2, <1>5, <2>1, <2>2
<1>8. CASE ScanUp(p) \/ RereadPrev(p)
  <2>1. pc[p] \in {"up", "reread-prev"} /\ ~stack.isFree[b]
    BY <1>0, <1>8 DEF ScanUp, RereadPrev, Scanning
  <2>2. RefCount(b) > 0
    <3>1. CASE ScanUp(p)
      BY <3>1, RefCountType DEF ScanUp, NotPinned, b
    <3>2. CASE RereadPrev(p)
      BY <1>0, <3>2 DEF RereadPrev
    <3> QED BY <1>8, <3>1, <3>2
  <2>3. \/ pc'[p] = "up" /\ buf'[p] = stack.prev[b] /\ stack.prev[b] # NOT_IN_STACK
        \/ pc'[p] = "reread-prev" /\ buf'[p] = b
        \/ pc'[p] = "error" /\ stack.prev[b] = NOT_IN_STACK
    BY <1>0, <1>8 DEF ScanUp, RereadPrev, Follow, Scanning, b
  <2>4. CASE pc'[p] = "up" /\ buf'[p] = stack.prev[b] /\ stack.prev[b] # NOT_IN_STACK
    <3>1. ~stack.isFree[stack.prev[b]] /\ below[stack.prev[b]] = {b} \cup below[b]
      BY <1>0, <1>5, <2>1, <2>4
    <3>2. \A c \in below[stack.prev[b]] : RefCount(c) > 0
      BY <1>0, <2>1, <2>2, <3>1
    <3> QED BY <1>2, <1>3, <2>4, <3>1, <3>2
  <2>5. CASE pc'[p] = "reread-prev" /\ buf'[p] = b
    BY <1>0, <1>2, <1>3, <2>1, <2>2, <2>5
  <2>6. CASE pc'[p] = "error" /\ stack.prev[b] = NOT_IN_STACK
    <3>1. \A c \in Buffers : ~stack.isFree[c] => RefCount(c) > 0
      BY <1>0, <1>5, <2>1, <2>2, <2>6
    <3>2. ForTheTaking' = {}
      BY <1>2, <1>3, <3>1 DEF ForTheTaking
    <3>3. avail'[p] = avail[p] \cap ForTheTaking'
      BY <2>6 DEF RecordAvail
    <3> QED BY <2>6, <3>2, <3>3 DEF Scanning
  <2> QED BY <2>3, <2>4, <2>5, <2>6
<1> QED BY <1>1, <1>6, <1>7, <1>8 DEF Scans

LEMMA UpInit == Init => UpInv
BY DEF Init, UpInv, Learnt, Scanning

LEMMA UpNext ==
  ASSUME Single
  PROVE  Inv /\ OrderInv /\ UpInv /\ [Next]_vars => Inv' /\ OrderInv' /\ UpInv'
<1> SUFFICES ASSUME Inv, OrderInv, UpInv, [Next]_vars PROVE Inv' /\ OrderInv' /\ UpInv'
  OBVIOUS
<1>1. Inv' /\ OrderInv'
  BY StepInv, OrderNext DEF Alone, Single
<1>2. CASE Next
  <2>1. PICK p \in Procs : Step(p) /\ RecordAvail
    BY <1>2 DEF Next, Step
  <2> QED BY <1>1, <2>1, UpStep DEF Inv
<1>3. CASE UNCHANGED vars
  <2>1. stack' = stack /\ below' = below /\ pins' = pins /\ pc' = pc /\ buf' = buf /\ avail' = avail
    BY <1>3 DEF vars, bufferVars
  <2>2. \A p : Learnt(p)' = Learnt(p)
    BY <2>1 DEF Learnt, RefCount
  <2> QED BY <1>1, <2>2 DEF UpInv
<1> QED BY <1>1, <1>2, <1>3

(***************************************************************************)
(* The only backend raises "no unpinned buffers available" when every      *)
(* buffer of the stack is pinned. With a second one the run scan_race      *)
(* shows that it need not be so.                                           *)
(***************************************************************************)
THEOREM ErrorsAreDue == ASSUME Single PROVE Spec => []ErrorOnlyWhenAllPinned
<1>1. Init => Inv /\ OrderInv /\ UpInv
  BY InitInv, OrderInit, UpInit
<1>2. Inv /\ OrderInv /\ UpInv /\ [Next]_vars => Inv' /\ OrderInv' /\ UpInv'
  BY UpNext
<1>3. UpInv => ErrorOnlyWhenAllPinned
  BY DEF UpInv, Learnt, ErrorOnlyWhenAllPinned
<1> QED BY <1>1, <1>2, <1>3, PTL DEF Spec

(***************************************************************************)
(* The victim that the only backend scans for is the least recently used   *)
(* unpinned buffer: every one used before it is pinned.                    *)
(***************************************************************************)
THEOREM VictimCorrect == ASSUME Single PROVE Spec => VictimIsLeastRecentlyUsed
<1> DEFINE OldestFirst ==
      \A p \in Procs : pc[p] = "up" /\ pc'[p] = "victim" => \A c \in below[buf[p]] : RefCount(c) > 0
<1>1. Init => Inv /\ OrderInv /\ UpInv
  BY InitInv, OrderInit, UpInit
<1>2. Inv /\ OrderInv /\ UpInv /\ [Next]_vars => Inv' /\ OrderInv' /\ UpInv'
  BY UpNext
<1>3. UpInv => [OldestFirst]_vars
  BY DEF UpInv, Learnt
<1> QED BY <1>1, <1>2, <1>3, PTL DEF Spec, VictimIsLeastRecentlyUsed

(* It has seen the freelist empty, and the link that it reads again. *)
CalmInv ==
  \A p \in Procs : /\ pc[p] = "scan" => firstFree = EndOfList
                   /\ pc[p] = "reread-next" => stack.next[buf[p]] # NOT_IN_STACK
                   /\ pc[p] = "reread-prev" => stack.prev[buf[p]] # NOT_IN_STACK
                   /\ pc[p] # "wild"

LEMMA CalmStep ==
  ASSUME Single, TypeInv, OrderInv, KeptInv, CalmInv, NEW p \in Procs, Step(p)
  PROVE  CalmInv'
<1> SUFFICES /\ pc'[p] = "scan" => firstFree' = EndOfList
             /\ pc'[p] = "reread-next" => stack'.next[buf'[p]] # NOT_IN_STACK
             /\ pc'[p] = "reread-prev" => stack'.prev[buf'[p]] # NOT_IN_STACK
             /\ pc'[p] # "wild"
  BY DEF Single, CalmInv
<1> DEFINE Calm == /\ pc'[p] = "scan" => firstFree' = EndOfList
                   /\ pc'[p] = "reread-next" => stack'.next[buf'[p]] # NOT_IN_STACK
                   /\ pc'[p] = "reread-prev" => stack'.prev[buf'[p]] # NOT_IN_STACK
                   /\ pc'[p] # "wild"
<1>0. /\ pc \in [Procs -> Labels] /\ buf \in [Procs -> Buffers]
      /\ pc[p] = "scan" => firstFree = EndOfList
      /\ pc[p] = "reread-next" => stack.next[buf[p]] # NOT_IN_STACK
      /\ pc[p] = "reread-prev" => stack.prev[buf[p]] # NOT_IN_STACK
      /\ pc[p] # "wild"
      /\ ~OnList(firstFree) => firstFree = EndOfList
  BY HeadOfChain DEF TypeInv, CalmInv, KeptInv
<1> USE DEF Goto, Proceed, Finish
<1>1. CASE ScanFromTop(p)
  <2>1. stack.top # NOT_IN_STACK
    <3>1. pc[p] = "scan" /\ Listed = {}
      BY <1>0, <1>1, HeadOfChain DEF KeptInv, ScanFromTop
    <3>2. ~SettledFree[0]
      BY <3>1, BufferZero DEF Single, KeptInv, FoundInv, InHand
    <3>3. pending = <<>>
      BY <3>1, AtRest DEF Updates
    <3>4. SettledTop # NOT_IN_STACK
      BY <3>2, BufferZero, EmptySettled DEF OrderInv
    <3> QED BY <3>3, <3>4, NothingPending
  <2> QED BY <1>0, <1>1, <2>1 DEF ScanFromTop
<1>2. CASE ScanDown(p) \/ RereadNext(p)
  BY <1>0, <1>2 DEF ScanDown, RereadNext, Follow, EndLink, stackVars
<1>3. CASE ScanUp(p) \/ RereadPrev(p)
  BY <1>0, <1>3 DEF ScanUp, RereadPrev, Follow, stackVars
<1>4. CASE ProbeFreelist(p) \/ PopFreelist(p)
  BY <1>0, <1>4 DEF ProbeFreelist, PopFreelist, freelistVars
<1>5. CASE RingSlotUsable(p) \/ RingSlotUnusable(p) \/ TakePopped(p) \/ DiscardPopped(p)
           \/ TakeScanned(p) \/ AbortOnError(p)
  BY <1>0, <1>5 DEF RingSlotUsable, RingSlotUnusable, TakePopped, DiscardPopped, TakeScanned, AbortOnError
<1>6. CASE AcquireStackLock(p)
  <2>1. pending = <<>> /\ (pc[p] = "delete" => ~SettledFree[buf[p]]) /\ StackInv
    BY <1>6 DEF OrderInv, AcquireStackLock, IdleInv, SettlingInv, Settling
  <2>2. pc'[p] = Updating[pc[p]]
    BY <1>6, <2>1, AcquireRefines
  <2> QED BY <1>6, <2>2 DEF AcquireStackLock, Updating
<1>7. CASE StoreLink(p) \/ ReleaseStackLock(p)
  <2>1. pc[p] \in Updates
    BY <1>0, <1>7 DEF StoreLink, ReleaseStackLock, OrderInv, LockInv
  <2> QED BY <1>0, <1>7, <2>1 DEF StoreLink, ReleaseStackLock, Updates
<1>8. CASE Manage(p)
  BY <1>0, <1>8 DEF Manage, GetAccessStrategy, GetBuffer, PinVictim, RejectBuffer, Fill, Abandon,
     Collide, Hit, Unpin, Invalidate, FreeBuffer
<1> QED BY <1>1, <1>2, <1>3, <1>4, <1>5, <1>6, <1>7, <1>8 DEF Step, Allocate, Update

(***************************************************************************)
(* The only backend stays in the array whether or not it reads a link      *)
(* twice and whether or not it drops pages: it scans when the freelist is  *)
(* empty, and then its stack is not.                                       *)
(***************************************************************************)
THEOREM NothingWildAlone == ASSUME Single PROVE Spec => []NoWildAccess
<1>1. Init => Inv /\ OrderInv /\ KeptInv /\ CalmInv
  BY InitInv, OrderInit, KeptInit DEF Init, CalmInv
<1>2. Inv /\ OrderInv /\ KeptInv /\ CalmInv /\ [Next]_vars => Inv' /\ OrderInv' /\ KeptInv' /\ CalmInv'
  <2> SUFFICES ASSUME Inv, OrderInv, KeptInv, CalmInv, [Next]_vars
               PROVE  Inv' /\ OrderInv' /\ KeptInv' /\ CalmInv'
    OBVIOUS
  <2>1. Inv' /\ OrderInv' /\ KeptInv'
    BY StepInv, OrderNext, KeptStep DEF Alone, Single
  <2>2. CASE Next
    BY <2>1, <2>2, CalmStep DEF Next, Step, Inv
  <2>3. CASE UNCHANGED vars
    BY <2>1, <2>3 DEF vars, freelistVars, CalmInv
  <2> QED BY <2>1, <2>2, <2>3
<1>3. CalmInv => NoWildAccess
  BY DEF CalmInv, NoWildAccess
<1> QED BY <1>1, <1>2, <1>3, PTL DEF Spec

-----------------------------------------------------------------------------
(***************************************************************************)
(* The background writer is woken and told of every allocation, for every  *)
(* number of backends.  Both facts are inductive beside the types.         *)
(***************************************************************************)
BgInv == BgTypeOK /\ WakeupNotLost /\ AllocsConserved

(* Nobody has allocated and the writer is awake. *)
LEMMA BgInitInv == BgInit => BgInv
<1> SUFFICES ASSUME BgInit PROVE BgInv
  OBVIOUS
<1>1. BgTypeOK
  BY DEF BgInit, BgTypeOK
<1>2. WakeupNotLost
  BY DEF BgInit, WakeupNotLost
<1>3. AllocsConserved
  BY DEF BgInit, AllocsConserved
<1> QED BY <1>1, <1>2, <1>3 DEF BgInv

(* The steps of a backend inside StrategyGetBuffer preserve the invariant. *)
LEMMA BgBackendInv ==
  ASSUME BgInv, NEW p \in Callers, Enter(p) \/ InCall(p) PROVE BgInv'
<1> USE DEF BgInv, BgTypeOK, WakeupNotLost, AllocsConserved, GoesTo
<1>1. CASE Enter(p)
  BY <1>1 DEF Enter
<1>2. CASE ReadBgwprocno(p)
  BY <1>2 DEF ReadBgwprocno
<1>3. CASE ResetBgwprocno(p)
  BY <1>3 DEF ResetBgwprocno, ThenLatch
<1>4. CASE SetLatch(p)
  BY <1>4 DEF SetLatch, SetWritersLatch
<1>5. CASE CountAlloc(p)
  BY <1>5 DEF CountAlloc
<1> QED BY <1>1, <1>2, <1>3, <1>4, <1>5 DEF InCall

(* The steps of the writer preserve it. *)
LEMMA BgWriterInv == ASSUME BgInv, Writer PROVE BgInv'
<1> USE DEF BgInv, BgTypeOK, WakeupNotLost, AllocsConserved
<1>1. CASE SyncStart
  BY <1>1 DEF SyncStart, CountAfterSync
<1>2. CASE StayActive
  BY <1>2 DEF StayActive
<1>3. CASE Register
  BY <1>3 DEF Register
<1>4. CASE Withdraw
  BY <1>4 DEF Withdraw
<1>5. CASE ResetLatch
  BY <1>5 DEF ResetLatch
<1> QED BY <1>1, <1>2, <1>3, <1>4, <1>5 DEF Writer

(* The invariant holds in every state. *)
LEMMA BgAlwaysInv == BgSpec => []BgInv
<1>1. BgInv /\ [BgNext]_wakeupVars => BgInv'
  <2> SUFFICES ASSUME BgInv, [BgNext]_wakeupVars PROVE BgInv'
    OBVIOUS
  <2>1. CASE UNCHANGED wakeupVars
    BY <2>1 DEF wakeupVars, BgInv, BgTypeOK, WakeupNotLost, AllocsConserved
  <2> QED BY <2>1, BgBackendInv, BgWriterInv DEF BgNext
<1> QED BY BgInitInv, <1>1, PTL DEF BgSpec

(***************************************************************************)
(* No interleaving of unlocked reads, resets and registrations leaves a    *)
(* hibernating writer without its registration and without its latch.      *)
(***************************************************************************)
THEOREM WriterNeverForgotten == BgSpec => []WakeupNotLost
<1>1. BgInv => WakeupNotLost
  BY DEF BgInv
<1> QED BY BgAlwaysInv, <1>1, PTL

(***************************************************************************)
(* Every allocation is reported exactly once.                              *)
(***************************************************************************)
THEOREM EveryAllocReportedOnce == BgSpec => []AllocsConserved
<1>1. BgInv => AllocsConserved
  BY DEF BgInv
<1> QED BY BgAlwaysInv, <1>1, PTL
=============================================================================
