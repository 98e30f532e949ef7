------------------------------ MODULE BgWriter ------------------------------
(***************************************************************************)
(* How allocations wake the background writer and are counted for it       *)
(* (src/cs3223_freelist-lru.c): the head of StrategyGetBuffer reads        *)
(* bgwprocno, resets it and sets the latch without any lock, while the     *)
(* writer registers and withdraws itself with StrategyNotifyBgWriter and   *)
(* collects the allocation count with StrategySyncStart.                   *)
(*                                                                         *)
(* The writer's own loop is not part of the repository.  As the comment of *)
(* StrategyNotifyBgWriter says, it registers before it hibernates and      *)
(* withdraws afterwards.                                                   *)
(*                                                                         *)
(* The rest of StrategyGetBuffer is BufferStrategy.  The two share no      *)
(* state, and no name, so that one module can extend both.                 *)
(***************************************************************************)
EXTENDS Integers, FiniteSets

CONSTANTS
  Callers,    \* the backends that allocate
  MaxAllocs   \* bound: allocations counted in a run

ASSUME BgWriterAssumption == IsFiniteSet(Callers) /\ MaxAllocs \in Nat

VARIABLES
  registered,       \* bgwprocno is the writer's, not -1
  latch,            \* the writer's procLatch is set
  numBufferAllocs,
  caller,           \* where each backend is
  writer,           \* where the writer is
  made, reported    \* history: allocations counted, and told to the writer

wakeupVars == <<registered, latch, numBufferAllocs, caller, writer, made, reported>>

BgInit ==
  /\ registered = FALSE
  /\ latch = FALSE
  /\ numBufferAllocs = 0
  /\ caller = [p \in Callers |-> "idle"]
  /\ writer = "active"
  /\ made = 0 /\ reported = 0

GoesTo(p, label) == caller' = [caller EXCEPT ![p] = label]

-----------------------------------------------------------------------------
(* The head of StrategyGetBuffer *)

Enter(p) ==
  /\ caller[p] = "idle"
  /\ GoesTo(p, "read")
  /\ UNCHANGED <<registered, latch, numBufferAllocs, writer, made, reported>>

(* The one forced read of bgwprocno. *)
ReadBgwprocno(p) ==
  /\ caller[p] = "read"
  /\ GoesTo(p, IF registered THEN "reset" ELSE "count")
  /\ UNCHANGED <<registered, latch, numBufferAllocs, writer, made, reported>>

(* Reset before the latch is set, without a lock.  A seeded fault: the latch is
   never set. *)
ThenCount == "count"
ThenLatch == "latch"

ResetBgwprocno(p) ==
  /\ caller[p] = "reset"
  /\ registered' = FALSE
  /\ GoesTo(p, ThenLatch)
  /\ UNCHANGED <<latch, numBufferAllocs, writer, made, reported>>

(* A seeded fault: the latch of another process is set. *)
OtherLatch == latch
SetWritersLatch == TRUE

SetLatch(p) ==
  /\ caller[p] = "latch"
  /\ latch' = SetWritersLatch
  /\ GoesTo(p, "count")
  /\ UNCHANGED <<registered, numBufferAllocs, writer, made, reported>>

(* pg_atomic_fetch_add_u32; the rest of the call is in BufferStrategy. *)
CountAlloc(p) ==
  /\ caller[p] = "count"
  /\ made < MaxAllocs
  /\ numBufferAllocs' = numBufferAllocs + 1
  /\ made' = made + 1
  /\ GoesTo(p, "idle")
  /\ UNCHANGED <<registered, latch, writer, reported>>

-----------------------------------------------------------------------------
(* The writer *)

(* StrategySyncStart exchanges the count for zero.  A seeded fault: it only
   reads it. *)
KeptCount == numBufferAllocs
CountAfterSync == 0

SyncStart ==
  /\ writer = "active"
  /\ reported' = reported + numBufferAllocs
  /\ numBufferAllocs' = CountAfterSync
  /\ writer' = "synced"
  /\ UNCHANGED <<registered, latch, caller, made>>

(* Another round at once, after the latch is reset. *)
StayActive ==
  /\ writer = "synced"
  /\ latch' = FALSE
  /\ writer' = "active"
  /\ UNCHANGED <<registered, numBufferAllocs, caller, made, reported>>

(* StrategyNotifyBgWriter with its number, to hibernate. *)
Register ==
  /\ writer = "synced"
  /\ registered' = TRUE
  /\ writer' = "hibernating"
  /\ UNCHANGED <<latch, numBufferAllocs, caller, made, reported>>

(* The latch, or the timeout, ends the hibernation; StrategyNotifyBgWriter(-1). *)
Withdraw ==
  /\ writer = "hibernating"
  /\ registered' = FALSE
  /\ writer' = "withdrawn"
  /\ UNCHANGED <<latch, numBufferAllocs, caller, made, reported>>

ResetLatch ==
  /\ writer = "withdrawn"
  /\ latch' = FALSE
  /\ writer' = "active"
  /\ UNCHANGED <<registered, numBufferAllocs, caller, made, reported>>

-----------------------------------------------------------------------------

InCall(p) == ReadBgwprocno(p) \/ ResetBgwprocno(p) \/ SetLatch(p) \/ CountAlloc(p)
Writer == SyncStart \/ StayActive \/ Register \/ Withdraw \/ ResetLatch

BgNext == Writer \/ \E p \in Callers : Enter(p) \/ InCall(p)

BgSpec == BgInit /\ [][BgNext]_wakeupVars

(* A backend inside the call keeps running; the writer may sleep as it likes. *)
BgFairSpec == BgSpec /\ \A p \in Callers : WF_wakeupVars(InCall(p))

-----------------------------------------------------------------------------

BgTypeOK ==
  /\ registered \in BOOLEAN /\ latch \in BOOLEAN
  /\ numBufferAllocs \in Nat /\ made \in Nat /\ reported \in Nat
  /\ caller \in [Callers -> {"idle", "read", "reset", "latch", "count"}]
  /\ writer \in {"active", "synced", "hibernating", "withdrawn"}

(***************************************************************************)
(* A hibernating writer is never forgotten: as long as no allocation has   *)
(* set its latch, it is still registered, or a backend that removed the    *)
(* registration is about to set the latch - although the removal is a      *)
(* plain store that can hit a registration newer than the one it read.     *)
(***************************************************************************)
WakeupNotLost ==
  writer = "hibernating" =>
    registered \/ latch \/ \E p \in Callers : caller[p] = "latch"

(***************************************************************************)
(* Every allocation is reported to the writer exactly once.                *)
(***************************************************************************)
AllocsConserved == made = reported + numBufferAllocs

(***************************************************************************)
(* An allocation that begins while the writer hibernates wakes it, unless  *)
(* it has woken by itself.                                                 *)
(***************************************************************************)
AllocationWakesWriter ==
  \A p \in Callers :
    caller[p] = "read" /\ writer = "hibernating" ~> latch \/ writer # "hibernating"
=============================================================================
