---------------------------- MODULE ZcFileProofs ----------------------------
(***************************************************************************)
(* The zero-copy file for any number of threads and every file: a write    *)
(* excludes every other operation, the size follows the file, and a chunk  *)
(* stays mapped and is followed by the next one.                           *)
(*                                                                         *)
(* WritersExclude is not inductive: whether a reader may pass by w_mutex   *)
(* depends on num_readers.  Inv says that num_readers counts the threads   *)
(* between their start and their end, that one of them still waiting for   *)
(* w_mutex is the only one, since it holds r_mutex, and that w_mutex is    *)
(* taken as long as any thread reads or writes.                            *)
(***************************************************************************)
EXTENDS ZcFile, FiniteSetTheorems, TLAPS

Counted(t) == Reading(t) \/ pc[t] = "locking"
In == {t \in Threads : Counted(t)}

LocksOK ==
  /\ r_mutex \in {0, 1} /\ w_mutex \in {0, 1}
  /\ pc \in [Threads -> Labels]

(* One reader at a time waits for w_mutex, and no other is inside then. *)
LockingInv == \A t \in Threads : pc[t] = "locking" => r_mutex = 0 /\ \A u \in Threads : Counted(u) => u = t

HolderInv == \A t \in Threads : Reading(t) \/ Writing(t) => w_mutex = 0

CountInv ==
  /\ \A t \in Threads : Counted(t) \/ pc[t] = "entering" => t \in Readers
  /\ num_readers = Cardinality(In)

Inv == LocksOK /\ LockingInv /\ HolderInv /\ WritersExclude /\ CountInv

(* The threads inside are finitely many, so that they can be counted. *)
LEMMA InFinite ==
  ASSUME CountInv
  PROVE  IsFiniteSet(In) /\ num_readers \in Nat /\ (num_readers = 0 <=> In = {})
<1>1. In \subseteq Readers
  BY DEF CountInv, In
<1>2. IsFiniteSet(In)
  BY <1>1, SizesAssumption, FS_Subset
<1> QED BY <1>2, FS_CardinalityType, FS_EmptySet DEF CountInv

LEMMA InitInv == Init => Inv
<1> SUFFICES ASSUME Init PROVE Inv
  OBVIOUS
<1>1. In = {}
  BY DEF Init, In, Counted, Reading
<1>2. CountInv
  BY <1>1, FS_EmptySet DEF Init, CountInv, Counted, Reading
<1> QED BY <1>2 DEF Init, Inv, LocksOK, Labels, LockingInv, HolderInv, WritersExclude, Counted,
           Reading, Writing

(* A reader that counts itself in. *)
LEMMA EnterInv ==
  ASSUME Inv, NEW t \in Threads, t \in Readers, ReadEnters(t)
  PROVE  Inv'
<1> USE DEF Inv, LocksOK, Labels
<1>0. IsFiniteSet(In) /\ num_readers \in Nat /\ (num_readers = 0 <=> In = {})
  BY InFinite
<1>1. pc[t] = "entering" /\ ~Counted(t) /\ r_mutex = 1 /\ \A u \in Threads : pc[u] # "locking"
  BY DEF ReadEnters, FirstReader, Counted, Reading, LockingInv
<1>2. \A u \in Threads : u # t => pc'[u] = pc[u]
  BY DEF ReadEnters, FirstReader, Goto
<1>3. pc' \in [Threads -> Labels] /\ pc'[t] \in {"locking", "locked"}
  BY DEF ReadEnters, FirstReader, Goto
<1>4. CountInv'
  <2>1. In' = In \cup {t} /\ t \notin In
    BY <1>1, <1>2, <1>3 DEF In, Counted, Reading
  <2>2. Cardinality(In') = Cardinality(In) + 1
    BY <1>0, <2>1, FS_AddElement
  <2>3. \A u \in Threads : (Counted(u) \/ pc[u] = "entering")' => u \in Readers
    BY <1>2 DEF CountInv, Counted, Reading
  <2> QED BY <2>2, <2>3 DEF CountInv, ReadEnters, FirstReader
<1>5. CASE num_readers = 0
  <2>1. \A u \in Threads : ~Counted(u)
    BY <1>0, <1>5 DEF In
  <2>2. pc'[t] = "locking" /\ r_mutex' = 0 /\ w_mutex' = w_mutex
    BY <1>1, <1>3, <1>5 DEF ReadEnters, FirstReader, Goto
  <2> QED BY <1>1, <1>2, <1>3, <1>4, <2>1, <2>2
          DEF LockingInv, HolderInv, WritersExclude, Counted, Reading, Writing
<1>6. CASE num_readers # 0
  <2>1. PICK u \in Threads : Reading(u)
    BY <1>0, <1>1, <1>6 DEF In, Counted
  <2>2. w_mutex = 0 /\ u # t /\ \A v \in Threads : ~Writing(v)
    BY <1>1, <2>1 DEF HolderInv, WritersExclude, Counted, Reading, Writing
  <2>3. pc'[t] = "locked" /\ r_mutex' = 1 /\ w_mutex' = w_mutex
    BY <1>0, <1>1, <1>3, <1>6 DEF ReadEnters, FirstReader, Goto
  <2> QED BY <1>1, <1>2, <1>3, <1>4, <2>2, <2>3
          DEF LockingInv, HolderInv, WritersExclude, Counted, Reading, Writing
<1> QED BY <1>0, <1>5, <1>6

(* A reader that counts itself out. *)
LEMMA EndInv ==
  ASSUME Inv, NEW t \in Threads, ReadEnds(t)
  PROVE  Inv'
<1> USE DEF Inv, LocksOK, Labels
<1>0. IsFiniteSet(In) /\ num_readers \in Nat
  BY InFinite
<1>1. /\ pc[t] = "reading" /\ Counted(t) /\ Reading(t) /\ r_mutex = 1 /\ w_mutex = 0
      /\ \A u \in Threads : pc[u] # "locking" /\ ~Writing(u)
  BY DEF ReadEnds, Counted, Reading, Writing, LockingInv, HolderInv, WritersExclude
<1>2. pc' = [pc EXCEPT ![t] = "idle"] /\ r_mutex' = r_mutex
  BY DEF ReadEnds, Goto
<1>3. In' = In \ {t} /\ t \in In
  BY <1>1, <1>2 DEF In, Counted, Reading
<1>4. IsFiniteSet(In') /\ Cardinality(In') = Cardinality(In) - 1
  BY <1>0, <1>3, FS_RemoveElement
<1>5. CountInv'
  BY <1>2, <1>4 DEF CountInv, ReadEnds, Counted, Reading
<1>6. num_readers' = 0 => \A u \in Threads : ~Reading(u)'
  <2>1. num_readers' = 0 => In' = {}
    BY <1>4, <1>5, FS_EmptySet DEF CountInv
  <2> QED BY <2>1 DEF In, Counted
<1>7. w_mutex' = IF num_readers' = 0 THEN 1 ELSE 0
  BY <1>1 DEF ReadEnds
<1> QED BY <1>1, <1>2, <1>5, <1>6, <1>7
        DEF LockingInv, HolderInv, WritersExclude, Counted, Reading, Writing

(* The steps that leave num_readers alone. *)
LEMMA OtherInv ==
  ASSUME Inv, NEW t \in Threads, num_readers' = num_readers,
         LocksOK', LockingInv', HolderInv', WritersExclude',
         \A u \in Threads : Counted(u)' <=> Counted(u),
         \A u \in Threads : pc'[u] = "entering" => pc[u] = "entering" \/ u \in Readers
  PROVE  Inv'
<1>1. In' = In
  BY DEF In
<1> QED BY <1>1 DEF Inv, CountInv

(* Each step of the file or of a thread preserves the invariant. *)
LEMMA StepInv == Inv /\ Next => Inv'
<1> SUFFICES ASSUME Inv, Next PROVE Inv'
  OBVIOUS
<1>1. CASE Opens
  <2>1. In' = {} /\ num_readers' = 0
    BY <1>1 DEF Opens, In, Counted, Reading
  <2>2. CountInv'
    BY <1>1, <2>1, FS_EmptySet DEF Opens, Inv, CountInv, Counted, Reading
  <2> QED BY <1>1, <2>2 DEF Opens, Inv, LocksOK, Labels, LockingInv, HolderInv, WritersExclude,
             Counted, Reading, Writing
<1>2. ASSUME NEW t \in Threads, ThreadStep(t)
      PROVE  Inv'
  <2> USE DEF Inv, LocksOK, Labels, LockingInv, HolderInv, WritersExclude, Counted, Reading,
          Writing, Goto
  <2>1. CASE ReadEnters(t)
    <3>1. t \in Readers
      BY <2>1 DEF ReadEnters, CountInv
    <3> QED BY <2>1, <3>1, EnterInv
  <2>2. CASE ReadEnds(t)
    BY <2>2, EndInv
  <2>3. ASSUME NEW n \in Sizes, ReadChecks(t, n) PROVE Inv'
    BY <2>3, OtherInv DEF ReadChecks, fileVars
  <2>4. ASSUME NEW n \in Sizes, WriteStarts(t, n) PROVE Inv'
    BY <2>4, OtherInv DEF WriteStarts, fileVars
  <2>5. ASSUME NEW n \in Sizes, WriteFails(t, n) PROVE Inv'
    BY <2>5, OtherInv DEF WriteFails, fileVars
  <2>6. CASE ReadLocks(t)
    BY <2>6, OtherInv DEF ReadLocks, fileVars
  <2>7. CASE ReadPoints(t)
    BY <2>7, OtherInv DEF ReadPoints, fileVars
  <2>8. CASE ReadClamps(t)
    BY <2>8, OtherInv DEF ReadClamps, fileVars
  <2>9. CASE ReadAdds(t)
    BY <2>9, OtherInv DEF ReadAdds, fileVars
  <2>10. CASE ReadAdvances(t)
    BY <2>10, OtherInv DEF ReadAdvances, fileVars
  <2>11. CASE WriteEnds(t)
    BY <2>11, OtherInv DEF WriteEnds, fileVars
  <2>12. ASSUME NEW base \in {0, offset, size}, NEW delta \in Deltas, Seeks(t, base, delta) PROVE Inv'
    BY <2>12, OtherInv DEF Seeks, fileVars
  <2> QED BY <1>2, <2>1, <2>2, <2>3, <2>4, <2>5, <2>6, <2>7, <2>8, <2>9, <2>10, <2>11, <2>12 DEF ThreadStep
<1> QED BY <1>1, <1>2 DEF Next, Reopen, CopyOver

LEMMA AlwaysInv == Spec => []Inv
<1>1. Inv /\ [Next]_vars => Inv'
  <2>1. CASE UNCHANGED vars
    BY <2>1 DEF vars, fileVars, Inv, LocksOK, LockingInv, HolderInv, WritersExclude, CountInv, In,
       Counted, Reading, Writing
  <2> QED BY <2>1, StepInv
<1> QED BY InitInv, <1>1, PTL DEF Spec

(***************************************************************************)
(* While a thread is between the start and the end of a write, no other    *)
(* thread is inside a read or a write: for all threads, sizes and files,   *)
(* and whichever of mmap, ftruncate and mremap fails.                      *)
(***************************************************************************)
THEOREM WritersAlone == Spec => []WritersExclude
<1>1. Inv => WritersExclude
  BY DEF Inv
<1> QED BY AlwaysInv, <1>1, PTL

-----------------------------------------------------------------------------
(* What the file and the chunks are. *)

Chunks == [at : Nat, len : Nat, end : Nat, base : Addresses \cup {MAP_FAILED}]

FileOK ==
  /\ offset \in Nat /\ size \in Nat /\ length \in Nat
  /\ size <= MaxOffset + 1 /\ length <= MaxOffset + 1
  /\ ptr \in Addresses \cup {MAP_FAILED}
  /\ chunk \in [Threads -> Chunks]

(* A mapping that is lost was lost by a call that failed. *)
LostInv == failures \cap {"mmap", "mremap"} = {} => ptr \in Addresses

FileInv == FileOK /\ SizeFollowsLength /\ LostInv

(* An unsigned number of the machine is a number. *)
LEMMA WordIsNat == \A x \in Int : x % Word \in Nat
  BY SizesAssumption

(* What zc_open maps of a file. *)
LEMMA MappedBounds ==
  ASSUME NEW n \in Nat, n <= MaxOffset + 1
  PROVE  MappedSize(n) \in Nat /\ MappedSize(n) <= MaxOffset + 1
  BY SizesAssumption DEF MappedSize

LEMMA InitFile == Init => FileInv
<1> SUFFICES ASSUME Init PROVE FileInv
  OBVIOUS
<1>1. length \in Nat /\ length <= MaxOffset + 1
  BY SizesAssumption DEF Init
<1>2. size \in Nat /\ size <= MaxOffset + 1 /\ size = MappedSize(length)
  BY <1>1, MappedBounds DEF Init
<1>3. chunk \in [Threads -> Chunks]
  BY DEF Init, Chunks, NoChunk
<1> QED BY <1>1, <1>2, <1>3 DEF Init, FileInv, FileOK, SizeFollowsLength, LostInv

(* What zc_open knows of the mapping. *)
LEMMA OpensMaps ==
  ASSUME Opens
  PROVE  /\ size' = MappedSize(length')
         /\ \/ ptr' \in Addresses /\ failures' = {}
            \/ ptr' = MAP_FAILED /\ failures' = {"mmap"}
  BY DEF Opens, Maps

(* A copy leaves a file no longer than the longer of the two. *)
LEMMA CopyLength ==
  ASSUME FileOK, NEW n \in Lengths, CopyOver(n)
  PROVE  length' \in Nat /\ length' <= MaxOffset + 1
<1>1. n \in Nat /\ n <= MaxOffset
  BY SizesAssumption
<1>2. MappedSize(n) \in Nat /\ MappedSize(n) <= MaxOffset + 1
  BY <1>1, SizesAssumption, MappedBounds
<1> DEFINE Short(l) == l \in Nat /\ l <= MaxOffset + 1
<1>3. \A old : Short(old) => \A l \in Truncated(old, MappedSize(n)) : Short(l)
  BY <1>2 DEF Truncated
<1>4. PICK cut \in Truncated(length, MappedSize(n)) :
      \E grown \in IF MappedSize(n) >= MappedSize(length) THEN Truncated(cut, MappedSize(n)) ELSE {cut} :
      \E copied \in 0..n : length' = IF copied > grown THEN copied ELSE grown
  BY DEF CopyOver
<1>5. Short(cut)
  BY <1>3 DEF FileOK
<1>6. PICK grown \in IF MappedSize(n) >= MappedSize(length) THEN Truncated(cut, MappedSize(n)) ELSE {cut},
           copied \in 0..n : length' = IF copied > grown THEN copied ELSE grown
  BY <1>4
<1>7. Short(grown) /\ copied \in Nat /\ copied <= MaxOffset
  BY <1>1, <1>3, <1>5, <1>6, SizesAssumption
<1> QED BY <1>6, <1>7, SizesAssumption

(* Every step keeps the file and its size together: only a growth changes
   them while the file is open, and it leaves at least one byte. *)
LEMMA StepFile == FileInv /\ Next => FileInv'
<1> SUFFICES ASSUME FileInv, Next PROVE FileInv'
  OBVIOUS
<1> USE SizesAssumption DEF FileInv, FileOK, SizeFollowsLength, LostInv
<1>1. CASE Opens /\ length' \in Nat /\ length' <= MaxOffset + 1
  <2>1. size' \in Nat /\ size' <= MaxOffset + 1
    BY <1>1, MappedBounds DEF Opens
  <2>2. /\ size' = MappedSize(length')
        /\ (ptr' \in Addresses /\ failures' = {}) \/ (ptr' = MAP_FAILED /\ failures' = {"mmap"})
    BY <1>1, OpensMaps
  <2> QED BY <1>1, <2>1, <2>2 DEF Opens
<1>2. ASSUME NEW n \in Lengths, CopyOver(n) PROVE FileInv'
  BY <1>1, <1>2, CopyLength DEF CopyOver
<1>3. ASSUME NEW t \in Threads, ThreadStep(t) PROVE FileInv'
  <2> USE DEF Chunks, fileVars
  <2>1. ASSUME NEW n \in Sizes, ReadChecks(t, n) PROVE FileInv'
    BY <2>1 DEF ReadChecks, NoChunk
  <2>2. CASE ReadEnters(t)
    BY <2>2 DEF ReadEnters
  <2>3. CASE ReadLocks(t)
    BY <2>3 DEF ReadLocks
  <2>4. CASE ReadPoints(t)
    BY <2>4, ZenonT(60) DEF ReadPoints
  <2>5. CASE ReadClamps(t)
    <3>1. Remaining(chunk[t].len) \in Nat
      BY WordIsNat DEF Remaining
    <3> QED BY <2>5, <3>1 DEF ReadClamps
  <2>6. CASE ReadAdds(t)
    <3>1. (offset + chunk[t].len) % Word \in Nat
      BY WordIsNat
    <3> QED BY <2>6, <3>1 DEF ReadAdds
  <2>7. CASE ReadAdvances(t)
    BY <2>7 DEF ReadAdvances
  <2>8. CASE ReadEnds(t)
    BY <2>8 DEF ReadEnds, NoChunk
  <2>9. ASSUME NEW n \in Sizes, WriteStarts(t, n) PROVE FileInv'
    <3>1. offset + n \in Nat \ {0} /\ offset + n <= MaxOffset
      BY <2>9 DEF WriteStarts
    <3>2. CASE Grows(n)
      <4>1. /\ size' = offset + n /\ ptr' \in Addresses /\ ptr # MAP_FAILED
            /\ \/ length' = offset + n /\ failures' = failures
               \/ length' = length /\ failures' = failures \cup {"ftruncate"}
        BY <2>9, <3>2 DEF WriteStarts, GrownTo, Truncates
      <4>2. "mremap" \notin failures => offset + n >= MappedSize(length)
        BY <3>2 DEF Grows, MappedSize
      <4>3. SizeFollowsLength'
        <5>1. CASE length' = offset + n /\ failures' = failures
          BY <3>1, <4>1, <5>1 DEF MappedSize
        <5>2. CASE length' = length /\ failures' = failures \cup {"ftruncate"}
          <6>1. size' >= MappedSize(length') \/ "mremap" \in failures'
            BY <4>1, <4>2, <5>2
          <6> QED BY <5>2, <6>1
        <5> QED BY <4>1, <5>1, <5>2
      <4>4. FileOK'
        BY <2>9, <3>1, <4>1 DEF WriteStarts
      <4> QED BY <4>1, <4>3, <4>4
    <3>3. CASE ~Grows(n)
      BY <2>9, <3>1, <3>3 DEF WriteStarts
    <3> QED BY <3>2, <3>3
  <2>10. ASSUME NEW n \in Sizes, WriteFails(t, n) PROVE FileInv'
    <3>1. offset + n \in Nat \ {0} /\ offset + n <= MaxOffset /\ offset + n >= size
      BY <2>10 DEF WriteFails, Grows
    <3>2. \/ length' = offset + n /\ failures' = failures \cup {"mremap"}
          \/ length' = length /\ failures' = failures \cup {"mremap", "ftruncate"}
      BY <2>10 DEF WriteFails, Truncates
    <3>3. size' = size /\ ptr' = MAP_FAILED /\ offset' = offset /\ chunk' = chunk
      BY <2>10 DEF WriteFails
    <3> QED BY <3>1, <3>2, <3>3 DEF MappedSize
  <2>11. CASE WriteEnds(t)
    BY <2>11 DEF WriteEnds, NoChunk
  <2>12. ASSUME NEW base \in {0, offset, size}, NEW delta \in Deltas, Seeks(t, base, delta) PROVE FileInv'
    BY <2>12 DEF Seeks
  <2> QED BY <1>3, <2>1, <2>2, <2>3, <2>4, <2>5, <2>6, <2>7, <2>8, <2>9, <2>10, <2>11, <2>12 DEF ThreadStep
<1> QED BY <1>1, <1>2, <1>3 DEF Next, Reopen

LEMMA AlwaysFile == Spec => []FileInv
<1>1. FileInv /\ [Next]_vars => FileInv'
  BY StepFile DEF FileInv, FileOK, SizeFollowsLength, LostInv, vars, fileVars
<1> QED BY InitFile, <1>1, PTL DEF Spec

(***************************************************************************)
(* The size of the struct is the length of the file, or 1 for an empty     *)
(* one: for all files, whatever is written, copied over it and opened      *)
(* again, and whichever calls fail.  It is more only after a failed        *)
(* ftruncate of this opening, and less only after a failed mremap.         *)
(***************************************************************************)
THEOREM SizeCorrect == Spec => []SizeFollowsLength
<1>1. FileInv => SizeFollowsLength
  BY DEF FileInv
<1> QED BY AlwaysFile, <1>1, PTL

-----------------------------------------------------------------------------
(* What the chunks are to the mapping.

   BaseInv: a thread that has its chunk has it where the file is mapped.
   StartInv follows the start of a read that no other thread disturbs: the
   offset it has checked is still the one it reads, adds to and goes by.
   FitInv: its chunk ends inside the mapping. *)

HasChunk(t) == pc[t] \in {"pointed", "clamped", "added", "reading", "writing"}

BaseInv == \A t \in Threads : HasChunk(t) => chunk[t].base = ptr

StartOK(t) ==
  /\ pc[t] \in {"entering", "locking", "locked", "pointed", "clamped"} => offset <= size
  /\ pc[t] \in {"pointed", "clamped"} => chunk[t].at = offset
  /\ pc[t] = "added" => chunk[t].end = (chunk[t].at + chunk[t].len) % Word

StartInv ==
  /\ raced \subseteq Threads
  /\ \A t \in Threads \ raced : StartOK(t)

(* While a thread reads, nobody else changes the size or moves the mapping,
   and it takes a reader at its end to change the offset. *)
LEMMA MappingStays ==
  ASSUME Inv, NEW t \in Threads, HasChunk(t) \/ Reading(t), Next, pc'[t] # "idle"
  PROVE  ptr' = ptr /\ size' = size
<1>1. w_mutex = 0 /\ pc[t] # "idle"
  BY DEF Inv, HolderInv, HasChunk, Reading, Writing
<1>2. CASE Opens
  BY <1>1, <1>2 DEF Opens
<1>3. ASSUME NEW u \in Threads, ThreadStep(u) PROVE ptr' = ptr /\ size' = size
  BY <1>1, <1>3 DEF ThreadStep, ReadChecks, ReadEnters, ReadLocks, ReadPoints, ReadClamps, ReadAdds,
     ReadAdvances, ReadEnds, WriteStarts, WriteFails, WriteEnds, Seeks, fileVars
<1> QED BY <1>2, <1>3 DEF Next, Reopen, CopyOver

(* A step of one thread leaves the labels and the chunks of the others. *)
LEMMA OthersStay ==
  ASSUME Inv, FileInv, NEW u \in Threads, ThreadStep(u), NEW t \in Threads, t # u
  PROVE  pc'[t] = pc[t] /\ chunk'[t] = chunk[t]
<1> USE DEF Inv, LocksOK, FileInv, FileOK, Goto
<1>1. CASE \E n \in Sizes : ReadChecks(u, n) \/ WriteStarts(u, n) \/ WriteFails(u, n)
  BY <1>1 DEF ReadChecks, WriteStarts, WriteFails
<1>2. CASE ReadEnters(u) \/ ReadLocks(u) \/ ReadPoints(u) \/ ReadClamps(u)
  BY <1>2 DEF ReadEnters, ReadLocks, ReadPoints, ReadClamps, fileVars
<1>3. CASE ReadAdds(u) \/ ReadAdvances(u) \/ ReadEnds(u) \/ WriteEnds(u)
  BY <1>3 DEF ReadAdds, ReadAdvances, ReadEnds, WriteEnds, fileVars
<1>4. CASE \E base \in {0, offset, size}, delta \in Deltas : Seeks(u, base, delta)
  BY <1>4 DEF Seeks
<1> QED BY <1>1, <1>2, <1>3, <1>4 DEF ThreadStep

LEMMA StepBase == Inv /\ FileInv /\ BaseInv /\ Next => BaseInv'
<1> SUFFICES ASSUME Inv, FileInv, BaseInv, Next, NEW t \in Threads, HasChunk(t)'
             PROVE  chunk'[t].base = ptr'
  BY DEF BaseInv
<1> USE DEF Inv, LocksOK, FileInv, FileOK, Goto
<1>1. CASE Opens
  BY <1>1 DEF Opens, HasChunk
<1>2. ASSUME NEW u \in Threads, ThreadStep(u), u # t PROVE chunk'[t].base = ptr'
  <2>1. pc'[t] = pc[t] /\ chunk'[t] = chunk[t] /\ HasChunk(t)
    BY <1>2, OthersStay DEF HasChunk
  <2>2. ptr' = ptr
    BY <2>1, MappingStays DEF HasChunk
  <2> QED BY <2>1, <2>2 DEF BaseInv
<1>3. CASE ThreadStep(t)
  <2>1. CASE HasChunk(t)
    <3>1. ptr' = ptr
      BY <2>1, MappingStays DEF HasChunk
    <3>2. chunk'[t].base = chunk[t].base
      BY <1>3, <2>1 DEF ThreadStep, HasChunk, Chunks, ReadChecks, ReadEnters, ReadLocks, ReadPoints,
         ReadClamps, ReadAdds, ReadAdvances, ReadEnds, WriteStarts, WriteFails, WriteEnds, Seeks, fileVars
    <3> QED BY <2>1, <3>1, <3>2 DEF BaseInv
  <2>2. CASE ~HasChunk(t)
    <3>1. ReadPoints(t) \/ \E n \in Sizes : WriteStarts(t, n)
      BY <1>3, <2>2 DEF ThreadStep, HasChunk, ReadChecks, ReadEnters, FirstReader, ReadLocks,
         ReadClamps, ReadAdds, ReadAdvances, ReadEnds, WriteFails, WriteEnds, Seeks
    <3> QED BY <3>1 DEF ReadPoints, WriteStarts, Chunks, fileVars
  <2> QED BY <2>1, <2>2
<1> QED BY <1>1, <1>2, <1>3 DEF Next, Reopen, CopyOver

(* An unsigned number that fits is itself. *)
LEMMA SmallWord == \A x \in Nat : x < Word => x % Word = x
  BY SizesAssumption

(* A thread that the step does not leave disturbed was not disturbed before. *)
LEMMA StillUndisturbed ==
  ASSUME Next, NEW t \in Threads \ raced', pc'[t] # "idle"
  PROVE  t \notin raced /\ ~Disturbed(t)
  BY DEF Next, RecordRaced

LEMMA StepStart == Inv /\ FileInv /\ StartInv /\ Next => StartInv'
<1> SUFFICES ASSUME Inv, FileInv, StartInv, Next, NEW t \in Threads \ raced' PROVE StartOK(t)'
  BY DEF StartInv, Next, RecordRaced
<1> USE DEF Inv, LocksOK, FileInv, FileOK, Goto
<1>1. CASE pc'[t] = "idle"
  BY <1>1 DEF StartOK
<1>2. CASE pc'[t] # "idle"
  <2>1. t \notin raced /\ ~Disturbed(t) /\ StartOK(t)
    BY <1>2, StillUndisturbed DEF StartInv
  <2>2. ASSUME NEW u \in Threads, ThreadStep(u), u # t PROVE StartOK(t)'
    <3>1. pc'[t] = pc[t] /\ chunk'[t] = chunk[t]
      BY <2>2, OthersStay
    <3>2. CASE pc[t] \in {"entering", "locking"}
      <4>1. offset' = offset
        BY <2>1, <3>2 DEF Disturbed
      <4>2. size' >= size
        BY <2>2 DEF ThreadStep, ReadChecks, ReadEnters, ReadLocks, ReadPoints, ReadClamps, ReadAdds,
           ReadAdvances, ReadEnds, WriteStarts, Grows, GrownTo, WriteFails, WriteEnds, Seeks, fileVars
      <4>3. size' \in Nat
        BY StepFile
      <4> QED BY <2>1, <3>1, <3>2, <4>1, <4>2, <4>3 DEF StartOK
    <3>3. CASE pc[t] \in {"locked", "pointed", "clamped"}
      <4>1. w_mutex = 0 /\ size' = size
        BY <1>2, <3>3, MappingStays DEF HolderInv, Reading
      <4>2. ~ReadAdvances(u)
        BY <2>1, <2>2, <3>3 DEF Disturbed, ReadAdvances
      <4>3. offset' = offset
        BY <2>2, <4>1, <4>2 DEF ThreadStep, ReadChecks, ReadEnters, ReadLocks, ReadPoints, ReadClamps,
           ReadAdds, ReadEnds, WriteStarts, WriteFails, WriteEnds, Seeks, fileVars
      <4> QED BY <2>1, <3>1, <3>3, <4>1, <4>3 DEF StartOK
    <3>4. CASE pc[t] \notin {"entering", "locking", "locked", "pointed", "clamped"}
      BY <2>1, <3>1, <3>4 DEF StartOK
    <3> QED BY <3>2, <3>3, <3>4
  <2>3. CASE ThreadStep(t)
    <3> USE <2>1 DEF StartOK, Chunks, fileVars
    <3>1. ASSUME NEW n \in Sizes, ReadChecks(t, n) PROVE StartOK(t)'
      BY <3>1 DEF ReadChecks
    <3>2. CASE ReadEnters(t)
      BY <3>2 DEF ReadEnters
    <3>3. CASE ReadLocks(t)
      BY <3>3 DEF ReadLocks
    <3>4. CASE ReadPoints(t)
      BY <3>4 DEF ReadPoints
    <3>5. CASE ReadClamps(t)
      BY <3>5 DEF ReadClamps
    <3>6. CASE ReadAdds(t)
      BY <3>6 DEF ReadAdds
    <3>7. CASE ReadAdvances(t)
      BY <3>7 DEF ReadAdvances
    <3>8. CASE ReadEnds(t) \/ WriteEnds(t)
      BY <3>8 DEF ReadEnds, WriteEnds
    <3>9. CASE \E n \in Sizes : WriteStarts(t, n) \/ WriteFails(t, n)
      BY <3>9 DEF WriteStarts, WriteFails
    <3>10. CASE \E base \in {0, offset, size}, delta \in Deltas : Seeks(t, base, delta)
      BY <3>10, <1>2 DEF Seeks
    <3> QED BY <2>3, <3>1, <3>2, <3>3, <3>4, <3>5, <3>6, <3>7, <3>8, <3>9, <3>10 DEF ThreadStep
  <2> QED BY <1>2, <2>2, <2>3 DEF Next, Reopen, CopyOver, Opens
<1> QED BY <1>1, <1>2

(* All that is known of the file, its locks and the undisturbed chunks. *)
AllInv == Inv /\ FileInv /\ BaseInv /\ StartInv

LEMMA AlwaysAll == Spec => []AllInv
<1>1. Init => BaseInv /\ StartInv
  BY DEF Init, BaseInv, HasChunk, StartInv, StartOK
<1>2. AllInv /\ [Next]_vars => BaseInv' /\ StartInv'
  <2>1. CASE UNCHANGED vars
    BY <2>1 DEF vars, fileVars, AllInv, BaseInv, HasChunk, StartInv, StartOK
  <2> QED BY <2>1, StepBase, StepStart DEF AllInv
<1> QED BY AlwaysInv, AlwaysFile, <1>1, <1>2, PTL DEF AllInv, Spec

(***************************************************************************)
(* When a read start that no other thread disturbs, or a write start,      *)
(* returns, the shared offset is at the end of its chunk: for any number   *)
(* of readers whose loads and stores of the offset interleave.             *)
(***************************************************************************)
THEOREM ChunksFollow == Spec => NextChunkFollows
<1>1. AllInv /\ [Next]_vars =>
        [\A t \in Threads :
           pc'[t] # pc[t] /\ pc'[t] \in {"reading", "writing"} =>
             t \in raced \/ offset' = (chunk'[t].at + chunk'[t].len) % Word]_vars
  <2> SUFFICES ASSUME AllInv, Next, NEW t \in Threads,
                      pc'[t] # pc[t], pc'[t] \in {"reading", "writing"}, t \notin raced
               PROVE  offset' = (chunk'[t].at + chunk'[t].len) % Word
    OBVIOUS
  <2> USE DEF AllInv, Inv, LocksOK, FileInv, FileOK, Goto
  <2>1. ThreadStep(t)
    BY OthersStay DEF Next, Reopen, CopyOver, Opens
  <2>2. ReadAdvances(t) \/ \E n \in Sizes : WriteStarts(t, n)
    BY <2>1 DEF ThreadStep, ReadChecks, ReadEnters, FirstReader, ReadLocks, ReadPoints, ReadClamps,
       ReadAdds, ReadEnds, WriteFails, WriteEnds, Seeks
  <2>3. CASE ReadAdvances(t)
    BY <2>3 DEF ReadAdvances, StartInv, StartOK
  <2>4. ASSUME NEW n \in Sizes, WriteStarts(t, n)
        PROVE  offset' = (chunk'[t].at + chunk'[t].len) % Word
    <3>1. offset + n \in Nat /\ offset + n < Word
      BY <2>4, SizesAssumption DEF WriteStarts
    <3>2. chunk'[t].at + chunk'[t].len = offset + n /\ offset' = offset + n
      BY <2>4 DEF WriteStarts
    <3> QED BY <3>1, <3>2, SmallWord
  <2> QED BY <2>2, <2>3, <2>4
<1> QED BY AlwaysAll, <1>1, PTL DEF Spec, NextChunkFollows

-----------------------------------------------------------------------------
(* No read asks for so much that its end, added up in a size_t, wraps round
   to a position inside the file: what zc_read_start does not test. *)
ReadsFit == \A n \in Sizes : MaxOffset + 1 + n < Word

FitOK(t) ==
  /\ pc[t] \in {"entering", "locking", "locked", "pointed"} => chunk[t].len \in Sizes
  /\ \/ pc[t] = "writing"
     \/ pc[t] \in {"clamped", "added", "reading"} /\ t \notin raced
     => chunk[t].at + chunk[t].len <= size

FitInv == \A t \in Threads : FitOK(t)

LEMMA StepFit == ReadsFit /\ AllInv /\ FitInv /\ Next => FitInv'
<1> SUFFICES ASSUME ReadsFit, AllInv, FitInv, Next, NEW t \in Threads PROVE FitOK(t)'
  BY DEF FitInv
<1> USE SizesAssumption DEF AllInv, Inv, LocksOK, FileInv, FileOK, Goto
<1>0. FitOK(t) /\ (pc'[t] # "idle" /\ t \notin raced' => t \notin raced)
  BY StillUndisturbed DEF FitInv
<1>1. CASE Opens
  BY <1>1 DEF Opens, FitOK
<1>2. ASSUME NEW u \in Threads, ThreadStep(u), u # t PROVE FitOK(t)'
  <2>1. pc'[t] = pc[t] /\ chunk'[t] = chunk[t]
    BY <1>2, OthersStay
  <2>2. HasChunk(t) => size' = size
    BY <2>1, MappingStays DEF HasChunk
  <2> QED BY <1>0, <2>1, <2>2 DEF FitOK, HasChunk
<1>3. CASE ThreadStep(t)
  <2> USE <1>0 DEF FitOK, Chunks, fileVars
  <2>1. ASSUME NEW n \in Sizes, ReadChecks(t, n) PROVE FitOK(t)'
    BY <2>1 DEF ReadChecks, NoChunk
  <2>2. CASE ReadEnters(t)
    BY <2>2 DEF ReadEnters
  <2>3. CASE ReadLocks(t)
    BY <2>3 DEF ReadLocks
  <2>4. CASE ReadPoints(t)
    BY <2>4 DEF ReadPoints
  <2>5. CASE ReadClamps(t)
    <3>1. /\ pc'[t] = "clamped" /\ size' = size /\ chunk'[t].at = chunk[t].at
          /\ chunk'[t].len = Remaining(chunk[t].len)
      BY <2>5 DEF ReadClamps
    <3>2. ASSUME t \notin raced PROVE chunk[t].at + Remaining(chunk[t].len) <= size
      <4>1. chunk[t].at = offset /\ offset <= size
        BY <2>5, <3>2 DEF StartInv, StartOK, ReadClamps
      <4>2. /\ chunk[t].len \in Sizes /\ size < Word
            /\ offset + chunk[t].len \in Nat /\ offset + chunk[t].len < Word
        BY <2>5, <4>1 DEF ReadClamps, ReadsFit
      <4>3. size - offset \in Nat /\ size - offset < Word
        BY <4>1, <4>2
      <4>4. /\ (offset + chunk[t].len) % Word = offset + chunk[t].len
            /\ (size - offset) % Word = size - offset
        BY <4>2, <4>3, SmallWord
      <4>5. Remaining(chunk[t].len) = IF offset + chunk[t].len > size THEN size - offset ELSE chunk[t].len
        BY <4>4 DEF Remaining
      <4> QED BY <4>1, <4>2, <4>5
    <3> QED BY <3>1, <3>2
  <2>6. CASE ReadAdds(t)
    BY <2>6 DEF ReadAdds
  <2>7. CASE ReadAdvances(t)
    BY <2>7 DEF ReadAdvances
  <2>8. CASE ReadEnds(t) \/ WriteEnds(t)
    BY <2>8 DEF ReadEnds, WriteEnds
  <2>9. ASSUME NEW n \in Sizes, WriteStarts(t, n) PROVE FitOK(t)'
    BY <2>9 DEF WriteStarts, Grows, GrownTo
  <2>10. ASSUME NEW n \in Sizes, WriteFails(t, n) PROVE FitOK(t)'
    BY <2>10 DEF WriteFails
  <2>11. CASE \E base \in {0, offset, size}, delta \in Deltas : Seeks(t, base, delta)
    BY <2>11 DEF Seeks
  <2> QED BY <1>3, <2>1, <2>2, <2>3, <2>4, <2>5, <2>6, <2>7, <2>8, <2>9, <2>10, <2>11 DEF ThreadStep
<1> QED BY <1>1, <1>2, <1>3 DEF Next, Reopen, CopyOver

(***************************************************************************)
(* Between the start and the end of a read or a write its chunk stays      *)
(* where the file is mapped, or MAP_FAILED only if mmap or mremap has      *)
(* failed since the file was opened; and inside it, if no other thread     *)
(* disturbed the start: as long as no read asks for so much that its end   *)
(* wraps round.                                                            *)
(***************************************************************************)
THEOREM ChunksCorrect == ASSUME ReadsFit PROVE Spec => []ChunksStayMapped
<1>1. Init => FitInv
  BY DEF Init, FitInv, FitOK
<1>2. AllInv /\ FitInv /\ [Next]_vars => FitInv'
  <2>1. CASE UNCHANGED vars
    BY <2>1 DEF vars, fileVars, FitInv, FitOK
  <2> QED BY <2>1, StepFit
<1>3. AllInv /\ FitInv => ChunksStayMapped
  BY DEF AllInv, FileInv, LostInv, BaseInv, HasChunk, FitInv, FitOK, ChunksStayMapped
<1> QED BY AlwaysAll, <1>1, <1>2, <1>3, PTL DEF Spec
=============================================================================
