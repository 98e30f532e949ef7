------------------------------- MODULE ZcFile -------------------------------
(***************************************************************************)
(* The zero-copy file of src/cs2106_lab4/zc_io.c: a mapped file that       *)
(* several threads read, write and seek.  Readers count themselves in and  *)
(* out and hold w_mutex between them; a writer or a seek holds it alone.   *)
(* The offset they share is in no critical section of the readers.         *)
(***************************************************************************)
EXTENDS Integers, FiniteSets

CONSTANTS
  Readers, Writers, Seekers,  \* the threads that call each operation
  Sizes,          \* the sizes they ask for
  Deltas,         \* the offsets they seek
  Lengths,        \* the length of the file when it is first opened
  MaxOffset,      \* bound on the offsets that are sought and written to
  Word,           \* size_t holds 0..Word-1
  MayFail         \* the calls that may fail, of those that change the file

ASSUME SizesAssumption ==
  /\ Sizes \subseteq Nat \ {0}
  /\ Lengths \subseteq 0..MaxOffset
  /\ IsFiniteSet(Readers)
  /\ MaxOffset \in Nat /\ Word \in Nat /\ MaxOffset < Word
  /\ MayFail \subseteq {"ftruncate", "mmap", "mremap"}

Threads == Readers \cup Writers \cup Seekers

MAP_FAILED == "MAP_FAILED"
Addresses == {"here", "there"}  \* where the kernel may place the mapping

VARIABLES
  length,                     \* the length of the file on disk
  ptr, size, offset, num_readers, r_mutex, w_mutex,   \* struct zc_file
  pc,                         \* where each thread is
  chunk,                      \* what its read or write start returned, and the
                              \* offset it is about to store
  raced,                      \* history: the threads whose read start another
                              \* thread has disturbed
  failures                    \* history: the calls that have failed since the
                              \* file was opened

fileVars == <<ptr, size, offset, num_readers, r_mutex, w_mutex>>
vars == <<length, fileVars, pc, chunk, raced, failures>>

Goto(t, label) == pc' = [pc EXCEPT ![t] = label]

NoChunk == [at |-> 0, len |-> 0, end |-> 0, base |-> MAP_FAILED]

-----------------------------------------------------------------------------
(* zc_open: an empty file is mapped with one byte.  That mmap may fail is not
   tested: the caller gets a file whose ptr is MAP_FAILED. *)

MappedSize(n) == IF n = 0 THEN 1 ELSE n

Maps ==
  \/ ptr' \in Addresses /\ failures' = {}
  \/ "mmap" \in MayFail /\ ptr' = MAP_FAILED /\ failures' = {"mmap"}

Init ==
  /\ length \in Lengths
  /\ \/ ptr \in Addresses /\ failures = {}
     \/ "mmap" \in MayFail /\ ptr = MAP_FAILED /\ failures = {"mmap"}
  /\ size = MappedSize(length)
  /\ offset = 0 /\ num_readers = 0
  /\ r_mutex = 1 /\ w_mutex = 1
  /\ pc = [t \in Threads |-> "idle"]
  /\ chunk = [t \in Threads |-> NoChunk]
  /\ raced = {}

(* The file is opened when no thread uses it. *)
Opens ==
  /\ \A t \in Threads : pc[t] = "idle"
  /\ Maps
  /\ size' = MappedSize(length')
  /\ offset' = 0 /\ num_readers' = 0
  /\ r_mutex' = 1 /\ w_mutex' = 1
  /\ UNCHANGED <<pc, chunk>>

(* zc_close and zc_open again. *)
Reopen == UNCHANGED length /\ Opens

(* ftruncate: when it fails, the file keeps the length it has. *)
Truncated(old, new) == {new} \cup (IF "ftruncate" \in MayFail THEN {old} ELSE {})

(* zc_copyfile of a file of n bytes over this one, while it is closed, and
   zc_open again.  No call is tested: the file is cut or grown to the size
   zc_open gave the source (cut), grown by zc_write_start (grown), and gets as
   many bytes as copy_file_range is willing to copy.  (Were one of the two files
   not to open, the NULL of zc_open would end the program with nothing done.) *)
CopyOver(n) ==
  /\ \E cut \in Truncated(length, MappedSize(n)) :
     \E grown \in IF MappedSize(n) >= MappedSize(length) THEN Truncated(cut, MappedSize(n)) ELSE {cut} :
     \E copied \in 0..n :
       length' = IF copied > grown THEN copied ELSE grown
  /\ Opens

-----------------------------------------------------------------------------
(* zc_read_start.  Past the end it returns NULL and changes nothing. *)

ReadChecks(t, n) ==
  /\ t \in Readers /\ pc[t] = "idle"
  /\ offset <= size
  /\ chunk' = [chunk EXCEPT ![t] = [NoChunk EXCEPT !.len = n]]
  /\ Goto(t, "entering")
  /\ UNCHANGED <<length, failures, fileVars>>

(* The first reader goes on with r_mutex held, the others give it back.  A
   seeded fault: every reader takes itself for a later one. *)
NoFirstReader(n) == FALSE
FirstReader(n) == n = 1

ReadEnters(t) ==
  /\ pc[t] = "entering"
  /\ r_mutex > 0
  /\ num_readers' = num_readers + 1
  /\ IF FirstReader(num_readers')
     THEN r_mutex' = r_mutex - 1 /\ Goto(t, "locking")
     ELSE r_mutex' = r_mutex /\ Goto(t, "locked")
  /\ UNCHANGED <<length, failures, ptr, size, offset, w_mutex, chunk>>

ReadLocks(t) ==
  /\ pc[t] = "locking"
  /\ w_mutex > 0
  /\ w_mutex' = w_mutex - 1
  /\ r_mutex' = r_mutex + 1
  /\ Goto(t, "locked")
  /\ UNCHANGED <<length, failures, ptr, size, offset, num_readers, chunk>>

ReadPoints(t) ==
  /\ pc[t] = "locked"
  /\ chunk' = [chunk EXCEPT ![t].at = offset, ![t].base = ptr]
  /\ Goto(t, "pointed")
  /\ UNCHANGED <<length, failures, fileVars>>

(* A seeded fault: the size is not cut at the end of the file. *)
AllRemaining(n) == n

(* "If the file contains less than *size bytes remaining": unsigned. *)
Remaining(n) == IF (offset + n) % Word > size THEN (size - offset) % Word ELSE n

ReadClamps(t) ==
  /\ pc[t] = "pointed"
  /\ chunk' = [chunk EXCEPT ![t].len = Remaining(@)]
  /\ Goto(t, "clamped")
  /\ UNCHANGED <<length, failures, fileVars>>

(* offset += *size is a load and a store. *)
ReadAdds(t) ==
  /\ pc[t] = "clamped"
  /\ chunk' = [chunk EXCEPT ![t].end = (offset + chunk[t].len) % Word]
  /\ Goto(t, "added")
  /\ UNCHANGED <<length, failures, fileVars>>

ReadAdvances(t) ==
  /\ pc[t] = "added"
  /\ offset' = chunk[t].end
  /\ Goto(t, "reading")
  /\ UNCHANGED <<length, failures, ptr, size, num_readers, r_mutex, w_mutex, chunk>>

(* zc_read_end: the last reader lets the writers in. *)
ReadEnds(t) ==
  /\ pc[t] = "reading"
  /\ r_mutex > 0
  /\ num_readers' = num_readers - 1
  /\ w_mutex' = IF num_readers' = 0 THEN w_mutex + 1 ELSE w_mutex
  /\ Goto(t, "idle")
  /\ chunk' = [chunk EXCEPT ![t] = NoChunk]
  /\ UNCHANGED <<length, failures, ptr, size, offset, r_mutex>>

-----------------------------------------------------------------------------
(* zc_write_start and zc_write_end. *)

Grows(n) == offset + n >= size

(* The size of the file when it grows.  A seeded fault: as it was. *)
SizeKept(n) == size
GrownTo(n) == offset + n

(* The file is grown with ftruncate, whose result is not looked at. *)
Truncates(n, others) ==
  \E failed \in IF "ftruncate" \in MayFail THEN {{}, {"ftruncate"}} ELSE {{}} :
    /\ length' = IF failed = {} THEN n ELSE length
    /\ failures' = failures \cup failed \cup others

(* Without a growth the chunk is at the offset from ptr, even if the mapping is
   lost and ptr is MAP_FAILED. *)
WriteStarts(t, n) ==
  /\ t \in Writers /\ pc[t] = "idle"
  /\ w_mutex > 0
  /\ offset + n <= MaxOffset
  /\ w_mutex' = w_mutex - 1
  /\ IF Grows(n)
     THEN /\ ptr # MAP_FAILED
          /\ Truncates(offset + n, {})
          /\ size' = GrownTo(n)
          /\ ptr' \in Addresses
     ELSE UNCHANGED <<length, failures, size, ptr>>
  /\ chunk' = [chunk EXCEPT ![t] = [at |-> offset, len |-> n, end |-> offset + n, base |-> ptr']]
  /\ offset' = offset + n
  /\ Goto(t, "writing")
  /\ UNCHANGED <<num_readers, r_mutex>>

(* mremap fails, and does so on a mapping that is lost already: the caller
   gets NULL, and ends its write all the same. *)
WriteFails(t, n) ==
  /\ t \in Writers /\ pc[t] = "idle"
  /\ w_mutex > 0
  /\ offset + n <= MaxOffset /\ Grows(n)
  /\ "mremap" \in MayFail \/ ptr = MAP_FAILED
  /\ w_mutex' = w_mutex - 1
  /\ Truncates(offset + n, {"mremap"})
  /\ ptr' = MAP_FAILED
  /\ Goto(t, "failed")
  /\ UNCHANGED <<size, offset, num_readers, r_mutex, chunk>>

WriteEnds(t) ==
  /\ pc[t] \in {"writing", "failed"}
  /\ w_mutex' = w_mutex + 1
  /\ Goto(t, "idle")
  /\ chunk' = [chunk EXCEPT ![t] = NoChunk]
  /\ UNCHANGED <<length, failures, ptr, size, offset, num_readers, r_mutex>>

-----------------------------------------------------------------------------
(* zc_lseek from the start, the offset or the end; a position before the
   start is refused and changes nothing. *)
Seeks(t, base, delta) ==
  /\ t \in Seekers /\ pc[t] = "idle"
  /\ w_mutex > 0
  /\ base + delta \in 0..MaxOffset
  /\ offset' = base + delta
  /\ UNCHANGED <<length, failures, ptr, size, num_readers, r_mutex, w_mutex, pc, chunk>>

ThreadStep(t) ==
  \/ \E n \in Sizes : ReadChecks(t, n) \/ WriteStarts(t, n) \/ WriteFails(t, n)
  \/ ReadEnters(t) \/ ReadLocks(t) \/ ReadPoints(t) \/ ReadClamps(t)
  \/ ReadAdds(t) \/ ReadAdvances(t) \/ ReadEnds(t) \/ WriteEnds(t)
  \/ \E base \in {0, offset, size}, delta \in Deltas : Seeks(t, base, delta)

(* A read start is disturbed when the offset changes after it was checked and
   before the lock is taken, or when another reader stores the offset before
   the last load of this one. *)
Disturbed(t) ==
  \/ pc[t] \in {"entering", "locking"} /\ offset' # offset
  \/ /\ pc[t] \in {"locked", "pointed", "clamped"}
     /\ \E u \in Threads \ {t} : pc[u] = "added" /\ pc'[u] = "reading"

RecordRaced ==
  raced' = {t \in Threads : /\ pc'[t] # "idle"
                            /\ t \in raced \/ Disturbed(t)}

Next == (Reopen \/ (\E n \in Lengths : CopyOver(n)) \/ \E t \in Threads : ThreadStep(t)) /\ RecordRaced

Spec == Init /\ [][Next]_vars

-----------------------------------------------------------------------------

Labels == {"idle", "entering", "locking", "locked", "pointed", "clamped", "added", "reading",
           "writing", "failed"}

Reading(t) == pc[t] \in {"locked", "pointed", "clamped", "added", "reading"}
Writing(t) == pc[t] \in {"writing", "failed"}

(***************************************************************************)
(* The readers-writers rule of exercise 4: nothing else takes place while  *)
(* a thread writes, from its write start to its write end.                 *)
(***************************************************************************)
WritersExclude ==
  \A t, u \in Threads : Writing(t) /\ t # u => ~Reading(u) /\ ~Writing(u)

(***************************************************************************)
(* A chunk stays where the file is mapped, and inside it, from the start   *)
(* of a read or write to its end: no other thread moves or cuts the        *)
(* mapping meanwhile.  Two things are known to go wrong before that: mmap  *)
(* or mremap has failed since the file was opened, and the chunk is based  *)
(* on MAP_FAILED; another thread has disturbed the read start, and its     *)
(* chunk is past the end.                                                  *)
(***************************************************************************)
ChunksStayMapped ==
  \A t \in Threads : pc[t] \in {"reading", "writing"} =>
    /\ chunk[t].base = ptr
    /\ failures \cap {"mmap", "mremap"} = {} => chunk[t].base \in Addresses
    /\ t \in raced \/ chunk[t].at + chunk[t].len <= size

(***************************************************************************)
(* size is the "total size of the file", as another program would see it,  *)
(* or 1 for an empty file.  It is more only after an ftruncate has failed  *)
(* since the file was opened, and less only after an mremap has: whatever  *)
(* fails when the file is mapped or copied over leaves them in step.       *)
(***************************************************************************)
SizeFollowsLength ==
  /\ "ftruncate" \notin failures => size <= MappedSize(length)
  /\ "mremap" \notin failures => size >= MappedSize(length)

(***************************************************************************)
(* "The next bytes after offset": when a read or write start returns, the  *)
(* offset is at the end of the chunk it returned, so that the next chunk   *)
(* follows, unless another reader disturbed the start.                     *)
(***************************************************************************)
NextChunkFollows ==
  [][\A t \in Threads :
       pc'[t] # pc[t] /\ pc'[t] \in {"reading", "writing"} =>
         t \in raced \/ offset' = (chunk'[t].at + chunk'[t].len) % Word]_vars

=============================================================================
