----------------------------- MODULE ShellProofs -----------------------------
(***************************************************************************)
(* Proofs about Shell and CommandLine.  All safety properties of Shell     *)
(* rest on one inductive invariant, of which these are the parts:          *)
(*                                                                         *)
(*   TableInv   which entries a process has, and that all but its first    *)
(*              are never written;                                         *)
(*   KernelInv  how a process can have come to stop and to end;            *)
(*   WaitInv    the shell waits for no process it has told to terminate;   *)
(*   SignalInv  what is shown as running has not been told to terminate,   *)
(*              what is shown as terminating has;                          *)
(*   OverInv    what is shown as exited has been reaped.                   *)
(*                                                                         *)
(* They are about the entries of children.  Of those of forks that failed  *)
(* it is enough that a waitpid for them adds the child to stolen, and that *)
(* a kill for them leaves NoPid in signalled.                              *)
(*                                                                         *)
(* The last part is about the line.  LoopInv and StoreInv say what the two *)
(* loops have found when they have seen the first n tokens.                *)
(***************************************************************************)
EXTENDS MCShell, SequenceTheorems, FiniteSetTheorems, WellFoundedInduction, TLAPS

PcLabels == {"prompt", "background", "foreground", "wait", "info", "quitting", "quit", "overrun"}
ProcStates == {"new", "running", "stopped", "zombie", "reaped"}
Rows == [pid : Pids \cup {NoPid}, status : {EXITED, RUNNING, TERMINATING}, exitCode : Int]

TypeInv ==
  /\ PCBTableArr \in Seq(Rows)
  /\ pc \in PcLabels
  /\ child \in Pids \cup {NoPid}
  /\ polled \in Nat
  /\ proc \in [Pids -> ProcStates]
  /\ ending \in [Pids -> Endings \cup {Exit(0)}]
  /\ signalled \subseteq Pids \cup {NoPid}
  /\ stolen \subseteq Pids

IsLast(i) == \A j \in Entries : j > i => PCBTableArr[j].pid # PCBTableArr[i].pid

(* The processes have an entry from the start, and only the first one changes. *)
TableInv ==
  /\ \A p \in Pids : proc[p] = "new" <=> EntryOf(p) = 0
  /\ \A p \in Pids : \A i \in Entries : PCBTableArr[i].pid = p /\ i # EntryOf(p) => PCBTableArr[i].status = RUNNING
  /\ \A i, j \in Entries :
       PCBTableArr[i].pid = PCBTableArr[j].pid /\ PCBTableArr[i].pid \in Pids \ MayComeBack => i = j

(* How a process stops and ends. *)
KernelInv ==
  \A p \in Pids : /\ proc[p] = "stopped" => p \in MayStop
                  /\ ending[p] = Signal(SIGKILL) => p \in MayBeKilled
                  /\ proc[p] = "zombie" /\ ending[p] = Signal(SIGTERM) => p \in signalled

(* The shell waits for no process that it has told to terminate, and in the
   foreground for one that it has not reaped. *)
WaitInv ==
  /\ pc = "background" /\ child \in Pids \ MayExitAtOnce => proc[child] # "zombie"
  /\ pc \in {"foreground", "wait"} /\ child \in Pids /\ NoPid \notin signalled => child \notin signalled
  /\ pc = "foreground" /\ child \in Pids => proc[child] \notin {"new", "reaped"}

SignalInv ==
  /\ pc # "quit" /\ NoPid \notin signalled => \A p \in Pids : InTableRunning(p) => p \notin signalled
  /\ \A i \in EntriesOf(Pids) : IsLast(i) /\ PCBTableArr[i].status = TERMINATING =>
       PCBTableArr[i].pid \in signalled \/ proc[PCBTableArr[i].pid] = "reaped"

OverInv ==
  \A i \in EntriesOf(Pids \ MayStop) :
    IsLast(i) /\ PCBTableArr[i].status = EXITED =>
      /\ proc[PCBTableArr[i].pid] = "reaped"
      /\ NoPid \notin signalled /\ PCBTableArr[i].pid \notin MayBeKilled =>
           PCBTableArr[i].exitCode = ending[PCBTableArr[i].pid].n

Inv == TypeInv /\ TableInv /\ KernelInv /\ WaitInv /\ SignalInv /\ OverInv /\ NoEndIsLost /\ QuitReachesAll

-----------------------------------------------------------------------------
(* The first entry of a process *)

LEMMA LeastNat ==
  ASSUME NEW T, T \subseteq Nat, T # {}
  PROVE  \E x \in T : \A y \in T : x <= y
<1>1. \A R : IsWellFoundedOn(R, Nat) => \E x \in T : \A y \in T : ~ (<<y, x>> \in R)
  BY WFMin
<1>2. IsWellFoundedOn({xy \in Nat \X Nat : xy[1] < xy[2]}, Nat)
  BY NatLessThanWellFounded DEF OpToRel
<1>3. PICK x \in T : \A y \in T : ~ (<<y, x>> \in {xy \in Nat \X Nat : xy[1] < xy[2]})
  BY <1>1, <1>2
<1>4. ASSUME NEW y \in T, y < x PROVE FALSE
  <2>1. <<y, x>> \in Nat \X Nat
    OBVIOUS
  <2>2. <<y, x>>[1] = y /\ <<y, x>>[2] = x
    OBVIOUS
  <2>3. <<y, x>> \in {xy \in Nat \X Nat : xy[1] < xy[2]}
    BY <1>4, <2>1, <2>2
  <2> QED BY <1>3, <2>3
<1>5. \A y \in T : x <= y
  BY <1>4
<1> QED BY <1>5

LEMMA FirstFacts ==
  ASSUME NEW table \in Seq(Rows), NEW p
  PROVE  /\ Len(table) \in Nat
         /\ FirstIn(table, p) = 0 => \A j \in 1 .. Len(table) : table[j].pid # p
         /\ FirstIn(table, p) # 0 =>
              /\ FirstIn(table, p) \in 1 .. Len(table) /\ table[FirstIn(table, p)].pid = p
              /\ \A j \in 1 .. Len(table) : table[j].pid = p => FirstIn(table, p) <= j
<1> DEFINE I == {i \in 1 .. Len(table) : table[i].pid = p}
<1>1. FirstIn(table, p) = IF I # {} THEN Min(I) ELSE 0
  BY DEF FirstIn, SelectInSeq
<1>2. Len(table) \in Nat /\ I \subseteq Nat /\ 0 \notin I
  BY LenProperties
<1>3. I # {} => Min(I) \in I /\ \A j \in I : Min(I) <= j
  BY <1>2, LeastNat DEF Min
<1> HIDE DEF I
<1>4. FirstIn(table, p) = 0 => I = {}
  BY <1>1, <1>2, <1>3
<1>5. FirstIn(table, p) # 0 => FirstIn(table, p) \in I /\ \A j \in I : FirstIn(table, p) <= j
  BY <1>1, <1>3
<1> QED BY <1>2, <1>4, <1>5 DEF I

LEMMA EntryFacts ==
  ASSUME TypeInv, NEW p
  PROVE  /\ Len(PCBTableArr) \in Nat
         /\ EntryOf(p) = 0 => \A j \in Entries : PCBTableArr[j].pid # p
         /\ EntryOf(p) # 0 =>
              /\ EntryOf(p) \in Entries /\ PCBTableArr[EntryOf(p)].pid = p
              /\ \A j \in Entries : PCBTableArr[j].pid = p => EntryOf(p) <= j
BY FirstFacts DEF TypeInv, EntryOf, Entries

LEMMA RowFacts ==
  ASSUME TypeInv, NEW i \in Entries
  PROVE  /\ PCBTableArr[i] \in Rows
         /\ PCBTableArr[i].pid \in Pids \cup {NoPid}
         /\ PCBTableArr[i].status \in {EXITED, RUNNING, TERMINATING}
<1>1. PCBTableArr[i] \in Rows
  <2> DEFINE table == PCBTableArr  R == Rows
  <2>1. table \in Seq(R) /\ i \in 1 .. Len(table)
    BY DEF TypeInv, Entries
  <2> HIDE DEF table, R
  <2>2. table[i] \in R
    BY <2>1
  <2> QED BY <2>2 DEF table, R
<1> QED BY <1>1 DEF Rows

(* What leaves the process ids of the table leaves the first entries. *)
LEMMA SamePids ==
  ASSUME TypeInv, PCBTableArr' \in Seq(Rows), Entries' = Entries,
         \A i \in Entries : PCBTableArr'[i].pid = PCBTableArr[i].pid
  PROVE  /\ \A p : EntryOf(p)' = EntryOf(p)
         /\ \A i \in Entries : IsLast(i)' = IsLast(i)
<1>1. ASSUME NEW p PROVE EntryOf(p)' = EntryOf(p)
  <2> DEFINE table == PCBTableArr  later == PCBTableArr'  e == FirstIn(table, p)  f == FirstIn(later, p)
  <2>1. EntryOf(p) = e /\ EntryOf(p)' = f
    BY DEF EntryOf
  <2>2. table \in Seq(Rows) /\ later \in Seq(Rows)
    BY DEF TypeInv
  <2>3. 1 .. Len(later) = 1 .. Len(table) /\ \A i \in 1 .. Len(table) : later[i].pid = table[i].pid
    BY DEF Entries
  <2> HIDE DEF table, later, e, f
  <2>4. /\ e = 0 => \A j \in 1 .. Len(table) : table[j].pid # p
        /\ e # 0 => /\ e \in 1 .. Len(table) /\ table[e].pid = p
                    /\ \A j \in 1 .. Len(table) : table[j].pid = p => e <= j
    BY <2>2, FirstFacts DEF e
  <2>5. /\ f = 0 => \A j \in 1 .. Len(table) : later[j].pid # p
        /\ f # 0 => /\ f \in 1 .. Len(table) /\ later[f].pid = p
                    /\ \A j \in 1 .. Len(table) : later[j].pid = p => f <= j
    BY <2>2, <2>3, FirstFacts DEF f
  <2>6. e = 0 <=> f = 0
    BY <2>3, <2>4, <2>5
  <2>7. e # 0 => e <= f /\ f <= e /\ e \in Int /\ f \in Int
    BY <2>3, <2>4, <2>5, <2>6
  <2>8. e # 0 => e = f
    BY <2>7
  <2> QED BY <2>1, <2>6, <2>8
<1>2. \A i \in Entries : IsLast(i)' = IsLast(i)
  BY DEF IsLast
<1> QED BY <1>1, <1>2

-----------------------------------------------------------------------------
(* The steps *)

LEMMA InitInv == Init => Inv
<1> SUFFICES ASSUME Init PROVE Inv
  OBVIOUS
<1>1. PCBTableArr = <<>> /\ Len(PCBTableArr) = 0 /\ Entries = {}
  BY DEF Init, Entries
<1>2. TypeInv
  BY <1>1, EmptySeq DEF Init, TypeInv, PcLabels, ProcStates
<1>3. \A p : EntryOf(p) = 0
  BY <1>1, <1>2, EntryFacts
<1>4. TableInv /\ WaitInv
  BY <1>1, <1>3, ShellAssumption DEF Init, TableInv, WaitInv
<1>5. KernelInv
  BY DEF Init, KernelInv, Exit, Signal
<1>6. SignalInv /\ OverInv /\ NoEndIsLost /\ QuitReachesAll
  BY <1>1, <1>3 DEF Init, SignalInv, OverInv, NoEndIsLost, QuitReachesAll, EntriesOf, InTableRunning, Live
<1> QED BY <1>2, <1>4, <1>5, <1>6 DEF Inv

(* A step of a child, which lives before it, and is neither new nor reaped after. *)
LEMMA KernelStep ==
  ASSUME Inv, NEW c \in Pids, ChildEnds(c) \/ ChildStops(c) \/ ChildContinues(c)
  PROVE  Inv'
<1> USE DEF Inv
<1>1. /\ UNCHANGED <<PCBTableArr, pc, child, polled, signalled, stolen>>
      /\ Live(c)
      /\ proc' \in [Pids -> ProcStates]
      /\ proc'[c] \in {"running", "stopped", "zombie"}
      /\ proc'[c] = "zombie" => ChildEnds(c)
      /\ proc'[c] = "stopped" => c \in MayStop
      /\ \A p \in Pids : p # c => proc'[p] = proc[p]
  BY DEF TypeInv, ProcStates, ChildEnds, ChildStops, ChildContinues, Live, shellVars
<1>2. /\ ending' \in [Pids -> Endings \cup {Exit(0)}]
      /\ ending'[c] # ending[c] => ChildEnds(c)
      /\ \A p \in Pids : p # c => ending'[p] = ending[p]
  BY DEF TypeInv, ChildEnds, ChildStops, ChildContinues
<1>3. ASSUME ChildEnds(c)
      PROVE  /\ MayEnd(c, ending'[c])
             /\ pc = "background" /\ child = c => c \in MayExitAtOnce
  BY <1>3 DEF ChildEnds, TypeInv
<1>4. Entries' = Entries /\ (\A p : EntryOf(p)' = EntryOf(p)) /\ (\A i : IsLast(i)' = IsLast(i))
  BY <1>1 DEF Entries, EntryOf, IsLast
<1>5. TypeInv'
  BY <1>1, <1>2 DEF TypeInv
<1>6. \A p \in Pids : /\ proc'[p] = "reaped" <=> proc[p] = "reaped"
                      /\ proc'[p] = "new" <=> proc[p] = "new"
                      /\ Live(p)' => Live(p)
                      /\ proc[p] = "reaped" => ending'[p] = ending[p]
  BY <1>1, <1>2 DEF Live
<1>7. \A pids : EntriesOf(pids)' = EntriesOf(pids)
  BY <1>1, <1>4 DEF EntriesOf
<1>8. TableInv'
  BY <1>1, <1>4, <1>6 DEF TableInv
<1>9. KernelInv'
  <2>1. \A p \in Pids : p # c => proc'[p] = proc[p] /\ ending'[p] = ending[p]
    BY <1>1, <1>2
  <2>2. ending'[c] = Signal(SIGKILL) => c \in MayBeKilled
    BY <1>2, <1>3 DEF KernelInv, MayEnd, Signal, SIGKILL, SIGTERM
  <2>3. proc'[c] = "zombie" /\ ending'[c] = Signal(SIGTERM) => c \in signalled
    BY <1>1, <1>3 DEF MayEnd, Signal, SIGKILL, SIGTERM
  <2> QED BY <1>1, <2>1, <2>2, <2>3 DEF KernelInv
<1>10. WaitInv'
  BY <1>1, <1>3, <1>6 DEF WaitInv, TypeInv
<1>11. SignalInv'
  BY <1>1, <1>4, <1>6, <1>7 DEF SignalInv, InTableRunning, EntriesOf
<1>12. OverInv'
  BY <1>1, <1>4, <1>6, <1>7 DEF OverInv, EntriesOf
<1>13. NoEndIsLost' /\ QuitReachesAll'
  BY <1>1, <1>4, <1>6 DEF NoEndIsLost, QuitReachesAll, EntriesOf
<1> QED BY <1>5, <1>8, <1>9, <1>10, <1>11, <1>12, <1>13

(* A step that changes neither the table nor what the processes are told. *)
LEMMA QuietStep ==
  ASSUME Inv,
         \/ WaitFails \/ Overruns \/ Info \/ InfoEnds \/ PollPasses \/ Quit
         \/ \E pid \in Pids \cup {NoPid} : Wait(pid)
  PROVE  Inv'
<1> USE DEF Inv
<1>1. UNCHANGED <<PCBTableArr, kernelVars>> /\ pc # "quit" /\ pc' # "quit"
  BY DEF WaitFails, Overruns, Info, InfoEnds, PollPasses, Polls, Quit, StartPoll, Wait, Prompt, AtPrompt
<1>2. polled' \in Nat
  BY DEF WaitFails, Overruns, Info, InfoEnds, PollPasses, Quit, StartPoll, Wait, AtPrompt, TypeInv
<1>3. \/ pc' \notin {"background", "foreground", "wait"} /\ pc' \in PcLabels /\ child' \in {child, NoPid}
      \/ pc = "prompt" /\ pc' = "wait" /\ child' \in Pids \cup {NoPid} /\ InTableRunning(child')
  BY DEF WaitFails, Overruns, Info, InfoEnds, PollPasses, Polls, Quit, StartPoll, Wait, AtPrompt, Prompt, PcLabels
<1>4. Entries' = Entries /\ (\A p : EntryOf(p)' = EntryOf(p)) /\ (\A i : IsLast(i)' = IsLast(i))
      /\ (\A pids : EntriesOf(pids)' = EntriesOf(pids))
  BY <1>1 DEF Entries, EntryOf, IsLast, EntriesOf
<1> USE <1>1 DEF kernelVars
<1>5. TypeInv'
  BY <1>2, <1>3 DEF TypeInv, PcLabels
<1>6. TableInv' /\ KernelInv'
  BY <1>4 DEF TableInv, KernelInv
<1>7. SignalInv' /\ OverInv'
  BY <1>4 DEF SignalInv, OverInv, InTableRunning
<1>8. WaitInv'
  BY <1>3 DEF WaitInv, SignalInv
<1>9. NoEndIsLost' /\ QuitReachesAll'
  BY <1>4 DEF NoEndIsLost, QuitReachesAll
<1> QED BY <1>5, <1>6, <1>7, <1>8, <1>9

(* The first waitpid of a background child finds it over only if it may exit at
   once; the one for a fork that failed steals what it finds. *)
LEMMA BackgroundStep ==
  ASSUME Inv, BackgroundWaits
  PROVE  Inv'
<1> USE DEF Inv
<1>1. /\ UNCHANGED <<PCBTableArr, ending, signalled>>
      /\ pc = "background" /\ pc' = "prompt" /\ child' = NoPid /\ polled' = 0
  BY DEF BackgroundWaits, AtPrompt
<1>2. /\ proc' \in [Pids -> ProcStates] /\ stolen' \subseteq Pids /\ stolen \subseteq stolen'
      /\ \A p \in Pids : proc'[p] # proc[p] =>
           proc[p] = "zombie" /\ proc'[p] = "reaped" /\ (p = child \/ p \in stolen')
  <2>1. CASE UNCHANGED <<proc, stolen>>
    BY <2>1 DEF TypeInv
  <2>2. CASE \E p \in Children(child) : Reap(child, p)
    <3>1. PICK p \in Children(child) : Reap(child, p)
      BY <2>2
    <3>2. p \in Pids /\ (p # child => p \in stolen')
      BY <3>1 DEF Children, Reap, TypeInv
    <3> QED BY <3>1, <3>2 DEF Reap, TypeInv, ProcStates
  <2> QED BY <2>1, <2>2 DEF BackgroundWaits
<1>3. Entries' = Entries /\ (\A p : EntryOf(p)' = EntryOf(p)) /\ (\A i : IsLast(i)' = IsLast(i))
      /\ (\A pids : EntriesOf(pids)' = EntriesOf(pids))
  BY <1>1 DEF Entries, EntryOf, IsLast, EntriesOf
<1>4. TypeInv' /\ WaitInv' /\ QuitReachesAll'
  BY <1>1, <1>2 DEF TypeInv, PcLabels, WaitInv, QuitReachesAll
<1>5. TableInv' /\ KernelInv'
  BY <1>1, <1>2, <1>3 DEF TableInv, KernelInv
<1>6. SignalInv'
  BY <1>1, <1>2, <1>3 DEF SignalInv, InTableRunning, EntriesOf
<1>7. OverInv'
  BY <1>1, <1>2, <1>3 DEF OverInv, EntriesOf
<1>8. NoEndIsLost'
  <2>1. \A p \in Pids \ (MayExitAtOnce \cup MayComeBack \cup stolen') : proc'[p] = proc[p] /\ p \notin stolen
    BY <1>1, <1>2 DEF WaitInv
  <2> QED BY <1>1, <1>3, <2>1 DEF NoEndIsLost, EntriesOf
<1> QED BY <1>4, <1>5, <1>6, <1>7, <1>8

(* proc_update_status writes the first entry of the process, if it has one. *)
LEMMA UpdateKeeps ==
  ASSUME TypeInv, TableInv, NEW p, NEW status \in {EXITED, RUNNING, TERMINATING}, NEW code \in Int,
         PCBTableArr' = proc_update_status(PCBTableArr, p, status, code),
         \A q \in Pids : proc'[q] = "new" <=> proc[q] = "new"
  PROVE  /\ PCBTableArr' \in Seq(Rows) /\ Entries' = Entries
         /\ \A q : EntryOf(q)' = EntryOf(q)
         /\ \A i \in Entries : IsLast(i)' = IsLast(i)
         /\ \A i \in Entries : /\ PCBTableArr'[i].pid = PCBTableArr[i].pid
                               /\ i = EntryOf(p) => PCBTableArr[i].pid = p
                               /\ i = EntryOf(p) => PCBTableArr'[i].status = status /\ PCBTableArr'[i].exitCode = code
                               /\ i # EntryOf(p) => PCBTableArr'[i] = PCBTableArr[i]
         /\ TableInv'
<1>1. /\ PCBTableArr' \in Seq(Rows) /\ Len(PCBTableArr') = Len(PCBTableArr)
      /\ \A i \in Entries : /\ PCBTableArr'[i].pid = PCBTableArr[i].pid
                            /\ i = EntryOf(p) => PCBTableArr'[i].status = status /\ PCBTableArr'[i].exitCode = code
                            /\ i # EntryOf(p) => PCBTableArr'[i] = PCBTableArr[i]
  <2> DEFINE table == PCBTableArr'
  <2> HIDE DEF table
  <2>1. PCBTableArr \in Seq(Rows) /\ Len(PCBTableArr) \in Nat
        /\ PCBTableArr \in [Entries -> Rows] /\ DOMAIN PCBTableArr = Entries
    BY LenProperties DEF TypeInv, Entries
  <2>2. CASE EntryOf(p) = 0
    <3>1. table = PCBTableArr
      BY <2>2 DEF proc_update_status, EntryOf, table
    <3> QED BY <2>1, <2>2, <3>1 DEF Entries, table
  <2>3. CASE EntryOf(p) # 0
    <3> DEFINE e == EntryOf(p)
               row == [PCBTableArr[e] EXCEPT !.status = status, !.exitCode = code]
    <3>1. e \in Entries /\ PCBTableArr[e] \in Rows
      BY <2>1, <2>3, EntryFacts
    <3>2. row \in Rows /\ row.pid = PCBTableArr[e].pid /\ row.status = status /\ row.exitCode = code
      BY <3>1 DEF Rows
    <3>3. table = [[PCBTableArr EXCEPT ![e].status = status] EXCEPT ![e].exitCode = code]
      BY <2>3 DEF proc_update_status, EntryOf, table
    <3>4. table = [PCBTableArr EXCEPT ![e] = row]
      BY <2>1, <3>1, <3>3
    <3> HIDE DEF e, row
    <3>5. table \in [Entries -> Rows]
      BY <2>1, <3>1, <3>2, <3>4
    <3>6. table \in Seq(Rows) /\ Len(table) = Len(PCBTableArr)
      BY <2>1, <3>5, SeqDef, LenProperties DEF Entries
    <3>7. \A i \in Entries : table[i] = IF i = e THEN row ELSE PCBTableArr[i]
      BY <2>1, <3>1, <3>4
    <3> QED BY <3>2, <3>6, <3>7 DEF e, table
  <2> QED BY <2>2, <2>3
<1>2. Entries' = Entries
  BY <1>1 DEF Entries
<1>3. (\A q : EntryOf(q)' = EntryOf(q)) /\ \A i \in Entries : IsLast(i)' = IsLast(i)
  BY <1>1, <1>2, SamePids
<1>4. \A i \in Entries : i = EntryOf(p) => PCBTableArr[i].pid = p
  BY EntryFacts DEF Entries
<1>5. TableInv'
  <2>1. \A q \in Pids : proc'[q] = "new" <=> EntryOf(q)' = 0
    BY <1>3 DEF TableInv
  <2>2. ASSUME NEW q \in Pids, NEW i \in Entries, PCBTableArr'[i].pid = q, i # EntryOf(q)'
        PROVE  PCBTableArr'[i].status = RUNNING
    <3>1. PCBTableArr[i].pid = q /\ i # EntryOf(q)
      BY <1>1, <1>3, <2>2
    <3>2. i = EntryOf(p) => q = p
      BY <1>4, <3>1
    <3> QED BY <1>1, <3>1, <3>2 DEF TableInv
  <2>3. \A i, j \in Entries :
          PCBTableArr'[i].pid = PCBTableArr'[j].pid /\ PCBTableArr'[i].pid \in Pids \ MayComeBack => i = j
    BY <1>1 DEF TableInv
  <2> QED BY <1>2, <2>1, <2>2, <2>3 DEF TableInv
<1> QED BY <1>1, <1>2, <1>3, <1>4, <1>5

(* waitpid gives the end of a child, for an entry of its own or for one of a
   fork that failed. *)
LEMMA ReapStep ==
  ASSUME Inv, NEW c \in Pids \cup {NoPid}, NEW r \in Children(c), Reap(c, r), NEW code \in Int,
         PCBTableArr' = proc_update_status(PCBTableArr, c, EXITED, code),
         UNCHANGED <<ending, signalled>>,
         c \in Pids \ MayBeKilled /\ NoPid \notin signalled => code = ending[c].n,
         pc # "quit", pc' \in {"prompt", "info", "quitting"}, child' \in Pids \cup {NoPid}, polled' \in Nat
  PROVE  Inv'
<1> USE DEF Inv
<1>1. r \in Pids /\ (c \in Pids => r = c) /\ proc[r] = "zombie" /\ c \in Pids \cup {NoPid}
      /\ r \in stolen' \cup {c} /\ stolen \subseteq stolen' /\ stolen' \subseteq Pids
  BY ShellAssumption DEF Children, Reap, TypeInv
<1>2. /\ proc' \in [Pids -> ProcStates]
      /\ \A p \in Pids : proc'[p] = IF p = r THEN "reaped" ELSE proc[p]
  BY <1>1 DEF TypeInv, ProcStates, Reap
<1>3. \A p \in Pids : (proc'[p] = "new" <=> proc[p] = "new") /\ (proc[p] = "reaped" => proc'[p] = "reaped")
  BY <1>1, <1>2
<1>4. /\ PCBTableArr' \in Seq(Rows) /\ Entries' = Entries
      /\ \A q : EntryOf(q)' = EntryOf(q)
      /\ \A i \in Entries : IsLast(i)' = IsLast(i)
      /\ \A i \in Entries : /\ PCBTableArr'[i].pid = PCBTableArr[i].pid
                            /\ i = EntryOf(c) => PCBTableArr[i].pid = c
                            /\ i = EntryOf(c) => PCBTableArr'[i].status = EXITED /\ PCBTableArr'[i].exitCode = code
                            /\ i # EntryOf(c) => PCBTableArr'[i] = PCBTableArr[i]
      /\ TableInv'
  BY <1>3, UpdateKeeps
<1>5. TypeInv' /\ WaitInv' /\ QuitReachesAll'
  BY <1>1, <1>2, <1>4 DEF TypeInv, PcLabels, WaitInv, QuitReachesAll
<1>6. KernelInv'
  BY <1>2 DEF KernelInv
<1>7. \A i \in Entries : PCBTableArr'[i].status # EXITED => PCBTableArr'[i] = PCBTableArr[i]
  BY <1>4
<1>8. SignalInv'
  <2>1. ASSUME NEW p \in Pids, InTableRunning(p)' PROVE InTableRunning(p)
    <3>1. EntryOf(p) # 0 /\ PCBTableArr'[EntryOf(p)].status = RUNNING /\ EntryOf(p) \in Entries
      BY <1>4, <2>1, EntryFacts DEF InTableRunning
    <3> QED BY <1>7, <3>1 DEF InTableRunning, RUNNING, EXITED
  <2>2. pc' # "quit" /\ NoPid \notin signalled' => \A p \in Pids : InTableRunning(p)' => p \notin signalled'
    BY <2>1 DEF SignalInv
  <2>3. \A i \in Entries : PCBTableArr'[i].status = TERMINATING => PCBTableArr'[i] = PCBTableArr[i]
    BY <1>7 DEF EXITED, TERMINATING
  <2> QED BY <1>3, <1>4, <2>2, <2>3 DEF SignalInv, EntriesOf
<1>9. OverInv'
  <2> SUFFICES ASSUME NEW i \in Entries, IsLast(i)', PCBTableArr'[i].status = EXITED, PCBTableArr'[i].pid \in Pids \ MayStop
               PROVE  /\ proc'[PCBTableArr'[i].pid] = "reaped"
                      /\ NoPid \notin signalled' /\ PCBTableArr'[i].pid \notin MayBeKilled =>
                           PCBTableArr'[i].exitCode = ending'[PCBTableArr'[i].pid].n
    BY <1>4 DEF OverInv, EntriesOf
  <2>1. CASE i = EntryOf(c)
    BY <1>1, <1>2, <1>4, <2>1, ShellAssumption
  <2>2. CASE i # EntryOf(c)
    <3>1. IsLast(i) /\ PCBTableArr'[i] = PCBTableArr[i] /\ i \in EntriesOf(Pids \ MayStop)
      BY <1>4, <2>2 DEF EntriesOf
    <3> QED BY <1>3, <3>1 DEF OverInv
  <2> QED BY <2>1, <2>2
<1>10. NoEndIsLost'
  <2> SUFFICES ASSUME NEW i \in Entries, PCBTableArr[i].pid \in Pids \ (MayExitAtOnce \cup MayComeBack \cup stolen'),
                      PCBTableArr'[i].status \in {RUNNING, TERMINATING}
               PROVE  proc'[PCBTableArr[i].pid] # "reaped"
    BY <1>4 DEF NoEndIsLost, EntriesOf
  <2> DEFINE p == PCBTableArr[i].pid
  <2>1. i # EntryOf(c) /\ PCBTableArr'[i] = PCBTableArr[i]
    BY <1>4 DEF EXITED, RUNNING, TERMINATING
  <2>2. i = EntryOf(p)
    BY EntryFacts DEF TableInv
  <2>3. p # c /\ p \notin stolen'
    BY <2>1, <2>2
  <2>4. p # r
    BY <1>1, <2>3
  <2>5. proc[p] # "reaped"
    BY <1>1, <2>1 DEF NoEndIsLost, EntriesOf
  <2> QED BY <1>2, <2>4, <2>5
<1> QED BY <1>4, <1>5, <1>6, <1>8, <1>9, <1>10

(* The codes of an end, as the two ways of reading it show them. *)
LEMMA CodeFacts ==
  ASSUME NEW e \in Endings \cup {Exit(0)}
  PROVE  /\ WEXITSTATUS(e) \in Int /\ PolledCode(e) \in Int
         /\ PolledCode(e) = e.n
         /\ e \notin {Signal(SIGKILL), Signal(SIGTERM)} => WEXITSTATUS(e) = e.n
<1>1. e \in {Signal(SIGKILL), Signal(SIGTERM)} \/ \E m \in Nat : e = Exit(m)
  BY ShellAssumption DEF Endings
<1>2. CASE \E m \in Nat : e = Exit(m)
  <2>1. PICK m \in Nat : e = Exit(m)
    BY <1>2
  <2>2. e.by = "exit" /\ e.n = m
    BY <2>1 DEF Exit
  <2> QED BY <2>2 DEF WEXITSTATUS, PolledCode, WIFEXITED
<1>3. CASE e \in {Signal(SIGKILL), Signal(SIGTERM)}
  <2>1. e.by # "exit" /\ e.n \in Int
    BY <1>3 DEF Signal, SIGKILL, SIGTERM
  <2> QED BY <1>3, <2>1 DEF WEXITSTATUS, PolledCode, WIFEXITED, WTERMSIG
<1> QED BY <1>1, <1>2, <1>3

(* A wait of the shell ends: no signal of its own can have ended the child. *)
LEMMA EndStep ==
  ASSUME Inv, ForegroundEnds \/ WaitEnds
  PROVE  Inv'
<1> USE DEF Inv
<1>1. PICK r \in Children(child) :
        /\ Reap(child, r)
        /\ PCBTableArr' = proc_update_status(PCBTableArr, child, EXITED, WEXITSTATUS(ending[r]))
  BY DEF ForegroundEnds, WaitEnds
<1>2. /\ pc \in {"foreground", "wait"} /\ pc' = "prompt" /\ child' = NoPid /\ polled' = 0
      /\ ending' = ending /\ signalled' = signalled
  BY DEF ForegroundEnds, WaitEnds, AtPrompt
<1>3. r \in Pids /\ (child \in Pids => r = child) /\ proc[r] = "zombie" /\ child \in Pids \cup {NoPid}
  BY <1>1, ShellAssumption DEF Children, Reap, TypeInv
<1> DEFINE code == WEXITSTATUS(ending[r])
<1>4. ending[r] \in Endings \cup {Exit(0)}
  BY <1>3 DEF TypeInv
<1>5. code \in Int
  BY <1>4, CodeFacts
<1>6. child \in Pids \ MayBeKilled /\ NoPid \notin signalled => code = ending[child].n
  <2> SUFFICES ASSUME child \in Pids \ MayBeKilled, NoPid \notin signalled
               PROVE  code = ending[child].n
    OBVIOUS
  <2>1. ending[r] \notin {Signal(SIGKILL), Signal(SIGTERM)}
    BY <1>2, <1>3 DEF KernelInv, WaitInv
  <2> QED BY <1>3, <1>4, <2>1, CodeFacts
<1>7. PCBTableArr' = proc_update_status(PCBTableArr, child, EXITED, code)
  BY <1>1
<1> HIDE DEF code, Inv
<1> QED BY <1>1, <1>2, <1>3, <1>5, <1>6, <1>7, ReapStep

(* handle_background_child finds a child that has ended. *)
LEMMA PollStep ==
  ASSUME Inv, PollFinds
  PROVE  Inv'
<1> USE DEF Inv
<1> DEFINE c == Polled.pid
<1>1. PICK r \in Children(c) :
        /\ Reap(c, r)
        /\ PCBTableArr' = proc_update_status(PCBTableArr, c, EXITED, PolledCode(ending[r]))
  BY DEF PollFinds
<1>2. /\ pc \in {"info", "quitting"} /\ pc' = pc /\ child' = child /\ polled' = polled + 1
      /\ ending' = ending /\ signalled' = signalled /\ polled < Len(PCBTableArr)
  BY DEF PollFinds, Polls
<1>3. c \in Pids \cup {NoPid} /\ child \in Pids \cup {NoPid} /\ polled' \in Nat
  <2>1. polled \in Nat /\ Len(PCBTableArr) \in Nat
    BY EntryFacts DEF TypeInv
  <2>2. polled + 1 \in Entries
    BY <1>2, <2>1 DEF Entries
  <2> QED BY <1>2, <2>1, <2>2, RowFacts DEF Polled, TypeInv
<1>4. r \in Pids /\ (c \in Pids => r = c)
  BY <1>1, <1>3, ShellAssumption DEF Children
<1>5. ending[r] \in Endings \cup {Exit(0)}
  BY <1>4 DEF TypeInv
<1> DEFINE code == PolledCode(ending[r])
<1>6. code \in Int /\ code = ending[r].n
  BY <1>5, CodeFacts
<1>7. PCBTableArr' = proc_update_status(PCBTableArr, c, EXITED, code)
  BY <1>1
<1>8. c \in Pids \ MayBeKilled /\ NoPid \notin signalled => code = ending[c].n
  BY <1>4, <1>6
<1> HIDE DEF code, c, Inv
<1> QED BY <1>1, <1>2, <1>3, <1>6, <1>7, <1>8, ReapStep

(* waitpid in the foreground gives a stop, or fails for want of children: it is
   for a child that may be stopped, or for a fork that failed. *)
LEMMA StopStep ==
  ASSUME Inv, ForegroundStops \/ ForegroundFails
  PROVE  Inv'
<1> USE DEF Inv
<1> DEFINE c == child
<1>1. PICK code \in Int : PCBTableArr' = proc_update_status(PCBTableArr, c, EXITED, code)
  BY ShellAssumption DEF ForegroundStops, ForegroundFails, SIGSTOP
<1>2. /\ pc = "foreground" /\ pc' = "prompt" /\ child' = NoPid /\ polled' = 0
      /\ proc' = proc /\ ending' = ending /\ signalled' = signalled /\ stolen' = stolen
  BY DEF ForegroundStops, ForegroundFails, AtPrompt, kernelVars
<1>3. c \in MayStop \cup {NoPid} /\ c \in Pids \cup {NoPid}
  <2>1. CASE ForegroundStops
    BY <2>1, ShellAssumption DEF ForegroundStops, ReturnsStopped, Children, KernelInv, TypeInv
  <2>2. CASE ForegroundFails
    BY <1>2, <2>2 DEF ForegroundFails, Unreaped, Children, WaitInv, TypeInv
  <2> QED BY <2>1, <2>2
<1> HIDE DEF c
<1>4. /\ PCBTableArr' \in Seq(Rows) /\ Entries' = Entries
      /\ \A q : EntryOf(q)' = EntryOf(q)
      /\ \A i \in Entries : IsLast(i)' = IsLast(i)
      /\ \A i \in Entries : /\ PCBTableArr'[i].pid = PCBTableArr[i].pid
                            /\ i = EntryOf(c) => PCBTableArr[i].pid = c
                            /\ i = EntryOf(c) => PCBTableArr'[i].status = EXITED
                            /\ i # EntryOf(c) => PCBTableArr'[i] = PCBTableArr[i]
      /\ TableInv'
  <2>1. \A q \in Pids : proc'[q] = "new" <=> proc[q] = "new"
    BY <1>2
  <2> HIDE DEF Inv
  <2>2. TypeInv /\ TableInv
    BY DEF Inv
  <2> QED BY <1>1, <2>1, <2>2, UpdateKeeps
<1>5. TypeInv' /\ KernelInv' /\ WaitInv' /\ QuitReachesAll'
  BY <1>2, <1>4 DEF TypeInv, PcLabels, KernelInv, WaitInv, QuitReachesAll
<1>6. \A i \in Entries : PCBTableArr'[i].status # EXITED => PCBTableArr'[i] = PCBTableArr[i]
  BY <1>4
<1>7. SignalInv'
  <2>1. ASSUME NEW p \in Pids, InTableRunning(p)' PROVE InTableRunning(p)
    <3>1. EntryOf(p) # 0 /\ PCBTableArr'[EntryOf(p)].status = RUNNING /\ EntryOf(p) \in Entries
      BY <1>4, <2>1, EntryFacts DEF InTableRunning
    <3> QED BY <1>6, <3>1 DEF InTableRunning, RUNNING, EXITED
  <2>2. \A i \in Entries : PCBTableArr'[i].status = TERMINATING => PCBTableArr'[i] = PCBTableArr[i]
    BY <1>6 DEF EXITED, TERMINATING
  <2> QED BY <1>2, <1>4, <2>1, <2>2 DEF SignalInv, EntriesOf
<1>8. OverInv'
  <2>1. \A i \in Entries : PCBTableArr'[i].pid \in Pids \ MayStop => PCBTableArr'[i] = PCBTableArr[i]
    BY <1>3, <1>4, ShellAssumption
  <2> QED BY <1>2, <1>4, <2>1 DEF OverInv, EntriesOf
<1>9. NoEndIsLost'
  <2>1. \A i \in Entries : PCBTableArr'[i].status \in {RUNNING, TERMINATING} => PCBTableArr'[i] = PCBTableArr[i]
    BY <1>6 DEF EXITED, RUNNING, TERMINATING
  <2> QED BY <1>2, <1>4, <2>1 DEF NoEndIsLost, EntriesOf
<1> QED BY <1>4, <1>5, <1>7, <1>8, <1>9

(* What kill changes: it reaches every child in question that is not reaped. *)
LEMMA SignalFacts ==
  ASSUME TypeInv, NEW pids, pids \subseteq Pids \cup {NoPid}
  PROVE  /\ signalled \subseteq Signalled(pids) /\ Signalled(pids) \subseteq Pids \cup {NoPid}
         /\ NoPid \in pids => NoPid \in Signalled(pids)
         /\ NoPid \notin pids => Signalled(pids) \subseteq signalled \cup pids
         /\ \A p \in pids \cap Pids : proc[p] \in {"new", "reaped"} \/ p \in Signalled(pids)
<1> DEFINE reached == UNION {Unreaped(p) : p \in pids}
<1>1. Signalled(pids) = signalled \cup reached \cup (pids \cap {NoPid})
  BY DEF Signalled
<1>2. \A q : q \in reached <=> \E p \in pids : q \in Unreaped(p)
  OBVIOUS
<1> HIDE DEF reached
<1>3. reached \subseteq Pids
  BY <1>2 DEF Unreaped, Children
<1>4. NoPid \notin pids => reached \subseteq pids
  BY <1>2 DEF Unreaped, Children
<1>5. \A p \in pids \cap Pids : proc[p] \in {"new", "reaped"} \/ p \in reached
  BY <1>2, ShellAssumption DEF Unreaped, Children
<1> QED BY <1>1, <1>3, <1>4, <1>5 DEF TypeInv

(* terminate {PID} *)
LEMMA TerminateStep ==
  ASSUME Inv, NEW c \in Pids \cup {NoPid}, Terminate(c)
  PROVE  Inv'
<1> USE DEF Inv
<1> DEFINE code == KillResult(c)
<1>1. /\ pc = "prompt" /\ InTableRunning(c)
      /\ PCBTableArr' = proc_update_status(PCBTableArr, c, TERMINATING, code)
      /\ signalled' = Signalled({c})
      /\ pc' = pc /\ child' = child /\ polled' = polled
      /\ proc' = proc /\ ending' = ending /\ stolen' = stolen
  BY DEF Terminate, Prompt
<1>2. code \in Int
  BY DEF KillResult
<1> HIDE DEF code
<1>3. /\ signalled' \subseteq Pids \cup {NoPid} /\ signalled \subseteq signalled'
      /\ NoPid \notin signalled' => c \in Pids /\ signalled' \subseteq signalled \cup {c}
      /\ c \in Pids => c \in signalled' \/ proc[c] \in {"new", "reaped"}
  BY <1>1, SignalFacts
<1>4. /\ PCBTableArr' \in Seq(Rows) /\ Entries' = Entries
      /\ \A q : EntryOf(q)' = EntryOf(q)
      /\ \A i \in Entries : IsLast(i)' = IsLast(i)
      /\ \A i \in Entries : /\ PCBTableArr'[i].pid = PCBTableArr[i].pid
                            /\ i = EntryOf(c) => PCBTableArr[i].pid = c
                            /\ i = EntryOf(c) => PCBTableArr'[i].status = TERMINATING /\ PCBTableArr'[i].exitCode = code
                            /\ i # EntryOf(c) => PCBTableArr'[i] = PCBTableArr[i]
      /\ TableInv'
  <2>1. \A q \in Pids : proc'[q] = "new" <=> proc[q] = "new"
    BY <1>1
  <2> HIDE DEF Inv
  <2>2. TypeInv /\ TableInv
    BY DEF Inv
  <2>3. PCBTableArr' = proc_update_status(PCBTableArr, c, TERMINATING, code)
    BY <1>1
  <2> QED BY <1>2, <2>1, <2>2, <2>3, UpdateKeeps
<1>5. TypeInv' /\ WaitInv' /\ QuitReachesAll'
  BY <1>1, <1>3, <1>4 DEF TypeInv, PcLabels, WaitInv, QuitReachesAll
<1>6. KernelInv'
  BY <1>1, <1>3 DEF KernelInv
<1>7. SignalInv'
  <2>1. ASSUME NoPid \notin signalled', NEW p \in Pids, InTableRunning(p)' PROVE p \notin signalled'
    <3>1. EntryOf(p) # 0 /\ PCBTableArr'[EntryOf(p)].status = RUNNING /\ EntryOf(p) \in Entries
      BY <1>4, <2>1, EntryFacts DEF InTableRunning
    <3>2. EntryOf(p) # EntryOf(c) /\ PCBTableArr[EntryOf(p)].status = RUNNING
      BY <1>4, <3>1 DEF RUNNING, TERMINATING
    <3> QED BY <1>1, <1>3, <2>1, <3>1, <3>2 DEF SignalInv, InTableRunning
  <2>2. ASSUME NEW i \in Entries, IsLast(i)', PCBTableArr'[i].pid \in Pids, PCBTableArr'[i].status = TERMINATING
        PROVE  PCBTableArr'[i].pid \in signalled' \/ proc'[PCBTableArr'[i].pid] = "reaped"
    <3>1. CASE i = EntryOf(c)
      <4>1. PCBTableArr'[i].pid = c /\ c \in Pids /\ EntryOf(c) # 0
        BY <1>4, <2>2, <3>1, EntryFacts DEF Entries
      <4> QED BY <1>1, <1>3, <4>1 DEF TableInv
    <3>2. CASE i # EntryOf(c)
      <4>1. i \in Entries /\ PCBTableArr'[i] = PCBTableArr[i] /\ IsLast(i)
        BY <1>4, <2>2, <3>2
      <4>2. PCBTableArr[i].pid \in signalled \/ proc[PCBTableArr[i].pid] = "reaped"
        BY <2>2, <4>1 DEF SignalInv, EntriesOf
      <4> QED BY <1>1, <1>3, <4>1, <4>2
    <3> QED BY <3>1, <3>2
  <2> QED BY <1>4, <2>1, <2>2 DEF SignalInv, EntriesOf
<1>8. OverInv'
  <2> SUFFICES ASSUME NEW i \in Entries, PCBTableArr'[i].pid \in Pids \ MayStop, IsLast(i)', PCBTableArr'[i].status = EXITED
               PROVE  /\ proc'[PCBTableArr'[i].pid] = "reaped"
                      /\ NoPid \notin signalled' /\ PCBTableArr'[i].pid \notin MayBeKilled =>
                           PCBTableArr'[i].exitCode = ending'[PCBTableArr'[i].pid].n
    BY <1>4 DEF OverInv, EntriesOf
  <2>1. PCBTableArr'[i] = PCBTableArr[i] /\ IsLast(i)
    BY <1>4 DEF EXITED, TERMINATING
  <2>2. i \in EntriesOf(Pids \ MayStop)
    BY <2>1 DEF EntriesOf
  <2> QED BY <1>1, <1>3, <2>1, <2>2 DEF OverInv
<1>9. NoEndIsLost'
  <2>1. PCBTableArr[EntryOf(c)].status = RUNNING
    BY <1>1 DEF InTableRunning
  <2>2. \A i \in Entries : PCBTableArr'[i].status \in {RUNNING, TERMINATING} =>
          PCBTableArr[i].status \in {RUNNING, TERMINATING}
    BY <1>4, <2>1
  <2> QED BY <1>1, <1>4, <2>2 DEF NoEndIsLost, EntriesOf
<1> QED BY <1>4, <1>5, <1>6, <1>7, <1>8, <1>9

(* A new entry becomes the first one of its process if it has none. *)
LEMMA AppendFacts ==
  ASSUME TypeInv, NEW row \in Rows, PCBTableArr' = Append(PCBTableArr, row), NEW n, n = Len(PCBTableArr) + 1
  PROVE  /\ PCBTableArr' \in Seq(Rows)
         /\ n \in Entries' /\ n \notin Entries /\ Entries' = Entries \cup {n}
         /\ PCBTableArr'[n] = row
         /\ \A i \in Entries : PCBTableArr'[i] = PCBTableArr[i]
         /\ \A p : EntryOf(p)' = IF EntryOf(p) = 0 /\ p = row.pid THEN n ELSE EntryOf(p)
         /\ \A i \in Entries : IsLast(i)' => IsLast(i) /\ PCBTableArr[i].pid # row.pid
<1>1. PCBTableArr \in Seq(Rows) /\ Len(PCBTableArr) \in Nat
  BY LenProperties DEF TypeInv
<1>2. PCBTableArr' \in Seq(Rows) /\ Len(PCBTableArr') = n
  <2> DEFINE table == PCBTableArr  R == Rows
  <2>1. table \in Seq(R) /\ row \in R
    BY <1>1
  <2> HIDE DEF table, R
  <2>2. Append(table, row) \in Seq(R) /\ Len(Append(table, row)) = Len(table) + 1
    BY <2>1, AppendProperties
  <2> QED BY <2>2 DEF table, R
<1>3. PCBTableArr'[n] = row /\ \A i \in Entries : PCBTableArr'[i] = PCBTableArr[i]
  <2> DEFINE table == PCBTableArr  R == Rows
  <2>1. table \in Seq(R) /\ row \in R /\ n = Len(table) + 1 /\ Entries = 1 .. Len(table)
    BY <1>1 DEF Entries
  <2> HIDE DEF table, R
  <2>2. Append(table, row)[n] = row /\ \A i \in Entries : Append(table, row)[i] = table[i]
    BY <2>1, AppendProperties
  <2> QED BY <2>2 DEF table, R
<1>4. n \in Entries' /\ n \notin Entries /\ Entries' = Entries \cup {n} /\ \A i \in Entries : i < n /\ i \in Nat
  BY <1>1, <1>2 DEF Entries
<1>5. ASSUME NEW p PROVE EntryOf(p)' = IF EntryOf(p) = 0 /\ p = row.pid THEN n ELSE EntryOf(p)
  <2> DEFINE later == PCBTableArr'  e == EntryOf(p)  f == FirstIn(later, p)
  <2>1. EntryOf(p)' = f
    BY DEF EntryOf
  <2>2. later \in Seq(Rows) /\ 1 .. Len(later) = Entries \cup {n} /\ later[n] = row
        /\ \A i \in Entries : later[i] = PCBTableArr[i]
    BY <1>2, <1>3, <1>4 DEF Entries
  <2> HIDE DEF later, e, f
  <2>3. /\ e = 0 => \A j \in Entries : PCBTableArr[j].pid # p
        /\ e # 0 => /\ e \in Entries /\ PCBTableArr[e].pid = p
                    /\ \A j \in Entries : PCBTableArr[j].pid = p => e <= j
    BY EntryFacts DEF e
  <2>4. /\ f = 0 => \A j \in Entries \cup {n} : later[j].pid # p
        /\ f # 0 => /\ f \in Entries \cup {n} /\ later[f].pid = p
                    /\ \A j \in Entries \cup {n} : later[j].pid = p => f <= j
    BY <2>2, FirstFacts DEF f
  <2>5. CASE e # 0
    <3>1. later[e].pid = p /\ f # 0 /\ f <= e /\ f \in Entries
      BY <1>4, <2>2, <2>3, <2>4, <2>5
    <3>2. e <= f
      BY <2>2, <2>3, <2>4, <2>5, <3>1
    <3>3. e = f
      <4>1. e \in Nat /\ f \in Nat
        BY <1>4, <2>3, <2>5, <3>1
      <4> QED BY <3>1, <3>2, <4>1
    <3>4. EntryOf(p) # 0
      BY <2>5 DEF e
    <3>5. EntryOf(p)' = EntryOf(p)
      BY <2>1, <3>3 DEF e
    <3> QED BY <3>4, <3>5
  <2>6. CASE e = 0 /\ p = row.pid
    <3>1. f # 0 /\ f \notin Entries
      BY <2>2, <2>3, <2>4, <2>6
    <3> QED BY <2>1, <2>4, <2>6, <3>1 DEF e
  <2>7. CASE e = 0 /\ p # row.pid
    BY <2>1, <2>2, <2>3, <2>4, <2>7 DEF e
  <2> QED BY <2>5, <2>6, <2>7
<1>6. ASSUME NEW i \in Entries, IsLast(i)' PROVE IsLast(i) /\ PCBTableArr[i].pid # row.pid
  BY <1>3, <1>4, <1>6 DEF IsLast
<1> QED BY <1>2, <1>3, <1>4, <1>5, <1>6

(* A new child, or one whose id comes back. *)
LEMMA ExecStep ==
  ASSUME Inv, NEW c \in Pids, NEW inBackground \in BOOLEAN, Exec(c, inBackground)
  PROVE  Inv'
<1> USE DEF Inv
<1> DEFINE row == [pid |-> c, status |-> RUNNING, exitCode |-> -1]
           n == Len(PCBTableArr) + 1
<1>1. /\ Prompt /\ Fresh(c) /\ PCBTableArr' = Append(PCBTableArr, row)
      /\ proc' = [proc EXCEPT ![c] = "running"]
      /\ signalled' = signalled \ {c} /\ child' = c /\ pc' \in {"background", "foreground"}
      /\ polled' = polled /\ ending' = ending /\ stolen' = stolen
  BY DEF Exec, Registers
<1>2. row \in Rows /\ row.pid = c /\ row.status = RUNNING
  BY DEF Rows
<1> HIDE DEF row
<1>3. /\ PCBTableArr' \in Seq(Rows)
      /\ n \in Entries' /\ n \notin Entries /\ Entries' = Entries \cup {n}
      /\ PCBTableArr'[n] = row
      /\ \A i \in Entries : PCBTableArr'[i] = PCBTableArr[i]
      /\ \A p : EntryOf(p)' = IF EntryOf(p) = 0 /\ p = c THEN n ELSE EntryOf(p)
      /\ \A i \in Entries : IsLast(i)' => IsLast(i) /\ PCBTableArr[i].pid # c
  <2>1. PCBTableArr' = Append(PCBTableArr, row)
    BY <1>1
  <2>2. n = Len(PCBTableArr) + 1
    OBVIOUS
  <2> HIDE DEF n
  <2> QED BY <1>2, <2>1, <2>2, AppendFacts, ZenonT(60)
<1>4. 0 # n
  BY EntryFacts
<1> HIDE DEF n
<1>5. /\ proc' \in [Pids -> ProcStates]
      /\ \A p \in Pids : proc'[p] = IF p = c THEN "running" ELSE proc[p]
  BY <1>1 DEF TypeInv, ProcStates
<1>6. TypeInv'
  BY <1>1, <1>3, <1>5 DEF TypeInv, PcLabels
<1>7. \A i \in Entries : PCBTableArr[i].pid \in Pids \cup {NoPid}
  BY RowFacts
<1>8. \A i \in Entries : EntryOf(PCBTableArr[i].pid) # 0
  BY EntryFacts
<1>9. TableInv'
  <2>1. \A p \in Pids : proc'[p] = "new" <=> EntryOf(p)' = 0
    BY <1>3, <1>4, <1>5 DEF TableInv
  <2>2. ASSUME NEW p \in Pids, NEW i \in Entries', PCBTableArr'[i].pid = p, i # EntryOf(p)'
        PROVE  PCBTableArr'[i].status = RUNNING
    <3>1. CASE i = n
      BY <1>2, <1>3, <3>1
    <3>2. CASE i \in Entries
      <4>1. EntryOf(p) # 0 /\ PCBTableArr'[i] = PCBTableArr[i]
        BY <1>3, <1>8, <2>2, <3>2
      <4> QED BY <1>3, <2>2, <3>2, <4>1 DEF TableInv
    <3> QED BY <1>3, <3>1, <3>2
  <2>3. c \in MayComeBack \/ \A i \in Entries : PCBTableArr[i].pid # c
    BY <1>1, EntryFacts DEF Fresh, TableInv
  <2>4. ASSUME NEW i \in Entries', NEW j \in Entries',
               PCBTableArr'[i].pid = PCBTableArr'[j].pid, PCBTableArr'[i].pid \in Pids \ MayComeBack
        PROVE  i = j
    BY <1>2, <1>3, <2>3, <2>4 DEF TableInv
  <2> QED BY <2>1, <2>2, <2>4 DEF TableInv
<1>10. KernelInv'
  BY <1>1, <1>5 DEF KernelInv
<1>11. WaitInv'
  BY <1>1, <1>5 DEF WaitInv
<1>12. NoPid \notin signalled' => NoPid \notin signalled
  BY <1>1, ShellAssumption
<1>13. SignalInv'
  <2>1. ASSUME NoPid \notin signalled', NEW p \in Pids, InTableRunning(p)' PROVE p \notin signalled'
    <3>1. CASE p = c
      BY <1>1, <3>1
    <3>2. CASE p # c
      <4>1. EntryOf(p)' = EntryOf(p) /\ EntryOf(p) # 0
        BY <1>3, <2>1, <3>2 DEF InTableRunning
      <4>2. EntryOf(p) \in Entries
        BY <4>1, EntryFacts
      <4>3. InTableRunning(p)
        BY <1>3, <2>1, <4>1, <4>2 DEF InTableRunning
      <4> QED BY <1>1, <1>12, <2>1, <4>3 DEF SignalInv, Prompt
    <3> QED BY <3>1, <3>2
  <2>2. ASSUME NEW i \in Entries', IsLast(i)', PCBTableArr'[i].pid \in Pids, PCBTableArr'[i].status = TERMINATING
        PROVE  PCBTableArr'[i].pid \in signalled' \/ proc'[PCBTableArr'[i].pid] = "reaped"
    <3>1. i \in Entries
      BY <1>2, <1>3, <2>2 DEF RUNNING, TERMINATING
    <3>2. PCBTableArr'[i] = PCBTableArr[i] /\ IsLast(i) /\ PCBTableArr[i].pid # c
      BY <1>3, <2>2, <3>1
    <3>3. PCBTableArr[i].pid \in signalled \/ proc[PCBTableArr[i].pid] = "reaped"
      BY <2>2, <3>1, <3>2 DEF SignalInv, EntriesOf
    <3>4. signalled \ {c} \subseteq signalled'
      BY <1>1
    <3>5. PCBTableArr[i].pid \in Pids /\ proc'[PCBTableArr[i].pid] = proc[PCBTableArr[i].pid]
      BY <1>5, <2>2, <3>2
    <3> QED BY <3>2, <3>3, <3>4, <3>5
  <2> QED BY <2>1, <2>2 DEF SignalInv, EntriesOf
<1>14. OverInv'
  <2> SUFFICES ASSUME NEW i \in Entries', PCBTableArr'[i].pid \in Pids \ MayStop, IsLast(i)', PCBTableArr'[i].status = EXITED
               PROVE  /\ proc'[PCBTableArr'[i].pid] = "reaped"
                      /\ NoPid \notin signalled' /\ PCBTableArr'[i].pid \notin MayBeKilled =>
                           PCBTableArr'[i].exitCode = ending'[PCBTableArr'[i].pid].n
    BY DEF OverInv, EntriesOf
  <2>1. /\ i \in Entries /\ IsLast(i) /\ PCBTableArr'[i] = PCBTableArr[i]
        /\ proc'[PCBTableArr[i].pid] = proc[PCBTableArr[i].pid]
    BY <1>2, <1>3, <1>5 DEF RUNNING, EXITED
  <2>2. i \in EntriesOf(Pids \ MayStop)
    BY <2>1 DEF EntriesOf
  <2> QED BY <1>1, <1>12, <2>1, <2>2 DEF OverInv
<1>15. NoEndIsLost'
  <2>1. \A i \in Entries' : PCBTableArr'[i].pid \in Pids => proc'[PCBTableArr'[i].pid] = "running" \/
          (i \in Entries /\ PCBTableArr'[i] = PCBTableArr[i] /\ proc'[PCBTableArr[i].pid] = proc[PCBTableArr[i].pid])
    BY <1>2, <1>3, <1>5
  <2> QED BY <1>1, <2>1 DEF NoEndIsLost, EntriesOf
<1>16. QuitReachesAll'
  BY <1>1 DEF QuitReachesAll
<1> QED BY <1>6, <1>9, <1>10, <1>11, <1>13, <1>14, <1>15, <1>16

(* A fork that fails adds an entry that is of no child. *)
LEMMA ForkStep ==
  ASSUME Inv, NEW inBackground \in BOOLEAN, ForkFails(inBackground)
  PROVE  Inv'
<1> USE DEF Inv
<1> DEFINE row == [pid |-> NoPid, status |-> RUNNING, exitCode |-> -1]
           n == Len(PCBTableArr) + 1
<1>1. /\ Prompt /\ PCBTableArr' = Append(PCBTableArr, row)
      /\ child' = NoPid /\ pc' \in {"background", "foreground"}
      /\ polled' = polled /\ proc' = proc /\ ending' = ending /\ signalled' = signalled /\ stolen' = stolen
  BY DEF ForkFails, Registers, kernelVars
<1>2. row \in Rows /\ row.pid = NoPid /\ NoPid \notin Pids
  BY ShellAssumption DEF Rows
<1> HIDE DEF row
<1>3. /\ PCBTableArr' \in Seq(Rows)
      /\ n \in Entries' /\ n \notin Entries /\ Entries' = Entries \cup {n}
      /\ PCBTableArr'[n] = row
      /\ \A i \in Entries : PCBTableArr'[i] = PCBTableArr[i]
      /\ \A p : EntryOf(p)' = IF EntryOf(p) = 0 /\ p = NoPid THEN n ELSE EntryOf(p)
      /\ \A i \in Entries : IsLast(i)' => IsLast(i)
  <2>1. PCBTableArr' = Append(PCBTableArr, row)
    BY <1>1
  <2>2. n = Len(PCBTableArr) + 1
    OBVIOUS
  <2> HIDE DEF n
  <2> QED BY <1>2, <2>1, <2>2, AppendFacts, ZenonT(60)
<1> HIDE DEF n
<1>4. \A i \in Entries' : PCBTableArr'[i].pid \in Pids => i \in Entries /\ PCBTableArr'[i] = PCBTableArr[i]
  BY <1>2, <1>3
<1>5. \A p \in Pids : EntryOf(p) # 0 => EntryOf(p) \in Entries
  BY EntryFacts
<1>6. TypeInv' /\ WaitInv' /\ QuitReachesAll' /\ KernelInv'
  BY <1>1, <1>2, <1>3 DEF TypeInv, PcLabels, WaitInv, QuitReachesAll, KernelInv
<1>7. TableInv'
  <2>1. \A p \in Pids : EntryOf(p)' = EntryOf(p) /\ proc'[p] = proc[p]
    BY <1>1, <1>2, <1>3
  <2>2. ASSUME NEW p \in Pids, NEW i \in Entries', PCBTableArr'[i].pid = p, i # EntryOf(p)'
        PROVE  PCBTableArr'[i].status = RUNNING
    BY <1>4, <2>1, <2>2 DEF TableInv
  <2>3. ASSUME NEW i \in Entries', NEW j \in Entries',
               PCBTableArr'[i].pid = PCBTableArr'[j].pid, PCBTableArr'[i].pid \in Pids \ MayComeBack
        PROVE  i = j
    BY <1>4, <2>3 DEF TableInv
  <2> QED BY <2>1, <2>2, <2>3 DEF TableInv
<1>8. SignalInv'
  <2>1. ASSUME NEW p \in Pids, InTableRunning(p)' PROVE InTableRunning(p)
    <3>1. EntryOf(p)' = EntryOf(p)
      BY <1>2, <1>3
    <3> QED BY <1>3, <1>5, <2>1, <3>1 DEF InTableRunning
  <2>2. ASSUME NEW i \in EntriesOf(Pids)', IsLast(i)', PCBTableArr'[i].status = TERMINATING
        PROVE  PCBTableArr'[i].pid \in signalled' \/ proc'[PCBTableArr'[i].pid] = "reaped"
    <3>1. i \in EntriesOf(Pids) /\ PCBTableArr'[i] = PCBTableArr[i] /\ IsLast(i)
      BY <1>3, <1>4, <2>2 DEF EntriesOf
    <3> QED BY <1>1, <2>2, <3>1 DEF SignalInv
  <2> QED BY <1>1, <2>1, <2>2 DEF SignalInv, Prompt
<1>9. OverInv'
  <2> SUFFICES ASSUME NEW i \in Entries', PCBTableArr'[i].pid \in Pids \ MayStop, IsLast(i)', PCBTableArr'[i].status = EXITED
               PROVE  /\ proc'[PCBTableArr'[i].pid] = "reaped"
                      /\ NoPid \notin signalled' /\ PCBTableArr'[i].pid \notin MayBeKilled =>
                           PCBTableArr'[i].exitCode = ending'[PCBTableArr'[i].pid].n
    BY DEF OverInv, EntriesOf
  <2>1. i \in EntriesOf(Pids \ MayStop) /\ PCBTableArr'[i] = PCBTableArr[i] /\ IsLast(i)
    BY <1>3, <1>4 DEF EntriesOf
  <2> QED BY <1>1, <2>1 DEF OverInv
<1>10. NoEndIsLost'
  <2> DEFINE pids == Pids \ (MayExitAtOnce \cup MayComeBack \cup stolen)
  <2>1. ASSUME NEW i \in EntriesOf(pids)'
        PROVE  i \in EntriesOf(pids) /\ PCBTableArr'[i] = PCBTableArr[i]
    BY <1>1, <1>4, <2>1 DEF EntriesOf
  <2> QED BY <1>1, <2>1 DEF NoEndIsLost
<1> QED BY <1>6, <1>7, <1>8, <1>9, <1>10

(* quit tells what it still shows as running; what is terminating has been told. *)
LEMMA QuitStep ==
  ASSUME Inv, QuitKills
  PROVE  Inv'
<1> USE DEF Inv
<1> DEFINE told == {PCBTableArr[i].pid : i \in {i \in Entries : PCBTableArr[i].status = RUNNING}}
<1>1. /\ pc = "quitting" /\ pc' = "quit" /\ signalled' = Signalled(told)
      /\ UNCHANGED <<PCBTableArr, child, polled, proc, ending, stolen>>
  BY DEF QuitKills
<1>2. told \subseteq Pids \cup {NoPid}
  BY RowFacts
<1>3. \A i \in Entries : PCBTableArr[i].status = RUNNING => PCBTableArr[i].pid \in told
  OBVIOUS
<1> HIDE DEF told
<1>4. /\ signalled \subseteq signalled' /\ signalled' \subseteq Pids \cup {NoPid}
      /\ \A p \in told \cap Pids : proc[p] \in {"new", "reaped"} \/ p \in signalled'
  BY <1>1, <1>2, SignalFacts
<1>5. Entries' = Entries /\ (\A p : EntryOf(p)' = EntryOf(p)) /\ (\A i : IsLast(i)' = IsLast(i))
      /\ (\A pids : EntriesOf(pids)' = EntriesOf(pids))
  BY <1>1 DEF Entries, EntryOf, IsLast, EntriesOf
<1>6. TypeInv' /\ WaitInv' /\ KernelInv'
  BY <1>1, <1>4 DEF TypeInv, PcLabels, WaitInv, KernelInv
<1>7. TableInv' /\ NoEndIsLost'
  BY <1>1, <1>5 DEF TableInv, NoEndIsLost
<1>8. SignalInv' /\ OverInv'
  BY <1>1, <1>4, <1>5 DEF SignalInv, OverInv
<1>9. QuitReachesAll'
  <2> SUFFICES ASSUME NEW p \in Pids, Live(p), p \notin signalled'
               PROVE  p \in MayStop /\ PCBTableArr[EntryOf(p)].status = EXITED
    BY <1>1, <1>5 DEF QuitReachesAll, Live
  <2> DEFINE e == EntryOf(p)
  <2>1. proc[p] # "new" /\ proc[p] # "reaped"
    BY DEF Live
  <2>2. e # 0 /\ e \in Entries /\ PCBTableArr[e].pid = p
    BY <2>1, EntryFacts DEF TableInv
  <2>3. \A i \in Entries : PCBTableArr[i].pid = p => PCBTableArr[i].status # RUNNING
    BY <1>3, <1>4, <2>1
  <2>4. \A i \in Entries : PCBTableArr[i].pid = p => i = e
    BY <2>3 DEF TableInv
  <2> HIDE DEF e
  <2>5. IsLast(e)
    <3>1. \A j \in Entries : j > e => j # e
      BY <2>2 DEF Entries
    <3> QED BY <2>2, <2>4, <3>1 DEF IsLast
  <2>6. PCBTableArr[e].status # TERMINATING
    BY <1>4, <2>1, <2>2, <2>5 DEF SignalInv, EntriesOf
  <2>7. PCBTableArr[e].status = EXITED
    BY <2>2, <2>3, <2>6, RowFacts
  <2>8. p \in MayStop
    BY <2>1, <2>2, <2>5, <2>7 DEF OverInv, EntriesOf
  <2> QED BY <2>7, <2>8 DEF e
<1> QED BY <1>6, <1>7, <1>8, <1>9

-----------------------------------------------------------------------------
(* The theorems *)

LEMMA Invariance == Spec => []Inv
<1>1. Inv /\ [Next]_vars => Inv'
  <2> SUFFICES ASSUME Inv, [Next]_vars PROVE Inv'
    OBVIOUS
  <2>1. CASE \E p \in Pids : ChildEnds(p) \/ ChildStops(p) \/ ChildContinues(p)
    BY <2>1, KernelStep
  <2>2. CASE \E p \in Pids : \E inBackground \in BOOLEAN : Exec(p, inBackground)
    BY <2>2, ExecStep
  <2>3. CASE \E inBackground \in BOOLEAN : ForkFails(inBackground)
    BY <2>3, ForkStep
  <2>4. CASE \/ WaitFails \/ Overruns \/ Info \/ InfoEnds \/ PollPasses \/ Quit
             \/ \E pid \in Pids \cup {NoPid} : Wait(pid)
    BY <2>4, QuietStep
  <2>5. CASE BackgroundWaits
    BY <2>5, BackgroundStep
  <2>6. CASE \E pid \in Pids \cup {NoPid} : Terminate(pid)
    BY <2>6, TerminateStep
  <2>7. CASE ForegroundEnds \/ WaitEnds
    BY <2>7, EndStep
  <2>8. CASE PollFinds
    BY <2>8, PollStep
  <2>9. CASE ForegroundStops \/ ForegroundFails
    BY <2>9, StopStep
  <2>10. CASE QuitKills
    BY <2>10, QuitStep
  <2>11. CASE UNCHANGED vars
    <3>1. UNCHANGED <<PCBTableArr, pc, child, polled, proc, ending, signalled, stolen>>
      BY <2>11 DEF vars, shellVars, kernelVars
    <3>2. Entries' = Entries /\ (\A p : EntryOf(p)' = EntryOf(p)) /\ (\A i : IsLast(i)' = IsLast(i))
          /\ (\A pids : EntriesOf(pids)' = EntriesOf(pids))
      BY <3>1 DEF Entries, EntryOf, IsLast, EntriesOf
    <3>3. (TypeInv /\ KernelInv /\ WaitInv)'
      BY <3>1 DEF Inv, TypeInv, KernelInv, WaitInv
    <3>4. (TableInv /\ SignalInv)'
      BY <3>1, <3>2 DEF Inv, TableInv, SignalInv, InTableRunning
    <3>5. (OverInv /\ NoEndIsLost /\ QuitReachesAll)'
      BY <3>1, <3>2 DEF Inv, OverInv, NoEndIsLost, QuitReachesAll, Live
    <3> QED BY <3>3, <3>4, <3>5 DEF Inv
  <2> QED BY <2>1, <2>2, <2>3, <2>4, <2>5, <2>6, <2>7, <2>8, <2>9, <2>10, <2>11 DEF Next
<1> QED BY <1>1, InitInv, PTL DEF Spec

(***************************************************************************)
(* NoEndIsLost, for every table and every set of children, whichever forks *)
(* fail.                                                                   *)
(***************************************************************************)
THEOREM EndsAreKept == Spec => []NoEndIsLost
<1>1. Inv => NoEndIsLost
  BY DEF Inv
<1> QED BY <1>1, Invariance, PTL

(***************************************************************************)
(* QuitReachesAll: what quit does not tell to terminate, it has taken for  *)
(* exited when it stopped.                                                 *)
(***************************************************************************)
THEOREM QuitIsHeard == Spec => []QuitReachesAll
<1>1. Inv => QuitReachesAll
  BY DEF Inv
<1> QED BY <1>1, Invariance, PTL

(***************************************************************************)
(* ExitedIsOver: a process is shown as exited only once it is reaped, and  *)
(* an id that comes back has a later entry.                                *)
(***************************************************************************)
THEOREM ExitedAreOver == Spec => []ExitedIsOver
<1>1. ASSUME Inv PROVE ExitedIsOver
  BY <1>1 DEF Inv, OverInv, ExitedIsOver, LastEntriesOf, EntriesOf, IsLast, Live
<1> QED BY <1>1, Invariance, PTL

(***************************************************************************)
(* CodeIsReal: no kill of the shell's own reaches a child it waits for, so *)
(* the code that it takes from a wait is an exit code - unless it told all *)
(* processes to terminate.                                                 *)
(***************************************************************************)
THEOREM CodesAreReal == Spec => []CodeIsReal
<1>1. ASSUME Inv PROVE CodeIsReal
  BY <1>1 DEF Inv, OverInv, CodeIsReal, LastEntriesOf, EntriesOf, IsLast
<1> QED BY <1>1, Invariance, PTL

(***************************************************************************)
(* StatusGoesForward: the command decides by the first entry, which is the *)
(* one it writes, and polls only what has not been seen to end.            *)
(***************************************************************************)
THEOREM StatusAdvances == Spec => StatusGoesForward
<1> DEFINE Forward(i) ==
      LET old == PCBTableArr[i].status
          new == PCBTableArr'[i].status
      IN new # old => \/ old = RUNNING /\ new = TERMINATING
                      \/ new = EXITED /\ proc'[PCBTableArr[i].pid] = "reaped"
<1>1. Inv /\ [Next]_vars => [\A i \in EntriesOf(Pids \ MayStop) : Forward(i)]_vars
  <2> SUFFICES ASSUME Inv, Next, NEW i \in EntriesOf(Pids \ MayStop)
               PROVE  Forward(i)
    OBVIOUS
  <2>1. i \in Entries /\ PCBTableArr[i].pid \in Pids \ MayStop /\ TypeInv /\ TableInv
    BY DEF EntriesOf, Inv
  <2>2. CASE \/ \E p \in Pids : \E inBackground \in BOOLEAN : Exec(p, inBackground)
             \/ \E inBackground \in BOOLEAN : ForkFails(inBackground)
    <3>1. PICK p \in Pids \cup {NoPid} :
            PCBTableArr' = Append(PCBTableArr, [pid |-> p, status |-> RUNNING, exitCode |-> -1])
      BY <2>2 DEF Exec, ForkFails, Registers
    <3>2. [pid |-> p, status |-> RUNNING, exitCode |-> -1] \in Rows
      BY DEF Rows
    <3>3. PCBTableArr'[i] = PCBTableArr[i]
      BY <2>1, <3>1, <3>2, AppendFacts
    <3> QED BY <3>3
  <2>3. ASSUME NEW c \in Pids \cup {NoPid}, NEW r \in Children(c), Reap(c, r), NEW code \in Int,
               PCBTableArr' = proc_update_status(PCBTableArr, c, EXITED, code)
        PROVE  Forward(i)
    <3>1. r \in Pids /\ (c \in Pids => r = c) /\ proc[r] = "zombie" /\ proc' = [proc EXCEPT ![r] = "reaped"]
      BY <2>3, ShellAssumption DEF Children, Reap
    <3>2. proc'[r] = "reaped" /\ \A q \in Pids : (proc'[q] = "new" <=> proc[q] = "new")
      BY <2>1, <3>1 DEF TypeInv
    <3>3. /\ i = EntryOf(c) => PCBTableArr[i].pid = c /\ PCBTableArr'[i].status = EXITED
          /\ i # EntryOf(c) => PCBTableArr'[i] = PCBTableArr[i]
      BY <2>1, <2>3, <3>2, UpdateKeeps
    <3> QED BY <2>1, <3>1, <3>2, <3>3, ShellAssumption
  <2>4. CASE ForegroundEnds \/ WaitEnds
    <3>1. PICK r \in Children(child) :
            /\ Reap(child, r)
            /\ PCBTableArr' = proc_update_status(PCBTableArr, child, EXITED, WEXITSTATUS(ending[r]))
      BY <2>4 DEF ForegroundEnds, WaitEnds
    <3>2. child \in Pids \cup {NoPid} /\ r \in Pids /\ ending[r] \in Endings \cup {Exit(0)}
      BY <2>1 DEF TypeInv, Children
    <3>3. WEXITSTATUS(ending[r]) \in Int
      BY <3>2, CodeFacts
    <3> QED BY <2>3, <3>1, <3>2, <3>3
  <2>5. CASE PollFinds
    <3>1. PICK r \in Children(Polled.pid) :
            /\ Reap(Polled.pid, r)
            /\ PCBTableArr' = proc_update_status(PCBTableArr, Polled.pid, EXITED, PolledCode(ending[r]))
      BY <2>5 DEF PollFinds
    <3>2. Polled.pid \in Pids \cup {NoPid}
      <4>1. polled \in Nat /\ Len(PCBTableArr) \in Nat /\ polled < Len(PCBTableArr)
        BY <2>1, <2>5, EntryFacts DEF TypeInv, PollFinds, Polls
      <4>2. polled + 1 \in Entries
        BY <4>1 DEF Entries
      <4> QED BY <2>1, <4>2, RowFacts DEF Polled
    <3>3. r \in Pids /\ ending[r] \in Endings \cup {Exit(0)}
      BY <2>1, <3>2 DEF TypeInv, Children
    <3>4. PolledCode(ending[r]) \in Int
      BY <3>3, CodeFacts
    <3> QED BY <2>3, <3>1, <3>2, <3>4
  <2>6. CASE ForegroundStops \/ ForegroundFails
    <3>1. /\ UNCHANGED kernelVars
          /\ \E code \in Int : PCBTableArr' = proc_update_status(PCBTableArr, child, EXITED, code)
      BY <2>6, ShellAssumption DEF ForegroundStops, ForegroundFails, SIGSTOP
    <3>2. child \in MayStop \cup {NoPid}
      BY <2>1, <2>6 DEF ForegroundStops, ForegroundFails, ReturnsStopped, Unreaped, Children, TypeInv,
                        Inv, KernelInv, WaitInv
    <3>3. /\ i = EntryOf(child) => PCBTableArr[i].pid = child
          /\ i # EntryOf(child) => PCBTableArr'[i] = PCBTableArr[i]
      BY <2>1, <3>1, UpdateKeeps DEF kernelVars
    <3> QED BY <2>1, <3>2, <3>3, ShellAssumption
  <2>7. CASE \E pid \in Pids \cup {NoPid} : Terminate(pid)
    <3>1. PICK c \in Pids \cup {NoPid} : Terminate(c)
      BY <2>7
    <3> DEFINE code == KillResult(c)
    <3>2. /\ InTableRunning(c) /\ proc' = proc
          /\ PCBTableArr' = proc_update_status(PCBTableArr, c, TERMINATING, code)
      BY <3>1 DEF Terminate
    <3>3. code \in Int
      BY DEF KillResult
    <3> HIDE DEF code
    <3>4. /\ i = EntryOf(c) => PCBTableArr'[i].status = TERMINATING
          /\ i # EntryOf(c) => PCBTableArr'[i] = PCBTableArr[i]
      BY <2>1, <3>2, <3>3, UpdateKeeps
    <3> QED BY <3>2, <3>4 DEF InTableRunning
  <2>8. CASE UNCHANGED PCBTableArr
    BY <2>8
  <2>9. \/ UNCHANGED PCBTableArr
        \/ \E p \in Pids : \E inBackground \in BOOLEAN : Exec(p, inBackground)
        \/ \E inBackground \in BOOLEAN : ForkFails(inBackground)
        \/ ForegroundEnds \/ WaitEnds \/ PollFinds \/ ForegroundStops \/ ForegroundFails
        \/ \E pid \in Pids \cup {NoPid} : Terminate(pid)
    BY DEF Next, ChildEnds, ChildStops, ChildContinues, Wait, BackgroundWaits, WaitFails, Overruns, Info, InfoEnds,
           PollPasses, Quit, QuitKills, StartPoll, shellVars
  <2> QED BY <2>2, <2>4, <2>5, <2>6, <2>7, <2>8, <2>9
<1> QED BY <1>1, Invariance, PTL DEF Spec, StatusGoesForward

-----------------------------------------------------------------------------
(***************************************************************************)
(* The line.  parse_command and parse_redirection are folds: FoldExists    *)
(* says that the recursion which defines a fold has a solution, ParseLoop  *)
(* and StoreLoop that it is the state of the loop after n tokens.          *)
(***************************************************************************)

(* The first and the last element of an interval. *)
LEMMA IntervalEnds ==
  ASSUME NEW a \in Int, NEW b \in Int, a <= b
  PROVE  Min(a .. b) = a /\ Max(a .. b) = b
<1>1. a \in a .. b /\ b \in a .. b
  OBVIOUS
<1>2. \A x \in a .. b : (\A y \in a .. b : x =< y) => x = a
  BY <1>1
<1>3. \A x \in a .. b : (\A y \in a .. b : x >= y) => x = b
  BY <1>1
<1>4. Min(a .. b) = a
  BY <1>1, <1>2 DEF Min
<1>5. Max(a .. b) = b
  BY <1>1, <1>3 DEF Max
<1> QED BY <1>4, <1>5

(* The largest element of a set of numbers. *)
LEMMA MaxIs ==
  ASSUME NEW S, S \subseteq Int, NEW m \in S, \A x \in S : x <= m
  PROVE  Max(S) = m
<1>1. \A x \in S : (\A y \in S : x >= y) => x = m
  OBVIOUS
<1>2. \A y \in S : m >= y
  OBVIOUS
<1> QED BY <1>1, <1>2 DEF Max

LEMMA LargestIn ==
  ASSUME NEW n \in Nat, NEW S \in SUBSET (1 .. n), S # {}
  PROVE  Max(S) \in S /\ \A x \in S : x <= Max(S)
<1> DEFINE T == {n - x : x \in S}
<1>0. T # {}
  OBVIOUS
<1>1. T \subseteq Nat
  OBVIOUS
<1>2. PICK t \in T : \A u \in T : t <= u
  BY <1>0, <1>1, LeastNat
<1>3. PICK m \in S : t = n - m
  OBVIOUS
<1>4. \A x \in S : x <= m
  <2>1. ASSUME NEW x \in S PROVE x <= m
    <3>1. n - x \in T
      OBVIOUS
    <3>2. n - m <= n - x
      BY <1>2, <1>3, <3>1
    <3> QED BY <3>2
  <2> QED BY <2>1
<1>5. S \subseteq Int
  OBVIOUS
<1>6. Max(S) = m
  BY <1>4, <1>5, MaxIs
<1> QED BY <1>4, <1>6

-----------------------------------------------------------------------------
(* The ";" of a line *)

(* How many there are before each place. *)
LEMMA BeforeFacts ==
  ASSUME NEW s, NEW i \in Nat
  PROVE  /\ Before(s, i) \in Nat
         /\ Before(s, 1) = 0
         /\ i > 0 /\ s[i] = Separator => Before(s, i + 1) = Before(s, i) + 1
         /\ i > 0 /\ s[i] # Separator => Before(s, i + 1) = Before(s, i)
<1> DEFINE At(n) == {j \in 1 .. n - 1 : s[j] = Separator}
<1>1. ASSUME NEW n \in Nat PROVE IsFiniteSet(At(n)) /\ Cardinality(At(n)) \in Nat
  <2>1. IsFiniteSet(1 .. n - 1)
    BY FS_Interval
  <2>2. IsFiniteSet(At(n))
    BY <2>1, FS_Subset
  <2> QED BY <2>2, FS_CardinalityType
<1>2. At(1) = {}
  OBVIOUS
<1>3. ASSUME i > 0, s[i] = Separator PROVE Cardinality(At(i + 1)) = Cardinality(At(i)) + 1
  <2>1. At(i + 1) = At(i) \cup {i} /\ i \notin At(i)
    BY <1>3
  <2> HIDE DEF At
  <2> QED BY <1>1, <2>1, FS_AddElement
<1>4. ASSUME i > 0, s[i] # Separator PROVE At(i + 1) = At(i)
  BY <1>4
<1>5. \A n : Before(s, n) = Cardinality(At(n))
  BY DEF Before
<1>6. Before(s, 1) = 0
  BY <1>2, <1>5, FS_EmptySet
<1> HIDE DEF At
<1> QED BY <1>1, <1>3, <1>4, <1>5, <1>6

LEMMA BeforeGrows ==
  ASSUME NEW s, NEW i \in Nat, NEW j \in Nat, i <= j
  PROVE  Before(s, i) <= Before(s, j)
<1> DEFINE At(n) == {x \in 1 .. n - 1 : s[x] = Separator}
<1>1. IsFiniteSet(1 .. j - 1)
  BY FS_Interval
<1>2. IsFiniteSet(At(j))
  BY <1>1, FS_Subset
<1>3. At(i) \subseteq At(j)
  OBVIOUS
<1>4. Cardinality(At(i)) <= Cardinality(At(j))
  BY <1>2, <1>3, FS_Subset
<1> QED BY <1>4 DEF Before

(* None between two places that have as many before them. *)
LEMMA BeforeSame ==
  ASSUME NEW s, NEW a \in Nat, NEW i \in Nat, a <= i, \A j \in a .. i - 1 : s[j] # Separator
  PROVE  Before(s, i) = Before(s, a)
<1>1. {x \in 1 .. i - 1 : s[x] = Separator} = {x \in 1 .. a - 1 : s[x] = Separator}
  OBVIOUS
<1> QED BY <1>1 DEF Before

(* A stretch without ";" between two ";", or between one and an end, is the
   part that its number says. *)
LEMMA PlacesAre ==
  ASSUME NEW s, NEW n \in Nat, Len(s) = n, NEW a \in 1 .. n + 1, NEW b \in a .. n + 1,
         a = 1 \/ s[a - 1] = Separator, b = n + 1 \/ s[b] = Separator,
         \A i \in a .. b - 1 : s[i] # Separator
  PROVE  Places(s, Before(s, a) + 1) = a .. b
<1>0. Before(s, a) \in Nat
  BY BeforeFacts
<1>1. ASSUME NEW i \in a .. b PROVE Before(s, i) = Before(s, a)
  BY BeforeSame
<1>2. ASSUME NEW i \in 1 .. n + 1, i < a PROVE Before(s, i) < Before(s, a)
  <2>1. a - 1 \in Nat /\ a - 1 > 0 /\ s[a - 1] = Separator /\ i <= a - 1 /\ (a - 1) + 1 = a
    BY <1>2
  <2>2. PICK c \in Nat : c = a - 1
    BY <2>1
  <2>3. Before(s, c + 1) = Before(s, c) + 1
    BY <2>1, <2>2, BeforeFacts
  <2>4. Before(s, i) <= Before(s, c)
    BY <2>1, <2>2, BeforeGrows
  <2>5. Before(s, i) \in Nat /\ Before(s, c) \in Nat
    BY BeforeFacts
  <2> QED BY <2>1, <2>2, <2>3, <2>4, <2>5
<1>3. ASSUME NEW i \in 1 .. n + 1, i > b PROVE Before(s, i) > Before(s, a)
  <2>1. b \in Nat /\ b > 0 /\ b + 1 \in Nat /\ s[b] = Separator /\ b + 1 <= i
    BY <1>3
  <2>2. Before(s, b + 1) = Before(s, b) + 1
    BY <2>1, BeforeFacts
  <2>3. Before(s, b + 1) <= Before(s, i)
    BY <2>1, BeforeGrows
  <2>4. Before(s, b) = Before(s, a)
    BY <1>1
  <2>5. Before(s, i) \in Nat
    BY BeforeFacts
  <2> QED BY <1>0, <2>2, <2>3, <2>4, <2>5
<1>4. ASSUME NEW i \in 1 .. n + 1 PROVE Before(s, i) = Before(s, a) <=> i \in a .. b
  <2>1. Before(s, i) \in Nat
    BY BeforeFacts
  <2> QED BY <1>0, <1>1, <1>2, <1>3, <2>1
<1>5. a .. b \subseteq 1 .. n + 1
  OBVIOUS
<1>6. PICK k : k = Before(s, a) + 1
  OBVIOUS
<1>7. k - 1 = Before(s, a)
  BY <1>0, <1>6
<1>8. Places(s, k) = {i \in 1 .. Len(s) + 1 : Before(s, i) = k - 1}
  BY DEF Places
<1>9. \A x : x \in 1 .. Len(s) + 1 /\ Before(s, x) = k - 1 <=> x \in a .. b
  BY <1>4, <1>5, <1>7
<1> QED BY <1>6, <1>8, <1>9

-----------------------------------------------------------------------------
(* Folds *)

(* The recursion that defines a fold of f, with the values of f in D. *)
IsFold(g, f, base, s, n) ==
  g = [S \in SUBSET (1 .. n) |->
         IF S = {} THEN base ELSE f[<<g[S \ {Max(S)}], s[Max(S)]>>]]

LEMMA FoldExists ==
  ASSUME NEW D, NEW E, NEW f \in [D \X E -> D], NEW base \in D,
         NEW N \in Nat, NEW s, \A i \in 1 .. N : s[i] \in E
  PROVE  \E g \in [SUBSET (1 .. N) -> D] : IsFold(g, f, base, s, N)
<1> DEFINE Has(n) == \E g \in [SUBSET (1 .. n) -> D] : IsFold(g, f, base, s, n)
           Bad == {n \in 0 .. N : ~ Has(n)}
<1>1. Has(0)
  <2> DEFINE g == [S \in SUBSET (1 .. 0) |-> base]
  <2>1. SUBSET (1 .. 0) = {{}}
    OBVIOUS
  <2>2. g = [S \in SUBSET (1 .. 0) |->
               IF S = {} THEN base ELSE f[<<g[S \ {Max(S)}], s[Max(S)]>>]]
    BY <2>1
  <2>3. g \in [SUBSET (1 .. 0) -> D]
    OBVIOUS
  <2> QED BY <2>2, <2>3 DEF IsFold
<1>2. ASSUME NEW n \in Nat, n + 1 <= N, Has(n) PROVE Has(n + 1)
  <2>1. PICK g \in [SUBSET (1 .. n) -> D] : IsFold(g, f, base, s, n)
    BY <1>2
  <2> DEFINE h == [S \in SUBSET (1 .. n + 1) |->
                     IF n + 1 \in S THEN f[<<g[S \ {n + 1}], s[n + 1]>>] ELSE g[S]]
  <2>2. ASSUME NEW S \in SUBSET (1 .. n + 1)
        PROVE  /\ h[S] \in D
               /\ h[S] = IF S = {} THEN base ELSE f[<<h[S \ {Max(S)}], s[Max(S)]>>]
    <3>1. CASE n + 1 \in S
      <4>1. Max(S) = n + 1
        <5>1. S \subseteq Int /\ \A x \in S : x <= n + 1
          OBVIOUS
        <5> QED BY <3>1, <5>1, MaxIs
      <4>2. PICK R : R = S \ {n + 1}
        OBVIOUS
      <4>3. R \in SUBSET (1 .. n) /\ R \in SUBSET (1 .. n + 1) /\ n + 1 \notin R
        BY <4>2
      <4>4. h[R] = g[R] /\ g[R] \in D
        BY <4>3
      <4>5. h[S] = f[<<g[R], s[n + 1]>>]
        BY <3>1, <4>2
      <4>6. s[n + 1] \in E
        BY <1>2
      <4> QED BY <3>1, <4>1, <4>2, <4>4, <4>5, <4>6
    <3>2. CASE n + 1 \notin S
      <4>1. S \in SUBSET (1 .. n)
        BY <3>2
      <4>2. h[S] = g[S] /\ g[S] \in D
        BY <3>2, <4>1
      <4>3. g[S] = IF S = {} THEN base ELSE f[<<g[S \ {Max(S)}], s[Max(S)]>>]
        BY <2>1, <4>1 DEF IsFold
      <4>4. PICK R, x : R = S \ {x} /\ x = Max(S)
        OBVIOUS
      <4>5. R \subseteq S /\ 1 .. n \subseteq 1 .. n + 1 /\ n + 1 \notin 1 .. n
        BY <4>4
      <4>6. R \in SUBSET (1 .. n) /\ R \in SUBSET (1 .. n + 1) /\ n + 1 \notin R
        BY <4>1, <4>5, Zenon
      <4>7. h[R] = g[R]
        BY <4>6
      <4> QED BY <4>2, <4>3, <4>4, <4>7
    <3> QED BY <3>1, <3>2
  <2>3. h \in [SUBSET (1 .. n + 1) -> D]
    BY <2>2
  <2>4. h = [S \in SUBSET (1 .. n + 1) |->
               IF S = {} THEN base ELSE f[<<h[S \ {Max(S)}], s[Max(S)]>>]]
    BY <2>2
  <2> QED BY <2>3, <2>4 DEF IsFold
<1>3. ASSUME Bad # {} PROVE FALSE
  <2> HIDE DEF Has
  <2>1. Bad \subseteq Nat
    OBVIOUS
  <2>2. PICK n \in Bad : \A m \in Bad : n <= m
    BY <1>3, <2>1, LeastNat
  <2>3. n # 0
    BY <1>1
  <2>4. n - 1 \in 0 .. N /\ n - 1 \in Nat /\ (n - 1) + 1 <= N /\ (n - 1) + 1 = n /\ n - 1 \notin Bad
    BY <2>2, <2>3
  <2>5. Has(n - 1)
    BY <2>4
  <2>6. Has((n - 1) + 1)
    BY <1>2, <2>4, <2>5
  <2> QED BY <2>2, <2>4, <2>6
<1>4. N \in 0 .. N /\ N \notin Bad
  <2>1. N \in 0 .. N
    OBVIOUS
  <2> HIDE DEF Bad
  <2> QED BY <1>3, <2>1
<1>5. Has(N)
  <2> HIDE DEF Has
  <2> QED BY <1>4
<1> QED BY <1>5

(* One more token is one more step of the loop. *)
LEMMA PrefixOf ==
  ASSUME NEW n \in Nat, n > 0
  PROVE  /\ Max(1 .. n) = n /\ (1 .. n) \ {n} = 1 .. n - 1
         /\ 1 .. n # {} /\ 1 .. 0 = {}
<1>1. Max(1 .. n) = n
  BY IntervalEnds
<1>2. (1 .. n) \ {n} = 1 .. n - 1
  OBVIOUS
<1>3. 1 .. n # {} /\ 1 .. 0 = {}
  OBVIOUS
<1> QED BY <1>1, <1>2, <1>3

(***************************************************************************)
(* The loop of parse_command.                                              *)
(***************************************************************************)
Parsed(T) ==
  {p \in [commands : Seq(Seq(T)), open : BOOLEAN] : p.open => p.commands # <<>>}

Nothing == [commands |-> <<>>, open |-> FALSE]

(* What the loop does to the commands, place by place. *)
AddsToken(T, p, token, q) ==
  /\ q \in Parsed(T)
  /\ q.open <=> token # Separator
  /\ Len(p.commands) \in Nat
  /\ Len(q.commands) = Len(p.commands) + (IF p.open THEN 0 ELSE 1)
  /\ \A k \in 1 .. Len(p.commands) :
       q.commands[k] = IF p.open /\ k = Len(p.commands) /\ token # Separator
                       THEN Append(p.commands[k], token) ELSE p.commands[k]
  /\ ~ p.open => q.commands[Len(p.commands) + 1] = IF token = Separator THEN <<>> ELSE <<token>>

LEMMA AddTokenFacts ==
  ASSUME NEW T, NEW p \in Parsed(T), NEW token \in T
  PROVE  AddsToken(T, p, token, AddToken(p, token))
<1> DEFINE before == p.commands
           open == IF p.open THEN before ELSE Append(before, <<>>)
           m == Len(open)
           after == [open EXCEPT ![m] = Append(@, token)]
<1>1. before \in Seq(Seq(T)) /\ Len(before) \in Nat /\ p.open \in BOOLEAN /\ <<>> \in Seq(T)
      /\ (p.open => before # <<>>)
  BY DEF Parsed
<1>2. /\ open \in Seq(Seq(T)) /\ m = Len(before) + (IF p.open THEN 0 ELSE 1)
      /\ m \in 1 .. Len(open)
      /\ \A k \in 1 .. Len(before) : open[k] = before[k]
      /\ ~ p.open => open[Len(before) + 1] = <<>>
  <2>1. CASE p.open
    <3>1. before # <<>> /\ open = before
      BY <1>1, <2>1
    <3>2. Len(before) # 0
      BY <1>1, <3>1, EmptySeq
    <3> QED BY <1>1, <2>1, <3>1, <3>2
  <2>2. CASE ~ p.open
    <3>1. open = Append(before, <<>>)
      BY <2>2
    <3> HIDE DEF open, before
    <3>2. open \in Seq(Seq(T)) /\ Len(open) = Len(before) + 1
          /\ (\A k \in 1 .. Len(before) : open[k] = before[k])
          /\ open[Len(before) + 1] = <<>>
      BY <1>1, <3>1, AppendProperties
    <3> QED BY <1>1, <2>2, <3>2
  <2> QED BY <2>1, <2>2
<1>3. AddToken(p, token) = IF token = Separator THEN [commands |-> open, open |-> FALSE]
                           ELSE [commands |-> after, open |-> TRUE]
  BY DEF AddToken
<1> HIDE DEF open, before
<1>4. open[m] \in Seq(T)
  BY <1>2, ElementOfSeq
<1>5. Append(open[m], token) \in Seq(T)
  BY <1>4, AppendProperties
<1>6. after \in Seq(Seq(T)) /\ Len(after) = m
      /\ \A k \in 1 .. m : after[k] = IF k = m THEN Append(open[m], token) ELSE open[k]
  BY <1>2, <1>5, ExceptSeq
<1>7. Append(<<>>, token) = <<token>>
  OBVIOUS
<1>8. CASE token = Separator
  <2>1. AddToken(p, token) = [commands |-> open, open |-> FALSE]
    BY <1>3, <1>8
  <2>2. AddToken(p, token) \in Parsed(T)
    BY <1>2, <2>1 DEF Parsed
  <2>3. AddToken(p, token).commands = open /\ AddToken(p, token).open = FALSE
    BY <2>1
  <2>5. Len(open) = m
    OBVIOUS
  <2> HIDE DEF m
  <2> QED BY <1>1, <1>2, <1>8, <2>2, <2>3, <2>5 DEF AddsToken, before
<1>9. CASE token # Separator
  <2>1. AddToken(p, token) = [commands |-> after, open |-> TRUE]
    BY <1>3, <1>9
  <2>2. after # <<>>
    BY <1>2, <1>6, EmptySeq
  <2>3. AddToken(p, token) \in Parsed(T)
    BY <1>6, <2>1, <2>2 DEF Parsed
  <2> HIDE DEF after
  <2>4. /\ AddToken(p, token).commands = after /\ AddToken(p, token).open = TRUE
    BY <2>1
  <2>5. ASSUME NEW k \in 1 .. Len(before)
        PROVE  after[k] = IF p.open /\ k = Len(before) THEN Append(before[k], token) ELSE before[k]
    <3>1. k \in 1 .. m /\ open[k] = before[k]
      BY <1>1, <1>2
    <3>2. k = m <=> p.open /\ k = Len(before)
      BY <1>1, <1>2
    <3> HIDE DEF m, after
    <3>3. after[k] = IF k = m THEN Append(open[m], token) ELSE open[k]
      BY <1>6, <3>1
    <3> QED BY <3>1, <3>2, <3>3
  <2>6. ~ p.open => after[Len(before) + 1] = <<token>>
    BY <1>1, <1>2, <1>6, <1>7
  <2> QED BY <1>1, <1>2, <1>6, <1>9, <2>3, <2>4, <2>5, <2>6 DEF AddsToken, before
<1> QED BY <1>8, <1>9

(* The recursion of the loop over the subsets of the places of a line. *)
IsParse(g, tokens) ==
  g = [S \in SUBSET DOMAIN tokens |->
         IF S = {} THEN Nothing ELSE AddToken(g[S \ {Max(S)}], tokens[Max(S)])]

LEMMA ParseLoop ==
  ASSUME NEW T, NEW tokens \in Seq(T)
  PROVE  \E h : /\ h[0] = Nothing
                /\ \A n \in 1 .. Len(tokens) : h[n] = AddToken(h[n - 1], tokens[n])
                /\ FoldLeft(AddToken, Nothing, tokens) = h[Len(tokens)]
<1> DEFINE N == Len(tokens)
           f == [pt \in Parsed(T) \X T |-> AddToken(pt[1], pt[2])]
<1>1. N \in Nat /\ DOMAIN tokens = 1 .. N /\ \A i \in 1 .. N : tokens[i] \in T
  BY LenProperties, ElementOfSeq
<1>2. Nothing \in Parsed(T)
  BY EmptySeq DEF Nothing, Parsed
<1>3. f \in [Parsed(T) \X T -> Parsed(T)]
  BY AddTokenFacts DEF AddsToken
<1>4. PICK g \in [SUBSET (1 .. N) -> Parsed(T)] : IsFold(g, f, Nothing, tokens, N)
  <2>1. PICK D, F, base, n : D = Parsed(T) /\ F = f /\ base = Nothing /\ n = N
    OBVIOUS
  <2> HIDE DEF f, N
  <2>2. n \in Nat /\ \A i \in 1 .. n : tokens[i] \in T
    BY <1>1, <2>1
  <2>3. F \in [D \X T -> D] /\ base \in D
    BY <1>2, <1>3, <2>1
  <2>4. \E g \in [SUBSET (1 .. n) -> D] : IsFold(g, F, base, tokens, n)
    BY <2>2, <2>3, FoldExists, ZenonT(60)
  <2> QED BY <2>1, <2>4
<1>5. IsParse(g, tokens)
  <2>1. g = [S \in SUBSET (1 .. N) |->
               IF S = {} THEN Nothing ELSE f[<<g[S \ {Max(S)}], tokens[Max(S)]>>]]
    BY <1>4 DEF IsFold
  <2>2. ASSUME NEW S \in SUBSET (1 .. N), S # {}
        PROVE  f[<<g[S \ {Max(S)}], tokens[Max(S)]>>] = AddToken(g[S \ {Max(S)}], tokens[Max(S)])
    <3>1. PICK m : m = Max(S)
      OBVIOUS
    <3>2. m \in 1 .. N
      BY <1>1, <2>2, <3>1, LargestIn
    <3>3. tokens[m] \in T /\ g[S \ {m}] \in Parsed(T)
      BY <1>1, <1>4, <3>2
    <3> QED BY <3>1, <3>3
  <2> HIDE DEF f
  <2>3. g = [S \in SUBSET (1 .. N) |->
               IF S = {} THEN Nothing ELSE AddToken(g[S \ {Max(S)}], tokens[Max(S)])]
    BY <2>1, <2>2
  <2> QED BY <1>1, <2>3 DEF IsParse
<1>6. FoldLeft(AddToken, Nothing, tokens) = (CHOOSE iter : IsParse(iter, tokens))[DOMAIN tokens]
  BY DEF FoldLeft, MapThenFoldSet, IsParse
<1>7. PICK iter : iter = CHOOSE i : IsParse(i, tokens)
  OBVIOUS
<1>8. IsParse(iter, tokens)
  BY <1>5, <1>7
<1> DEFINE h == [n \in 0 .. N |-> iter[1 .. n]]
<1> HIDE DEF f
<1>9. h[0] = Nothing
  <2>1. 1 .. 0 = {} /\ {} \in SUBSET DOMAIN tokens
    OBVIOUS
  <2>2. iter[{}] = Nothing
    BY <1>8, <2>1 DEF IsParse
  <2>3. h[0] = iter[1 .. 0]
    BY <1>1
  <2> QED BY <2>1, <2>2, <2>3
<1>10. ASSUME NEW n \in 1 .. N PROVE h[n] = AddToken(h[n - 1], tokens[n])
  <2>1. PICK S : S = 1 .. n
    OBVIOUS
  <2>2. S \in SUBSET DOMAIN tokens
    BY <1>1, <2>1
  <2>3. S # {} /\ Max(S) = n /\ S \ {n} = 1 .. n - 1
    <3>1. n \in Nat /\ n > 0
      BY <1>1
    <3> QED BY <2>1, <3>1, PrefixOf
  <2>4. iter[S] = IF S = {} THEN Nothing ELSE AddToken(iter[S \ {Max(S)}], tokens[Max(S)])
    BY <1>8, <2>2 DEF IsParse
  <2>5. iter[S] = AddToken(iter[1 .. n - 1], tokens[n])
    BY <2>3, <2>4
  <2>6. h[n] = iter[1 .. n] /\ h[n - 1] = iter[1 .. n - 1]
    BY <1>1
  <2> QED BY <2>1, <2>5, <2>6
<1>11. FoldLeft(AddToken, Nothing, tokens) = h[N]
  <2>1. h[N] = iter[1 .. N]
    BY <1>1
  <2> QED BY <1>1, <1>6, <1>7, <2>1
<1> QED BY <1>9, <1>10, <1>11

(* What the commands are after n tokens: what is between two ";", or after the
   last one. *)
IsPart(tokens, n, p, k, a, b) ==
  /\ p.commands[k] = SubSeq(tokens, a, b - 1)
  /\ Before(tokens, a) = k - 1
  /\ a = 1 \/ tokens[a - 1] = Separator
  /\ \A i \in a .. b - 1 : tokens[i] # Separator
  /\ IF p.open /\ k = Len(p.commands) THEN b = n + 1 ELSE b <= n /\ tokens[b] = Separator

LoopInv(T, tokens, n, p) ==
  /\ p \in Parsed(T)
  /\ Len(p.commands) = Before(tokens, n + 1) + (IF p.open THEN 1 ELSE 0)
  /\ p.open <=> n > 0 /\ tokens[n] # Separator
  /\ \A k \in 1 .. Len(p.commands) :
       \E a \in 1 .. n + 1 : \E b \in a .. n + 1 : IsPart(tokens, n, p, k, a, b)

LEMMA LoopStart ==
  ASSUME NEW T, NEW tokens \in Seq(T)
  PROVE  LoopInv(T, tokens, 0, Nothing)
<1>1. Nothing \in Parsed(T) /\ Nothing.open = FALSE /\ Nothing.commands = <<>>
  BY EmptySeq DEF Nothing, Parsed
<1>2. Len(Nothing.commands) = 0
  BY <1>1, EmptySeq
<1>3. Before(tokens, 0 + 1) = 0
  BY BeforeFacts
<1> QED BY <1>1, <1>2, <1>3 DEF LoopInv

(* A stretch that grows by a token. *)
LEMMA LongerStretch ==
  ASSUME NEW T, NEW tokens \in Seq(T), NEW a \in Nat, NEW n \in Nat, 0 < a, a <= n + 1, n + 1 <= Len(tokens)
  PROVE  Append(SubSeq(tokens, a, n), tokens[n + 1]) = SubSeq(tokens, a, n + 1)
<1>0. Len(tokens) \in Nat /\ \A i \in 1 .. Len(tokens) : tokens[i] \in T
  BY LenProperties, ElementOfSeq
<1>1. PICK s, t, x : s = SubSeq(tokens, a, n) /\ t = SubSeq(tokens, a, n + 1) /\ x = tokens[n + 1]
  OBVIOUS
<1>2. s \in Seq(T) /\ Len(s) = n - a + 1 /\ \A i \in 1 .. n - a + 1 : s[i] = tokens[a + i - 1]
  <2>1. \A i \in a .. n : tokens[i] \in T
    BY <1>0
  <2> QED BY <1>1, <2>1, SubSeqProperties
<1>3. t \in Seq(T) /\ Len(t) = (n + 1) - a + 1 /\ \A i \in 1 .. (n + 1) - a + 1 : t[i] = tokens[a + i - 1]
  <2>1. \A i \in a .. n + 1 : tokens[i] \in T
    BY <1>0
  <2> QED BY <1>1, <2>1, SubSeqProperties, SMTT(60)
<1>4. x \in T
  BY <1>0, <1>1
<1>5. /\ Append(s, x) \in Seq(T) /\ Len(Append(s, x)) = Len(s) + 1
      /\ \A i \in 1 .. Len(s) : Append(s, x)[i] = s[i]
      /\ Append(s, x)[Len(s) + 1] = x
  BY <1>2, <1>4, AppendProperties
<1>6. ASSUME NEW i \in 1 .. Len(t) PROVE Append(s, x)[i] = t[i]
  <2>1. CASE i \in 1 .. Len(s)
    BY <1>2, <1>3, <1>5, <2>1
  <2>2. CASE i = Len(s) + 1
    <3>1. a + i - 1 = n + 1
      BY <1>2, <2>2
    <3> QED BY <1>1, <1>3, <1>5, <2>2, <3>1
  <2> QED BY <1>2, <1>3, <2>1, <2>2
<1>7. Append(s, x) = t
  <2> DEFINE u == Append(s, x)
  <2>1. u \in Seq(T) /\ Len(u) = Len(t) /\ \A i \in 1 .. Len(u) : u[i] = t[i]
    BY <1>2, <1>3, <1>5, <1>6
  <2> HIDE DEF u
  <2>2. u = t
    BY <1>3, <2>1, SeqEqual
  <2> QED BY <2>2 DEF u
<1> QED BY <1>1, <1>7

LEMMA LoopStep ==
  ASSUME NEW T, NEW tokens \in Seq(T), NEW n \in Nat, n + 1 <= Len(tokens),
         NEW p, LoopInv(T, tokens, n, p)
  PROVE  LoopInv(T, tokens, n + 1, AddToken(p, tokens[n + 1]))
<1>1. PICK x : x = tokens[n + 1]
  OBVIOUS
<1> DEFINE q == AddToken(p, x)
<1>2. Len(tokens) \in Nat /\ x \in T
  BY <1>1, LenProperties, ElementOfSeq
<1>3. /\ p \in Parsed(T)
      /\ Len(p.commands) = Before(tokens, n + 1) + (IF p.open THEN 1 ELSE 0)
      /\ p.open <=> n > 0 /\ tokens[n] # Separator
      /\ \A k \in 1 .. Len(p.commands) :
           \E a \in 1 .. n + 1 : \E b \in a .. n + 1 : IsPart(tokens, n, p, k, a, b)
  BY DEF LoopInv
<1> HIDE DEF q
<1>4. AddsToken(T, p, x, q)
  BY <1>2, <1>3, AddTokenFacts DEF q
<1>5. p.open \in BOOLEAN /\ q.open \in BOOLEAN
  BY <1>3, <1>4 DEF Parsed, AddsToken
<1> USE DEF AddsToken
<1>6. /\ Before(tokens, n + 1) \in Nat /\ Before(tokens, n + 2) \in Nat
      /\ Before(tokens, n + 2) = Before(tokens, n + 1) + (IF x = Separator THEN 1 ELSE 0)
  <2>1. PICK m \in Nat : m = n + 1
    OBVIOUS
  <2>2. m > 0 /\ m + 1 = n + 2 /\ m + 1 \in Nat
    BY <2>1
  <2> QED BY <1>1, <2>1, <2>2, BeforeFacts
<1>7. Len(q.commands) = Before(tokens, n + 2) + (IF q.open THEN 1 ELSE 0)
  BY <1>3, <1>4, <1>5, <1>6
<1>8. q.open <=> n + 1 > 0 /\ tokens[n + 1] # Separator
  BY <1>1, <1>4
<1>9. ASSUME NEW k \in 1 .. Len(q.commands)
      PROVE  \E a \in 1 .. n + 2 : \E b \in a .. n + 2 : IsPart(tokens, n + 1, q, k, a, b)
  <2>1. CASE k \in 1 .. Len(p.commands)
    <3>0. PICK a \in 1 .. n + 1 : \E b \in a .. n + 1 : IsPart(tokens, n, p, k, a, b)
      BY <1>3, <2>1
    <3>1. PICK b \in a .. n + 1 : IsPart(tokens, n, p, k, a, b)
      BY <3>0
    <3>2. /\ p.commands[k] = SubSeq(tokens, a, b - 1)
          /\ Before(tokens, a) = k - 1
          /\ a = 1 \/ tokens[a - 1] = Separator
          /\ \A i \in a .. b - 1 : tokens[i] # Separator
          /\ IF p.open /\ k = Len(p.commands) THEN b = n + 1 ELSE b <= n /\ tokens[b] = Separator
      BY <3>1 DEF IsPart
    <3>3. a \in 1 .. n + 2 /\ b \in a .. n + 2 /\ a \in Nat /\ 0 < a /\ a <= n + 1
      OBVIOUS
    <3>4. CASE p.open /\ k = Len(p.commands) /\ x # Separator
      <4>1. q.commands[k] = Append(SubSeq(tokens, a, n), x)
        <5>1. b - 1 = n
          BY <3>2, <3>4
        <5> QED BY <1>4, <2>1, <3>2, <3>4, <5>1
      <4>2. Append(SubSeq(tokens, a, n), tokens[n + 1]) = SubSeq(tokens, a, n + 1)
        BY <3>3, LongerStretch
      <4>3. q.commands[k] = SubSeq(tokens, a, (n + 2) - 1)
        <5>1. (n + 2) - 1 = n + 1
          OBVIOUS
        <5> QED BY <1>1, <4>1, <4>2, <5>1
      <4>4. \A i \in a .. (n + 2) - 1 : tokens[i] # Separator
        <5>1. \A i \in a .. (n + 2) - 1 : i \in a .. b - 1 \/ i = n + 1
          BY <3>2, <3>4
        <5> QED BY <1>1, <3>2, <3>4, <5>1
      <4>5. q.open /\ k = Len(q.commands) /\ n + 2 = (n + 1) + 1
        BY <1>4, <3>4
      <4>6. IsPart(tokens, n + 1, q, k, a, n + 2)
        BY <3>2, <4>3, <4>4, <4>5 DEF IsPart
      <4>7. n + 2 \in a .. n + 2
        BY <3>3
      <4> QED BY <3>3, <4>6, <4>7
    <3>5. CASE p.open /\ k = Len(p.commands) /\ x = Separator
      <4>1. q.commands[k] = p.commands[k] /\ ~ q.open
        BY <1>4, <2>1, <3>5
      <4>2. b <= n + 1 /\ tokens[b] = Separator
        <5>1. b = n + 1
          BY <3>2, <3>5
        <5>2. tokens[n + 1] = Separator
          BY <1>1, <3>5
        <5>3. tokens[b] = Separator
          BY <5>1, <5>2
        <5>4. n + 1 <= n + 1
          OBVIOUS
        <5> QED BY <5>1, <5>3, <5>4
      <4>3. IsPart(tokens, n + 1, q, k, a, b)
        BY <3>2, <4>1, <4>2 DEF IsPart
      <4> QED BY <3>3, <4>3
    <3>6. CASE ~ (p.open /\ k = Len(p.commands))
      <4>0. k # Len(q.commands)
        <5>1. CASE p.open
          BY <1>4, <2>1, <3>6, <5>1
        <5>2. CASE ~ p.open
          BY <1>4, <2>1, <5>2
        <5> QED BY <5>1, <5>2
      <4>1. q.commands[k] = p.commands[k] /\ ~ (q.open /\ k = Len(q.commands))
        BY <1>4, <2>1, <3>6, <4>0
      <4>2. b <= n + 1 /\ tokens[b] = Separator
        BY <1>5, <3>2, <3>6
      <4>3. IsPart(tokens, n + 1, q, k, a, b)
        BY <3>2, <4>1, <4>2 DEF IsPart
      <4> QED BY <3>3, <4>3
    <3> QED BY <3>4, <3>5, <3>6
  <2>2. CASE k = Len(p.commands) + 1 /\ ~ p.open
    <3>1. Before(tokens, n + 1) = k - 1
      BY <1>3, <1>4, <1>6, <2>2
    <3>2. n + 1 = 1 \/ tokens[(n + 1) - 1] = Separator
      <4>1. (n + 1) - 1 = n
        OBVIOUS
      <4> QED BY <1>3, <2>2, <4>1
    <3>3. k = Len(q.commands)
      BY <1>4, <2>2
    <3>4. CASE x = Separator
      <4>1. SubSeq(tokens, n + 1, (n + 1) - 1) = <<>>
        BY SubSeqEmpty
      <4>2. q.commands[k] = <<>> /\ ~ q.open
        BY <1>4, <2>2, <3>4
      <4>3. tokens[n + 1] = Separator /\ \A i \in n + 1 .. (n + 1) - 1 : tokens[i] # Separator
        BY <1>1, <3>4
      <4>4. IsPart(tokens, n + 1, q, k, n + 1, n + 1)
        BY <3>1, <3>2, <4>1, <4>2, <4>3 DEF IsPart
      <4> QED BY <4>4
    <3>5. CASE x # Separator
      <4>1. SubSeq(tokens, n + 1, n) = <<>>
        BY SubSeqEmpty
      <4>2. Append(SubSeq(tokens, n + 1, n), tokens[n + 1]) = SubSeq(tokens, n + 1, n + 1)
        <5>1. PICK a \in Nat : a = n + 1
          OBVIOUS
        <5>2. Append(SubSeq(tokens, a, n), tokens[n + 1]) = SubSeq(tokens, a, n + 1)
          BY <5>1, LongerStretch
        <5> QED BY <5>1, <5>2
      <4>3. Append(<<>>, x) = <<x>>
        OBVIOUS
      <4>4. q.commands[k] = SubSeq(tokens, n + 1, (n + 2) - 1)
        <5>1. (n + 2) - 1 = n + 1
          OBVIOUS
        <5> QED BY <1>1, <1>4, <2>2, <3>5, <4>1, <4>2, <4>3, <5>1
      <4>5. \A i \in n + 1 .. (n + 2) - 1 : tokens[i] # Separator
        <5>1. \A i \in n + 1 .. (n + 2) - 1 : i = n + 1
          OBVIOUS
        <5> QED BY <1>1, <3>5, <5>1
      <4>6. q.open /\ n + 2 = (n + 1) + 1
        BY <1>4, <3>5
      <4>7. IsPart(tokens, n + 1, q, k, n + 1, n + 2)
        BY <3>1, <3>2, <3>3, <4>4, <4>5, <4>6 DEF IsPart
      <4> QED BY <4>7
    <3> QED BY <3>4, <3>5
  <2>3. Len(q.commands) \in {Len(p.commands), Len(p.commands) + 1} /\ Len(p.commands) \in Nat
        /\ (p.open => Len(q.commands) = Len(p.commands))
    <3>1. CASE p.open
      BY <1>4, <3>1
    <3>2. CASE ~ p.open
      BY <1>4, <3>2
    <3> QED BY <3>1, <3>2
  <2>4. k \in 1 .. Len(p.commands) \/ (k = Len(p.commands) + 1 /\ ~ p.open)
    BY <2>3
  <2> QED BY <2>1, <2>2, <2>4
<1>10. (n + 1) + 1 = n + 2
  OBVIOUS
<1>11. LoopInv(T, tokens, n + 1, q)
  BY <1>4, <1>7, <1>8, <1>9, <1>10 DEF LoopInv
<1> QED BY <1>1, <1>11 DEF q

LEMMA LoopEnd ==
  ASSUME NEW T, NEW tokens \in Seq(T)
  PROVE  LoopInv(T, tokens, Len(tokens), FoldLeft(AddToken, Nothing, tokens))
<1> DEFINE N == Len(tokens)
<1>1. N \in Nat
  BY LenProperties
<1>2. PICK h : /\ h[0] = Nothing
               /\ \A n \in 1 .. N : h[n] = AddToken(h[n - 1], tokens[n])
               /\ FoldLeft(AddToken, Nothing, tokens) = h[N]
  BY ParseLoop
<1> HIDE DEF N
<1> DEFINE Bad == {n \in 0 .. N : ~ LoopInv(T, tokens, n, h[n])}
<1>3. ASSUME Bad # {} PROVE FALSE
  <2>1. PICK n \in Bad : \A m \in Bad : n <= m
    <3>1. Bad \subseteq Nat
      BY <1>1
    <3> QED BY <1>3, <3>1, LeastNat
  <2>2. n # 0
    BY <1>2, LoopStart
  <2>3. n - 1 \in 0 .. N /\ n - 1 \in Nat /\ (n - 1) + 1 <= N /\ (n - 1) + 1 = n /\ n - 1 \notin Bad
    BY <1>1, <2>1, <2>2
  <2>4. PICK m \in Nat : m = n - 1
    BY <2>3
  <2>5. LoopInv(T, tokens, m, h[m]) /\ m + 1 = n /\ m + 1 <= N
    BY <2>3, <2>4
  <2>6. LoopInv(T, tokens, m + 1, AddToken(h[m], tokens[m + 1]))
    BY <2>5, LoopStep DEF N
  <2>7. h[n] = AddToken(h[m], tokens[m + 1])
    BY <1>1, <1>2, <2>3, <2>4
  <2> QED BY <2>1, <2>5, <2>6, <2>7
<1>4. N \in 0 .. N /\ N \notin Bad
  <2>1. N \in 0 .. N
    BY <1>1
  <2> HIDE DEF Bad
  <2> QED BY <1>3, <2>1
<1>5. LoopInv(T, tokens, N, h[N])
  BY <1>4
<1> QED BY <1>2, <1>5 DEF N

(* The loop finds the parts of the line, and none of them holds a ";". *)
Alone(cmd) == \A i \in 1 .. Len(cmd) : cmd[i] # Separator

AreParts(T, tokens, p) ==
  /\ Parts(tokens) = p.commands
  /\ p.commands \in Seq(Seq(T))
  /\ Before(tokens, Len(tokens) + 1) \in Nat
  /\ Len(p.commands) = Before(tokens, Len(tokens) + 1) + (IF p.open THEN 1 ELSE 0)
  /\ p.open \in BOOLEAN
  /\ p.open <=> EndsInCommand(tokens)
  /\ \A k \in 1 .. Len(p.commands) : Alone(p.commands[k])

LEMMA PartsParsed ==
  ASSUME NEW T, NEW tokens \in Seq(T), NEW p, p = FoldLeft(AddToken, Nothing, tokens)
  PROVE  AreParts(T, tokens, p)
<1> DEFINE N == Len(tokens)
<1>1. N \in Nat /\ (\A i \in 1 .. N : tokens[i] \in T) /\ (tokens = <<>> <=> N = 0)
  BY LenProperties, ElementOfSeq, EmptySeq
<1>2. LoopInv(T, tokens, N, p)
  BY LoopEnd
<1> HIDE DEF N
<1>3. /\ p \in Parsed(T)
      /\ Len(p.commands) = Before(tokens, N + 1) + (IF p.open THEN 1 ELSE 0)
      /\ p.open <=> N > 0 /\ tokens[N] # Separator
      /\ \A k \in 1 .. Len(p.commands) :
           \E a \in 1 .. N + 1 : \E b \in a .. N + 1 : IsPart(tokens, N, p, k, a, b)
  BY <1>2 DEF LoopInv
<1>4. p.open \in BOOLEAN /\ p.commands \in Seq(Seq(T))
  BY <1>3 DEF Parsed
<1>5. p.open <=> EndsInCommand(tokens)
  BY <1>1, <1>3 DEF EndsInCommand, Last, N
<1>6. Before(tokens, N + 1) \in Nat
  <2>1. PICK m \in Nat : m = N + 1
    BY <1>1
  <2> QED BY <2>1, BeforeFacts
<1>7. PICK c : c = p.commands
  OBVIOUS
<1>8. Len(c) \in Nat /\ DOMAIN c = 1 .. Len(c)
  BY <1>4, <1>7, LenProperties
<1>9. ASSUME NEW k \in 1 .. Len(c)
      PROVE  /\ c[k] = SubSeq(tokens, Min(Places(tokens, k)), Max(Places(tokens, k)) - 1)
             /\ \A i \in 1 .. Len(c[k]) : c[k][i] # Separator
  <2>1. PICK a \in 1 .. N + 1 : \E b \in a .. N + 1 : IsPart(tokens, N, p, k, a, b)
    BY <1>3, <1>7
  <2>2. PICK b \in a .. N + 1 : IsPart(tokens, N, p, k, a, b)
    BY <2>1
  <2>3. /\ c[k] = SubSeq(tokens, a, b - 1)
        /\ Before(tokens, a) = k - 1
        /\ a = 1 \/ tokens[a - 1] = Separator
        /\ \A i \in a .. b - 1 : tokens[i] # Separator
        /\ b = N + 1 \/ tokens[b] = Separator
    BY <1>7, <2>2 DEF IsPart
  <2>4. Places(tokens, Before(tokens, a) + 1) = a .. b
    BY <1>1, <2>3, PlacesAre DEF N
  <2>5. Before(tokens, a) + 1 = k
    BY <1>8, <2>3
  <2>6. a \in Int /\ b \in Int /\ a <= b
    BY <1>1
  <2>7. Min(Places(tokens, k)) = a /\ Max(Places(tokens, k)) = b
    BY <2>4, <2>5, <2>6, IntervalEnds
  <2>8. ASSUME NEW i \in 1 .. Len(c[k]) PROVE c[k][i] # Separator
    <3>1. \A j \in a .. b - 1 : tokens[j] \in T
      BY <1>1
    <3>2. PICK s : s = SubSeq(tokens, a, b - 1)
      OBVIOUS
    <3>3. b - 1 \in Int
      BY <2>6
    <3>4. /\ Len(s) = IF a <= b - 1 THEN b - 1 - a + 1 ELSE 0
          /\ \A j \in 1 .. b - 1 - a + 1 : s[j] = tokens[a + j - 1]
      BY <2>6, <3>1, <3>2, <3>3, SubSeqProperties
    <3>5. i \in 1 .. Len(s)
      BY <2>3, <3>2
    <3>6. i \in 1 .. b - 1 - a + 1 /\ a + i - 1 \in a .. b - 1
      BY <2>6, <3>4, <3>5
    <3>7. s[i] = tokens[a + i - 1] /\ tokens[a + i - 1] # Separator
      BY <2>3, <3>4, <3>6
    <3> QED BY <2>3, <3>2, <3>7
  <2> QED BY <2>3, <2>7, <2>8
<1>10. Parts(tokens) = c
  <2> DEFINE Part(k) == SubSeq(tokens, Min(Places(tokens, k)), Max(Places(tokens, k)) - 1)
  <2>1. Len(c) = Before(tokens, Len(tokens) + 1)
                   + (IF EndsInCommand(tokens) THEN 1 ELSE 0)
    BY <1>3, <1>5, <1>7 DEF N
  <2>2. PICK n : n = Len(c)
    OBVIOUS
  <2>3. Parts(tokens) = [k \in 1 .. n |-> Part(k)]
    BY <2>1, <2>2 DEF Parts
  <2>4. c = [k \in 1 .. n |-> c[k]]
    BY <1>4, <1>7, <1>8, <2>2
  <2> HIDE DEF Part
  <2>5. \A k \in 1 .. n : c[k] = Part(k)
    BY <1>9, <2>2 DEF Part
  <2> QED BY <2>3, <2>4, <2>5
<1>11. \A k \in 1 .. Len(c) : Alone(c[k])
  BY <1>9 DEF Alone
<1> QED BY <1>3, <1>4, <1>5, <1>6, <1>7, <1>10, <1>11 DEF AreParts, N

(***************************************************************************)
(* The loop of parse_redirection.                                          *)
(***************************************************************************)
StoreFile(cmd, files, i) ==
  IF cmd[i] \in Redirections
  THEN [files EXCEPT ![cmd[i]] = IF i < Len(cmd) THEN cmd[i + 1] ELSE NULL]
  ELSE files

NoneStored(Unset) == [sign \in Redirections |-> Unset]

Indices(cmd) == [i \in DOMAIN cmd |-> i]

IsStore(g, cmd, Unset) ==
  g = [S \in SUBSET DOMAIN Indices(cmd) |->
         IF S = {} THEN NoneStored(Unset)
         ELSE StoreFile(cmd, g[S \ {Max(S)}], Indices(cmd)[Max(S)])]

Files(T, Unset) == [Redirections -> T \cup {NULL, Unset}]

LEMMA StoreFileType ==
  ASSUME NEW T, NEW Unset, NEW cmd \in Seq(T), NEW files \in Files(T, Unset), NEW i \in 1 .. Len(cmd)
  PROVE  /\ StoreFile(cmd, files, i) \in Files(T, Unset)
         /\ \A sign \in Redirections :
              StoreFile(cmd, files, i)[sign] =
                IF cmd[i] # sign THEN files[sign] ELSE IF i < Len(cmd) THEN cmd[i + 1] ELSE NULL
<1>1. Len(cmd) \in Nat /\ \A j \in 1 .. Len(cmd) : cmd[j] \in T
  BY LenProperties, ElementOfSeq
<1>2. PICK v : v = IF i < Len(cmd) THEN cmd[i + 1] ELSE NULL
  OBVIOUS
<1>3. v \in T \cup {NULL, Unset}
  <2>1. CASE i < Len(cmd)
    <3>1. i + 1 \in 1 .. Len(cmd)
      BY <1>1, <2>1
    <3> QED BY <1>1, <1>2, <2>1, <3>1
  <2>2. CASE ~ (i < Len(cmd))
    BY <1>2, <2>2
  <2> QED BY <2>1, <2>2
<1>4. StoreFile(cmd, files, i) =
        IF cmd[i] \in Redirections THEN [files EXCEPT ![cmd[i]] = v] ELSE files
  BY <1>2 DEF StoreFile
<1> QED BY <1>2, <1>3, <1>4 DEF Files

LEMMA StoreLoop ==
  ASSUME NEW T, NEW Unset, NEW cmd \in Seq(T)
  PROVE  \E h : /\ h[0] = NoneStored(Unset)
                /\ \A n \in 1 .. Len(cmd) : h[n] = StoreFile(cmd, h[n - 1], n)
                /\ parse_redirection(cmd, Unset) = h[Len(cmd)]
<1> DEFINE N == Len(cmd)
           places == Indices(cmd)
           f == [fi \in Files(T, Unset) \X (1 .. N) |-> StoreFile(cmd, fi[1], fi[2])]
<1>1. N \in Nat /\ DOMAIN cmd = 1 .. N
  BY LenProperties
<1>2. NoneStored(Unset) \in Files(T, Unset)
  BY DEF NoneStored, Files
<1>3. f \in [Files(T, Unset) \X (1 .. N) -> Files(T, Unset)]
  BY StoreFileType
<1>4. DOMAIN places = 1 .. N /\ \A i \in 1 .. N : places[i] = i
  BY <1>1 DEF Indices
<1>5. PICK g \in [SUBSET (1 .. N) -> Files(T, Unset)] : IsFold(g, f, NoneStored(Unset), places, N)
  <2>1. PICK D, E, F, base, s, n : /\ D = Files(T, Unset) /\ E = 1 .. N /\ F = f
                                   /\ base = NoneStored(Unset) /\ s = places /\ n = N
    OBVIOUS
  <2> HIDE DEF f, N, places
  <2>2. n \in Nat /\ \A i \in 1 .. n : s[i] \in E
    BY <1>1, <1>4, <2>1
  <2>3. F \in [D \X E -> D] /\ base \in D
    BY <1>2, <1>3, <2>1
  <2>4. \E g \in [SUBSET (1 .. n) -> D] : IsFold(g, F, base, s, n)
    BY <2>2, <2>3, FoldExists, ZenonT(60)
  <2> QED BY <2>1, <2>4
<1>6. IsStore(g, cmd, Unset)
  <2>1. g = [S \in SUBSET (1 .. N) |->
               IF S = {} THEN NoneStored(Unset) ELSE f[<<g[S \ {Max(S)}], places[Max(S)]>>]]
    BY <1>5 DEF IsFold
  <2>2. ASSUME NEW S \in SUBSET (1 .. N), S # {}
        PROVE  f[<<g[S \ {Max(S)}], places[Max(S)]>>] = StoreFile(cmd, g[S \ {Max(S)}], places[Max(S)])
    <3>1. PICK m : m = Max(S)
      OBVIOUS
    <3>2. m \in 1 .. N
      BY <1>1, <2>2, <3>1, LargestIn
    <3>3. places[m] \in 1 .. N /\ g[S \ {m}] \in Files(T, Unset)
      BY <1>4, <1>5, <3>2
    <3> HIDE DEF places
    <3> QED BY <3>1, <3>3
  <2> HIDE DEF f, places
  <2>3. g = [S \in SUBSET (1 .. N) |->
               IF S = {} THEN NoneStored(Unset)
               ELSE StoreFile(cmd, g[S \ {Max(S)}], places[Max(S)])]
    BY <2>1, <2>2
  <2> QED BY <1>4, <2>3 DEF IsStore, places
<1>7. parse_redirection(cmd, Unset) = (CHOOSE iter : IsStore(iter, cmd, Unset))[DOMAIN Indices(cmd)]
  BY DEF parse_redirection, FoldLeft, MapThenFoldSet, IsStore, StoreFile, NoneStored, Indices
<1>8. PICK iter : iter = CHOOSE i : IsStore(i, cmd, Unset)
  OBVIOUS
<1>9. IsStore(iter, cmd, Unset)
  BY <1>6, <1>8
<1> DEFINE h == [n \in 0 .. N |-> iter[1 .. n]]
<1> HIDE DEF f, places
<1>10. h[0] = NoneStored(Unset)
  <2>1. 1 .. 0 = {} /\ {} \in SUBSET DOMAIN Indices(cmd)
    OBVIOUS
  <2>2. iter[{}] = NoneStored(Unset)
    BY <1>9, <2>1 DEF IsStore
  <2>3. h[0] = iter[1 .. 0]
    BY <1>1
  <2> QED BY <2>1, <2>2, <2>3
<1>11. ASSUME NEW n \in 1 .. N PROVE h[n] = StoreFile(cmd, h[n - 1], n)
  <2>1. PICK S : S = 1 .. n
    OBVIOUS
  <2>2. S \in SUBSET DOMAIN Indices(cmd) /\ Indices(cmd)[n] = n
    BY <1>1, <1>4, <2>1 DEF places
  <2>3. S # {} /\ Max(S) = n /\ S \ {n} = 1 .. n - 1
    <3>1. n \in Nat /\ n > 0
      BY <1>1
    <3> QED BY <2>1, <3>1, PrefixOf
  <2>4. iter[S] = IF S = {} THEN NoneStored(Unset)
                  ELSE StoreFile(cmd, iter[S \ {Max(S)}], Indices(cmd)[Max(S)])
    BY <1>9, <2>2 DEF IsStore
  <2>5. iter[S] = StoreFile(cmd, iter[1 .. n - 1], n)
    BY <2>2, <2>3, <2>4
  <2>6. h[n] = iter[1 .. n] /\ h[n - 1] = iter[1 .. n - 1]
    BY <1>1
  <2> QED BY <2>1, <2>5, <2>6
<1>12. parse_redirection(cmd, Unset) = h[N]
  <2>1. h[N] = iter[1 .. N]
    BY <1>1
  <2> QED BY <1>4, <1>7, <1>8, <2>1 DEF places
<1> QED BY <1>10, <1>11, <1>12

(* What the files are after n tokens: what follows the last sign of each kind. *)
StoreInv(T, cmd, Unset, n, files) ==
  /\ files \in Files(T, Unset)
  /\ \A sign \in Redirections :
       \/ files[sign] = Unset /\ \A i \in 1 .. n : cmd[i] # sign
       \/ \E m \in 1 .. n :
            /\ cmd[m] = sign /\ \A i \in m + 1 .. n : cmd[i] # sign
            /\ files[sign] = IF m < Len(cmd) THEN cmd[m + 1] ELSE NULL

LEMMA StoreStep ==
  ASSUME NEW T, NEW Unset, NEW cmd \in Seq(T), NEW n \in Nat, n + 1 <= Len(cmd),
         NEW files, StoreInv(T, cmd, Unset, n, files)
  PROVE  StoreInv(T, cmd, Unset, n + 1, StoreFile(cmd, files, n + 1))
<1>1. PICK new : new = StoreFile(cmd, files, n + 1)
  OBVIOUS
<1>2. Len(cmd) \in Nat /\ n + 1 \in 1 .. Len(cmd) /\ files \in Files(T, Unset)
  BY LenProperties DEF StoreInv
<1>3. /\ new \in Files(T, Unset)
      /\ \A sign \in Redirections :
           new[sign] = IF cmd[n + 1] # sign THEN files[sign]
                       ELSE IF n + 1 < Len(cmd) THEN cmd[(n + 1) + 1] ELSE NULL
  BY <1>1, <1>2, StoreFileType
<1>4. ASSUME NEW sign \in Redirections
      PROVE  \/ new[sign] = Unset /\ \A i \in 1 .. n + 1 : cmd[i] # sign
             \/ \E m \in 1 .. n + 1 :
                  /\ cmd[m] = sign /\ \A i \in m + 1 .. n + 1 : cmd[i] # sign
                  /\ new[sign] = IF m < Len(cmd) THEN cmd[m + 1] ELSE NULL
  <2>1. CASE cmd[n + 1] = sign
    <3>1. n + 1 \in 1 .. n + 1 /\ \A i \in (n + 1) + 1 .. n + 1 : cmd[i] # sign
      OBVIOUS
    <3>2. new[sign] = IF n + 1 < Len(cmd) THEN cmd[(n + 1) + 1] ELSE NULL
      BY <1>3, <2>1
    <3> QED BY <2>1, <3>1, <3>2
  <2>2. CASE cmd[n + 1] # sign
    <3>1. new[sign] = files[sign]
      BY <1>3, <2>2
    <3>2. CASE files[sign] = Unset /\ \A i \in 1 .. n : cmd[i] # sign
      <4>1. \A i \in 1 .. n + 1 : i \in 1 .. n \/ i = n + 1
        OBVIOUS
      <4> QED BY <2>2, <3>1, <3>2, <4>1
    <3>3. CASE \E m \in 1 .. n :
                 /\ cmd[m] = sign /\ \A i \in m + 1 .. n : cmd[i] # sign
                 /\ files[sign] = IF m < Len(cmd) THEN cmd[m + 1] ELSE NULL
      <4>1. PICK m \in 1 .. n :
                 /\ cmd[m] = sign /\ \A i \in m + 1 .. n : cmd[i] # sign
                 /\ files[sign] = IF m < Len(cmd) THEN cmd[m + 1] ELSE NULL
        BY <3>3
      <4>2. \A i \in m + 1 .. n + 1 : i \in m + 1 .. n \/ i = n + 1
        OBVIOUS
      <4>3. m \in 1 .. n + 1
        OBVIOUS
      <4> QED BY <2>2, <3>1, <4>1, <4>2, <4>3
    <3> QED BY <3>2, <3>3 DEF StoreInv
  <2> QED BY <2>1, <2>2
<1> QED BY <1>1, <1>3, <1>4 DEF StoreInv

LEMMA StoreEnd ==
  ASSUME NEW T, NEW Unset, NEW cmd \in Seq(T)
  PROVE  StoreInv(T, cmd, Unset, Len(cmd), parse_redirection(cmd, Unset))
<1> DEFINE N == Len(cmd)
<1>1. N \in Nat
  BY LenProperties
<1>2. PICK h : /\ h[0] = NoneStored(Unset)
               /\ \A n \in 1 .. N : h[n] = StoreFile(cmd, h[n - 1], n)
               /\ parse_redirection(cmd, Unset) = h[N]
  BY StoreLoop
<1> HIDE DEF N
<1> DEFINE Bad == {n \in 0 .. N : ~ StoreInv(T, cmd, Unset, n, h[n])}
<1>3. ASSUME Bad # {} PROVE FALSE
  <2>1. PICK n \in Bad : \A m \in Bad : n <= m
    <3>1. Bad \subseteq Nat
      BY <1>1
    <3> QED BY <1>3, <3>1, LeastNat
  <2>2. n # 0
    BY <1>2 DEF StoreInv, NoneStored, Files
  <2>3. n - 1 \in 0 .. N /\ n - 1 \in Nat /\ (n - 1) + 1 <= N /\ (n - 1) + 1 = n /\ n - 1 \notin Bad
    BY <1>1, <2>1, <2>2
  <2>4. PICK m \in Nat : m = n - 1
    BY <2>3
  <2>5. StoreInv(T, cmd, Unset, m, h[m]) /\ m + 1 = n /\ m + 1 <= N
    BY <2>3, <2>4
  <2>6. StoreInv(T, cmd, Unset, m + 1, StoreFile(cmd, h[m], m + 1))
    BY <2>5, StoreStep DEF N
  <2>7. h[n] = StoreFile(cmd, h[m], m + 1)
    BY <1>1, <1>2, <2>3, <2>4
  <2> QED BY <2>1, <2>5, <2>6, <2>7
<1>4. N \in 0 .. N /\ N \notin Bad
  <2>1. N \in 0 .. N
    BY <1>1
  <2> HIDE DEF Bad
  <2> QED BY <1>3, <2>1
<1>5. StoreInv(T, cmd, Unset, N, h[N])
  BY <1>4
<1> QED BY <1>2, <1>5 DEF N

-----------------------------------------------------------------------------
(* One command *)

LEMMA SignsDiffer == Separator \notin Redirections /\ "&" \notin Redirections /\ Separator # "&"
BY Zenon DEF Separator, Redirections

LEMMA ArgumentsAsAsked ==
  ASSUME NEW T, NEW cmd \in Seq(T), Alone(cmd)
  PROVE  extract_arguments(cmd) = [i \in {i \in DOMAIN cmd : \A j \in 1 .. i : IsWord(cmd[j])} |-> cmd[i]]
<1> DEFINE N == Len(cmd)
           I == {i \in 1 .. N : cmd[i] \in ArgumentsEndAt}
           words == {i \in DOMAIN cmd : \A j \in 1 .. i : IsWord(cmd[j])}
<1>1. N \in Nat /\ DOMAIN cmd = 1 .. N /\ cmd = [i \in 1 .. N |-> cmd[i]]
  BY LenProperties
<1>2. ASSUME NEW i \in 1 .. N PROVE IsWord(cmd[i]) <=> i \notin I
  BY DEF IsWord, ArgumentsEndAt, Alone
<1>3. extract_arguments(cmd) = LET end == IF I # {} THEN Min(I) ELSE 0
                               IN IF end = 0 THEN cmd ELSE SubSeq(cmd, 1, end - 1)
  BY DEF extract_arguments, SelectInSeq
<1>4. CASE I = {}
  <2>1. extract_arguments(cmd) = cmd
    BY <1>3, <1>4
  <2>2. words = 1 .. N
    <3>1. \A i \in 1 .. N : \A j \in 1 .. i : j \in 1 .. N
      BY <1>1
    <3>2. \A i \in 1 .. N : \A j \in 1 .. i : IsWord(cmd[j])
      BY <1>2, <1>4, <3>1
    <3> QED BY <1>1, <3>2
  <2> QED BY <1>1, <2>1, <2>2
<1>5. CASE I # {}
  <2>1. PICK m \in I : \A i \in I : m <= i
    <3>1. I \subseteq Nat
      BY <1>1
    <3> QED BY <1>5, <3>1, LeastNat
  <2>2. Min(I) = m
    <3>1. \A x \in I : (\A y \in I : x =< y) => x = m
      BY <1>1, <2>1
    <3>2. \A y \in I : m =< y
      BY <2>1
    <3> HIDE DEF I
    <3> QED BY <2>1, <3>1, <3>2 DEF Min
  <2>3. m \in 1 .. N /\ m # 0
    BY <1>1, <2>1
  <2>4. extract_arguments(cmd) = SubSeq(cmd, 1, m - 1)
    BY <1>3, <1>5, <2>2, <2>3
  <2>5. m - 1 \in 0 .. Len(cmd)
    BY <1>1, <2>3
  <2>6. SubSeq(cmd, 1, m - 1) = Restrict(cmd, 1 .. m - 1)
    <3>1. PICK n \in 0 .. Len(cmd) : n = m - 1
      BY <2>5
    <3> QED BY <3>1, SubSeqRestrict
  <2>7. words = 1 .. m - 1
    <3>1. ASSUME NEW i \in words PROVE i \in 1 .. m - 1
      <4>1. i \in 1 .. N /\ \A j \in 1 .. i : IsWord(cmd[j])
        BY <1>1
      <4>2. ~ IsWord(cmd[m])
        BY <1>2, <2>1, <2>3
      <4>3. ~ (m <= i)
        BY <1>1, <2>3, <4>1, <4>2
      <4> QED BY <1>1, <2>3, <4>1, <4>3
    <3>2. ASSUME NEW i \in 1 .. m - 1 PROVE i \in words
      <4>1. i \in 1 .. N /\ \A j \in 1 .. i : j \in 1 .. N /\ j < m
        BY <1>1, <2>3
      <4>2. ASSUME NEW j \in 1 .. i PROVE IsWord(cmd[j])
        <5>1. j \in 1 .. N /\ j < m
          BY <4>1
        <5>2. j \notin I
          BY <1>1, <2>1, <2>3, <5>1
        <5> QED BY <1>2, <5>1, <5>2
      <4> QED BY <1>1, <4>1, <4>2
    <3> QED BY <3>1, <3>2
  <2>8. Restrict(cmd, 1 .. m - 1) = [i \in 1 .. m - 1 |-> cmd[i]]
    BY DEF Restrict
  <2> QED BY <2>4, <2>6, <2>7, <2>8
<1> QED BY <1>4, <1>5

(* The file after a sign of a command. *)
LEMMA FileAsAsked ==
  ASSUME NEW T, NEW cmd \in Seq(T), IsCommand(cmd), NEW Unset, NEW sign \in Redirections
  PROVE  LET there == \E i \in 1 .. Len(cmd) : cmd[i] = sign
             After == FileAfter(cmd, sign, Unset)
         IN /\ there => parse_redirection(cmd, Unset)[sign] = After
            /\ ~ there => /\ parse_redirection(cmd, Unset)[sign] = Unset
                          /\ After = IF has_redirection(cmd) THEN Unset ELSE NULL
<1> DEFINE N == Len(cmd)
           files == parse_redirection(cmd, Unset)
           at == {i \in DOMAIN cmd : cmd[i] = sign}
<1>1. N \in Nat /\ DOMAIN cmd = 1 .. N /\ \A i \in 1 .. N : cmd[i] \in T
  BY LenProperties, ElementOfSeq
<1>2. cmd[N] \notin Redirections
  BY DEF IsCommand
<1>0. StoreInv(T, cmd, Unset, Len(cmd), parse_redirection(cmd, Unset))
  BY StoreEnd
<1>3. \/ files[sign] = Unset /\ \A i \in 1 .. N : cmd[i] # sign
      \/ \E m \in 1 .. N :
           /\ cmd[m] = sign /\ \A i \in m + 1 .. N : cmd[i] # sign
           /\ files[sign] = IF m < N THEN cmd[m + 1] ELSE NULL
  BY <1>0 DEF StoreInv
<1>4. FileAfter(cmd, sign, Unset) = IF at # {} THEN cmd[Max(at) + 1]
                                    ELSE IF has_redirection(cmd) THEN Unset ELSE NULL
  BY DEF FileAfter
<1> HIDE DEF files
<1>5. CASE files[sign] = Unset /\ \A i \in 1 .. N : cmd[i] # sign
  <2>1. at = {}
    BY <1>1, <1>5
  <2> QED BY <1>4, <1>5, <2>1 DEF files
<1>6. CASE \E m \in 1 .. N :
             /\ cmd[m] = sign /\ \A i \in m + 1 .. N : cmd[i] # sign
             /\ files[sign] = IF m < N THEN cmd[m + 1] ELSE NULL
  <2>1. PICK m \in 1 .. N :
             /\ cmd[m] = sign /\ \A i \in m + 1 .. N : cmd[i] # sign
             /\ files[sign] = IF m < N THEN cmd[m + 1] ELSE NULL
    BY <1>6
  <2>2. m < N
    BY <1>1, <1>2, <2>1
  <2>3. at \subseteq Int /\ m \in at /\ \A x \in at : x <= m
    <3>1. \A x \in at : x \in 1 .. N /\ x \notin m + 1 .. N
      BY <1>1, <2>1
    <3> QED BY <1>1, <2>1, <3>1
  <2>4. Max(at) = m
    <3> HIDE DEF at
    <3> QED BY <2>3, MaxIs
  <2>5. FileAfter(cmd, sign, Unset) = cmd[m + 1] /\ files[sign] = cmd[m + 1]
    BY <1>4, <2>1, <2>2, <2>3, <2>4
  <2> QED BY <2>1, <2>5 DEF files
<1> QED BY <1>3, <1>5, <1>6

LEMMA ChildAsAsked ==
  ASSUME NEW T, NEW cmd \in Seq(T), IsCommand(cmd), NEW existing, NEW Unset
  PROVE  Redirected(cmd, existing, Unset) = Asked(cmd, existing, Unset).child
<1> DEFINE There(sign) == \E i \in 1 .. Len(cmd) : cmd[i] = sign
           files == IF has_redirection(cmd) THEN parse_redirection(cmd, Unset) ELSE NoFiles
           After(sign) == FileAfter(cmd, sign, Unset)
<1>1. Len(cmd) \in Nat /\ DOMAIN cmd = 1 .. Len(cmd)
  BY LenProperties
<1>2. has_redirection(cmd) <=> \E sign \in Redirections : There(sign)
  BY <1>1 DEF has_redirection
<1>3. "<" \in Redirections
  BY DEF Redirections
<1>5. ASSUME NEW sign \in Redirections
      PROVE  files[sign] = After(sign)
  <2>1. There(sign) => has_redirection(cmd)
    BY <1>2
  <2>2. /\ There(sign) => parse_redirection(cmd, Unset)[sign] = After(sign)
        /\ ~ There(sign) => /\ parse_redirection(cmd, Unset)[sign] = Unset
                            /\ After(sign) = IF has_redirection(cmd) THEN Unset ELSE NULL
    BY FileAsAsked
  <2>3. NoFiles[sign] = NULL
    BY DEF NoFiles
  <2> HIDE DEF There, After
  <2> QED BY <2>1, <2>2, <2>3
<1>6. files = [sign \in Redirections |-> files[sign]]
  <2>1. has_redirection(cmd) => files = [sign \in Redirections |-> files[sign]]
    <3>1. parse_redirection(cmd, Unset) \in Files(T, Unset)
      BY StoreEnd DEF StoreInv
    <3>2. \A f \in Files(T, Unset) : f = [sign \in Redirections |-> f[sign]]
      BY DEF Files
    <3> QED BY <3>1, <3>2
  <2>2. NoFiles = [sign \in Redirections |-> NoFiles[sign]]
    BY DEF NoFiles
  <2> QED BY <2>1, <2>2
<1>7. Redirected(cmd, existing, Unset) =
        IF files["<"] \in existing \cup {NULL}
        THEN [exits |-> FALSE, opened |-> files]
        ELSE [exits |-> TRUE, opened |-> NoFiles]
  BY DEF Redirected
<1>8. Asked(cmd, existing, Unset).child =
        [exits |-> After("<") \notin existing \cup {NULL},
         opened |-> [sign \in Redirections |->
                       IF After("<") \notin existing \cup {NULL} THEN NULL ELSE After(sign)]]
  BY DEF Asked
<1> HIDE DEF files, After
<1>9. CASE After("<") \in existing \cup {NULL}
  <2>1. files = [sign \in Redirections |-> After(sign)]
    BY <1>5, <1>6
  <2> QED BY <1>3, <1>5, <1>7, <1>8, <1>9, <2>1
<1>10. CASE After("<") \notin existing \cup {NULL}
  <2>1. NoFiles = [sign \in Redirections |-> NULL]
    BY DEF NoFiles
  <2> QED BY <1>3, <1>5, <1>7, <1>8, <1>10, <2>1
<1> QED BY <1>9, <1>10

LEMMA CommandAsAsked ==
  ASSUME NEW T, NEW cmd \in Seq(T), IsCommand(cmd), Alone(cmd), NEW existing, NEW Unset
  PROVE  command(cmd, existing, Unset) = Asked(cmd, existing, Unset)
<1>1. extract_arguments(cmd) = Asked(cmd, existing, Unset).arguments
  BY ArgumentsAsAsked DEF Asked
<1>2. has_ampersand(cmd) = Asked(cmd, existing, Unset).background
  <2>1. Len(cmd) \in Nat /\ Len(cmd) # 0
    BY LenProperties, EmptySeq DEF IsCommand
  <2>2. \A i \in 1 .. Len(cmd) - 1 : cmd[i] # "&"
    BY DEF IsCommand
  <2>3. has_ampersand(cmd) <=> \E i \in 1 .. Len(cmd) : cmd[i] = "&"
    BY DEF has_ampersand, Contains
  <2>4. \A i \in 1 .. Len(cmd) : i \in 1 .. Len(cmd) - 1 \/ i = Len(cmd)
    BY <2>1
  <2>5. Len(cmd) \in 1 .. Len(cmd)
    BY <2>1
  <2>6. has_ampersand(cmd) <=> cmd[Len(cmd)] = "&"
    BY <2>2, <2>3, <2>4, <2>5
  <2>7. has_ampersand(cmd) \in BOOLEAN
    BY DEF has_ampersand, Contains
  <2>8. has_ampersand(cmd) = (cmd[Len(cmd)] = "&")
    BY <2>6, <2>7
  <2> QED BY <2>8 DEF Asked
<1>3. Redirected(cmd, existing, Unset) = Asked(cmd, existing, Unset).child
  BY ChildAsAsked
<1>4. Asked(cmd, existing, Unset) =
        [arguments |-> Asked(cmd, existing, Unset).arguments,
         background |-> Asked(cmd, existing, Unset).background,
         child |-> Asked(cmd, existing, Unset).child]
  BY DEF Asked
<1> QED BY <1>1, <1>2, <1>3, <1>4 DEF command

-----------------------------------------------------------------------------
(* The line *)

LEMMA LineAsAsked ==
  ASSUME NEW T, Pointers(T), NEW tokens \in Seq(T), NEW existing, NEW Unset \in {NULL, JUNK}
  PROVE  PerformsWhatIsAsked(tokens, existing, Unset)
<1> SUFFICES ASSUME \A k \in DOMAIN Parts(tokens) : IsCommand(Parts(tokens)[k])
             PROVE  my_process_command(tokens, existing, Unset) =
                      [performed |-> [k \in DOMAIN Parts(tokens) |->
                                        Asked(Parts(tokens)[k], existing, Unset)],
                       returns |-> Unset = NULL \/ EndsInCommand(tokens)]
  BY DEF PerformsWhatIsAsked
<1>1. PICK p : p = FoldLeft(AddToken, Nothing, tokens)
  OBVIOUS
<1>2. PICK c, K, n : c = p.commands /\ K = 1 + Before(tokens, Len(tokens) + 1) /\ n = Len(c)
  OBVIOUS
<1>3. /\ Parts(tokens) = c
      /\ c \in Seq(Seq(T))
      /\ Before(tokens, Len(tokens) + 1) \in Nat
      /\ n = Before(tokens, Len(tokens) + 1) + (IF p.open THEN 1 ELSE 0)
      /\ p.open \in BOOLEAN
      /\ p.open <=> EndsInCommand(tokens)
      /\ \A k \in 1 .. Len(c) : Alone(c[k])
  <2>1. AreParts(T, tokens, p)
    BY <1>1, PartsParsed
  <2> QED BY <1>2, <2>1 DEF AreParts
<1>4. /\ n \in Nat /\ K \in Nat /\ n <= K /\ DOMAIN c = 1 .. n
      /\ p.open => n = K
  <2>1. DOMAIN c = 1 .. n /\ n \in Nat
    BY <1>2, <1>3, LenProperties
  <2>2. CASE p.open
    BY <1>2, <1>3, <2>1, <2>2
  <2>3. CASE ~ p.open
    BY <1>2, <1>3, <2>1, <2>3
  <2> QED BY <2>2, <2>3
<1>5. \A k \in 1 .. n : c[k] \in Seq(T)
  BY <1>2, <1>3, ElementOfSeq
<1> DEFINE arr == [i \in 1 .. K + 1 |-> IF i <= n THEN c[i] ELSE IF i > K THEN NULL ELSE Unset]
<1>6. parse_command(tokens, Unset) = arr
  <2>1. PICK L \in Nat : L = Len(tokens) /\ DOMAIN tokens = 1 .. L
    BY LenProperties
  <2>2. L + 1 - 1 = L
    OBVIOUS
  <2>3. Before(tokens, L + 1) = Cardinality({i \in DOMAIN tokens : tokens[i] = Separator})
    BY <2>1, <2>2 DEF Before
  <2>4. K = 1 + Cardinality({i \in DOMAIN tokens : tokens[i] = Separator})
    BY <1>2, <2>1, <2>3
  <2>5. FoldLeft(AddToken, [commands |-> <<>>, open |-> FALSE], tokens).commands = c
    BY <1>1, <1>2 DEF Nothing
  <2> QED BY <1>2, <2>4, <2>5 DEF parse_command
<1>7. n <= K /\ (p.open <=> n = K)
  BY <1>2, <1>3, <1>4
<1>8. ASSUME NEW i \in 1 .. K + 1
      PROVE  /\ i <= n => arr[i] = c[i] /\ arr[i] \notin {NULL, JUNK}
             /\ i > n => arr[i] = IF i > K THEN NULL ELSE Unset
  <2>1. CASE i <= n
    <3>1. i \in 1 .. n /\ arr[i] = c[i]
      BY <1>4, <2>1
    <3> QED BY <1>4, <1>5, <2>1, <3>1 DEF Pointers
  <2>2. CASE i > n
    <3> QED BY <1>4, <2>2
  <2> QED BY <1>4, <2>1, <2>2
<1>9. Len(arr) = K + 1
  BY <1>4
<1> HIDE DEF arr
<1>10. SelectInSeq(arr, LAMBDA cmd : cmd \in {NULL, JUNK}) = n + 1
  <2> DEFINE I == {i \in 1 .. Len(arr) : arr[i] \in {NULL, JUNK}}
  <2>1. I = (n + 1) .. (K + 1)
    <3>1. ASSUME NEW i \in 1 .. K + 1 PROVE arr[i] \in {NULL, JUNK} <=> i > n
      BY <1>4, <1>8
    <3> QED BY <1>4, <1>9, <3>1
  <2>2. I # {} /\ Min(I) = n + 1
    <3>1. n + 1 \in Int /\ K + 1 \in Int /\ n + 1 <= K + 1 /\ n + 1 \in (n + 1) .. (K + 1)
      BY <1>4
    <3> HIDE DEF I
    <3> QED BY <2>1, <3>1, IntervalEnds
  <2> QED BY <2>2 DEF SelectInSeq
<1>11. (arr[n + 1] = NULL) = (Unset = NULL \/ EndsInCommand(tokens))
  <2>1. arr[n + 1] = IF n + 1 > K THEN NULL ELSE Unset
    BY <1>4, <1>8
  <2>2. n + 1 > K <=> EndsInCommand(tokens)
    BY <1>3, <1>4, <1>7
  <2>3. EndsInCommand(tokens) \in BOOLEAN
    BY DEF EndsInCommand
  <2> QED BY <2>1, <2>2, <2>3
<1>12. ASSUME NEW k \in 1 .. n
       PROVE  command(arr[k], existing, Unset) = Asked(c[k], existing, Unset)
  <2>1. arr[k] = c[k]
    BY <1>4, <1>8
  <2>2. PICK cmd : cmd = c[k]
    OBVIOUS
  <2>3. cmd \in Seq(T) /\ IsCommand(cmd) /\ Alone(cmd)
    BY <1>2, <1>3, <1>4, <1>5, <2>2
  <2>5. command(cmd, existing, Unset) = Asked(cmd, existing, Unset)
    BY <2>3, CommandAsAsked
  <2> QED BY <2>1, <2>2, <2>5
<1>13. PICK end : end = SelectInSeq(arr, LAMBDA cmd : cmd \in {NULL, JUNK})
  OBVIOUS
<1>14. my_process_command(tokens, existing, Unset) =
         [performed |-> [i \in 1 .. end - 1 |-> command(arr[i], existing, Unset)],
          returns |-> arr[end] = NULL]
  BY <1>6, <1>13 DEF my_process_command
<1>15. end = n + 1 /\ end - 1 = n
  BY <1>4, <1>10, <1>13
<1>16. [i \in 1 .. end - 1 |-> command(arr[i], existing, Unset)] =
         [k \in DOMAIN Parts(tokens) |-> Asked(Parts(tokens)[k], existing, Unset)]
  BY <1>3, <1>4, <1>12, <1>15
<1>17. (arr[end] = NULL) = (Unset = NULL \/ EndsInCommand(tokens))
  BY <1>11, <1>15
<1> QED BY <1>14, <1>16, <1>17

(***************************************************************************)
(* A line of any length and of any tokens is taken apart as the exercises  *)
(* ask, whichever files there are; and what the memory holds that nobody   *)
(* wrote shows where LinesAreTakenApart says, and nowhere else.            *)
(***************************************************************************)
THEOREM EveryLineIsTakenApart ==
  ASSUME NEW T, Pointers(T)
  PROVE  \A tokens \in Seq(T) : \A existing : \A Unset \in {NULL, JUNK} :
           PerformsWhatIsAsked(tokens, existing, Unset)
BY LineAsAsked

(***************************************************************************)
(* "Split tokens at NULL or ;": the lines of the run, of any length.       *)
(***************************************************************************)
THEOREM LinesCorrect == Spec => []LinesAreTakenApart
<1>1. SeqOf(Tokens, MaxTokens) \subseteq Seq(Tokens)
  BY MCShellAssumption DEF SeqOf
<1>2. Misread = {}
  <2>1. ASSUME NEW line \in SeqOf(Tokens, MaxTokens), NEW existing, NEW Unset \in {NULL, JUNK}
        PROVE  PerformsWhatIsAsked(line, existing, Unset)
    <3>1. PICK T : T = Tokens
      OBVIOUS
    <3>2. line \in Seq(T) /\ Pointers(T)
      BY <1>1, <3>1, MCShellAssumption
    <3> QED BY <3>2, LineAsAsked
  <2> QED BY <2>1 DEF Misread
<1>3. LinesAreTakenApart
  BY <1>2 DEF LinesAreTakenApart
<1> QED BY <1>3, PTL
=============================================================================
