------------------------------- MODULE Shell -------------------------------
(***************************************************************************)
(* The process table of the shell, src/cs2106_lab2/myshell.c, and the      *)
(* children it forks.  The shell runs one command at a time; the children  *)
(* exit, stop and are signalled at any moment, and the shell learns of it  *)
(* only where it calls waitpid.  A fork that fails leaves an entry of the  *)
(* id -1 in the table, which waitpid and kill take for every process.      *)
(***************************************************************************)
EXTENDS Integers, SequencesExt

CONSTANTS
  Pids,           \* the process ids the kernel gives to children
  NoPid,          \* -1, which fork returns when it fails
  MaxProcesses,   \* MAX_PROCESSES
  Codes,          \* the exit codes of programs
  (* the children to which something special may happen *)
  MayExitAtOnce,  \* it may exit before the shell's first waitpid
  MayStop,        \* it may be stopped
  MayBeKilled,    \* another program may kill it
  MayComeBack     \* the kernel may use its id again once it is reaped

ASSUME ShellAssumption ==
  /\ NoPid \notin Pids
  /\ MaxProcesses \in Nat
  /\ Codes \subseteq Nat
  /\ MayExitAtOnce \cup MayStop \cup MayBeKilled \cup MayComeBack \subseteq Pids

EXITED == 1
RUNNING == 2
TERMINATING == 3

SIGKILL == 9
SIGTERM == 15
SIGSTOP == 19

VARIABLES
  PCBTableArr,  \* the entries below PCBTableArrCounter
  pc,           \* where the shell is
  child,        \* the child its waitpid is about
  polled,       \* how many entries handle_background_child has seen
  proc,         \* the kernel's state of each process
  ending,       \* how each process ended
  signalled,    \* the processes with a SIGTERM to act upon; NoPid among them
                \* stands for those that are not children of the shell
  stolen        \* history: the children that a waitpid for any child reaped

shellVars == <<PCBTableArr, pc, child, polled>>
kernelVars == <<proc, ending, signalled, stolen>>
vars == <<shellVars, kernelVars>>

-----------------------------------------------------------------------------
(* The kernel. *)

Exit(n) == [by |-> "exit", n |-> n]
Signal(n) == [by |-> "signal", n |-> n]
Endings == {Exit(n) : n \in Codes} \cup {Signal(SIGKILL), Signal(SIGTERM)}

(* The macros of <sys/wait.h> on the status of an ended process. *)
WIFEXITED(e) == e.by = "exit"
WEXITSTATUS(e) == IF e.by = "exit" THEN e.n ELSE 0
WTERMSIG(e) == e.n

(* Which end a process comes to, if it may end now. *)
MayEnd(p, e) ==
  \/ e.by = "exit"
  \/ e = Signal(SIGTERM) /\ p \in signalled
  \/ e = Signal(SIGKILL) /\ p \in MayBeKilled

ChildEnds(p) ==
  /\ proc[p] = "running"
  /\ pc = "background" /\ child = p => p \in MayExitAtOnce
  /\ \E e \in Endings : MayEnd(p, e) /\ ending' = [ending EXCEPT ![p] = e]
  /\ proc' = [proc EXCEPT ![p] = "zombie"]
  /\ UNCHANGED <<shellVars, signalled, stolen>>

ChildStops(p) ==
  /\ p \in MayStop
  /\ proc[p] = "running"
  /\ proc' = [proc EXCEPT ![p] = "stopped"]
  /\ UNCHANGED <<shellVars, ending, signalled, stolen>>

ChildContinues(p) ==
  /\ proc[p] = "stopped"
  /\ proc' = [proc EXCEPT ![p] = "running"]
  /\ UNCHANGED <<shellVars, ending, signalled, stolen>>

Live(p) == proc[p] \in {"running", "stopped"}

(* What fork returns. *)
Fresh(p) == proc[p] = "new" \/ (p \in MayComeBack /\ proc[p] = "reaped")

(* The children that waitpid and kill act on. *)
Children(pid) == IF pid = NoPid THEN Pids ELSE {pid}

Unreaped(pid) == {p \in Children(pid) : proc[p] \notin {"new", "reaped"}}

(* waitpid finds the end of child p. *)
Reap(pid, p) ==
  /\ proc[p] = "zombie"
  /\ proc' = [proc EXCEPT ![p] = "reaped"]
  /\ stolen' = stolen \cup ({p} \ {pid})

(* kill.  Among all processes there is always one that it can signal.  A seeded
   fault: it is not called. *)
NotSignalled(pids) == signalled
Signalled(pids) == signalled \cup (UNION {Unreaped(p) : p \in pids}) \cup (pids \cap {NoPid})

KillResult(pid) == IF pid # NoPid /\ Unreaped(pid) = {} THEN -1 ELSE 0

-----------------------------------------------------------------------------

Entries == 1..Len(PCBTableArr)

(* The first entry of a process, which is the one every command looks at. *)
FirstIn(table, p) == SelectInSeq(table, LAMBDA entry : entry.pid = p)
EntryOf(p) == FirstIn(PCBTableArr, p)

(* A seeded fault: the table stays as it is. *)
NoUpdate(table, p, status, exit_code) == table

proc_update_status(table, p, status, exit_code) ==
  LET i == FirstIn(table, p)
  IN IF i = 0 THEN table
     ELSE [table EXCEPT ![i].status = status, ![i].exitCode = exit_code]

Init ==
  /\ PCBTableArr = <<>>
  /\ pc = "prompt" /\ child = NoPid /\ polled = 0
  /\ proc = [p \in Pids |-> "new"]
  /\ ending = [p \in Pids |-> Exit(0)]
  /\ signalled = {}
  /\ stolen = {}

Prompt == pc = "prompt"

AtPrompt == pc' = "prompt" /\ child' = NoPid /\ polled' = 0

-----------------------------------------------------------------------------
(* command_exec of a program that can be executed. *)

(* create_PCBTable, while it writes inside the table; then the first waitpid. *)
Registers(pid, inBackground) ==
  /\ Len(PCBTableArr) < MaxProcesses
  /\ PCBTableArr' = Append(PCBTableArr, [pid |-> pid, status |-> RUNNING, exitCode |-> -1])
  /\ pc' = IF inBackground THEN "background" ELSE "foreground"
  /\ child' = pid

Exec(p, inBackground) ==
  /\ Prompt /\ Fresh(p)
  /\ Registers(p, inBackground)
  /\ proc' = [proc EXCEPT ![p] = "running"]
  /\ signalled' = signalled \ {p}
  /\ UNCHANGED <<polled, ending, stolen>>

(* fork returns -1, which is not 0: the shell goes on as for a child. *)
ForkFails(inBackground) ==
  /\ Prompt
  /\ Registers(NoPid, inBackground)
  /\ UNCHANGED <<polled, kernelVars>>

(* With the table full, and no check of it, create_PCBTable writes into other
   variables.  What the shell does after that is not followed. *)
Overruns ==
  /\ Prompt
  /\ Len(PCBTableArr) = MaxProcesses
  /\ pc' = "overrun"
  /\ UNCHANGED <<PCBTableArr, child, polled, kernelVars>>

(* The first waitpid of a background child: its result is dropped. *)
BackgroundWaits ==
  /\ pc = "background"
  /\ \/ \E p \in Children(child) : Reap(child, p)
     \/ (\A p \in Children(child) : proc[p] # "zombie") /\ UNCHANGED <<proc, stolen>>
  /\ AtPrompt
  /\ UNCHANGED <<PCBTableArr, ending, signalled>>

(* waitpid with WUNTRACED returns when the child ends, and when it stops. *)
ForegroundEnds ==
  /\ pc = "foreground"
  /\ \E p \in Children(child) :
       /\ Reap(child, p)
       /\ PCBTableArr' = proc_update_status(PCBTableArr, child, EXITED, WEXITSTATUS(ending[p]))
  /\ AtPrompt
  /\ UNCHANGED <<ending, signalled>>

(* A seeded fault: waitpid with WNOHANG, which returns at once. *)
ReturnsLive(p) == Live(p)
ReturnsStopped(p) == proc[p] = "stopped"

ForegroundStops ==
  /\ pc = "foreground"
  /\ \E p \in Children(child) : ReturnsStopped(p)
  /\ PCBTableArr' = proc_update_status(PCBTableArr, child, EXITED, SIGSTOP)
  /\ AtPrompt
  /\ UNCHANGED kernelVars

(* There is no child at all: the status is what was in its memory. *)
ForegroundFails ==
  /\ pc = "foreground"
  /\ Unreaped(child) = {}
  /\ \E code \in Codes : PCBTableArr' = proc_update_status(PCBTableArr, child, EXITED, code)
  /\ AtPrompt
  /\ UNCHANGED kernelVars

-----------------------------------------------------------------------------
(* handle_background_child: a waitpid for each entry that is not known to have
   ended; what it learns goes to the first entry of the process. *)

(* A seeded fault: the code of a child that a signal ended is not its signal. *)
ExitCode(e) == WEXITSTATUS(e)

PolledCode(e) == IF WIFEXITED(e) THEN WEXITSTATUS(e) ELSE WTERMSIG(e)

StartPoll(label) == Prompt /\ pc' = label /\ UNCHANGED <<PCBTableArr, child, polled, kernelVars>>

Polls == pc \in {"info", "quitting"} /\ polled < Len(PCBTableArr)

Polled == PCBTableArr[polled + 1]

IsPolled(entry) == entry.status \in {RUNNING, TERMINATING}

PollFinds ==
  /\ Polls /\ IsPolled(Polled)
  /\ \E p \in Children(Polled.pid) :
       /\ Reap(Polled.pid, p)
       /\ PCBTableArr' = proc_update_status(PCBTableArr, Polled.pid, EXITED, PolledCode(ending[p]))
  /\ polled' = polled + 1
  /\ UNCHANGED <<pc, child, ending, signalled>>

PollPasses ==
  /\ Polls
  /\ IsPolled(Polled) => \A p \in Children(Polled.pid) : proc[p] # "zombie"
  /\ polled' = polled + 1
  /\ UNCHANGED <<PCBTableArr, pc, child, kernelVars>>

-----------------------------------------------------------------------------
(* The built-in commands. *)

Info == StartPoll("info")

InfoEnds ==
  /\ pc = "info" /\ ~Polls
  /\ AtPrompt
  /\ UNCHANGED <<PCBTableArr, kernelVars>>

(* The processes that wait and terminate act on.  A seeded fault: every process
   of the table. *)
InTable(p) == EntryOf(p) # 0
InTableRunning(p) == EntryOf(p) # 0 /\ PCBTableArr[EntryOf(p)].status = RUNNING

(* wait {PID} *)
Wait(pid) ==
  /\ Prompt
  /\ InTableRunning(pid)
  /\ pc' = "wait" /\ child' = pid
  /\ UNCHANGED <<PCBTableArr, polled, kernelVars>>

WaitEnds ==
  /\ pc = "wait"
  /\ \E p \in Children(child) :
       /\ Reap(child, p)
       /\ PCBTableArr' = proc_update_status(PCBTableArr, child, EXITED, WEXITSTATUS(ending[p]))
  /\ AtPrompt
  /\ UNCHANGED <<ending, signalled>>

(* There is no such child any more. *)
WaitFails ==
  /\ pc = "wait"
  /\ Unreaped(child) = {}
  /\ AtPrompt
  /\ UNCHANGED <<PCBTableArr, kernelVars>>

(* terminate {PID}: the result of kill becomes the exit code. *)
Terminate(pid) ==
  /\ Prompt
  /\ InTableRunning(pid)
  /\ PCBTableArr' = proc_update_status(PCBTableArr, pid, TERMINATING, KillResult(pid))
  /\ signalled' = Signalled({pid})
  /\ UNCHANGED <<pc, child, polled, proc, ending, stolen>>

(* my_quit *)
Quit == StartPoll("quitting")

(* No status 4 is ever set by this shell. *)
QuitKills ==
  /\ pc = "quitting" /\ ~Polls
  /\ signalled' = Signalled({PCBTableArr[i].pid : i \in {i \in Entries : PCBTableArr[i].status = RUNNING}})
  /\ pc' = "quit"
  /\ UNCHANGED <<PCBTableArr, child, polled, proc, ending, stolen>>

Next ==
  \/ \E p \in Pids :
       \/ ChildEnds(p) \/ ChildStops(p) \/ ChildContinues(p)
       \/ \E inBackground \in BOOLEAN : Exec(p, inBackground)
  \/ \E inBackground \in BOOLEAN : ForkFails(inBackground)
  \/ Overruns \/ BackgroundWaits \/ ForegroundEnds \/ ForegroundStops \/ ForegroundFails
  \/ Info \/ InfoEnds \/ PollFinds \/ PollPasses
  \/ \E pid \in Pids \cup {NoPid} : Wait(pid) \/ Terminate(pid)
  \/ WaitEnds \/ WaitFails \/ Quit \/ QuitKills

Spec == Init /\ [][Next]_vars

-----------------------------------------------------------------------------

EntriesOf(pids) == {i \in Entries : PCBTableArr[i].pid \in pids}

(* The last entry of each of these processes, if an id is used again. *)
LastEntriesOf(pids) ==
  {i \in EntriesOf(pids) : \A j \in Entries : j > i => PCBTableArr[j].pid # PCBTableArr[i].pid}

(***************************************************************************)
(* A process that info shows as running or terminating can still be waited *)
(* for: no end of a child is lost, or else it is shown running for ever.   *)
(* Not so for the end before the first waitpid, which drops the status,    *)
(* nor for a process whose entry an earlier one of the same id hides, nor  *)
(* for one that a waitpid for a fork that failed has reaped.               *)
(***************************************************************************)
NoEndIsLost ==
  \A i \in EntriesOf(Pids \ (MayExitAtOnce \cup MayComeBack \cup stolen)) :
    PCBTableArr[i].status \in {RUNNING, TERMINATING} => proc[PCBTableArr[i].pid] # "reaped"

(***************************************************************************)
(* "Child process has finished, update PCBTable": a process that info      *)
(* shows as exited is over.  (A stop in the foreground is taken for one.)  *)
(***************************************************************************)
ExitedIsOver ==
  \A i \in LastEntriesOf(Pids \ MayStop) :
    PCBTableArr[i].status = EXITED => ~Live(PCBTableArr[i].pid)

(***************************************************************************)
(* The code that info shows is the exit code of the process, or the number *)
(* of the signal that ended it - other than that of a kill while the shell *)
(* waits for it, of which it shows 0, and that of a stop, and as long as   *)
(* the shell has not told all processes to terminate.                      *)
(***************************************************************************)
CodeIsReal ==
  NoPid \notin signalled => \A i \in LastEntriesOf(Pids \ (MayStop \cup MayBeKilled)) :
    PCBTableArr[i].status = EXITED => PCBTableArr[i].exitCode = ending[PCBTableArr[i].pid].n

(***************************************************************************)
(* The state "should be Terminating until {PID} exits": an entry only goes *)
(* from running to terminating, and to exited when its process is reaped.  *)
(***************************************************************************)
StatusGoesForward ==
  [][\A i \in EntriesOf(Pids \ MayStop) :
       LET old == PCBTableArr[i].status
           new == PCBTableArr'[i].status
       IN new # old => \/ old = RUNNING /\ new = TERMINATING
                       \/ new = EXITED /\ proc'[PCBTableArr[i].pid] = "reaped"]_vars

(***************************************************************************)
(* quit leaves no child behind that was not told to terminate, whatever    *)
(* else happens to the children - except one that it takes for exited.     *)
(***************************************************************************)
QuitReachesAll ==
  pc = "quit" => \A p \in Pids : Live(p) =>
    \/ p \in signalled
    \/ p \in MayStop /\ PCBTableArr[EntryOf(p)].status = EXITED
=============================================================================
