----------------------------- MODULE BonusShell -----------------------------
(***************************************************************************)
(* The shell with job control, src/cs2106_lab2/bonus/myshell.c.  Beside    *)
(* what the plain shell does it resumes stopped children, and a signal     *)
(* handler changes the process table, and flags that the commands test,    *)
(* whenever a key is pressed: between any two steps of a command.          *)
(*                                                                         *)
(* The children stay in the process group of the shell, so a key signals   *)
(* all of them; they keep the default dispositions and have executed their *)
(* program when fork returns.  A key is handled before the next one.  A    *)
(* fork that fails leaves an entry of the id -1 in the table, which        *)
(* waitpid and kill take for every process.                                *)
(***************************************************************************)
EXTENDS Integers, SequencesExt

CONSTANTS
  Pids,          \* the process ids of the children, each given once
  NoPid,         \* -1, which fork returns when it fails
  MaxProcesses,  \* MAX_PROCESSES
  Codes          \* the exit codes of programs

ASSUME BonusShellAssumption == NoPid \notin Pids /\ MaxProcesses \in Nat /\ Codes \subseteq Nat

EXITED == 1
RUNNING == 2
TERMINATING == 3
STOPPED == 4

SIGINT == 2
SIGTERM == 15
SIGTSTP == 20

VARIABLES
  PCBTableArr,                   \* the entries below PCBTableArrCounter
  interrputed, stopped, make_fg, \* the flags of the source
  pc,                            \* where the shell is
  child,                         \* the child its command is about
  at,                            \* the entry handle_background_child is at
  code,                          \* what waitpid or kill gave the command
  proc,                          \* the kernel's state of each process
  ending,                        \* how each process ended
  signals,                       \* the signals each process has yet to act upon
  misled                         \* history: the children of which a flag, a key or a
                                 \* waitpid for any child kept the shell from learning
                                 \* the truth

flags == <<interrputed, stopped, make_fg>>
kernelVars == <<proc, ending, signals>>
vars == <<PCBTableArr, flags, pc, child, at, code, kernelVars, misled>>

-----------------------------------------------------------------------------
(* The kernel. *)

Exit(n) == [by |-> "exit", n |-> n]
Signal(n) == [by |-> "signal", n |-> n]
Endings == {Exit(n) : n \in Codes} \cup {Signal(SIGINT), Signal(SIGTERM)}

WEXITSTATUS(e) == IF e.by = "exit" THEN e.n ELSE 0
WTERMSIG(e) == e.n

Live(p) == proc[p] \in {"running", "stopped"}

Send(targets, sent) == [p \in Pids |-> IF p \in targets /\ Live(p) THEN signals[p] \cup sent
                                      ELSE signals[p]]

(* The children that waitpid and kill act on. *)
Targets(pids) == IF NoPid \in pids THEN Pids ELSE pids

Unreaped(pid) == {p \in Targets({pid}) : proc[p] \notin {"new", "reaped"}}

(* waitpid finds the end of p; for any child if pid is NoPid. *)
Reap(pid, p) ==
  /\ proc[p] = "zombie"
  /\ proc' = [proc EXCEPT ![p] = "reaped"]
  /\ misled' = misled \cup ({p} \ {pid})

(* A pending stop takes effect before the program can exit. *)
MayEnd(p, e) == IF e.by = "exit" THEN SIGTSTP \notin signals[p] ELSE e.n \in signals[p]

ChildEnds(p) ==
  /\ proc[p] = "running"
  /\ \E e \in Endings : MayEnd(p, e) /\ ending' = [ending EXCEPT ![p] = e]
  /\ proc' = [proc EXCEPT ![p] = "zombie"]
  /\ signals' = [signals EXCEPT ![p] = {}]
  /\ UNCHANGED <<PCBTableArr, flags, pc, child, at, code, misled>>

ChildStops(p) ==
  /\ proc[p] = "running" /\ SIGTSTP \in signals[p]
  /\ proc' = [proc EXCEPT ![p] = "stopped"]
  /\ signals' = [signals EXCEPT ![p] = @ \ {SIGTSTP}]
  /\ UNCHANGED <<PCBTableArr, flags, pc, child, at, code, ending, misled>>

(* SIGCONT, which takes back a stop that is still pending. *)
Continued(targets) ==
  [p \in Pids |-> IF p \in targets /\ proc[p] = "stopped" THEN "running" ELSE proc[p]]
WithoutStop(targets, sent) == [p \in Pids |-> IF p \in targets THEN sent[p] \ {SIGTSTP} ELSE sent[p]]

-----------------------------------------------------------------------------

Entries == 1..Len(PCBTableArr)
EntryOf(p) == SelectInSeq(PCBTableArr, LAMBDA entry : entry.pid = p)
Shown(p, status) == EntryOf(p) # 0 /\ PCBTableArr[EntryOf(p)].status = status

proc_update_status(p, status, exit_code) ==
  PCBTableArr' = [PCBTableArr EXCEPT ![EntryOf(p)].status = status,
                                     ![EntryOf(p)].exitCode = exit_code]

Init ==
  /\ PCBTableArr = <<>>
  /\ interrputed = FALSE /\ stopped = FALSE /\ make_fg = FALSE
  /\ pc = "prompt" /\ child = NoPid /\ at = 0 /\ code = 0
  /\ proc = [p \in Pids |-> "new"]
  /\ ending = [p \in Pids |-> Exit(0)]
  /\ signals = [p \in Pids |-> {}]
  /\ misled = {}

Prompt == pc = "prompt"
AtPrompt == pc' = "prompt" /\ child' = NoPid /\ code' = 0

-----------------------------------------------------------------------------
(* signal_handler: it takes the last entry for the one in the foreground.
   A key that reaches a child before the shell has it in the table, after it
   is over or before it has acted upon the last key misleads the shell. *)

LastRunning == PCBTableArr # <<>> /\ Last(PCBTableArr).status = RUNNING

Mislead ==
  misled' = IF \/ pc \in {"forked", "returned"}
               \/ pc = "foreground" /\ child \in Pids
                                    /\ (proc[child] = "zombie" \/ signals[child] # {})
            THEN misled \cup ({child} \cap Pids) ELSE misled

Over == pc \in {"quit", "overrun"}

(* The key reaches the children from the terminal, and the last one from the
   handler as well.  A seeded fault: it does not. *)
NotInterrupted == signals
Interrupted == Send(Pids, {SIGINT})

Interrupt ==
  /\ ~Over
  /\ signals' = Interrupted
  /\ IF LastRunning
     THEN proc_update_status(Last(PCBTableArr).pid, EXITED, SIGINT) /\ interrputed' = TRUE
     ELSE UNCHANGED <<PCBTableArr, interrputed>>
  /\ Mislead
  /\ UNCHANGED <<stopped, make_fg, pc, child, at, code, proc, ending>>

Suspend ==
  /\ ~Over
  /\ signals' = Send({p \in Pids : proc[p] = "running"}, {SIGTSTP})
  /\ IF LastRunning
     THEN proc_update_status(Last(PCBTableArr).pid, STOPPED, -1) /\ stopped' = TRUE
     ELSE UNCHANGED <<PCBTableArr, stopped>>
  /\ Mislead
  /\ UNCHANGED <<interrputed, make_fg, pc, child, at, code, proc, ending>>

-----------------------------------------------------------------------------
(* command_exec of a program that can be executed.  A flag that is still set
   from before would hide the end of this child. *)

Exec(p) ==
  /\ Prompt /\ proc[p] = "new"
  /\ proc' = [proc EXCEPT ![p] = "running"]
  /\ pc' = "forked" /\ child' = p
  /\ misled' = IF interrputed \/ stopped \/ make_fg THEN misled \cup {p} ELSE misled
  /\ UNCHANGED <<PCBTableArr, flags, at, code, ending, signals>>

(* fork returns -1, which is not 0: the shell goes on as for a child. *)
ForkFails ==
  /\ Prompt
  /\ pc' = "forked" /\ child' = NoPid
  /\ UNCHANGED <<PCBTableArr, flags, at, code, kernelVars, misled>>

create_PCBTable(inBackground) ==
  /\ pc = "forked"
  /\ Len(PCBTableArr) < MaxProcesses
  /\ PCBTableArr' = Append(PCBTableArr, [pid |-> child, status |-> RUNNING, exitCode |-> -1])
  /\ pc' = IF inBackground THEN "background" ELSE "foreground"
  /\ UNCHANGED <<flags, child, at, code, kernelVars, misled>>

(* With the table full, and no check of it, create_PCBTable writes into other
   variables.  What the shell does after that is not followed. *)
Overruns ==
  /\ pc = "forked"
  /\ Len(PCBTableArr) = MaxProcesses
  /\ pc' = "overrun"
  /\ UNCHANGED <<PCBTableArr, flags, child, at, code, kernelVars, misled>>

StartPoll(label) == pc' = label /\ at' = 1

(* The first waitpid of a background child: its result is dropped. *)
BackgroundWaits ==
  /\ pc = "background"
  /\ \/ \E p \in Targets({child}) :
          /\ proc[p] = "zombie"
          /\ proc' = [proc EXCEPT ![p] = "reaped"] /\ misled' = misled \cup {p}
     \/ (\A p \in Targets({child}) : proc[p] # "zombie") /\ UNCHANGED <<proc, misled>>
  /\ StartPoll("poll") /\ child' = NoPid
  /\ UNCHANGED <<PCBTableArr, flags, code, ending, signals>>

(* waitpid with WUNTRACED returns for an end or a stop; the handler can run
   before the flags are tested.  (A waitpid for any child may also find a stop
   that was found before, which the kernel reports once.) *)
ForegroundReturns ==
  /\ pc = "foreground"
  /\ \E p \in Targets({child}) :
       \/ Reap(child, p) /\ code' = WEXITSTATUS(ending[p])
       \/ proc[p] = "stopped" /\ code' = SIGTSTP /\ UNCHANGED <<proc, misled>>
  /\ pc' = "returned"
  /\ UNCHANGED <<PCBTableArr, flags, child, at, ending, signals>>

(* There is no child at all: the status is what was in its memory. *)
ForegroundFails ==
  /\ pc = "foreground" /\ Unreaped(child) = {}
  /\ code' \in Codes
  /\ pc' = "returned"
  /\ UNCHANGED <<PCBTableArr, flags, child, at, kernelVars, misled>>

ForegroundRecords ==
  /\ pc = "returned"
  /\ IF interrputed
     THEN interrputed' = FALSE /\ UNCHANGED <<stopped, make_fg, PCBTableArr>>
     ELSE IF stopped
     THEN stopped' = FALSE /\ UNCHANGED <<interrputed, make_fg, PCBTableArr>>
     ELSE IF make_fg
     THEN make_fg' = FALSE /\ UNCHANGED <<interrputed, stopped, PCBTableArr>>
     ELSE proc_update_status(child, EXITED, code) /\ UNCHANGED flags
  /\ StartPoll("poll") /\ child' = NoPid /\ code' = 0
  /\ UNCHANGED <<kernelVars, misled>>

-----------------------------------------------------------------------------
(* handle_background_child: for each entry that is not known to have ended, a
   waitpid and then the update; the handler can run between the two. *)

PolledCode(e) == IF e.by = "exit" THEN WEXITSTATUS(e) ELSE WTERMSIG(e)

Polling == pc \in {"poll", "lastPoll"}

IsPolled == PCBTableArr[at].status \in {RUNNING, TERMINATING}

PollFinds ==
  /\ Polling /\ at \in Entries /\ IsPolled
  /\ \E p \in Targets({PCBTableArr[at].pid}) :
       Reap(PCBTableArr[at].pid, p) /\ code' = PolledCode(ending[p])
  /\ pc' = IF pc = "poll" THEN "found" ELSE "lastFound"
  /\ UNCHANGED <<PCBTableArr, flags, child, at, ending, signals>>

(* A seeded fault: only a child that exited is recorded. *)
RecordedIfExited(pid) ==
  IF code \in Codes THEN proc_update_status(pid, EXITED, code) ELSE UNCHANGED PCBTableArr
Recorded(pid) == proc_update_status(pid, EXITED, code)

PollRecords ==
  /\ pc \in {"found", "lastFound"}
  /\ Recorded(PCBTableArr[at].pid)
  /\ pc' = IF pc = "found" THEN "poll" ELSE "lastPoll"
  /\ at' = at + 1 /\ code' = 0
  /\ UNCHANGED <<flags, child, kernelVars, misled>>

PollPasses ==
  /\ Polling /\ at \in Entries
  /\ IsPolled => \A p \in Targets({PCBTableArr[at].pid}) : proc[p] # "zombie"
  /\ at' = at + 1
  /\ UNCHANGED <<PCBTableArr, flags, pc, child, code, kernelVars, misled>>

PollEnds ==
  /\ Polling /\ at \notin Entries
  /\ pc' = IF pc = "poll" THEN "prompt" ELSE "killing"
  /\ at' = 0
  /\ UNCHANGED <<PCBTableArr, flags, child, code, kernelVars, misled>>

-----------------------------------------------------------------------------
(* The built-in commands.  What they update is decided by the status they
   read before, whatever the handler has made of it since. *)

Info ==
  /\ Prompt
  /\ StartPoll("poll")
  /\ UNCHANGED <<PCBTableArr, flags, child, code, kernelVars, misled>>

Wait(pid) ==
  /\ Prompt /\ Shown(pid, RUNNING)
  /\ pc' = "wait" /\ child' = pid
  /\ UNCHANGED <<PCBTableArr, flags, at, code, kernelVars, misled>>

WaitReturns ==
  /\ pc = "wait"
  /\ \E p \in Targets({child}) : Reap(child, p) /\ code' = WEXITSTATUS(ending[p])
  /\ pc' = "waited"
  /\ UNCHANGED <<PCBTableArr, flags, child, at, ending, signals>>

WaitRecords ==
  /\ pc = "waited"
  /\ proc_update_status(child, EXITED, code)
  /\ AtPrompt
  /\ UNCHANGED <<flags, at, kernelVars, misled>>

WaitFails ==
  /\ pc = "wait" /\ Unreaped(child) = {}
  /\ AtPrompt
  /\ UNCHANGED <<PCBTableArr, flags, at, kernelVars, misled>>

(* Among all processes there is always one that kill can signal. *)
Terminate(pid) ==
  /\ Prompt /\ Shown(pid, RUNNING)
  /\ signals' = Send(Targets({pid}), {SIGTERM})
  /\ code' = IF pid # NoPid /\ Unreaped(pid) = {} THEN -1 ELSE 0
  /\ pc' = "sent" /\ child' = pid
  /\ UNCHANGED <<PCBTableArr, flags, at, proc, ending, misled>>

TerminateRecords ==
  /\ pc = "sent"
  /\ proc_update_status(child, TERMINATING, code)
  /\ AtPrompt
  /\ UNCHANGED <<flags, at, kernelVars, misled>>

(* It does not wait for the child it resumes. *)
Fg(pid) ==
  /\ Prompt /\ Shown(pid, STOPPED)
  /\ proc' = Continued(Targets({pid}))
  /\ signals' = WithoutStop(Targets({pid}), signals)
  /\ pc' = "resumed" /\ child' = pid
  /\ UNCHANGED <<PCBTableArr, flags, at, code, ending, misled>>

FgRecords ==
  /\ pc = "resumed"
  /\ proc_update_status(child, RUNNING, -1)
  /\ make_fg' = TRUE
  /\ AtPrompt
  /\ UNCHANGED <<interrputed, stopped, at, kernelVars, misled>>

Quit ==
  /\ Prompt
  /\ StartPoll("lastPoll")
  /\ UNCHANGED <<PCBTableArr, flags, child, code, kernelVars, misled>>

ShownAs(statuses) == {PCBTableArr[i].pid : i \in {i \in Entries : PCBTableArr[i].status \in statuses}}

(* A seeded fault: a stopped process is not told. *)
OnlyRunning == {RUNNING}
StatusesToKill == {RUNNING, STOPPED}

(* my_quit: a stopped process is continued before it is terminated. *)
Kill ==
  /\ pc = "killing"
  /\ proc' = Continued(Targets(ShownAs({STOPPED})))
  /\ signals' =
       WithoutStop(Targets(ShownAs({STOPPED})), Send(Targets(ShownAs(StatusesToKill)), {SIGTERM}))
  /\ pc' = "quit"
  /\ UNCHANGED <<PCBTableArr, flags, child, at, code, ending, misled>>

ExecSteps ==
  \/ \E inBackground \in BOOLEAN : create_PCBTable(inBackground)
  \/ ForkFails \/ Overruns
  \/ BackgroundWaits \/ ForegroundReturns \/ ForegroundFails \/ ForegroundRecords

Next ==
  \/ \E p \in Pids :
       \/ ChildEnds(p) \/ ChildStops(p) \/ Exec(p)
  \/ \E pid \in Pids \cup {NoPid} :
       \/ Wait(pid) \/ Terminate(pid) \/ Fg(pid)
  \/ Interrupt \/ Suspend
  \/ ExecSteps
  \/ PollFinds \/ PollRecords \/ PollPasses \/ PollEnds
  \/ Info \/ WaitReturns \/ WaitRecords \/ WaitFails
  \/ TerminateRecords \/ FgRecords \/ Quit \/ Kill

Spec == Init /\ [][Next]_vars

-----------------------------------------------------------------------------

(* The child that is reaped and about to be recorded. *)
InHand ==
  CASE pc \in {"returned", "waited"} -> {child}
    [] pc \in {"found", "lastFound"} -> {PCBTableArr[at].pid}
    [] OTHER -> {}

EntriesOfChildren == {i \in Entries : PCBTableArr[i].pid \in Pids}

(***************************************************************************)
(* "Child process has finished, update PCBTable": what has been reaped is  *)
(* shown as exited, whenever the handler runs - unless a key or a flag     *)
(* that was left over has misled the shell about that child, or a waitpid  *)
(* for a fork that failed has reaped it.                                   *)
(***************************************************************************)
NoEndIsLost ==
  \A i \in EntriesOfChildren :
    LET p == PCBTableArr[i].pid
    IN proc[p] = "reaped" /\ p \notin misled \cup InHand => PCBTableArr[i].status = EXITED

(***************************************************************************)
(* A process that is shown as exited has ended, or its SIGINT is on its    *)
(* way: the handler never takes one that goes on for one that is over.     *)
(***************************************************************************)
ExitedIsOver ==
  \A i \in EntriesOfChildren :
    LET p == PCBTableArr[i].pid
    IN PCBTableArr[i].status = EXITED /\ Live(p) => SIGINT \in signals[p] \/ p \in misled

(***************************************************************************)
(* "Kill every process in the PCB that is either stopped or running": when *)
(* the shell has quit, every child that lives has a signal to end on its   *)
(* way - unless a key or a flag has misled the shell about it.             *)
(***************************************************************************)
QuitReachesAll ==
  pc = "quit" => \A p \in Pids \ misled : Live(p) => signals[p] \cap {SIGINT, SIGTERM} # {}
=============================================================================
