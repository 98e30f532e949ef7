-------------------------- MODULE BonusShellProofs --------------------------
(***************************************************************************)
(* Proofs about BonusShell.  Its safety properties rest on one inductive   *)
(* invariant, of which these are the parts:                                *)
(*                                                                         *)
(*   TableInv    each child that is not new has one entry (those of forks  *)
(*               that failed may be many), and a command that records      *)
(*               something has the entry it is about;                      *)
(*   HandInv     what a command that was interrupted knows still holds     *)
(*               when it goes on;                                          *)
(*   AwaitedInv  the flags tell what has become of the child in the        *)
(*               foreground;                                               *)
(*   SignalInv   what is shown as terminating has been told to.            *)
(***************************************************************************)
EXTENDS BonusShell, SequenceTheorems, WellFoundedInduction, TLAPS

PcLabels == {"prompt", "forked", "background", "foreground", "returned", "poll", "found", "lastPoll", "lastFound",
             "wait", "waited", "sent", "resumed", "killing", "quit", "overrun"}
AboutChild == {"forked", "background", "foreground", "returned", "wait", "waited", "sent", "resumed"}
ProcStates == {"new", "running", "stopped", "zombie", "reaped"}
Statuses == {EXITED, RUNNING, TERMINATING, STOPPED}
Rows == [pid : Pids \cup {NoPid}, status : Statuses, exitCode : Int]

TypeInv ==
  /\ PCBTableArr \in Seq(Rows)
  /\ interrputed \in BOOLEAN /\ stopped \in BOOLEAN /\ make_fg \in BOOLEAN
  /\ pc \in PcLabels
  /\ child \in Pids \cup {NoPid}
  /\ at \in Nat
  /\ code \in Int
  /\ proc \in [Pids -> ProcStates]
  /\ ending \in [Pids -> Endings \cup {Exit(0)}]
  /\ signals \in [Pids -> SUBSET {SIGINT, SIGTERM, SIGTSTP}]
  /\ misled \subseteq Pids

InTable(p) == \E i \in Entries : PCBTableArr[i].pid = p

(* The entries of the table, and the one a command is about. *)
TableInv ==
  /\ \A i, j \in Entries : PCBTableArr[i].pid \in Pids /\ PCBTableArr[i].pid = PCBTableArr[j].pid => i = j
  /\ \A p \in Pids : InTable(p) <=> proc[p] # "new" /\ ~ (pc \in {"forked", "overrun"} /\ child = p)
  /\ pc \in AboutChild /\ child \in Pids => proc[child] # "new"
  /\ pc \in AboutChild \ {"forked"} => InTable(child)
  /\ pc \in {"foreground", "returned"} /\ child \in Pids =>
       \A i \in Entries : PCBTableArr[i].pid = child => i = Len(PCBTableArr)
  /\ pc \in {"found", "lastFound"} => at \in Entries

(* What a command knows of the child it is about to record. *)
HandInv ==
  /\ pc \in {"found", "lastFound"} /\ PCBTableArr[at].pid \in Pids => proc[PCBTableArr[at].pid] = "reaped"
  /\ child \in Pids =>
       /\ pc = "waited" => proc[child] = "reaped"
       /\ pc \in {"sent", "resumed"} => proc[child] # "reaped" \/ child \in misled
       /\ pc = "sent" /\ Live(child) => SIGTERM \in signals[child]

(* What the keys can have done to the child in the foreground. *)
Untouched(status) == ~interrputed /\ ~stopped /\ status = RUNNING
Hit(status) == interrputed /\ ~stopped /\ status = EXITED
Held(status) == ~interrputed /\ stopped /\ status = STOPPED

Awaited(status) ==
  \/ Untouched(status) /\ ((proc[child] = "running" /\ signals[child] = {}) \/ proc[child] = "zombie")
  \/ Hit(status) /\ ((proc[child] = "running" /\ signals[child] = {SIGINT}) \/ proc[child] = "zombie")
  \/ Held(status) /\ ((proc[child] = "running" /\ signals[child] = {SIGTSTP}) \/ proc[child] = "stopped")

Returned(status) ==
  \/ (Untouched(status) \/ Hit(status)) /\ proc[child] = "reaped"
  \/ Held(status) /\ proc[child] = "stopped"

AwaitedInv ==
  child \in Pids \ misled =>
    /\ pc = "forked" =>
         /\ ~interrputed /\ ~stopped /\ ~make_fg
         /\ (proc[child] = "running" /\ signals[child] = {}) \/ proc[child] = "zombie"
    /\ pc \in {"foreground", "returned"} => ~make_fg
    /\ \A i \in Entries : PCBTableArr[i].pid = child =>
         /\ pc = "foreground" => Awaited(PCBTableArr[i].status)
         /\ pc = "returned" => Returned(PCBTableArr[i].status)

(* What is shown as terminating has been told to; what is new has been told nothing. *)
SignalInv ==
  /\ \A p \in Pids : proc[p] = "new" => signals[p] = {}
  /\ \A i \in EntriesOfChildren :
       LET p == PCBTableArr[i].pid
       IN PCBTableArr[i].status = TERMINATING /\ Live(p) => SIGTERM \in signals[p]

Inv == TypeInv /\ TableInv /\ HandInv /\ AwaitedInv /\ SignalInv /\ NoEndIsLost /\ ExitedIsOver /\ QuitReachesAll

-----------------------------------------------------------------------------
(* The table *)

LEMMA RowFacts ==
  ASSUME TypeInv, NEW i \in Entries
  PROVE  /\ PCBTableArr[i] \in Rows
         /\ PCBTableArr[i].pid \in Pids \cup {NoPid}
         /\ PCBTableArr[i].status \in Statuses
<1>1. PCBTableArr[i] \in Rows
  <2> DEFINE table == PCBTableArr  R == Rows
  <2>1. table \in Seq(R) /\ i \in 1 .. Len(table)
    BY DEF TypeInv, Entries
  <2> HIDE DEF table, R
  <2>2. table[i] \in R
    BY <2>1
  <2> QED BY <2>2 DEF table, R
<1> QED BY <1>1 DEF Rows

LEMMA LeastNat ==
  ASSUME NEW T, T \subseteq Nat, T # {}
  PROVE  \E x \in T : \A y \in T : x <= y
<1>1. \A R : IsWellFoundedOn(R, Nat) => \E x \in T : \A y \in T : ~ (<<y, x>> \in R)
  BY WFMin
<1>2. IsWellFoundedOn({xy \in Nat \X Nat : xy[1] < xy[2]}, Nat)
  BY NatLessThanWellFounded DEF OpToRel
<1>3. PICK x \in T : \A y \in T : ~ (<<y, x>> \in {xy \in Nat \X Nat : xy[1] < xy[2]})
  BY <1>1, <1>2
<1>4. ASSUME NEW y \in T, y < x PROVE FALSE
  <2>1. <<y, x>> \in Nat \X Nat
    OBVIOUS
  <2>2. <<y, x>>[1] = y /\ <<y, x>>[2] = x
    OBVIOUS
  <2>3. <<y, x>> \in {xy \in Nat \X Nat : xy[1] < xy[2]}
    BY <1>4, <2>1, <2>2
  <2> QED BY <1>3, <2>3
<1>5. \A y \in T : x <= y
  BY <1>4
<1> QED BY <1>5

LEMMA EntryFacts ==
  ASSUME TypeInv, TableInv, NEW p
  PROVE  /\ EntryOf(p) = 0 => ~InTable(p)
         /\ EntryOf(p) # 0 => EntryOf(p) \in Entries /\ PCBTableArr[EntryOf(p)].pid = p
         /\ p \in Pids => \A i \in Entries : PCBTableArr[i].pid = p => EntryOf(p) = i
<1> DEFINE I == {i \in Entries : PCBTableArr[i].pid = p}
<1>1. EntryOf(p) = IF I # {} THEN Min(I) ELSE 0
  BY DEF EntryOf, SelectInSeq, Entries
<1>2. Len(PCBTableArr) \in Nat /\ I \subseteq Nat /\ 0 \notin I
  BY LenProperties DEF TypeInv, Entries
<1>3. InTable(p) <=> I # {}
  BY DEF InTable
<1> HIDE DEF I
<1>4. I # {} => Min(I) \in I
  BY <1>2, LeastNat DEF Min
<1>5. EntryOf(p) # 0 => EntryOf(p) \in I
  BY <1>1, <1>4
<1>6. EntryOf(p) = 0 => I = {}
  BY <1>1, <1>2, <1>4
<1>7. p \in Pids => \A i \in I : EntryOf(p) = i
  <2> SUFFICES ASSUME p \in Pids, NEW i \in I PROVE EntryOf(p) = i
    OBVIOUS
  <2>1. EntryOf(p) \in I
    BY <1>5, <1>6
  <2> QED BY <2>1 DEF TableInv, I
<1> QED BY <1>3, <1>5, <1>6, <1>7 DEF I

(* proc_update_status writes the entry of the process. *)
LEMMA UpdateFacts ==
  ASSUME TypeInv, TableInv, NEW q, InTable(q), NEW status \in Statuses, NEW n \in Int,
         proc_update_status(q, status, n)
  PROVE  /\ EntryOf(q) \in Entries /\ PCBTableArr[EntryOf(q)].pid = q
         /\ PCBTableArr' \in Seq(Rows) /\ Len(PCBTableArr') = Len(PCBTableArr) /\ Entries' = Entries
         /\ \A i \in Entries : /\ PCBTableArr'[i].pid = PCBTableArr[i].pid
                               /\ PCBTableArr'[i].status = IF i = EntryOf(q) THEN status ELSE PCBTableArr[i].status
         /\ EntriesOfChildren' = EntriesOfChildren
         /\ \A p : InTable(p)' <=> InTable(p)
<1> DEFINE table == PCBTableArr'
           e == EntryOf(q)
           row == [PCBTableArr[e] EXCEPT !.status = status, !.exitCode = n]
<1>1. e \in Entries /\ PCBTableArr[e].pid = q
  BY EntryFacts
<1>2. PCBTableArr \in Seq(Rows) /\ Len(PCBTableArr) \in Nat
      /\ PCBTableArr \in [Entries -> Rows] /\ DOMAIN PCBTableArr = Entries
  BY LenProperties DEF TypeInv, Entries
<1>3. table = [[PCBTableArr EXCEPT ![e].status = status] EXCEPT ![e].exitCode = n]
  BY DEF proc_update_status
<1> HIDE DEF e
<1>4. PCBTableArr[e] \in Rows
  BY <1>1, <1>2
<1>5. row \in Rows /\ row.pid = PCBTableArr[e].pid /\ row.status = status
  BY <1>4 DEF Rows
<1>6. table = [PCBTableArr EXCEPT ![e] = row]
  BY <1>1, <1>2, <1>3
<1> HIDE DEF table, row
<1>7. table \in [Entries -> Rows]
  BY <1>1, <1>2, <1>5, <1>6
<1>8. table \in Seq(Rows) /\ Len(table) = Len(PCBTableArr)
  BY <1>2, <1>7, SeqDef, LenProperties DEF Entries
<1>9. \A i \in Entries : table[i] = IF i = e THEN row ELSE PCBTableArr[i]
  BY <1>2, <1>6
<1>10. Entries' = Entries
  BY <1>8 DEF Entries, table
<1>11. \A i \in Entries : /\ PCBTableArr'[i].pid = PCBTableArr[i].pid
                          /\ PCBTableArr'[i].status = IF i = e THEN status ELSE PCBTableArr[i].status
  BY <1>5, <1>9 DEF table
<1>12. (\A p : InTable(p)' <=> InTable(p)) /\ EntriesOfChildren' = EntriesOfChildren
  BY <1>10, <1>11 DEF InTable, EntriesOfChildren
<1> QED BY <1>1, <1>8, <1>10, <1>11, <1>12 DEF table, e

-----------------------------------------------------------------------------
(* The steps *)

LEMMA InitInv == Init => Inv
<1> SUFFICES ASSUME Init PROVE Inv
  OBVIOUS
<1>1. PCBTableArr = <<>> /\ Len(PCBTableArr) = 0 /\ Entries = {}
  BY DEF Init, Entries
<1>2. TypeInv
  <2>1. PCBTableArr \in Seq(Rows)
    <3>1. <<>> \in Seq(Rows)
      BY EmptySeq
    <3> QED BY <1>1, <3>1
  <2>2. /\ proc \in [Pids -> ProcStates] /\ ending \in [Pids -> Endings \cup {Exit(0)}]
        /\ signals \in [Pids -> SUBSET {SIGINT, SIGTERM, SIGTSTP}]
    BY DEF Init, ProcStates
  <2>3. /\ pc = "prompt" /\ child = NoPid /\ at = 0 /\ code = 0 /\ misled = {}
    BY DEF Init
  <2>4. interrputed \in BOOLEAN /\ stopped \in BOOLEAN /\ make_fg \in BOOLEAN
    BY DEF Init
  <2> QED BY <2>1, <2>2, <2>3, <2>4 DEF TypeInv, PcLabels, AboutChild
<1>3. TableInv /\ HandInv
  BY <1>1 DEF Init, TableInv, HandInv, InTable, AboutChild
<1>4. AwaitedInv /\ SignalInv
  BY <1>1 DEF Init, AwaitedInv, SignalInv, EntriesOfChildren
<1>5. NoEndIsLost /\ ExitedIsOver /\ QuitReachesAll
  BY <1>1 DEF Init, NoEndIsLost, ExitedIsOver, QuitReachesAll, EntriesOfChildren
<1> QED BY <1>2, <1>3, <1>4, <1>5 DEF Inv

(* A child ends or stops. *)
LEMMA KernelStep ==
  ASSUME Inv, NEW c \in Pids, ChildEnds(c) \/ ChildStops(c)
  PROVE  Inv'
<1> USE DEF Inv
<1>1. UNCHANGED <<PCBTableArr, interrputed, stopped, make_fg, pc, child, at, code, misled>>
  BY DEF ChildEnds, ChildStops, flags
<1>2. /\ proc[c] = "running"
      /\ proc' \in [Pids -> ProcStates] /\ signals' \in [Pids -> SUBSET {SIGINT, SIGTERM, SIGTSTP}]
      /\ ending' \in [Pids -> Endings \cup {Exit(0)}]
      /\ \A p \in Pids : p # c => proc'[p] = proc[p] /\ signals'[p] = signals[p]
      /\ \/ proc'[c] = "zombie"
         \/ proc'[c] = "stopped" /\ SIGTSTP \in signals[c] /\ signals'[c] = signals[c] \ {SIGTSTP}
      /\ signals[c] = {} => proc'[c] = "zombie"
  <2>1. CASE ChildEnds(c)
    BY <2>1 DEF ChildEnds, TypeInv, ProcStates
  <2>2. CASE ChildStops(c)
    BY <2>2 DEF ChildStops, TypeInv, ProcStates
  <2> QED BY <2>1, <2>2
<1>3. signals[c] = {SIGTSTP} => proc'[c] = "stopped"
  <2>1. ASSUME ChildEnds(c), signals[c] = {SIGTSTP} PROVE FALSE
    <3>1. PICK e \in Endings : MayEnd(c, e)
      BY <2>1 DEF ChildEnds
    <3>2. e.by = "exit" \/ e.n \in {SIGINT, SIGTERM}
      BY DEF Endings, Exit, Signal
    <3> QED BY <2>1, <3>1, <3>2 DEF MayEnd, SIGINT, SIGTERM, SIGTSTP
  <2> QED BY <1>2, <2>1 DEF ChildStops, TypeInv
<1>4. signals[c] = {SIGINT} => proc'[c] = "zombie"
  BY <1>2 DEF SIGINT, SIGTSTP
<1>5. Entries' = Entries /\ InHand' = InHand /\ \A q : InTable(q)' <=> InTable(q)
  BY <1>1 DEF Entries, InTable, InHand
<1>6. TypeInv'
  BY <1>1, <1>2 DEF TypeInv
<1>7. \A p \in Pids : /\ proc'[p] = "reaped" <=> proc[p] = "reaped"
                      /\ proc'[p] = "new" <=> proc[p] = "new"
                      /\ Live(p)' => Live(p)
                      /\ Live(p)' => signals[p] \ {SIGTSTP} \subseteq signals'[p]
  BY <1>2 DEF Live
<1>8. \A i \in EntriesOfChildren : i \in Entries /\ PCBTableArr[i].pid \in Pids
  BY DEF EntriesOfChildren
<1>9. TableInv'
  BY <1>1, <1>5, <1>7, <1>8 DEF TableInv, TypeInv, AboutChild
<1>10. SIGINT # SIGTSTP /\ SIGTERM # SIGTSTP
  BY DEF SIGINT, SIGTERM, SIGTSTP
<1>11. HandInv'
  BY <1>1, <1>7, <1>8, <1>10 DEF HandInv, TypeInv, AboutChild, TableInv
<1>12. AwaitedInv'
  <2> SUFFICES ASSUME child' \in Pids \ misled', pc' \in {"forked", "foreground", "returned"}
               PROVE  AwaitedInv'
    BY DEF AwaitedInv
  <2>1. child' = child /\ child \in Pids /\ child \notin misled /\ pc' = pc
    BY <1>1
  <2>2. CASE child # c
    <3>1. proc'[child] = proc[child] /\ signals'[child] = signals[child]
      BY <1>2, <2>1, <2>2
    <3> QED BY <1>1, <1>5, <2>1, <3>1 DEF AwaitedInv, Awaited, Returned, Untouched, Hit, Held
  <2>3. CASE child = c /\ pc = "forked"
    <3>1. ~interrputed /\ ~stopped /\ ~make_fg /\ signals[c] = {}
      BY <1>2, <2>1, <2>3 DEF AwaitedInv
    <3> QED BY <1>1, <1>2, <2>1, <2>3, <3>1 DEF AwaitedInv
  <2>4. CASE child = c /\ pc = "foreground"
    <3>1. ASSUME NEW i \in Entries, PCBTableArr[i].pid = child
          PROVE  Awaited(PCBTableArr[i].status)'
      <4>1. Awaited(PCBTableArr[i].status)
        BY <2>1, <2>4, <3>1 DEF AwaitedInv
      <4> QED BY <1>1, <1>2, <1>3, <1>4, <2>4, <4>1 DEF Awaited, Untouched, Hit, Held
    <3> QED BY <1>1, <1>5, <2>1, <2>4, <3>1 DEF AwaitedInv
  <2>5. CASE child = c /\ pc = "returned"
    <3>1. ~ \E i \in Entries : PCBTableArr[i].pid = child
      BY <1>2, <2>1, <2>5 DEF AwaitedInv, Returned
    <3> QED BY <1>1, <1>5, <2>1, <2>5, <3>1 DEF AwaitedInv
  <2> QED BY <2>1, <2>2, <2>3, <2>4, <2>5
<1>13. SignalInv'
  <2>1. \A p \in Pids : proc'[p] = "new" => signals'[p] = {}
    BY <1>2 DEF SignalInv, EntriesOfChildren
  <2>2. ASSUME NEW i \in EntriesOfChildren, PCBTableArr[i].status = TERMINATING, proc'[PCBTableArr[i].pid] \in {"running", "stopped"}
        PROVE  SIGTERM \in signals'[PCBTableArr[i].pid]
    <3> DEFINE p == PCBTableArr[i].pid
    <3>1. p \in Pids /\ Live(p) /\ signals[p] \ {SIGTSTP} \subseteq signals'[p]
      BY <1>7, <1>8, <2>2 DEF Live
    <3>2. SIGTERM \in signals[p]
      BY <2>2, <3>1 DEF SignalInv, EntriesOfChildren
    <3> QED BY <1>10, <3>1, <3>2
  <2> QED BY <1>1, <1>5, <2>1, <2>2 DEF SignalInv, Live, EntriesOfChildren
<1>14. NoEndIsLost' /\ ExitedIsOver'
  BY <1>1, <1>5, <1>7, <1>8, <1>10 DEF NoEndIsLost, ExitedIsOver, EntriesOfChildren
<1>15. QuitReachesAll'
  BY <1>1, <1>7, <1>10 DEF QuitReachesAll
<1> QED BY <1>6, <1>9, <1>11, <1>12, <1>13, <1>14, <1>15

(* A step that only moves the shell on, with nothing in hand. *)
LEMMA MoveStep ==
  ASSUME Inv, (\E p \in Pids \cup {NoPid} : Wait(p)) \/ PollPasses \/ PollEnds \/ Info \/ WaitFails \/ Quit
  PROVE  Inv'
<1> USE DEF Inv
<1>1. /\ UNCHANGED <<PCBTableArr, interrputed, stopped, make_fg, proc, ending, signals, misled>>
      /\ pc \in {"prompt", "wait", "poll", "lastPoll"} /\ pc' \in {"prompt", "wait", "poll", "lastPoll", "killing"}
  BY DEF Wait, PollPasses, PollEnds, Info, WaitFails, Quit, Prompt, AtPrompt, StartPoll, Polling, flags, kernelVars
<1>2. /\ child' \in Pids \cup {NoPid} /\ code' \in Int /\ at' \in Nat
      /\ pc' = "wait" => InTable(child')
  <2> child \in Pids \cup {NoPid} /\ code \in Int /\ at \in Nat
    BY DEF TypeInv
  <2>1. CASE \E p \in Pids \cup {NoPid} : Wait(p)
    <3>1. PICK p \in Pids \cup {NoPid} : Wait(p)
      BY <2>1
    <3>2. InTable(p)
      BY <3>1, EntryFacts DEF Wait, Shown, InTable
    <3> QED BY <3>1, <3>2 DEF Wait
  <2>2. CASE PollPasses \/ PollEnds
    <3>1. child' = child /\ code' = code /\ pc' # "wait"
      BY <2>2 DEF PollPasses, PollEnds, Polling
    <3>2. at' = at + 1 \/ at' = 0
      BY <2>2 DEF PollPasses, PollEnds
    <3> QED BY <3>1, <3>2
  <2>3. CASE Info \/ Quit
    <3>1. child' = child /\ code' = code /\ pc' # "wait" /\ at' = 1
      BY <2>3 DEF Info, Quit, StartPoll
    <3> QED BY <3>1
  <2>4. CASE WaitFails
    BY <2>4 DEF WaitFails, AtPrompt
  <2> QED BY <2>1, <2>2, <2>3, <2>4
<1>3. Entries' = Entries /\ \A q : InTable(q)' <=> InTable(q)
  BY <1>1 DEF Entries, InTable
<1>4. InHand = {} /\ InHand' = {}
  BY <1>1 DEF InHand
<1>5. TypeInv'
  <2>1. /\ PCBTableArr' \in Seq(Rows) /\ pc' \in PcLabels
        /\ proc' \in [Pids -> ProcStates] /\ ending' \in [Pids -> Endings \cup {Exit(0)}]
        /\ signals' \in [Pids -> SUBSET {SIGINT, SIGTERM, SIGTSTP}] /\ misled' \subseteq Pids
    BY <1>1, <1>2 DEF TypeInv, PcLabels, AboutChild
  <2>2. interrputed' \in BOOLEAN /\ stopped' \in BOOLEAN /\ make_fg' \in BOOLEAN
    BY <1>1 DEF TypeInv
  <2> QED BY <1>2, <2>1, <2>2 DEF TypeInv
<1>6. TableInv'
  BY <1>1, <1>2, <1>3 DEF TableInv, AboutChild
<1>7. HandInv' /\ AwaitedInv' /\ QuitReachesAll'
  BY <1>1 DEF HandInv, AwaitedInv, QuitReachesAll
<1>8. SignalInv' /\ ExitedIsOver'
  BY <1>1, <1>3 DEF SignalInv, ExitedIsOver, Live, EntriesOfChildren
<1>9. NoEndIsLost'
  BY <1>1, <1>3, <1>4 DEF NoEndIsLost, EntriesOfChildren
<1> QED BY <1>5, <1>6, <1>7, <1>8, <1>9

(* waitpid reaps a child, which is then in hand unless the shell drops its end. *)
LEMMA ReapStep ==
  ASSUME Inv, BackgroundWaits \/ ForegroundReturns \/ ForegroundFails \/ PollFinds \/ WaitReturns
  PROVE  Inv'
<1> USE DEF Inv
<1>1. /\ UNCHANGED <<PCBTableArr, interrputed, stopped, make_fg, ending, signals>>
      /\ pc \in {"background", "foreground", "poll", "lastPoll", "wait"}
      /\ \/ pc' = "poll" /\ BackgroundWaits
         \/ pc = "foreground" /\ pc' = "returned" /\ child' = child /\ (ForegroundReturns \/ ForegroundFails)
         \/ pc' \in {"found", "lastFound"} /\ child' = child /\ at' = at /\ PollFinds
         \/ pc = "wait" /\ pc' = "waited" /\ child' = child /\ WaitReturns
  BY DEF BackgroundWaits, ForegroundReturns, ForegroundFails, PollFinds, WaitReturns, StartPoll, Polling, flags, kernelVars
<1>2. Entries' = Entries /\ \A q : InTable(q)' <=> InTable(q)
  BY <1>1 DEF Entries, InTable
<1>3. InHand = {}
  BY <1>1 DEF InHand
<1>4. /\ pc' = "poll" => InHand' = {}
      /\ pc' \in {"returned", "waited"} => InHand' = {child'}
      /\ pc' \in {"found", "lastFound"} => InHand' = {PCBTableArr[at].pid} /\ at' = at
  BY <1>1 DEF InHand, PollFinds
<1>5. /\ proc' \in [Pids -> ProcStates] /\ misled \subseteq misled' /\ misled' \subseteq Pids
      /\ \A p \in Pids : proc'[p] # proc[p] =>
           proc[p] = "zombie" /\ proc'[p] = "reaped" /\ p \in misled' \cup InHand'
  <2>1. ASSUME NEW pid, NEW p \in Targets({pid}), pid \in Pids \cup {NoPid}, Reap(pid, p), InHand' = {pid}
        PROVE  /\ proc' \in [Pids -> ProcStates] /\ misled \subseteq misled' /\ misled' \subseteq Pids
               /\ \A c \in Pids : proc'[c] # proc[c] =>
                    proc[c] = "zombie" /\ proc'[c] = "reaped" /\ c \in misled' \cup InHand'
    <3>1. p \in Pids
      BY <2>1 DEF Targets
    <3> QED BY <2>1, <3>1 DEF Reap, TypeInv, ProcStates
  <2>2. CASE BackgroundWaits
    <3>1. \A p \in Targets({child}) : p \in Pids
      BY DEF Targets, TypeInv
    <3>2. misled \subseteq Pids
      BY DEF TypeInv
    <3> QED BY <2>2, <3>1, <3>2 DEF BackgroundWaits, TypeInv, ProcStates
  <2>3. CASE ForegroundReturns
    <3>1. InHand' = {child} /\ child \in Pids \cup {NoPid}
      BY <1>1, <1>4, <2>3 DEF ForegroundReturns, TypeInv
    <3>2. CASE \E p \in Targets({child}) : Reap(child, p)
      BY <2>1, <3>1, <3>2
    <3>3. CASE proc' = proc /\ misled' = misled
      BY <3>3 DEF TypeInv
    <3> QED BY <2>3, <3>2, <3>3 DEF ForegroundReturns
  <2>4. CASE ForegroundFails
    BY <2>4 DEF ForegroundFails, kernelVars, TypeInv
  <2>5. CASE PollFinds
    <3>1. InHand' = {PCBTableArr[at].pid} /\ PCBTableArr[at].pid \in Pids \cup {NoPid}
      BY <1>4, <2>5, RowFacts DEF PollFinds
    <3> QED BY <2>1, <2>5, <3>1 DEF PollFinds
  <2>6. CASE WaitReturns
    <3>1. InHand' = {child} /\ child \in Pids \cup {NoPid}
      BY <1>1, <1>4, <2>6 DEF WaitReturns, TypeInv
    <3> QED BY <2>1, <2>6, <3>1 DEF WaitReturns
  <2> QED BY <2>2, <2>3, <2>4, <2>5, <2>6
<1>6. /\ at' \in Nat
      /\ child' \in Pids \cup {NoPid}
      /\ pc' \in AboutChild => child' = child /\ pc \in AboutChild \ {"forked"}
      /\ pc' \in {"found", "lastFound"} => at' \in Entries
      /\ pc' \in {"found", "lastFound"} /\ PCBTableArr[at'].pid \in Pids => proc'[PCBTableArr[at'].pid] = "reaped"
      /\ pc' = "waited" /\ child' \in Pids => proc'[child'] = "reaped"
  <2>1. ASSUME NEW c \in Pids, NEW p \in Targets({c}), Reap(c, p) PROVE proc'[c] = "reaped"
    BY <2>1, BonusShellAssumption DEF Targets, Reap, TypeInv
  <2>2. child \in Pids \cup {NoPid} /\ at \in Nat
    BY DEF TypeInv
  <2>3. CASE BackgroundWaits
    BY <2>3 DEF BackgroundWaits, StartPoll, AboutChild
  <2>4. CASE ForegroundReturns \/ ForegroundFails
    BY <2>2, <2>4 DEF ForegroundReturns, ForegroundFails, AboutChild
  <2>5. CASE PollFinds
    BY <2>1, <2>2, <2>5 DEF PollFinds, AboutChild
  <2>6. CASE WaitReturns
    BY <2>1, <2>2, <2>6 DEF WaitReturns, AboutChild
  <2> QED BY <2>3, <2>4, <2>5, <2>6
<1>7. code' \in Int
  <2>1. \A m \in Nat : WEXITSTATUS(Exit(m)) \in Int /\ PolledCode(Exit(m)) \in Int
    BY DEF WEXITSTATUS, PolledCode, Exit
  <2>2. \A m \in Int : WEXITSTATUS(Signal(m)) \in Int /\ PolledCode(Signal(m)) \in Int
    BY DEF WEXITSTATUS, WTERMSIG, PolledCode, Signal
  <2>3. SIGINT \in Int /\ SIGTERM \in Int /\ SIGTSTP \in Int
    BY DEF SIGINT, SIGTERM, SIGTSTP
  <2>4. \A p \in Pids : WEXITSTATUS(ending[p]) \in Int /\ PolledCode(ending[p]) \in Int
    BY <2>1, <2>2, <2>3, BonusShellAssumption DEF TypeInv, Endings
  <2>5. \A pid \in Pids \cup {NoPid} : Targets({pid}) \subseteq Pids
    BY DEF Targets
  <2>6. code \in Int /\ child \in Pids \cup {NoPid}
    BY DEF TypeInv
  <2>7. CASE BackgroundWaits
    BY <2>6, <2>7 DEF BackgroundWaits
  <2>8. CASE ForegroundReturns
    BY <2>3, <2>4, <2>5, <2>6, <2>8 DEF ForegroundReturns
  <2>9. CASE ForegroundFails
    BY <2>9, BonusShellAssumption DEF ForegroundFails
  <2>10. CASE PollFinds
    <3>1. PCBTableArr[at].pid \in Pids \cup {NoPid}
      BY <2>10, RowFacts DEF PollFinds
    <3> QED BY <2>4, <2>5, <2>10, <3>1 DEF PollFinds
  <2>11. CASE WaitReturns
    BY <2>4, <2>5, <2>6, <2>11 DEF WaitReturns
  <2> QED BY <2>7, <2>8, <2>9, <2>10, <2>11
<1>8. TypeInv'
  <2>1. /\ PCBTableArr' \in Seq(Rows) /\ pc' \in PcLabels
        /\ child' \in Pids \cup {NoPid}
        /\ ending' \in [Pids -> Endings \cup {Exit(0)}]
        /\ signals' \in [Pids -> SUBSET {SIGINT, SIGTERM, SIGTSTP}] /\ misled' \subseteq Pids
    BY <1>1, <1>5, <1>6 DEF TypeInv, PcLabels
  <2>2. interrputed' \in BOOLEAN /\ stopped' \in BOOLEAN /\ make_fg' \in BOOLEAN
    BY <1>1 DEF TypeInv
  <2> QED BY <1>5, <1>6, <1>7, <2>1, <2>2 DEF TypeInv
<1>9. \A i \in EntriesOfChildren : i \in Entries /\ PCBTableArr[i].pid \in Pids
  BY DEF EntriesOfChildren
<1>10. \A p \in Pids : /\ proc'[p] = "new" <=> proc[p] = "new"
                       /\ Live(p)' => Live(p)
  BY <1>5 DEF Live
<1>11. TableInv'
  BY <1>1, <1>2, <1>6, <1>10 DEF TableInv, AboutChild
<1>12. HandInv'
  BY <1>1, <1>6 DEF HandInv
<1>13. AwaitedInv'
  <2> SUFFICES ASSUME child' \in Pids \ misled', pc' = "returned"
               PROVE  AwaitedInv'
    BY <1>1 DEF AwaitedInv
  <2>1. pc = "foreground" /\ child' = child /\ child \in Pids /\ child \notin misled
    BY <1>1, <1>5, <1>6
  <2>2. ForegroundReturns /\ Targets({child}) = {child}
    <3>1. Targets({child}) = {child}
      BY <2>1, BonusShellAssumption DEF Targets
    <3>2. proc[child] \notin {"new", "reaped"}
      <4>1. PICK i \in Entries : PCBTableArr[i].pid = child
        BY <2>1 DEF TableInv, AboutChild, InTable
      <4>2. Awaited(PCBTableArr[i].status)
        BY <2>1, <4>1 DEF AwaitedInv
      <4> QED BY <4>2 DEF Awaited
    <3>3. ~ForegroundFails
      BY <3>1, <3>2 DEF ForegroundFails, Unreaped
    <3> QED BY <1>1, <3>1, <3>3
  <2>3. \/ proc[child] = "zombie" /\ proc'[child] = "reaped"
        \/ proc[child] = "stopped" /\ proc'[child] = "stopped"
    BY <2>1, <2>2 DEF ForegroundReturns, Reap, TypeInv
  <2>4. ASSUME NEW i \in Entries, PCBTableArr[i].pid = child
        PROVE  Returned(PCBTableArr[i].status)'
    <3>1. Awaited(PCBTableArr[i].status)
      BY <2>1, <2>4 DEF AwaitedInv
    <3> QED BY <1>1, <2>1, <2>3, <3>1 DEF Awaited, Returned, Untouched, Hit, Held
  <2>5. ~make_fg
    BY <2>1 DEF AwaitedInv
  <2> QED BY <1>1, <1>2, <2>1, <2>4, <2>5 DEF AwaitedInv
<1>14. SignalInv' /\ ExitedIsOver'
  BY <1>1, <1>2, <1>5, <1>9, <1>10 DEF SignalInv, ExitedIsOver, EntriesOfChildren
<1>15. NoEndIsLost'
  BY <1>1, <1>2, <1>3, <1>5, <1>9 DEF NoEndIsLost, EntriesOfChildren
<1>16. QuitReachesAll'
  BY <1>1 DEF QuitReachesAll
<1> QED BY <1>8, <1>11, <1>12, <1>13, <1>14, <1>15, <1>16

(* A command records what it knows of the process of entry e, whatever the keys have done since. *)
LEMMA RecordKeeps ==
  ASSUME Inv, NEW q \in Pids \cup {NoPid}, InTable(q), NEW status \in Statuses, NEW n \in Int,
         proc_update_status(q, status, n),
         UNCHANGED <<interrputed, stopped, proc, ending, signals, misled>>, make_fg' \in BOOLEAN,
         pc \notin {"forked", "overrun"}, InHand \subseteq {q},
         pc' \in {"prompt", "poll", "lastPoll"}, child' \in Pids \cup {NoPid}, at' \in Nat, code' \in Int,
         q \in Pids =>
           /\ status = EXITED => ~Live(q) \/ q \in misled
           /\ status # EXITED => proc[q] # "reaped" \/ q \in misled
           /\ status = TERMINATING /\ Live(q) => SIGTERM \in signals[q]
  PROVE  Inv'
<1> DEFINE e == EntryOf(q)
<1>0. TypeInv /\ TableInv
  BY DEF Inv
<1>1. /\ PCBTableArr' \in Seq(Rows) /\ Len(PCBTableArr') = Len(PCBTableArr) /\ Entries' = Entries
      /\ \A i \in Entries : /\ PCBTableArr'[i].pid = PCBTableArr[i].pid
                            /\ PCBTableArr'[i].status = IF i = e THEN status ELSE PCBTableArr[i].status
      /\ \A p : InTable(p)' <=> InTable(p)
      /\ e \in Entries /\ PCBTableArr[e].pid = q /\ EntriesOfChildren' = EntriesOfChildren
  BY <1>0, UpdateFacts
<1> HIDE DEF e
<1> USE DEF Inv
<1>2. \A i \in EntriesOfChildren : i \in Entries /\ PCBTableArr[i].pid \in Pids
  BY DEF EntriesOfChildren
<1>3. InHand' = {}
  BY DEF InHand
<1>4. TypeInv'
  <2>1. /\ PCBTableArr' \in Seq(Rows) /\ pc' \in PcLabels /\ pc' \notin AboutChild
        /\ proc' \in [Pids -> ProcStates] /\ ending' \in [Pids -> Endings \cup {Exit(0)}]
        /\ signals' \in [Pids -> SUBSET {SIGINT, SIGTERM, SIGTSTP}] /\ misled' \subseteq Pids
    BY <1>1 DEF TypeInv, PcLabels, AboutChild
  <2>2. interrputed' \in BOOLEAN /\ stopped' \in BOOLEAN
    BY DEF TypeInv
  <2> QED BY <2>1, <2>2 DEF TypeInv
<1>5. TableInv'
  <2>1. \A i, j \in Entries : PCBTableArr'[i].pid \in Pids /\ PCBTableArr'[i].pid = PCBTableArr'[j].pid => i = j
    BY <1>1 DEF TableInv
  <2>2. \A p \in Pids : InTable(p)' <=> proc'[p] # "new"
    BY <1>1 DEF TableInv
  <2>3. pc' \notin AboutChild /\ pc' \notin {"forked", "foreground", "returned", "found", "lastFound", "overrun"}
    BY DEF AboutChild
  <2> QED BY <1>1, <2>1, <2>2, <2>3 DEF TableInv
<1>6. HandInv' /\ AwaitedInv' /\ QuitReachesAll'
  BY DEF HandInv, AwaitedInv, QuitReachesAll
<1>7. \A p \in Pids : Live(p)' <=> Live(p)
  BY DEF Live
<1>8. SignalInv'
  <2> SUFFICES ASSUME NEW i \in EntriesOfChildren, PCBTableArr'[i].status = TERMINATING, Live(PCBTableArr[i].pid)
               PROVE  SIGTERM \in signals[PCBTableArr[i].pid]
    BY <1>1, <1>2, <1>7 DEF SignalInv
  <2> QED BY <1>1, <1>2 DEF SignalInv, EntriesOfChildren
<1>9. ExitedIsOver'
  <2> SUFFICES ASSUME NEW i \in EntriesOfChildren, PCBTableArr'[i].status = EXITED, Live(PCBTableArr[i].pid)
               PROVE  SIGINT \in signals[PCBTableArr[i].pid] \/ PCBTableArr[i].pid \in misled
    BY <1>1, <1>2, <1>7 DEF ExitedIsOver
  <2> QED BY <1>1, <1>2 DEF ExitedIsOver
<1>10. NoEndIsLost'
  <2> SUFFICES ASSUME NEW i \in EntriesOfChildren, proc[PCBTableArr[i].pid] = "reaped", PCBTableArr[i].pid \notin misled
               PROVE  PCBTableArr'[i].status = EXITED
    BY <1>1, <1>3 DEF NoEndIsLost, EntriesOfChildren
  <2>1. CASE i = e
    BY <1>1, <1>2, <2>1
  <2>2. CASE i # e
    <3>1. PCBTableArr[i].pid # q
      BY <1>1, <1>2, <2>2 DEF TableInv
    <3> QED BY <1>1, <2>2, <3>1 DEF NoEndIsLost, EntriesOfChildren
  <2> QED BY <2>1, <2>2
<1> QED BY <1>4, <1>5, <1>6, <1>8, <1>9, <1>10

(* What it knows is still so when it comes to record it. *)
LEMMA RecordStep ==
  ASSUME Inv, PollRecords \/ WaitRecords \/ TerminateRecords \/ FgRecords
  PROVE  Inv'
<1> USE DEF Inv
<1>1. /\ UNCHANGED <<interrputed, stopped, proc, ending, signals, misled>>
      /\ pc' \in {"prompt", "poll", "lastPoll"}
  BY DEF PollRecords, WaitRecords, TerminateRecords, FgRecords, AtPrompt, flags, kernelVars
<1>2. make_fg' \in BOOLEAN
  BY DEF PollRecords, WaitRecords, TerminateRecords, FgRecords, flags, TypeInv
<1>3. child \in Pids \cup {NoPid} /\ at \in Nat /\ code \in Int
  BY DEF TypeInv
<1>4. child' \in Pids \cup {NoPid} /\ code' \in Int /\ at' \in Nat
  <2>1. CASE PollRecords
    <3>1. child' = child /\ code' = 0 /\ at' = at + 1
      BY <2>1 DEF PollRecords
    <3> QED BY <1>3, <3>1
  <2>2. CASE WaitRecords \/ TerminateRecords \/ FgRecords
    <3>1. child' = NoPid /\ code' = 0 /\ at' = at
      BY <2>2 DEF WaitRecords, TerminateRecords, FgRecords, AtPrompt
    <3> QED BY <1>3, <3>1
  <2> QED BY <2>1, <2>2
<1>5. CASE PollRecords
  <2> DEFINE q == PCBTableArr[at].pid
  <2>1. pc \in {"found", "lastFound"} /\ at \in Entries /\ (q \in Pids => proc[q] = "reaped")
    BY <1>5 DEF PollRecords, TableInv, HandInv
  <2>2. proc_update_status(q, EXITED, code)
    BY <1>5 DEF PollRecords, Recorded
  <2>3. q \in Pids \cup {NoPid} /\ InTable(q)
    BY <2>1, RowFacts DEF InTable
  <2>4. InHand = {q} /\ (q \in Pids => ~Live(q)) /\ pc \notin {"forked", "overrun"} /\ EXITED \in Statuses
    BY <2>1 DEF InHand, Live, Statuses
  <2>5. EXITED # TERMINATING
    BY DEF EXITED, TERMINATING
  <2> HIDE DEF q
  <2> QED BY <1>1, <1>2, <1>3, <1>4, <2>2, <2>3, <2>4, <2>5, RecordKeeps
<1>6. CASE WaitRecords \/ TerminateRecords \/ FgRecords
  <2>1. pc \in {"waited", "sent", "resumed"} /\ child \in Pids \cup {NoPid} /\ InTable(child)
    BY <1>6 DEF WaitRecords, TerminateRecords, FgRecords, TypeInv, TableInv, AboutChild
  <2>2. pc \notin {"forked", "overrun"}
    BY <2>1
  <2>3. CASE WaitRecords
    <3>1. pc = "waited" /\ proc_update_status(child, EXITED, code)
      BY <2>3 DEF WaitRecords
    <3>2. InHand = {child} /\ (child \in Pids => ~Live(child)) /\ EXITED \in Statuses
      BY <3>1 DEF InHand, Live, HandInv, Statuses
    <3>3. EXITED # TERMINATING
      BY DEF EXITED, TERMINATING
    <3> QED BY <1>1, <1>2, <1>3, <1>4, <2>1, <2>2, <3>1, <3>2, <3>3, RecordKeeps
  <2>4. CASE TerminateRecords
    <3>1. pc = "sent" /\ proc_update_status(child, TERMINATING, code)
      BY <2>4 DEF TerminateRecords
    <3>2. InHand = {} /\ TERMINATING \in Statuses /\ TERMINATING # EXITED
      BY <3>1 DEF InHand, Statuses, EXITED, TERMINATING
    <3>3. child \in Pids => (proc[child] # "reaped" \/ child \in misled) /\ (Live(child) => SIGTERM \in signals[child])
      BY <3>1 DEF HandInv
    <3> QED BY <1>1, <1>2, <1>3, <1>4, <2>1, <2>2, <3>1, <3>2, <3>3, RecordKeeps
  <2>5. CASE FgRecords
    <3>1. pc = "resumed" /\ proc_update_status(child, RUNNING, -1)
      BY <2>5 DEF FgRecords
    <3>2. InHand = {} /\ RUNNING \in Statuses /\ RUNNING # EXITED /\ RUNNING # TERMINATING /\ -1 \in Int
      BY <3>1 DEF InHand, Statuses, EXITED, RUNNING, TERMINATING
    <3>3. child \in Pids => proc[child] # "reaped" \/ child \in misled
      BY <3>1 DEF HandInv
    <3> QED BY <1>1, <1>2, <1>4, <2>1, <2>2, <3>1, <3>2, <3>3, RecordKeeps
  <2> QED BY <1>6, <2>3, <2>4, <2>5
<1> QED BY <1>5, <1>6

(* What waitpid said of the child in the foreground is recorded if no flag is set. *)
LEMMA ForegroundRecordsStep ==
  ASSUME Inv, ForegroundRecords
  PROVE  Inv'
<1> USE DEF Inv
<1>1. /\ pc = "returned" /\ pc' = "poll" /\ at' = 1 /\ child' = NoPid /\ code' = 0
      /\ UNCHANGED <<proc, ending, signals, misled>>
  BY DEF ForegroundRecords, StartPoll, kernelVars
<1>2. child \in Pids \cup {NoPid} /\ InTable(child) /\ code \in Int
  BY <1>1 DEF TypeInv, TableInv, AboutChild
<1>3. PICK e \in Entries : PCBTableArr[e].pid = child
  BY <1>2 DEF InTable
<1>4. InHand = {child} /\ InHand' = {}
  BY <1>1 DEF InHand
<1>5. child \in Pids \ misled => ~make_fg /\ Returned(PCBTableArr[e].status)
  BY <1>1, <1>3 DEF AwaitedInv
<1>6. CASE ~interrputed /\ ~stopped /\ ~make_fg
  <2>1. proc_update_status(child, EXITED, code) /\ UNCHANGED <<interrputed, stopped, make_fg>>
    BY <1>6 DEF ForegroundRecords, flags
  <2>2. child \in Pids => ~Live(child) \/ child \in misled
    BY <1>5, <1>6 DEF Returned, Held, Live
  <2>3. EXITED \in Statuses /\ EXITED # TERMINATING /\ 0 \in Int /\ 1 \in Nat /\ make_fg' \in BOOLEAN
    BY <2>1 DEF Statuses, EXITED, TERMINATING, TypeInv
  <2> QED BY <1>1, <1>2, <1>4, <2>1, <2>2, <2>3, RecordKeeps
<1>7. CASE interrputed \/ stopped \/ make_fg
  <2>1. PCBTableArr' = PCBTableArr /\ interrputed' \in BOOLEAN /\ stopped' \in BOOLEAN /\ make_fg' \in BOOLEAN
    BY <1>7 DEF ForegroundRecords, TypeInv
  <2>2. Entries' = Entries /\ \A q : InTable(q)' <=> InTable(q)
    BY <2>1 DEF Entries, InTable
  <2>3. TypeInv'
    <3>1. /\ PCBTableArr' \in Seq(Rows) /\ pc' \in PcLabels /\ pc' \notin AboutChild
          /\ proc' \in [Pids -> ProcStates] /\ ending' \in [Pids -> Endings \cup {Exit(0)}]
          /\ signals' \in [Pids -> SUBSET {SIGINT, SIGTERM, SIGTSTP}] /\ misled' \subseteq Pids
          /\ child' \in Pids \cup {NoPid} /\ at' \in Nat /\ code' \in Int
      BY <1>1, <2>1 DEF TypeInv, PcLabels, AboutChild
    <3> QED BY <2>1, <3>1 DEF TypeInv
  <2>4. TableInv'
    BY <1>1, <2>1, <2>2 DEF TableInv, AboutChild
  <2>5. HandInv' /\ AwaitedInv' /\ QuitReachesAll'
    BY <1>1 DEF HandInv, AwaitedInv, QuitReachesAll
  <2>6. SignalInv' /\ ExitedIsOver'
    BY <1>1, <2>1, <2>2 DEF SignalInv, ExitedIsOver, Live, EntriesOfChildren
  <2>7. NoEndIsLost'
    <3> SUFFICES ASSUME NEW i \in EntriesOfChildren, proc[PCBTableArr[i].pid] = "reaped", PCBTableArr[i].pid \notin misled
                 PROVE  PCBTableArr[i].status = EXITED
      BY <1>1, <1>4, <2>1, <2>2 DEF NoEndIsLost, EntriesOfChildren
    <3>1. CASE PCBTableArr[i].pid = child
      <4>1. i = e /\ child \in Pids
        BY <1>3, <3>1 DEF TableInv, EntriesOfChildren
      <4> QED BY <1>5, <1>7, <3>1, <4>1 DEF Returned, Untouched, Hit, Held
    <3>2. CASE PCBTableArr[i].pid # child
      BY <1>4, <3>2 DEF NoEndIsLost, EntriesOfChildren
    <3> QED BY <3>1, <3>2
  <2> QED BY <2>3, <2>4, <2>5, <2>6, <2>7
<1> QED BY <1>6, <1>7

(* fork; a flag that is still set misleads the shell about the child. *)
LEMMA ExecStep ==
  ASSUME Inv, NEW c \in Pids, Exec(c)
  PROVE  Inv'
<1> USE DEF Inv
<1>1. /\ pc = "prompt" /\ pc' = "forked" /\ child' = c /\ proc[c] = "new"
      /\ UNCHANGED <<PCBTableArr, interrputed, stopped, make_fg, at, code, ending, signals>>
  BY DEF Exec, Prompt, flags
<1>2. misled \subseteq misled' /\ misled' \subseteq Pids
  BY DEF Exec, TypeInv
<1>3. c \notin misled' => ~interrputed /\ ~stopped /\ ~make_fg
  BY DEF Exec
<1>4. proc' \in [Pids -> ProcStates] /\ \A p \in Pids : proc'[p] = IF p = c THEN "running" ELSE proc[p]
  BY DEF Exec, TypeInv, ProcStates
<1>5. Entries' = Entries /\ \A q : InTable(q)' <=> InTable(q)
  BY <1>1 DEF Entries, InTable
<1>6. InHand = {} /\ InHand' = {}
  BY <1>1 DEF InHand
<1>7. \A i \in Entries : PCBTableArr[i].pid # c
  BY <1>1 DEF TableInv, InTable
<1>8. TypeInv'
  <2>1. /\ PCBTableArr' \in Seq(Rows) /\ pc' \in PcLabels
        /\ child' \in Pids \cup {NoPid}
        /\ ending' \in [Pids -> Endings \cup {Exit(0)}] /\ at' \in Nat /\ code' \in Int
        /\ signals' \in [Pids -> SUBSET {SIGINT, SIGTERM, SIGTSTP}]
    BY <1>1 DEF TypeInv, PcLabels
  <2>2. interrputed' \in BOOLEAN /\ stopped' \in BOOLEAN /\ make_fg' \in BOOLEAN
    BY <1>1 DEF TypeInv
  <2> QED BY <1>2, <1>4, <2>1, <2>2 DEF TypeInv
<1>9. TableInv'
  <2>1. \A p \in Pids : InTable(p)' <=> proc'[p] # "new" /\ ~ (pc' = "forked" /\ child' = p)
    BY <1>1, <1>4, <1>5 DEF TableInv
  <2>2. \A i, j \in Entries : PCBTableArr'[i].pid \in Pids /\ PCBTableArr'[i].pid = PCBTableArr'[j].pid => i = j
    BY <1>1 DEF TableInv
  <2> QED BY <1>1, <1>4, <1>5, <2>1, <2>2 DEF TableInv
<1>10. HandInv' /\ QuitReachesAll'
  BY <1>1 DEF HandInv, QuitReachesAll
<1>11. AwaitedInv'
  BY <1>1, <1>3, <1>4, <1>5, <1>7 DEF AwaitedInv, SignalInv, EntriesOfChildren
<1>12. SignalInv' /\ ExitedIsOver'
  BY <1>1, <1>2, <1>4, <1>5, <1>7 DEF SignalInv, ExitedIsOver, Live, EntriesOfChildren
<1>13. NoEndIsLost'
  BY <1>1, <1>2, <1>4, <1>5, <1>6, <1>7 DEF NoEndIsLost, EntriesOfChildren
<1> QED BY <1>8, <1>9, <1>10, <1>11, <1>12, <1>13

(* No child comes of the fork, or there is no place for its entry. *)
LEMMA ForkStep ==
  ASSUME Inv, ForkFails \/ Overruns
  PROVE  Inv'
<1> USE DEF Inv
<1>1. /\ UNCHANGED <<PCBTableArr, interrputed, stopped, make_fg, at, code, proc, ending, signals, misled>>
      /\ \/ pc = "prompt" /\ pc' = "forked" /\ child' = NoPid
         \/ pc = "forked" /\ pc' = "overrun" /\ child' = child
  BY DEF ForkFails, Overruns, Prompt, flags, kernelVars
<1>2. Entries' = Entries /\ (\A q : InTable(q)' <=> InTable(q)) /\ EntriesOfChildren' = EntriesOfChildren
  BY <1>1 DEF Entries, EntriesOfChildren, InTable
<1>3. InHand = {} /\ InHand' = {}
  BY <1>1 DEF InHand
<1>4. TypeInv'
  <2>1. /\ PCBTableArr' \in Seq(Rows) /\ pc' \in PcLabels /\ child' \in Pids \cup {NoPid}
        /\ proc' \in [Pids -> ProcStates] /\ ending' \in [Pids -> Endings \cup {Exit(0)}]
        /\ signals' \in [Pids -> SUBSET {SIGINT, SIGTERM, SIGTSTP}] /\ misled' \subseteq Pids
        /\ at' \in Nat /\ code' \in Int
    BY <1>1 DEF TypeInv, PcLabels
  <2>2. interrputed' \in BOOLEAN /\ stopped' \in BOOLEAN /\ make_fg' \in BOOLEAN
    BY <1>1 DEF TypeInv
  <2> QED BY <2>1, <2>2 DEF TypeInv
<1>5. TableInv'
  BY <1>1, <1>2, BonusShellAssumption DEF TableInv, AboutChild
<1>6. HandInv' /\ AwaitedInv' /\ QuitReachesAll'
  BY <1>1, BonusShellAssumption DEF HandInv, AwaitedInv, QuitReachesAll
<1>7. SignalInv' /\ ExitedIsOver'
  BY <1>1, <1>2 DEF SignalInv, ExitedIsOver, Live
<1>8. NoEndIsLost'
  BY <1>1, <1>2, <1>3 DEF NoEndIsLost
<1> QED BY <1>4, <1>5, <1>6, <1>7, <1>8

(* The parent makes the entry; keys have misled it if they came before that. *)
LEMMA CreateStep ==
  ASSUME Inv, NEW inBackground \in BOOLEAN, create_PCBTable(inBackground)
  PROVE  Inv'
<1> USE DEF Inv
<1> DEFINE row == [pid |-> child, status |-> RUNNING, exitCode |-> -1]
           n == Len(PCBTableArr) + 1
<1>1. /\ pc = "forked" /\ pc' \in {"background", "foreground"} /\ PCBTableArr' = Append(PCBTableArr, row)
      /\ UNCHANGED <<interrputed, stopped, make_fg, child, at, code, proc, ending, signals, misled>>
  BY DEF create_PCBTable, flags, kernelVars
<1>2. /\ child \in Pids \cup {NoPid}
      /\ child \in Pids => proc[child] # "new" /\ ~InTable(child)
  BY <1>1 DEF TypeInv, TableInv, AboutChild
<1>3. row \in Rows /\ row.pid = child /\ row.status = RUNNING
  BY <1>2 DEF Rows, Statuses
<1> HIDE DEF row
<1>4. PCBTableArr \in Seq(Rows) /\ Len(PCBTableArr) \in Nat
  BY LenProperties DEF TypeInv
<1>5. PCBTableArr' \in Seq(Rows) /\ Len(PCBTableArr') = n /\ PCBTableArr'[n] = row
      /\ \A i \in Entries : PCBTableArr'[i] = PCBTableArr[i]
  <2> DEFINE table == PCBTableArr  R == Rows
  <2>1. table \in Seq(R) /\ row \in R /\ n = Len(table) + 1 /\ Entries = 1 .. Len(table)
    BY <1>3, <1>4 DEF Entries
  <2> HIDE DEF table, R
  <2>2. /\ Append(table, row) \in Seq(R) /\ Len(Append(table, row)) = Len(table) + 1
        /\ Append(table, row)[n] = row /\ \A i \in Entries : Append(table, row)[i] = table[i]
    BY <2>1, AppendProperties
  <2>3. PCBTableArr' = Append(table, row)
    BY <1>1 DEF table
  <2> QED BY <2>1, <2>2, <2>3 DEF table, R
<1>6. n \in Entries' /\ n \notin Entries /\ Entries' = Entries \cup {n}
  BY <1>4, <1>5 DEF Entries
<1> HIDE DEF n
<1>7. child \in Pids => \A i \in Entries : PCBTableArr[i].pid # child
  BY <1>2 DEF InTable
<1>8. \A q : InTable(q)' <=> InTable(q) \/ q = child
  BY <1>3, <1>5, <1>6 DEF InTable
<1>9. InHand = {} /\ InHand' = {}
  BY <1>1 DEF InHand
<1>10. TypeInv'
  <2>1. /\ PCBTableArr' \in Seq(Rows) /\ pc' \in PcLabels
        /\ child' \in Pids \cup {NoPid}
        /\ proc' \in [Pids -> ProcStates] /\ ending' \in [Pids -> Endings \cup {Exit(0)}] /\ at' \in Nat /\ code' \in Int
        /\ signals' \in [Pids -> SUBSET {SIGINT, SIGTERM, SIGTSTP}] /\ misled' \subseteq Pids
    BY <1>1, <1>2, <1>5 DEF TypeInv, PcLabels
  <2>2. interrputed' \in BOOLEAN /\ stopped' \in BOOLEAN /\ make_fg' \in BOOLEAN
    BY <1>1 DEF TypeInv
  <2> QED BY <2>1, <2>2 DEF TypeInv
<1>11. TableInv'
  <2>1. \A p \in Pids : InTable(p)' <=> proc'[p] # "new"
    BY <1>1, <1>2, <1>8 DEF TableInv
  <2>2. \A i, j \in Entries' : PCBTableArr'[i].pid \in Pids /\ PCBTableArr'[i].pid = PCBTableArr'[j].pid => i = j
    <3> SUFFICES ASSUME NEW i \in Entries', NEW j \in Entries', PCBTableArr'[i].pid \in Pids, PCBTableArr'[i].pid = PCBTableArr'[j].pid
                 PROVE  i = j
      OBVIOUS
    <3>1. CASE i \in Entries /\ j \in Entries
      BY <1>5, <3>1 DEF TableInv
    <3>2. CASE i = n \/ j = n
      BY <1>3, <1>5, <1>6, <1>7, <3>2
    <3> QED BY <1>6, <3>1, <3>2
  <2>3. child \in Pids => \A i \in Entries' : PCBTableArr'[i].pid = child => i = Len(PCBTableArr')
    BY <1>5, <1>6, <1>7
  <2> QED BY <1>1, <1>2, <1>8, <2>1, <2>2, <2>3 DEF TableInv
<1>12. HandInv' /\ QuitReachesAll'
  BY <1>1 DEF HandInv, QuitReachesAll
<1>13. AwaitedInv'
  <2>1. child' \in Pids \ misled' =>
          /\ ~interrputed' /\ ~stopped' /\ ~make_fg'
          /\ (proc'[child'] = "running" /\ signals'[child'] = {}) \/ proc'[child'] = "zombie"
    BY <1>1 DEF AwaitedInv
  <2>2. child' \in Pids => \A i \in Entries' : PCBTableArr'[i].pid = child' => PCBTableArr'[i].status = RUNNING
    BY <1>1, <1>3, <1>5, <1>6, <1>7
  <2> QED BY <1>1, <2>1, <2>2 DEF AwaitedInv, Awaited, Untouched
<1>14. SignalInv'
  <2>1. \A i \in Entries' : PCBTableArr'[i].status = TERMINATING => i \in Entries /\ PCBTableArr'[i] = PCBTableArr[i]
    BY <1>3, <1>5, <1>6 DEF RUNNING, TERMINATING
  <2> QED BY <1>1, <2>1 DEF SignalInv, Live, EntriesOfChildren
<1>15. ExitedIsOver'
  <2>1. \A i \in Entries' : PCBTableArr'[i].status = EXITED => i \in Entries /\ PCBTableArr'[i] = PCBTableArr[i]
    BY <1>3, <1>5, <1>6 DEF RUNNING, EXITED
  <2> QED BY <1>1, <2>1 DEF ExitedIsOver, Live, EntriesOfChildren
<1>16. NoEndIsLost'
  <2>1. child \in Pids => proc[child] # "reaped" \/ child \in misled
    BY <1>1 DEF AwaitedInv
  <2>2. \A i \in Entries' : PCBTableArr'[i].pid = child \/ (i \in Entries /\ PCBTableArr'[i] = PCBTableArr[i])
    BY <1>3, <1>5, <1>6
  <2> QED BY <1>1, <1>9, <2>1, <2>2 DEF NoEndIsLost, EntriesOfChildren
<1> QED BY <1>10, <1>11, <1>12, <1>13, <1>14, <1>15, <1>16

(* kill reaches the targets that live. *)
LEMMA SendFacts ==
  ASSUME signals \in [Pids -> SUBSET {SIGINT, SIGTERM, SIGTSTP}], NEW targets, NEW sent \in SUBSET {SIGINT, SIGTERM, SIGTSTP}
  PROVE  /\ Send(targets, sent) \in [Pids -> SUBSET {SIGINT, SIGTERM, SIGTSTP}]
         /\ \A p \in Pids : Send(targets, sent)[p] =
              IF p \in targets /\ Live(p) THEN signals[p] \cup sent ELSE signals[p]
BY DEF Send

(* terminate {PID} signals what is shown as running. *)
LEMMA TerminateStep ==
  ASSUME Inv, NEW c \in Pids \cup {NoPid}, Terminate(c)
  PROVE  Inv'
<1> USE DEF Inv
<1>1. /\ pc = "prompt" /\ pc' = "sent" /\ child' = c /\ Shown(c, RUNNING)
      /\ signals' = Send(Targets({c}), {SIGTERM})
      /\ UNCHANGED <<PCBTableArr, interrputed, stopped, make_fg, at, proc, ending, misled>>
  BY DEF Terminate, Prompt, flags
<1>2. code' \in Int
  BY DEF Terminate
<1>3. Entries' = Entries /\ \A q : InTable(q)' <=> InTable(q)
  BY <1>1 DEF Entries, InTable
<1>4. InHand = {} /\ InHand' = {}
  BY <1>1 DEF InHand
<1>5. /\ signals' \in [Pids -> SUBSET {SIGINT, SIGTERM, SIGTSTP}]
      /\ \A p \in Pids : signals'[p] = IF p \in Targets({c}) /\ Live(p) THEN signals[p] \cup {SIGTERM} ELSE signals[p]
  <2>1. signals \in [Pids -> SUBSET {SIGINT, SIGTERM, SIGTSTP}] /\ {SIGTERM} \in SUBSET {SIGINT, SIGTERM, SIGTSTP}
    BY DEF TypeInv
  <2> QED BY <1>1, <2>1, SendFacts
<1>6. PICK e \in Entries : PCBTableArr[e].pid = c /\ PCBTableArr[e].status = RUNNING
  BY <1>1, EntryFacts DEF Shown
<1>7. c \in Pids => proc[c] # "new" /\ (proc[c] # "reaped" \/ c \in misled)
  <2>1. InTable(c)
    BY <1>6 DEF InTable
  <2>2. RUNNING # EXITED
    BY DEF RUNNING, EXITED
  <2> QED BY <1>4, <1>6, <2>1, <2>2 DEF TableInv, NoEndIsLost, EntriesOfChildren
<1>8. \A i \in EntriesOfChildren : i \in Entries /\ PCBTableArr[i].pid \in Pids
  BY DEF EntriesOfChildren
<1>9. TypeInv'
  <2>1. /\ PCBTableArr' \in Seq(Rows) /\ pc' \in PcLabels
        /\ child' \in Pids \cup {NoPid}
        /\ proc' \in [Pids -> ProcStates] /\ ending' \in [Pids -> Endings \cup {Exit(0)}] /\ at' \in Nat
        /\ misled' \subseteq Pids
    BY <1>1 DEF TypeInv, PcLabels
  <2>2. interrputed' \in BOOLEAN /\ stopped' \in BOOLEAN /\ make_fg' \in BOOLEAN
    BY <1>1 DEF TypeInv
  <2> QED BY <1>2, <1>5, <2>1, <2>2 DEF TypeInv
<1>10. TableInv'
  <2>1. \A p \in Pids : InTable(p)' <=> proc'[p] # "new"
    BY <1>1, <1>3 DEF TableInv
  <2>2. InTable(c)
    BY <1>6 DEF InTable
  <2> QED BY <1>1, <1>3, <1>7, <2>1, <2>2 DEF TableInv
<1>11. HandInv'
  BY <1>1, <1>5, <1>7 DEF HandInv, Live, Targets
<1>12. AwaitedInv' /\ QuitReachesAll'
  BY <1>1 DEF AwaitedInv, QuitReachesAll
<1>13. \A p \in Pids : Live(p)' <=> Live(p)
  BY <1>1 DEF Live
<1>14. SignalInv'
  <2>1. \A p \in Pids : proc'[p] = "new" => signals'[p] = {}
    BY <1>1, <1>5 DEF SignalInv, Live
  <2>2. ASSUME NEW i \in EntriesOfChildren, PCBTableArr[i].status = TERMINATING, Live(PCBTableArr[i].pid)
        PROVE  SIGTERM \in signals'[PCBTableArr[i].pid]
    <3>1. SIGTERM \in signals[PCBTableArr[i].pid]
      BY <2>2 DEF SignalInv, EntriesOfChildren
    <3> QED BY <1>5, <1>8, <3>1
  <2> QED BY <1>1, <1>3, <2>1, <2>2 DEF SignalInv, Live, EntriesOfChildren
<1>15. ExitedIsOver'
  <2>1. \A p \in Pids : signals[p] \subseteq signals'[p]
    BY <1>5
  <2>2. ASSUME NEW i \in EntriesOfChildren, PCBTableArr[i].status = EXITED, Live(PCBTableArr[i].pid)
        PROVE  SIGINT \in signals'[PCBTableArr[i].pid] \/ PCBTableArr[i].pid \in misled
    BY <1>8, <2>1, <2>2 DEF ExitedIsOver, EntriesOfChildren
  <2> QED BY <1>1, <1>3, <2>2 DEF ExitedIsOver, Live, EntriesOfChildren
<1>16. NoEndIsLost'
  BY <1>1, <1>3, <1>4 DEF NoEndIsLost, EntriesOfChildren
<1> QED BY <1>9, <1>10, <1>11, <1>12, <1>14, <1>15, <1>16

(* fg {PID} continues what is shown as stopped. *)
LEMMA FgStep ==
  ASSUME Inv, NEW c \in Pids \cup {NoPid}, Fg(c)
  PROVE  Inv'
<1> USE DEF Inv
<1>1. /\ pc = "prompt" /\ pc' = "resumed" /\ child' = c /\ Shown(c, STOPPED)
      /\ UNCHANGED <<PCBTableArr, interrputed, stopped, make_fg, at, code, ending, misled>>
  BY DEF Fg, Prompt, flags
<1>2. /\ proc' \in [Pids -> ProcStates] /\ signals' \in [Pids -> SUBSET {SIGINT, SIGTERM, SIGTSTP}]
      /\ \A p \in Pids : /\ signals'[p] \subseteq signals[p] /\ signals[p] \ {SIGTSTP} \subseteq signals'[p]
                         /\ proc'[p] # proc[p] => proc[p] = "stopped" /\ proc'[p] = "running"
  <2> DEFINE T == Targets({c})
  <2>1. proc' = Continued(T) /\ signals' = WithoutStop(T, signals)
    BY DEF Fg
  <2> HIDE DEF T
  <2> QED BY <2>1 DEF Continued, WithoutStop, TypeInv, ProcStates
<1>3. Entries' = Entries /\ \A q : InTable(q)' <=> InTable(q)
  BY <1>1 DEF Entries, InTable
<1>4. InHand = {} /\ InHand' = {}
  BY <1>1 DEF InHand
<1>5. PICK e \in Entries : PCBTableArr[e].pid = c /\ PCBTableArr[e].status = STOPPED
  BY <1>1, EntryFacts DEF Shown
<1>6. c \in Pids => proc[c] # "new" /\ (proc[c] # "reaped" \/ c \in misled)
  <2>1. InTable(c)
    BY <1>5 DEF InTable
  <2>2. STOPPED # EXITED
    BY DEF STOPPED, EXITED
  <2> QED BY <1>4, <1>5, <2>1, <2>2 DEF TableInv, NoEndIsLost, EntriesOfChildren
<1>7. \A i \in EntriesOfChildren : i \in Entries /\ PCBTableArr[i].pid \in Pids
  BY DEF EntriesOfChildren
<1>8. TypeInv'
  <2>1. /\ PCBTableArr' \in Seq(Rows) /\ pc' \in PcLabels
        /\ child' \in Pids \cup {NoPid}
        /\ ending' \in [Pids -> Endings \cup {Exit(0)}] /\ at' \in Nat /\ code' \in Int
        /\ misled' \subseteq Pids
    BY <1>1 DEF TypeInv, PcLabels
  <2>2. interrputed' \in BOOLEAN /\ stopped' \in BOOLEAN /\ make_fg' \in BOOLEAN
    BY <1>1 DEF TypeInv
  <2> QED BY <1>2, <2>1, <2>2 DEF TypeInv
<1>9. \A p \in Pids : /\ Live(p)' <=> Live(p)
                      /\ proc'[p] = "new" <=> proc[p] = "new"
                      /\ proc'[p] = "reaped" <=> proc[p] = "reaped"
  BY <1>2 DEF Live
<1>10. TableInv'
  <2>1. \A p \in Pids : InTable(p)' <=> proc'[p] # "new"
    BY <1>1, <1>3, <1>9 DEF TableInv
  <2>2. InTable(c)
    BY <1>5 DEF InTable
  <2> QED BY <1>1, <1>3, <1>6, <1>9, <2>1, <2>2 DEF TableInv
<1>11. HandInv'
  BY <1>1, <1>6, <1>9 DEF HandInv
<1>12. AwaitedInv' /\ QuitReachesAll'
  BY <1>1 DEF AwaitedInv, QuitReachesAll
<1>13. SIGINT # SIGTSTP /\ SIGTERM # SIGTSTP
  BY DEF SIGINT, SIGTERM, SIGTSTP
<1>14. SignalInv'
  <2>1. \A p \in Pids : proc'[p] = "new" => signals'[p] = {}
    BY <1>2, <1>9 DEF SignalInv, EntriesOfChildren
  <2> QED BY <1>1, <1>2, <1>3, <1>7, <1>9, <1>13, <2>1 DEF SignalInv, EntriesOfChildren
<1>15. ExitedIsOver' /\ NoEndIsLost'
  BY <1>1, <1>2, <1>3, <1>4, <1>7, <1>9, <1>13 DEF ExitedIsOver, NoEndIsLost, EntriesOfChildren
<1> QED BY <1>8, <1>10, <1>11, <1>12, <1>14, <1>15

(* my_quit: what is not signalled now is shown as exited or as terminating. *)
LEMMA KillStep ==
  ASSUME Inv, Kill
  PROVE  Inv'
<1> USE DEF Inv
<1>1. /\ pc = "killing" /\ pc' = "quit"
      /\ UNCHANGED <<PCBTableArr, interrputed, stopped, make_fg, child, at, code, ending, misled>>
  BY DEF Kill, flags
<1> DEFINE T == Targets(ShownAs(StatusesToKill))
           U == Targets(ShownAs({STOPPED}))
<1>2. /\ Send(T, {SIGTERM}) \in [Pids -> SUBSET {SIGINT, SIGTERM, SIGTSTP}]
      /\ \A p \in Pids : Send(T, {SIGTERM})[p] =
           IF p \in T /\ Live(p) THEN signals[p] \cup {SIGTERM} ELSE signals[p]
  <2>1. signals \in [Pids -> SUBSET {SIGINT, SIGTERM, SIGTSTP}] /\ {SIGTERM} \in SUBSET {SIGINT, SIGTERM, SIGTSTP}
    BY DEF TypeInv
  <2> HIDE DEF T
  <2> QED BY <2>1, SendFacts
<1>3. /\ signals' \in [Pids -> SUBSET {SIGINT, SIGTERM, SIGTSTP}]
      /\ \A p \in Pids : /\ signals[p] \ {SIGTSTP} \subseteq signals'[p]
                         /\ p \in T /\ Live(p) => SIGTERM \in signals'[p]
                         /\ ~Live(p) => signals'[p] \subseteq signals[p]
  <2> DEFINE told == Send(T, {SIGTERM})
  <2>1. signals' = WithoutStop(U, told)
    BY DEF Kill
  <2>2. told \in [Pids -> SUBSET {SIGINT, SIGTERM, SIGTSTP}]
        /\ \A p \in Pids : told[p] = IF p \in T /\ Live(p) THEN signals[p] \cup {SIGTERM} ELSE signals[p]
    BY <1>2
  <2> HIDE DEF told, T, U
  <2>3. SIGTERM # SIGTSTP
    BY DEF SIGTERM, SIGTSTP
  <2>4. \A p \in Pids : signals'[p] = IF p \in U THEN told[p] \ {SIGTSTP} ELSE told[p]
    BY <2>1 DEF WithoutStop
  <2>5. signals' \in [Pids -> SUBSET {SIGINT, SIGTERM, SIGTSTP}]
    BY <2>1, <2>2 DEF WithoutStop
  <2> QED BY <2>2, <2>3, <2>4, <2>5
<1>4. /\ proc' \in [Pids -> ProcStates]
      /\ \A p \in Pids : proc'[p] # proc[p] => proc[p] = "stopped" /\ proc'[p] = "running"
  <2>1. proc' = Continued(U)
    BY DEF Kill
  <2> HIDE DEF U
  <2> QED BY <2>1 DEF Continued, TypeInv, ProcStates
<1>5. Entries' = Entries /\ \A q : InTable(q)' <=> InTable(q)
  BY <1>1 DEF Entries, InTable
<1>6. InHand = {} /\ InHand' = {}
  BY <1>1 DEF InHand
<1>7. \A i \in EntriesOfChildren : i \in Entries /\ PCBTableArr[i].pid \in Pids
  BY DEF EntriesOfChildren
<1>8. TypeInv'
  <2>1. /\ PCBTableArr' \in Seq(Rows) /\ pc' \in PcLabels
        /\ child' \in Pids \cup {NoPid}
        /\ ending' \in [Pids -> Endings \cup {Exit(0)}] /\ at' \in Nat /\ code' \in Int
        /\ misled' \subseteq Pids
    BY <1>1 DEF TypeInv, PcLabels
  <2>2. interrputed' \in BOOLEAN /\ stopped' \in BOOLEAN /\ make_fg' \in BOOLEAN
    BY <1>1 DEF TypeInv
  <2> QED BY <1>3, <1>4, <2>1, <2>2 DEF TypeInv
<1>9. \A p \in Pids : /\ Live(p)' <=> Live(p)
                      /\ proc'[p] = "new" <=> proc[p] = "new"
                      /\ proc'[p] = "reaped" <=> proc[p] = "reaped"
  BY <1>4 DEF Live
<1>10. TableInv'
  <2>1. \A p \in Pids : InTable(p)' <=> proc'[p] # "new"
    BY <1>1, <1>5, <1>9 DEF TableInv
  <2> QED BY <1>1, <1>5, <2>1 DEF TableInv, AboutChild
<1>11. HandInv' /\ AwaitedInv'
  BY <1>1 DEF HandInv, AwaitedInv
<1>12. SIGINT # SIGTSTP /\ SIGTERM # SIGTSTP
  BY DEF SIGINT, SIGTERM, SIGTSTP
<1>13. SignalInv'
  <2>1. \A p \in Pids : proc'[p] = "new" => signals'[p] = {}
    BY <1>3, <1>9 DEF SignalInv, Live, EntriesOfChildren
  <2> QED BY <1>1, <1>3, <1>5, <1>7, <1>9, <1>12, <2>1 DEF SignalInv, EntriesOfChildren
<1>14. ExitedIsOver' /\ NoEndIsLost'
  BY <1>1, <1>3, <1>5, <1>6, <1>7, <1>9, <1>12 DEF ExitedIsOver, NoEndIsLost, EntriesOfChildren
<1>15. QuitReachesAll'
  <2> SUFFICES ASSUME NEW p \in Pids, p \notin misled, Live(p)
               PROVE  SIGINT \in signals'[p] \/ SIGTERM \in signals'[p]
    BY <1>1, <1>9 DEF QuitReachesAll
  <2>1. InTable(p)
    BY <1>1 DEF TableInv, Live
  <2>2. PICK i \in Entries : PCBTableArr[i].pid = p
    BY <2>1 DEF InTable
  <2>3. CASE PCBTableArr[i].status \in StatusesToKill
    BY <1>3, <2>2, <2>3 DEF ShownAs, Targets
  <2>4. CASE PCBTableArr[i].status = EXITED
    BY <1>3, <1>12, <2>2, <2>4 DEF ExitedIsOver, EntriesOfChildren
  <2>5. CASE PCBTableArr[i].status = TERMINATING
    BY <1>3, <1>12, <2>2, <2>5 DEF SignalInv, EntriesOfChildren
  <2> QED BY <2>3, <2>4, <2>5, RowFacts DEF Statuses, StatusesToKill
<1> QED BY <1>8, <1>10, <1>11, <1>13, <1>14, <1>15

(* signal_handler writes the last entry if it is shown as running. *)
LEMMA KeyFacts ==
  ASSUME Inv, NEW status \in Statuses, status # TERMINATING, NEW n \in Int,
         IF LastRunning THEN proc_update_status(Last(PCBTableArr).pid, status, n) ELSE UNCHANGED PCBTableArr,
         Mislead, pc \notin {"quit", "overrun"}, UNCHANGED <<make_fg, pc, child, at, code, proc, ending>>,
         interrputed' \in BOOLEAN, stopped' \in BOOLEAN,
         signals' \in [Pids -> SUBSET {SIGINT, SIGTERM, SIGTSTP}],
         \A p \in Pids : signals[p] \subseteq signals'[p] /\ (~Live(p) => signals'[p] = signals[p])
  PROVE  /\ Entries' = Entries
         /\ EntriesOfChildren' = EntriesOfChildren
         /\ \A i \in Entries : PCBTableArr'[i].pid = PCBTableArr[i].pid
         /\ \A i \in EntriesOfChildren :
              /\ PCBTableArr'[i].status = IF LastRunning /\ i = Len(PCBTableArr) THEN status
                                          ELSE PCBTableArr[i].status
              /\ LastRunning /\ i = Len(PCBTableArr) => PCBTableArr[i].status = RUNNING
              /\ i = Len(PCBTableArr) /\ PCBTableArr[i].status = RUNNING => LastRunning
         /\ misled \subseteq misled'
         /\ pc \in {"forked", "returned"} /\ child \in Pids => child \in misled'
         /\ pc = "foreground" /\ child \in Pids \ misled' => proc[child] # "zombie" /\ signals[child] = {}
         /\ InHand' = InHand
         /\ TypeInv' /\ TableInv' /\ HandInv' /\ SignalInv' /\ QuitReachesAll'
<1> USE DEF Inv
<1> DEFINE l == Len(PCBTableArr)
<1>1. PCBTableArr \in Seq(Rows) /\ l \in Nat /\ (PCBTableArr # <<>> <=> l # 0)
  BY LenProperties, EmptySeq DEF TypeInv
<1>2. PCBTableArr # <<>> <=> l \in Entries
  BY <1>1 DEF Entries
<1>3. LastRunning <=> l \in Entries /\ PCBTableArr[l].status = RUNNING
  BY <1>2 DEF LastRunning, Last
<1>4. /\ PCBTableArr' \in Seq(Rows) /\ Len(PCBTableArr') = l /\ Entries' = Entries
      /\ \A i \in Entries : PCBTableArr'[i].pid = PCBTableArr[i].pid
      /\ \A i \in EntriesOfChildren :
           PCBTableArr'[i].status = IF LastRunning /\ i = l THEN status ELSE PCBTableArr[i].status
      /\ EntriesOfChildren' = EntriesOfChildren
      /\ \A q : InTable(q)' <=> InTable(q)
  <2>1. CASE LastRunning
    <3> DEFINE q == PCBTableArr[l].pid
    <3>1. l \in Entries /\ InTable(q) /\ proc_update_status(q, status, n)
      BY <1>3, <2>1 DEF Last, InTable
    <3> HIDE DEF q
    <3>2. /\ EntryOf(q) \in Entries /\ PCBTableArr[EntryOf(q)].pid = q
          /\ PCBTableArr' \in Seq(Rows) /\ Len(PCBTableArr') = l /\ Entries' = Entries
          /\ \A i \in Entries : /\ PCBTableArr'[i].pid = PCBTableArr[i].pid
                                /\ PCBTableArr'[i].status = IF i = EntryOf(q) THEN status ELSE PCBTableArr[i].status
          /\ EntriesOfChildren' = EntriesOfChildren
          /\ \A p : InTable(p)' <=> InTable(p)
      BY <3>1, UpdateFacts
    <3>3. \A i \in EntriesOfChildren : i \in Entries /\ (i = EntryOf(q) <=> i = l)
      BY <3>1, <3>2 DEF TableInv, EntriesOfChildren, q
    <3> QED BY <2>1, <3>2, <3>3
  <2>2. CASE ~LastRunning
    <3>1. PCBTableArr' = PCBTableArr
      BY <2>2
    <3> QED BY <1>1, <2>2, <3>1 DEF Entries, EntriesOfChildren, InTable
  <2> QED BY <2>1, <2>2
<1>5. \A i \in EntriesOfChildren : i \in Entries /\ PCBTableArr[i].pid \in Pids
  BY DEF EntriesOfChildren
<1>6. /\ misled \subseteq misled'
      /\ pc \in {"forked", "returned"} /\ child \in Pids => child \in misled'
      /\ pc = "foreground" /\ child \in Pids \ misled' => proc[child] # "zombie" /\ signals[child] = {}
  BY DEF Mislead
<1>7. misled' \subseteq Pids
  BY DEF Mislead, TypeInv
<1>8. pc \in {"found", "lastFound"} => at \in Entries /\ PCBTableArr'[at].pid = PCBTableArr[at].pid
  BY <1>4 DEF TableInv
<1>9. InHand' = InHand
  BY <1>8 DEF InHand
<1>10. TypeInv'
  <2>1. /\ PCBTableArr' \in Seq(Rows) /\ pc' \in PcLabels
        /\ child' \in Pids \cup {NoPid}
        /\ proc' \in [Pids -> ProcStates] /\ ending' \in [Pids -> Endings \cup {Exit(0)}]
        /\ at' \in Nat /\ code' \in Int
    BY <1>4 DEF TypeInv
  <2>2. make_fg' \in BOOLEAN
    BY DEF TypeInv
  <2> QED BY <1>7, <2>1, <2>2 DEF TypeInv
<1>11. TableInv'
  <2>1. \A p \in Pids : InTable(p)' <=> proc'[p] # "new" /\ ~ (pc' \in {"forked", "overrun"} /\ child' = p)
    BY <1>4 DEF TableInv
  <2>2. \A i, j \in Entries : PCBTableArr'[i].pid \in Pids /\ PCBTableArr'[i].pid = PCBTableArr'[j].pid => i = j
    <3>1. \A i \in Entries : PCBTableArr'[i].pid = PCBTableArr[i].pid
      BY <1>4
    <3> QED BY <3>1 DEF TableInv
  <2>3. pc' \in {"foreground", "returned"} /\ child' \in Pids => \A i \in Entries : PCBTableArr'[i].pid = child' => i = Len(PCBTableArr')
    BY <1>4 DEF TableInv
  <2>4. (pc' \in AboutChild /\ child' \in Pids => proc'[child'] # "new") /\ (pc' \in {"found", "lastFound"} => at' \in Entries)
    BY DEF TableInv
  <2> QED BY <1>4, <2>1, <2>2, <2>3, <2>4 DEF TableInv
<1>12. \A p : Live(p)' <=> Live(p)
  BY DEF Live
<1>13. HandInv'
  <2> QED BY <1>6, <1>8, <1>12 DEF HandInv, Live
<1>14. SignalInv'
  <2>1. \A p \in Pids : proc'[p] = "new" => signals'[p] = {}
    BY DEF SignalInv, Live, EntriesOfChildren
  <2>2. \A i \in EntriesOfChildren : PCBTableArr'[i].status = TERMINATING => PCBTableArr[i].status = TERMINATING
    BY <1>4
  <2> QED BY <1>4, <1>5, <1>12, <2>1, <2>2 DEF SignalInv, Live, EntriesOfChildren
<1>15. QuitReachesAll'
  BY DEF QuitReachesAll
<1> QED BY <1>3, <1>4, <1>5, <1>6, <1>9, <1>10, <1>11, <1>13, <1>14, <1>15

(* The key that interrupts signals what the handler shows as exited. *)
LEMMA InterruptStep ==
  ASSUME Inv, Interrupt
  PROVE  Inv'
<1> USE DEF Inv
<1> DEFINE l == Len(PCBTableArr)
<1>1. /\ pc \notin {"quit", "overrun"} /\ Mislead
      /\ UNCHANGED <<stopped, make_fg, pc, child, at, code, proc, ending>>
      /\ IF LastRunning THEN proc_update_status(Last(PCBTableArr).pid, EXITED, SIGINT) ELSE UNCHANGED PCBTableArr
  BY DEF Interrupt, Over
<1>2. interrputed' \in BOOLEAN /\ stopped' \in BOOLEAN
  BY DEF Interrupt, TypeInv
<1>3. IF LastRunning THEN interrputed' = TRUE ELSE interrputed' = interrputed
  BY DEF Interrupt
<1>4. /\ signals' \in [Pids -> SUBSET {SIGINT, SIGTERM, SIGTSTP}]
      /\ \A p \in Pids : signals'[p] = IF Live(p) THEN signals[p] \cup {SIGINT} ELSE signals[p]
  <2>1. signals \in [Pids -> SUBSET {SIGINT, SIGTERM, SIGTSTP}] /\ {SIGINT} \in SUBSET {SIGINT, SIGTERM, SIGTSTP}
    BY DEF TypeInv
  <2>2. signals' = Send(Pids, {SIGINT})
    BY DEF Interrupt, Interrupted
  <2> QED BY <2>1, <2>2, SendFacts
<1>5. \A p \in Pids : signals[p] \subseteq signals'[p] /\ (~Live(p) => signals'[p] = signals[p])
  BY <1>4
<1>6. EXITED \in Statuses /\ EXITED # TERMINATING /\ EXITED # RUNNING /\ SIGINT \in Int
  BY DEF Statuses, EXITED, RUNNING, TERMINATING, SIGINT
<1>7. /\ Entries' = Entries
      /\ EntriesOfChildren' = EntriesOfChildren
      /\ \A i \in Entries : PCBTableArr'[i].pid = PCBTableArr[i].pid
      /\ \A i \in EntriesOfChildren :
           /\ PCBTableArr'[i].status = IF LastRunning /\ i = l THEN EXITED ELSE PCBTableArr[i].status
           /\ LastRunning /\ i = l => PCBTableArr[i].status = RUNNING
           /\ i = l /\ PCBTableArr[i].status = RUNNING => LastRunning
      /\ misled \subseteq misled'
      /\ pc \in {"forked", "returned"} /\ child \in Pids => child \in misled'
      /\ pc = "foreground" /\ child \in Pids \ misled' => proc[child] # "zombie" /\ signals[child] = {}
      /\ InHand' = InHand
      /\ TypeInv' /\ TableInv' /\ HandInv' /\ SignalInv' /\ QuitReachesAll'
  BY <1>1, <1>2, <1>4, <1>5, <1>6, KeyFacts
<1>8. \A i \in EntriesOfChildren : i \in Entries /\ PCBTableArr[i].pid \in Pids
  BY DEF EntriesOfChildren
<1>9. AwaitedInv'
  <2>1. ASSUME pc = "foreground", child \in Pids \ misled', NEW i \in Entries, PCBTableArr[i].pid = child
        PROVE  Awaited(PCBTableArr[i].status)' /\ ~make_fg'
    <3>1. child \in Pids /\ child \notin misled /\ i = l /\ i \in EntriesOfChildren
      BY <1>7, <2>1 DEF TableInv, EntriesOfChildren
    <3>2. Awaited(PCBTableArr[i].status) /\ ~make_fg /\ proc[child] # "zombie" /\ signals[child] = {}
      BY <1>7, <2>1, <3>1 DEF AwaitedInv
    <3>3. CASE Untouched(PCBTableArr[i].status)
      <4>1. proc[child] = "running" /\ ~stopped /\ LastRunning
        BY <1>7, <3>1, <3>2, <3>3 DEF Awaited, Untouched, Hit, Held
      <4>2. PCBTableArr'[i].status = EXITED /\ interrputed' /\ signals'[child] = {SIGINT}
        BY <1>3, <1>4, <1>7, <3>1, <3>2, <4>1 DEF Live
      <4> QED BY <1>1, <3>2, <4>1, <4>2 DEF Awaited, Hit
    <3>4. CASE Held(PCBTableArr[i].status)
      <4>1. proc[child] = "stopped" /\ stopped /\ ~interrputed /\ PCBTableArr[i].status = STOPPED
        BY <3>2, <3>4 DEF Awaited, Untouched, Hit, Held
      <4>2. ~LastRunning
        BY <1>7, <3>1, <4>1 DEF STOPPED, RUNNING
      <4>3. ~interrputed'
        BY <1>3, <4>1, <4>2
      <4>4. PCBTableArr'[i].status = STOPPED
        BY <1>7, <3>1, <4>1, <4>2
      <4> QED BY <1>1, <3>2, <4>1, <4>3, <4>4 DEF Awaited, Held
    <3>5. ~Hit(PCBTableArr[i].status)
      BY <3>2 DEF Awaited, Untouched, Hit, Held
    <3> QED BY <3>2, <3>3, <3>4, <3>5 DEF Awaited
  <2>2. pc = "foreground" /\ child \in Pids \ misled' => ~make_fg'
    BY <1>1, <1>7 DEF AwaitedInv
  <2> QED BY <1>1, <1>7, <2>1, <2>2 DEF AwaitedInv
<1>10. ExitedIsOver'
  <2> SUFFICES ASSUME NEW i \in EntriesOfChildren, PCBTableArr'[i].status = EXITED, Live(PCBTableArr[i].pid)
               PROVE  SIGINT \in signals'[PCBTableArr[i].pid]
    BY <1>1, <1>7 DEF ExitedIsOver, Live, EntriesOfChildren
  <2> QED BY <1>4, <1>8
<1>11. NoEndIsLost'
  BY <1>1, <1>7 DEF NoEndIsLost, EntriesOfChildren
<1> QED BY <1>7, <1>9, <1>10, <1>11

(* The key that suspends stops what the handler shows as stopped, if it runs. *)
LEMMA SuspendStep ==
  ASSUME Inv, Suspend
  PROVE  Inv'
<1> USE DEF Inv
<1> DEFINE l == Len(PCBTableArr)
<1>1. /\ pc \notin {"quit", "overrun"} /\ Mislead
      /\ UNCHANGED <<interrputed, make_fg, pc, child, at, code, proc, ending>>
      /\ IF LastRunning THEN proc_update_status(Last(PCBTableArr).pid, STOPPED, -1) ELSE UNCHANGED PCBTableArr
  BY DEF Suspend, Over
<1>2. interrputed' \in BOOLEAN /\ stopped' \in BOOLEAN
  BY DEF Suspend, TypeInv
<1>3. IF LastRunning THEN stopped' = TRUE ELSE stopped' = stopped
  BY DEF Suspend
<1>4. /\ signals' \in [Pids -> SUBSET {SIGINT, SIGTERM, SIGTSTP}]
      /\ \A p \in Pids : signals'[p] = IF proc[p] = "running" THEN signals[p] \cup {SIGTSTP} ELSE signals[p]
  <2>1. signals \in [Pids -> SUBSET {SIGINT, SIGTERM, SIGTSTP}] /\ {SIGTSTP} \in SUBSET {SIGINT, SIGTERM, SIGTSTP}
    BY DEF TypeInv
  <2>2. signals' = Send({p \in Pids : proc[p] = "running"}, {SIGTSTP})
    BY DEF Suspend
  <2> QED BY <2>1, <2>2, SendFacts DEF Live
<1>5. \A p \in Pids : signals[p] \subseteq signals'[p] /\ (~Live(p) => signals'[p] = signals[p])
  BY <1>4 DEF Live
<1>6. STOPPED \in Statuses /\ STOPPED # TERMINATING /\ STOPPED # RUNNING /\ STOPPED # EXITED /\ RUNNING # EXITED /\ -1 \in Int
  BY DEF Statuses, EXITED, RUNNING, STOPPED, TERMINATING
<1>7. /\ Entries' = Entries
      /\ EntriesOfChildren' = EntriesOfChildren
      /\ \A i \in Entries : PCBTableArr'[i].pid = PCBTableArr[i].pid
      /\ \A i \in EntriesOfChildren :
           /\ PCBTableArr'[i].status = IF LastRunning /\ i = l THEN STOPPED ELSE PCBTableArr[i].status
           /\ LastRunning /\ i = l => PCBTableArr[i].status = RUNNING
           /\ i = l /\ PCBTableArr[i].status = RUNNING => LastRunning
      /\ misled \subseteq misled'
      /\ pc \in {"forked", "returned"} /\ child \in Pids => child \in misled'
      /\ pc = "foreground" /\ child \in Pids \ misled' => proc[child] # "zombie" /\ signals[child] = {}
      /\ InHand' = InHand
      /\ TypeInv' /\ TableInv' /\ HandInv' /\ SignalInv' /\ QuitReachesAll'
  BY <1>1, <1>2, <1>4, <1>5, <1>6, KeyFacts
<1>8. \A i \in EntriesOfChildren : i \in Entries /\ PCBTableArr[i].pid \in Pids
  BY DEF EntriesOfChildren
<1>9. AwaitedInv'
  <2>1. ASSUME pc = "foreground", child \in Pids \ misled', NEW i \in Entries, PCBTableArr[i].pid = child
        PROVE  Awaited(PCBTableArr[i].status)' /\ ~make_fg'
    <3>1. child \in Pids /\ child \notin misled /\ i = l /\ i \in EntriesOfChildren
      BY <1>7, <2>1 DEF TableInv, EntriesOfChildren
    <3>2. Awaited(PCBTableArr[i].status) /\ ~make_fg /\ proc[child] # "zombie" /\ signals[child] = {}
      BY <1>7, <2>1, <3>1 DEF AwaitedInv
    <3>3. CASE Untouched(PCBTableArr[i].status)
      <4>1. proc[child] = "running" /\ ~interrputed /\ LastRunning
        BY <1>7, <3>1, <3>2, <3>3 DEF Awaited, Untouched, Hit, Held
      <4>2. PCBTableArr'[i].status = STOPPED /\ stopped' /\ signals'[child] = {SIGTSTP}
        BY <1>3, <1>4, <1>7, <3>1, <3>2, <4>1
      <4> QED BY <1>1, <3>2, <4>1, <4>2 DEF Awaited, Held
    <3>4. CASE Held(PCBTableArr[i].status)
      <4>1. proc[child] = "stopped" /\ stopped /\ ~interrputed /\ PCBTableArr[i].status = STOPPED
        BY <3>2, <3>4 DEF Awaited, Untouched, Hit, Held
      <4>2. ~LastRunning
        BY <1>6, <1>7, <3>1, <4>1
      <4>3. stopped'
        BY <1>3, <4>1, <4>2
      <4>4. PCBTableArr'[i].status = STOPPED
        BY <1>7, <3>1, <4>1, <4>2
      <4> QED BY <1>1, <3>2, <4>1, <4>3, <4>4 DEF Awaited, Held
    <3>5. ~Hit(PCBTableArr[i].status)
      BY <3>2 DEF Awaited, Untouched, Hit, Held
    <3> QED BY <3>2, <3>3, <3>4, <3>5 DEF Awaited
  <2>2. pc = "foreground" /\ child \in Pids \ misled' => ~make_fg'
    BY <1>1, <1>7 DEF AwaitedInv
  <2> QED BY <1>1, <1>7, <2>1, <2>2 DEF AwaitedInv
<1>10. ExitedIsOver'
  <2> SUFFICES ASSUME NEW i \in EntriesOfChildren, PCBTableArr'[i].status = EXITED, Live(PCBTableArr[i].pid)
               PROVE  SIGINT \in signals'[PCBTableArr[i].pid] \/ PCBTableArr[i].pid \in misled'
    BY <1>1, <1>7 DEF ExitedIsOver, Live, EntriesOfChildren
  <2>1. PCBTableArr[i].status = EXITED
    BY <1>6, <1>7
  <2> QED BY <1>5, <1>7, <1>8, <2>1 DEF ExitedIsOver, EntriesOfChildren
<1>11. NoEndIsLost'
  BY <1>1, <1>6, <1>7 DEF NoEndIsLost, EntriesOfChildren
<1> QED BY <1>7, <1>9, <1>10, <1>11

-----------------------------------------------------------------------------
(* The theorems *)

LEMMA Invariance == Spec => []Inv
<1>1. Inv /\ [Next]_vars => Inv'
  <2> SUFFICES ASSUME Inv, [Next]_vars PROVE Inv'
    OBVIOUS
  <2>1. CASE \E p \in Pids : ChildEnds(p) \/ ChildStops(p)
    BY <2>1, KernelStep
  <2>2. CASE \E p \in Pids : Exec(p)
    BY <2>2, ExecStep
  <2>3. CASE \E inBackground \in BOOLEAN : create_PCBTable(inBackground)
    BY <2>3, CreateStep
  <2>4. CASE (\E p \in Pids \cup {NoPid} : Wait(p)) \/ PollPasses \/ PollEnds \/ Info \/ WaitFails \/ Quit
    BY <2>4, MoveStep
  <2>5. CASE BackgroundWaits \/ ForegroundReturns \/ ForegroundFails \/ PollFinds \/ WaitReturns
    BY <2>5, ReapStep
  <2>6. CASE PollRecords \/ WaitRecords \/ TerminateRecords \/ FgRecords
    BY <2>6, RecordStep
  <2>7. CASE ForegroundRecords
    BY <2>7, ForegroundRecordsStep
  <2>8. CASE \E p \in Pids \cup {NoPid} : Terminate(p)
    BY <2>8, TerminateStep
  <2>9. CASE \E p \in Pids \cup {NoPid} : Fg(p)
    BY <2>9, FgStep
  <2>10. CASE Kill
    BY <2>10, KillStep
  <2>11. CASE Interrupt
    BY <2>11, InterruptStep
  <2>12. CASE Suspend
    BY <2>12, SuspendStep
  <2>13. CASE ForkFails \/ Overruns
    BY <2>13, ForkStep
  <2>14. CASE UNCHANGED vars
    <3>1. UNCHANGED <<PCBTableArr, interrputed, stopped, make_fg, pc, child, at, code, proc, ending, signals, misled>>
      BY <2>14 DEF vars, flags, kernelVars
    <3>2. Entries' = Entries /\ InHand' = InHand /\ \A q : InTable(q)' <=> InTable(q)
      BY <3>1 DEF Entries, InHand, InTable
    <3>3. TypeInv' /\ HandInv'
      BY <3>1 DEF Inv, TypeInv, HandInv, Live
    <3>4. TableInv'
      BY <3>1, <3>2 DEF Inv, TableInv
    <3>5. AwaitedInv'
      BY <3>1, <3>2 DEF Inv, AwaitedInv, Awaited, Returned, Untouched, Hit, Held
    <3>6. SignalInv' /\ NoEndIsLost' /\ ExitedIsOver' /\ QuitReachesAll'
      BY <3>1, <3>2 DEF Inv, SignalInv, NoEndIsLost, ExitedIsOver, QuitReachesAll, Live, EntriesOfChildren
    <3> QED BY <3>3, <3>4, <3>5, <3>6 DEF Inv
  <2> QED BY <2>1, <2>2, <2>3, <2>4, <2>5, <2>6, <2>7, <2>8, <2>9, <2>10, <2>11, <2>12, <2>13, <2>14
          DEF Next, ExecSteps
<1> QED BY <1>1, InitInv, PTL DEF Spec

(***************************************************************************)
(* NoEndIsLost: wherever a key comes between the waitpid and the update,   *)
(* the end of the child is recorded, by the command or by the handler.     *)
(***************************************************************************)
THEOREM EndsAreKept == Spec => []NoEndIsLost
<1>1. Inv => NoEndIsLost
  BY DEF Inv
<1> QED BY <1>1, Invariance, PTL

(***************************************************************************)
(* ExitedIsOver: the handler signals what it shows as exited, and the      *)
(* other commands have reaped it.                                          *)
(***************************************************************************)
THEOREM ExitedAreOver == Spec => []ExitedIsOver
<1>1. Inv => ExitedIsOver
  BY DEF Inv
<1> QED BY <1>1, Invariance, PTL

(***************************************************************************)
(* QuitReachesAll: what quit passes over is shown as exited or terminating *)
(* and has been signalled before.                                          *)
(***************************************************************************)
THEOREM QuitIsHeard == Spec => []QuitReachesAll
<1>1. Inv => QuitReachesAll
  BY DEF Inv
<1> QED BY <1>1, Invariance, PTL
=============================================================================
