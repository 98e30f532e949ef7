---------------------------- MODULE CommandLine ----------------------------
(***************************************************************************)
(* How the shell, src/cs2106_lab2/myshell.c, takes a line of tokens apart: *)
(* the commands between ";", the arguments of each, whether it runs in the *)
(* background, and the files it is redirected to.  The arrays come from    *)
(* malloc: what is never written to them is Unset.                         *)
(***************************************************************************)
EXTENDS Integers, SequencesExt

CONSTANTS
  NULL,
  JUNK   \* a pointer that was never written, and is not NULL

(* The pointers are neither tokens, of which T has some, nor commands. *)
Pointers(T) == NULL # JUNK /\ {NULL, JUNK} \cap (T \cup Seq(T)) = {}

Separator == ";"
Redirections == {"<", ">", "2>"}

(* The commands are the parts that a ";" ends, and what is left at the end;
   the array has a place for one more than there are ";". *)
AddToken(parsed, token) ==
  LET commands == IF parsed.open THEN parsed.commands ELSE Append(parsed.commands, <<>>)
  IN IF token = Separator
     THEN [commands |-> commands, open |-> FALSE]
     ELSE [commands |-> [commands EXCEPT ![Len(commands)] = Append(@, token)], open |-> TRUE]

parse_command(tokens, Unset) ==
  LET parsed == FoldLeft(AddToken, [commands |-> <<>>, open |-> FALSE], tokens).commands
      num_of_cmds == 1 + Cardinality({i \in DOMAIN tokens : tokens[i] = Separator})
  IN [i \in 1 .. num_of_cmds + 1 |->
        IF i <= Len(parsed) THEN parsed[i] ELSE IF i > num_of_cmds THEN NULL ELSE Unset]

has_redirection(cmd) == \E i \in DOMAIN cmd : cmd[i] \in Redirections
has_ampersand(cmd) == Contains(cmd, "&")

(* Where the arguments end.  A seeded fault: not at the mark of the background. *)
OnlyAtFiles == Redirections
ArgumentsEndAt == Redirections \cup {"&"}

extract_arguments(cmd) ==
  LET end == SelectInSeq(cmd, LAMBDA token : token \in ArgumentsEndAt)
  IN IF end = 0 THEN cmd ELSE SubSeq(cmd, 1, end - 1)

(* The token after each sign, the last one of its kind. *)
parse_redirection(cmd, Unset) ==
  LET Store(files, i) ==
        IF cmd[i] \in Redirections
        THEN [files EXCEPT ![cmd[i]] = IF i < Len(cmd) THEN cmd[i + 1] ELSE NULL]
        ELSE files
  IN FoldLeft(Store, [sign \in Redirections |-> Unset], [i \in DOMAIN cmd |-> i])

(***************************************************************************)
(* What the child does before execv, if these files exist: it exits with 1 *)
(* when its input does not exist, before it opens a file to write.  Any    *)
(* name of an output that is not NULL is opened, and created if need be,   *)
(* one that was never written included.  (No file has a name that was      *)
(* never written, so that such an input does not exist.)                   *)
(***************************************************************************)
NoFiles == [sign \in Redirections |-> NULL]

Redirected(cmd, existing, Unset) ==
  LET files == IF has_redirection(cmd) THEN parse_redirection(cmd, Unset) ELSE NoFiles
  IN IF files["<"] \in existing \cup {NULL}
     THEN [exits |-> FALSE, opened |-> files]
     ELSE [exits |-> TRUE, opened |-> NoFiles]

command(cmd, existing, Unset) ==
  [arguments |-> extract_arguments(cmd), background |-> has_ampersand(cmd),
   child |-> Redirected(cmd, existing, Unset)]

(* my_process_command goes on to the first NULL; a command that is no pointer
   ends the shell. *)
my_process_command(tokens, existing, Unset) ==
  LET commands == parse_command(tokens, Unset)
      end == SelectInSeq(commands, LAMBDA cmd : cmd \in {NULL, JUNK})
  IN [performed |-> [i \in 1 .. end - 1 |-> command(commands[i], existing, Unset)],
      returns |-> commands[end] = NULL]

-----------------------------------------------------------------------------
(* What the exercises ask of a line. *)

(* The k-th part of a line is what stands after k - 1 of its ";": up to the next
   one, or up to the end if that is not just after a ";". *)
EndsInCommand(tokens) == tokens # <<>> /\ Last(tokens) # Separator

Before(tokens, i) == Cardinality({j \in 1 .. i - 1 : tokens[j] = Separator})

Places(tokens, k) == {i \in 1 .. Len(tokens) + 1 : Before(tokens, i) = k - 1}

Parts(tokens) ==
  LET number == Before(tokens, Len(tokens) + 1) + (IF EndsInCommand(tokens) THEN 1 ELSE 0)
  IN [k \in 1 .. number |->
        SubSeq(tokens, Min(Places(tokens, k)), Max(Places(tokens, k)) - 1)]

IsWord(token) == token \notin Redirections \cup {"&", Separator}

(* A program and its arguments, files after the signs, "&" at the end only. *)
IsCommand(cmd) ==
  /\ cmd # <<>> /\ IsWord(cmd[1]) /\ cmd[Len(cmd)] \notin Redirections
  /\ \A i \in 1 .. Len(cmd) - 1 :
       cmd[i] # "&" /\ (cmd[i] \in Redirections => IsWord(cmd[i + 1]))

(* The file of a redirection, and what is taken for one if the command names
   others only: what the memory held. *)
FileAfter(cmd, sign, Unset) ==
  LET at == {i \in DOMAIN cmd : cmd[i] = sign}
  IN IF at # {} THEN cmd[Max(at) + 1] ELSE IF has_redirection(cmd) THEN Unset ELSE NULL

Asked(cmd, existing, Unset) ==
  LET missing == FileAfter(cmd, "<", Unset) \notin existing \cup {NULL}
      words == {i \in DOMAIN cmd : \A j \in 1 .. i : IsWord(cmd[j])}
  IN [arguments |-> [i \in words |-> cmd[i]],
      background |-> cmd[Len(cmd)] = "&",
      child |-> [exits |-> missing,
                 opened |-> [sign \in Redirections |->
                               IF missing THEN NULL ELSE FileAfter(cmd, sign, Unset)]]]

(* All commands of the line are performed; then the shell asks for the next line,
   unless it follows a pointer that was never written. *)
PerformsWhatIsAsked(tokens, existing, Unset) ==
  (\A k \in DOMAIN Parts(tokens) : IsCommand(Parts(tokens)[k]))
  => my_process_command(tokens, existing, Unset) =
       [performed |-> [k \in DOMAIN Parts(tokens) |-> Asked(Parts(tokens)[k], existing, Unset)],
        returns |-> Unset = NULL \/ EndsInCommand(tokens)]
=============================================================================
