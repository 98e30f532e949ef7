------------------------------ MODULE MCShell ------------------------------
(* Model checking Shell, with the lines it takes its commands from. *)
EXTENDS Shell, CommandLine

CONSTANT MaxTokens  \* bound on the lines

Tokens == {"prog", "file", Separator, "&", "<", ">", "2>"}

ASSUME MCShellAssumption == Pointers(Tokens) /\ MaxTokens \in Nat

Misread ==
  {line \in SeqOf(Tokens, MaxTokens) :
     \E existing \in {{}, {"file"}}, Unset \in {NULL, JUNK} :
       ~PerformsWhatIsAsked(line, existing, Unset)}

(***************************************************************************)
(* "Split tokens at NULL or ;": at the prompt a line of commands is taken  *)
(* apart as the exercises ask, and what the memory held before shows in    *)
(* two places only: it is taken for the files that a command with another  *)
(* redirection does not name, and after an empty line or a last ";" the    *)
(* shell takes it for one more command.                                    *)
(***************************************************************************)
LinesAreTakenApart == Prompt => Misread = {}
=============================================================================
