----------------------------- MODULE MCProgress -----------------------------
(* Console, Clock and Shell side by side for TLC, with fairness; in a       *)
(* behaviour one of them moves, the part.                                   *)
EXTENDS Console, Clock

CONSTANTS
  NPROCS, NOFILES, PIPESIZE, OUTPUT, Lines

VARIABLES part, sh, data

She == INSTANCE Shell

shev == <<sh, data>>
all == <<part, consoleVars, clockVars, shev>>

(* yes | cat | true; true | cat; yes | true; yes & cat > file               *)
X(p) == [type |-> "EXEC", prog |-> p]
P(l, r) == [type |-> "PIPE", left |-> l, right |-> r]
MCLines ==
  {P(X("yes"), P(X("cat"), X("true"))), P(X("true"), X("cat")), P(X("yes"), X("true")),
   [type |-> "LIST", left |-> [type |-> "BACK", cmd |-> X("yes")],
    right |-> [type |-> "REDIR", fd |-> 1, cmd |-> X("cat")]]}

MCInit ==
  /\ part \in {"console", "clock", "shell"}
  /\ ConsoleInit /\ ClockInit /\ She!ShellInit

ByConsole(A) == part = "console" /\ A /\ UNCHANGED <<part, clockVars, shev>>
ByClock(A)   == part = "clock" /\ A /\ UNCHANGED <<part, consoleVars, shev>>
ByShell(A)   == part = "shell" /\ A /\ UNCHANGED <<part, consoleVars, clockVars>>

MCNext ==
  \/ ByConsole(ConsoleNext)
  \/ ByClock(ClockNext)
  \/ ByShell(She!ShellNext)

(* The fairness of the three specifications, of the part that moves.        *)
MCFairness ==
  /\ \A p \in CReaders : WF_all(ByConsole(ReaderStep(p)))
  /\ WF_all(ByClock(Tick))
  /\ \A p \in Sleepers : WF_all(ByClock(Check(p)))
  /\ \A q \in 1..NPROCS : WF_all(ByShell(She!ShellStep(q)))

MCSpec == MCInit /\ [][MCNext]_all /\ MCFairness

(* Shell: at the prompt, what ran in the foreground has ended.              *)
PromptAlone == part = "shell" => She!PromptAlone
(* Shell: every line ends.                                                  *)
LineEnds == She!LineEnds
=============================================================================
