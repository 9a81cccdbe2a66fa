-------------------------------- MODULE Shell --------------------------------
(***************************************************************************)
(* runcmd() and main() of sh.c: the processes that a command line starts,  *)
(* the pipe ends that they inherit, duplicate and close, and who waits for *)
(* whom.  Each process runs a sequence of system calls.  A program is one  *)
(* that fills its output ("yes"), reads its input to the end ("cat") or    *)
(* ends at once ("true"); PIPESIZE bytes fit into a pipe.                  *)
(***************************************************************************)
EXTENDS Integers, Sequences, FiniteSetsExt, SequencesExt, Functions

CONSTANTS NPROCS, NOFILES, PIPESIZE, OUTPUT, Lines

VARIABLES
  sh,       \* the processes: code, open files, p[0] and p[1], parent, left to write,
            \* and whether the line goes on without it
  data      \* bytes in a pipe

shellVars == <<sh, data>>

Pids == 1..NPROCS
main == 1
initpid == 0
sFds == 0..(NOFILES - 1)
I(op, arg) == [op |-> op, arg |-> arg]
NoProc == [st |-> "UNUSED", code |-> <<>>, ofile |-> [fd \in sFds |-> <<>>],
           p |-> <<0, 0>>, parent |-> 0, left |-> 0, bg |-> FALSE]
Prompt == <<I("prompt", 0)>>

(* Mutant: the parent of a pipeline waits once.                              *)
runPipeWaitsOnce(cmd) ==
  <<I("pipe", 0), I("fork", <<"left", cmd.left>>), I("fork", <<"right", cmd.right>>),
    I("closep", 1), I("closep", 2), I("wait", 0)>>

(* runcmd(), case PIPE.                                                      *)
runPipe(cmd) ==
  <<I("pipe", 0), I("fork", <<"left", cmd.left>>), I("fork", <<"right", cmd.right>>),
    I("closep", 1), I("closep", 2), I("wait", 0), I("wait", 0)>>

(* runcmd(): the calls up to the next runcmd(), and exit() at the end.       *)
runcmd(cmd) ==
  CASE cmd.type = "EXEC" -> <<I("exec", cmd.prog)>>
    [] cmd.type = "REDIR" -> <<I("close", cmd.fd), I("open", 0), I("run", cmd.cmd)>>
    [] cmd.type = "LIST" -> <<I("fork", <<"", cmd.left>>), I("wait", 0), I("run", cmd.right)>>
    [] cmd.type = "PIPE" -> runPipe(cmd)
    [] cmd.type = "BACK" -> <<I("fork", <<"back", cmd.cmd>>)>>

(* The child of a fork1(): an end of the pipe becomes descriptor 1 or 0.     *)
child(how, cmd) ==
  (CASE how = "left" -> <<I("close", 1), I("dup", 2), I("closep", 1), I("closep", 2)>>
     [] how = "right" -> <<I("close", 0), I("dup", 1), I("closep", 1), I("closep", 2)>>
     [] OTHER -> <<>>) \o <<I("run", cmd)>>

ShellInit ==
  /\ sh = [q \in Pids |-> IF q = main
             THEN [NoProc EXCEPT !.st = "RUN", !.code = Prompt,
                                 !.ofile = [fd \in sFds |-> IF fd < 3 THEN <<"console">> ELSE <<>>]]
             ELSE NoProc]
  /\ data = [k \in Pids |-> 0]

-----------------------------------------------------------------------------
At(q, op) == sh[q].st = "RUN" /\ sh[q].code # <<>> /\ Head(sh[q].code).op = op
Arg(q) == Head(sh[q].code).arg
Goes(q, r) == sh' = [sh EXCEPT ![q] = [r EXCEPT !.code = Tail(@)]]
lowest(q) == Min({fd \in sFds : sh[q].ofile[fd] = <<>>})

(* The ends of pipe k: k is the pid of the process that made it.             *)
Open(s, k, end) == \E q \in Pids : <<k, end>> \in Range(s[q].ofile)

(* main(): a line is read, a child runs it, main waits.  The user waits for  *)
(* what is in the background before the next line, a bound.                  *)
GetCmd(q) ==
  /\ At(q, "prompt") /\ \A n \in Pids \ {q} : sh[n].st = "UNUSED"
  /\ \E l \in Lines :
       sh' = [sh EXCEPT ![q].code = <<I("fork", <<"", l>>), I("wait", 0)>> \o Prompt]
  /\ UNCHANGED data

(* fork1() of main(), runcmd() and a pipeline.                               *)
ForkChild(q) ==
  LET free == {n \in Pids : sh[n].st = "UNUSED"} n == Min(free)
      made == [sh[q] EXCEPT !.code = child(Arg(q)[1], Arg(q)[2]), !.parent = q,
                               !.bg = @ \/ Arg(q)[1] = "back"]
  IN /\ At(q, "fork") /\ free # {}
     /\ sh' = [sh EXCEPT ![q].code = Tail(@), ![n] = made]
     /\ UNCHANGED data

(* Mutant: fork1() tries again until it succeeds.                            *)
ForkFailsRetries(q) ==
  /\ At(q, "fork") /\ \A n \in Pids : sh[n].st # "UNUSED"
  /\ UNCHANGED shellVars

(* fork() without a free process: fork1() exits.  After main(), init starts  *)
(* another sh.                                                               *)
ForkFails(q) ==
  /\ At(q, "fork") /\ \A n \in Pids : sh[n].st # "UNUSED"
  /\ sh' = [n \in Pids |->
       IF n = q THEN [sh[q] EXCEPT !.code = IF q = main THEN Prompt ELSE <<>>]
       ELSE IF sh[n].st = "RUN" /\ sh[n].parent = q THEN [sh[n] EXCEPT !.bg = TRUE] ELSE sh[n]]
  /\ UNCHANGED data

(* runcmd() of a command within the command.                                 *)
Run(q) ==
  /\ At(q, "run")
  /\ sh' = [sh EXCEPT ![q].code = runcmd(Arg(q))]
  /\ UNCHANGED data

(* close(), dup(), open() and pipe() on the lowest descriptors; sh exits if  *)
(* open() or pipe() fails.                                                   *)
CloseFd(q) ==
  /\ At(q, "close") \/ At(q, "closep")
  /\ LET fd == IF At(q, "close") THEN Arg(q) ELSE sh[q].p[Arg(q)]
     IN Goes(q, [sh[q] EXCEPT !.ofile[fd] = <<>>])
  /\ UNCHANGED data

DupFd(q) ==
  /\ At(q, "dup")
  /\ Goes(q, [sh[q] EXCEPT !.ofile[lowest(q)] = sh[q].ofile[sh[q].p[Arg(q)]]])
  /\ UNCHANGED data

OpenFile(q) ==
  /\ At(q, "open")
  /\ \/ Goes(q, [sh[q] EXCEPT !.ofile[lowest(q)] = <<"file">>])
     \/ sh' = [sh EXCEPT ![q].code = <<>>]
  /\ UNCHANGED data

MakePipe(q) ==
  LET a == lowest(q) b == Min({fd \in sFds : fd > a /\ sh[q].ofile[fd] = <<>>})
  IN /\ At(q, "pipe")
     /\ \/ Goes(q, [sh[q] EXCEPT !.ofile[a] = <<q, "read">>, !.ofile[b] = <<q, "write">>, !.p = <<a, b>>])
        \/ sh' = [sh EXCEPT ![q].code = <<>>]
     /\ data' = [data EXCEPT ![q] = 0]

-----------------------------------------------------------------------------
(* exec(): the program runs on with the descriptors, or exec() fails.        *)
Exec(q) ==
  /\ At(q, "exec")
  /\ \/ sh' = [sh EXCEPT ![q].code = CASE Arg(q) = "yes" -> <<I("write", 0)>>
                                       [] Arg(q) = "cat" -> <<I("read", 0)>>
                                       [] OTHER -> <<>>,
                         ![q].left = IF Arg(q) = "yes" THEN OUTPUT ELSE 0]
     \/ sh' = [sh EXCEPT ![q].code = <<>>]
  /\ UNCHANGED data

(* A byte into descriptor 1; a full pipe without readers ends the program.   *)
Write(q) ==
  LET f == sh[q].ofile[1]
      topipe == Len(f) = 2
      full == topipe /\ data[f[1]] = PIPESIZE
      broken == full /\ ~Open(sh, f[1], "read")
      left == sh[q].left - 1
  IN /\ At(q, "write")
     /\ full => broken
     /\ data' = IF topipe /\ ~full THEN [data EXCEPT ![f[1]] = @ + 1] ELSE data
     /\ sh' = [sh EXCEPT ![q].left = left, ![q].code = IF broken \/ left = 0 THEN <<>> ELSE @]

(* A byte from descriptor 0, or its end.  The user ends the console's input. *)
Read(q) ==
  LET f == sh[q].ofile[0]
      more == Len(f) = 2 /\ data[f[1]] > 0
  IN /\ At(q, "read")
     /\ Len(f) = 2 => more \/ ~Open(sh, f[1], "write")
     /\ data' = IF more THEN [data EXCEPT ![f[1]] = @ - 1] ELSE data
     /\ sh' = IF more THEN sh ELSE [sh EXCEPT ![q].code = <<>>]

(* exit(): files are closed, children go to init, which reaps at once.       *)
ExitProc(q) ==
  /\ q # main /\ sh[q].st = "RUN" /\ sh[q].code = <<>>
  /\ sh' = [n \in Pids |->
       IF n = q THEN IF sh[q].parent = initpid THEN NoProc
                     ELSE [NoProc EXCEPT !.st = "ZOMBIE", !.parent = sh[q].parent]
       ELSE IF sh[n].parent = q /\ sh[n].st = "ZOMBIE" THEN NoProc
       ELSE IF sh[n].parent = q THEN [sh[n] EXCEPT !.parent = initpid] ELSE sh[n]]
  /\ UNCHANGED data

(* wait(): a child that ended is reaped; without children it returns.        *)
WaitChild(q) ==
  LET kids == {n \in Pids : sh[n].st # "UNUSED" /\ sh[n].parent = q}
      dead == {n \in kids : sh[n].st = "ZOMBIE"}
  IN /\ At(q, "wait")
     /\ kids = {} \/ dead # {}
     /\ sh' = [n \in Pids |-> IF n = q THEN [sh[q] EXCEPT !.code = Tail(@)]
                              ELSE IF dead # {} /\ n = Min(dead) THEN NoProc ELSE sh[n]]
     /\ UNCHANGED data

ShellStep(q) ==
  \/ ForkChild(q) \/ ForkFails(q) \/ Run(q) \/ CloseFd(q) \/ DupFd(q) \/ OpenFile(q) \/ MakePipe(q)
  \/ Exec(q) \/ Write(q) \/ Read(q) \/ ExitProc(q) \/ WaitChild(q)

ShellNext == \E q \in Pids : GetCmd(q) \/ ShellStep(q)

(* Every process that can go on goes on.                                     *)
ShellFairness == \A q \in Pids : WF_shellVars(ShellStep(q))
ShellSpec == ShellInit /\ [][ShellNext]_shellVars

-----------------------------------------------------------------------------
(* When the prompt is there, every process of the lines so far has ended and *)
(* been reaped, but for what was put into the background and what a pipeline *)
(* left that could not fork.                                                 *)
PromptAlone ==
  At(main, "prompt") => \A q \in Pids \ {main} : sh[q].st = "UNUSED" \/ sh[q].bg

(* Every line ends: each reader of a pipe sees the end of its input and each *)
(* writer the end of its reader, for no process keeps an end it does not use. *)
LineEnds == ~At(main, "prompt") ~> At(main, "prompt")
=============================================================================
