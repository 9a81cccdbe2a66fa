------------------------------- MODULE MCProc -------------------------------
(* Small instances of Proc for TLC.  Pid 2 is the first process init forks; *)
(* -20 is the priority whose sign and magnitude both matter most.           *)
EXTENDS Proc

MCPriorities == {-20}
NoPriorities == {}

=============================================================================
