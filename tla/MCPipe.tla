------------------------------- MODULE MCPipe -------------------------------
(* Small instances of Pipe for TLC.                                         *)
EXTENDS Pipe, TLC

CONSTANTS p1, p2, p3

=============================================================================
