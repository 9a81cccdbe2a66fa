------------------------------- MODULE MCBio -------------------------------
(* Small instances of Bio for TLC.                                          *)
EXTENDS Bio, TLC

CONSTANTS p1, p2

=============================================================================
