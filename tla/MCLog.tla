------------------------------- MODULE MCLog -------------------------------
(* Small instances of Log for TLC.                                          *)
EXTENDS Log, TLC

CONSTANTS p1, p2, p3

TwoProcs   == {p1, p2}
ThreeProcs == {p1, p2, p3}
Sym == Permutations(Procs)

=============================================================================
