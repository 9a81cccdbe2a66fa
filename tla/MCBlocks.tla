------------------------------ MODULE MCBlocks ------------------------------
(* A small instance of Blocks for TLC: one process works on both files, the *)
(* other on the second.                                                     *)
EXTENDS Blocks, TLC

MCOpens == "p" :> {1, 2} @@ "q" :> {2}
MCSizes == "p" :> {3} @@ "q" :> {4}
OneSize == "p" :> {4}
=============================================================================
