--------------------------- MODULE LineDiscipline ---------------------------
(***************************************************************************)
(* What the console promises: keys edit a line, a finished line can be     *)
(* read in order, at most Cap characters are kept.                         *)
(***************************************************************************)
EXTENDS Integers, Sequences

CONSTANTS Cap, Chars, Enders
VARIABLES lines, edit

lineVars == <<lines, edit>>

LineInit == lines = <<>> /\ edit = <<>>

(* A character, which may finish the line; a full buffer finishes it too.    *)
Type(c) ==
  LET e == Append(edit, c)
  IN /\ Len(lines) + Len(edit) < Cap
     /\ IF c \in Enders \/ Len(lines \o e) = Cap
        THEN lines' = lines \o e /\ edit' = <<>> ELSE edit' = e /\ UNCHANGED lines

Erase == edit # <<>> /\ edit' = SubSeq(edit, 1, Len(edit) - 1) /\ UNCHANGED lines
EraseLine == edit' = <<>> /\ UNCHANGED lines
Take == lines # <<>> /\ lines' = Tail(lines) /\ UNCHANGED edit

LineNext == (\E c \in Chars \cup Enders : Type(c)) \/ Erase \/ EraseLine \/ Take

LineSpec == LineInit /\ [][LineNext]_lineVars
=============================================================================
