------------------------------- MODULE TxDisk -------------------------------
(***************************************************************************)
(* What the log promises the file system: a disk whose blocks change only  *)
(* by whole groups of finished operations.  Operations run between Begin   *)
(* and End and write blocks of the current contents; a commit, only when   *)
(* no operation is active, makes the current contents durable; a crash     *)
(* falls back to the durable contents.                                     *)
(***************************************************************************)
EXTENDS Naturals

CONSTANTS Blocks, Vals

VARIABLES durable, current, active

txvars == <<durable, current, active>>

Init == \E v0 \in Vals :
  /\ durable = [b \in Blocks |-> v0]
  /\ current = durable
  /\ active = 0

Begin == active' = active + 1 /\ UNCHANGED <<durable, current>>

Write(b, v) ==
  /\ active > 0
  /\ current' = [current EXCEPT ![b] = v]
  /\ UNCHANGED <<durable, active>>

End == active > 0 /\ active' = active - 1 /\ UNCHANGED <<durable, current>>

Commit ==
  /\ active = 0
  /\ durable' = current
  /\ UNCHANGED <<current, active>>

Crash ==
  /\ current' = durable
  /\ active' = 0
  /\ UNCHANGED durable

Next == \/ Begin \/ End \/ Commit \/ Crash
        \/ \E b \in Blocks, v \in Vals : Write(b, v)

Spec == Init /\ [][Next]_txvars

=============================================================================
