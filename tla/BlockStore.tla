----------------------------- MODULE BlockStore -----------------------------
(***************************************************************************)
(* What the buffer cache promises: a block is used by one process at a     *)
(* time, which sees what the last process to use it left there.            *)
(***************************************************************************)
CONSTANTS Procs, Blocks, Vals, None

VARIABLES
  mem,      \* contents of every block
  user      \* the process that has the block locked, or None

bsvars == <<mem, user>>

Init ==
  /\ \E v \in Vals : mem = [k \in Blocks |-> v]
  /\ user = [k \in Blocks |-> None]

Lock(p, k) ==
  /\ user[k] = None
  /\ user' = [user EXCEPT ![k] = p]
  /\ UNCHANGED mem

Write(p, k, v) ==
  /\ user[k] = p
  /\ mem' = [mem EXCEPT ![k] = v]
  /\ UNCHANGED user

Unlock(p, k) ==
  /\ user[k] = p
  /\ user' = [user EXCEPT ![k] = None]
  /\ UNCHANGED mem

Next == \E p \in Procs, k \in Blocks :
          Lock(p, k) \/ Unlock(p, k) \/ \E v \in Vals : Write(p, k, v)

Spec == Init /\ [][Next]_bsvars

=============================================================================
