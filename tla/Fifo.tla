-------------------------------- MODULE Fifo --------------------------------
(***************************************************************************)
(* What a pipe promises: a bounded queue of bytes.  A write call puts its  *)
(* bytes in order and gives up only when nobody can read any more or its   *)
(* process is killed; a read call takes from the front and returns empty-  *)
(* handed only at end of file or when its process is killed.               *)
(***************************************************************************)
EXTENDS Naturals, Sequences

CONSTANTS Procs, Vals, Capacity, MaxLen

VARIABLES
  queue,
  call,          \* "none", "write" or "read", per process
  todo,          \* bytes the write call has not put yet
  addr,          \* bytes the read call has taken
  killed, readable, writable

fvars == <<queue, call, todo, addr, killed, readable, writable>>

Init ==
  /\ queue = <<>>
  /\ call = [p \in Procs |-> "none"]
  /\ todo = [p \in Procs |-> <<>>]
  /\ addr = [p \in Procs |-> <<>>]
  /\ killed = [p \in Procs |-> FALSE]
  /\ readable = TRUE /\ writable = TRUE

CallWrite(p, bytes) ==
  /\ call[p] = "none" /\ writable
  /\ call' = [call EXCEPT ![p] = "write"]
  /\ todo' = [todo EXCEPT ![p] = bytes]
  /\ UNCHANGED <<queue, addr, killed, readable, writable>>

CallRead(p) ==
  /\ call[p] = "none" /\ readable
  /\ call' = [call EXCEPT ![p] = "read"]
  /\ UNCHANGED <<queue, todo, addr, killed, readable, writable>>

Put(p) ==
  /\ call[p] = "write" /\ todo[p] # <<>> /\ Len(queue) < Capacity
  /\ queue' = Append(queue, Head(todo[p]))
  /\ todo' = [todo EXCEPT ![p] = Tail(@)]
  /\ UNCHANGED <<call, addr, killed, readable, writable>>

Take(p) ==
  /\ call[p] = "read" /\ queue # <<>>
  /\ addr' = [addr EXCEPT ![p] = Append(@, Head(queue))]
  /\ queue' = Tail(queue)
  /\ UNCHANGED <<call, todo, killed, readable, writable>>

ReturnWrite(p) ==
  /\ call[p] = "write"
  /\ \/ todo[p] = <<>>
     \/ Len(queue) = Capacity /\ (~readable \/ killed[p])
  /\ call' = [call EXCEPT ![p] = "none"]
  /\ todo' = [todo EXCEPT ![p] = <<>>]
  /\ UNCHANGED <<queue, addr, killed, readable, writable>>

ReturnRead(p) ==
  /\ call[p] = "read"
  /\ addr[p] # <<>> \/ (queue = <<>> /\ (~writable \/ killed[p]))
  /\ call' = [call EXCEPT ![p] = "none"]
  /\ addr' = [addr EXCEPT ![p] = <<>>]
  /\ UNCHANGED <<queue, todo, killed, readable, writable>>

Kill(p) ==
  /\ killed' = [killed EXCEPT ![p] = TRUE]
  /\ UNCHANGED <<queue, call, todo, addr, readable, writable>>

(* An end is closed when no process is using it.                            *)
CloseRead ==
  /\ \A p \in Procs : call[p] # "read"
  /\ readable' = FALSE
  /\ UNCHANGED <<queue, call, todo, addr, killed, writable>>

CloseWrite ==
  /\ \A p \in Procs : call[p] # "write"
  /\ writable' = FALSE
  /\ UNCHANGED <<queue, call, todo, addr, killed, readable>>

Bytes == UNION {[1..n -> Vals] : n \in 1..MaxLen}

Next ==
  \/ \E p \in Procs : \/ \E bytes \in Bytes : CallWrite(p, bytes)
                      \/ CallRead(p) \/ Put(p) \/ Take(p)
                      \/ ReturnWrite(p) \/ ReturnRead(p) \/ Kill(p)
  \/ CloseRead \/ CloseWrite

Spec == Init /\ [][Next]_fvars

=============================================================================
