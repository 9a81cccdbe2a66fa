-------------------------------- MODULE Files --------------------------------
(***************************************************************************)
(* The file table of file.c under open(), dup(), close(), pipe(), fork()   *)
(* and exit(): who refers to which entry, and when the inode or the pipe   *)
(* end behind it is given back.  A step is one critical section of         *)
(* ftable.lock with what the process does alone around it.                 *)
(***************************************************************************)
EXTENDS Integers, Sequences, FiniteSetsExt, Functions

CONSTANTS NFILE, NOFILE, FProcs, NPIPE  \* NPIPE: pages for pipes, a bound

VARIABLES
  ftable,       \* ref, type, and for a pipe which one and whether writable
  ofile,        \* an entry or 0 for each descriptor
  alive,        \* processes that are not in exit() or gone
  pipe,         \* readopen and writeopen; neither: no such pipe
  iref,         \* references to inodes held through open()
  fop           \* what a process is doing

filesVars == <<ftable, ofile, alive, pipe, iref, fop>>

Entries == 1..NFILE
Fds == 0..(NOFILE - 1)
FreeFile == [ref |-> 0, type |-> "FD_NONE", pipe |-> 0, writable |-> FALSE]
NoPipe == [readopen |-> FALSE, writeopen |-> FALSE]
Rest == [pc |-> "user", held |-> <<>>, owed |-> 0, close |-> <<>>, obj |-> FreeFile,
         child |-> 0, fd |-> 0]

FilesInit ==
  /\ ftable = [f \in Entries |-> FreeFile]
  /\ ofile = [p \in FProcs |-> [fd \in Fds |-> 0]]
  /\ alive = {Min(FProcs)}
  /\ pipe = [k \in 1..NPIPE |-> NoPipe]
  /\ iref = 0 /\ fop = [p \in FProcs |-> Rest]

FGo(p, r) == fop' = [fop EXCEPT ![p] = r]
Called(p) == p \in alive /\ fop[p].pc = "user"

(* filealloc(): the first entry without references; 0 if there is none.      *)
filealloc ==
  LET free == {f \in Entries : ftable[f].ref = 0} IN IF free = {} THEN 0 ELSE Min(free)

(* fdalloc(): the first descriptor free; NOFILE if there is none.            *)
fdalloc(of) == Min({fd \in Fds : of[fd] = 0} \cup {NOFILE})

Take(f) == [ftable EXCEPT ![f].ref = 1]

(* Where a call that closes files goes on: only exit() is called on by a     *)
(* process that is no longer alive.                                          *)
Closed(p) == IF p \in alive THEN Rest ELSE [Rest EXCEPT !.pc = "exit"]

(* fileclose() of the entries of s, one after the other.                     *)
Close(p, s) == IF s = <<>> THEN Closed(p) ELSE [Rest EXCEPT !.pc = "close", !.close = s]

-----------------------------------------------------------------------------
(* sys_open() with the inode at hand.                                        *)
OpenAlloc(p) ==
  /\ Called(p) /\ filealloc # 0
  /\ ftable' = Take(filealloc) /\ iref' = iref + 1
  /\ FGo(p, [Rest EXCEPT !.pc = "open", !.held = <<filealloc>>])
  /\ UNCHANGED <<ofile, alive, pipe>>

OpenFd(p) ==
  LET r == fop[p] f == r.held[1] fd == fdalloc(ofile[p])
  IN /\ r.pc = "open"
     /\ IF fd < NOFILE
        THEN /\ ofile' = [ofile EXCEPT ![p][fd] = f]
             /\ ftable' = [ftable EXCEPT ![f].type = "FD_INODE"]
             /\ FGo(p, Rest) /\ UNCHANGED iref
        ELSE FGo(p, Close(p, <<f>>)) /\ iref' = iref - 1 /\ UNCHANGED <<ofile, ftable>>
     /\ UNCHANGED <<alive, pipe>>

(* sys_dup(): the descriptor is there before the reference.                  *)
DupFd(p, fd) ==
  LET f == ofile[p][fd] new == fdalloc(ofile[p])
  IN /\ Called(p) /\ f # 0 /\ new < NOFILE
     /\ ofile' = [ofile EXCEPT ![p][new] = f]
     /\ FGo(p, [Rest EXCEPT !.pc = "dup", !.owed = f])
     /\ UNCHANGED <<ftable, alive, pipe, iref>>

filedup(f) == [ftable EXCEPT ![f].ref = @ + 1]

DupRef(p) ==
  /\ fop[p].pc = "dup"
  /\ ftable' = filedup(fop[p].owed) /\ FGo(p, Rest)
  /\ UNCHANGED <<ofile, alive, pipe, iref>>

CloseFd(p, fd) ==
  /\ Called(p) /\ ofile[p][fd] # 0
  /\ ofile' = [ofile EXCEPT ![p][fd] = 0]
  /\ FGo(p, Close(p, <<ofile[p][fd]>>))
  /\ UNCHANGED <<ftable, alive, pipe, iref>>

(* The entry after --f->ref.                                                 *)
Drop(f) == IF f.ref = 1 THEN FreeFile ELSE [f EXCEPT !.ref = @ - 1]

(* fileclose(), under the lock: the last reference takes a copy.             *)
FileClose(p) ==
  LET r == fop[p] f == Head(r.close)
  IN /\ r.pc = "close"
     /\ ftable' = [ftable EXCEPT ![f] = Drop(@)]
     /\ FGo(p, IF ftable[f].ref = 1 THEN [r EXCEPT !.pc = "object", !.obj = ftable[f], !.close = Tail(@)]
               ELSE Close(p, Tail(r.close)))
     /\ UNCHANGED <<ofile, alive, pipe, iref>>

(* Mutant: the other end of the pipe is closed.                              *)
pipecloseOther(writable, q) ==
  IF writable THEN [q EXCEPT !.readopen = FALSE] ELSE [q EXCEPT !.writeopen = FALSE]

pipeclose(writable, q) ==
  IF writable THEN [q EXCEPT !.writeopen = FALSE] ELSE [q EXCEPT !.readopen = FALSE]

(* ... and afterwards pipeclose() or iput() of what the copy names.          *)
CloseObject(p) ==
  LET r == fop[p] o == r.obj
  IN /\ r.pc = "object"
     /\ pipe' = IF o.type = "FD_PIPE" THEN [pipe EXCEPT ![o.pipe] = pipeclose(o.writable, @)] ELSE pipe
     /\ iref' = IF o.type = "FD_INODE" THEN iref - 1 ELSE iref
     /\ FGo(p, Close(p, r.close))
     /\ UNCHANGED <<ftable, ofile, alive>>

-----------------------------------------------------------------------------
(* sys_pipe() and pipealloc(): two entries, then a page, then descriptors.   *)
PipeAlloc(p) ==
  LET r == fop[p] first == r.pc = "user"
  IN /\ Called(p) \/ r.pc = "pipe"
     /\ Len(r.held) < 2
     /\ first => filealloc # 0
     /\ IF filealloc # 0
        THEN /\ ftable' = Take(filealloc)
             /\ FGo(p, [r EXCEPT !.pc = "pipe", !.held = Append(@, filealloc)])
        ELSE FGo(p, Close(p, r.held)) /\ UNCHANGED ftable
     /\ UNCHANGED <<ofile, alive, pipe, iref>>

PipeFds(p) ==
  LET r == fop[p]
      free == {k \in DOMAIN pipe : pipe[k] = NoPipe}
      k == Min(free)
      rf == r.held[1] wf == r.held[2]
      fd0 == fdalloc(ofile[p])
      of == IF fd0 < NOFILE THEN [ofile[p] EXCEPT ![fd0] = rf] ELSE ofile[p]
      fd1 == fdalloc(of)
  IN /\ r.pc = "pipe" /\ Len(r.held) = 2
     /\ IF free = {} THEN FGo(p, Close(p, r.held)) /\ UNCHANGED <<ftable, ofile, pipe>>
        ELSE /\ pipe' = [pipe EXCEPT ![k] = [readopen |-> TRUE, writeopen |-> TRUE]]
             /\ ftable' = [ftable EXCEPT ![rf].type = "FD_PIPE", ![rf].pipe = k,
                             ![wf].type = "FD_PIPE", ![wf].pipe = k, ![wf].writable = TRUE]
             /\ IF fd1 < NOFILE
                THEN ofile' = [ofile EXCEPT ![p] = [of EXCEPT ![fd1] = wf]] /\ FGo(p, Rest)
                ELSE FGo(p, Close(p, r.held)) /\ UNCHANGED ofile
     /\ UNCHANGED <<alive, iref>>

-----------------------------------------------------------------------------
(* fork(): the child gets the files one by one, then runs.                   *)
ForkStart(p, q) ==
  /\ Called(p) /\ q \notin alive
  /\ \A o \in FProcs : fop[o].child # q /\ fop[q].pc = "user"
  /\ FGo(p, [Rest EXCEPT !.pc = "fork", !.child = q])
  /\ UNCHANGED <<ftable, ofile, alive, pipe, iref>>

ForkDup(p) ==
  LET r == fop[p] f == IF r.fd < NOFILE THEN ofile[p][r.fd] ELSE 0
  IN /\ r.pc = "fork"
     /\ IF r.fd = NOFILE THEN alive' = alive \cup {r.child} /\ FGo(p, Rest) /\ UNCHANGED <<ftable, ofile>>
        ELSE /\ FGo(p, [r EXCEPT !.fd = @ + 1])
             /\ ftable' = IF f # 0 THEN filedup(f) ELSE ftable
             /\ ofile' = [ofile EXCEPT ![r.child][r.fd] = f]
             /\ UNCHANGED alive
     /\ UNCHANGED <<pipe, iref>>

(* exit() closes the descriptors in order.  init, the first, never exits.    *)
ExitStart(p) ==
  /\ Called(p) /\ p # Min(FProcs)
  /\ alive' = alive \ {p} /\ FGo(p, [Rest EXCEPT !.pc = "exit"])
  /\ UNCHANGED <<ftable, ofile, pipe, iref>>

ExitFd(p) ==
  LET open == {fd \in Fds : ofile[p][fd] # 0} fd == Min(open)
  IN /\ fop[p].pc = "exit"
     /\ IF open = {} THEN FGo(p, Rest) /\ UNCHANGED ofile
        ELSE /\ ofile' = [ofile EXCEPT ![p][fd] = 0]
             /\ FGo(p, Close(p, <<ofile[p][fd]>>))
     /\ UNCHANGED <<ftable, alive, pipe, iref>>

FilesNext ==
  \E p \in FProcs :
    \/ OpenAlloc(p) \/ OpenFd(p) \/ DupRef(p) \/ FileClose(p) \/ CloseObject(p)
    \/ \E fd \in Fds : DupFd(p, fd) \/ CloseFd(p, fd)
    \/ PipeAlloc(p) \/ PipeFds(p)
    \/ \E q \in FProcs : ForkStart(p, q)
    \/ ForkDup(p) \/ ExitStart(p) \/ ExitFd(p)

FilesSpec == FilesInit /\ [][FilesNext]_filesVars

-----------------------------------------------------------------------------
Count(s, f) == Cardinality({i \in DOMAIN s : s[i] = f})

(* The references to f of a process with descriptors of, in a call r, which  *)
(* may hold some for a moment; dup() owes one for a moment.                  *)
Uses(of, r, f) ==
  Count(of, f) + Count(r.held, f) + Count(r.close, f) - (IF r.owed = f THEN 1 ELSE 0)

(* An entry counts the descriptors and calls, of all processes, that refer   *)
(* to it.                                                                    *)
RefsCounted ==
  \A f \in Entries :
    ftable[f].ref = MapThenSumSet(LAMBDA p : Uses(ofile[p], fop[p], f), FProcs)

(* Entries, and calls in fileclose(), behind which there is an end of a pipe.*)
Holds(o, k, w) == o.type = "FD_PIPE" /\ o.pipe = k /\ o.writable = w
Ends(k, w) == Cardinality({f \in Entries : Holds(ftable[f], k, w)})
              + Cardinality({p \in FProcs : Holds(fop[p].obj, k, w)})
One(b) == IF b THEN 1 ELSE 0

(* Every end of a pipe that is open is behind exactly one entry, or about to *)
(* be closed by the call that dropped the last reference, and there are as   *)
(* many references to inodes as entries that hold one: no end and no inode   *)
(* is closed twice or not at all, though entries are reused at once.         *)
ObjectsHeld ==
  /\ \A k \in DOMAIN pipe : /\ Ends(k, FALSE) = One(pipe[k].readopen)
                            /\ Ends(k, TRUE) = One(pipe[k].writeopen)
  /\ iref = Cardinality({f \in Entries : ftable[f].type = "FD_INODE"})
            + Cardinality({p \in FProcs : fop[p].obj.type = "FD_INODE"})
            + Cardinality({p \in FProcs : fop[p].pc = "open"})

(* A file at rest that a descriptor names is open, and an entry that nobody  *)
(* refers to is closed.                                                      *)
OpenIsTyped ==
  \A f \in Entries :
    /\ ftable[f].ref = 0 => ftable[f] = FreeFile
    /\ (\E p \in FProcs : f \in Range(ofile[p])) => ftable[f].type # "FD_NONE"

(* What the file table promises, together.                                   *)
FilesSound == RefsCounted /\ ObjectsHeld /\ OpenIsTyped
=============================================================================
