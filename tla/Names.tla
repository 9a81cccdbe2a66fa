------------------------------- MODULE Names -------------------------------
(***************************************************************************)
(* The inode cache of fs.c (iget, ilock, iput) under the system calls of   *)
(* sysfile.c that work on names: link, unlink, create, open, mkdir, mknod, *)
(* chdir and close, run by any number of processes.  A step is what a      *)
(* process does between two points where it may wait for an inode lock or  *)
(* where another CPU can see the difference; path lookup and iput() are    *)
(* subroutines that continue at k.  Blocks, buffers and the log are below  *)
(* this module: an inode and a directory are read and written whole.       *)
(***************************************************************************)
EXTENDS Integers, Sequences, FiniteSetsExt

CONSTANTS
  Procs,
  NINODES,      \* the highest inode number, sb.ninodes - 1
  NINODE,       \* slots of the inode cache
  DirNames,     \* names other than "." and ".."
  Calls         \* system calls: who, what, path, second path, type or mode

Inums   == 1..NINODES
ROOTINO == 1
Slots   == 1..NINODE
None    == "none"
AllNames == DirNames \cup {".", ".."}

VARIABLES
  dinode,       \* on disk: type ("none" is 0) and nlink
  dirent,       \* contents of a directory: an inum, or 0, for every name
  icache,
  cwd, ofile,   \* slots a process holds: its directory, one open file or 0
  proc,         \* where a process is, and its local variables
  panicked

vars == <<dinode, dirent, icache, cwd, ofile, proc, panicked>>

NoEntries == [n \in AllNames |-> 0]
FreeInode == [type |-> None, nlink |-> 0]
FreeSlot  == [inum |-> 0, ref |-> 0, valid |-> FALSE, type |-> None,
              nlink |-> 0, lock |-> None]
Idle == [pc |-> "user", op |-> "", path |-> <<>>, new |-> <<>>, type |-> "",
         cur |-> 0, ip |-> 0, name |-> "", puts |-> <<>>, k |-> ""]

(* The root directory of mkfs, the working directory of every process.      *)
Init ==
  /\ dinode = [i \in Inums |-> IF i = ROOTINO THEN [type |-> "dir", nlink |-> 1]
                               ELSE FreeInode]
  /\ dirent = [i \in Inums |-> IF i = ROOTINO
                THEN [NoEntries EXCEPT !["."] = ROOTINO, ![".."] = ROOTINO]
                ELSE NoEntries]
  /\ icache = [s \in Slots |-> IF s = 1
                THEN [FreeSlot EXCEPT !.inum = ROOTINO, !.ref = Cardinality(Procs)]
                ELSE FreeSlot]
  /\ cwd = [p \in Procs |-> 1] /\ ofile = [p \in Procs |-> 0]
  /\ proc = [p \in Procs |-> Idle]
  /\ panicked = FALSE

Go(p, r) == proc' = [proc EXCEPT ![p] = r]
Panic == panicked' = TRUE /\ UNCHANGED <<dinode, dirent, icache, cwd, ofile, proc>>

-----------------------------------------------------------------------------
(* The inode cache, as functions of its contents ic.                        *)

Cached(ic, i) == {s \in Slots : ic[s].ref > 0 /\ ic[s].inum = i}
Unused(ic)    == {s \in Slots : ic[s].ref = 0}
CanIget(ic, i) == Cached(ic, i) # {} \/ Unused(ic) # {}
IgetSlot(ic, i) == Min(IF Cached(ic, i) # {} THEN Cached(ic, i) ELSE Unused(ic))

Idup(ic, s) == [ic EXCEPT ![s].ref = @ + 1]

Iget(ic, i) ==
  IF Cached(ic, i) # {} THEN Idup(ic, IgetSlot(ic, i))
  ELSE [ic EXCEPT ![IgetSlot(ic, i)] = [FreeSlot EXCEPT !.inum = i, !.ref = 1]]

Free(s) == icache[s].lock = None

(* ilock() of a free lock: reads the inode from disk if necessary.          *)
Ilock(ic, s, p) ==
  LET d == dinode[ic[s].inum]
  IN [ic EXCEPT ![s] = IF @.valid THEN [@ EXCEPT !.lock = p]
        ELSE [@ EXCEPT !.lock = p, !.valid = TRUE, !.type = d.type, !.nlink = d.nlink]]

Iunlock(ic, s) == [ic EXCEPT ![s].lock = None]

(* A change of nlink in the cache; iupdate() copies the slots of S to disk. *)
AddLink(ic, s, n) == [ic EXCEPT ![s].nlink = @ + n]

(* Mutant: link() does not count the new name before it looks for its place. *)
CountLinkLater(ic, s) == ic

CountLink(ic, s) == AddLink(ic, s, 1)

Iupdate(ic, S) ==
  [i \in Inums |-> IF \E s \in S : ic[s].inum = i
     THEN LET s == CHOOSE s \in S : ic[s].inum = i
          IN [type |-> ic[s].type, nlink |-> ic[s].nlink]
     ELSE dinode[i]]

(* "ilock: no type"                                                         *)
NoType(ic, s) == ic[s].type = None

-----------------------------------------------------------------------------
(* iput() of the slots in r.puts, in this order, then on to r.k.            *)
Puts(r, slots, k) == [r EXCEPT !.pc = "put", !.puts = slots, !.k = k]

(* Mutant: an inode with other references is freed too.                     *)
LastReferenceUnchecked(s) == icache[s].valid /\ icache[s].nlink = 0

LastReference(s) == icache[s].valid /\ icache[s].nlink = 0 /\ icache[s].ref = 1

(* acquiresleep(), and the test whether to free the inode.                  *)
IputTest(p) ==
  LET r == proc[p] s == Head(r.puts)
  IN /\ r.pc = "put" /\ Free(s)
     /\ IF LastReference(s)
        THEN icache' = [icache EXCEPT ![s].lock = p] /\ Go(p, [r EXCEPT !.pc = "free"])
        ELSE Go(p, [r EXCEPT !.pc = "drop"]) /\ UNCHANGED icache
     /\ UNCHANGED <<dinode, dirent, cwd, ofile, panicked>>

(* itrunc(), type 0, iupdate(), valid 0, releasesleep().                    *)
IputFree(p) ==
  LET r == proc[p] s == Head(r.puts) i == icache[s].inum
  IN /\ r.pc = "free"
     /\ dinode' = [dinode EXCEPT ![i].type = None]
     /\ dirent' = [dirent EXCEPT ![i] = NoEntries]
     /\ icache' = [icache EXCEPT ![s].valid = FALSE, ![s].type = None, ![s].lock = None]
     /\ Go(p, [r EXCEPT !.pc = "drop"])
     /\ UNCHANGED <<cwd, ofile, panicked>>

(* ref--; what a slot without references holds is never read again.         *)
IputDrop(p) ==
  LET r == proc[p] rest == Tail(r.puts)
  IN /\ r.pc = "drop"
     /\ icache' = [icache EXCEPT ![Head(r.puts)] =
                     IF @.ref = 1 THEN FreeSlot ELSE [@ EXCEPT !.ref = @ - 1]]
     /\ Go(p, IF rest # <<>> THEN [r EXCEPT !.pc = "put", !.puts = rest]
              ELSE IF r.k = "user" THEN Idle
              ELSE [r EXCEPT !.pc = r.k, !.puts = <<>>, !.k = ""])
     /\ UNCHANGED <<dinode, dirent, cwd, ofile, panicked>>

-----------------------------------------------------------------------------
(* dirlookup() and the entry written by dirlink(), in a directory that is   *)
(* locked; name and inode number are one write.                             *)
Dirlookup(i, n) == dirent[i][n]
Dirlink(i, n, j) == [dirent EXCEPT ![i][n] = j]

-----------------------------------------------------------------------------
(* namex(): from the root or the working directory; r.op says what follows, *)
(* and whether the parent is wanted.                                        *)
Parent(op) == op \in {"link2", "unlink", "create"}
WalkFailed(op) == IF op = "link2" THEN "linkbad" ELSE "user"

(* No element is left: "/" has no parent.                                   *)
WalkEnd(r, s) ==
  IF Parent(r.op) THEN Puts(r, <<s>>, WalkFailed(r.op))
  ELSE [r EXCEPT !.pc = r.op, !.cur = s]

WalkStart(p, ic, r, path) ==
  LET abs == Head(path) = "/" IN
  IF abs /\ ~CanIget(ic, ROOTINO)
  THEN panicked' = TRUE /\ UNCHANGED <<icache, proc>>
  ELSE /\ UNCHANGED panicked
       /\ icache' = IF abs THEN Iget(ic, ROOTINO) ELSE Idup(ic, cwd[p])
       /\ LET rest == IF abs THEN Tail(path) ELSE path
              s == IF abs THEN IgetSlot(ic, ROOTINO) ELSE cwd[p]
          IN Go(p, IF rest = <<>> THEN WalkEnd(r, s)
                   ELSE [r EXCEPT !.pc = "walk", !.path = rest, !.cur = s])

(* One element: ilock(ip), dirlookup(), iget(), and iunlockput(ip) begins.  *)
Walk(p) ==
  LET r  == proc[p] s == r.cur
      ic == Ilock(icache, s, None)
      n  == Head(r.path)
      rest == Tail(r.path)
      stop == Parent(r.op) /\ rest = <<>>
      i  == IF ic[s].type = "dir" /\ ~stop THEN Dirlookup(ic[s].inum, n) ELSE 0
  IN /\ r.pc = "walk" /\ Free(s)
     /\ IF NoType(ic, s) \/ (i # 0 /\ ~CanIget(ic, i)) THEN Panic
        ELSE /\ icache' = IF i # 0 THEN Iget(ic, i) ELSE ic
             /\ Go(p, IF i # 0
                  THEN Puts([r EXCEPT !.cur = IgetSlot(ic, i), !.path = rest],
                            <<s>>, IF rest = <<>> THEN r.op ELSE "walk")
                  ELSE IF ic[s].type = "dir" /\ stop
                  THEN [r EXCEPT !.pc = r.op, !.name = n, !.path = <<>>]
                  ELSE Puts([r EXCEPT !.cur = 0, !.path = <<>>], <<s>>,
                            WalkFailed(r.op)))
             /\ UNCHANGED <<dinode, dirent, cwd, ofile, panicked>>

(* A call c of a process in user space begins with a lookup.                *)
Call(c) ==
  /\ proc[c.p].pc = "user"
  /\ WalkStart(c.p, icache,
               [Idle EXCEPT !.op = c.op, !.new = c.new, !.type = c.type], c.path)
  /\ UNCHANGED <<dinode, dirent, cwd, ofile>>

-----------------------------------------------------------------------------
(* sys_link() with ip = r.cur: count the link, then look up the new name.   *)
Link1(p) ==
  LET r  == proc[p] s == r.cur
      ic == Ilock(icache, s, None)
      up == CountLink(ic, s)
  IN /\ r.pc = "link1" /\ Free(s)
     /\ IF NoType(ic, s) THEN Panic
        ELSE IF ic[s].type = "dir"
        THEN /\ icache' = ic
             /\ Go(p, Puts([r EXCEPT !.cur = 0], <<s>>, "user"))
             /\ UNCHANGED <<dinode, dirent, cwd, ofile, panicked>>
        ELSE /\ dinode' = Iupdate(up, {s})
             /\ WalkStart(p, up, [r EXCEPT !.op = "link2", !.ip = s, !.new = <<>>], r.new)
             /\ UNCHANGED <<dirent, cwd, ofile>>

(* ilock(dp), dirlink(); a name that exists is put with dp still locked.    *)
Link2(p) ==
  LET r  == proc[p] s == r.cur
      ic == Ilock(icache, s, p)
      d  == ic[s].inum
      i  == Dirlookup(d, r.name)
  IN /\ r.pc = "link2" /\ Free(s)
     /\ IF NoType(ic, s) \/ (i # 0 /\ ~CanIget(ic, i)) THEN Panic
        ELSE /\ IF i # 0
                THEN /\ icache' = Iget(ic, i)
                     /\ Go(p, Puts(r, <<IgetSlot(ic, i)>>, "bad"))
                     /\ UNCHANGED dirent
                ELSE /\ dirent' = Dirlink(d, r.name, ic[r.ip].inum)
                     /\ icache' = Iunlock(ic, s)
                     /\ Go(p, Puts([r EXCEPT !.cur = 0, !.ip = 0], <<s, r.ip>>, "user"))
             /\ UNCHANGED <<dinode, cwd, ofile, panicked>>

(* Mutant: iunlock(dp) where iunlockput(dp) is needed.                       *)
BadParentUnlocks(p) ==
  LET r == proc[p]
  IN /\ r.pc = "bad"
     /\ icache' = Iunlock(icache, r.cur)
     /\ Go(p, IF WalkFailed(r.op) = "user" THEN Idle
              ELSE [r EXCEPT !.pc = WalkFailed(r.op), !.cur = 0])
     /\ UNCHANGED <<dinode, dirent, cwd, ofile, panicked>>

(* "bad" of link and unlink: iunlockput(dp).                                *)
BadParent(p) ==
  LET r == proc[p]
  IN /\ r.pc = "bad"
     /\ icache' = Iunlock(icache, r.cur)
     /\ Go(p, Puts([r EXCEPT !.cur = 0], <<r.cur>>, WalkFailed(r.op)))
     /\ UNCHANGED <<dinode, dirent, cwd, ofile, panicked>>

(* "bad" of link: the link is taken back.                                   *)
LinkBad(p) ==
  LET r  == proc[p]
      ic == AddLink(Ilock(icache, r.ip, None), r.ip, -1)
  IN /\ r.pc = "linkbad" /\ Free(r.ip)
     /\ icache' = ic
     /\ dinode' = Iupdate(ic, {r.ip})
     /\ Go(p, Puts([r EXCEPT !.ip = 0], <<r.ip>>, "user"))
     /\ UNCHANGED <<dirent, cwd, ofile, panicked>>

(* sys_unlink(): ilock(dp), look the name up, and wait for it with dp locked. *)
Unlink1(p) ==
  LET r  == proc[p] s == r.cur
      ic == Ilock(icache, s, p)
      i  == IF r.name \in {".", ".."} THEN 0
            ELSE Dirlookup(ic[s].inum, r.name)
  IN /\ r.pc = "unlink" /\ Free(s)
     /\ IF NoType(ic, s) \/ (i # 0 /\ ~CanIget(ic, i)) THEN Panic
        ELSE /\ icache' = IF i # 0 THEN Iget(ic, i) ELSE ic
             /\ Go(p, IF i # 0 THEN [r EXCEPT !.pc = "unlink2", !.ip = IgetSlot(ic, i)]
                      ELSE [r EXCEPT !.pc = "bad"])
             /\ UNCHANGED <<dinode, dirent, cwd, ofile, panicked>>

IsDirEmpty(i) == \A n \in DirNames : dirent[i][n] = 0

(* ilock(ip); the entry goes first, dp is released and put, ip stays locked. *)
Unlink2(p) ==
  LET r  == proc[p] s == r.ip d == r.cur
      ic == Ilock(icache, s, p)
      isdir == ic[s].type = "dir"
      ic2 == IF isdir THEN AddLink(ic, d, -1) ELSE ic
  IN /\ r.pc = "unlink2" /\ Free(s)
     /\ IF NoType(ic, s) \/ ic[s].nlink < 1 THEN Panic
        ELSE /\ IF isdir /\ ~IsDirEmpty(ic[s].inum)
                THEN /\ icache' = Iunlock(ic, s)
                     /\ Go(p, Puts([r EXCEPT !.ip = 0], <<s>>, "bad"))
                     /\ UNCHANGED <<dinode, dirent>>
                ELSE /\ dirent' = [dirent EXCEPT ![ic[d].inum][r.name] = 0]
                     /\ dinode' = IF isdir THEN Iupdate(ic2, {d}) ELSE dinode
                     /\ icache' = Iunlock(ic2, d)
                     /\ Go(p, Puts([r EXCEPT !.cur = 0], <<d>>, "unlink3"))
             /\ UNCHANGED <<cwd, ofile, panicked>>

Unlink3(p) ==
  LET r  == proc[p] s == r.ip
      ic == Iunlock(AddLink(icache, s, -1), s)
  IN /\ r.pc = "unlink3"
     /\ icache' = ic
     /\ dinode' = Iupdate(ic, {s})
     /\ Go(p, Puts([r EXCEPT !.ip = 0], <<s>>, "user"))
     /\ UNCHANGED <<dirent, cwd, ofile, panicked>>

-----------------------------------------------------------------------------
(* Where the scan of ialloc() may stop: it looks at one inode at a time, so *)
(* one with a lower number may have become free behind it.                  *)
Ialloc == {j \in Inums : dinode[j].type = None}

(* create(): with dp locked, take the inode that has the name or a new one. *)
Create1(p) ==
  LET r  == proc[p] s == r.cur
      ic == Ilock(icache, s, p)
      i  == Dirlookup(ic[s].inum, r.name)
  IN /\ r.pc = "create" /\ Free(s)
     /\ IF NoType(ic, s) \/ (i # 0 /\ ~CanIget(ic, i)) \/ (i = 0 /\ Ialloc = {})
        THEN Panic
        ELSE IF i # 0
        THEN /\ icache' = Iunlock(Iget(ic, i), s)
             /\ Go(p, Puts([r EXCEPT !.cur = 0, !.ip = IgetSlot(ic, i)], <<s>>, "exists"))
             /\ UNCHANGED <<dinode, dirent, cwd, ofile, panicked>>
        ELSE \E j \in Ialloc :
             IF ~CanIget(ic, j) THEN Panic
             ELSE /\ dinode' = [dinode EXCEPT ![j] = [type |-> r.type, nlink |-> 0]]
                  /\ icache' = Iget(ic, j)
                  /\ Go(p, [r EXCEPT !.pc = "create2", !.ip = IgetSlot(ic, j)])
                  /\ UNCHANGED <<dirent, cwd, ofile, panicked>>

(* ilock(ip), the first link, "." and "..", the entry, iunlockput(dp).      *)
Create2(p) ==
  LET r  == proc[p] s == r.ip d == r.cur
      ic == AddLink(Ilock(icache, s, p), s, 1)
      ic2 == IF r.type = "dir" THEN AddLink(ic, d, 1) ELSE ic
      i  == ic[s].inum
  IN /\ r.pc = "create2" /\ Free(s)
     /\ IF NoType(ic, s) THEN Panic
        ELSE /\ dinode' = Iupdate(ic2, IF r.type = "dir" THEN {s, d} ELSE {s})
             /\ dirent' = [Dirlink(ic[d].inum, r.name, i) EXCEPT
                  ![i] = IF r.type = "dir"
                         THEN [@ EXCEPT !["."] = i, ![".."] = ic[d].inum] ELSE @]
             /\ icache' = Iunlock(ic2, d)
             /\ Go(p, Puts([r EXCEPT !.cur = 0], <<d>>, "created"))
             /\ UNCHANGED <<cwd, ofile, panicked>>

(* The end of open, mkdir and mknod with ip locked: a descriptor, or        *)
(* iunlockput(ip).                                                          *)
Finish(p, ic, r, ok) ==
  /\ icache' = Iunlock(ic, r.ip)
  /\ IF ok /\ ofile[p] = 0
     THEN ofile' = [ofile EXCEPT ![p] = r.ip] /\ Go(p, Idle)
     ELSE Go(p, Puts([r EXCEPT !.ip = 0], <<r.ip>>, "user")) /\ UNCHANGED ofile
  /\ UNCHANGED <<dinode, dirent, cwd, panicked>>

Created(p) ==
  /\ proc[p].pc = "created" /\ proc[p].type = "file"
  /\ Finish(p, icache, proc[p], TRUE)

MadeNode(p) ==
  /\ proc[p].pc = "created" /\ proc[p].type # "file"
  /\ Finish(p, icache, proc[p], FALSE)

(* The name exists: only open() of a file takes it.                         *)
CreateExists(p) ==
  LET r == proc[p] ic == Ilock(icache, r.ip, p)
  IN /\ r.pc = "exists" /\ Free(r.ip)
     /\ IF NoType(ic, r.ip) THEN Panic
        ELSE Finish(p, ic, r, r.type = "file" /\ ic[r.ip].type = "file")

(* sys_open() without O_CREATE; r.type is the mode.                         *)
Open(p) ==
  LET r  == [proc[p] EXCEPT !.ip = proc[p].cur, !.cur = 0]
      ic == Ilock(icache, r.ip, p)
  IN /\ r.pc = "open" /\ Free(r.ip)
     /\ IF NoType(ic, r.ip) THEN Panic
        ELSE Finish(p, ic, r, ic[r.ip].type # "dir" \/ r.type = "rdonly")

(* sys_chdir(): the old directory is put before the new one is installed.   *)
Chdir(p) ==
  LET r  == proc[p] s == r.cur
      ic == Ilock(icache, s, None)
  IN /\ r.pc = "chdir" /\ Free(s)
     /\ IF NoType(ic, s) THEN Panic
        ELSE /\ icache' = ic
             /\ Go(p, IF ic[s].type = "dir" THEN Puts(r, <<cwd[p]>>, "chdir2")
                      ELSE Puts([r EXCEPT !.cur = 0], <<s>>, "user"))
             /\ UNCHANGED <<dinode, dirent, cwd, ofile, panicked>>

Chdir2(p) ==
  /\ proc[p].pc = "chdir2"
  /\ cwd' = [cwd EXCEPT ![p] = proc[p].cur]
  /\ Go(p, Idle)
  /\ UNCHANGED <<dinode, dirent, icache, ofile, panicked>>

(* fileclose() of the last descriptor.                                      *)
Close(p) ==
  /\ proc[p].pc = "user" /\ ofile[p] # 0
  /\ ofile' = [ofile EXCEPT ![p] = 0]
  /\ Go(p, Puts(Idle, <<ofile[p]>>, "user"))
  /\ UNCHANGED <<dinode, dirent, icache, cwd, panicked>>

-----------------------------------------------------------------------------
KernelStep(p) ==
  \/ Walk(p) \/ IputTest(p) \/ IputFree(p) \/ IputDrop(p)
  \/ Link1(p) \/ Link2(p) \/ BadParent(p) \/ LinkBad(p)
  \/ Unlink1(p) \/ Unlink2(p) \/ Unlink3(p)
  \/ Create1(p) \/ Create2(p) \/ Created(p) \/ MadeNode(p) \/ CreateExists(p)
  \/ Open(p) \/ Chdir(p) \/ Chdir2(p) \/ Close(p)

(* After a panic the machine stands still.                                  *)
Halted == panicked /\ UNCHANGED vars

Next ==
  \/ ~panicked /\ ((\E c \in Calls : Call(c)) \/ (\E p \in Procs : KernelStep(p)))
  \/ Halted

Spec == Init /\ [][Next]_vars

-----------------------------------------------------------------------------
Types == {None, "file", "dir", "dev"}

(* Inodes, directories and cache slots have their types.                    *)
TypeOK ==
  /\ dinode \in [Inums -> [type : Types, nlink : Nat]]
  /\ dirent \in [Inums -> [AllNames -> 0..NINODES]]
  /\ icache \in [Slots -> [inum : 0..NINODES, ref : Nat, valid : BOOLEAN,
                           type : Types, nlink : Nat, lock : Procs \cup {None}]]
  /\ cwd \in [Procs -> Slots] /\ ofile \in [Procs -> 0..NINODE]
  /\ panicked \in BOOLEAN

(* "there is one entry per inode": iget() never caches an inode twice.      *)
OneSlot == \A i \in Inums : Cardinality(Cached(icache, i)) <= 1

(* fs.c:201: "ip->ref tracks the number of in-memory pointers to the entry":*)
(* of working directories, open files and calls in progress.                *)
RefsHeld ==
  \A s \in Slots :
    icache[s].ref = MapThenSumSet(LAMBDA p :
        LET r == proc[p] One(b) == IF b THEN 1 ELSE 0
        IN One(cwd[p] = s /\ "chdir2" \notin {r.pc, r.k}) + One(ofile[p] = s)
           + One(r.cur = s) + One(r.ip = s)
           + Cardinality({j \in DOMAIN r.puts : r.puts[j] = s}), Procs)

Entries(i) == {e \in Inums \X DirNames : dirent[e[1]][e[2]] = i}

(* An inode is not freed, and so not given to another file, while an entry  *)
(* of a directory names it or a process has it open or as its directory.    *)
InUseAllocated ==
  \A i \in Inums :
    \/ dinode[i].type # None
    \/ /\ Entries(i) = {}
       /\ \A p \in Procs : /\ ofile[p] # 0 => icache[ofile[p]].inum # i
                           /\ icache[cwd[p]].inum # i \/ "chdir2" \in {proc[p].pc, proc[p].k}

(* The count of links on disk is never less than the entries that name the  *)
(* inode, whatever calls are in progress.                                   *)
LinksCover == \A i \in Inums : Cardinality(Entries(i)) <= dinode[i].nlink

(* "i-node cache is write-through": a valid slot agrees with the disk.      *)
CacheCoherent ==
  \A s \in Slots : icache[s].ref > 0 /\ icache[s].valid =>
    dinode[icache[s].inum] = [type |-> icache[s].type, nlink |-> icache[s].nlink]

(* The inode cache: one slot per inode, counted by those who point to it and *)
(* in agreement with the disk.                                               *)
CacheSound == TypeOK /\ OneSlot /\ RefsHeld /\ CacheCoherent

(* The slot whose lock a process needs next.                                *)
Wants(p) ==
  LET r == proc[p]
  IN CASE r.pc \in {"walk", "link1", "link2", "unlink", "create", "open", "chdir"} -> r.cur
       [] r.pc \in {"unlink2", "create2", "exists", "linkbad"} -> r.ip
       [] r.pc = "put" -> Head(r.puts)
       [] OTHER -> 0

(* "helps avoid deadlock and races during pathname lookup": no processes    *)
(* wait for inode locks that they hold among themselves.                    *)
NoWaitCycle ==
  \A S \in SUBSET Procs \ {{}} :
    \E p \in S : Wants(p) = 0 \/ icache[Wants(p)].lock \notin S

(* iput(): "If that was the last reference and the inode has no links to    *)
(* it, free the inode (and its content) on disk."                           *)
FreedAtLast ==
  \A i \in Inums : dinode[i].type # None /\ dinode[i].nlink = 0
                     => Cached(icache, i) # {}

(* The assertions of fs.c and sysfile.c hold.                               *)
NoPanic == ~panicked
=============================================================================
