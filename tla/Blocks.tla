------------------------------- MODULE Blocks -------------------------------
(***************************************************************************)
(* Blocks of files: balloc(), bfree(), bmap(), itrunc(), readi() and       *)
(* writei() of fs.c under fileread() and filewrite() of file.c, on the     *)
(* layout in groups.  Processes with different files share the bit maps    *)
(* and nothing else, so a step is one look at a bit map, or what a process *)
(* does with its locked inode up to the next look.                         *)
(***************************************************************************)
EXTENDS Layout, Sequences, FiniteSetsExt, SequencesExt

CONSTANTS
  Procs, Inodes,
  MAXOPBLOCKS,
  Opens, Sizes  \* files a process opens, lengths of its writes and reads

VARIABLES
  bits,         \* the bit maps: blocks marked used
  disk,         \* contents of a block: bytes d, or addresses a
  inode, lock,
  fd,           \* the open file of a process and its offset; ino 0: none
  op, logged,   \* what a process is doing; blocks its transaction has written
  panicked

blocksVars == <<bits, disk, inode, lock, fd, op, logged, panicked>>

Nobody == "nobody"
NoAddrs == [j \in 0..(NINDIRECT - 1) |-> 0]
Zeroed  == [d |-> [x \in 0..(BSIZE - 1) |-> 0], a |-> NoAddrs]
(* A free block holds bytes of no file, and addresses that are not its own.  *)
Stale(b) == [d |-> [x \in 0..(BSIZE - 1) |-> -1], a |-> [j \in 0..(NINDIRECT - 1) |-> b]]
Empty   == [addrs |-> [n \in 0..NDIRECT |-> 0], size |-> 0]
NoFd    == [ino |-> 0, off |-> 0]
Idle    == [pc |-> "user", i |-> 0, n |-> 0, n1 |-> 0, tot |-> 0, g |-> 0, k |-> "",
            free |-> <<>>]

(* Empty files on the image of mkfs; block 0 is the boot block.              *)
BlocksInit ==
  /\ bits = Metadata
  /\ disk = [b \in {0} \cup (Managed \ Metadata) |-> IF b = 0 THEN Zeroed ELSE Stale(b)]
  /\ inode = [i \in Inodes |-> Empty] /\ lock = [i \in Inodes |-> Nobody]
  /\ fd = [p \in Procs |-> NoFd] /\ op = [p \in Procs |-> Idle]
  /\ logged = [p \in Procs |-> {}] /\ panicked = FALSE

Go(p, r) == op' = [op EXCEPT ![p] = r]
LogWrite(p, B) == logged' = [logged EXCEPT ![p] = @ \cup B]

(* The inode of p's call and the block of the file it is at.                 *)
Ino(p) == fd[p].ino
Off(p) == fd[p].off + op[p].tot
Bn(p)  == Off(p) \div BSIZE

-----------------------------------------------------------------------------
(* open() of an existing or a new file, and close() of a file with a name.   *)
OpenFile(p, i) ==
  /\ op[p].pc = "user" /\ fd[p].ino = 0
  /\ \A q \in Procs : op[q].pc = "trunc" => lock[i] # q
  /\ fd' = [fd EXCEPT ![p] = [ino |-> i, off |-> 0]]
  /\ UNCHANGED <<bits, disk, inode, lock, op, logged, panicked>>

CloseFile(p) ==
  /\ op[p].pc = "user" /\ fd[p].ino # 0
  /\ fd' = [fd EXCEPT ![p] = NoFd]
  /\ UNCHANGED <<bits, disk, inode, lock, op, logged, panicked>>

(* fileread() and readi(): bmap() finds every block below the size.          *)
Read(p, n) ==
  LET f == inode[Ino(p)]
  IN /\ op[p].pc = "user" /\ fd[p].ino # 0 /\ lock[Ino(p)] = Nobody
     /\ fd[p].off <= f.size
     /\ fd' = [fd EXCEPT ![p].off = Min({@ + n, f.size})]
     /\ UNCHANGED <<bits, disk, inode, lock, op, logged, panicked>>

-----------------------------------------------------------------------------
(* Mutant: nothing is set aside for a write that is not aligned.             *)
maxNoSlop == ((MAXOPBLOCKS - 1 - 1) \div 2) * BSIZE

(* filewrite(): pieces of at most max bytes, a transaction each.             *)
max == ((MAXOPBLOCKS - 1 - 1 - 2) \div 2) * BSIZE

WriteStart(p, n) ==
  /\ op[p].pc = "user" /\ fd[p].ino # 0
  /\ Go(p, [Idle EXCEPT !.pc = "piece", !.n = n])
  /\ UNCHANGED <<bits, disk, inode, lock, fd, logged, panicked>>

(* begin_op(), ilock(), and writei() refuses or begins.                      *)
Piece(p) ==
  LET r == op[p] n1 == Min({r.n - r.i, max})
  IN /\ r.pc = "piece" /\ lock[Ino(p)] = Nobody
     /\ IF fd[p].off > inode[Ino(p)].size \/ fd[p].off + n1 > MAXFILE * BSIZE
        THEN Go(p, Idle) /\ UNCHANGED lock
        ELSE /\ Go(p, [r EXCEPT !.pc = "bmap", !.n1 = n1, !.tot = 0])
             /\ lock' = [lock EXCEPT ![Ino(p)] = p]
     /\ UNCHANGED <<bits, disk, inode, fd, logged, panicked>>

Balloc(r, k) == [r EXCEPT !.pc = "balloc", !.g = 0, !.k = k]

(* One turn of writei()'s loop once bmap() has returned addr.                *)
Copy(p, addr) ==
  LET r == op[p]
      o == Off(p) % BSIZE
      m == Min({r.n1 - r.tot, BSIZE - o})
  IN /\ disk' = [disk EXCEPT ![addr].d =
                   [x \in DOMAIN @ |-> IF x \in o..(o + m - 1) THEN Ino(p) ELSE @[x]]]
     /\ LogWrite(p, {addr})
     /\ Go(p, [r EXCEPT !.pc = "bmap", !.tot = @ + m])

(* The loop: bmap() of the next block has the address, or calls balloc().    *)
Bmap(p) ==
  LET r == op[p] A == inode[Ino(p)].addrs bn == Bn(p)
      addr == IF bn < NDIRECT THEN A[bn]
              ELSE IF A[NDIRECT] # 0 THEN disk[A[NDIRECT]].a[bn - NDIRECT] ELSE 0
  IN /\ r.pc = "bmap" /\ r.tot < r.n1
     /\ IF addr # 0 THEN Copy(p, addr)
        ELSE /\ Go(p, Balloc(r, IF bn < NDIRECT THEN "direct"
                                ELSE IF A[NDIRECT] = 0 THEN "indirect" ELSE "slot"))
             /\ UNCHANGED <<disk, logged>>
     /\ UNCHANGED <<bits, inode, lock, fd, panicked>>

(* Mutant: a block keeps what it held for its last owner.                    *)
KeepOld(b) == disk

(* balloc() zeroes the block it found.                                       *)
Zero(b) == [disk EXCEPT ![b] = Zeroed]

(* balloc() at the map of group r.g finds a bit, goes on, or returns 0; then *)
(* bmap() enters the block where it was missing.  With no indirect block to  *)
(* be had bmap() goes on with address 0, the boot block.                     *)
BallocGroup(p) ==
  LET r == op[p] i == Ino(p) bn == Bn(p)
      free == {b \in GroupBlocks(r.g) : b \notin bits}
      b == Min(free)
      ind == IF r.k = "slot" THEN inode[i].addrs[NDIRECT] ELSE 0
  IN /\ r.pc = "balloc"
     /\ IF free # {}
        THEN /\ bits' = bits \cup {b}
             /\ LogWrite(p, {BBLOCK(b), b} \cup (IF r.k \in {"slot", "boot"} THEN {ind} ELSE {}))
             /\ disk' = IF r.k \in {"slot", "boot"}
                        THEN [Zero(b) EXCEPT ![ind].a[bn - NDIRECT] = b] ELSE Zero(b)
             /\ inode' = CASE r.k = "direct"   -> [inode EXCEPT ![i].addrs[bn] = b]
                           [] r.k = "indirect" -> [inode EXCEPT ![i].addrs[NDIRECT] = b]
                           [] OTHER            -> inode
             /\ Go(p, [r EXCEPT !.pc = IF r.k = "boot" THEN "boot" ELSE "bmap"])
        ELSE /\ Go(p, IF r.g + 1 < NGROUPS THEN [r EXCEPT !.g = @ + 1]
                      ELSE [r EXCEPT !.pc = IF r.k = "indirect" THEN "boot" ELSE "short"])
             /\ UNCHANGED <<bits, disk, inode, logged>>
     /\ UNCHANGED <<lock, fd, panicked>>

(* Block 0 as the indirect block; its buffer is locked while balloc() looks. *)
BootIndirect(p) ==
  LET r == op[p] addr == disk[0].a[Bn(p) - NDIRECT]
  IN /\ r.pc = "boot"
     /\ \A q \in Procs : op[q].pc = "balloc" => op[q].k # "boot"
     /\ IF addr # 0 THEN Copy(p, addr)
        ELSE Go(p, Balloc(r, "boot")) /\ UNCHANGED <<disk, logged>>
     /\ UNCHANGED <<bits, inode, lock, fd, panicked>>

(* The end of writei(), which returns n also after a short write, and of the *)
(* transaction.                                                              *)
PieceDone(p) ==
  LET r == op[p] i == Ino(p)
  IN /\ r.pc = "short" \/ (r.pc = "bmap" /\ r.tot >= r.n1)
     /\ inode' = [inode EXCEPT ![i].size = Max({@, Off(p)})]
     /\ fd' = [fd EXCEPT ![p].off = @ + r.n1]
     /\ lock' = [lock EXCEPT ![i] = Nobody]
     /\ logged' = [logged EXCEPT ![p] = {}]
     /\ Go(p, IF r.i + r.n1 < r.n THEN [Idle EXCEPT !.pc = "piece", !.n = r.n, !.i = r.i + r.n1]
              ELSE Idle)
     /\ UNCHANGED <<bits, disk, panicked>>

-----------------------------------------------------------------------------
(* itrunc(): the blocks of an inode in the order they are freed.             *)
Freed(i) ==
  LET A == inode[i].addrs
      ind == IF A[NDIRECT] = 0 THEN <<>> ELSE [j \in 1..NINDIRECT |-> disk[A[NDIRECT]].a[j - 1]]
  IN SelectSeq([n \in 1..NDIRECT |-> A[n - 1]] \o ind \o <<A[NDIRECT]>>, LAMBDA b : b # 0)

(* The last close of a file without a name: iput() calls itrunc().           *)
CloseLast(p) ==
  LET i == Ino(p)
  IN /\ op[p].pc = "user" /\ i # 0 /\ lock[i] = Nobody
     /\ \A q \in Procs \ {p} : fd[q].ino # i
     /\ fd' = [fd EXCEPT ![p] = NoFd]
     /\ lock' = [lock EXCEPT ![i] = p]
     /\ Go(p, [Idle EXCEPT !.pc = "trunc", !.free = Freed(i), !.n = i])
     /\ inode' = [inode EXCEPT ![i] = Empty]
     /\ UNCHANGED <<bits, disk, logged, panicked>>

(* Mutant: the index of a bit is not relative to its group.                  *)
BitOfAbsolute(b) == BBLOCK(b) - inode_blocks_per_group + (b % BPG)

(* The block whose bit bfree(b) clears.                                      *)
BitOf(b) == BBLOCK(b) - inode_blocks_per_group + ((b - global_start) % BPG)

Bfree(p) ==
  LET r == op[p] b == Head(r.free)
  IN /\ r.pc = "trunc" /\ r.free # <<>>
     /\ IF BitOf(b) \notin bits
        THEN panicked' = TRUE /\ UNCHANGED <<bits, disk, op, logged>>
        ELSE /\ bits' = bits \ {BitOf(b)}
             /\ disk' = [disk EXCEPT ![b] = Stale(b)]
             /\ LogWrite(p, {BBLOCK(b)})
             /\ Go(p, [r EXCEPT !.free = Tail(@)])
             /\ UNCHANGED panicked
     /\ UNCHANGED <<inode, lock, fd>>

(* iupdate(), releasesleep(), end_op().                                      *)
TruncDone(p) ==
  /\ op[p].pc = "trunc" /\ op[p].free = <<>>
  /\ lock' = [lock EXCEPT ![op[p].n] = Nobody]
  /\ logged' = [logged EXCEPT ![p] = {}]
  /\ Go(p, Idle)
  /\ UNCHANGED <<bits, disk, inode, fd, panicked>>

BlocksNext ==
  /\ ~panicked
  /\ \E p \in Procs :
       \/ \E i \in Opens[p] : OpenFile(p, i)
       \/ CloseFile(p) \/ CloseLast(p)
       \/ \E n \in Sizes[p] : Read(p, n) \/ WriteStart(p, n)
       \/ Piece(p) \/ Bmap(p) \/ BallocGroup(p) \/ BootIndirect(p) \/ PieceDone(p)
       \/ Bfree(p) \/ TruncDone(p)

BlocksSpec == BlocksInit /\ [][BlocksNext]_blocksVars

-----------------------------------------------------------------------------
Direct(i) == {inode[i].addrs[n] : n \in 0..NDIRECT} \ {0}
Slots(i) ==
  IF inode[i].addrs[NDIRECT] = 0 THEN {}
  ELSE {disk[inode[i].addrs[NDIRECT]].a[j] : j \in 0..(NINDIRECT - 1)} \ {0}
OwnedBy(i) == Direct(i) \cup Slots(i)
BeingFreed == UNION {ToSet(op[p].free) : p \in Procs}
BootUsed == disk[0].a # NoAddrs

(* A marked block is metadata, belongs to one place of one file, or is about *)
(* to be freed; nothing else is marked.  Once block 0 has served as an       *)
(* indirect block, which a full disk allows, this is lost.  bfree() never    *)
(* finds a bit cleared ("freeing free block").                               *)
OneOwner ==
  /\ ~panicked
  /\ BootUsed \/
     /\ bits = Metadata \cup BeingFreed \cup UNION {OwnedBy(i) : i \in Inodes}
     /\ Cardinality(bits) = Cardinality(Metadata)
          + MapThenSumSet(LAMBDA i : Cardinality(OwnedBy(i)), Inodes)
          + MapThenSumSet(LAMBDA p : Len(op[p].free), Procs)

(* What was written to a file is there: every byte below the size lies in a  *)
(* block of its own and holds what this file wrote, whoever allocates, frees *)
(* or fills the disk meanwhile.                                              *)
ContentsKept ==
  BootUsed \/ \A i \in Inodes : \A x \in 0..(inode[i].size - 1) :
    LET bn == x \div BSIZE
        A  == inode[i].addrs
        b  == IF bn < NDIRECT THEN A[bn]
              ELSE IF A[NDIRECT] = 0 THEN 0 ELSE disk[A[NDIRECT]].a[bn - NDIRECT]
    IN b # 0 /\ disk[b].d[x % BSIZE] = i

(* A piece of filewrite() stays below MAXOPBLOCKS blocks, the inode's        *)
(* included, though every block may come from another group.                 *)
WriteFits ==
  \A p \in Procs : op[p].pc # "trunc" => Cardinality(logged[p]) + 1 <= MAXOPBLOCKS

(* param.h: "max # of blocks any FS op writes": freeing a file, too.         *)
OpFits == \A p \in Procs : Cardinality(logged[p]) + 1 <= MAXOPBLOCKS

(* "Stop writing gracefully": what write() reports as written is in the file. *)
OffsetInFile ==
  \A p \in Procs : fd[p].ino # 0 => fd[p].off <= inode[fd[p].ino].size
=============================================================================
