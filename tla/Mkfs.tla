-------------------------------- MODULE Mkfs --------------------------------
(* mkfs.c: the root directory and some files are appended to an empty image *)
(* block by block, then the bit maps are written.  The kernel takes over an *)
(* image as ImageOK describes it.                                           *)
EXTENDS Layout, FiniteSetsExt, Functions, TLC

CONSTANTS
  MaxFiles,     \* files copied into the image
  EntryMax      \* dirents in a block

VARIABLES freeblock, freeinode, din, used

mkfsVars == <<freeblock, freeinode, din, used>>

ROOTINO == 1

(* A file: its length in dirent-sized pieces, its blocks, its indirect block. *)
NoFile == [size |-> 0, addrs |-> [n \in 0..(MAXFILE - 1) |-> 0], ind |-> 0]

(* Mutant: the metadata of the next group is not skipped.                   *)
alloc_blockPlain(f) == f + 1

(* The value of freeblock after alloc_block() has handed out freeblock f.   *)
alloc_block(f) ==
  IF (f + 1 - global_start) % BPG = 0 THEN f + 1 + meta_per_group ELSE f + 1

(* iappend() of n pieces that end within a block: the file and freeblock.   *)
iappend(f, n, fb) ==
  LET fbn == f.size \div EntryMax
      new == f.addrs[fbn] = 0
      ind == new /\ fbn >= NDIRECT /\ f.ind = 0
      b   == IF ind THEN alloc_block(fb) ELSE fb
  IN [file |-> [size |-> f.size + n, ind |-> IF ind THEN fb ELSE f.ind,
                addrs |-> IF new THEN [f.addrs EXCEPT ![fbn] = b] ELSE f.addrs],
      next |-> IF new THEN alloc_block(b) ELSE fb]

(* The skeleton: the root directory with "." and "..".                      *)
MkfsInit ==
  LET dots == iappend(NoFile, 2, global_start + meta_per_group)
  IN /\ din = (ROOTINO :> dots.file) /\ freeblock = dots.next
     /\ freeinode = 2 /\ used = {}

(* ialloc(), and the name in the root directory.                            *)
AddFile ==
  LET root == iappend(din[ROOTINO], 1, freeblock)
  IN /\ used = {} /\ freeinode - 2 < MaxFiles
     /\ din' = (freeinode :> NoFile) @@ (ROOTINO :> root.file) @@ din
     /\ freeblock' = root.next /\ freeinode' = freeinode + 1
     /\ UNCHANGED used

(* A whole block of the last file, or its tail.                             *)
AppendFile(n) ==
  LET d == freeinode - 1
      f == iappend(din[d], n, freeblock)
  IN /\ used = {} /\ d # ROOTINO
     /\ din[d].size % EntryMax = 0 /\ din[d].size < MAXFILE * EntryMax
     /\ din' = [din EXCEPT ![d] = f.file] /\ freeblock' = f.next
     /\ UNCHANGED <<freeinode, used>>

(* "Fix size of root inode dir".                                            *)
RootSize(n) == ((n \div EntryMax) + 1) * EntryMax

(* The end of main(), and balloc(): the bit maps.                           *)
WriteBitmaps ==
  /\ used = {}
  /\ din' = [din EXCEPT ![ROOTINO].size = RootSize(@)]
  /\ used' = Metadata \cup {b \in Managed : b < freeblock}
  /\ UNCHANGED <<freeblock, freeinode>>

MkfsNext == AddFile \/ WriteBitmaps \/ \E n \in 1..EntryMax : AppendFile(n)

MkfsSpec == MkfsInit /\ [][MkfsNext]_mkfsVars

-----------------------------------------------------------------------------
BlocksOf(f) == (Range(f.addrs) \cup {f.ind}) \ {0}
Owned == UNION {BlocksOf(din[d]) : d \in DOMAIN din}

(* The image the kernel takes over: what its macros call inodes and maps is *)
(* metadata of the right group, no data block lies there or belongs to two  *)
(* files, bfree() will find each block's bit, and exactly the blocks of     *)
(* files and the metadata are marked.                                       *)
ImageOK ==
  /\ \A i \in inums : IBLOCK(i) \in Metadata \ {bmap_block(g) : g \in Groups}
  /\ \A g \in Groups : \A b \in GroupBlocks(g) : BBLOCK(b) = bmap_block(g)
  /\ Owned \subseteq Managed \ Metadata
  /\ MapThenSumSet(LAMBDA d : Cardinality(BlocksOf(din[d])), DOMAIN din) = Cardinality(Owned)
  /\ used # {} => used = Metadata \cup Owned

(* No block below the size of a file is missing, so that reading allocates  *)
(* none.  The size of the root is rounded up even where its last block is   *)
(* full (it has freeinode entries): then, and only then, that block is missing. *)
NoHoleButRoot ==
  \A d \in DOMAIN din : \A n \in 0..(MAXFILE - 1) :
    n * EntryMax < din[d].size /\ din[d].addrs[n] = 0
      => d = ROOTINO /\ used # {} /\ freeinode = n * EntryMax
=============================================================================
