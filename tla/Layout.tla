------------------------------- MODULE Layout -------------------------------
(* The geometry of the disk in block groups: the macros of fs.h, which the  *)
(* kernel and mkfs share.  [ boot | sb | log | group 0 | group 1 | ... ],   *)
(* and a group is [ inode blocks | free bit map | data blocks ].            *)
EXTENDS Integers

CONSTANTS
  LOGSTART, NLOG,
  BPG, IPG,             \* blocks and inodes per group
  NGROUPS,
  IPB,                  \* inodes per block
  BSIZE,                \* bytes in a block, in the units of the model
  NDIRECT, NINDIRECT

ASSUME GeometryAssumption ==
  /\ {LOGSTART, NLOG, BPG, IPG, NGROUPS, IPB, BSIZE, NDIRECT, NINDIRECT} \subseteq Nat \ {0}
  /\ IPG % IPB = 0 /\ IPG \div IPB + 1 < BPG

global_start == LOGSTART + NLOG
inode_blocks_per_group == IPG \div IPB
meta_per_group == inode_blocks_per_group + 1
MAXFILE == NDIRECT + NINDIRECT
Groups == 0..(NGROUPS - 1)

IBLOCK(i) == global_start + (i \div IPG) * BPG + (i % IPG) \div IPB

BBLOCK(b) == global_start + ((b - global_start) \div BPG) * BPG + inode_blocks_per_group

(* Where balloc() looks for the map of group g, and the blocks it stands for. *)
group_start(g) == global_start + g * BPG
bmap_block(g)  == group_start(g) + inode_blocks_per_group
GroupBlocks(g) == group_start(g)..(group_start(g) + BPG - 1)
Managed  == UNION {GroupBlocks(g) : g \in Groups}
MetaOf(g) == group_start(g)..(group_start(g) + meta_per_group - 1)
Metadata == UNION {MetaOf(g) : g \in Groups}
inums == 1..(NGROUPS * IPG - 1)
=============================================================================
