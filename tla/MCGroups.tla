------------------------------- MODULE MCGroups -------------------------------
(***************************************************************************)
(* Instances of Groups for TLC: file systems of blocks of 4k with few      *)
(* inodes and groups, the last group cut short.                            *)
(***************************************************************************)
EXTENDS Groups

Fs(blocks, inodes, reserved, isSparse) ==
  [blocks_count |-> blocks, blocks_per_group |-> 32768, block_size |-> 4096,
   inodes_per_group |-> inodes, inode_size |-> 128, desc_size |-> 32,
   reserved_gdt_blocks |-> reserved, sparse |-> isSparse]

Whole(s) == [g \in BgIds(s) |-> [k \in BgIds(s) |-> IF k = 0 THEN "a" ELSE "b"]]
ImagesOf(s, magics, descs) ==
  {[sb |-> s, magic |-> m, desc |-> d] : m \in magics, d \in descs}
AllSupers(s) == {[g \in BgIds(s) |-> TRUE]}

(* Three groups whose descriptors read as anything, and whose superblocks  *)
(* may be lost, except that of group 0, without which nothing is read. In  *)
(* group 2, which has no descriptors, one kind of data is considered.      *)
Small       == Fs(81920, 8, 1, TRUE)
Magics      == {m \in [BgIds(Small) -> BOOLEAN] : m[0]}
AnyDescs    == {d \in [BgIds(Small) -> [BgIds(Small) -> Contents]] :
                  \A k \in BgIds(Small) : d[2][k] = "a"}
SmallImages == ImagesOf(Small, Magics, AnyDescs)

(* Five groups; two with inode tables of two blocks, no sparse superblocks.*)
Longer    == Fs(150000, 32, 0, TRUE)
NotSparse == [Fs(65000, 64, 2, FALSE) EXCEPT !.desc_size = 64]
MCImages  == SmallImages \cup ImagesOf(Longer, AllSupers(Longer), {Whole(Longer)})
                         \cup ImagesOf(NotSparse, AllSupers(NotSparse), {Whole(NotSparse)})
=============================================================================
