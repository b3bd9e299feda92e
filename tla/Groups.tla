-------------------------------- MODULE Groups --------------------------------
(***************************************************************************)
(* Block groups (e2fs/block_group.py, superblock.py): where the tool looks *)
(* for the bitmaps, the inode table and the inodes of each group, and      *)
(* Superblock.all_block_descriptors, the walk over every copy of every     *)
(* descriptor that the command descriptors prints.                         *)
(*                                                                         *)
(* A place is a block of the image and a byte in it.                       *)
(***************************************************************************)
EXTENDS Integers, FiniteSets, Functions

CONSTANTS
  Images,      \* the images, each with its superblock
  Contents,    \* what the bytes of a descriptor may be
  LogMisses    \* the powers of 3, 5 and 7 whose math.log is no integer

Superblock ==
  [blocks_count : Nat \ {0}, blocks_per_group : Nat \ {0}, block_size : Nat \ {0},
   inodes_per_group : Nat \ {0}, inode_size : Nat \ {0}, desc_size : Nat,
   reserved_gdt_blocks : Nat, sparse : BOOLEAN]

Ceil(a, b)  == (a + b - 1) \div b
BgCount(sb) == Ceil(sb.blocks_count, sb.blocks_per_group)
BgIds(sb)   == 0 .. BgCount(sb) - 1

(* magic: whether a group begins with a superblock, by its magic number;   *)
(* desc: what is read as the descriptors in the blocks that follow.        *)
ASSUME ImagesAssumption ==
  \A m \in Images :
    /\ m.sb \in Superblock
    /\ m.sb.inode_size = 128    \* inode_idx refuses any other
    /\ m.magic \in [BgIds(m.sb) -> BOOLEAN]
    /\ m.desc \in [BgIds(m.sb) -> [BgIds(m.sb) -> Contents]]

VARIABLES
  image,    \* the image: it is not written
  pc,       \* where the walk is
  bg,       \* the group that super_bgs looks at
  i,        \* the descriptor of that group
  all_bg    \* the descriptors found, by content

descVars == <<image, pc, bg, i, all_bg>>
-----------------------------------------------------------------------------
sb      == image.sb
Groups  == BgIds(sb)
Count   == BgCount(sb)

(* int(x := log(n, base)) == x                                             *)
Power(b, n) ==
  LET pow[m \in 1 .. n] == m = 1 \/ (m % b = 0 /\ pow[m \div b])
  IN  n > 0 /\ pow[n]
IsPow(n, b)  == Power(b, n) /\ n \notin LogMisses
IsSuper(g)   == g = 0 \/ IsPow(g, 3) \/ IsPow(g, 5) \/ IsPow(g, 7)

(* Where the parts of a group begin, in blocks of the image.               *)
DescSize        == IF sb.desc_size > 32 THEN 64 ELSE 32
DescBlocks      == Ceil(Count * DescSize, sb.block_size)
BitmapOffsetShort(g) == IF IsSuper(g) THEN 1 + sb.reserved_gdt_blocks ELSE 0  \* a slip
BitmapOffset(g) == IF IsSuper(g) THEN 1 + DescBlocks + sb.reserved_gdt_blocks ELSE 0
GroupStart(g)   == g * sb.blocks_per_group
DataBitmap(g)   == GroupStart(g) + BitmapOffset(g)
InodeTable(g)   == GroupStart(g) + BitmapOffset(g) + 2
InodeBlocks     == Ceil(sb.inode_size * sb.inodes_per_group, sb.block_size)

(* Superblock.inode and BlockGroup.inode_idx: the byte of the image where  *)
(* an inode begins.                                                        *)
InodeCount       == sb.inodes_per_group * Count
Accepts(id)      == 1 <= id /\ id < InodeCount
GroupOf(id)      == (id - 1) \div sb.inodes_per_group
IndexFromOne(id) == id - GroupOf(id) * sb.inodes_per_group   \* a slip: as ids do
IndexOf(id)      == (id - 1) % sb.inodes_per_group
InodeAt(id)      ==
  IndexOf(id) * sb.inode_size + InodeTable(GroupOf(id)) * sb.block_size

(* descriptors: the byte where copy g of the descriptor of group k begins. *)
DescriptorAt(g, k) ==
  GroupStart(g) * sb.block_size + sb.block_size + k * DescSize
-----------------------------------------------------------------------------
DescInit ==
  /\ image \in Images
  /\ pc = "groups"
  /\ bg = 0
  /\ i = 0
  /\ all_bg = << >>

(* super_bgs: without sparse superblocks every group is looked at, and a   *)
(* group whose superblock has the wrong magic is passed over.              *)
Yields(g) == (IsSuper(g) \/ ~sb.sparse) /\ image.magic[g]

SkipGroup ==
  /\ pc = "groups" /\ bg < Count
  /\ ~Yields(bg)
  /\ bg' = bg + 1
  /\ UNCHANGED <<image, pc, i, all_bg>>

(* descriptors() raises in a group that should not have any.               *)
EnterGroup ==
  /\ pc = "groups" /\ bg < Count
  /\ Yields(bg)
  /\ pc' = IF IsSuper(bg) THEN "descriptors" ELSE "failed"
  /\ i' = 0
  /\ UNCHANGED <<image, bg, all_bg>>

(* The first descriptor with a content is kept, the others are counted.    *)
FoundLast(c)  == [all_bg EXCEPT ![c] = [copies |-> @.copies + 1, bg |-> i, bg_src |-> bg]]  \* a slip
FoundAgain(c) == [all_bg EXCEPT ![c].copies = @ + 1]
FoundFirst(c) == [d \in DOMAIN all_bg \cup {c} |->
                    IF d = c THEN [copies |-> 1, bg |-> i, bg_src |-> bg] ELSE all_bg[d]]
ReadDescriptor ==
  /\ pc = "descriptors" /\ i < Count
  /\ LET c == image.desc[bg][i]
     IN  all_bg' = IF c \in DOMAIN all_bg THEN FoundAgain(c) ELSE FoundFirst(c)
  /\ i' = i + 1
  /\ UNCHANGED <<image, pc, bg>>

LeaveGroup ==
  /\ pc = "descriptors" /\ i = Count
  /\ pc' = "groups"
  /\ bg' = bg + 1
  /\ UNCHANGED <<image, i, all_bg>>

DescReturn ==
  /\ pc = "groups" /\ bg = Count
  /\ pc' = "done"
  /\ UNCHANGED <<image, bg, i, all_bg>>

DescEnded == pc \in {"done", "failed"} /\ UNCHANGED descVars

DescNext == SkipGroup \/ EnterGroup \/ ReadDescriptor \/ LeaveGroup \/ DescReturn \/ DescEnded
DescSpec == DescInit /\ [][DescNext]_descVars
-----------------------------------------------------------------------------
DescTypeOK ==
  /\ image \in Images
  /\ pc \in {"groups", "descriptors", "done", "failed"}
  /\ bg \in 0 .. Count
  /\ pc = "descriptors" => bg < Count
  /\ i \in 0 .. Count
  /\ DOMAIN all_bg \subseteq Contents
  /\ all_bg \in [DOMAIN all_bg -> [copies : Nat \ {0}, bg : Groups, bg_src : Groups]]

(* A group has room for its own metadata.                                  *)
Roomy == \A g \in Groups : BitmapOffset(g) + 2 + InodeBlocks <= sb.blocks_per_group

(* The bytes of inode id are in the inode table of its group.              *)
InTable(id) ==
  /\ GroupOf(id) \in Groups
  /\ InodeTable(GroupOf(id)) * sb.block_size <= InodeAt(id)
  /\ InodeAt(id) + sb.inode_size <= (InodeTable(GroupOf(id)) + InodeBlocks) * sb.block_size

(* Two inodes are never read from the same bytes, and no inode from bytes  *)
(* outside its table (block_group.py inode_idx): they lie in the order of  *)
(* their ids, across the groups as well.                                   *)
InodesApart ==
  Roomy => \A id1, id2 \in 1 .. InodeCount :
    Accepts(id1) /\ Accepts(id2) =>
      /\ InTable(id1)
      /\ id1 < id2 => InodeAt(id1) + sb.inode_size <= InodeAt(id2)

(* The copies of the descriptors that are read overlap with the bitmaps    *)
(* and the inode table of no group (block_group.py bitmap_offset).         *)
DescriptorsApart ==
  Roomy => \A g, h, k \in Groups : IsSuper(g) =>
    \/ DescriptorAt(g, k) + DescSize <= DataBitmap(h) * sb.block_size
    \/ (InodeTable(h) + InodeBlocks) * sb.block_size <= DescriptorAt(g, k)

(* At the end all_bg has every content that was read, as often as it was   *)
(* read, and names the first place.                                        *)
Before(g, k)  == g < bg \/ (g = bg /\ pc = "descriptors" /\ k < i)
Read          == {p \in Groups \X Groups : Yields(p[1]) /\ IsSuper(p[1]) /\ Before(p[1], p[2])}
CopiesOf(c)   == {p \in Read : image.desc[p[1]][p[2]] = c}
AllCounted ==
  /\ DOMAIN all_bg = {image.desc[p[1]][p[2]] : p \in Read}
  /\ \A c \in DOMAIN all_bg :
       /\ all_bg[c].copies = Cardinality(CopiesOf(c))
       /\ <<all_bg[c].bg_src, all_bg[c].bg>> \in CopiesOf(c)
       /\ \A p \in CopiesOf(c) :
            \/ all_bg[c].bg_src < p[1]
            \/ all_bg[c].bg_src = p[1] /\ all_bg[c].bg <= p[2]

(* A walk that reads descriptors is in a group that has them: with it the  *)
(* properties above are inductive.                                         *)
InGroup == pc = "descriptors" => Yields(bg) /\ IsSuper(bg)
DescInv == DescTypeOK /\ InGroup /\ AllCounted
=============================================================================
