----------------------------- MODULE LayoutProofs -----------------------------
(***************************************************************************)
(* Proofs about where the parts of a file system are.                      *)
(*                                                                         *)
(* Groups: for every image whose superblock is of the sizes that           *)
(* ImagesAssumption names, the places of the inodes and descriptors do not *)
(* overlap, and the walk over the descriptors counts each as often as it   *)
(* is read.  Which groups have a superblock is left open: nothing here     *)
(* opens IsSuper.                                                          *)
(*                                                                         *)
(* EachBlock: what holds of every walk over the map of every inode, for    *)
(* all sizes of blocks, of the image and of the map.  That the blocks come *)
(* in file order, and all of them when the file has no holes, is shown by  *)
(* saying which part of the file every suspended generator covers.         *)
(***************************************************************************)
EXTENDS EachBlock, Groups, FiniteSetTheorems, SequenceTheorems, TLAPS

(* What \div and % are.                                                    *)
LEMMA DivMod ==
  ASSUME NEW a \in Nat, NEW b \in Nat \ {0}
  PROVE  /\ a \div b \in Nat
         /\ a % b \in 0 .. b - 1
         /\ a = b * (a \div b) + (a % b)
  BY Z3

(* What a quotient and a remainder are made of.                            *)
LEMMA DivModOf ==
  ASSUME NEW b \in Nat \ {0}, NEW q \in Nat, NEW r \in 0 .. b - 1
  PROVE  (q * b + r) \div b = q /\ (q * b + r) % b = r
<1> DEFINE a == q * b + r
<1>1. a \in Nat /\ a = b * q + r /\ q * b \in Nat
  OBVIOUS
<1> DEFINE p == a \div b
           s == a % b
<1>2. p \in Nat /\ s \in 0 .. b - 1 /\ a = b * p + s
  BY <1>1, DivMod
<1> HIDE DEF a, p, s
<1>3. b * (q - p) = s - r /\ q - p \in Int
  BY <1>1, <1>2
<1>4. ASSUME NEW c \in Int, c >= 1 PROVE b * c >= b
  BY <1>4
<1>5. q - p = 0
  <2>1. ~(q - p >= 1)
    BY <1>2, <1>3, <1>4
  <2>2. ~(p - q >= 1)
    <3>1. b * (p - q) = r - s /\ p - q \in Int
      BY <1>1, <1>2
    <3> QED BY <1>2, <1>4, <3>1
  <2> QED BY <1>2, <1>3, <2>1, <2>2
<1>6. p = q /\ s = r
  BY <1>2, <1>3, <1>5
<1> QED BY <1>6 DEF a, p, s

(* A product grows with its first factor.                                  *)
LEMMA TimesMono ==
  ASSUME NEW a \in Int, NEW b \in Int, NEW c \in Nat, a <= b
  PROVE  a * c <= b * c
  BY Z3

(* Ceil(a, b) parts of size b have room for a.                             *)
LEMMA CeilRoom ==
  ASSUME NEW a \in Nat, NEW b \in Nat \ {0}
  PROVE  Ceil(a, b) \in Nat /\ a <= Ceil(a, b) * b
<1>1. a + b - 1 \in Nat
  OBVIOUS
<1>2. a + b - 1 = b * ((a + b - 1) \div b) + ((a + b - 1) % b)
  BY <1>1, DivMod
<1>3. (a + b - 1) % b \in 0 .. b - 1 /\ (a + b - 1) \div b \in Nat
  BY <1>1, DivMod
<1> QED
  BY <1>2, <1>3 DEF Ceil

LEMMA CeilPositive ==
  ASSUME NEW a \in Nat \ {0}, NEW b \in Nat \ {0}
  PROVE  Ceil(a, b) \in Nat \ {0}
<1>1. Ceil(a, b) \in Nat /\ a <= Ceil(a, b) * b
  BY CeilRoom
<1> QED
  BY <1>1

(* The numbers of a superblock, and what is computed from them.            *)
LEMMA SuperblockTypes ==
  ASSUME image \in Images
  PROVE  /\ sb \in Superblock /\ sb.inode_size = 128
         /\ Count \in Nat \ {0} /\ Groups = 0 .. Count - 1
         /\ DescSize \in {32, 64} /\ DescBlocks \in Nat /\ InodeBlocks \in Nat
         /\ InodeCount \in Nat /\ Groups \subseteq Nat
         /\ \A g : BitmapOffset(g) \in Nat
         /\ \A g \in Nat : GroupStart(g) \in Nat /\ InodeTable(g) \in Nat
<1>1. sb \in Superblock /\ sb.inode_size = 128
  BY ImagesAssumption DEF sb
<1> USE <1>1 DEF Superblock
<1>2. Count \in Nat \ {0}
  BY CeilPositive DEF Count, BgCount
<1>3. Groups = 0 .. Count - 1
  BY DEF Groups, BgIds, Count
<1>4. DescSize \in {32, 64}
  BY DEF DescSize
<1>5. DescBlocks \in Nat
  <2>1. Count * DescSize \in Nat
    BY <1>2, <1>4
  <2> QED
    BY <2>1, CeilRoom DEF DescBlocks
<1>6. InodeBlocks \in Nat
  <2>1. sb.inode_size * sb.inodes_per_group \in Nat
    OBVIOUS
  <2> QED
    BY <2>1, CeilRoom DEF InodeBlocks
<1>7. InodeCount \in Nat
  BY <1>2 DEF InodeCount
<1>8. \A g : BitmapOffset(g) \in Nat
  BY <1>5 DEF BitmapOffset
<1>9. \A g \in Nat : GroupStart(g) \in Nat /\ InodeTable(g) \in Nat
  BY <1>8 DEF GroupStart, InodeTable
<1> QED
  BY <1>1, <1>2, <1>3, <1>4, <1>5, <1>6, <1>7, <1>8, <1>9

(* An id is a group and an index in its table.                             *)
LEMMA IdSplits ==
  ASSUME image \in Images, NEW id \in 1 .. InodeCount
  PROVE  /\ GroupOf(id) \in Groups
         /\ IndexOf(id) \in 0 .. sb.inodes_per_group - 1
         /\ id - 1 = sb.inodes_per_group * GroupOf(id) + IndexOf(id)
<1> DEFINE n == sb.inodes_per_group
<1>1. n \in Nat \ {0} /\ Count \in Nat \ {0} /\ Groups = 0 .. Count - 1
  BY SuperblockTypes DEF Superblock
<1>2. id - 1 \in Nat /\ id - 1 < n * Count
  BY <1>1 DEF InodeCount
<1>3. /\ GroupOf(id) \in Nat
      /\ IndexOf(id) \in 0 .. n - 1
      /\ id - 1 = n * GroupOf(id) + IndexOf(id)
  BY <1>1, <1>2, DivMod DEF GroupOf, IndexOf
<1>4. GroupOf(id) < Count
  <2>1. SUFFICES ASSUME Count <= GroupOf(id)
                 PROVE  FALSE
    BY <1>1, <1>3
  <2>2. Count \in Int /\ GroupOf(id) \in Int /\ n \in Nat
    BY <1>1, <1>3
  <2> HIDE DEF n
  <2>3. Count * n <= GroupOf(id) * n
    BY <2>1, <2>2, TimesMono
  <2> QED
    BY <2>3, <1>1, <1>2, <1>3
<1> QED
  BY <1>1, <1>3, <1>4

(* An inode lies in the table of its group.                                *)
LEMMA InTheTable ==
  ASSUME image \in Images, NEW id \in 1 .. InodeCount
  PROVE  InTable(id)
<1> DEFINE n == sb.inodes_per_group
           z == sb.block_size
           x == IndexOf(id)
           t == InodeTable(GroupOf(id))
<1>1. n \in Nat \ {0} /\ z \in Nat \ {0} /\ sb.inode_size = 128 /\ InodeBlocks \in Nat
  BY SuperblockTypes DEF Superblock
<1>2. GroupOf(id) \in Groups /\ x \in 0 .. n - 1 /\ t \in Nat
  BY IdSplits, SuperblockTypes
<1>3. 128 * n <= InodeBlocks * z
  BY <1>1, CeilRoom DEF InodeBlocks
<1>4. InodeAt(id) = x * 128 + t * z
  BY <1>1 DEF InodeAt
<1>5. (t + InodeBlocks) * z = t * z + InodeBlocks * z
  BY <1>1, <1>2
<1>6. t * z \in Nat /\ InodeBlocks * z \in Nat
  BY <1>1, <1>2
<1>7. t * z <= InodeAt(id) /\ InodeAt(id) + 128 <= (t + InodeBlocks) * z
  <2> HIDE DEF n, z, x, t
  <2> QED
    BY <1>1, <1>2, <1>3, <1>4, <1>5, <1>6
<1> QED
  BY <1>1, <1>2, <1>7 DEF InTable

(* The table of a group ends before that of a later group begins.          *)
LEMMA TablesApart ==
  ASSUME image \in Images, Roomy, NEW g \in Groups, NEW h \in Groups, g < h
  PROVE  InodeTable(g) + InodeBlocks <= InodeTable(h)
<1> DEFINE b == sb.blocks_per_group
<1>1. /\ b \in Nat \ {0} /\ InodeBlocks \in Nat /\ g \in Nat /\ h \in Nat
      /\ BitmapOffset(g) \in Nat /\ BitmapOffset(h) \in Nat
  <2>1. sb \in Superblock /\ InodeBlocks \in Nat /\ Groups \subseteq Nat
    BY SuperblockTypes
  <2>2. BitmapOffset(g) \in Nat /\ BitmapOffset(h) \in Nat
    BY SuperblockTypes
  <2> QED
    BY <2>1, <2>2 DEF Superblock
<1>2. BitmapOffset(g) + 2 + InodeBlocks <= b
  BY DEF Roomy
<1>3. (g + 1) * b <= h * b
  BY <1>1, TimesMono
<1>4. (g + 1) * b = g * b + b /\ g * b \in Nat /\ h * b \in Nat
  BY <1>1
<1> HIDE DEF b
<1>5. InodeTable(g) = g * b + BitmapOffset(g) + 2 /\ InodeTable(h) = h * b + BitmapOffset(h) + 2
  BY DEF InodeTable, GroupStart, b
<1> QED
  BY <1>1, <1>2, <1>3, <1>4, <1>5

(* InodesApart holds of every image.                                       *)
LEMMA ApartOfImage ==
  ASSUME image \in Images
  PROVE  InodesApart
<1> SUFFICES ASSUME Roomy, NEW id1 \in 1 .. InodeCount, NEW id2 \in 1 .. InodeCount, id1 < id2
             PROVE  InodeAt(id1) + sb.inode_size <= InodeAt(id2)
  BY InTheTable DEF InodesApart
<1> DEFINE n == sb.inodes_per_group
           z == sb.block_size
           g == GroupOf(id1)
           h == GroupOf(id2)
           x == IndexOf(id1)
           y == IndexOf(id2)
<1>1. /\ n \in Nat \ {0} /\ z \in Nat \ {0} /\ sb.inode_size = 128 /\ InodeBlocks \in Nat
      /\ Groups \subseteq Nat
  BY SuperblockTypes DEF Superblock
<1>2. /\ g \in Groups /\ x \in 0 .. n - 1 /\ id1 - 1 = n * g + x
      /\ h \in Groups /\ y \in 0 .. n - 1 /\ id2 - 1 = n * h + y
  BY IdSplits
<1>3. InodeTable(g) \in Nat /\ InodeTable(h) \in Nat
  <2>1. \A k \in Nat : InodeTable(k) \in Nat
    BY SuperblockTypes
  <2>2. g \in Nat /\ h \in Nat
    BY <1>1, <1>2
  <2> HIDE DEF g, h
  <2> QED
    BY <2>1, <2>2
<1>4. CASE g = h
  <2>1. x < y
    <3> HIDE DEF n, g, h, x, y
    <3>1. n * g \in Nat
      BY <1>1, <1>2
    <3>2. id1 \in Int /\ id2 \in Int
      BY SuperblockTypes
    <3> QED
      BY <3>1, <3>2, <1>1, <1>2, <1>4
  <2>2. InodeAt(id1) = x * 128 + InodeTable(g) * z /\ InodeAt(id2) = y * 128 + InodeTable(g) * z
    BY <1>1, <1>4 DEF InodeAt
  <2>3. InodeTable(g) * z \in Nat
    BY <1>1, <1>3
  <2> HIDE DEF n, z, g, h, x, y
  <2> QED
    BY <2>1, <2>2, <2>3, <1>1, <1>2
<1>5. CASE g < h
  <2>1. InodeTable(g) + InodeBlocks <= InodeTable(h)
    BY <1>2, <1>5, TablesApart
  <2>2. (InodeTable(g) + InodeBlocks) * z <= InodeTable(h) * z
    BY <2>1, <1>1, <1>3, TimesMono
  <2>3. InodeAt(id1) + 128 <= (InodeTable(g) + InodeBlocks) * z
    BY <1>1, InTheTable DEF InTable
  <2>4. InodeTable(h) * z <= InodeAt(id2)
    BY InTheTable DEF InTable
  <2>5. /\ InodeAt(id1) \in Int /\ InodeAt(id2) \in Int
        /\ (InodeTable(g) + InodeBlocks) * z \in Int /\ InodeTable(h) * z \in Int
    BY <1>1, <1>2, <1>3 DEF InodeAt
  <2> HIDE DEF z, g, h
  <2> QED
    BY <2>2, <2>3, <2>4, <2>5, <1>1
<1>6. CASE h < g
  <2> HIDE DEF n, g, h, x, y
  <2>1. (h + 1) * n <= g * n
    <3>1. h + 1 \in Int /\ g \in Int /\ n \in Nat /\ h + 1 <= g
      BY <1>1, <1>2, <1>6
    <3> QED
      BY <3>1, TimesMono
  <2>2. (h + 1) * n = n * h + n /\ g * n = n * g /\ n * g \in Nat /\ n * h \in Nat
    BY <1>1, <1>2
  <2>3. id1 \in Int /\ id2 \in Int
    BY SuperblockTypes
  <2> QED
    BY <2>1, <2>2, <2>3, <1>1, <1>2
<1>7. g \in Nat /\ h \in Nat
  BY <1>1, <1>2
<1> HIDE DEF g, h
<1> QED
  BY <1>7, <1>4, <1>5, <1>6

(* The parts of a group, in the order in which they lie.                   *)
LEMMA PartsOfGroup ==
  ASSUME image \in Images, Roomy, NEW g \in Groups, NEW k \in Groups, NEW h \in Groups
  PROVE  /\ DataBitmap(g) \in Nat /\ GroupStart(g) \in Nat /\ InodeTable(g) + InodeBlocks \in Nat
         /\ DescriptorAt(g, k) \in Nat
         /\ GroupStart(g) <= DataBitmap(g)
         /\ InodeTable(g) + InodeBlocks <= GroupStart(g) + sb.blocks_per_group
         /\ GroupStart(g) * sb.block_size <= DescriptorAt(g, k)
         /\ IsSuper(g) => DescriptorAt(g, k) + DescSize <= DataBitmap(g) * sb.block_size
         /\ g < h => GroupStart(g) + sb.blocks_per_group <= GroupStart(h)
<1> DEFINE b == sb.blocks_per_group
           z == sb.block_size
           r == sb.reserved_gdt_blocks
<1>1. b \in Nat /\ z \in Nat \ {0} /\ r \in Nat
  BY SuperblockTypes DEF Superblock
<1>2. /\ g \in Nat /\ k \in 0 .. Count - 1 /\ h \in Nat /\ Count \in Nat
      /\ DescSize \in {32, 64} /\ DescBlocks \in Nat /\ InodeBlocks \in Nat
  BY SuperblockTypes
<1>3. BitmapOffset(g) \in Nat
  BY SuperblockTypes
<1>4. GroupStart(g) \in Nat /\ GroupStart(h) \in Nat
  BY <1>1, <1>2 DEF GroupStart
<1>5. DataBitmap(g) = GroupStart(g) + BitmapOffset(g)
  BY DEF DataBitmap
<1>6. InodeTable(g) + InodeBlocks = GroupStart(g) + BitmapOffset(g) + 2 + InodeBlocks
  BY DEF InodeTable
<1>7. BitmapOffset(g) + 2 + InodeBlocks <= b
  BY DEF Roomy
<1>8. ASSUME g < h
      PROVE  GroupStart(g) + b <= GroupStart(h)
  <2> HIDE DEF b, z, r
  <2>1. (g + 1) * b <= h * b
    BY <1>1, <1>2, <1>8, TimesMono
  <2>2. (g + 1) * b = g * b + b
    BY <1>1, <1>2
  <2> QED
    BY <2>1, <2>2 DEF GroupStart, b
<1>9. DescriptorAt(g, k) = GroupStart(g) * z + z + k * DescSize
  BY DEF DescriptorAt
<1>10. k * DescSize + DescSize <= DescBlocks * z
  <2>1. Count * DescSize \in Nat
    BY <1>2
  <2>2. Count * DescSize <= DescBlocks * z
    BY <2>1, <1>1, CeilRoom DEF DescBlocks
  <2>3. (k + 1) * DescSize <= Count * DescSize
    BY <1>2, TimesMono
  <2>4. (k + 1) * DescSize = k * DescSize + DescSize /\ k * DescSize \in Nat
    BY <1>2
  <2>5. DescBlocks * z \in Nat
    BY <1>1, <1>2
  <2> QED
    BY <2>1, <2>2, <2>3, <2>4, <2>5, <1>2
<1>11. GroupStart(g) * z \in Nat /\ k * DescSize \in Nat /\ DescBlocks * z \in Nat /\ r * z \in Nat
  BY <1>1, <1>2, <1>4
<1>12. ASSUME IsSuper(g)
       PROVE  DescriptorAt(g, k) + DescSize <= DataBitmap(g) * z
  <2>1. DataBitmap(g) = GroupStart(g) + (1 + DescBlocks + r)
    BY <1>5, <1>12 DEF BitmapOffset
  <2> HIDE DEF z, r
  <2>2. DataBitmap(g) * z = GroupStart(g) * z + z + DescBlocks * z + r * z
    BY <2>1, <1>1, <1>2, <1>4
  <2> QED
    BY <2>2, <1>1, <1>2, <1>9, <1>10, <1>11
<1> HIDE DEF b, z, r
<1>13. DescriptorAt(g, k) \in Nat /\ GroupStart(g) * z <= DescriptorAt(g, k)
  BY <1>1, <1>9, <1>11
<1>14. /\ DataBitmap(g) \in Nat /\ InodeTable(g) + InodeBlocks \in Nat
       /\ GroupStart(g) <= DataBitmap(g)
       /\ InodeTable(g) + InodeBlocks <= GroupStart(g) + b
  BY <1>1, <1>2, <1>3, <1>4, <1>5, <1>6, <1>7
<1> QED
  BY <1>4, <1>8, <1>12, <1>13, <1>14 DEF b, z

(* DescriptorsApart holds of every image.                                  *)
LEMMA DescriptorsOfImage ==
  ASSUME image \in Images
  PROVE  DescriptorsApart
<1> SUFFICES ASSUME Roomy, NEW g \in Groups, NEW h \in Groups, NEW k \in Groups, IsSuper(g)
             PROVE  \/ DescriptorAt(g, k) + DescSize <= DataBitmap(h) * sb.block_size
                    \/ (InodeTable(h) + InodeBlocks) * sb.block_size <= DescriptorAt(g, k)
  BY DEF DescriptorsApart
<1> DEFINE z == sb.block_size
           e == InodeTable(h) + InodeBlocks
<1>1. z \in Nat /\ g \in Nat /\ h \in Nat /\ DescSize \in Nat /\ sb.blocks_per_group \in Nat
  <2>1. sb \in Superblock
    BY SuperblockTypes
  <2>2. Groups \subseteq Nat /\ DescSize \in {32, 64}
    BY SuperblockTypes
  <2> QED
    BY <2>1, <2>2 DEF Superblock
<1>2. /\ DescriptorAt(g, k) \in Nat /\ GroupStart(g) * z <= DescriptorAt(g, k)
      /\ DescriptorAt(g, k) + DescSize <= DataBitmap(g) * z
      /\ DataBitmap(g) \in Nat /\ GroupStart(g) \in Nat
  BY PartsOfGroup
<1>3. /\ DataBitmap(h) \in Nat /\ GroupStart(h) \in Nat /\ e \in Nat
      /\ GroupStart(h) <= DataBitmap(h) /\ e <= GroupStart(h) + sb.blocks_per_group
  BY PartsOfGroup
<1>4. CASE g = h
  BY <1>2, <1>4
<1>5. CASE h < g
  <2>1. GroupStart(h) + sb.blocks_per_group <= GroupStart(g)
    BY <1>5, PartsOfGroup
  <2> HIDE DEF z, e
  <2>2. e <= GroupStart(g)
    BY <2>1, <1>1, <1>2, <1>3
  <2>3. e * z <= GroupStart(g) * z
    BY <2>2, <1>1, <1>2, <1>3, TimesMono
  <2>4. e * z \in Nat /\ GroupStart(g) * z \in Nat
    BY <1>1, <1>2, <1>3
  <2>5. e * z <= DescriptorAt(g, k)
    BY <2>3, <2>4, <1>2
  <2> QED
    BY <2>5 DEF z, e
<1>6. CASE g < h
  <2>1. DataBitmap(g) <= DataBitmap(h)
    <3>1. GroupStart(g) + sb.blocks_per_group <= GroupStart(h)
      BY <1>6, PartsOfGroup
    <3>2. DataBitmap(g) <= GroupStart(g) + sb.blocks_per_group
      <4>1. InodeTable(g) + InodeBlocks <= GroupStart(g) + sb.blocks_per_group
        BY PartsOfGroup
      <4>2. InodeTable(g) = DataBitmap(g) + 2
        BY DEF InodeTable, DataBitmap
      <4>3. InodeBlocks \in Nat
        BY SuperblockTypes
      <4> QED
        BY <4>1, <4>2, <4>3, <1>1, <1>2
    <3> QED
      BY <3>1, <3>2, <1>1, <1>2, <1>3
  <2> HIDE DEF z
  <2>2. DataBitmap(g) * z <= DataBitmap(h) * z
    BY <2>1, <1>1, <1>2, <1>3, TimesMono
  <2>3. DataBitmap(g) * z \in Nat /\ DataBitmap(h) * z \in Nat
    BY <1>1, <1>2, <1>3
  <2>4. DescriptorAt(g, k) + DescSize <= DataBitmap(h) * z
    BY <2>2, <2>3, <1>1, <1>2
  <2> QED
    BY <2>4 DEF z
<1> QED
  BY <1>1, <1>4, <1>5, <1>6

(* What is read as a descriptor.                                           *)
LEMMA DescriptorRead ==
  ASSUME image \in Images, NEW g \in Groups, NEW k \in Groups
  PROVE  image.desc[g][k] \in Contents
  BY ImagesAssumption DEF Groups, sb

Entry == [copies : Nat \ {0}, bg : Groups, bg_src : Groups]

(* Reading one descriptor keeps the types of all_bg.                       *)
LEMMA FoundTypes ==
  ASSUME DescTypeOK, pc = "descriptors", i < Count, NEW c \in Contents
  PROVE  /\ c \in DOMAIN all_bg => FoundAgain(c) \in [DOMAIN all_bg -> Entry]
         /\ c \notin DOMAIN all_bg => FoundFirst(c) \in [DOMAIN all_bg \cup {c} -> Entry]
<1>1. bg \in Groups /\ i \in Groups
  <2>1. Groups = 0 .. Count - 1 /\ Count \in Nat
    BY SuperblockTypes DEF DescTypeOK
  <2> QED
    BY <2>1 DEF DescTypeOK
<1>2. all_bg \in [DOMAIN all_bg -> Entry]
  BY DEF DescTypeOK, Entry
<1>3. ASSUME c \in DOMAIN all_bg
      PROVE  FoundAgain(c) \in [DOMAIN all_bg -> Entry]
  <2>1. all_bg[c] \in Entry
    BY <1>2, <1>3
  <2>2. [all_bg[c] EXCEPT !.copies = @ + 1] \in Entry
    BY <2>1 DEF Entry
  <2> QED
    BY <1>2, <2>2 DEF FoundAgain
<1>4. FoundFirst(c) \in [DOMAIN all_bg \cup {c} -> Entry]
  <2>1. [copies |-> 1, bg |-> i, bg_src |-> bg] \in Entry
    BY <1>1 DEF Entry
  <2> QED
    BY <1>2, <2>1 DEF FoundFirst
<1> QED
  BY <1>3, <1>4

LEMMA TypeStep == DescTypeOK /\ [DescNext]_descVars => DescTypeOK'
<1> SUFFICES ASSUME DescTypeOK, [DescNext]_descVars
             PROVE  DescTypeOK'
  OBVIOUS
<1>1. Count \in Nat \ {0} /\ Groups = 0 .. Count - 1
  BY SuperblockTypes DEF DescTypeOK
<1>2. image' = image
  BY DEF DescNext, descVars, SkipGroup, EnterGroup, ReadDescriptor, LeaveGroup, DescReturn, DescEnded
<1>3. Count' = Count /\ Groups' = Groups
  BY <1>2 DEF Count, Groups, sb
<1>4. CASE SkipGroup
  BY <1>1, <1>2, <1>3, <1>4 DEF DescTypeOK, SkipGroup
<1>5. CASE EnterGroup
  BY <1>1, <1>2, <1>3, <1>5 DEF DescTypeOK, EnterGroup
<1>6. CASE ReadDescriptor
  <2> DEFINE c == image.desc[bg][i]
  <2>1. bg \in Groups /\ i \in Groups
    BY <1>1, <1>6 DEF DescTypeOK, ReadDescriptor
  <2>2. c \in Contents
    BY <2>1, DescriptorRead DEF DescTypeOK
  <2>3. /\ c \in DOMAIN all_bg => FoundAgain(c) \in [DOMAIN all_bg -> Entry]
        /\ c \notin DOMAIN all_bg => FoundFirst(c) \in [DOMAIN all_bg \cup {c} -> Entry]
    BY <2>2, <1>6, FoundTypes DEF ReadDescriptor
  <2>4. all_bg' = IF c \in DOMAIN all_bg THEN FoundAgain(c) ELSE FoundFirst(c)
    BY <1>6 DEF ReadDescriptor
  <2>5. DOMAIN all_bg' \subseteq Contents /\ all_bg' \in [DOMAIN all_bg' -> Entry]
    <3> HIDE DEF c
    <3>1. CASE c \in DOMAIN all_bg
      <4>1. all_bg' \in [DOMAIN all_bg -> Entry]
        BY <2>3, <2>4, <3>1
      <4> QED
        BY <4>1 DEF DescTypeOK
    <3>2. CASE c \notin DOMAIN all_bg
      <4>1. all_bg' \in [DOMAIN all_bg \cup {c} -> Entry]
        BY <2>3, <2>4, <3>2
      <4> QED
        BY <4>1, <2>2 DEF DescTypeOK
    <3> QED
      BY <3>1, <3>2
  <2>6. all_bg' \in [DOMAIN all_bg' -> Entry']
    BY <2>5, <1>3 DEF Entry
  <2>7. i' \in 0 .. Count /\ pc' = "descriptors" /\ bg' = bg /\ bg < Count
    BY <1>1, <1>6, <2>1 DEF ReadDescriptor
  <2> QED
    BY <1>1, <1>2, <1>3, <2>5, <2>6, <2>7 DEF DescTypeOK, Entry
<1>7. CASE LeaveGroup
  BY <1>1, <1>2, <1>3, <1>7 DEF DescTypeOK, LeaveGroup
<1>8. CASE DescReturn
  BY <1>1, <1>2, <1>3, <1>8 DEF DescTypeOK, DescReturn
<1>9. CASE DescEnded \/ UNCHANGED descVars
  BY <1>1, <1>2, <1>3, <1>9 DEF DescTypeOK, DescEnded, descVars
<1> QED
  BY <1>4, <1>5, <1>6, <1>7, <1>8, <1>9 DEF DescNext

LEMMA TypeInit == DescInit => DescTypeOK
<1> SUFFICES ASSUME DescInit
             PROVE  DescTypeOK
  OBVIOUS
<1>1. Count \in Nat \ {0}
  BY SuperblockTypes DEF DescInit
<1> QED
  BY <1>1 DEF DescInit, DescTypeOK

(* The state of the walk keeps its types, on every image.                  *)
THEOREM DescTypeCorrect == DescSpec => []DescTypeOK
  BY TypeInit, TypeStep, PTL DEF DescSpec

(* No two inodes share a byte, and none is outside its table, for every    *)
(* superblock whose groups have room for their metadata (block_group.py    *)
(* inode_idx).                                                             *)
THEOREM InodesCorrect == DescSpec => []InodesApart
<1>1. DescTypeOK => InodesApart
  BY ApartOfImage DEF DescTypeOK
<1> QED
  BY <1>1, DescTypeCorrect, PTL

(* Nor do the descriptors and the bitmaps and tables of any group          *)
(* (block_group.py bitmap_offset, descriptors).                            *)
THEOREM DescriptorsCorrect == DescSpec => []DescriptorsApart
<1>1. DescTypeOK => DescriptorsApart
  BY DescriptorsOfImage DEF DescTypeOK
<1> QED
  BY <1>1, DescTypeCorrect, PTL

LEMMA ReadFinite ==
  ASSUME image \in Images, NEW c
  PROVE  IsFiniteSet(CopiesOf(c)) /\ CopiesOf(c) \subseteq Groups \X Groups
<1>1. IsFiniteSet(Groups)
  <2>1. Groups = 0 .. Count - 1 /\ Count \in Nat
    BY SuperblockTypes
  <2> QED
    BY <2>1, FS_Interval
<1>2. IsFiniteSet(Groups \X Groups)
  BY <1>1, FS_Product
<1>3. CopiesOf(c) \subseteq Groups \X Groups
  BY DEF CopiesOf, Read
<1> QED
  BY <1>2, <1>3, FS_Subset

(* A step that reads nothing keeps AllCounted.                             *)
LEMMA NothingRead ==
  ASSUME AllCounted, UNCHANGED <<image, all_bg>>, Read' = Read
  PROVE  AllCounted'
<1>1. \A c : CopiesOf(c)' = CopiesOf(c)
  BY DEF CopiesOf
<1> QED
  BY <1>1 DEF AllCounted

(* A step that reads a descriptor keeps it as well.                        *)
LEMMA OneRead ==
  ASSUME DescInv, ReadDescriptor
  PROVE  AllCounted'
<1> DEFINE c == image.desc[bg][i]
           new == <<bg, i>>
<1>1. /\ image' = image /\ pc = "descriptors" /\ pc' = pc /\ bg' = bg /\ i' = i + 1 /\ i < Count
      /\ all_bg' = IF c \in DOMAIN all_bg THEN FoundAgain(c) ELSE FoundFirst(c)
  BY DEF ReadDescriptor
<1>2. image \in Images /\ bg \in Groups /\ i \in Groups /\ Groups \subseteq Nat
      /\ all_bg \in [DOMAIN all_bg -> [copies : Nat \ {0}, bg : Groups, bg_src : Groups]]
  <2>1. Groups = 0 .. Count - 1 /\ Count \in Nat
    BY SuperblockTypes DEF DescInv, DescTypeOK
  <2> QED
    BY <2>1, <1>1 DEF DescInv, DescTypeOK
<1>3. Groups' = Groups /\ \A g : Yields(g)' = Yields(g)
  BY <1>1 DEF Groups, sb, Yields
<1>4. Read' = Read \cup {new} /\ new \notin Read
  <2>1. Yields(bg) /\ IsSuper(bg)
    BY <1>1 DEF DescInv, InGroup
  <2>2. \A g, k \in Groups : Before(g, k)' <=> Before(g, k) \/ (g = bg /\ k = i)
    BY <1>1, <1>2 DEF Before
  <2>3. \A p \in Groups \X Groups : p = new <=> p[1] = bg /\ p[2] = i
    OBVIOUS
  <2>4. ~Before(bg, i)
    BY <1>2 DEF Before
  <2> QED
    BY <2>1, <2>2, <2>3, <2>4, <1>2, <1>3 DEF Read
<1>5. \A d : CopiesOf(d)' = IF d = c THEN CopiesOf(d) \cup {new} ELSE CopiesOf(d)
  BY <1>1, <1>4 DEF CopiesOf
<1>6. \A p \in Read : /\ p \in Groups \X Groups
                      /\ p[1] < bg \/ (p[1] = bg /\ p[2] < i)
  BY DEF Read, Before
<1>7. /\ DOMAIN all_bg = {image.desc[p[1]][p[2]] : p \in Read}
      /\ \A d \in DOMAIN all_bg :
           /\ all_bg[d].copies = Cardinality(CopiesOf(d))
           /\ <<all_bg[d].bg_src, all_bg[d].bg>> \in CopiesOf(d)
           /\ \A p \in CopiesOf(d) :
                \/ all_bg[d].bg_src < p[1]
                \/ all_bg[d].bg_src = p[1] /\ all_bg[d].bg <= p[2]
  BY DEF DescInv, AllCounted
<1> DEFINE all == all_bg'
<1>8. DOMAIN all = DOMAIN all_bg \cup {c}
  BY <1>1, <1>2 DEF FoundAgain, FoundFirst
<1>9. DOMAIN all = {image.desc[p[1]][p[2]] : p \in Read'}
  <2>1. image.desc[new[1]][new[2]] = c
    OBVIOUS
  <2>2. {image.desc[p[1]][p[2]] : p \in Read'} = {image.desc[p[1]][p[2]] : p \in Read} \cup {c}
    <3> HIDE DEF new, c
    <3> QED
      BY <1>4, <2>1
  <2>3. DOMAIN all_bg = {image.desc[p[1]][p[2]] : p \in Read}
    BY <1>7
  <2> HIDE DEF all, c
  <2> QED
    BY <1>8, <2>2, <2>3
<1>10. ASSUME NEW d \in DOMAIN all
       PROVE  /\ all[d].copies = Cardinality(CopiesOf(d)')
              /\ <<all[d].bg_src, all[d].bg>> \in CopiesOf(d)'
              /\ \A p \in CopiesOf(d)' :
                   \/ all[d].bg_src < p[1]
                   \/ all[d].bg_src = p[1] /\ all[d].bg <= p[2]
  <2>1. IsFiniteSet(CopiesOf(d)) /\ new \notin CopiesOf(d)
    BY <1>2, <1>4, ReadFinite DEF CopiesOf
  <2>2. CASE d # c
    <3>1. d \in DOMAIN all_bg /\ all[d] = all_bg[d]
      BY <1>1, <1>2, <1>8, <2>2 DEF FoundAgain, FoundFirst
    <3>2. CopiesOf(d)' = CopiesOf(d)
      BY <1>5, <2>2
    <3> QED
      BY <3>1, <3>2, <1>7
  <2>3. CASE d = c /\ c \in DOMAIN all_bg
    <3>1. all[d] = [all_bg[d] EXCEPT !.copies = @ + 1]
      BY <1>1, <1>2, <2>3 DEF FoundAgain
    <3>2. all_bg[d] \in [copies : Nat \ {0}, bg : Groups, bg_src : Groups]
      BY <1>2, <2>3
    <3>3. /\ all[d].copies = all_bg[d].copies + 1
          /\ all[d].bg = all_bg[d].bg /\ all[d].bg_src = all_bg[d].bg_src
      BY <3>1, <3>2
    <3>4. CopiesOf(d)' = CopiesOf(d) \cup {new}
      BY <1>5, <2>3
    <3>5. Cardinality(CopiesOf(d)') = Cardinality(CopiesOf(d)) + 1
      BY <3>4, <2>1, FS_AddElement
    <3>6. <<all_bg[d].bg_src, all_bg[d].bg>> \in Read
      BY <1>7, <2>3 DEF CopiesOf
    <3>7. \/ all_bg[d].bg_src < bg
          \/ all_bg[d].bg_src = bg /\ all_bg[d].bg <= i
      BY <3>6, <1>6, <1>2, <3>2
    <3>8. <<all[d].bg_src, all[d].bg>> \in CopiesOf(d)'
      BY <3>3, <3>4, <1>7, <2>3
    <3>9. ASSUME NEW p \in CopiesOf(d)'
          PROVE  \/ all[d].bg_src < p[1]
                 \/ all[d].bg_src = p[1] /\ all[d].bg <= p[2]
      <4>1. CASE p \in CopiesOf(d)
        BY <4>1, <3>3, <1>7, <2>3
      <4>2. CASE p = new
        BY <4>2, <3>3, <3>7
      <4> QED
        BY <4>1, <4>2, <3>4
    <3> QED
      BY <3>3, <3>5, <3>8, <3>9, <1>7, <2>3
  <2>4. CASE d = c /\ c \notin DOMAIN all_bg
    <3>1. all[d] = [copies |-> 1, bg |-> i, bg_src |-> bg]
      BY <1>1, <2>4 DEF FoundFirst
    <3>2. CopiesOf(d) = {}
      BY <1>7, <2>4 DEF CopiesOf
    <3>3. CopiesOf(d)' = {new}
      BY <3>2, <1>5, <2>4
    <3>4. Cardinality({new}) = 1
      BY FS_Singleton
    <3> QED
      BY <3>1, <3>3, <3>4, <1>2
  <2> QED
    BY <2>2, <2>3, <2>4
<1> QED
  BY <1>1, <1>9, <1>10 DEF AllCounted

LEMMA IInvStep == DescInv /\ [DescNext]_descVars => DescInv'
<1> SUFFICES ASSUME DescInv, [DescNext]_descVars
             PROVE  DescInv'
  OBVIOUS
<1>1. DescTypeOK' /\ DescTypeOK /\ Groups = 0 .. Count - 1 /\ Groups \subseteq Nat /\ Count \in Nat
  BY TypeStep, SuperblockTypes DEF DescInv, DescTypeOK
<1>2. image' = image
  BY DEF DescNext, descVars, SkipGroup, EnterGroup, ReadDescriptor, LeaveGroup, DescReturn, DescEnded
<1>3. Groups' = Groups /\ Count' = Count /\ \A g : Yields(g)' = Yields(g)
  BY <1>2 DEF Groups, Count, sb, Yields
<1>4. InGroup'
  BY <1>3 DEF DescInv, InGroup, DescNext, SkipGroup, EnterGroup, ReadDescriptor, LeaveGroup, DescReturn,
              DescEnded, descVars
<1> SUFFICES AllCounted'
  BY <1>1, <1>4 DEF DescInv
<1>5. ASSUME UNCHANGED all_bg,
             \A g, k \in Groups : Yields(g) /\ IsSuper(g) => (Before(g, k)' <=> Before(g, k))
      PROVE  AllCounted'
  <2>1. Read' = Read
    BY <1>3, <1>5 DEF Read
  <2> QED
    BY <2>1, <1>2, <1>5, NothingRead DEF DescInv
<1>6. CASE SkipGroup
  <2>1. \A g, k \in Groups : Yields(g) => (Before(g, k)' <=> Before(g, k))
    BY <1>1, <1>6 DEF SkipGroup, Before, DescTypeOK
  <2> QED
    BY <2>1, <1>5, <1>6 DEF SkipGroup
<1>7. CASE EnterGroup
  <2>1. \A g, k \in Groups : Before(g, k)' <=> Before(g, k)
    BY <1>1, <1>7 DEF EnterGroup, Before
  <2> QED
    BY <2>1, <1>5, <1>7 DEF EnterGroup
<1>8. CASE ReadDescriptor
  BY <1>8, OneRead
<1>9. CASE LeaveGroup
  <2>1. \A g, k \in Groups : Before(g, k)' <=> Before(g, k)
    BY <1>1, <1>9 DEF LeaveGroup, Before, DescTypeOK
  <2> QED
    BY <2>1, <1>5, <1>9 DEF LeaveGroup
<1>10. CASE DescReturn
  <2>1. \A g, k \in Groups : Before(g, k)' <=> Before(g, k)
    BY <1>10 DEF DescReturn, Before
  <2> QED
    BY <2>1, <1>5, <1>10 DEF DescReturn
<1>11. CASE DescEnded \/ UNCHANGED descVars
  <2>1. \A g, k \in Groups : Before(g, k)' <=> Before(g, k)
    BY <1>11 DEF DescEnded, descVars, Before
  <2> QED
    BY <2>1, <1>5, <1>11 DEF DescEnded, descVars
<1> QED
  BY <1>6, <1>7, <1>8, <1>9, <1>10, <1>11 DEF DescNext

LEMMA IInvInit == DescInit => DescInv
<1> SUFFICES ASSUME DescInit
             PROVE  DescInv
  OBVIOUS
<1>1. DescTypeOK /\ InGroup
  BY TypeInit DEF DescInit, InGroup
<1>2. Read = {}
  <2>1. Groups \subseteq Nat
    BY <1>1, SuperblockTypes DEF DescTypeOK
  <2>2. \A g, k \in Groups : ~Before(g, k)
    BY <2>1 DEF DescInit, Before
  <2> QED
    BY <2>2 DEF Read
<1>3. DOMAIN all_bg = {}
  BY DEF DescInit
<1>4. AllCounted
  BY <1>2, <1>3 DEF AllCounted
<1> QED
  BY <1>1, <1>4 DEF DescInv

(* Superblock.all_block_descriptors counts every content as often as it is *)
(* read, and keeps the first descriptor with it, on every image.           *)
THEOREM CountCorrect == DescSpec => []AllCounted
<1>1. DescSpec => []DescInv
  BY IInvInit, IInvStep, PTL DEF DescSpec
<1>2. DescInv => AllCounted
  BY DEF DescInv
<1> QED
  BY <1>1, <1>2, PTL
-----------------------------------------------------------------------------
(* What the walk's operations on the stack of generators return.           *)
LEMMA StackOps ==
  ASSUME stk \in Seq(Frame), stk # << >>
  PROVE  /\ Len(stk) \in Nat \ {0}
         /\ Top = stk[Len(stk)]
         /\ Top \in Frame
         /\ Below \in Seq(Frame)
         /\ Len(Below) = Len(stk) - 1
         /\ \A k \in 1 .. Len(Below) : Below[k] = stk[k]
<1> HIDE DEF Frame, Started
<1>1. Len(stk) \in Nat \ {0}
  BY EmptySeq
<1>2. \A k \in 1 .. Len(stk) : stk[k] \in Frame
  BY ElementOfSeq
<1>3. Below = [k \in 1 .. Len(stk) - 1 |-> stk[k]]
  <2>1. Len(stk) - 1 \in 0 .. Len(stk)
    BY <1>1
  <2>2. Below = Restrict(stk, 1 .. Len(stk) - 1)
    BY <2>1, SubSeqRestrict, Zenon DEF Below, Front
  <2> QED
    BY <2>2 DEF Restrict
<1>4. Below \in Seq(Frame)
  BY <1>1, <1>2, <1>3, IsASeq
<1>5. Len(Below) = Len(stk) - 1
  <2>1. DOMAIN Below = 1 .. Len(stk) - 1
    BY <1>3
  <2> QED
    BY <1>1, <1>4, <2>1, LenProperties
<1> QED
  BY <1>1, <1>2, <1>3, <1>4, <1>5 DEF Top, Last

(* Going on to the next pointer keeps every generator in its place.        *)
LEMMA AdvanceOps ==
  ASSUME stk \in Seq(Frame), stk # << >>, Top.i < PtrsPerBlk
  PROVE  /\ Advanced \in Seq(Frame)
         /\ Len(Advanced) = Len(stk)
         /\ \A k \in 1 .. Len(stk) : Advanced[k].depth = stk[k].depth
<1>1. Len(stk) \in Nat \ {0} /\ Top \in Frame /\ Top = stk[Len(stk)]
  BY StackOps
<1> DEFINE next == [Top EXCEPT !.i = @ + 1]
<1>2. next \in Frame /\ next.depth = Top.depth
  BY <1>1, SizesAssumption DEF Frame, Started
<1>3. Advanced = [stk EXCEPT ![Len(stk)] = next]
  BY <1>1 DEF Advanced
<1> HIDE DEF next
<1>4. QED
  BY <1>1, <1>2, <1>3, ExceptSeq

(* The words an inode and its image hold.                                  *)
LEMMA FileOps ==
  ASSUME TypeOK
  PROVE  /\ file.end \in Nat
         /\ \A r \in Roots : file.block[r] \in Nat
         /\ \A b \in Blocks, s \in Slots : file.disk[b][s] \in Nat
  BY DEF TypeOK, File

(* A pointer that is read is a number, and what is pushed is a generator.  *)
LEMMA ReadOps ==
  ASSUME TypeOK, stk # << >>, Top.i < PtrsPerBlk, Readable
  PROVE  /\ Word \in Nat
         /\ Top.depth > 0 =>
              Started(Word, Top.depth - 1) \in Frame
<1>1. Top \in Frame
  BY StackOps DEF TypeOK
<1>2. Top.i \in Slots
  BY <1>1, SizesAssumption DEF Frame, Slots
<1>3. Word \in Nat
  BY <1>2, FileOps DEF Word, Readable
<1> QED
  BY <1>1, <1>3, SizesAssumption DEF Frame, Started

(* What counting one data pointer does to the type of the state, to the    *)
(* bound and to the ids yielded.                                           *)
LEMMA TakeDataOps ==
  ASSUME TypeOK, ~AtEnd, YieldsAreData, Len(out) <= idx, idx <= file.end,
         status = "run",
         NEW w \in Nat, TakeData(w), file' = file
  PROVE  /\ idx' \in Nat
         /\ out' \in Seq(Nat)
         /\ status' \in {"run", "done", "invalid", "eof"}
         /\ Len(out') <= idx'
         /\ idx' <= file'.end
         /\ YieldsAreData'
<1>1. idx \in Nat /\ idx' = idx + 1 /\ out \in Seq(Nat) /\ file.end \in Nat
  BY FileOps DEF TypeOK, TakeData
<1>2. idx' <= file'.end
  BY <1>1 DEF AtEnd
<1>3. CASE out' = out /\ status' \in {status, "invalid"}
  BY <1>1, <1>2, <1>3 DEF YieldsAreData, TypeOK
<1>4. CASE /\ out' = Append(out, w) /\ status' = status
           /\ ~Refused(w) /\ Checked(w) # 0
  <2>1. w \in Blocks \ {0}
    BY <1>4, SizesAssumption DEF Checked, InRange, Blocks
  <2>2. /\ out' \in Seq(Nat)
        /\ Len(out') = Len(out) + 1
        /\ \A k \in 1 .. Len(out') : out'[k] = IF k <= Len(out) THEN out[k] ELSE w
    BY <1>1, <1>4, AppendProperties
  <2>3. ASSUME NEW k \in 1 .. Len(out')
        PROVE  out'[k] \in Blocks \ {0}
    <3>1. CASE k <= Len(out)
      <4>1. k \in 1 .. Len(out) /\ out'[k] = out[k]
        BY <1>1, <2>2, <3>1
      <4> QED
        BY <4>1 DEF YieldsAreData
    <3>2. CASE ~(k <= Len(out))
      BY <2>1, <2>2, <3>2
    <3> QED
      BY <3>1, <3>2
  <2>4. YieldsAreData'
    BY <2>3 DEF YieldsAreData, Blocks
  <2> QED
    BY <1>1, <1>2, <1>4, <2>2, <2>4
<1> QED
  BY <1>3, <1>4 DEF TakeData
-----------------------------------------------------------------------------
(* Init => IInv                                                            *)
LEMMA InitIsInductive == Init => IInv
<1> SUFFICES ASSUME Init PROVE IInv
  OBVIOUS
<1>1. out = << >> /\ stk = << >> /\ Len(<< >>) = 0
  BY DEF Init
<1>2. TypeOK
  BY SizesAssumption, FilesAssumption, EmptySeq DEF Init, TypeOK
<1>3. YieldsAreData /\ Bounded
  BY <1>1, <1>2, FileOps DEF Init, YieldsAreData, Bounded
<1> QED
  BY <1>2, <1>3 DEF IInv

(* IInv /\ [Next]_vars => IInv'.  The actions that only end the walk or    *)
(* move its stack leave the ids yielded and their count alone.             *)
LEMMA NextIsInductive == IInv /\ [Next]_vars => IInv'
<1> SUFFICES ASSUME IInv, [Next]_vars PROVE IInv'
  OBVIOUS
<1> USE DEF IInv
<1>t. /\ file \in File /\ root \in 0 .. NDirect + 3 /\ stk \in Seq(Frame)
      /\ idx \in Nat /\ out \in Seq(Nat)
      /\ status \in {"run", "done", "invalid", "eof"}
      /\ NDirect \in Nat
  BY SizesAssumption DEF TypeOK
<1>stop. ASSUME NEW how \in {"done", "invalid", "eof"}, Stop(how), file' = file
         PROVE  IInv'
  BY <1>stop DEF Stop, TypeOK, YieldsAreData, Bounded
<1>quiet. ASSUME UNCHANGED <<file, idx, out, status>>,
                 root' \in 0 .. NDirect + 3,
                 stk' \in Seq(Frame),
                 \A k \in 1 .. Len(stk') : stk'[k].depth + k <= 3
          PROVE  IInv'
  BY <1>quiet DEF TypeOK, YieldsAreData, Bounded
<1>nested. \A k \in 1 .. Len(stk) : stk[k] \in Frame /\ stk[k].depth + k <= 3
  BY <1>t, ElementOfSeq DEF Bounded
<1>pop. ASSUME stk # << >>, stk' = Below
        PROVE  /\ stk' \in Seq(Frame)
               /\ \A k \in 1 .. Len(stk') : stk'[k].depth + k <= 3
  BY <1>t, <1>pop, <1>nested, StackOps
<1>next. ASSUME stk # << >>, Top.i < PtrsPerBlk, stk' = Advanced
         PROVE  /\ stk' \in Seq(Frame)
                /\ \A k \in 1 .. Len(stk') : stk'[k].depth + k <= 3
  BY <1>t, <1>next, <1>nested, AdvanceOps
<1>1. CASE Ended \/ UNCHANGED vars
  BY <1>1, <1>quiet, <1>t, <1>nested DEF Ended, vars
<1>2. CASE Step /\ Direct
  <2>1. CASE AtEnd
    BY <1>2, <2>1, <1>stop DEF Step, Direct
  <2>2. CASE ~AtEnd
    <3>1. /\ TakeData(file.block[root]) /\ root' = root + 1 /\ root < NDirect
          /\ UNCHANGED <<file, stk>> /\ status = "run"
      BY <1>2, <2>2 DEF Step, Direct
    <3>2. file.block[root] \in Nat
      BY <1>t, <3>1, FileOps DEF Roots
    <3> QED
      BY <1>t, <2>2, <3>1, <3>2, TakeDataOps DEF TypeOK, Bounded
  <2> QED
    BY <2>1, <2>2
<1>3. CASE Step /\ EnterTree
  <2> DEFINE new == Started(file.block[root], root - NDirect)
  <2>1. /\ stk' = <<new>> /\ root' = root + 1 /\ root \in NDirect .. NDirect + 2
        /\ UNCHANGED <<file, idx, out, status>>
    BY <1>3 DEF Step, EnterTree
  <2>2. file.block[root] \in Nat
    BY <1>t, <2>1, FileOps DEF Roots
  <2>3. new \in Frame /\ new.depth + 1 <= 3
    BY <1>t, <2>1, <2>2, SizesAssumption DEF Frame, Started
  <2> HIDE DEF new
  <2>4. <<new>> \in Seq(Frame) /\ Len(<<new>>) = 1 /\ <<new>>[1] = new
    BY <2>3
  <2> QED
    BY <1>t, <1>quiet, <2>1, <2>3, <2>4
<1>4. CASE Step /\ (Finish \/ ReadPastImage)
  BY <1>4, <1>stop DEF Step, Finish, ReadPastImage
<1>5. CASE Step /\ Leaf
  <2>1. CASE AtEnd
    BY <1>5, <2>1, <1>stop DEF Step, Leaf
  <2>2. CASE ~AtEnd
    <3>1. /\ TakeData(Word) /\ stk' = Advanced /\ UNCHANGED <<file, root>>
          /\ stk # << >> /\ Top.i < PtrsPerBlk /\ Readable /\ status = "run"
      BY <1>5, <2>2 DEF Step, Leaf
    <3>2. Word \in Nat
      BY <3>1, ReadOps
    <3>3. /\ stk' \in Seq(Frame)
          /\ \A k \in 1 .. Len(stk') : stk'[k].depth + k <= 3
      BY <1>next, <3>1
    <3> QED
      BY <1>t, <2>2, <3>1, <3>2, <3>3, TakeDataOps DEF TypeOK, Bounded
  <2> QED
    BY <2>1, <2>2
<1>6. CASE Step /\ Inner
  <2>1. /\ stk # << >> /\ Top.depth > 0 /\ Top.i < PtrsPerBlk /\ Readable
        /\ file' = file
    BY <1>6 DEF Step, Inner
  <2>2. CASE AtEnd
    BY <1>6, <2>1, <2>2, <1>t, <1>pop, <1>quiet DEF Inner
  <2>3. CASE ~AtEnd /\ Refused(Word)
    BY <1>6, <2>1, <2>3, <1>stop DEF Inner
  <2>4. CASE ~AtEnd /\ ~Refused(Word) /\ Checked(Word) = 0
    BY <1>6, <2>1, <2>4, <1>t, <1>next, <1>quiet DEF Inner
  <2>5. CASE ~AtEnd /\ ~Refused(Word) /\ Checked(Word) # 0
    <3> DEFINE new == Started(Word, Top.depth - 1)
    <3>1. stk' = Append(Advanced, new) /\ UNCHANGED <<root, idx, out, status>>
      BY <1>6, <2>5 DEF Inner
    <3>2. new \in Frame /\ new.depth = Top.depth - 1
      BY <2>1, ReadOps DEF Started
    <3> HIDE DEF new
    <3>3. /\ Advanced \in Seq(Frame) /\ Len(Advanced) = Len(stk)
          /\ \A k \in 1 .. Len(stk) : Advanced[k].depth = stk[k].depth
      BY <1>t, <2>1, AdvanceOps
    <3>4. /\ stk' \in Seq(Frame)
          /\ Len(stk') = Len(stk) + 1
          /\ \A k \in 1 .. Len(stk') :
               stk'[k] = IF k <= Len(stk) THEN Advanced[k] ELSE new
      BY <3>1, <3>2, <3>3, AppendProperties
    <3>5. /\ Len(stk) \in Nat \ {0} /\ Top = stk[Len(stk)]
          /\ stk[Len(stk)].depth + Len(stk) <= 3 /\ Top \in Frame
      BY <1>t, <2>1, <1>nested, StackOps
    <3>6. new.depth + (Len(stk) + 1) <= 3
      BY <3>2, <3>5 DEF Frame, Started
    <3>7. \A k \in 1 .. Len(stk') : stk'[k].depth + k <= 3
      BY <1>nested, <3>3, <3>4, <3>5, <3>6
    <3> QED
      BY <1>t, <1>quiet, <2>1, <3>1, <3>4, <3>7
  <2> QED
    BY <2>2, <2>3, <2>4, <2>5
<1>7. CASE Step /\ Return
  BY <1>7, <1>t, <1>pop, <1>quiet DEF Step, Return
<1> QED
  BY <1>1, <1>2, <1>3, <1>4, <1>5, <1>6, <1>7 DEF Next, Step
-----------------------------------------------------------------------------
(* The walk keeps the types of its state, for every size of block, of      *)
(* image and of inode: no frame points outside its block or is deeper than *)
(* the triple indirection.                                                 *)
THEOREM TypeCorrect == Spec => []TypeOK
<1>1. IInv => TypeOK
  BY DEF IInv
<1> QED
  BY <1>1, InitIsInductive, NextIsInductive, PTL DEF Spec

(* On every image, each_block yields ids of data blocks of the file system *)
(* only: never block 0, never one past the end, with err_ok or without.    *)
THEOREM YieldsCorrect == Spec => []YieldsAreData
<1>1. IInv => YieldsAreData
  BY DEF IInv
<1> QED
  BY <1>1, InitIsInductive, NextIsInductive, PTL DEF Spec

(* On every image, cyclic maps included, each_block yields block_count ids *)
(* at most and nests three generators at most.                             *)
THEOREM BoundedCorrect == Spec => []Bounded
<1>1. IInv => Bounded
  BY DEF IInv
<1> QED
  BY <1>1, InitIsInductive, NextIsInductive, PTL DEF Spec
-----------------------------------------------------------------------------
(* How many blocks of the file a pointer of each depth stands for.         *)
LEMMA Units ==
  /\ NDirect \in Nat /\ PtrsPerBlk \in Nat \ {0}
  /\ FirstDouble \in Nat /\ FirstTriple \in Nat /\ FileEnd \in Nat
  /\ \A d \in 0 .. 2 : Unit(d) \in Nat \ {0} /\ Size(d) \in Nat \ {0} /\ Size(d) = PtrsPerBlk * Unit(d)
  /\ \A d \in 1 .. 2 : Unit(d) = Size(d - 1)
<1>1. NDirect \in Nat /\ PtrsPerBlk \in Nat \ {0}
  BY SizesAssumption
<1>2. PtrsPerBlk * PtrsPerBlk \in Nat \ {0} /\ PtrsPerBlk * PtrsPerBlk * PtrsPerBlk \in Nat \ {0}
  BY <1>1
<1>3. \A d \in 0 .. 2 : Unit(d) \in Nat \ {0}
  BY <1>1, <1>2 DEF Unit
<1>4. \A d \in 0 .. 2 : PtrsPerBlk * Unit(d) \in Nat \ {0}
  BY <1>1, <1>3
<1>5. \A d \in 1 .. 2 : Unit(d) = Size(d - 1)
  BY <1>1 DEF Unit, Size
<1> QED BY <1>1, <1>2, <1>3, <1>4, <1>5 DEF Size, FirstDouble, FirstTriple, FileEnd

(* The trees follow one another in the file.                               *)
LEMMA Bases ==
  /\ NDirect <= FirstDouble /\ FirstDouble <= FirstTriple /\ FirstTriple <= FileEnd
  /\ \A r \in 0 .. NDirect + 3 : Base(r) \in 0 .. FileEnd
  /\ \A r \in 0 .. NDirect : Base(r) = r
  /\ \A d \in 0 .. 2 : Base(NDirect + d + 1) = Base(NDirect + d) + Size(d)
  /\ Base(NDirect + 3) = FileEnd
<1>1. /\ NDirect \in Nat /\ FirstDouble \in Nat /\ FirstTriple \in Nat /\ FileEnd \in Nat
      /\ \A d \in 0 .. 2 : Size(d) \in Nat
  BY Units
<1>2. FirstDouble = NDirect + Size(0) /\ FirstTriple = FirstDouble + Size(1)
      /\ FileEnd = FirstTriple + Size(2)
  BY Units DEF FirstDouble, FirstTriple, FileEnd, Size, Unit
<1>3. NDirect <= FirstDouble /\ FirstDouble <= FirstTriple /\ FirstTriple <= FileEnd
  BY <1>1, <1>2
<1> HIDE DEF FirstDouble, FirstTriple, FileEnd, Size
<1> QED BY <1>1, <1>2, <1>3 DEF Base

(* A pointer of a deeper generator leads to the part of the file that it   *)
(* stands for.                                                             *)
LEMMA BelowPointer ==
  ASSUME NEW d \in 1 .. 2, NEW b, NEW s \in Slots, NEW m \in 0 .. Unit(d) - 1
  PROVE  AtDepth(d, b, s * Unit(d) + m) = AtDepth(d - 1, Follow(b, s), m)
<1>1. s \in Nat /\ Unit(d) \in Nat \ {0}
  BY Units DEF Slots
<1>2. (s * Unit(d) + m) \div Unit(d) = s /\ (s * Unit(d) + m) % Unit(d) = m
  BY <1>1, DivModOf
<1>3. CASE d = 1
  BY <1>2, <1>3 DEF AtDepth, Double, Unit
<1>4. CASE d = 2
  BY <1>2, <1>4 DEF AtDepth, Triple, Unit
<1> QED BY <1>3, <1>4

(* What is behind a pointer that is null or off the image.                 *)
LEMMA NothingBelow ==
  ASSUME NEW b, b \notin Blocks \ {0}, NEW d \in 0 .. 2, NEW n
  PROVE  AtDepth(d, b, n) = 0
<1>1. \A c, s : c \notin Blocks \ {0} => Follow(c, s) = 0
  BY DEF Follow
<1>2. 0 \notin Blocks \ {0}
  OBVIOUS
<1>3. \A c, s : c \notin Blocks \ {0} => Single(c, s) = 0
  BY <1>1 DEF Single
<1>4. \A c, s : c \notin Blocks \ {0} => Double(c, s) = 0
  BY <1>1, <1>2, <1>3 DEF Double
<1>5. \A c, s : c \notin Blocks \ {0} => Triple(c, s) = 0
  BY <1>1, <1>2, <1>4 DEF Triple
<1> QED BY <1>3, <1>4, <1>5 DEF AtDepth

(* Which part of the file the slots of inode.block are.                    *)
LEMMA OfDirect ==
  ASSUME NEW r \in 0 .. NDirect - 1
  PROVE  Logical(r) = Checked(file.block[r]) /\ r < FileEnd
<1>1. NDirect <= FirstDouble /\ FirstDouble <= FirstTriple /\ FirstTriple <= FileEnd
  BY Bases
<1>2. NDirect \in Nat /\ FirstDouble \in Nat /\ FirstTriple \in Nat /\ FileEnd \in Nat
  BY Units
<1> HIDE DEF FirstDouble, FirstTriple, FileEnd
<1>3. r < NDirect /\ r \notin NDirect .. FirstDouble - 1 /\ r \notin FirstDouble .. FirstTriple - 1
      /\ r \notin FirstTriple .. FileEnd - 1
  BY <1>1, <1>2
<1> QED BY <1>1, <1>2, <1>3 DEF Logical

LEMMA OfTree ==
  ASSUME NEW d \in 0 .. 2, NEW n \in 0 .. Size(d) - 1
  PROVE  Logical(Base(NDirect + d) + n) = AtDepth(d, file.block[NDirect + d], n)
<1>1. /\ NDirect \in Nat /\ FirstDouble \in Nat /\ FirstTriple \in Nat /\ FileEnd \in Nat
      /\ \A e \in 0 .. 2 : Size(e) \in Nat \ {0}
  BY Units
<1>2. FirstDouble = NDirect + Size(0) /\ FirstTriple = FirstDouble + Size(1)
      /\ FileEnd = FirstTriple + Size(2)
  BY Units DEF FirstDouble, FirstTriple, FileEnd, Size, Unit
<1> HIDE DEF FirstDouble, FirstTriple, FileEnd, Size
<1>3. CASE d = 0
  <2>1. Base(NDirect + d) = NDirect /\ NDirect + n \in NDirect .. FirstDouble - 1 /\ ~(NDirect + n < NDirect)
    BY <1>1, <1>2, <1>3 DEF Base
  <2>2. /\ NDirect + n \notin FirstDouble .. FirstTriple - 1
        /\ NDirect + n \notin FirstTriple .. FileEnd - 1
    BY <1>1, <1>2, <2>1
  <2>3. Logical(NDirect + n) = Single(file.block[NDirect], NDirect + n - NDirect)
    BY <1>1, <2>1, <2>2 DEF Logical
  <2>4. NDirect + n - NDirect = n
    BY <1>1
  <2> QED BY <1>1, <1>3, <2>1, <2>3, <2>4 DEF AtDepth
<1>4. CASE d = 1
  <2>1. Base(NDirect + d) = FirstDouble /\ FirstDouble + n \in FirstDouble .. FirstTriple - 1
        /\ ~(FirstDouble + n < NDirect) /\ FirstDouble + n \notin NDirect .. FirstDouble - 1
    BY <1>1, <1>2, <1>4 DEF Base
  <2>2. Logical(FirstDouble + n) = Double(file.block[NDirect + 1], n)
    BY <1>1, <2>1 DEF Logical
  <2> QED BY <1>1, <1>4, <2>1, <2>2 DEF AtDepth
<1>5. CASE d = 2
  <2>1. Base(NDirect + d) = FirstTriple /\ FirstTriple + n \in FirstTriple .. FileEnd - 1
        /\ ~(FirstTriple + n < NDirect) /\ FirstTriple + n \notin NDirect .. FirstDouble - 1
        /\ FirstTriple + n \notin FirstDouble .. FirstTriple - 1
    BY <1>1, <1>2, <1>5 DEF Base
  <2>2. Logical(FirstTriple + n) = Triple(file.block[NDirect + 2], n)
    BY <1>1, <2>1 DEF Logical
  <2> QED BY <1>1, <1>5, <2>1, <2>2 DEF AtDepth
<1> QED BY <1>3, <1>4, <1>5

(* How many blocks precede a place in the file.                            *)
LEMMA Ranks ==
  ASSUME NEW n \in Nat
  PROVE  /\ IsFiniteSet(Data) /\ Rank(n) \in Nat /\ Rank(n) <= Cardinality(Data)
         /\ n \in Data => Rank(n + 1) = Rank(n) + 1
         /\ \A m \in Data : m < n => Rank(m) \in Nat /\ Rank(m) < Rank(n)
<1> DEFINE B(k) == {m \in Data : m < k}
<1>1. IsFiniteSet(Data)
  <2>1. IsFiniteSet(0 .. FileEnd - 1)
    BY FS_Interval, Units
  <2>2. Data \subseteq 0 .. FileEnd - 1
    BY DEF Data
  <2> QED BY <2>1, <2>2, FS_Subset
<1>2. \A k : IsFiniteSet(B(k)) /\ Rank(k) = Cardinality(B(k)) /\ Rank(k) \in Nat
  <2>1. \A k : B(k) \subseteq Data
    OBVIOUS
  <2>2. \A k : Rank(k) = Cardinality(B(k))
    BY DEF Rank
  <2> HIDE DEF B
  <2> QED BY <1>1, <2>1, <2>2, FS_Subset, FS_CardinalityType
<1>3. Rank(n) <= Cardinality(Data)
  <2>1. B(n) \subseteq Data
    OBVIOUS
  <2> HIDE DEF B
  <2> QED BY <1>1, <1>2, <2>1, FS_Subset
<1>4. ASSUME n \in Data PROVE Rank(n + 1) = Rank(n) + 1
  <2>1. B(n + 1) = B(n) \cup {n} /\ n \notin B(n)
    <3>1. \A m \in Data : m \in Nat /\ (m < n + 1 <=> m < n \/ m = n)
      BY Units DEF Data
    <3>2. B(n + 1) = {m \in Data : m < n \/ m = n}
      BY <3>1
    <3>3. {m \in Data : m < n \/ m = n} = B(n) \cup {n}
      BY <1>4
    <3> QED BY <3>2, <3>3
  <2> HIDE DEF B
  <2> QED BY <1>2, <2>1, FS_AddElement
<1>5. ASSUME NEW m \in Data, m < n PROVE Rank(m) < Rank(n)
  <2>1. B(m) \subseteq B(n) /\ m \in B(n) /\ m \notin B(m)
    BY <1>5, Units DEF Data
  <2> HIDE DEF B
  <2>2. B(m) # B(n)
    BY <2>1
  <2> QED BY <1>2, <2>1, <2>2, FS_Subset
<1> HIDE DEF B
<1> QED BY <1>1, <1>2, <1>3, <1>4, <1>5

LEMMA NoneBetween ==
  ASSUME NEW n \in Nat, NEW c \in Nat, \A m \in Data : ~(n <= m /\ m < n + c)
  PROVE  Rank(n + c) = Rank(n)
<1>1. {m \in Data : m < n + c} = {m \in Data : m < n}
  BY Units DEF Data
<1> QED BY <1>1 DEF Rank

(* The file is not written.                                                *)
LEMMA SameFile ==
  ASSUME file' = file
  PROVE  /\ Data' = Data /\ Sound' = Sound /\ Dense' = Dense
         /\ \A n : Logical(n)' = Logical(n) /\ Rank(n)' = Rank(n)
         /\ \A d, b, n : AtDepth(d, b, n)' = AtDepth(d, b, n)
<1>1. \A n : Logical(n)' = Logical(n)
  BY DEF Logical, Single, Double, Triple, Follow, Checked, InRange
<1>2. Data' = Data
  BY <1>1 DEF Data
<1>3. \A n : Rank(n)' = Rank(n)
  BY <1>2 DEF Rank
<1>4. Indirect' = Indirect
  BY DEF Indirect, Follow, Checked, InRange
<1>5. Sound' = Sound /\ Dense' = Dense
  BY <1>2, <1>4 DEF Sound, Dense
<1>6. \A d, b, n : AtDepth(d, b, n)' = AtDepth(d, b, n)
  BY DEF AtDepth, Single, Double, Triple, Follow, Checked, InRange
<1> QED BY <1>1, <1>2, <1>3, <1>5, <1>6

(* A data pointer yields the block of its place in the file, if any.       *)
LEMMA TakesPlace ==
  ASSUME file' = file, out \in Seq(Nat), NEW p \in Nat, p < FileEnd, Precedes(p),
         NEW w \in Nat, Logical(p) = Checked(w), TakeData(w)
  PROVE  /\ Precedes(p + 1)'
         /\ \A m \in Data : HasBlock(m) => HasBlock(m)'
<1>1. Data' = Data /\ \A n : Logical(n)' = Logical(n) /\ Rank(n)' = Rank(n)
  BY SameFile
<1>2. p \in Data <=> Checked(w) # 0
  BY Units DEF Data
<1>3. Len(out) = Rank(p) /\ \A m \in Data : m < p => HasBlock(m)
  BY DEF Precedes
<1>4. \A m \in Data : m \in Nat /\ Rank(m) \in Nat /\ (m < p + 1 <=> m < p \/ m = p)
  <2>1. \A m \in Data : m \in Nat
    BY Units DEF Data
  <2>2. \A m \in Nat : Rank(m) \in Nat
    BY Ranks
  <2>3. \A m \in Nat : m < p + 1 <=> m < p \/ m = p
    OBVIOUS
  <2> HIDE DEF Data
  <2> QED BY <2>1, <2>2, <2>3
<1>5. CASE Checked(w) = 0
  <2>1. out' = out
    BY <1>5 DEF TakeData
  <2>2. Rank(p + 1) = Rank(p)
    <3>1. \A m \in Data : ~(p <= m /\ m < p + 1)
      BY <1>2, <1>4, <1>5
    <3>2. 1 \in Nat
      OBVIOUS
    <3> QED BY <3>1, <3>2, NoneBetween
  <2>3. \A m \in Data : m < p + 1 => HasBlock(m)
    BY <1>2, <1>3, <1>4, <1>5
  <2> QED BY <1>1, <1>3, <2>1, <2>2, <2>3 DEF Precedes, HasBlock
<1>6. CASE Checked(w) # 0
  <2>1. out' = Append(out, w) /\ Logical(p) = w
    BY <1>6 DEF TakeData, Refused, Checked
  <2>2. Len(out') = Len(out) + 1 /\ out'[Len(out) + 1] = w /\ Len(out) \in Nat
        /\ \A k \in 1 .. Len(out) : out'[k] = out[k]
    BY <2>1
  <2>3. Rank(p + 1) = Rank(p) + 1
    BY <1>2, <1>6, Ranks
  <2>4. ASSUME NEW m \in Data, HasBlock(m)
        PROVE  Rank(m) < Len(out') /\ out'[Rank(m) + 1] = Logical(m)
    <3>1. Rank(m) + 1 \in 1 .. Len(out) /\ out[Rank(m) + 1] = Logical(m)
      BY <1>4, <2>2, <2>4 DEF HasBlock
    <3> QED BY <1>4, <2>2, <3>1
  <2>5. Rank(p) < Len(out') /\ out'[Rank(p) + 1] = Logical(p)
    BY <1>3, <2>1, <2>2
  <2>6. \A m \in Data : m < p + 1 => Rank(m) < Len(out') /\ out'[Rank(m) + 1] = Logical(m)
    BY <1>3, <1>4, <2>4, <2>5
  <2> QED BY <1>1, <1>3, <2>2, <2>3, <2>4, <2>6 DEF Precedes, HasBlock
<1> QED BY <1>5, <1>6

(* Places without a block are passed, and a place that stays.              *)
LEMMA PassesPlaces ==
  ASSUME file' = file, out' = out, NEW p \in Nat, Precedes(p), NEW c \in Nat,
         \A n \in 0 .. c - 1 : Logical(p + n) = 0
  PROVE  Precedes(p + c)'
<1>1. Data' = Data /\ \A n : Logical(n)' = Logical(n) /\ Rank(n)' = Rank(n)
  BY SameFile
<1>2. ASSUME NEW m \in Data PROVE m \in Nat /\ ~(p <= m /\ m < p + c)
  <2>1. m \in Nat /\ Logical(m) # 0
    BY Units DEF Data
  <2>2. p <= m /\ m < p + c => m - p \in 0 .. c - 1 /\ p + (m - p) = m
    BY <2>1
  <2> QED BY <2>1, <2>2
<1>3. Rank(p + c) = Rank(p)
  BY <1>2, NoneBetween
<1>4. \A m \in Data : m < p + c => m < p
  BY <1>2
<1> QED BY <1>1, <1>3, <1>4 DEF Precedes, HasBlock

(* What was found to be in order still is when nothing is yielded.         *)
LEMMA OrderStays ==
  ASSUME file' = file, out' = out, NEW n, Precedes(n)
  PROVE  Precedes(n)'
<1>1. Data' = Data /\ \A k : Logical(k)' = Logical(k) /\ Rank(k)' = Rank(k)
  BY SameFile
<1> QED BY <1>1 DEF Precedes, HasBlock
-----------------------------------------------------------------------------
(* The generators that are suspended.                                      *)
LEMMA NestedTypes ==
  ASSUME TypeOK, Nested
  PROVE  /\ Len(stk) \in 0 .. 3 /\ root \in 0 .. NDirect + 3 /\ NDirect \in Nat
         /\ stk # << >> => /\ Len(stk) \in 1 .. 3 /\ Top = stk[Len(stk)] /\ Top \in Frame
                           /\ root \in NDirect + 1 .. NDirect + 3
         /\ \A k \in 1 .. Len(stk) :
              /\ stk[k] \in Frame /\ stk[k].depth \in 0 .. 2 /\ stk[k].i \in Nat /\ stk[k].blk \in Nat
              /\ stk[k].i <= PtrsPerBlk /\ stk[k].depth = root - NDirect - k
              /\ Unit(stk[k].depth) \in Nat \ {0} /\ Size(stk[k].depth) \in Nat \ {0}
<1>1. stk \in Seq(Frame) /\ Len(stk) \in Nat /\ root \in 0 .. NDirect + 3 /\ NDirect \in Nat
  BY SizesAssumption DEF TypeOK
<1>2. ASSUME NEW k \in 1 .. Len(stk)
      PROVE  /\ stk[k] \in Frame /\ stk[k].depth \in 0 .. 2 /\ stk[k].i \in Nat /\ stk[k].blk \in Nat
             /\ stk[k].i <= PtrsPerBlk /\ stk[k].depth = root - NDirect - k
  <2>1. stk[k] \in Frame
    BY <1>1, ElementOfSeq
  <2>2. stk[k].depth + k = root - NDirect
    BY DEF Nested
  <2>3. stk[k].depth \in 0 .. 2 /\ stk[k].i \in 0 .. PtrsPerBlk /\ stk[k].blk \in Nat
    BY <2>1 DEF Frame
  <2> QED BY <1>1, <2>1, <2>2, <2>3, SizesAssumption
<1>3. \A k \in 1 .. Len(stk) : Unit(stk[k].depth) \in Nat \ {0} /\ Size(stk[k].depth) \in Nat \ {0}
  BY <1>2, Units
<1>4. stk # << >> => Len(stk) # 0 /\ Top = stk[Len(stk)] /\ Top \in Frame /\ root > NDirect
  BY <1>1, StackOps DEF Nested
<1>5. Len(stk) <= 3
  <2> SUFFICES ASSUME Len(stk) # 0 PROVE Len(stk) <= 3
    BY <1>1
  <2>1. stk[Len(stk)].depth = root - NDirect - Len(stk) /\ stk[Len(stk)].depth \in 0 .. 2
    BY <1>1, <1>2
  <2> QED BY <1>1, <2>1
<1>6. Len(stk) \in 0 .. 3 /\ (Len(stk) # 0 => Len(stk) \in 1 .. 3)
  <2>1. \A n \in Nat : n <= 3 => n \in 0 .. 3 /\ (n # 0 => n \in 1 .. 3)
    OBVIOUS
  <2>2. Len(stk) \in Nat
    BY <1>1
  <2> QED BY <1>5, <2>1, <2>2
<1>7. root > NDirect => root \in NDirect + 1 .. NDirect + 3
  BY <1>1
<1> QED BY <1>1, <1>2, <1>3, <1>4, <1>6, <1>7

LEMMA AdvancedIs ==
  ASSUME stk \in Seq(Frame), stk # << >>, Top.i < PtrsPerBlk
  PROVE  /\ Advanced \in Seq(Frame) /\ Len(Advanced) = Len(stk)
         /\ \A k \in 1 .. Len(stk) - 1 : Advanced[k] = stk[k]
         /\ \A k \in 1 .. Len(stk) : Advanced[k].blk = stk[k].blk /\ Advanced[k].depth = stk[k].depth
         /\ Advanced[Len(stk)].i = Top.i + 1
<1>1. Len(stk) \in Nat \ {0} /\ Top \in Frame /\ Top = stk[Len(stk)]
  BY StackOps
<1> DEFINE next == [Top EXCEPT !.i = @ + 1]
<1>2. next.depth = Top.depth /\ next.blk = Top.blk /\ next.i = Top.i + 1
  BY <1>1 DEF Frame
<1>3. Advanced = [stk EXCEPT ![Len(stk)] = next]
  BY <1>1 DEF Advanced
<1> HIDE DEF next
<1>4. Advanced[Len(stk)] = next /\ \A k \in 1 .. Len(stk) - 1 : Advanced[k] = stk[k]
  BY <1>1, <1>3
<1>5. Advanced \in Seq(Frame) /\ Len(Advanced) = Len(stk)
  BY AdvanceOps
<1>6. \A k \in 1 .. Len(stk) : k \in 1 .. Len(stk) - 1 \/ k = Len(stk)
  BY <1>1
<1>7. \A k \in 1 .. Len(stk) : Advanced[k].blk = stk[k].blk /\ Advanced[k].depth = stk[k].depth
  BY <1>1, <1>2, <1>4, <1>6
<1> QED BY <1>2, <1>4, <1>5, <1>7

(* Where generators were started.                                          *)
LEMMA Starts ==
  ASSUME TypeOK, Nested
  PROVE  /\ \A k \in 1 .. Len(stk) : Start(k) \in Nat
         /\ \A k \in 1 .. Len(stk) - 1 : Start(k + 1) = Start(k) + Passed(k)
         /\ stk # << >> => Start(1) = Base(root - 1)
<1>1. Len(stk) \in 0 .. 3
  BY NestedTypes
<1>2. ASSUME NEW k \in 1 .. Len(stk) - 1 PROVE Passed(k) \in Nat
  <2>1. stk[k].i \in Nat /\ Unit(stk[k].depth) \in Nat /\ stk[k].i > 0
    <3>1. k \in 1 .. Len(stk)
      BY <1>1
    <3>2. stk[k].i > 0
      BY DEF Nested
    <3> QED BY <3>1, <3>2, NestedTypes
  <2>2. stk[k].i - 1 \in Nat
    BY <2>1
  <2> QED BY <2>1, <2>2 DEF Passed
<1>3. Len(stk) # 0 => Base(root - 1) \in Nat
  <2> SUFFICES ASSUME Len(stk) # 0 PROVE Base(root - 1) \in Nat
    OBVIOUS
  <2>1. root - 1 \in 0 .. NDirect + 3
    <3>1. stk # << >>
      BY EmptySeq
    <3>2. root \in NDirect + 1 .. NDirect + 3 /\ NDirect \in Nat
      BY <3>1, NestedTypes
    <3> QED BY <3>2
  <2>2. Base(root - 1) \in 0 .. FileEnd
    BY <2>1, Bases
  <2> QED BY <2>2, Units
<1>4. CASE Len(stk) = 0
  BY <1>4, NestedTypes
<1>5. CASE Len(stk) = 1
  BY <1>3, <1>5 DEF Start
<1>6. CASE Len(stk) = 2
  <2>1. Passed(1) \in Nat
    BY <1>2, <1>6
  <2>2. Start(1) = Base(root - 1) /\ Start(2) = Base(root - 1) + Passed(1)
    BY <1>3, <1>6, <2>1 DEF Start
  <2> HIDE DEF Start, Passed
  <2> QED BY <1>3, <1>6, <2>1, <2>2
<1>7. CASE Len(stk) = 3
  <2>1. Passed(1) \in Nat /\ Passed(2) \in Nat
    BY <1>2, <1>7
  <2>2. Start(1) = Base(root - 1) /\ Start(2) = Base(root - 1) + Passed(1)
        /\ Start(3) = Base(root - 1) + Passed(1) + Passed(2)
    BY <1>3, <1>7, <2>1 DEF Start
  <2> HIDE DEF Start, Passed
  <2> QED BY <1>3, <1>7, <2>1, <2>2
<1> QED BY <1>1, <1>4, <1>5, <1>6, <1>7

(* A generator that stays was started where it was.                        *)
LEMMA StartStays ==
  ASSUME root' = root, NEW k \in 1 .. 3, \A j \in 1 .. k - 1 : stk'[j] = stk[j]
  PROVE  Start(k)' = Start(k)
<1>1. k > 1 => stk'[1] = stk[1]
  OBVIOUS
<1>2. k > 2 => stk'[2] = stk[2]
  OBVIOUS
<1> QED BY <1>1, <1>2 DEF Start, Passed, Base, Unit

LEMMA CoversStays ==
  ASSUME file' = file, root' = root, NEW k \in 1 .. 3, \A j \in 1 .. k - 1 : stk'[j] = stk[j],
         stk'[k].blk = stk[k].blk, stk'[k].depth = stk[k].depth, Covers(k)
  PROVE  Covers(k)'
<1>1. Start(k)' = Start(k)
  BY StartStays
<1>2. \A n : Logical(n)' = Logical(n)
  BY SameFile
<1>3. \A d, b, n : AtDepth(d, b, n)' = AtDepth(d, b, n)
  BY SameFile
<1> QED BY <1>1, <1>2, <1>3 DEF Covers

(* The stack after a generator was started by another one.                 *)
LEMMA PushedIs ==
  ASSUME TypeOK, stk # << >>, Top.depth > 0, Top.i < PtrsPerBlk, Readable,
         stk' = Append(Advanced, Started(Word, Top.depth - 1))
  PROVE  /\ stk' \in Seq(Frame) /\ Len(stk') = Len(stk) + 1
         /\ \A k \in 1 .. Len(stk) - 1 : stk'[k] = stk[k]
         /\ \A k \in 1 .. Len(stk) : stk'[k].blk = stk[k].blk /\ stk'[k].depth = stk[k].depth
         /\ stk'[Len(stk)].i = Top.i + 1
         /\ stk'[Len(stk')].blk = Word /\ stk'[Len(stk')].depth = Top.depth - 1
         /\ stk'[Len(stk')].i = 0
<1> DEFINE new == Started(Word, Top.depth - 1)
<1>1. new \in Frame /\ new.blk = Word /\ new.depth = Top.depth - 1 /\ new.i = 0
  BY ReadOps DEF Started
<1>2. stk \in Seq(Frame) /\ Len(stk) \in Nat \ {0}
  BY StackOps DEF TypeOK
<1>3. /\ Advanced \in Seq(Frame) /\ Len(Advanced) = Len(stk)
      /\ \A k \in 1 .. Len(stk) - 1 : Advanced[k] = stk[k]
      /\ \A k \in 1 .. Len(stk) : Advanced[k].blk = stk[k].blk /\ Advanced[k].depth = stk[k].depth
      /\ Advanced[Len(stk)].i = Top.i + 1
  BY <1>2, AdvancedIs
<1> HIDE DEF new
<1>4. stk' = Append(Advanced, new)
  BY DEF new
<1>5. /\ stk' \in Seq(Frame) /\ Len(stk') = Len(stk) + 1
      /\ \A k \in 1 .. Len(stk) : stk'[k] = Advanced[k]
      /\ stk'[Len(stk) + 1] = new
  BY <1>1, <1>2, <1>3, <1>4, AppendProperties
<1>6. \A k \in 1 .. Len(stk) - 1 : k \in 1 .. Len(stk)
  BY <1>2
<1>7. Len(stk) \in 1 .. Len(stk)
  BY <1>2
<1> QED BY <1>1, <1>3, <1>5, <1>6, <1>7

LEMMA NestedInit == Init => Nested
BY SizesAssumption DEF Init, Nested

LEMMA NestedStep == TypeOK /\ Nested /\ [Next]_vars => Nested'
<1> SUFFICES ASSUME TypeOK, Nested, [Next]_vars PROVE Nested'
  OBVIOUS
<1>t. /\ stk \in Seq(Frame) /\ Len(stk) \in Nat /\ root \in 0 .. NDirect + 3 /\ NDirect \in Nat
      /\ (stk # << >> => Len(stk) # 0)
  BY SizesAssumption, EmptySeq DEF TypeOK
<1>0. /\ stk # << >> => root > NDirect
      /\ \A k \in 1 .. Len(stk) : stk[k].depth + k = root - NDirect
      /\ \A k \in 1 .. Len(stk) - 1 : stk[k].i > 0
  BY DEF Nested
<1>1. CASE UNCHANGED <<root, stk>>
  BY <1>1 DEF Nested
<1>2. CASE stk # << >> /\ stk' = Below /\ root' = root
  <2>1. Len(Below) = Len(stk) - 1 /\ \A k \in 1 .. Len(Below) : Below[k] = stk[k]
    BY <1>2, <1>t, StackOps
  <2> QED BY <1>0, <1>2, <1>t, <2>1 DEF Nested
<1>3. CASE stk # << >> /\ Top.i < PtrsPerBlk /\ stk' = Advanced /\ root' = root
  <2>1. /\ Len(stk') = Len(stk)
        /\ \A k \in 1 .. Len(stk) - 1 : stk'[k] = stk[k]
        /\ \A k \in 1 .. Len(stk) : stk'[k].depth = stk[k].depth
    BY <1>3, <1>t, AdvancedIs
  <2> QED BY <1>0, <1>3, <1>t, <2>1 DEF Nested
<1>4. CASE /\ stk # << >> /\ Top.depth > 0 /\ Top.i < PtrsPerBlk /\ Readable /\ root' = root
           /\ stk' = Append(Advanced, Started(Word, Top.depth - 1))
  <2>1. /\ Len(stk') = Len(stk) + 1
        /\ \A k \in 1 .. Len(stk) - 1 : stk'[k] = stk[k]
        /\ \A k \in 1 .. Len(stk) : stk'[k].depth = stk[k].depth
        /\ stk'[Len(stk)].i = Top.i + 1 /\ stk'[Len(stk')].depth = Top.depth - 1
    BY <1>4, PushedIs
  <2>2. Top = stk[Len(stk)] /\ Top.i \in Nat /\ Top.depth \in Nat /\ Len(stk) \in 1 .. Len(stk)
    BY <1>4, <1>t, StackOps DEF Frame
  <2>3. Top.depth + Len(stk) = root - NDirect
    BY <1>0, <2>2
  <2>4. ASSUME NEW k \in 1 .. Len(stk') PROVE stk'[k].depth + k = root' - NDirect
    <3>1. CASE k \in 1 .. Len(stk)
      BY <1>0, <1>4, <2>1, <3>1
    <3>2. CASE k = Len(stk) + 1
      <4>1. stk'[k].depth = Top.depth - 1
        BY <2>1, <3>2
      <4> QED BY <1>4, <1>t, <2>2, <2>3, <3>2, <4>1
    <3> QED BY <1>t, <2>1, <3>1, <3>2
  <2>5. ASSUME NEW k \in 1 .. Len(stk') - 1 PROVE stk'[k].i > 0
    <3>1. CASE k \in 1 .. Len(stk) - 1
      BY <1>0, <2>1, <3>1
    <3>2. CASE k = Len(stk)
      BY <2>1, <2>2, <3>2
    <3> QED BY <1>t, <2>1, <3>1, <3>2
  <2> QED BY <1>0, <1>4, <2>4, <2>5 DEF Nested
<1>5. CASE /\ root \in NDirect .. NDirect + 2 /\ root' = root + 1
           /\ stk' = <<Started(file.block[root], root - NDirect)>>
  <2>1. Len(stk') = 1 /\ stk'[1].depth = root - NDirect
    BY <1>5 DEF Started
  <2> QED BY <1>5, <1>t, <2>1 DEF Nested
<1>6. CASE stk = << >> /\ stk' = stk /\ root' = root + 1
  <2>1. Len(stk) = 0
    BY <1>6
  <2> QED BY <1>6, <2>1 DEF Nested
<1>7. CASE Step
  <2>1. CASE Direct
    BY <1>1, <1>6, <2>1 DEF Direct, Stop
  <2>2. CASE EnterTree
    BY <1>5, <2>2 DEF EnterTree
  <2>3. CASE Finish \/ ReadPastImage
    BY <1>1, <2>3 DEF Finish, ReadPastImage, Stop
  <2>4. CASE Leaf
    BY <1>1, <1>3, <2>4 DEF Leaf, Stop
  <2>5. CASE Inner
    BY <1>1, <1>2, <1>3, <1>4, <2>5 DEF Inner, Stop
  <2>6. CASE Return
    BY <1>2, <2>6 DEF Return
  <2> QED BY <1>7, <2>1, <2>2, <2>3, <2>4, <2>5, <2>6 DEF Step
<1> QED BY <1>1, <1>7 DEF Next, Ended, vars
-----------------------------------------------------------------------------
(* Where in the file the walk is, and goes.                                *)
LEMMA PositionNow ==
  ASSUME TypeOK, Nested, stk # << >>
  PROVE  /\ Position = Start(Len(stk)) + Top.i * Unit(Top.depth)
         /\ Position \in Nat /\ Start(Len(stk)) \in Nat
         /\ Top.i * Unit(Top.depth) \in Nat
<1>1. Len(stk) \in 1 .. Len(stk) /\ Top = stk[Len(stk)]
  BY NestedTypes
<1>2. Start(Len(stk)) \in Nat
  BY <1>1, Starts
<1>3. Top.i \in Nat /\ Unit(Top.depth) \in Nat
  BY <1>1, NestedTypes
<1>4. Top.i * Unit(Top.depth) \in Nat
  BY <1>3
<1> QED BY <1>2, <1>4 DEF Position

LEMMA PositionThen ==
  ASSUME NEW L \in 1 .. 3, stk' \in Seq(Frame), Len(stk') = L
  PROVE  Position' = Start(L)' + stk'[L].i * Unit(stk'[L].depth)
<1>1. stk' # << >>
  OBVIOUS
<1>2. Top' = stk'[L]
  BY DEF Top, Last
<1>3. Unit(Top.depth)' = Unit(stk'[L].depth)
  BY <1>2 DEF Unit
<1> QED BY <1>1, <1>2, <1>3 DEF Position

LEMMA Advances ==
  ASSUME TypeOK, Nested, stk # << >>, Top.i < PtrsPerBlk,
         stk' = Advanced, root' = root, file' = file
  PROVE  /\ Position' = Position + Unit(Top.depth)
         /\ \A k \in 1 .. Len(stk') : Covers(k) => Covers(k)'
<1>0. PICK L \in 1 .. 3 : L = Len(stk)
  BY NestedTypes
<1>1. L \in 1 .. 3 /\ Top = stk[L] /\ L \in 1 .. L /\ stk \in Seq(Frame)
  <2>1. stk \in Seq(Frame)
    BY DEF TypeOK
  <2>2. Top = stk[L]
    BY <1>0, NestedTypes
  <2>3. L \in 1 .. L
    OBVIOUS
  <2> QED BY <2>1, <2>2, <2>3
<1>2. /\ stk' \in Seq(Frame) /\ Len(stk') = L
      /\ \A k \in 1 .. L - 1 : stk'[k] = stk[k]
      /\ \A k \in 1 .. L : stk'[k].blk = stk[k].blk /\ stk'[k].depth = stk[k].depth
      /\ stk'[L].i = Top.i + 1
  BY <1>0, <1>1, AdvancedIs
<1>3. ASSUME NEW k \in 1 .. L PROVE Start(k)' = Start(k) /\ (Covers(k) => Covers(k)')
  <2>1. k \in 1 .. 3 /\ \A j \in 1 .. k - 1 : stk'[j] = stk[j]
    BY <1>1, <1>2
  <2> QED BY <1>2, <2>1, StartStays, CoversStays
<1>4. Position' = Start(L) + (Top.i + 1) * Unit(Top.depth)
  <2>1. Position' = Start(L)' + stk'[L].i * Unit(stk'[L].depth)
    BY <1>1, <1>2, PositionThen
  <2> QED BY <1>1, <1>2, <1>3, <2>1
<1>5. Position = Start(L) + Top.i * Unit(Top.depth) /\ Start(L) \in Nat
  BY <1>0, PositionNow
<1>6. Top.i \in Nat /\ Unit(Top.depth) \in Nat
  BY <1>0, <1>1, NestedTypes
<1>7. (Top.i + 1) * Unit(Top.depth) = Top.i * Unit(Top.depth) + Unit(Top.depth)
  BY <1>6
<1>8. Top.i * Unit(Top.depth) \in Nat
  BY <1>6
<1> QED BY <1>2, <1>3, <1>4, <1>5, <1>6, <1>7, <1>8

LEMMA Pops ==
  ASSUME TypeOK, Nested, stk # << >>, stk' = Below, root' = root, file' = file
  PROVE  /\ Top.i = PtrsPerBlk => Position' = Position
         /\ \A k \in 1 .. Len(stk') : Covers(k) => Covers(k)'
<1>0. PICK L \in 1 .. 3 : L = Len(stk)
  BY NestedTypes
<1>1. L \in 1 .. 3 /\ Top = stk[L] /\ L \in 1 .. L /\ stk \in Seq(Frame)
  <2>1. stk \in Seq(Frame)
    BY DEF TypeOK
  <2>2. Top = stk[L]
    BY <1>0, NestedTypes
  <2>3. L \in 1 .. L
    OBVIOUS
  <2> QED BY <2>1, <2>2, <2>3
<1>2. /\ stk' \in Seq(Frame) /\ Len(stk') = L - 1
      /\ \A k \in 1 .. L - 1 : stk'[k] = stk[k]
  BY <1>0, <1>1, StackOps
<1>3. ASSUME NEW k \in 1 .. L - 1 PROVE Start(k)' = Start(k) /\ (Covers(k) => Covers(k)')
  <2>1. k \in 1 .. 3 /\ \A j \in 1 .. k - 1 : stk'[j] = stk[j]
    BY <1>1, <1>2
  <2>2. stk'[k] = stk[k]
    BY <1>2
  <2> QED BY <2>1, <2>2, StartStays, CoversStays
<1>4. ASSUME Top.i = PtrsPerBlk PROVE Position' = Position
  <2>1. Position = Start(L) + Size(Top.depth)
    <3>1. Position = Start(L) + Top.i * Unit(Top.depth)
      BY <1>0, PositionNow
    <3> QED BY <1>4, <3>1 DEF Size
  <2>2. CASE L = 1
    <3>1. stk' = << >>
      BY <1>2, <2>2, EmptySeq
    <3>2. Position' = Base(root)
      BY <3>1 DEF Position, Base
    <3>3. Start(L) = Base(root - 1)
      BY <1>0, <2>2, Starts
    <3>4. Top.depth = root - NDirect - 1 /\ Top.depth \in 0 .. 2 /\ root \in Nat /\ NDirect \in Nat
      <4>1. Top.depth = root - NDirect - L /\ Top.depth \in 0 .. 2
        BY <1>0, <1>1, NestedTypes
      <4> QED BY <2>2, <4>1, NestedTypes
    <3>5. root - 1 = NDirect + Top.depth /\ root = NDirect + Top.depth + 1
      BY <3>4
    <3>6. Base(NDirect + Top.depth + 1) = Base(NDirect + Top.depth) + Size(Top.depth)
      BY <3>4, Bases
    <3> QED BY <2>1, <3>2, <3>3, <3>5, <3>6
  <2>3. CASE L # 1
    <3>0. PICK M \in 1 .. 3 : M = L - 1
      BY <1>1, <2>3
    <3>1. M \in 1 .. 3 /\ M \in 1 .. L - 1 /\ M + 1 = L /\ M \in 1 .. L
      BY <1>1, <2>3, <3>0
    <3>2. Position' = Start(M)' + stk'[M].i * Unit(stk'[M].depth)
      BY <1>2, <3>1, PositionThen
    <3>3. Position' = Start(M) + stk[M].i * Unit(stk[M].depth)
      BY <1>2, <1>3, <3>1, <3>2
    <3>4. Start(L) = Start(M) + (stk[M].i - 1) * Unit(stk[M].depth)
      BY <1>0, <3>1, Starts DEF Passed
    <3>5. Unit(stk[M].depth) = Size(Top.depth)
      <4>1. /\ stk[M].depth = root - NDirect - M /\ Top.depth = root - NDirect - L
            /\ stk[M].depth \in 0 .. 2 /\ Top.depth \in 0 .. 2 /\ root \in Nat /\ NDirect \in Nat
        BY <1>0, <1>1, <3>1, NestedTypes
      <4>2. stk[M].depth \in 1 .. 2 /\ stk[M].depth - 1 = Top.depth
        BY <3>1, <4>1
      <4> QED BY <4>2, Units
    <3>6. stk[M].i \in Nat /\ Unit(stk[M].depth) \in Nat /\ Start(M) \in Nat
      BY <1>0, <3>1, NestedTypes, Starts
    <3>7. stk[M].i * Unit(stk[M].depth) = (stk[M].i - 1) * Unit(stk[M].depth) + Unit(stk[M].depth)
          /\ (stk[M].i - 1) * Unit(stk[M].depth) \in Int
      BY <3>6
    <3> QED BY <2>1, <3>3, <3>4, <3>5, <3>6, <3>7
  <2> QED BY <2>2, <2>3
<1> QED BY <1>2, <1>3, <1>4

(* What the pointer that is looked at stands for.                          *)
LEMMA AtPointer ==
  ASSUME TypeOK, Nested, stk # << >>, Covers(Len(stk)), Top.i < PtrsPerBlk
  PROVE  /\ Position + Unit(Top.depth) <= FileEnd
         /\ Top.depth = 0 => Logical(Position) = Follow(Top.blk, Top.i)
         /\ Top.depth > 0 => \A m \in 0 .. Unit(Top.depth) - 1 :
              Logical(Position + m) = AtDepth(Top.depth - 1, Follow(Top.blk, Top.i), m)
<1> DEFINE d == Top.depth
           i0 == Top.i
           U == Unit(d)
           s == Start(Len(stk))
           o == i0 * U
<1>1. /\ Len(stk) \in 1 .. Len(stk) /\ Top = stk[Len(stk)]
      /\ d \in 0 .. 2 /\ i0 \in Nat /\ U \in Nat \ {0}
  <2>1. Len(stk) \in 1 .. Len(stk) /\ Top = stk[Len(stk)]
    BY NestedTypes
  <2>2. /\ stk[Len(stk)].depth \in 0 .. 2 /\ stk[Len(stk)].i \in Nat
        /\ Unit(stk[Len(stk)].depth) \in Nat \ {0}
    BY <2>1, NestedTypes
  <2> QED BY <2>1, <2>2
<1>2. s \in Nat /\ o \in Nat /\ Position = s + o
  BY PositionNow
<1>3. /\ s + Size(d) <= FileEnd
      /\ \A n \in 0 .. Size(d) - 1 : Logical(s + n) = AtDepth(d, Top.blk, n)
  BY <1>1 DEF Covers
<1>4. Size(d) = PtrsPerBlk * U /\ Size(d) \in Nat /\ PtrsPerBlk \in Nat /\ FileEnd \in Nat
  BY <1>1, Units
<1>5. i0 \in Slots
  BY <1>1, <1>4 DEF Slots
<1> HIDE DEF d, i0, U, s
<1>6. o + U <= Size(d)
  <2>1. (i0 + 1) * U <= PtrsPerBlk * U
    <3>1. i0 + 1 <= PtrsPerBlk /\ i0 + 1 \in Int /\ PtrsPerBlk \in Int /\ U \in Nat
      BY <1>1, <1>4 DEF i0
    <3> QED BY <3>1, TimesMono
  <2>2. (i0 + 1) * U = o + U
    BY <1>1
  <2> QED BY <1>4, <2>1, <2>2
<1> HIDE DEF o
<1>7. ASSUME NEW m \in 0 .. U - 1
      PROVE  Logical(Position + m) = AtDepth(d, Top.blk, o + m)
  <2>1. o + m \in 0 .. Size(d) - 1 /\ Position + m = s + (o + m)
    BY <1>1, <1>2, <1>4, <1>6
  <2> QED BY <1>3, <2>1
<1>8. Position + U <= FileEnd
  BY <1>1, <1>2, <1>3, <1>4, <1>6
<1>9. CASE d = 0
  <2>1. U = 1 /\ o = i0
    BY <1>1, <1>9 DEF U, o, Unit
  <2>2. Logical(Position + 0) = AtDepth(0, Top.blk, i0 + 0)
    <3>1. 0 \in 0 .. U - 1
      BY <2>1
    <3>2. Logical(Position + 0) = AtDepth(d, Top.blk, o + 0)
      BY <1>7, <3>1
    <3> QED BY <1>9, <2>1, <3>2
  <2>3. Logical(Position) = Single(Top.blk, i0)
    BY <1>1, <1>2, <2>2 DEF AtDepth
  <2> QED BY <1>8, <1>9, <2>3 DEF Single, d, U, i0
<1>10. CASE d > 0
  <2>1. ASSUME NEW m \in 0 .. U - 1
        PROVE  Logical(Position + m) = AtDepth(d - 1, Follow(Top.blk, i0), m)
    <3>1. d \in 1 .. 2
      BY <1>1, <1>10
    <3>2. AtDepth(d, Top.blk, i0 * Unit(d) + m) = AtDepth(d - 1, Follow(Top.blk, i0), m)
      BY <1>5, <3>1, BelowPointer DEF U
    <3> QED BY <1>7, <3>2 DEF o, U
  <2> QED BY <1>8, <1>10, <2>1 DEF d, U, i0
<1> QED BY <1>1, <1>9, <1>10

LEMMA ReadsPointer ==
  ASSUME Readable, Top.blk # 0
  PROVE  Follow(Top.blk, Top.i) = Checked(Word)
BY DEF Readable, Follow, Word

LEMMA PositionInFile ==
  ASSUME TypeOK, Nested, \A k \in 1 .. Len(stk) : Covers(k)
  PROVE  Position \in 0 .. FileEnd
<1>1. CASE stk = << >>
  BY <1>1, Bases DEF Position, TypeOK
<1>2. CASE stk # << >>
  <2> DEFINE U == Unit(Top.depth)
             s == Start(Len(stk))
             o == Top.i * U
  <2>1. /\ Len(stk) \in 1 .. Len(stk) /\ Top = stk[Len(stk)]
        /\ Top.depth \in 0 .. 2 /\ Top.i \in Nat /\ U \in Nat \ {0} /\ Top.i <= PtrsPerBlk
    <3>1. Len(stk) \in 1 .. Len(stk) /\ Top = stk[Len(stk)]
      BY <1>2, NestedTypes
    <3>2. stk[Len(stk)].depth \in 0 .. 2 /\ stk[Len(stk)].i \in Nat
          /\ Unit(stk[Len(stk)].depth) \in Nat \ {0} /\ stk[Len(stk)].i <= PtrsPerBlk
      BY <3>1, NestedTypes
    <3> QED BY <3>1, <3>2
  <2>2. s \in Nat /\ o \in Nat /\ Position = s + o
    BY <1>2, PositionNow
  <2>3. s + Size(Top.depth) <= FileEnd
    BY <2>1 DEF Covers
  <2>4. Size(Top.depth) = PtrsPerBlk * U /\ Size(Top.depth) \in Nat /\ PtrsPerBlk \in Nat /\ FileEnd \in Nat
    BY <2>1, Units
  <2> HIDE DEF U, s
  <2>5. o <= Size(Top.depth)
    BY <2>1, <2>4, TimesMono
  <2> HIDE DEF o
  <2> QED BY <2>2, <2>3, <2>4, <2>5
<1> QED BY <1>1, <1>2

(* Where a generator that is started by another one begins.                *)
LEMMA StartAbove ==
  ASSUME root' = root, NEW L \in 1 .. 2, Base(root - 1) \in Nat,
         \A j \in 1 .. L - 1 : stk'[j] = stk[j] /\ Passed(j) \in Nat,
         stk'[L].i \in Nat, Unit(stk'[L].depth) \in Nat
  PROVE  Start(L + 1)' = Start(L) + (stk'[L].i - 1) * Unit(stk'[L].depth)
<1> DEFINE new == (stk'[L].i - 1) * Unit(stk'[L].depth)
<1>1. new \in Int
  BY Z3
<1>2. Base(root - 1)' = Base(root - 1)
  BY DEF Base
<1>3. \A k : Passed(k)' = (stk'[k].i - 1) * Unit(stk'[k].depth)
  BY DEF Passed, Unit
<1>4. CASE L = 1
  <2>1. Start(L) = Base(root - 1)
    BY <1>4 DEF Start
  <2>2. Start(L + 1)' = Base(root - 1) + new
    <3>1. Start(2)' = Base(root - 1)' + Passed(1)' + 0
      BY DEF Start
    <3> QED BY <1>1, <1>2, <1>3, <1>4, <3>1
  <2> QED BY <2>1, <2>2
<1>5. CASE L = 2
  <2>1. Start(L) = Base(root - 1) + Passed(1) /\ Passed(1) \in Nat
    BY <1>5 DEF Start
  <2>2. Passed(1)' = Passed(1)
    BY <1>3, <1>5 DEF Passed
  <2>3. Start(3)' = Base(root - 1)' + Passed(1)' + Passed(2)'
    BY DEF Start
  <2> QED BY <1>1, <1>2, <1>3, <1>5, <2>1, <2>2, <2>3
<1> QED BY <1>4, <1>5

LEMMA Pushes ==
  ASSUME TypeOK, Nested, stk # << >>, Top.depth > 0, Top.i < PtrsPerBlk, Readable,
         \A k \in 1 .. Len(stk) : Covers(k), Checked(Word) # 0,
         stk' = Append(Advanced, Started(Word, Top.depth - 1)), root' = root, file' = file
  PROVE  Position' = Position /\ \A k \in 1 .. Len(stk') : Covers(k)'
<1>0. PICK L \in 1 .. 3 : L = Len(stk)
  BY NestedTypes
<1>1. /\ Top = stk[L] /\ L \in 1 .. L /\ Top.i \in Nat /\ Top.depth \in 0 .. 2
      /\ Top.depth = root - NDirect - L /\ Unit(Top.depth) \in Nat \ {0}
      /\ root \in NDirect + 1 .. NDirect + 3 /\ NDirect \in Nat
  <2>1. Top = stk[L] /\ L \in 1 .. L /\ root \in NDirect + 1 .. NDirect + 3 /\ NDirect \in Nat
    BY <1>0, NestedTypes
  <2>2. /\ stk[L].i \in Nat /\ stk[L].depth \in 0 .. 2 /\ stk[L].depth = root - NDirect - L
        /\ Unit(stk[L].depth) \in Nat \ {0}
    BY <1>0, <2>1, NestedTypes
  <2> QED BY <2>1, <2>2
<1>2. PICK d \in 1 .. 2 : d = Top.depth
  BY <1>1
<1>3. L \in 1 .. 2 /\ L + 1 \in 1 .. 3
  BY <1>1, <1>2
<1>4. /\ stk' \in Seq(Frame) /\ Len(stk') = L + 1
      /\ \A k \in 1 .. L - 1 : stk'[k] = stk[k]
      /\ \A k \in 1 .. L : stk'[k].blk = stk[k].blk /\ stk'[k].depth = stk[k].depth
      /\ stk'[L].i = Top.i + 1
      /\ stk'[L + 1].blk = Word /\ stk'[L + 1].depth = d - 1 /\ stk'[L + 1].i = 0
  BY <1>0, <1>2, PushedIs
<1>5. ASSUME NEW k \in 1 .. L PROVE Covers(k)'
  <2>1. k \in 1 .. 3 /\ \A j \in 1 .. k - 1 : j \in 1 .. L - 1
    OBVIOUS
  <2>2. \A j \in 1 .. k - 1 : stk'[j] = stk[j]
    BY <1>4, <2>1
  <2>3. stk'[k].blk = stk[k].blk /\ stk'[k].depth = stk[k].depth /\ Covers(k)
    BY <1>0, <1>4
  <2> QED BY <2>1, <2>2, <2>3, CoversStays
<1>6. PICK p \in Nat : p = Position
  BY PositionNow
<1>7. Start(L + 1)' = p
  <2>1. Base(root - 1) \in Nat
    <3>1. root - 1 \in 0 .. NDirect + 3
      BY <1>1
    <3>2. Base(root - 1) \in 0 .. FileEnd
      BY <3>1, Bases
    <3> QED BY <3>2, Units
  <2>2. ASSUME NEW j \in 1 .. L - 1 PROVE Passed(j) \in Nat
    <3>1. j \in 1 .. Len(stk) /\ j \in 1 .. Len(stk) - 1
      BY <1>0
    <3>2. stk[j].i > 0
      BY <3>1 DEF Nested
    <3>3. stk[j].i \in Nat /\ Unit(stk[j].depth) \in Nat
      BY <3>1, NestedTypes
    <3>4. stk[j].i - 1 \in Nat
      BY <3>2, <3>3
    <3> QED BY <3>3, <3>4 DEF Passed
  <2>3. stk'[L].i \in Nat /\ stk'[L].i - 1 = Top.i /\ stk'[L].depth = Top.depth
    <3>1. stk'[L].i = Top.i + 1 /\ Top.i \in Nat
      BY <1>1, <1>4
    <3>2. stk'[L].depth = Top.depth
      BY <1>1, <1>4
    <3>3. \A x, y : y \in Nat /\ x = y + 1 => x \in Nat /\ x - 1 = y
      OBVIOUS
    <3> QED BY <3>1, <3>2, <3>3, Zenon
  <2>4. Start(L + 1)' = Start(L) + (stk'[L].i - 1) * Unit(stk'[L].depth)
    <3>0. Unit(Top.depth) \in Nat
      BY <1>1
    <3>1. stk'[L].i \in Nat /\ Unit(stk'[L].depth) \in Nat
      BY <2>3, <3>0, Zenon
    <3>2. \A j \in 1 .. L - 1 : stk'[j] = stk[j] /\ Passed(j) \in Nat
      BY <1>4, <2>2
    <3> QED BY <1>3, <2>1, <3>1, <3>2, StartAbove
  <2>5. p = Start(L) + Top.i * Unit(Top.depth)
    BY <1>0, <1>6, PositionNow
  <2> QED BY <2>3, <2>4, <2>5
<1>8. Position' = p
  <2>1. Position' = Start(L + 1)' + stk'[L + 1].i * Unit(stk'[L + 1].depth)
    BY <1>3, <1>4, PositionThen
  <2>2. 0 * Unit(d - 1) = 0
    <3>1. d - 1 \in 0 .. 2
      BY <1>2
    <3>2. Unit(d - 1) \in Nat
      BY <3>1, Units
    <3> QED BY <3>2
  <2>3. Position' = p + 0
    BY <1>4, <1>7, <2>1, <2>2
  <2> QED BY <1>6, <2>3
<1>9. Covers(L + 1)'
  <2>1. Covers(Len(stk)) /\ Top.blk # 0
    BY <1>0, <1>1 DEF Covers
  <2>2. Follow(Top.blk, Top.i) = Word /\ Word # 0
    BY <2>1, ReadsPointer DEF Checked
  <2>3. /\ p + Unit(d) <= FileEnd
        /\ \A m \in 0 .. Unit(d) - 1 : Logical(p + m) = AtDepth(d - 1, Word, m)
    BY <1>2, <1>6, <2>1, <2>2, AtPointer
  <2>4. Unit(d) = Size(d - 1)
    BY <1>2, Units
  <2>5. \A n : Logical(n)' = Logical(n)
    BY SameFile
  <2>6. \A e, b, n : AtDepth(e, b, n)' = AtDepth(e, b, n)
    BY SameFile
  <2> QED BY <1>4, <1>7, <2>2, <2>3, <2>4, <2>5, <2>6 DEF Covers
<1>10. \A k \in 1 .. L + 1 : k \in 1 .. L \/ k = L + 1
  OBVIOUS
<1> QED BY <1>4, <1>5, <1>6, <1>8, <1>9, <1>10

LEMMA Enters ==
  ASSUME TypeOK, stk = << >>, root \in NDirect .. NDirect + 2,
         stk' = <<Started(file.block[root], root - NDirect)>>, root' = root + 1, file' = file
  PROVE  /\ Position' = Position
         /\ file.block[root] # 0 => \A k \in 1 .. Len(stk') : Covers(k)'
<1>1. PICK d \in 0 .. 2 : d = root - NDirect
  BY SizesAssumption
<1>2. PICK p \in 0 .. FileEnd : p = Base(root)
  BY Bases, SizesAssumption
<1>3. Position = p
  BY <1>2 DEF Position
<1>4. /\ stk' \in Seq(Frame) /\ Len(stk') = 1
      /\ stk'[1].blk = file.block[root] /\ stk'[1].depth = d /\ stk'[1].i = 0
  <2> DEFINE new == Started(file.block[root], root - NDirect)
  <2>1. file.block[root] \in Nat
    BY FileOps, SizesAssumption DEF Roots
  <2>2. new \in Frame /\ new.blk = file.block[root] /\ new.depth = d /\ new.i = 0
    BY <1>1, <2>1, SizesAssumption DEF Frame, Started
  <2> HIDE DEF new
  <2>3. stk' = <<new>>
    BY DEF new
  <2> QED BY <2>2, <2>3
<1>5. Start(1)' = p
  <2>1. Start(1)' = Base(root' - 1) + 0 + 0
    BY DEF Start, Base
  <2>2. root' - 1 = root
    BY SizesAssumption
  <2> QED BY <1>2, <2>1, <2>2, Units
<1>6. Position' = p
  <2>1. Position' = Start(1)' + stk'[1].i * Unit(stk'[1].depth)
    BY <1>4, PositionThen
  <2>2. 0 * Unit(d) = 0
    BY <1>1, Units
  <2> QED BY <1>2, <1>4, <1>5, <2>1, <2>2, Units
<1>7. ASSUME file.block[root] # 0 PROVE Covers(1)'
  <2>1. p + Size(d) <= FileEnd
    <3>1. Base(NDirect + d + 1) = Base(NDirect + d) + Size(d) /\ NDirect + d = root
      BY <1>1, Bases, SizesAssumption
    <3>2. Base(NDirect + d + 1) \in 0 .. FileEnd
      <4>1. NDirect + d + 1 \in 0 .. NDirect + 3
        BY SizesAssumption
      <4> QED BY <4>1, Bases
    <3> QED BY <1>2, <3>1, <3>2
  <2>2. \A n \in 0 .. Size(d) - 1 : Logical(p + n) = AtDepth(d, file.block[root], n)
    <3>1. NDirect + d = root
      BY <1>1, SizesAssumption
    <3> QED BY <1>2, <3>1, OfTree
  <2>3. \A n : Logical(n)' = Logical(n)
    BY SameFile
  <2>4. \A e, b, n : AtDepth(e, b, n)' = AtDepth(e, b, n)
    BY SameFile
  <2> QED BY <1>4, <1>5, <1>7, <2>1, <2>2, <2>3, <2>4 DEF Covers
<1>8. \A k \in 1 .. Len(stk') : k = 1
  BY <1>4
<1> QED BY <1>3, <1>6, <1>7, <1>8
-----------------------------------------------------------------------------
(* The blocks come in the order of the file: what follows of a step.       *)
LEMMA PrecedesThen ==
  ASSUME NEW p, Position' = p, Precedes(p)'
  PROVE  Precedes(Position)'
BY DEF Precedes, HasBlock, Rank

LEMMA CountStays ==
  ASSUME file' = file, out' = out, idx' = idx, AtEnd, NEW n \in 0 .. FileEnd, Precedes(n)
  PROVE  AtEnd' /\ InFileOrder'
<1>1. Precedes(n)'
  BY OrderStays
<1> QED BY <1>1 DEF AtEnd, InFileOrder

(* A step that yields nothing: it stays in place, or the count is reached. *)
LEMMA OrderKept ==
  ASSUME TypeOK, Nested, NoNullRoot, OrderInv, file' = file, out' = out, idx' = idx,
         \A k \in 1 .. Len(stk') : Covers(k)',
         AtEnd \/ Position' = Position
  PROVE  OrderInv'
<1>1. \A k \in 1 .. Len(stk) : Covers(k)
  BY DEF OrderInv
<1>2. CASE AtEnd
  <2>1. PICK n \in 0 .. FileEnd : Precedes(n)
    BY <1>1, PositionInFile DEF OrderInv, InFileOrder
  <2>2. AtEnd' /\ InFileOrder'
    BY <1>2, <2>1, CountStays
  <2> QED BY <2>2 DEF OrderInv
<1>3. CASE ~AtEnd
  <2>1. PICK p : p = Position
    OBVIOUS
  <2>2. Precedes(p)
    BY <1>3, <2>1 DEF OrderInv
  <2>3. Precedes(p)'
    BY <2>2, OrderStays
  <2>4. Precedes(Position)'
    BY <1>3, <2>1, <2>3, PrecedesThen
  <2> QED BY <2>4 DEF OrderInv
<1> QED BY <1>2, <1>3

(* A step that looks at a data pointer.                                    *)
LEMMA OrderTaken ==
  ASSUME TypeOK, ~AtEnd, NoNullRoot, OrderInv, file' = file,
         NEW w \in Nat, Logical(Position) = Checked(w), TakeData(w),
         Position \in Nat, Position < FileEnd, Position' = Position + 1,
         \A k \in 1 .. Len(stk') : Covers(k)'
  PROVE  OrderInv' /\ Precedes(Position)' /\ \A m \in Data : HasBlock(m) => HasBlock(m)'
<1>1. PICK p \in Nat : p = Position
  OBVIOUS
<1>2. Precedes(p) /\ p < FileEnd /\ Logical(p) = Checked(w) /\ out \in Seq(Nat)
  BY <1>1 DEF OrderInv, TypeOK
<1>3. Precedes(p + 1)' /\ \A m \in Data : HasBlock(m) => HasBlock(m)'
  BY <1>2, TakesPlace
<1>4. Precedes(Position)'
  <2>1. PICK q : q = p + 1
    OBVIOUS
  <2>2. Precedes(q)'
    BY <1>3, <2>1
  <2> QED BY <1>1, <2>1, <2>2, PrecedesThen
<1> QED BY <1>3, <1>4 DEF OrderInv

LEMMA DirectInPlace ==
  ASSUME TypeOK, NoNullRoot, OrderInv, Direct, ~AtEnd, file' = file
  PROVE  /\ OrderInv' /\ Precedes(Position)' /\ Position' = Position + 1
         /\ Logical(Position) = Checked(file.block[root])
<1>0. root \in 0 .. NDirect + 3 /\ NDirect \in Nat
  BY SizesAssumption DEF TypeOK
<1>1. /\ stk = << >> /\ stk' = stk /\ root' = root + 1 /\ root < NDirect /\ TakeData(file.block[root])
  BY DEF Direct
<1>2. file.block[root] \in Nat /\ root \in 0 .. NDirect - 1
  <2>1. root \in 0 .. NDirect - 1 /\ root \in Roots
    BY <1>0, <1>1 DEF Roots
  <2> QED BY <2>1, FileOps
<1>3. Position = root /\ Logical(root) = Checked(file.block[root]) /\ root < FileEnd
  <2>1. root \in 0 .. NDirect
    BY <1>0, <1>2
  <2> QED BY <1>1, <1>2, <2>1, Bases, OfDirect DEF Position
<1>4. Position' = root + 1
  <2>1. root + 1 \in 0 .. NDirect
    BY <1>0, <1>2
  <2> QED BY <1>1, <2>1, Bases DEF Position, Base
<1>5. \A k \in 1 .. Len(stk') : Covers(k)'
  <2>1. Len(stk') = 0
    BY <1>1
  <2> QED BY <2>1
<1>6. /\ Position \in Nat /\ Position < FileEnd /\ Position' = Position + 1
      /\ Logical(Position) = Checked(file.block[root])
  BY <1>0, <1>3, <1>4
<1> QED BY <1>1, <1>2, <1>5, <1>6, OrderTaken

LEMMA LeafInPlace ==
  ASSUME TypeOK, Nested, NoNullRoot, OrderInv, Leaf, ~AtEnd, file' = file
  PROVE  /\ OrderInv' /\ Precedes(Position)' /\ Position' = Position + 1
         /\ Logical(Position) = Checked(Word)
<1>0. \A k \in 1 .. Len(stk) : Covers(k)
  BY DEF OrderInv
<1>1. /\ stk # << >> /\ Top.depth = 0 /\ Top.i < PtrsPerBlk /\ Readable
      /\ TakeData(Word) /\ stk' = Advanced /\ root' = root
  BY DEF Leaf
<1>2. Word \in Nat
  BY <1>1, ReadOps
<1>3. Covers(Len(stk)) /\ Top.blk # 0
  <2>1. Len(stk) \in 1 .. Len(stk) /\ Top = stk[Len(stk)]
    BY <1>1, NestedTypes
  <2> QED BY <1>0, <2>1 DEF Covers
<1>4. Logical(Position) = Checked(Word) /\ Position + 1 <= FileEnd
  <2>1. Unit(Top.depth) = 1
    BY <1>1 DEF Unit
  <2> QED BY <1>1, <1>3, <2>1, AtPointer, ReadsPointer
<1>5. Position' = Position + 1 /\ \A k \in 1 .. Len(stk') : Covers(k)'
  <2>1. Unit(Top.depth) = 1
    BY <1>1 DEF Unit
  <2>2. Len(stk') = Len(stk)
    <3>1. stk \in Seq(Frame)
      BY DEF TypeOK
    <3> QED BY <1>1, <3>1, AdvancedIs
  <2> QED BY <1>0, <1>1, <2>1, <2>2, Advances
<1>6. Position \in Nat /\ Position < FileEnd
  BY <1>1, <1>4, PositionNow, Units
<1> QED BY <1>1, <1>2, <1>4, <1>5, <1>6, OrderTaken

LEMMA StartPrecedes == Init => Position = 0 /\ Precedes(Position)
<1> SUFFICES ASSUME Init PROVE Position = 0 /\ Precedes(Position)
  OBVIOUS
<1>1. stk = << >> /\ Len(stk) = 0 /\ out = << >> /\ Len(out) = 0 /\ root = 0
  BY DEF Init
<1>2. Position = 0
  BY <1>1, Bases, SizesAssumption DEF Position
<1>3. \A m \in Data : ~(m < 0)
  BY Units DEF Data
<1>4. Rank(0) = 0
  <2>1. {m \in Data : m < 0} = {}
    BY <1>3
  <2> QED BY <2>1, FS_EmptySet DEF Rank
<1>5. Precedes(0)
  BY <1>1, <1>3, <1>4 DEF Precedes
<1> QED BY <1>2, <1>5

LEMMA OrderInit == Init => OrderInv
BY StartPrecedes DEF Init, OrderInv

LEMMA RootMoves ==
  ASSUME [Next]_vars
  PROVE  file' = file /\ root' \in {root, root + 1}
<1>1. ASSUME Step PROVE root' \in {root, root + 1}
  <2>1. CASE Direct
    BY <2>1 DEF Direct, Stop
  <2>2. CASE EnterTree
    BY <2>2 DEF EnterTree
  <2>3. CASE Finish \/ ReadPastImage
    BY <2>3 DEF Finish, ReadPastImage, Stop
  <2>4. CASE Leaf
    BY <2>4 DEF Leaf, Stop
  <2>5. CASE Inner
    BY <2>5 DEF Inner, Stop
  <2>6. CASE Return
    BY <2>6 DEF Return
  <2> QED BY <1>1, <2>1, <2>2, <2>3, <2>4, <2>5, <2>6 DEF Step
<1> QED BY <1>1 DEF Next, Step, Ended, vars

LEMMA OrderStep == IInv /\ Nested /\ OrderInv /\ [Next]_vars => OrderInv'
<1> SUFFICES ASSUME IInv, Nested, OrderInv, [Next]_vars, NoNullRoot' PROVE OrderInv'
  BY DEF OrderInv
<1>t. TypeOK /\ NDirect \in Nat /\ root \in 0 .. NDirect + 3 /\ stk \in Seq(Frame)
  BY SizesAssumption DEF IInv, TypeOK
<1>0. file' = file /\ root' \in {root, root + 1}
  BY RootMoves
<1>1. NoNullRoot
  <2>1. root \in Nat /\ NDirect \in Nat
    BY <1>t
  <2>2. root' = root \/ root' = root + 1
    BY <1>0
  <2>3. \A r \in NDirect .. root - 1 : r \in NDirect .. root' - 1
    BY <2>1, <2>2
  <2> QED BY <1>0, <2>3 DEF NoNullRoot
<1>2. \A k \in 1 .. Len(stk) : Covers(k)
  BY <1>1 DEF OrderInv
<1>3. CASE UNCHANGED <<root, stk, idx, out>>
  <2>1. Position' = Position
    BY <1>3 DEF Position, Start, Passed, Base, Unit, Top, Last
  <2>2. ASSUME NEW k \in 1 .. Len(stk') PROVE Covers(k)'
    <3>1. k \in 1 .. 3 /\ Covers(k)
      BY <1>2, <1>3, <1>t, NestedTypes
    <3>2. stk' = stk /\ root' = root
      BY <1>3
    <3> QED BY <1>0, <3>1, <3>2, CoversStays
  <2> QED BY <1>0, <1>1, <1>3, <1>t, <2>1, <2>2, OrderKept
<1>4. CASE Step /\ Direct /\ ~AtEnd
  BY <1>0, <1>1, <1>4, <1>t, DirectInPlace
<1>5. CASE Step /\ EnterTree
  <2>1. /\ stk = << >> /\ root \in NDirect .. NDirect + 2 /\ root' = root + 1 /\ UNCHANGED <<idx, out>>
        /\ stk' = <<Started(file.block[root], root - NDirect)>>
    BY <1>5 DEF EnterTree
  <2>2. file.block[root] # 0
    <3>1. root \in NDirect .. root' - 1
      BY <1>t, <2>1
    <3> QED BY <1>0, <3>1 DEF NoNullRoot
  <2>3. Position' = Position /\ \A k \in 1 .. Len(stk') : Covers(k)'
    BY <1>0, <1>t, <2>1, <2>2, Enters
  <2> QED BY <1>0, <1>1, <1>t, <2>1, <2>3, OrderKept
<1>6. CASE Step /\ Leaf /\ ~AtEnd
  BY <1>0, <1>1, <1>6, <1>t, LeafInPlace
<1>7. CASE Step /\ stk # << >> /\ stk' = Below /\ root' = root /\ UNCHANGED <<idx, out>> /\ (AtEnd \/ Top.i = PtrsPerBlk)
  <2>1. (Top.i = PtrsPerBlk => Position' = Position)
        /\ \A k \in 1 .. Len(stk') : Covers(k) => Covers(k)'
    BY <1>0, <1>7, <1>t, Pops
  <2>2. \A k \in 1 .. Len(stk') : k \in 1 .. Len(stk)
    <3>1. Len(stk') = Len(stk) - 1 /\ Len(stk) \in Nat
      BY <1>7, <1>t, StackOps
    <3> QED BY <3>1
  <2> QED BY <1>0, <1>1, <1>2, <1>7, <1>t, <2>1, <2>2, OrderKept
<1>8. CASE Step /\ Inner /\ ~AtEnd /\ ~Refused(Word)
  <2>1. /\ stk # << >> /\ Top.depth > 0 /\ Top.i < PtrsPerBlk /\ Readable
        /\ UNCHANGED <<root, idx, out>>
        /\ stk' = IF Checked(Word) = 0 THEN Advanced ELSE Append(Advanced, Started(Word, Top.depth - 1))
    BY <1>8 DEF Inner
  <2>2. CASE Checked(Word) # 0
    <3>1. Position' = Position /\ \A k \in 1 .. Len(stk') : Covers(k)'
      BY <1>0, <1>2, <1>t, <2>1, <2>2, Pushes
    <3> QED BY <1>0, <1>1, <1>t, <2>1, <3>1, OrderKept
  <2>3. CASE Checked(Word) = 0
    <3>1. stk' = Advanced /\ root' = root
      BY <2>1, <2>3
    <3>2. Position' = Position + Unit(Top.depth) /\ \A k \in 1 .. Len(stk') : Covers(k) => Covers(k)'
      BY <1>0, <1>t, <2>1, <3>1, Advances
    <3>3. Len(stk') = Len(stk)
      BY <1>t, <2>1, <3>1, AdvancedIs
    <3>4. Covers(Len(stk)) /\ Top.blk # 0 /\ Top.depth \in 1 .. 2 /\ Unit(Top.depth) \in Nat
      <4>1. Len(stk) \in 1 .. Len(stk) /\ Top = stk[Len(stk)]
        BY <1>t, <2>1, NestedTypes
      <4>2. Top.depth \in 0 .. 2 /\ Unit(Top.depth) \in Nat
        BY <1>t, <4>1, NestedTypes
      <4> QED BY <1>2, <2>1, <4>1, <4>2 DEF Covers
    <3>5. \A m \in 0 .. Unit(Top.depth) - 1 : Logical(Position + m) = 0
      <4>1. Follow(Top.blk, Top.i) = 0
        BY <2>1, <2>3, <3>4, ReadsPointer
      <4>2. \A m : AtDepth(Top.depth - 1, 0, m) = 0
        <5>1. Top.depth - 1 \in 0 .. 2 /\ 0 \notin Blocks \ {0}
          BY <3>4
        <5> QED BY <5>1, NothingBelow
      <4> QED BY <1>t, <2>1, <3>4, <4>1, <4>2, AtPointer
    <3>6. PICK p \in Nat, c \in Nat : p = Position /\ c = Unit(Top.depth)
      BY <1>t, <2>1, <3>4, PositionNow
    <3>7. Precedes(p)
      BY <1>1, <1>8, <3>6 DEF OrderInv
    <3>8. Precedes(p + c)'
      BY <1>0, <2>1, <3>5, <3>6, <3>7, PassesPlaces
    <3>9. Precedes(Position)'
      <4>1. PICK q : q = p + c
        OBVIOUS
      <4>2. Precedes(q)'
        BY <3>8, <4>1
      <4> QED BY <3>2, <3>6, <4>1, <4>2, PrecedesThen
    <3> QED BY <1>2, <3>2, <3>3, <3>9 DEF OrderInv
  <2> QED BY <2>2, <2>3
<1>9. CASE Step
  <2>1. CASE Direct
    BY <1>3, <1>4, <1>9, <2>1 DEF Direct, Stop
  <2>2. CASE EnterTree
    BY <1>5, <1>9, <2>2
  <2>3. CASE Finish \/ ReadPastImage
    BY <1>3, <2>3 DEF Finish, ReadPastImage, Stop
  <2>4. CASE Leaf
    BY <1>3, <1>6, <1>9, <2>4 DEF Leaf, Stop
  <2>5. CASE Inner
    BY <1>3, <1>7, <1>8, <1>9, <2>5 DEF Inner, Stop
  <2>6. CASE Return
    BY <1>7, <1>9, <2>6 DEF Return
  <2> QED BY <1>9, <2>1, <2>2, <2>3, <2>4, <2>5, <2>6 DEF Step
<1> QED BY <1>3, <1>9 DEF Next, Ended, vars

(* As long as no tree with a null root has been entered, the blocks come   *)
(* in file order and none is skipped or repeated, on every image.          *)
THEOREM OrderCorrect == Spec => []InFileOrder
<1>1. TypeOK /\ Nested /\ OrderInv => InFileOrder
  <2> SUFFICES ASSUME TypeOK, Nested, OrderInv, NoNullRoot PROVE InFileOrder
    BY DEF InFileOrder
  <2>1. Position \in 0 .. FileEnd
    BY PositionInFile DEF OrderInv
  <2> QED BY <2>1 DEF OrderInv, InFileOrder
<1>2. IInv => TypeOK
  BY DEF IInv
<1> QED
  BY <1>1, <1>2, InitIsInductive, NextIsInductive, NestedInit, NestedStep, OrderInit, OrderStep,
     PTL DEF Spec
-----------------------------------------------------------------------------
(* A file without holes is complete.                                       *)
LEMMA CountOfSound ==
  ASSUME TypeOK, Sound
  PROVE  Cardinality(Data) \in Nat /\ Cardinality(Data) <= file.end /\ file.end \in Nat
<1>1. Cardinality(Data) \in Nat
  BY Ranks, FS_CardinalityType
<1>2. \A w \in Nat : Checked(w) \in Blocks
  BY SizesAssumption DEF Checked, InRange, Blocks
<1>3. \A b, s : s \in Slots => Follow(b, s) \in Blocks
  <2>1. 0 \in Blocks
    BY SizesAssumption DEF Blocks
  <2>2. \A b \in Blocks, s \in Slots : file.disk[b][s] \in Nat
    BY FileOps
  <2> QED BY <1>2, <2>1, <2>2 DEF Follow
<1> DEFINE roots == {file.block[NDirect]} \cup {file.block[NDirect + 1]} \cup {file.block[NDirect + 2]}
<1>4. Indirect \subseteq Blocks \cup roots
  BY <1>3 DEF Indirect
<1>5. IsFiniteSet(Blocks) /\ IsFiniteSet(roots)
  <2>1. IsFiniteSet(Blocks)
    BY FS_Interval, SizesAssumption DEF Blocks
  <2>2. IsFiniteSet(roots)
    BY FS_Singleton, FS_Union
  <2> QED BY <2>1, <2>2
<1> HIDE DEF roots
<1>6. Cardinality(Indirect) \in Nat
  <2>1. IsFiniteSet(Blocks \cup roots)
    BY <1>5, FS_Union
  <2> QED BY <1>4, <2>1, FS_Subset, FS_CardinalityType
<1>7. file.end = Cardinality(Data) + Cardinality(Indirect) /\ file.end \in Nat
  BY FileOps DEF Sound
<1> QED BY <1>1, <1>6, <1>7

(* What was yielded stays yielded.                                         *)
LEMMA OutGrows ==
  ASSUME TypeOK, Step
  PROVE  out' = out \/ \E w : out' = Append(out, w)
<1>1. ASSUME NEW w, TakeData(w) PROVE out' = out \/ \E v : out' = Append(out, v)
  BY <1>1 DEF TakeData
<1>2. CASE Direct
  BY <1>1, <1>2 DEF Direct, Stop
<1>3. CASE EnterTree \/ Finish \/ ReadPastImage \/ Return
  BY <1>3 DEF EnterTree, Finish, ReadPastImage, Return, Stop
<1>4. CASE Leaf
  BY <1>1, <1>4 DEF Leaf, Stop
<1>5. CASE Inner
  BY <1>5 DEF Inner, Stop
<1> QED BY <1>2, <1>3, <1>4, <1>5 DEF Step

LEMMA BlocksStay ==
  ASSUME TypeOK, [Next]_vars, NEW m \in Data, HasBlock(m)
  PROVE  HasBlock(m)'
<1>1. file' = file /\ (out' = out \/ \E w : out' = Append(out, w))
  BY OutGrows, RootMoves DEF Next, Ended, vars
<1>2. Logical(m)' = Logical(m) /\ Rank(m)' = Rank(m)
  BY <1>1, SameFile
<1>3. Rank(m) \in Nat /\ out \in Seq(Nat) /\ Len(out) \in Nat
  <2>1. m \in Nat
    BY Units DEF Data
  <2> QED BY <2>1, Ranks DEF TypeOK
<1>4. Rank(m) < Len(out) /\ out[Rank(m) + 1] = Logical(m)
  BY DEF HasBlock
<1>5. CASE out' = out
  BY <1>2, <1>4, <1>5 DEF HasBlock
<1>6. ASSUME NEW w, out' = Append(out, w) PROVE HasBlock(m)'
  <2>1. Rank(m) + 1 \in 1 .. Len(out)
    BY <1>3, <1>4
  <2>2. Len(out') = Len(out) + 1 /\ out'[Rank(m) + 1] = out[Rank(m) + 1]
    BY <1>3, <1>6, <2>1
  <2> QED BY <1>2, <1>3, <1>4, <2>2 DEF HasBlock
<1> QED BY <1>1, <1>5, <1>6

(* A generator in front of a block of the file finds a good pointer.       *)
LEMMA PointerIsGood ==
  ASSUME TypeOK, Nested, stk # << >>, Covers(Len(stk)), Top.i < PtrsPerBlk,
         Logical(Position) # 0
  PROVE  Readable /\ Checked(Word) # 0 /\ ~Refused(Word)
<1>1. /\ Len(stk) \in 1 .. Len(stk) /\ Top = stk[Len(stk)]
  BY NestedTypes
<1>2. Top.blk # 0 /\ Top.depth \in 0 .. 2 /\ Unit(Top.depth) \in Nat \ {0} /\ Position \in Nat
  BY <1>1, NestedTypes, PositionNow DEF Covers
<1>3. Follow(Top.blk, Top.i) # 0
  <2>1. CASE Top.depth = 0
    BY <2>1, AtPointer
  <2>2. CASE Top.depth > 0
    <3>1. 0 \in 0 .. Unit(Top.depth) - 1 /\ Position + 0 = Position
      BY <1>2
    <3>2. Logical(Position) = AtDepth(Top.depth - 1, Follow(Top.blk, Top.i), 0)
      BY <2>2, <3>1, AtPointer
    <3>3. Top.depth - 1 \in 0 .. 2 /\ 0 \notin Blocks \ {0}
      BY <1>2, <2>2
    <3> QED BY <3>2, <3>3, NothingBelow
  <2> QED BY <1>2, <2>1, <2>2
<1>4. Readable
  BY <1>3 DEF Follow, Readable
<1>5. Checked(Word) # 0
  BY <1>2, <1>3, <1>4, ReadsPointer
<1> QED BY <1>4, <1>5 DEF Checked, Refused

(* The walk is further on, and still where its count is.                   *)
LEMMA StillDense ==
  ASSUME Dense, file' = file, status' = "run", NoNullRoot', NEW q \in Nat, Position' = q,
         Precedes(q)', idx' = q
  PROVE  DenseInv'
<1>1. Data' = Data /\ Cardinality(Data) \in Nat /\ Data = 0 .. Cardinality(Data) - 1
  <2>1. Cardinality(Data) \in Nat
    BY Ranks, FS_CardinalityType
  <2> QED BY <2>1, SameFile DEF Dense
<1>2. Precedes(Position)'
  BY PrecedesThen
<1>3. CASE q < Cardinality(Data)
  BY <1>1, <1>2, <1>3 DEF DenseInv
<1>4. CASE ~(q < Cardinality(Data))
  <2>1. \A m \in Data : m < q
    BY <1>1, <1>4
  <2>2. \A m \in Data' : HasBlock(m)'
    BY <1>1, <2>1 DEF Precedes
  <2> QED BY <2>2 DEF DenseInv
<1> QED BY <1>3, <1>4

LEMMA DenseInit == Init => DenseInv
<1> SUFFICES ASSUME Init, Dense PROVE DenseInv
  BY DEF DenseInv
<1>1. Cardinality(Data) \in Nat /\ Data = 0 .. Cardinality(Data) - 1
  BY Ranks, FS_CardinalityType DEF Dense
<1>2. stk = << >> /\ Len(stk) = 0 /\ root = 0 /\ idx = 0 /\ status = "run"
  BY DEF Init
<1>3. Position = 0 /\ Precedes(Position)
  BY StartPrecedes
<1>4. NoNullRoot
  BY <1>2, SizesAssumption DEF NoNullRoot
<1>6. CASE Cardinality(Data) = 0
  <2>1. \A m \in Data : HasBlock(m)
    BY <1>1, <1>6
  <2> QED BY <2>1 DEF DenseInv
<1>7. CASE 0 < Cardinality(Data)
  BY <1>2, <1>3, <1>4, <1>7 DEF DenseInv
<1> QED BY <1>1, <1>6, <1>7

LEMMA DenseStep == IInv /\ Nested /\ OrderInv /\ DenseInv /\ [Next]_vars => DenseInv'
<1> SUFFICES ASSUME IInv, Nested, OrderInv, DenseInv, [Next]_vars, Sound', Dense' PROVE DenseInv'
  BY DEF DenseInv
<1>t. /\ TypeOK /\ NDirect \in Nat /\ root \in 0 .. NDirect + 3 /\ stk \in Seq(Frame)
  BY SizesAssumption DEF IInv, TypeOK
<1>0. file' = file /\ Data' = Data /\ Sound /\ Dense
  BY RootMoves, SameFile
<1>1. CASE \A m \in Data : HasBlock(m)
  <2>1. \A m \in Data' : HasBlock(m)'
    BY <1>0, <1>1, <1>t, BlocksStay
  <2> QED BY <2>1 DEF DenseInv
<1>2. CASE /\ status = "run" /\ NoNullRoot /\ Precedes(Position)
           /\ idx = Position /\ Position < Cardinality(Data)
  <2>1. \A k \in 1 .. Len(stk) : Covers(k)
    BY <1>2 DEF OrderInv
  <2>2. PICK p \in Nat : p = Position
    BY <1>t, <2>1, PositionInFile, Units
  <2>3. idx = p /\ Precedes(p) /\ p \in Data /\ Logical(p) # 0 /\ p < FileEnd /\ ~AtEnd
    <3>1. /\ Cardinality(Data) \in Nat /\ Cardinality(Data) <= file.end /\ file.end \in Nat
          /\ Data = 0 .. Cardinality(Data) - 1
      BY <1>0, <1>t, CountOfSound DEF Dense
    <3>2. p < Cardinality(Data) /\ p # file.end /\ p \in 0 .. Cardinality(Data) - 1
      BY <1>2, <2>2, <3>1
    <3>3. p \in Data
      BY <3>1, <3>2
    <3>4. Logical(p) # 0 /\ p \in 0 .. FileEnd - 1
      BY <3>3 DEF Data
    <3> QED BY <1>2, <2>2, <3>2, <3>3, <3>4, Units DEF AtEnd
  <2>4. ASSUME status' = status, idx' = idx, out' = out, Position' = Position, NoNullRoot' PROVE DenseInv'
    <3>1. Precedes(p)'
      BY <1>0, <2>3, <2>4, OrderStays
    <3> QED BY <1>0, <1>2, <2>2, <2>3, <2>4, <3>1, StillDense
  <2>5. ASSUME status' = status, idx' = idx + 1, Precedes(Position)', Position' = Position + 1, NoNullRoot'
        PROVE  DenseInv'
    <3>1. PICK q \in Nat : q = p + 1
      OBVIOUS
    <3>2. Position' = q /\ idx' = q
      BY <2>2, <2>3, <2>5, <3>1
    <3>3. Precedes(q)'
      BY <2>5, <3>2 DEF Precedes, HasBlock, Rank
    <3> QED BY <1>0, <1>2, <2>5, <3>2, <3>3, StillDense
  <2>6. ASSUME root' = root PROVE NoNullRoot'
    BY <1>0, <1>2, <2>6 DEF NoNullRoot
  <2>7. ASSUME stk # << >>, Top.i < PtrsPerBlk PROVE Readable /\ Checked(Word) # 0 /\ ~Refused(Word)
    <3>1. Covers(Len(stk))
      BY <1>t, <2>1, <2>7, NestedTypes
    <3> QED BY <1>t, <2>2, <2>3, <2>7, <3>1, PointerIsGood
  <2>8. CASE Step
    <3>1. CASE Direct
      <4>1. /\ root' = root + 1 /\ root < NDirect /\ TakeData(file.block[root])
        BY <2>3, <3>1 DEF Direct
      <4>2. Precedes(Position)' /\ Position' = Position + 1 /\ Logical(Position) = Checked(file.block[root])
        BY <1>0, <1>2, <1>t, <2>3, <3>1, DirectInPlace
      <4>3. status' = status /\ idx' = idx + 1
        BY <2>2, <2>3, <4>1, <4>2 DEF TakeData, Refused, Checked
      <4>4. NoNullRoot'
        <5>1. \A r : r \notin NDirect .. root' - 1
          BY <1>t, <4>1
        <5> QED BY <5>1 DEF NoNullRoot
      <4> QED BY <2>5, <4>2, <4>3, <4>4
    <3>2. CASE EnterTree
      <4>1. /\ stk = << >> /\ root \in NDirect .. NDirect + 2 /\ root' = root + 1 /\ UNCHANGED <<idx, out, status>>
            /\ stk' = <<Started(file.block[root], root - NDirect)>>
        BY <3>2 DEF EnterTree
      <4>2. Position' = Position
        BY <1>0, <1>t, <4>1, Enters
      <4>3. file.block[root] # 0
        <5>1. PICK d \in 0 .. 2 : d = root - NDirect
          BY <1>t, <4>1
        <5>2. root = NDirect + d /\ Size(d) \in Nat \ {0} /\ 0 \in 0 .. Size(d) - 1
          <6>1. Size(d) \in Nat \ {0}
            BY Units
          <6> QED BY <1>t, <4>1, <5>1, <6>1
        <5>3. Base(NDirect + d) + 0 = p
          <6>1. p = Base(NDirect + d)
            BY <2>2, <4>1, <5>2 DEF Position
          <6> QED BY <6>1
        <5>4. Logical(p) = AtDepth(d, file.block[root], 0)
          BY <5>2, <5>3, OfTree
        <5>5. 0 \notin Blocks \ {0}
          OBVIOUS
        <5> QED BY <2>3, <5>4, <5>5, NothingBelow
      <4>4. NoNullRoot'
        <5>1. \A r \in NDirect .. root' - 1 : r \in NDirect .. root - 1 \/ r = root
          BY <1>t, <4>1
        <5> QED BY <1>0, <1>2, <4>3, <5>1 DEF NoNullRoot
      <4> QED BY <2>4, <4>1, <4>2, <4>4
    <3>3. ~Finish
      <4>1. Finish => Position = FileEnd
        BY Bases DEF Finish, Position
      <4> QED BY <2>2, <2>3, <4>1, Units
    <3>4. ~ReadPastImage
      BY <2>7 DEF ReadPastImage
    <3>5. CASE Leaf
      <4>1. /\ stk # << >> /\ Top.i < PtrsPerBlk /\ TakeData(Word) /\ root' = root
        BY <2>3, <3>5 DEF Leaf
      <4>2. Precedes(Position)' /\ Position' = Position + 1
        BY <1>0, <1>2, <1>t, <2>3, <3>5, LeafInPlace
      <4>3. status' = status /\ idx' = idx + 1
        BY <2>7, <4>1 DEF TakeData
      <4> QED BY <2>5, <2>6, <4>1, <4>2, <4>3
    <3>6. CASE Inner
      <4>1. /\ stk # << >> /\ Top.i < PtrsPerBlk /\ Top.depth > 0 /\ Readable
        BY <3>6 DEF Inner
      <4>2. /\ stk' = Append(Advanced, Started(Word, Top.depth - 1)) /\ Checked(Word) # 0
            /\ UNCHANGED <<root, idx, out, status>>
        BY <2>3, <2>7, <3>6, <4>1 DEF Inner
      <4>3. Position' = Position
        BY <1>0, <1>t, <2>1, <4>1, <4>2, Pushes
      <4> QED BY <2>4, <2>6, <4>2, <4>3
    <3>7. CASE Return
      <4>1. /\ stk # << >> /\ Top.i = PtrsPerBlk /\ stk' = Below /\ UNCHANGED <<root, idx, out, status>>
        BY <3>7 DEF Return
      <4>2. Position' = Position
        BY <1>0, <1>t, <4>1, Pops
      <4> QED BY <2>4, <2>6, <4>1, <4>2
    <3> QED BY <2>8, <3>1, <3>2, <3>3, <3>4, <3>5, <3>6, <3>7 DEF Step
  <2>9. CASE UNCHANGED vars
    <3>1. Position' = Position
      BY <2>9 DEF vars, Position, Start, Passed, Base, Unit, Top, Last
    <3> QED BY <2>4, <2>6, <2>9, <3>1 DEF vars
  <2> QED BY <2>8, <2>9 DEF Next, Ended
<1> QED BY <1>0, <1>1, <1>2 DEF DenseInv

(* A sound file without holes has been found whole, in order, when the     *)
(* walk over it ends in any way.                                           *)
THEOREM DenseCorrect == Spec => []DenseIsComplete
<1>1. DenseInv => DenseIsComplete
  BY DEF DenseInv, DenseIsComplete
<1>2. IInv => TypeOK
  BY DEF IInv
<1> QED
  BY <1>1, <1>2, InitIsInductive, NextIsInductive, NestedInit, NestedStep, OrderInit, OrderStep,
     DenseInit, DenseStep, PTL DEF Spec
=============================================================================
