---------------------------- MODULE MCEachBlock ----------------------------
(***************************************************************************)
(* Instances of EachBlock for TLC: two direct pointers and two pointers    *)
(* per block, so that a file has 2 + 2 + 4 + 8 = 16 blocks at most and     *)
(* every level of the tree is reached.                                     *)
(***************************************************************************)
EXTENDS EachBlock

(* Well laid out files.  Block 0 is the boot block, 1 the single indirect  *)
(* block, 2 the double one with 3 and 4, 5 the triple one with 6 and 7 and *)
(* their 8 .. 11; data block n is 12 + n.                                  *)
Positions == 0 .. 15
Covered == <<{2, 3}, 4 .. 7, {4, 5}, {6, 7}, 8 .. 15, 8 .. 11, 12 .. 15,
             {8, 9}, {10, 11}, {12, 13}, {14, 15}>>
Children == <<<<14, 15>>, <<3, 4>>, <<16, 17>>, <<18, 19>>, <<6, 7>>, <<8, 9>>,
              <<10, 11>>, <<20, 21>>, <<22, 23>>, <<24, 25>>, <<26, 27>>>>

(* The id stored for block b in a file whose data is at positions D.       *)
Stored(b, D) ==
  CASE b <= 11 -> IF Covered[b] \cap D = {} THEN 0 ELSE b
    [] b > 11  -> IF b - 12 \in D THEN b ELSE 0

(* boot holds what the words of block 0 read as, and data what those of    *)
(* the data blocks do: text is an id off the file system, 14 a small int.  *)
Laid(D, boot, data, ok) ==
  [block |-> [r \in 0 .. 4 |-> Stored(<<12, 13, 1, 2, 5>>[r + 1], D)],
   disk  |-> [b \in 0 .. 27 |-> [i \in 0 .. 1 |->
                IF b = 0 THEN boot[i + 1]
                ELSE IF b > 11 THEN data
                ELSE Stored(Children[b][i + 1], D)]],
   end   |-> Cardinality(D) + Cardinality({b \in 1 .. 11 : Stored(b, D) # 0}),
   errOk |-> ok]

(* The superblock is in block 0: its second word is blocks_count_lo.       *)
BootBlocks == {<<0, 0>>, <<13, 28>>}

DenseFiles ==
  {Laid(0 .. n - 1, boot, data, ok) :
     n \in 0 .. 16, boot \in BootBlocks, data \in {14, 28}, ok \in BOOLEAN}
SparseFiles == {Laid(D, <<0, 0>>, 28, TRUE) : D \in SUBSET (0 .. 5)}

(* Arbitrary maps in the first blocks of the image: null, cyclic, shared   *)
(* and out-of-range pointers, a wrong block_count.                         *)
Damaged(roots, ptrs, ends, oks) ==
  {[block |-> <<12, IF ok THEN 28 ELSE 0>> \o r, end |-> e, errOk |-> ok,
    disk |-> [k \in 0 .. 27 |-> IF k = 0 THEN [i \in 0 .. 1 |-> i]
                                ELSE IF k < 3 THEN w[k] ELSE [i \in 0 .. 1 |-> 28]]] :
     r \in [1 .. 3 -> roots],
     w \in [1 .. 2 -> [0 .. 1 -> ptrs]], e \in ends, ok \in oks}
FromZero(f) == [f EXCEPT !.block = [r \in 0 .. 4 |-> f.block[r + 1]]]
DamagedFiles == {FromZero(f) : f \in Damaged({0, 1, 2, 28}, {0, 2, 3}, {4, 15}, BOOLEAN)}
(* Those among which the walk goes round a cycle for longest.              *)
CyclicFiles  == {FromZero(f) : f \in Damaged({0, 2}, {1, 2, 3}, {15}, {TRUE})}

AllFiles == DenseFiles \cup DamagedFiles \cup CyclicFiles
=============================================================================
