------------------------------ MODULE EachBlock ------------------------------
(***************************************************************************)
(* INode.each_block (e2fs/inode.py): the generator that walks the block    *)
(* map of an inode -- NDirect direct pointers, then a single, a double and *)
(* a triple indirect tree -- and yields the ids of its data blocks.  Every *)
(* command that follows a file or a directory goes through it.             *)
(*                                                                         *)
(* One step of the model is one pointer the generator looks at.  The       *)
(* nested generators _i0, _i1, _i2 are a stack of frames: depth 0 is _i0,  *)
(* whose pointers are data blocks, depth d is _id, whose pointers are      *)
(* blocks of pointers of depth d-1.  The consumer is assumed to ask for    *)
(* every value.                                                            *)
(***************************************************************************)
EXTENDS Naturals, FiniteSets, SequencesExt

CONSTANTS
  NDirect,      \* direct pointers in an inode (12)
  PtrsPerBlk,   \* pointers in an indirect block (block_size // 4)
  BlocksCount,  \* sb.blocks_count_lo; the image holds exactly these blocks
  Files         \* the inodes, each with the image it is read from

Roots   == 0 .. NDirect + 2           \* the slots of inode.block
Blocks  == 0 .. BlocksCount - 1
Slots   == 0 .. PtrsPerBlk - 1

(* inode.block, the words of every block read as pointers, inode.block_count *)
(* and the err_ok argument.                                                *)
File == [block : [Roots -> Nat], disk : [Blocks -> [Slots -> Nat]],
         end : Nat, errOk : BOOLEAN]

ASSUME SizesAssumption ==
  /\ NDirect \in Nat
  /\ PtrsPerBlk \in Nat \ {0}
  /\ BlocksCount \in Nat \ {0}
ASSUME FilesAssumption == Files \subseteq File

VARIABLES
  file,     \* the inode being walked: chosen once, never written
  root,     \* the next slot of inode.block
  stk,      \* the suspended generators, innermost last
  idx,      \* the data pointers counted so far
  out,      \* the ids yielded so far
  status    \* "run", or how the generator ended

vars == <<file, root, stk, idx, out, status>>

Frame == [blk : Nat, i : 0 .. PtrsPerBlk, depth : 0 .. 2]

Init ==
  /\ file \in Files
  /\ root = 0
  /\ stk = << >>
  /\ idx = 0
  /\ out = << >>
  /\ status = "run"
-----------------------------------------------------------------------------
(* _blkid: -1 at the end; an id out of range is an error, or 0 with err_ok. *)
AtEndLate    == idx = file.end + 1   \* a slip: one block too many
AtEndEarly   == idx + 1 >= file.end  \* a slip: one block too few
AtEnd        == idx = file.end
InRangeIncl(w) == w <= BlocksCount   \* a slip: the count is not an id
InRange(w) == w < BlocksCount
Refused(w) == ~InRange(w) /\ ~file.errOk
Checked(w) == IF InRange(w) THEN w ELSE 0

(* A data pointer is counted even when it is 0, and yielded when it is not. *)
TakeData(w) ==
  /\ idx' = idx + 1
  /\ IF Refused(w)
       THEN status' = "invalid" /\ UNCHANGED out
       ELSE /\ out' = IF Checked(w) = 0 THEN out ELSE Append(out, w)
            /\ UNCHANGED status

Stop(how) ==
  /\ status' = how
  /\ UNCHANGED <<root, stk, idx, out>>

(* The generator of depth d on block b, about to look at its first pointer. *)
Started(b, d) == [blk |-> b, i |-> 0, depth |-> d]

Top      == Last(stk)
Stuck    == stk              \* a slip: the generator that is done is kept
Below    == Front(stk)
Advanced      == [stk EXCEPT ![Len(stk)].i = @ + 1]
Word     == file.disk[Top.blk][Top.i]
Readable == Top.blk \in Blocks
-----------------------------------------------------------------------------
(* One of the direct pointers; at the end the whole generator returns.     *)
Direct ==
  /\ stk = << >>
  /\ root < NDirect
  /\ IF AtEnd
       THEN Stop("done")
       ELSE /\ TakeData(file.block[root])
            /\ root' = root + 1
            /\ UNCHANGED stk

(* A slip: the first root again for the other two trees.                   *)
EnterFirstTree ==
  /\ stk = << >>
  /\ root \in NDirect .. NDirect + 2
  /\ stk' = <<Started(file.block[NDirect], root - NDirect)>>
  /\ root' = root + 1
  /\ UNCHANGED <<idx, out, status>>

(* Start _i0, _i1 or _i2 on block[12], [13] or [14]: its id is not checked. *)
EnterTree ==
  /\ stk = << >>
  /\ root \in NDirect .. NDirect + 2
  /\ stk' = <<Started(file.block[root], root - NDirect)>>
  /\ root' = root + 1
  /\ UNCHANGED <<idx, out, status>>

Finish ==
  /\ stk = << >>
  /\ root = NDirect + 3
  /\ Stop("done")

(* The word is read before anything is checked: a tree off the image fails. *)
ReadPastImage ==
  /\ stk # << >>
  /\ Top.i < PtrsPerBlk
  /\ ~Readable
  /\ Stop("eof")

(* A pointer of _i0; the -1 it yields at the end stops the outer loop.     *)
Leaf ==
  /\ stk # << >>
  /\ Top.depth = 0
  /\ Top.i < PtrsPerBlk
  /\ Readable
  /\ IF AtEnd
       THEN Stop("done")
       ELSE TakeData(Word) /\ stk' = Advanced /\ UNCHANGED root

(* A pointer of _i1 or _i2, not counted (inc=0).  At the end only this     *)
(* generator returns: the ones around it go on.                            *)
Inner ==
  /\ stk # << >>
  /\ Top.depth > 0
  /\ Top.i < PtrsPerBlk
  /\ Readable
  /\ \/ /\ AtEnd
        /\ stk' = Below
        /\ UNCHANGED <<root, idx, out, status>>
     \/ /\ ~AtEnd /\ Refused(Word)
        /\ Stop("invalid")
     \/ /\ ~AtEnd /\ ~Refused(Word)
        /\ stk' = IF Checked(Word) = 0
                    THEN Advanced
                    ELSE Append(Advanced, Started(Word, Top.depth - 1))
        /\ UNCHANGED <<root, idx, out, status>>

(* A generator that has looked at all its pointers returns.                *)
Return ==
  /\ stk # << >>
  /\ Top.i = PtrsPerBlk
  /\ stk' = Below
  /\ UNCHANGED <<root, idx, out, status>>

Step ==
  /\ status = "run"
  /\ Direct \/ EnterTree \/ Finish \/ ReadPastImage \/ Leaf \/ Inner \/ Return
  /\ UNCHANGED file

Ended == status # "run" /\ UNCHANGED vars

Next == Step \/ Ended

Spec == Init /\ [][Next]_vars

(* The consumer asks for the next value until the generator ends.          *)
FairSpec == Spec /\ WF_vars(Step)
-----------------------------------------------------------------------------
TypeOK ==
  /\ file \in File
  /\ root \in 0 .. NDirect + 3
  /\ stk \in Seq(Frame)
  /\ idx \in Nat
  /\ out \in Seq(Nat)
  /\ status \in {"run", "done", "invalid", "eof"}

(* Whatever the image holds, with err_ok or without, each_block hands its  *)
(* consumer ids of the file system only, and never block 0: ls, cat and cp *)
(* read and copy what they are given without looking at it again.          *)
YieldsAreData == \A k \in 1 .. Len(out) : out[k] \in Blocks \ {0}

(* No map, however damaged or cyclic, makes each_block yield more blocks   *)
(* than inode.block_count, or nest deeper than the three generators: each  *)
(* starts only ones that are less deep than itself.                        *)
Bounded ==
  /\ Len(out) <= idx
  /\ idx <= file.end
  /\ \A k \in 1 .. Len(stk) : stk[k].depth + k <= 3

IInv == TypeOK /\ YieldsAreData /\ Bounded

(* The reference: what ext2 says the n-th block of a file is.  A pointer   *)
(* that is 0 or off the file system leaves a hole.                         *)
Follow(b, i) == IF b \in Blocks \ {0} THEN Checked(file.disk[b][i]) ELSE 0
Single(b, n) == Follow(b, n)
Double(b, n) == Single(Follow(b, n \div PtrsPerBlk), n % PtrsPerBlk)
Triple(b, n) ==
  Double(Follow(b, n \div (PtrsPerBlk * PtrsPerBlk)), n % (PtrsPerBlk * PtrsPerBlk))

FirstDouble == NDirect + PtrsPerBlk
FirstTriple == FirstDouble + PtrsPerBlk * PtrsPerBlk
FileEnd     == FirstTriple + PtrsPerBlk * PtrsPerBlk * PtrsPerBlk

Logical(n) ==
  CASE n < NDirect     -> Checked(file.block[n])
    [] n \in NDirect .. FirstDouble - 1     -> Single(file.block[NDirect], n - NDirect)
    [] n \in FirstDouble .. FirstTriple - 1 -> Double(file.block[NDirect + 1], n - FirstDouble)
    [] n \in FirstTriple .. FileEnd - 1     -> Triple(file.block[NDirect + 2], n - FirstTriple)

(* The blocks of the file that are there, and how many precede the n-th.   *)
Data    == {n \in 0 .. FileEnd - 1 : Logical(n) # 0}
Rank(n) == Cardinality({m \in Data : m < n})

(* The m-th block was yielded, after those that precede it and no others.  *)
HasBlock(m) == Rank(m) < Len(out) /\ out[Rank(m) + 1] = Logical(m)

(* What precedes the n-th block was yielded, and nothing else.             *)
Precedes(n) == Len(out) = Rank(n) /\ \A m \in Data : m < n => HasBlock(m)

(* As long as no tree with a null root has been entered, the blocks come   *)
(* in file order and none is skipped or repeated, on any image.            *)
NoNullRoot  == \A r \in NDirect .. root - 1 : file.block[r] # 0
InFileOrder == NoNullRoot => \E n \in 0 .. FileEnd : Precedes(n)

(* A file is sound when its pointers are good and inode.block_count counts *)
(* what the file occupies on disk: data blocks and indirect blocks alike.  *)
Indirect ==
  LET Kids(S) == {Follow(b, i) : b \in S, i \in Slots} \ {0}
      one     == {file.block[NDirect]} \ {0}
      two     == {file.block[NDirect + 1]} \ {0}
      three   == {file.block[NDirect + 2]} \ {0}
  IN  one \cup two \cup Kids(two) \cup three \cup Kids(three) \cup Kids(Kids(three))
Sound == file.end = Cardinality(Data) + Cardinality(Indirect)
Dense == Data = 0 .. Cardinality(Data) - 1

(* A sound file without holes is found whole, in order, before the walk    *)
(* ends in any way: counting indirect blocks in the bound loses nothing.   *)
DenseIsComplete == status # "run" /\ Sound /\ Dense => \A m \in Data : HasBlock(m)

(* The field's description says block_count is what the file occupies on   *)
(* disk.  Read so, a sound file is found whole, holes or not.              *)
SparseIsComplete == Sound /\ status = "done" => \A m \in Data : HasBlock(m)

(* Inductive.  A pointer of a generator of depth d stands for Unit(d)      *)
(* blocks of the file; the slots of inode.block and the generators that    *)
(* are suspended say where in the file the walk is.                        *)
Unit(d) == IF d = 0 THEN 1 ELSE IF d = 1 THEN PtrsPerBlk ELSE PtrsPerBlk * PtrsPerBlk
Size(d) == PtrsPerBlk * Unit(d)
AtDepth(d, b, n) ==
  IF d = 0 THEN Single(b, n) ELSE IF d = 1 THEN Double(b, n) ELSE Triple(b, n)

Base(r) ==
  IF r <= NDirect THEN r
  ELSE IF r = NDirect + 1 THEN FirstDouble
  ELSE IF r = NDirect + 2 THEN FirstTriple ELSE FileEnd
Passed(k) == (stk[k].i - 1) * Unit(stk[k].depth)
Start(k)  == Base(root - 1) + (IF k > 1 THEN Passed(1) ELSE 0) + (IF k > 2 THEN Passed(2) ELSE 0)
Position  ==
  IF stk = << >> THEN Base(root) ELSE Start(Len(stk)) + Top.i * Unit(Top.depth)

Nested ==
  /\ stk # << >> => root > NDirect
  /\ \A k \in 1 .. Len(stk) : stk[k].depth + k = root - NDirect
  /\ \A k \in 1 .. Len(stk) - 1 : stk[k].i > 0

(* What a generator is to yield is the part of the file that begins where  *)
(* it was started.                                                         *)
Covers(k) ==
  /\ stk[k].blk # 0
  /\ Start(k) + Size(stk[k].depth) <= FileEnd
  /\ \A n \in 0 .. Size(stk[k].depth) - 1 :
       Logical(Start(k) + n) = AtDepth(stk[k].depth, stk[k].blk, n)

(* Once the count is reached nothing is yielded, wherever the walk goes.   *)
OrderInv ==
  NoNullRoot => /\ \A k \in 1 .. Len(stk) : Covers(k)
                /\ (Precedes(Position) \/ (AtEnd /\ InFileOrder))

(* In a file without holes the count is the place in the file.             *)
DenseInv ==
  Sound /\ Dense =>
    \/ \A m \in Data : HasBlock(m)
    \/ /\ status = "run" /\ NoNullRoot /\ Precedes(Position)
       /\ idx = Position /\ Position < Cardinality(Data)

(* Every walk ends, cyclic indirect blocks included.                       *)
Terminates == <>(status # "run")
=============================================================================
