------------------------------- MODULE CopyFile -------------------------------
(***************************************************************************)
(* The command cp (pyutil/main.py): it copies the blocks each_block yields *)
(* to a file outside the image, one dd per block, and every SaveEvery      *)
(* blocks writes how far it is to local/copy_<inode>.status, from where    *)
(* the next run goes on.  A run may die between any two steps, in the      *)
(* middle of a dd or between the truncation of the status file and its     *)
(* write; another may be started at any time, alongside too, and two that  *)
(* save at the same time write over each other's number.                   *)
(***************************************************************************)
EXTENDS Integers, Sequences

CONSTANTS
  Procs,       \* the cp commands running at the same time
  Dests,       \* the destinations the user names, for one and the same inode
  BlockSize,   \* sb.block_size
  SaveEvery,   \* 8
  Text,        \* str: a number's digits, for as many numbers as it takes
  Files        \* the inodes, each with what each_block yields for it

(* slots: the file's blocks in order, 0 for a hole; size: inode.size_lo;   *)
(* count: inode.block_count; yields: what each_block hands over.           *)
File == [slots : Seq(Nat), size : Nat, count : Nat, yields : Seq(Nat \ {0})]

ASSUME ConstantsAssumption ==
  /\ BlockSize \in Nat \ {0}
  /\ SaveEvery \in Nat \ {0}
ASSUME FilesAssumption ==
  /\ Files \subseteq File
  /\ \A f \in Files : Len(f.yields) <= f.count     \* EachBlock!Bounded

NoStatus == -1

(* The characters of new at the beginning of a file that holds old.        *)
Overlaid(old, new) ==
  IF Len(old) <= Len(new) THEN new
  ELSE new \o SubSeq(old, Len(new) + 1, Len(old))

(* int(f.read()): zeros may come first; NoStatus if there is no number.    *)
Reads(text, n) == \E z \in 0 .. Len(text) : text = [k \in 1 .. z |-> 0] \o Text[n]
Number(text) ==
  LET numbers == {n \in DOMAIN Text : Reads(text, n)}
  IN  IF numbers = {} THEN NoStatus ELSE CHOOSE n \in numbers : TRUE

(* int(str(i)) = i, and there is a number for whatever two texts mix to.   *)
ASSUME TextAssumption ==
  /\ DOMAIN Text \subseteq Nat
  /\ \A f \in Files : 0 .. Len(f.yields) - 1 \subseteq DOMAIN Text
  /\ \A n \in DOMAIN Text : /\ Text[n] \in Seq(Nat) \ {<<>>}
                            /\ Number(Text[n]) = n
  /\ \A m, n \in DOMAIN Text : Number(Overlaid(Text[m], Text[n])) \in DOMAIN Text

VARIABLES
  file,      \* the inode that is copied
  dest,      \* the content of each destination, block by block
  len,       \* the length of each destination
  status,    \* the digits in the status file; empty if there is none
  pc,        \* where each run is
  to,        \* its argument dest
  from,      \* its starti
  at,        \* its i
  left,      \* its size: what is left to copy
  mixed,     \* history: the status goes back to a mix of two numbers
  misled,    \* history: the runs that went on from such a status
  finished   \* history: the destinations for which a run that was not
             \* misled has returned without an error

local   == <<to, from, at, left>>
history == <<mixed, misled, finished>>
vars    == <<file, dest, len, status, pc, local, history>>

(* A block of a destination: the first n bytes of blk.  Old stands for what *)
(* the destination held before, zeros if it did not exist.                 *)
Cell == [blk : Nat, n : 0 .. BlockSize]
Old  == [blk |-> 0, n |-> 0]

Total      == Len(file.yields)
Least(a, b) == IF a <= b THEN a ELSE b

Init ==
  /\ file \in Files
  /\ dest = [d \in Dests |-> [i \in 0 .. Total - 1 |-> Old]]
  /\ len = [d \in Dests |-> 0]
  /\ status = <<>>
  /\ pc = [p \in Procs |-> "idle"]
  /\ to \in [Procs -> Dests]
  /\ from = [p \in Procs |-> NoStatus]
  /\ at = [p \in Procs |-> 0]
  /\ left = [p \in Procs |-> 0]
  /\ mixed = FALSE /\ misled = {} /\ finished = {}
-----------------------------------------------------------------------------
(* The status file is read before anything else; without a number in it    *)
(* the copy starts from the beginning.                                     *)
Start(p) ==
  /\ pc[p] = "idle"
  /\ \E d \in Dests : to' = [to EXCEPT ![p] = d]
  /\ from' = [from EXCEPT ![p] = Number(status)]
  /\ misled' = IF mixed THEN misled \cup {p} ELSE misled
  /\ pc' = [pc EXCEPT ![p] = "truncate"]
  /\ UNCHANGED <<file, dest, len, status, at, left, mixed, finished>>

(* truncate -s makes the destination as long as the inode's blocks are.    *)
Truncate(p) ==
  /\ pc[p] = "truncate"
  /\ len' = [len EXCEPT ![to[p]] = file.count * BlockSize]
  /\ at' = [at EXCEPT ![p] = 0]
  /\ left' = [left EXCEPT ![p] = file.size]
  /\ pc' = [pc EXCEPT ![p] = "copy"]
  /\ UNCHANGED <<file, dest, status, to, from, history>>

SkipsOneMore(p) == at[p] <= from[p] + 1      \* a slip: the next block as well
Skips(p)        == at[p] <= from[p]
Resumes(p)      == at[p] = from[p]

(* A block that an earlier run has copied.                                 *)
Skip(p) ==
  /\ pc[p] = "copy"
  /\ at[p] < Total
  /\ Skips(p)
  /\ left' = [left EXCEPT ![p] =
                IF Resumes(p) THEN @ - (from[p] + 1) * BlockSize ELSE @]
  /\ at' = [at EXCEPT ![p] = @ + 1]
  /\ UNCHANGED <<file, dest, len, status, pc, to, from, history>>

Want(p)    == Least(left[p], BlockSize)
Copying(p) == pc[p] = "copy" /\ at[p] < Total /\ ~Skips(p)

(* A slip: without conv=notrunc a shorter write cuts the block.            *)
OverTruncated(cell, b, n) == IF n = 0 THEN cell ELSE [blk |-> b, n |-> n]

(* The first n bytes of block b over a block of the destination.           *)
Over(cell, b, n) ==
  IF n = 0 THEN cell
  ELSE IF cell.blk = b /\ cell.n >= n THEN cell
  ELSE [blk |-> b, n |-> n]
Written(p, n) ==
  [dest EXCEPT ![to[p]][at[p]] = Over(@, file.yields[at[p] + 1], n)]

(* dd copies what is wanted of the block; every SaveEvery-th is followed   *)
(* by a save.                                                              *)
Dd(p) ==
  /\ Copying(p)
  /\ Want(p) >= 0
  /\ dest' = Written(p, Want(p))
  /\ left' = [left EXCEPT ![p] = @ - Want(p)]
  /\ IF at[p] % SaveEvery = 0
       THEN pc' = [pc EXCEPT ![p] = "open"] /\ UNCHANGED at
       ELSE at' = [at EXCEPT ![p] = @ + 1] /\ UNCHANGED pc
  /\ UNCHANGED <<file, len, status, to, from, history>>

(* Opening the status file for writing empties it ...                      *)
OpenStatus(p) ==
  /\ pc[p] = "open"
  /\ status' = <<>>
  /\ mixed' = FALSE
  /\ pc' = [pc EXCEPT ![p] = "write"]
  /\ UNCHANGED <<file, dest, len, local, misled, finished>>

Saved(p)     == Text[at[p]]

(* ... and the number gets to its beginning when it is closed.  Where      *)
(* another run has written a longer one in between, the rest of that stays.*)
WriteStatus(p) ==
  /\ pc[p] = "write"
  /\ status' = Overlaid(status, Saved(p))
  /\ mixed' = (Len(status) > Len(Saved(p)) \/ p \in misled)
  /\ at' = [at EXCEPT ![p] = @ + 1]
  /\ pc' = [pc EXCEPT ![p] = "copy"]
  /\ UNCHANGED <<file, dest, len, to, from, left, misled, finished>>

(* The process is gone, and what it knew with it.                          *)
Gone(p) ==
  /\ pc' = [pc EXCEPT ![p] = "idle"]
  /\ from' = [from EXCEPT ![p] = NoStatus]
  /\ at' = [at EXCEPT ![p] = 0]
  /\ left' = [left EXCEPT ![p] = 0]
  /\ misled' = misled \ {p}
  /\ UNCHANGED <<file, len, status, to, mixed>>

EndedLate(p) == at[p] = Total + 1            \* a slip: waits for one more
Ended(p)     == at[p] = Total

Finish(p) ==
  /\ pc[p] = "copy"
  /\ Ended(p)
  /\ finished' = IF p \in misled THEN finished ELSE finished \cup {to[p]}
  /\ Gone(p)
  /\ UNCHANGED dest

(* dd refuses a negative count, and the assertion on its result fails.     *)
DdFails(p) ==
  /\ Copying(p)
  /\ Want(p) < 0
  /\ Gone(p)
  /\ UNCHANGED <<dest, finished>>

(* The process is killed, a command or a read of the image fails: a dd may *)
(* have written a part of its block.                                       *)
Crash(p) ==
  /\ pc[p] # "idle"
  /\ \/ UNCHANGED dest
     \/ Copying(p) /\ \E n \in 1 .. Want(p) : dest' = Written(p, n)
  /\ Gone(p)
  /\ UNCHANGED finished

Step(p) ==
  \/ Truncate(p) \/ Skip(p) \/ Dd(p) \/ OpenStatus(p) \/ WriteStatus(p)
  \/ Finish(p) \/ DdFails(p)

Next == \E p \in Procs : Start(p) \/ Step(p) \/ Crash(p)

Spec == Init /\ [][Next]_vars

(* A run that is not killed goes on.                                       *)
FairSpec == Spec /\ \A p \in Procs : WF_vars(Step(p))
-----------------------------------------------------------------------------
TypeOK ==
  /\ file \in Files
  /\ dest \in [Dests -> [0 .. Total - 1 -> Cell]]
  /\ len \in [Dests -> Nat]
  /\ status \in Seq(Nat)
  /\ pc \in [Procs -> {"idle", "truncate", "copy", "open", "write"}]
  /\ to \in [Procs -> Dests]
  /\ from \in [Procs -> Nat \cup {NoStatus}]
  /\ at \in [Procs -> 0 .. Total]
  /\ left \in [Procs -> Int]
  /\ mixed \in BOOLEAN /\ misled \subseteq Procs /\ finished \subseteq Dests

(* TypeOK is inductive with this: the block just saved is one of them.     *)
Saving(p)   == pc[p] \in {"open", "write"}
SavesABlock == \A p \in Procs : Saving(p) => at[p] < Total

Slots     == 0 .. Len(file.slots) - 1
Slot(i)   == file.slots[i + 1]
Needed(i) == Least(file.size - i * BlockSize, BlockSize)

(* Block i of the file is whole at its place in destination d.             *)
Holds(d, i) ==
  /\ i < Total
  /\ dest[d][i].blk = Slot(i)
  /\ dest[d][i].n >= Needed(i)

Complete(d) ==
  /\ len[d] >= file.size
  /\ \A i \in Slots : Slot(i) # 0 => Holds(d, i)

(* "Copy a file to some external destination": when a run returns without  *)
(* an error the destination has every block of the file, whatever runs     *)
(* were cut short before or are still going on, and keeps them.  A run     *)
(* that went on from a mix of two numbers is the exception: 8 over 16 is   *)
(* 86, and it passes over blocks that nobody copied.                       *)
FinishedIsComplete == \A d \in finished : Complete(d)

(* What the status file says is true of the destinations, unless it goes   *)
(* back to a mix: a run that goes on from there leaves no gap.             *)
StatusIsSound ==
  ~mixed => \A d \in Dests : \A i \in Slots : i <= Number(status) => Holds(d, i)

(* Runs that follow one another are never misled, wherever they are killed.*)
OneByOne    == \A p, q \in Procs : p = q
NeverMisled == misled = {}
SavesAlone  ==
  /\ ~mixed /\ misled = {}
  /\ \A p \in Procs : pc[p] = "write" => status = <<>>

(* A file without holes, whose blocks each_block yields as they are: what  *)
(* EachBlock!DenseIsComplete finds, and no block beyond them.              *)
Sound(f) ==
  /\ f.yields = f.slots
  /\ f.size <= Len(f.slots) * BlockSize
  /\ Len(f.slots) # 0 => f.size > (Len(f.slots) - 1) * BlockSize

(* The assertion on dd's result: no run asks it for a negative count, when *)
(* each_block yields the file's blocks and no other.                       *)
CountIsLegal == Sound(file) => \A p \in Procs : Copying(p) => Want(p) >= 0

(* A run that is left alone comes to its end.                              *)
RunEnds == \A p \in Procs : pc[p] # "idle" ~> pc[p] = "idle"

OneSoundCopy == (\A f \in Files : Sound(f)) /\ (\E d \in Dests : Dests = {d})

(* Inductive under OneSoundCopy.  A run knows where it is: unless misled,  *)
(* everything up to its starti, and everything before its i, is in place,  *)
(* and its size is what the file has from i on.                            *)
InPlace(i) == \A d \in Dests : Holds(d, i)
Working(p) == pc[p] \in {"copy", "open", "write"}
Behind(p)  ==
  /\ \A i \in Slots : i <= from[p] => InPlace(i)
  /\ Working(p) => \A i \in Slots :
       i < at[p] \/ (Saving(p) /\ i = at[p]) => InPlace(i)
Counts(p) ==
  /\ Working(p) => len[to[p]] >= file.size
  /\ pc[p] = "copy" /\ Skips(p) => left[p] = file.size
  /\ Copying(p) => left[p] = file.size - at[p] * BlockSize
  /\ Saving(p) => ~Skips(p)
  /\ Saving(p) /\ at[p] + 1 < Total =>
       left[p] = file.size - (at[p] + 1) * BlockSize

IInv ==
  /\ TypeOK /\ SavesABlock /\ StatusIsSound /\ FinishedIsComplete
  /\ \A p \in Procs : Counts(p) /\ (p \notin misled => Behind(p))

(* With one destination, however many runs are cut short or go on side by  *)
(* side, the command keeps its promise: no block once in place is lost,    *)
(* and a run that was not misled reports what is complete.                 *)
Target      == CHOOSE d \in Dests : TRUE
CopiedTo(d) == {i \in Slots : Holds(d, i)}
Promise == INSTANCE CopyPromise WITH
  blocks <- Slots, copied <- CopiedTo(Target), reported <- Target \in finished
KeepsPromise == Promise!Spec
=============================================================================
