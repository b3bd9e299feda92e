---------------------------- MODULE CopyFileProofs ----------------------------
(***************************************************************************)
(* What holds of every sequence of interrupted and concurrent runs of cp,  *)
(* for all block sizes, save intervals, numbers of runs and files: the     *)
(* types always, the rest for one destination and a sound file.            *)
(***************************************************************************)
EXTENDS CopyFile, TLAPS

(* Positions and the bytes before them.                                    *)
LEMMA Offsets ==
  ASSUME NEW a \in Nat, NEW b \in Nat
  PROVE  /\ a * BlockSize \in Nat
         /\ (a + 1) * BlockSize = a * BlockSize + BlockSize
         /\ a <= b => a * BlockSize <= b * BlockSize
<1>1. BlockSize \in Nat
  BY ConstantsAssumption
<1>2. a * BlockSize \in Nat /\ b * BlockSize \in Nat
  BY <1>1
<1>3. (a + 1) * BlockSize = a * BlockSize + BlockSize
  BY <1>1
<1>4. ASSUME a <= b PROVE a * BlockSize <= b * BlockSize
  <2>1. PICK c \in Nat : b = a + c
    BY <1>4
  <2>2. (a + c) * BlockSize = a * BlockSize + c * BlockSize
    BY <1>1
  <2>3. c * BlockSize \in Nat
    BY <1>1
  <2> QED
    BY <1>2, <2>1, <2>2, <2>3
<1> QED
  BY <1>2, <1>3, <1>4

(* The file that is copied.                                                *)
LEMMA FileOps ==
  ASSUME file \in Files
  PROVE  /\ Total \in Nat
         /\ file.size \in Nat /\ file.count \in Nat
         /\ Total <= file.count
         /\ \A i \in 0 .. Total - 1 : file.yields[i + 1] \in Nat \ {0}
         /\ file.count * BlockSize \in Nat
<1>1. file \in File /\ Total <= file.count
  BY FilesAssumption DEF Total
<1>2. /\ file.yields \in Seq(Nat \ {0}) /\ Total \in Nat
      /\ file.size \in Nat /\ file.count \in Nat
  BY <1>1 DEF File, Total
<1>3. \A i \in 0 .. Total - 1 : file.yields[i + 1] \in Nat \ {0}
  BY <1>2 DEF Total
<1> QED
  BY <1>1, <1>2, <1>3, Offsets

(* The digits of a position, and what a text reads as.                     *)
LEMMA TextOps ==
  ASSUME file \in Files
  PROVE  /\ \A i \in 0 .. Total - 1 : /\ Text[i] \in Seq(Nat)
                                     /\ Number(Text[i]) = i
         /\ \A text : Number(text) \in Nat \cup {NoStatus}
         /\ Number(<<>>) = NoStatus
         /\ \A old, new \in Seq(Nat) : Overlaid(old, new) \in Seq(Nat)
<1>1. \A i \in 0 .. Total - 1 : Text[i] \in Seq(Nat) /\ Number(Text[i]) = i
  BY TextAssumption DEF Total
<1>2. ASSUME NEW text PROVE Number(text) \in Nat \cup {NoStatus}
  <2> DEFINE numbers == {n \in DOMAIN Text : Reads(text, n)}
  <2>1. numbers = {} \/ (CHOOSE n \in numbers : TRUE) \in numbers
    OBVIOUS
  <2>2. numbers \subseteq Nat
    BY TextAssumption
  <2> HIDE DEF numbers
  <2>3. Number(text) = NoStatus \/ Number(text) \in numbers
    BY <2>1 DEF Number, numbers
  <2> QED
    BY <2>2, <2>3
<1>3. Number(<<>>) = NoStatus
  <2>1. ASSUME NEW n \in DOMAIN Text PROVE ~Reads(<<>>, n)
    <3>1. Text[n] \in Seq(Nat) /\ Text[n] # <<>>
      BY TextAssumption
    <3>2. Len(Text[n]) # 0
      BY <3>1
    <3>3. ASSUME NEW z \in 0 .. Len(<<>>), <<>> = [k \in 1 .. z |-> 0] \o Text[n]
          PROVE  FALSE
      <4>1. [k \in 1 .. z |-> 0] \in Seq(Nat)
        BY <3>3
      <4>2. Len([k \in 1 .. z |-> 0] \o Text[n]) = Len([k \in 1 .. z |-> 0]) + Len(Text[n])
        BY <3>1, <4>1
      <4>3. Len([k \in 1 .. z |-> 0]) \in Nat /\ Len(Text[n]) \in Nat
        BY <3>1, <4>1
      <4>4. Len(<<>>) = 0
        OBVIOUS
      <4> QED
        BY <3>2, <3>3, <4>2, <4>3, <4>4
    <3> QED
      BY <3>3 DEF Reads
  <2> QED
    BY <2>1 DEF Number
<1>4. ASSUME NEW old \in Seq(Nat), NEW new \in Seq(Nat)
      PROVE  Overlaid(old, new) \in Seq(Nat)
  <2>1. CASE Len(old) <= Len(new)
    BY <2>1 DEF Overlaid
  <2>2. CASE ~(Len(old) <= Len(new))
    <3>1. SubSeq(old, Len(new) + 1, Len(old)) \in Seq(Nat)
      BY <2>2
    <3> QED
      BY <2>2, <3>1 DEF Overlaid
  <2> QED
    BY <2>1, <2>2
<1> QED
  BY <1>1, <1>2, <1>3, <1>4

(* Writing over a cell gives a cell.                                       *)
LEMMA OverOps ==
  ASSUME NEW cell \in Cell, NEW b \in Nat, NEW n \in 0 .. BlockSize
  PROVE  Over(cell, b, n) \in Cell
  BY DEF Over, Cell

(* What a dd does to the destinations: at most one block of one of them.   *)
LEMMA WrittenOps ==
  ASSUME TypeOK, NEW p \in Procs, Copying(p), NEW n \in 0 .. BlockSize
  PROVE  /\ Written(p, n) \in [Dests -> [0 .. Total - 1 -> Cell]]
         /\ \A d \in Dests, i \in 0 .. Total - 1 :
              Written(p, n)[d][i] =
                IF d = to[p] /\ i = at[p]
                  THEN Over(dest[d][i], file.yields[i + 1], n)
                  ELSE dest[d][i]
<1>1. /\ at[p] \in 0 .. Total - 1 /\ to[p] \in Dests
      /\ dest \in [Dests -> [0 .. Total - 1 -> Cell]]
  BY FileOps DEF TypeOK, Copying
<1> DEFINE new == Over(dest[to[p]][at[p]], file.yields[at[p] + 1], n)
<1>2. new \in Cell
  <2>1. dest[to[p]][at[p]] \in Cell
    BY <1>1
  <2>2. file.yields[at[p] + 1] \in Nat
    BY <1>1, FileOps DEF TypeOK
  <2> QED
    BY <2>1, <2>2, OverOps
<1>3. Written(p, n) = [dest EXCEPT ![to[p]][at[p]] = new]
  BY <1>1 DEF Written
<1> HIDE DEF new
<1>4. Written(p, n) \in [Dests -> [0 .. Total - 1 -> Cell]]
  BY <1>1, <1>2, <1>3
<1>5. ASSUME NEW d \in Dests, NEW i \in 0 .. Total - 1
      PROVE  Written(p, n)[d][i] = IF d = to[p] /\ i = at[p] THEN new ELSE dest[d][i]
  <2>1. dest[d] \in [0 .. Total - 1 -> Cell]
    BY <1>1
  <2>2. Written(p, n)[d] = IF d = to[p] THEN [dest[d] EXCEPT ![at[p]] = new] ELSE dest[d]
    BY <1>1, <1>3
  <2> QED
    BY <2>1, <2>2, <1>1
<1> QED
  BY <1>4, <1>5 DEF new
-----------------------------------------------------------------------------
(* Type correctness, for any files and any number of destinations.         *)
LEMMA InitType == Init => TypeOK /\ SavesABlock
<1> SUFFICES ASSUME Init PROVE TypeOK /\ SavesABlock
  OBVIOUS
<1>1. Old \in Cell
  BY ConstantsAssumption DEF Old, Cell
<1>2. status \in Seq(Nat) /\ mixed \in BOOLEAN
  <2>1. <<>> \in Seq(Nat)
    OBVIOUS
  <2> QED
    BY <2>1 DEF Init
<1> QED
  BY <1>1, <1>2, FileOps DEF Init, TypeOK, SavesABlock, Saving, NoStatus

LEMMA NextType == TypeOK /\ SavesABlock /\ [Next]_vars => (TypeOK /\ SavesABlock)'
<1> SUFFICES ASSUME TypeOK, SavesABlock, [Next]_vars
             PROVE  TypeOK' /\ SavesABlock'
  OBVIOUS
<1> USE DEF TypeOK, SavesABlock, Saving
<1>t. Total \in Nat /\ file.size \in Nat /\ file.count * BlockSize \in Nat
      /\ BlockSize \in Nat
  BY FileOps, ConstantsAssumption
<1>gone. ASSUME NEW p \in Procs, Gone(p),
                dest' \in [Dests -> [0 .. Total - 1 -> Cell]],
                finished' \subseteq Dests
         PROVE  TypeOK' /\ SavesABlock'
  BY <1>t, <1>gone DEF Gone, NoStatus, Total
<1>1. CASE UNCHANGED vars
  BY <1>1 DEF vars, local, history, Total
<1>2. ASSUME NEW p \in Procs, Start(p) PROVE TypeOK' /\ SavesABlock'
  <2>1. from' \in [Procs -> Nat \cup {NoStatus}]
    BY <1>2, TextOps DEF Start
  <2> QED
    BY <1>2, <2>1 DEF Start, Total
<1>3. ASSUME NEW p \in Procs, Truncate(p) PROVE TypeOK' /\ SavesABlock'
  BY <1>t, <1>3 DEF Truncate, history, Total
<1>4. ASSUME NEW p \in Procs, Skip(p) PROVE TypeOK' /\ SavesABlock'
  <2>1. at[p] + 1 \in 0 .. Total
    BY <1>t, <1>4 DEF Skip
  <2>2. from[p] + 1 \in Nat
    <3>1. from[p] \in Nat \/ from[p] = NoStatus
      OBVIOUS
    <3>2. NoStatus + 1 = 0
      BY DEF NoStatus
    <3> QED
      BY <3>1, <3>2
  <2>3. left[p] - (from[p] + 1) * BlockSize \in Int
    <3>1. (from[p] + 1) * BlockSize \in Nat
      BY <2>2, Offsets
    <3>2. left[p] \in Int
      OBVIOUS
    <3> HIDE DEF TypeOK, SavesABlock
    <3> QED
      BY <3>1, <3>2
  <2>4. left' \in [Procs -> Int]
    BY <1>4, <2>3 DEF Skip
  <2> QED
    BY <1>t, <1>4, <2>1, <2>4 DEF Skip, history, Total
<1>5. ASSUME NEW p \in Procs, Dd(p) PROVE TypeOK' /\ SavesABlock'
  <2>1. /\ Copying(p) /\ Want(p) \in 0 .. BlockSize /\ at[p] + 1 \in 0 .. Total
        /\ at[p] < Total /\ pc[p] = "copy"
    BY <1>t, <1>5 DEF Dd, Copying, Want, Least
  <2>2. dest' \in [Dests -> [0 .. Total - 1 -> Cell]]
    BY <1>5, <2>1, WrittenOps DEF Dd
  <2>3. left' \in [Procs -> Int]
    BY <1>5, <2>1 DEF Dd
  <2>4. /\ UNCHANGED <<file, len, status, to, from, mixed, misled, finished>>
        /\ Total' = Total
    BY <1>5 DEF Dd, history, Total
  <2>5. CASE pc' = [pc EXCEPT ![p] = "open"] /\ UNCHANGED at
    BY <2>1, <2>2, <2>3, <2>4, <2>5
  <2>6. CASE at' = [at EXCEPT ![p] = @ + 1] /\ UNCHANGED pc
    BY <2>1, <2>2, <2>3, <2>4, <2>6
  <2> QED
    BY <1>5, <2>5, <2>6 DEF Dd
<1>6. ASSUME NEW p \in Procs, OpenStatus(p) PROVE TypeOK' /\ SavesABlock'
  <2>1. status' \in Seq(Nat) /\ mixed' \in BOOLEAN
    <3>1. <<>> \in Seq(Nat)
      OBVIOUS
    <3> HIDE DEF TypeOK, SavesABlock
    <3> QED
      BY <1>6, <3>1 DEF OpenStatus
  <2> QED
    BY <1>6, <2>1 DEF OpenStatus, Total, local
<1>7. ASSUME NEW p \in Procs, WriteStatus(p) PROVE TypeOK' /\ SavesABlock'
  <2>1. at[p] \in Nat /\ at[p] + 1 \in 0 .. Total
    BY <1>t, <1>7 DEF WriteStatus
  <2>2. status' \in Seq(Nat)
    <3>1. at[p] \in 0 .. Total - 1
      BY <1>t, <1>7, <2>1 DEF WriteStatus
    <3> QED
      BY <1>7, <3>1, TextOps DEF WriteStatus, Saved
  <2>3. mixed' \in BOOLEAN
    BY <1>7 DEF WriteStatus
  <2> QED
    BY <1>7, <2>1, <2>2, <2>3 DEF WriteStatus, Total
<1>8. ASSUME NEW p \in Procs, Finish(p) PROVE TypeOK' /\ SavesABlock'
  BY <1>8, <1>gone DEF Finish
<1>9. ASSUME NEW p \in Procs, DdFails(p) PROVE TypeOK' /\ SavesABlock'
  BY <1>9, <1>gone DEF DdFails
<1>10. ASSUME NEW p \in Procs, Crash(p) PROVE TypeOK' /\ SavesABlock'
  <2>1. dest' \in [Dests -> [0 .. Total - 1 -> Cell]]
    <3>1. ASSUME Copying(p), NEW n \in 1 .. Want(p), dest' = Written(p, n)
          PROVE  dest' \in [Dests -> [0 .. Total - 1 -> Cell]]
      <4>1. n \in 0 .. BlockSize
        BY <1>t, <3>1 DEF Want, Least
      <4> QED
        BY <3>1, <4>1, WrittenOps
    <3> QED
      BY <1>10, <3>1 DEF Crash
  <2> QED
    BY <1>10, <2>1, <1>gone DEF Crash
<1> QED
  BY <1>1, <1>2, <1>3, <1>4, <1>5, <1>6, <1>7, <1>8, <1>9, <1>10 DEF Next, Step

(* No run of cp ever writes past a block, counts past the blocks that      *)
(* each_block yields or saves what is not a position.                      *)
THEOREM TypeCorrect == Spec => []TypeOK
<1>1. Spec => [](TypeOK /\ SavesABlock)
  BY InitType, NextType, PTL DEF Spec
<1> QED
  BY <1>1, PTL
-----------------------------------------------------------------------------
(* One destination and a sound file.                                       *)
LEMMA SoundOps ==
  ASSUME OneSoundCopy, file \in Files
  PROVE  /\ Slots = 0 .. Total - 1
         /\ \A i \in Slots : /\ Slot(i) = file.yields[i + 1]
                             /\ Slot(i) \in Nat \ {0}
                             /\ file.size - i * BlockSize \in Nat \ {0}
                             /\ Needed(i) \in 1 .. BlockSize
         /\ file.size <= file.count * BlockSize
<1>1. file.yields = file.slots /\ Sound(file)
  BY DEF OneSoundCopy, Sound
<1>2. Slots = 0 .. Total - 1
  BY <1>1 DEF Slots, Total
<1>3. /\ Total \in Nat /\ file.size \in Nat /\ file.count \in Nat
      /\ Total <= file.count /\ BlockSize \in Nat \ {0}
  BY FileOps, ConstantsAssumption
<1>4. file.size <= file.count * BlockSize
  <2>1. file.size <= Total * BlockSize
    BY <1>1 DEF Sound, Total
  <2>2. /\ Total * BlockSize \in Nat /\ file.count * BlockSize \in Nat
        /\ Total * BlockSize <= file.count * BlockSize
    BY <1>3, Offsets
  <2> QED
    BY <1>3, <2>1, <2>2
<1>5. ASSUME NEW i \in Slots
      PROVE  /\ Slot(i) = file.yields[i + 1]
             /\ Slot(i) \in Nat \ {0}
             /\ file.size - i * BlockSize \in Nat \ {0}
             /\ Needed(i) \in 1 .. BlockSize
  <2>1. i \in Nat /\ i <= Total - 1 /\ Total - 1 \in Nat /\ Total # 0
    BY <1>2, <1>3
  <2>2. Slot(i) = file.yields[i + 1] /\ Slot(i) \in Nat \ {0}
    BY <1>1, <1>2, FileOps DEF Slot
  <2>3. (Total - 1) * BlockSize < file.size
    BY <1>1, <2>1 DEF Sound, Total
  <2>4. /\ i * BlockSize \in Nat /\ (Total - 1) * BlockSize \in Nat
        /\ i * BlockSize <= (Total - 1) * BlockSize
    BY <2>1, Offsets
  <2>5. file.size - i * BlockSize \in Nat \ {0}
    BY <1>3, <2>3, <2>4
  <2> QED
    BY <1>3, <2>2, <2>5 DEF Needed, Least
<1> QED
  BY <1>2, <1>4, <1>5

(* A dd, whole or cut short, takes no block away that was in place ...     *)
LEMMA WrittenKeeps ==
  ASSUME OneSoundCopy, TypeOK, NEW p \in Procs, Copying(p),
         NEW n \in 0 .. BlockSize, dest' = Written(p, n), file' = file,
         NEW d \in Dests, NEW i \in Slots, Holds(d, i)
  PROVE  Holds(d, i)'
<1>1. /\ i \in 0 .. Total - 1 /\ Slot(i) = file.yields[i + 1]
      /\ Needed(i) \in 1 .. BlockSize /\ dest[d][i] \in Cell
      /\ dest[d][i].blk = Slot(i) /\ dest[d][i].n >= Needed(i)
  BY SoundOps DEF TypeOK, Holds
<1>2. dest'[d][i] = dest[d][i] \/ dest'[d][i] = Over(dest[d][i], Slot(i), n)
  BY <1>1, WrittenOps
<1>3. dest'[d][i].blk = Slot(i) /\ dest'[d][i].n >= Needed(i)
  BY <1>1, <1>2 DEF Over, Cell
<1> QED
  BY <1>1, <1>3 DEF Holds, Slot, Needed, Total, Least

(* ... and a whole one puts its block in place.                            *)
LEMMA WrittenHolds ==
  ASSUME OneSoundCopy, TypeOK, NEW p \in Procs, Copying(p),
         left[p] = file.size - at[p] * BlockSize,
         dest' = Written(p, Want(p)), file' = file,
         NEW d \in Dests, NEW i \in Slots, i = at[p]
  PROVE  Holds(d, i)'
<1>1. /\ i \in 0 .. Total - 1 /\ Slot(i) = file.yields[i + 1]
      /\ Needed(i) \in 1 .. BlockSize /\ dest[d][i] \in Cell
  <2>1. file \in Files /\ dest \in [Dests -> [0 .. Total - 1 -> Cell]]
    BY DEF TypeOK
  <2>2. /\ i \in 0 .. Total - 1 /\ Slot(i) = file.yields[i + 1]
        /\ Needed(i) \in 1 .. BlockSize
    BY <2>1, SoundOps
  <2> QED
    BY <2>1, <2>2
<1>d. d = to[p]
  <2>1. to[p] \in Dests
    BY DEF TypeOK
  <2> QED
    BY <2>1 DEF OneSoundCopy
<1>2. Want(p) = Needed(i)
  BY DEF Want, Needed
<1>3. dest'[d][i] = Over(dest[d][i], Slot(i), Needed(i))
  <2>1. Want(p) \in 0 .. BlockSize
    BY <1>1, <1>2
  <2> QED
    BY <1>1, <1>d, <1>2, <2>1, WrittenOps
<1>4. dest'[d][i].blk = Slot(i) /\ dest'[d][i].n >= Needed(i)
  BY <1>1, <1>3 DEF Over, Cell
<1> QED
  BY <1>1, <1>4 DEF Holds, Slot, Needed, Total, Least

(* No step of any run takes a block away or makes a destination too short. *)
LEMMA NothingIsLost ==
  ASSUME OneSoundCopy, TypeOK, [Next]_vars
  PROVE  /\ file' = file
         /\ \A d \in Dests, i \in Slots : Holds(d, i) => Holds(d, i)'
         /\ \A d \in Dests : len[d] >= file.size => len'[d] >= file.size
<1>1. file' = file
  BY DEF Next, Step, Start, Truncate, Skip, Dd, OpenStatus, WriteStatus,
         Finish, DdFails, Crash, Gone, vars
<1>2. \/ UNCHANGED dest
      \/ \E p \in Procs : Copying(p) /\ \E n \in 0 .. BlockSize : dest' = Written(p, n)
  <2>1. ASSUME NEW p \in Procs, Dd(p)
        PROVE  \E n \in 0 .. BlockSize : dest' = Written(p, n)
    BY <2>1, ConstantsAssumption DEF Dd, Want, Least, TypeOK
  <2>2. ASSUME NEW p \in Procs, NEW n \in 1 .. Want(p)
        PROVE  n \in 0 .. BlockSize
    BY <2>2, ConstantsAssumption DEF Want, Least, TypeOK
  <2> QED
    BY <2>1, <2>2 DEF Next, Step, Start, Truncate, Skip, Dd, OpenStatus,
         WriteStatus, Finish, DdFails, Crash, vars
<1>3. ASSUME NEW d \in Dests, NEW i \in Slots, Holds(d, i)
      PROVE  Holds(d, i)'
  <2>1. CASE UNCHANGED dest
    BY <1>1, <1>3, <2>1 DEF Holds, Slot, Needed, Total, Least
  <2> QED
    BY <1>1, <1>2, <1>3, <2>1, WrittenKeeps
<1>4. ASSUME NEW d \in Dests, len[d] >= file.size
      PROVE  len'[d] >= file.size
  <2>1. UNCHANGED len \/ \E p \in Procs : Truncate(p)
    BY DEF Next, Step, Start, Skip, Dd, OpenStatus, WriteStatus, Finish,
           DdFails, Crash, Gone, vars, local
  <2>2. ASSUME NEW p \in Procs, Truncate(p)
        PROVE  len'[d] = file.count * BlockSize \/ len'[d] = len[d]
    BY <2>2 DEF Truncate, TypeOK
  <2>3. file.count * BlockSize >= file.size
    BY SoundOps, FileOps DEF TypeOK
  <2> QED
    BY <1>4, <2>1, <2>2, <2>3
<1> QED
  BY <1>1, <1>3, <1>4

LEMMA InitIsInductive == ASSUME OneSoundCopy, Init PROVE IInv
<1>1. TypeOK /\ SavesABlock
  BY InitType
<1>2. /\ Number(status) = NoStatus
      /\ \A p \in Procs : from[p] = NoStatus /\ pc[p] = "idle"
  BY TextOps DEF Init
<1>3. \A i \in Slots : ~(i <= NoStatus)
  BY <1>1, SoundOps, FileOps DEF TypeOK, NoStatus
<1>4. StatusIsSound /\ FinishedIsComplete
  BY <1>2, <1>3 DEF StatusIsSound, FinishedIsComplete, Init
<1>5. \A p \in Procs : Counts(p) /\ Behind(p)
  BY <1>2, <1>3 DEF Counts, Behind, Working, Saving, Copying
<1> QED
  BY <1>1, <1>4, <1>5 DEF IInv

(* IInv /\ [Next]_vars => IInv'.  A step changes what one run knows; what   *)
(* the others know stays true because nothing is lost.                      *)
LEMMA NextIsInductive == ASSUME OneSoundCopy, IInv, [Next]_vars PROVE IInv'
<1> USE DEF IInv
<1>type. TypeOK' /\ SavesABlock'
  BY NextType
<1>t. /\ Total \in Nat /\ file.size \in Nat /\ BlockSize \in Nat \ {0}
      /\ Slots = 0 .. Total - 1
      /\ file' = file /\ Slots' = Slots /\ Total' = Total
  BY FileOps, SoundOps, NothingIsLost, ConstantsAssumption DEF TypeOK, Slots, Total
<1>keep. \A i \in Slots : InPlace(i) => InPlace(i)'
  BY NothingIsLost DEF InPlace
<1>len. \A d \in Dests : len[d] >= file.size => len'[d] >= file.size
  BY NothingIsLost
<1>int. /\ Number(status) \in Int
        /\ \A q \in Procs : from[q] \in Int /\ at[q] \in Nat /\ at[q] <= Total
  BY <1>t, TextOps DEF TypeOK, NoStatus
<1> DEFINE Knows(q) == Counts(q) /\ (q \notin misled => Behind(q))
<1>same. ASSUME NEW q \in Procs, q \in misled => q \in misled',
                UNCHANGED <<pc[q], to[q], from[q], at[q], left[q]>>
         PROVE  Knows(q)'
  <2>1. Counts(q)'
    BY <1>t, <1>len, <1>same DEF TypeOK, Counts, Working, Saving, Copying, Skips
  <2>2. Behind(q) => Behind(q)'
    BY <1>t, <1>keep, <1>same DEF Behind, Working, Saving
  <2> QED
    BY <1>same, <2>1, <2>2
<1>idle. ASSUME NEW q \in Procs, pc'[q] \in {"idle", "truncate"},
                \/ from'[q] = NoStatus
                \/ from'[q] = Number(status) /\ (mixed => q \in misled')
         PROVE  Knows(q)'
  <2>1. Counts(q)'
    BY <1>idle DEF Counts, Working, Saving, Copying
  <2>2. q \notin misled' => \A i \in Slots : i <= from'[q] => InPlace(i)'
    BY <1>t, <1>keep, <1>idle DEF StatusIsSound, InPlace, NoStatus
  <2> QED
    BY <1>t, <1>idle, <2>1, <2>2 DEF Behind, Working, Saving
<1>stat. ASSUME (status' = status /\ mixed' = mixed) \/ status' = <<>>
         PROVE  StatusIsSound'
  <2>1. Number(<<>>) = NoStatus
    BY TextOps DEF TypeOK
  <2>2. ~mixed' => \A i \in Slots : i <= Number(status') => InPlace(i)
    BY <1>t, <1>stat, <2>1 DEF StatusIsSound, InPlace, NoStatus
  <2> QED
    BY <1>t, <1>keep, <2>2 DEF StatusIsSound, InPlace
<1>fin. ASSUME finished' = finished PROVE FinishedIsComplete'
  <2>1. ASSUME NEW d \in finished PROVE Complete(d)'
    <3>1. d \in Dests /\ Complete(d)
      BY <2>1 DEF TypeOK, FinishedIsComplete
    <3>2. \A i \in Slots : Holds(d, i)
      BY <1>t, <3>1, SoundOps DEF Complete, TypeOK
    <3>3. \A i \in Slots : Holds(d, i)'
      BY <3>1, <3>2, NothingIsLost
    <3> QED
      BY <1>t, <1>len, <3>1, <3>3 DEF Complete
  <2> QED
    BY <1>fin, <2>1 DEF FinishedIsComplete
<1>1. CASE UNCHANGED vars
  BY <1>1, <1>type, <1>same, <1>stat, <1>fin DEF vars, local, history
<1>2. ASSUME NEW p \in Procs, Start(p) PROVE IInv'
  <2>1. ASSUME NEW q \in Procs PROVE Knows(q)'
    <3>1. CASE q = p
      <4>1. /\ pc'[q] = "truncate" /\ from'[q] = Number(status)
            /\ mixed => q \in misled'
        BY <1>2, <3>1 DEF Start, TypeOK
      <4> QED
        BY <4>1, <1>idle
    <3>2. CASE q # p
      BY <1>2, <3>2, <1>same DEF Start, TypeOK
    <3> QED
      BY <3>1, <3>2
  <2> QED
    BY <1>2, <2>1, <1>type, <1>stat, <1>fin DEF Start
<1>3. ASSUME NEW p \in Procs, Truncate(p) PROVE IInv'
  <2>1. Knows(p)'
    <3>1. /\ pc'[p] = "copy" /\ at'[p] = 0 /\ left'[p] = file.size
          /\ from'[p] = from[p] /\ len'[to'[p]] >= file.size
      BY <1>3, SoundOps DEF Truncate, TypeOK
    <3>2. 0 * BlockSize = 0
      BY <1>t
    <3>3. file.size = file.size - 0 * BlockSize
      BY <1>t, <3>2
    <3>4. Counts(p)'
      BY <1>t, <3>1, <3>3 DEF Counts, Working, Saving, Copying, Skips
    <3>5. p \notin misled => \A i \in Slots : i <= from'[p] => InPlace(i)'
      BY <1>keep, <3>1 DEF Behind
    <3>6. misled' = misled
      BY <1>3 DEF Truncate, history
    <3> QED
      BY <1>t, <3>1, <3>4, <3>5, <3>6 DEF Behind, Working, Saving
  <2>2. ASSUME NEW q \in Procs, q # p PROVE Knows(q)'
    BY <1>3, <2>2, <1>same DEF Truncate, TypeOK, history
  <2> QED
    BY <1>3, <2>1, <2>2, <1>type, <1>stat, <1>fin DEF Truncate, history
<1>4. ASSUME NEW p \in Procs, Skip(p) PROVE IInv'
  <2>1. Knows(p)'
    <3>1. /\ pc[p] = "copy" /\ pc'[p] = "copy" /\ at'[p] = at[p] + 1
          /\ from'[p] = from[p] /\ to'[p] = to[p] /\ len' = len
          /\ at[p] \in Slots /\ at[p] <= from[p] /\ at[p] \in Nat
          /\ left[p] = file.size
      BY <1>t, <1>4 DEF Skip, Skips, TypeOK, Counts
    <3>2. from[p] \in Nat
      BY <3>1 DEF TypeOK, NoStatus
    <3>3. Counts(p)'
      <4>1. CASE at[p] = from[p]
        <5>1. left'[p] = file.size - at'[p] * BlockSize /\ ~(at'[p] <= from'[p])
          BY <1>4, <3>1, <3>2, <4>1 DEF Skip, Resumes, TypeOK
        <5> QED
          BY <1>t, <3>1, <5>1 DEF Counts, Working, Saving, Copying, Skips
      <4>2. CASE at[p] # from[p]
        <5>1. left'[p] = file.size /\ at'[p] <= from'[p]
          BY <1>4, <3>1, <3>2, <4>2 DEF Skip, Resumes, TypeOK
        <5> QED
          BY <1>t, <3>1, <5>1 DEF Counts, Working, Saving, Copying, Skips
      <4> QED
        BY <4>1, <4>2
    <3>4. ASSUME p \notin misled PROVE Behind(p)'
      <4>1. \A i \in Slots : i <= from'[p] => InPlace(i)'
        BY <1>keep, <3>1, <3>4 DEF Behind
      <4>2. \A i \in Slots : i < at'[p] => InPlace(i)'
        BY <1>t, <3>1, <3>2, <4>1
      <4> QED
        BY <1>t, <3>1, <4>1, <4>2 DEF Behind, Working, Saving
    <3>5. misled' = misled
      BY <1>4 DEF Skip, history
    <3> QED
      BY <3>3, <3>4, <3>5
  <2>2. ASSUME NEW q \in Procs, q # p PROVE Knows(q)'
    BY <1>4, <2>2, <1>same DEF Skip, TypeOK, history
  <2> QED
    BY <1>4, <2>1, <2>2, <1>type, <1>stat, <1>fin DEF Skip, history
<1>5. ASSUME NEW p \in Procs, Dd(p) PROVE IInv'
  <2>1. Knows(p)'
    <3>1. /\ Copying(p) /\ pc[p] = "copy" /\ at[p] \in Slots /\ at[p] \in Nat
          /\ at[p] > from[p] /\ from'[p] = from[p] /\ to'[p] = to[p] /\ len' = len
          /\ left[p] = file.size - at[p] * BlockSize
          /\ left'[p] = left[p] - Want(p)
      <4>1. Copying(p) /\ pc[p] = "copy" /\ at[p] < Total /\ ~(at[p] <= from[p])
        BY <1>5 DEF Dd, Copying, Skips
      <4>2. left[p] = file.size - at[p] * BlockSize
        BY <4>1 DEF Counts
      <4>3. /\ from'[p] = from[p] /\ to'[p] = to[p] /\ len' = len
            /\ left'[p] = left[p] - Want(p)
        BY <1>5 DEF Dd, TypeOK
      <4> QED
        BY <1>t, <1>int, <4>1, <4>2, <4>3
    <3>2. \A i \in Slots : i = at[p] => InPlace(i)'
      BY <1>5, <1>t, <3>1, WrittenHolds DEF Dd, InPlace
    <3>5. len'[to'[p]] >= file.size
      BY <3>1 DEF Counts, Working
    <3>6. at[p] + 1 < Total => left'[p] = file.size - (at[p] + 1) * BlockSize
      <4>1. SUFFICES ASSUME at[p] + 1 < Total
                     PROVE  left'[p] = file.size - (at[p] + 1) * BlockSize
        OBVIOUS
      <4>2. at[p] + 1 \in Slots
        BY <1>t, <3>1, <4>1
      <4>3. /\ at[p] * BlockSize \in Nat
            /\ (at[p] + 1) * BlockSize = at[p] * BlockSize + BlockSize
        BY <3>1, Offsets
      <4>4. file.size - (at[p] + 1) * BlockSize \in Nat \ {0}
        BY <4>2, SoundOps DEF TypeOK
      <4>5. Want(p) = BlockSize
        <5>1. left[p] = file.size - at[p] * BlockSize /\ BlockSize \in Nat /\ file.size \in Nat
          BY <1>t, <3>1
        <5>2. left[p] > BlockSize
          BY <5>1, <4>3, <4>4
        <5> QED
          BY <5>1, <5>2, <4>3 DEF Want, Least
      <4> QED
        BY <1>t, <3>1, <4>3, <4>5
    <3>7. \/ pc'[p] = "open" /\ at'[p] = at[p]
          \/ pc'[p] = "copy" /\ at'[p] = at[p] + 1
      BY <1>5, <3>1 DEF Dd, TypeOK
    <3>8. ~(at'[p] <= from'[p])
      BY <1>int, <3>1, <3>7
    <3>9. Counts(p)'
      BY <1>t, <3>5, <3>6, <3>7, <3>8 DEF Counts, Working, Saving, Copying, Skips
    <3>10. ASSUME p \notin misled PROVE Behind(p)'
      <4>1. \A i \in Slots : i <= from'[p] => InPlace(i)'
        BY <1>keep, <3>1, <3>10 DEF Behind
      <4>2. \A i \in Slots : i < at[p] \/ i = at[p] => InPlace(i)'
        BY <1>keep, <3>1, <3>2, <3>10 DEF Behind, Working
      <4>3. CASE pc'[p] = "open" /\ at'[p] = at[p]
        BY <1>t, <4>1, <4>2, <4>3 DEF Behind, Working, Saving
      <4>4. CASE pc'[p] = "copy" /\ at'[p] = at[p] + 1
        <5>1. \A i \in Slots : i < at'[p] => InPlace(i)'
          BY <1>t, <3>1, <4>2, <4>4
        <5> QED
          BY <1>t, <4>1, <4>4, <5>1 DEF Behind, Working, Saving
      <4> QED
        BY <3>7, <4>3, <4>4
    <3>11. misled' = misled
      BY <1>5 DEF Dd, history
    <3> QED
      BY <3>9, <3>10, <3>11
  <2>2. ASSUME NEW q \in Procs, q # p PROVE Knows(q)'
    BY <1>5, <2>2, <1>same DEF Dd, TypeOK, history
  <2> QED
    BY <1>5, <2>1, <2>2, <1>type, <1>stat, <1>fin DEF Dd, history
<1>6. ASSUME NEW p \in Procs, OpenStatus(p) PROVE IInv'
  <2>1. Knows(p)'
    <3>1. /\ pc[p] = "open" /\ pc'[p] = "write"
          /\ UNCHANGED <<to, from, at, left, len, misled>>
      BY <1>6 DEF OpenStatus, TypeOK, local
    <3>2. Counts(p)'
      BY <1>t, <3>1 DEF Counts, Working, Saving, Copying, Skips
    <3>3. Behind(p) => Behind(p)'
      BY <1>t, <1>keep, <3>1 DEF Behind, Working, Saving
    <3> QED
      BY <3>1, <3>2, <3>3
  <2>2. ASSUME NEW q \in Procs, q # p PROVE Knows(q)'
    BY <1>6, <2>2, <1>same DEF OpenStatus, TypeOK, local
  <2> QED
    BY <1>6, <2>1, <2>2, <1>type, <1>stat, <1>fin DEF OpenStatus
<1>7. ASSUME NEW p \in Procs, WriteStatus(p) PROVE IInv'
  <2>1. /\ pc[p] = "write" /\ pc'[p] = "copy" /\ at'[p] = at[p] + 1
        /\ UNCHANGED <<to, from, left, len, misled>>
        /\ at[p] \in Slots /\ at[p] \in Nat /\ at[p] > from[p]
    <3>1. /\ pc[p] = "write" /\ pc'[p] = "copy" /\ at'[p] = at[p] + 1
          /\ UNCHANGED <<to, from, left, len, misled>>
      BY <1>7 DEF WriteStatus, TypeOK
    <3>2. at[p] \in Nat /\ at[p] < Total /\ ~(at[p] <= from[p])
      BY <1>int, <3>1 DEF SavesABlock, Saving, Counts, Skips
    <3> QED
      BY <1>t, <1>int, <3>1, <3>2
  <2>2. ASSUME p \notin misled
        PROVE  /\ \A i \in Slots : i <= at[p] => InPlace(i)'
               /\ \A i \in Slots : i <= from[p] => InPlace(i)'
    <3>1. /\ \A i \in Slots : i < at[p] \/ i = at[p] => InPlace(i)
          /\ \A i \in Slots : i <= from[p] => InPlace(i)
      BY <2>1, <2>2 DEF Behind, Working, Saving
    <3>2. \A i \in Slots : i <= at[p] => i < at[p] \/ i = at[p]
      BY <1>t, <2>1
    <3> QED
      BY <1>keep, <3>1, <3>2
  <2>3. ASSUME ~mixed' PROVE p \notin misled /\ Number(status') = at[p]
    <3>1. p \notin misled /\ ~(Len(status) > Len(Text[at[p]]))
      BY <1>7, <2>3 DEF WriteStatus, Saved
    <3>2. Text[at[p]] \in Seq(Nat) /\ Number(Text[at[p]]) = at[p]
      BY <1>t, <2>1, TextOps DEF TypeOK
    <3>3. Len(status) \in Nat /\ Len(Text[at[p]]) \in Nat
      BY <3>2 DEF TypeOK
    <3>4. Len(status) <= Len(Text[at[p]])
      BY <3>1, <3>3
    <3>5. status' = Text[at[p]]
      BY <1>7, <3>4 DEF WriteStatus, Saved, Overlaid
    <3> QED
      BY <3>1, <3>2, <3>5
  <2>4. StatusIsSound'
    <3>1. ASSUME ~mixed', NEW i \in Slots, i <= Number(status') PROVE InPlace(i)'
      BY <2>2, <2>3, <3>1
    <3> QED
      BY <1>t, <3>1 DEF StatusIsSound, InPlace
  <2>5. Knows(p)'
    <3>1. ~(at'[p] <= from'[p])
      BY <1>int, <2>1
    <3>2. Counts(p)'
      BY <1>t, <2>1, <3>1 DEF Counts, Working, Saving, Copying, Skips
    <3>3. ASSUME p \notin misled PROVE Behind(p)'
      <4>1. \A i \in Slots : i < at'[p] => InPlace(i)'
        BY <1>t, <2>1, <2>2, <3>3
      <4> QED
        BY <1>t, <2>1, <2>2, <3>3, <4>1 DEF Behind, Working, Saving
    <3> QED
      BY <2>1, <3>2, <3>3
  <2>6. ASSUME NEW q \in Procs, q # p PROVE Knows(q)'
    BY <1>7, <2>6, <1>same DEF WriteStatus, TypeOK
  <2> QED
    BY <1>7, <2>4, <2>5, <2>6, <1>type, <1>fin DEF WriteStatus
<1>gone. ASSUME NEW p \in Procs, Gone(p), NEW q \in Procs PROVE Knows(q)'
  <2>1. CASE q = p
    BY <1>gone, <2>1, <1>idle DEF Gone, TypeOK
  <2>2. CASE q # p
    BY <1>gone, <2>2, <1>same DEF Gone, TypeOK
  <2> QED
    BY <2>1, <2>2
<1>8. ASSUME NEW p \in Procs, Finish(p) PROVE IInv'
  <2>1. ASSUME NEW d \in finished' PROVE d \in Dests /\ Complete(d)
    <3>1. CASE d \in finished
      BY <3>1 DEF FinishedIsComplete, TypeOK
    <3>2. CASE d \notin finished
      <4>1. /\ pc[p] = "copy" /\ at[p] = Total /\ p \notin misled
            /\ d = to[p] /\ to[p] \in Dests
        BY <1>8, <2>1, <3>2 DEF Finish, Ended, TypeOK
      <4>2. \A i \in Slots : i < at[p]
        BY <1>t, <4>1
      <4>3. \A i \in Slots : Holds(d, i)
        BY <4>1, <4>2 DEF Behind, Working, InPlace
      <4>4. len[d] >= file.size
        BY <4>1 DEF Counts, Working
      <4> QED
        BY <4>1, <4>3, <4>4 DEF Complete
    <3> QED
      BY <3>1, <3>2
  <2>2. ASSUME NEW d \in finished' PROVE Complete(d)'
    <3>1. d \in Dests /\ len[d] >= file.size /\ \A i \in Slots : Holds(d, i)
      BY <1>t, <2>1, <2>2, SoundOps DEF Complete, TypeOK
    <3>2. \A i \in Slots : Holds(d, i)'
      BY <3>1, NothingIsLost
    <3> QED
      BY <1>t, <1>len, <3>1, <3>2 DEF Complete
  <2> QED
    BY <1>8, <1>type, <1>gone, <1>stat, <2>2 DEF Finish, Gone, FinishedIsComplete
<1>9. ASSUME NEW p \in Procs, DdFails(p) PROVE IInv'
  BY <1>9, <1>type, <1>gone, <1>stat, <1>fin DEF DdFails, Gone
<1>10. ASSUME NEW p \in Procs, Crash(p) PROVE IInv'
  BY <1>10, <1>type, <1>gone, <1>stat, <1>fin DEF Crash, Gone
<1> QED
  BY <1>1, <1>2, <1>3, <1>4, <1>5, <1>6, <1>7, <1>8, <1>9, <1>10 DEF Next, Step
-----------------------------------------------------------------------------
LEMMA Inductive == ASSUME OneSoundCopy PROVE Spec => []IInv
  BY InitIsInductive, NextIsInductive, PTL DEF Spec

(* A cp that returns without an error has made a whole copy, and no other  *)
(* run, interrupted or not, ever damages it; unless it went on from a mix  *)
(* of two numbers, which the copy of another run may have left.            *)
THEOREM FinishedCorrect == ASSUME OneSoundCopy PROVE Spec => []FinishedIsComplete
<1>1. IInv => FinishedIsComplete
  BY DEF IInv
<1> QED
  BY <1>1, Inductive, PTL

(* A number in the status file is never ahead of the destination, so the   *)
(* run that starts from it leaves no gap; the one exception is a number    *)
(* that two runs wrote over each other, or that such a number led to.      *)
THEOREM StatusCorrect == ASSUME OneSoundCopy PROVE Spec => []StatusIsSound
<1>1. IInv => StatusIsSound
  BY DEF IInv
<1> QED
  BY <1>1, Inductive, PTL

(* When runs follow one another, however they end, the exception does not  *)
(* occur: whoever writes the number finds the file empty.                  *)
LEMMA SavesAloneStep ==
  ASSUME OneByOne, TypeOK, SavesABlock, SavesAlone, [Next]_vars
  PROVE  SavesAlone'
<1> USE DEF SavesAlone
<1>1. CASE UNCHANGED vars
  BY <1>1 DEF vars, history
<1>2. ASSUME NEW p \in Procs, WriteStatus(p) PROVE SavesAlone'
  <2>1. at[p] \in 0 .. Total - 1
    BY <1>2, FileOps DEF WriteStatus, TypeOK, SavesABlock, Saving
  <2>2. Len(Text[at[p]]) \in Nat
    BY <2>1, TextOps DEF TypeOK
  <2>3. Len(<<>>) = 0
    OBVIOUS
  <2>4. ~(Len(status) > Len(Saved(p)))
    BY <1>2, <2>2, <2>3 DEF WriteStatus, Saved
  <2>5. ~mixed' /\ misled' = {}
    BY <1>2, <2>4 DEF WriteStatus
  <2>6. ASSUME NEW q \in Procs PROVE pc'[q] = "copy"
    BY <1>2 DEF WriteStatus, TypeOK, OneByOne
  <2> QED
    BY <2>5, <2>6
<1>3. ASSUME NEW p \in Procs, OpenStatus(p) PROVE SavesAlone'
  BY <1>3 DEF OpenStatus
<1>4. ASSUME NEW p \in Procs,
             Start(p) \/ Truncate(p) \/ Skip(p) \/ Dd(p) \/ Finish(p)
               \/ DdFails(p) \/ Crash(p)
      PROVE  SavesAlone'
  <2>1. UNCHANGED status /\ ~mixed' /\ misled' = {}
    BY <1>4 DEF Start, Truncate, Skip, Dd, Finish, DdFails, Crash, Gone, history
  <2>2. ASSUME NEW q \in Procs PROVE pc'[q] # "write"
    BY <1>4 DEF Start, Truncate, Skip, Dd, Finish, DdFails, Crash, Gone,
                Copying, TypeOK, OneByOne
  <2> QED
    BY <2>1, <2>2
<1> QED
  BY <1>1, <1>2, <1>3, <1>4 DEF Next, Step

THEOREM NoneIsMisled == ASSUME OneByOne PROVE Spec => []NeverMisled
<1>1. Init => SavesAlone
  BY DEF Init, SavesAlone
<1>2. SavesAlone => NeverMisled
  BY DEF SavesAlone, NeverMisled
<1> QED
  BY <1>1, <1>2, InitType, NextType, SavesAloneStep, PTL DEF Spec

(* The count that cp hands to dd is never negative: the assertion on its   *)
(* result does not fail for that reason.                                   *)
THEOREM CountCorrect == ASSUME OneSoundCopy PROVE Spec => []CountIsLegal
<1>1. ASSUME OneSoundCopy, IInv PROVE CountIsLegal
  <2>1. SUFFICES ASSUME NEW p \in Procs, Copying(p) PROVE Want(p) >= 0
    BY DEF CountIsLegal
  <2>2. left[p] = file.size - at[p] * BlockSize
    BY <1>1, <2>1 DEF IInv, Counts
  <2>3. Total \in Nat /\ Slots = 0 .. Total - 1
    BY <1>1, SoundOps, FileOps DEF IInv, TypeOK
  <2>4. at[p] \in Slots
    BY <1>1, <2>1, <2>3 DEF Copying, IInv, TypeOK
  <2>5. left[p] \in Nat
    BY <1>1, <2>2, <2>4, SoundOps DEF IInv, TypeOK
  <2> QED
    BY <2>5, ConstantsAssumption DEF Want, Least
<1> QED
  BY <1>1, Inductive, PTL

(* cp implements the promise of CopyPromise: every step of every run adds  *)
(* blocks to the copy, reports a copy that is complete, or changes nothing *)
(* that the user sees.                                                     *)
LEMMA InitRefines == ASSUME OneSoundCopy, Init PROVE Promise!Init
<1>1. PICK d \in Dests : Dests = {d}
  BY DEF OneSoundCopy
<1>2. Target = d
  BY <1>1 DEF Target
<1>3. ASSUME NEW i \in Slots PROVE ~Holds(d, i)
  <2>1. dest[d][i] = Old /\ Slot(i) # 0
    BY SoundOps DEF Init
  <2> QED
    BY <2>1 DEF Holds, Old
<1> QED
  BY <1>2, <1>3 DEF Promise!Init, CopiedTo, Init

LEMMA NextRefines ==
  ASSUME OneSoundCopy, IInv, [Next]_vars
  PROVE  [Promise!Next]_(Promise!vars)
<1>1. PICK d \in Dests : Dests = {d}
  BY DEF OneSoundCopy
<1>2. Target = d
  BY <1>1 DEF Target
<1>3. file' = file /\ Slots' = Slots
  BY NothingIsLost DEF IInv, Slots
<1>4. CopiedTo(d) \subseteq CopiedTo(d)' /\ CopiedTo(d)' \in SUBSET Slots
  BY <1>3, NothingIsLost DEF IInv, CopiedTo
<1>5. CASE finished' = finished
  BY <1>2, <1>3, <1>4, <1>5 DEF Promise!Next, Promise!Copy
<1>6. ASSUME NEW p \in Procs, Finish(p), finished' # finished
      PROVE  Promise!Report /\ UNCHANGED Slots
  <2>1. /\ to[p] = d /\ dest' = dest /\ finished' = finished \cup {d}
        /\ pc[p] = "copy" /\ at[p] = Total /\ p \notin misled
    BY <1>1, <1>6 DEF Finish, Ended, IInv, TypeOK
  <2>2. \A i \in Slots : i < at[p]
    BY <2>1, SoundOps, FileOps DEF IInv, TypeOK
  <2>3. \A i \in Slots : Holds(d, i)
    BY <2>1, <2>2 DEF IInv, Behind, Working, InPlace
  <2>4. CopiedTo(d) = Slots
    BY <2>3 DEF CopiedTo
  <2>5. CopiedTo(d)' = CopiedTo(d)
    BY <1>3, <1>4, <2>4
  <2> QED
    BY <1>2, <1>3, <2>1, <2>4, <2>5 DEF Promise!Report
<1>7. finished' = finished \/ \E p \in Procs : Finish(p)
  BY DEF Next, Step, Start, Truncate, Skip, Dd, OpenStatus, WriteStatus,
         DdFails, Crash, Gone, vars, local, history
<1> QED
  BY <1>5, <1>6, <1>7 DEF Promise!Next

THEOREM Refinement == ASSUME OneSoundCopy PROVE Spec => KeepsPromise
  BY InitRefines, NextRefines, Inductive, PTL
     DEF Spec, KeepsPromise, Promise!Spec
=============================================================================
