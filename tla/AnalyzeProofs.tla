---------------------------- MODULE AnalyzeProofs ----------------------------
(***************************************************************************)
(* Proofs about Analyze, for every layout, image and number of runs: what  *)
(* is kept of a group is exactly its directories, every run that is cut    *)
(* short loses one group at most, and marks are lost by kills only.        *)
(***************************************************************************)
EXTENDS Grep, FiniteSetTheorems, TLAPS

LEMMA DivMod ==
  ASSUME NEW a \in Nat, NEW b \in Nat \ {0}
  PROVE  /\ a \div b \in Nat
         /\ a % b \in 0 .. b - 1
         /\ a = b * (a \div b) + (a % b)
  BY Z3

LEMMA TimesMono ==
  ASSUME NEW a \in Int, NEW b \in Int, NEW c \in Nat, a <= b
  PROVE  a * c <= b * c
  BY Z3

(* The group of a block is the one in whose range it is.                   *)
LEMMA GroupOfBlock ==
  ASSUME NEW b \in Blks, NEW g \in Nat
  PROVE  BgOf(b) = g <=> g * PerGroup <= b /\ b < g * PerGroup + PerGroup
<1> DEFINE h == b \div PerGroup
           r == b % PerGroup
<1>1. PerGroup \in Nat \ {0} /\ b \in Nat
  BY LayoutAssumption DEF Blks
<1>2. h \in Nat /\ r \in 0 .. PerGroup - 1 /\ b = PerGroup * h + r
  BY <1>1, DivMod
<1>3. BgOf(b) = h
  BY DEF BgOf
<1> HIDE DEF h, r
<1>4. PerGroup * h = h * PerGroup
  BY <1>1, <1>2
<1>5. h * PerGroup <= b /\ b < h * PerGroup + PerGroup
  BY <1>1, <1>2, <1>4
<1>6. ASSUME g < h
      PROVE  g * PerGroup + PerGroup <= b
  <2>1. (g + 1) * PerGroup <= h * PerGroup
    BY <1>1, <1>2, <1>6, TimesMono
  <2>2. (g + 1) * PerGroup = g * PerGroup + PerGroup /\ g * PerGroup \in Nat /\ h * PerGroup \in Nat
    BY <1>1, <1>2
  <2> QED
    BY <2>1, <2>2, <1>1, <1>2, <1>5
<1>7. ASSUME h < g
      PROVE  b < g * PerGroup
  <2>1. (h + 1) * PerGroup <= g * PerGroup
    BY <1>1, <1>2, <1>7, TimesMono
  <2>2. (h + 1) * PerGroup = h * PerGroup + PerGroup /\ g * PerGroup \in Nat /\ h * PerGroup \in Nat
    BY <1>1, <1>2
  <2> QED
    BY <2>1, <2>2, <1>1, <1>2, <1>5
<1>8. g * PerGroup \in Nat
  BY <1>1
<1> QED
  BY <1>1, <1>2, <1>3, <1>5, <1>6, <1>7, <1>8

(* A group begins in the image.                                            *)
LEMMA GroupBegins ==
  ASSUME NEW g \in Bgs
  PROVE  g * PerGroup \in Nat /\ g * PerGroup < BlocksCount
<1>1. /\ BgCount \in Nat \ {0} /\ PerGroup \in Nat \ {0} /\ BlocksCount \in Nat
      /\ (BgCount - 1) * PerGroup < BlocksCount
  BY LayoutAssumption
<1>2. g \in Nat /\ g <= BgCount - 1
  BY <1>1 DEF Bgs
<1>3. g * PerGroup <= (BgCount - 1) * PerGroup
  BY <1>1, <1>2, TimesMono
<1>4. g * PerGroup \in Nat /\ (BgCount - 1) * PerGroup \in Nat
  BY <1>1, <1>2
<1> QED
  BY <1>1, <1>3, <1>4

(* The block that is scanned is one of the group, and not the last number. *)
LEMMA ScannedBlock ==
  ASSUME TypeOK, pc = "scan", ~AtEnd
  PROVE  /\ bg \in Bgs /\ i \in 0 .. PerGroup - 1
         /\ Blk \in Blks /\ BgOf(Blk) = bg
         /\ Blk = bg * PerGroup + i /\ bg * PerGroup \in Nat
<1>1. /\ BgCount \in Nat \ {0} /\ PerGroup \in Nat \ {0} /\ BlocksCount \in Nat
  BY LayoutAssumption
<1>2. bg \in Bgs
  BY <1>1 DEF TypeOK, Bgs
<1>3. i \in 0 .. PerGroup - 1
  BY <1>1 DEF TypeOK, AtEnd
<1>4. Blk = bg * PerGroup + i /\ bg * PerGroup \in Nat
  BY <1>2, GroupBegins DEF Blk
<1>5. Blk <= BlocksCount /\ Blk # BlocksCount
  BY DEF TypeOK, AtEnd
<1>6. Blk \in Blks
  BY <1>1, <1>3, <1>4, <1>5 DEF Blks
<1>7. bg \in Nat
  BY <1>2 DEF Bgs
<1>8. BgOf(Blk) = bg
  BY <1>1, <1>3, <1>4, <1>6, <1>7, GroupOfBlock
<1> QED
  BY <1>2, <1>3, <1>4, <1>6, <1>8

LEMMA MarkedTypes ==
  ASSUME TypeOK, pc = "scan", ~AtEnd
  PROVE  /\ Marked \subseteq Blks /\ Found \subseteq Blks
         /\ valid \subseteq Marked
  BY ScannedBlock DEF TypeOK, Marked, Found

LEMMA TypeInit == Init => TypeOK
<1> SUFFICES ASSUME Init
             PROVE  TypeOK
  OBVIOUS
<1>1. BgCount \in Nat \ {0} /\ MaxRuns \in Nat /\ MaxKills \in Nat /\ MaxInterrupts \in Nat
  BY LayoutAssumption, BoundsAssumption
<1>2. info \in Info /\ results \in [Bgs -> Result]
  BY <1>1 DEF Init, Info, Result, InfoIs, ResultIs
<1>3. map \in Map
  BY DEF Init, Map, NoMap
<1>4. /\ image \in Images /\ list = "none" /\ folders = FALSE /\ pc = "idle" /\ bg = 0 /\ i = 0
      /\ valid = {} /\ blkids = {} /\ runs = 0 /\ kills = 0 /\ interrupts = 0
  BY DEF Init
<1>5. folders \in BOOLEAN
  BY <1>4
<1>6. /\ pc \notin {"scan", "openInfo", "info", "openResult", "result"}
      /\ bg \in 0 .. BgCount /\ runs \in 0 .. MaxRuns /\ kills \in 0 .. MaxKills
      /\ interrupts \in 0 .. MaxInterrupts
  BY <1>1, <1>4
<1>7. /\ image \in Images /\ list \in {"none", "partial", "whole"} /\ i \in Nat
      /\ pc \in {"idle", "reported", "map", "zeros", "groups", "scan", "openInfo", "info",
                 "openResult", "result", "load", "list", "folders"}
      /\ valid \subseteq Blks /\ blkids \subseteq Blks
  BY <1>4
<1> QED
  BY <1>2, <1>3, <1>5, <1>6, <1>7 DEF TypeOK

LEMMA TypeStep == TypeOK /\ [Next]_vars => TypeOK'
<1> SUFFICES ASSUME TypeOK, [Next]_vars
             PROVE  TypeOK'
  OBVIOUS
<1> USE LayoutAssumption, BoundsAssumption
<1>1. CASE Start
  <2>1. info.bg \in 0 .. BgCount /\ NoMap \in Map
    BY DEF TypeOK, Info, NoMap, Map
  <2> QED
    BY <1>1, <2>1 DEF TypeOK, Start
<1>2. CASE CreateMap
  <2>1. [is |-> "short", bits |-> {}] \in Map
    BY DEF Map
  <2> QED
    BY <1>2, <2>1 DEF TypeOK, CreateMap, command, counts
<1>3. CASE FillMap
  <2>1. [is |-> "full", bits |-> {}] \in Map
    BY DEF Map
  <2> QED
    BY <1>3, <2>1 DEF TypeOK, FillMap, command, counts
<1>4. CASE OpenMap
  BY <1>4 DEF TypeOK, OpenMap, files, counts, Map
<1>5. CASE BeginGroup
  <2>1. bg \in Bgs
    BY <1>5 DEF TypeOK, BeginGroup, Bgs
  <2>2. bg * PerGroup \in Nat /\ bg * PerGroup < BlocksCount
    BY <2>1, GroupBegins
  <2>3. Blk' = bg * PerGroup
    BY <1>5, <2>2 DEF Blk, BeginGroup, files
  <2> QED
    BY <1>5, <2>1, <2>2, <2>3 DEF TypeOK, BeginGroup, files, counts, Bgs
<1>6. CASE ScanBlock
  <2>1. Marked \subseteq Blks /\ Found \subseteq Blks
    BY <1>6, MarkedTypes DEF ScanBlock
  <2>2. /\ bg \in Bgs /\ i \in 0 .. PerGroup - 1 /\ Blk \in Blks
        /\ Blk = bg * PerGroup + i /\ bg * PerGroup \in Nat
    BY <1>6, ScannedBlock DEF ScanBlock
  <2>3. Blk' = Blk + 1
    BY <1>6, <2>2 DEF ScanBlock, Blk
  <2>4. Blk' <= BlocksCount /\ i' \in Nat /\ i' <= PerGroup
    BY <1>6, <2>2, <2>3 DEF ScanBlock, Blks
  <2> QED
    BY <1>6, <2>1, <2>4 DEF TypeOK, ScanBlock, files, counts
<1>7. CASE ScanRaises
  <2>1. Marked \subseteq Blks
    BY <1>7, MarkedTypes DEF ScanRaises
  <2>2. map' \in Map
    BY <1>7, <2>1 DEF TypeOK, ScanRaises, Map
  <2> QED
    BY <1>7, <2>2 DEF TypeOK, ScanRaises, Gone, counts
<1>8. CASE EndGroup
  BY <1>8 DEF TypeOK, EndGroup, files, counts
<1>9. CASE OpenInfo
  <2>1. InfoIs("empty") \in Info
    BY DEF InfoIs, Info
  <2> QED
    BY <1>9, <2>1 DEF TypeOK, OpenInfo, command, counts
<1>10. CASE WriteInfo
  <2>1. Saved \in Info
    BY DEF TypeOK, Saved, Info
  <2> QED
    BY <1>10, <2>1 DEF TypeOK, WriteInfo, command, counts
<1>11. CASE OpenResult
  <2>1. ResultIs("empty") \in Result
    BY DEF ResultIs, Result
  <2> QED
    BY <1>11, <2>1 DEF TypeOK, OpenResult, command, counts
<1>12. CASE WriteResult
  <2>1. [is |-> "new", blkids |-> blkids] \in Result
    BY DEF TypeOK, Result
  <2> QED
    BY <1>12, <2>1 DEF TypeOK, WriteResult, command, counts
<1>13. CASE EndScan
  <2>1. map' \in Map
    BY <1>13 DEF TypeOK, EndScan, Map
  <2> QED
    BY <1>13, <2>1 DEF TypeOK, EndScan, command, counts
<1>14. CASE Report
  BY <1>14 DEF TypeOK, Report, Gone, files, counts
<1>15. CASE Flush
  <2>1. map' \in Map
    BY <1>15 DEF TypeOK, Flush, Map
  <2>2. Blk' = Blk
    BY <1>15 DEF Flush, Blk, command
  <2> QED
    BY <1>15, <2>1, <2>2 DEF TypeOK, Flush, command, counts
<1>16. CASE StartList
  BY <1>16 DEF TypeOK, StartList
<1>17. CASE ListGroup
  BY <1>17 DEF TypeOK, ListGroup, Gone, files, counts
<1>18. CASE EndList
  BY <1>18 DEF TypeOK, EndList, command, counts
<1>19. CASE WriteFolders
  BY <1>19 DEF TypeOK, WriteFolders, Gone, counts
<1>20. CASE Kill
  BY <1>20 DEF TypeOK, Kill, Gone, files
<1>21. CASE Interrupt
  <2>1. map' \in Map
    BY <1>21 DEF TypeOK, Interrupt, Map
  <2> QED
    BY <1>21, <2>1 DEF TypeOK, Interrupt, Gone
<1>22. CASE UNCHANGED vars
  <2>1. /\ UNCHANGED <<image, info, results, map, list, folders, pc>>
        /\ UNCHANGED <<bg, i, valid, blkids, runs, kills, interrupts>>
    BY <1>22 DEF vars, files, command, counts
  <2>2. Blk' = Blk
    BY <2>1 DEF Blk
  <2>3. image' \in Images /\ info' \in Info /\ results' \in [Bgs -> Result] /\ map' \in Map
    BY <2>1 DEF TypeOK
  <2>4. list' \in {"none", "partial", "whole"} /\ folders' \in BOOLEAN
    BY <2>1, Zenon DEF TypeOK
  <2>5. /\ pc' \in {"idle", "reported", "map", "zeros", "groups", "scan", "openInfo", "info",
                   "openResult", "result", "load", "list", "folders"}
        /\ bg' \in 0 .. BgCount
        /\ pc' = "scan" => bg' < BgCount
        /\ pc' \in {"openInfo", "info", "openResult", "result"} => bg' > 0
        /\ i' \in Nat
        /\ pc' = "scan" => i' <= PerGroup /\ Blk' <= BlocksCount
        /\ valid' \subseteq Blks /\ blkids' \subseteq Blks
    BY <2>1, <2>2 DEF TypeOK
  <2>6. /\ runs' \in 0 .. MaxRuns /\ kills' \in 0 .. MaxKills
        /\ interrupts' \in 0 .. MaxInterrupts
    BY <2>1 DEF TypeOK
  <2> QED
    BY <2>3, <2>4, <2>5, <2>6 DEF TypeOK
<1> QED
  BY <1>1, <1>2, <1>3, <1>4, <1>5, <1>6, <1>7, <1>8, <1>9, <1>10, <1>11, <1>12, <1>13, <1>14,
     <1>15, <1>16, <1>17, <1>18, <1>19, <1>20, <1>21, <1>22 DEF Next, Step

(* The files and the command keep their types, for every layout and any    *)
(* number of runs, kills and interrupts.                                   *)
THEOREM TypeCorrect == Spec => []TypeOK
  BY TypeInit, TypeStep, PTL DEF Spec
-----------------------------------------------------------------------------
(* A result is kept of a group when all its blocks were looked at.         *)
LEMMA ResultsStep == IInv /\ [Next]_vars => ResultsAreExact'
<1> SUFFICES ASSUME IInv, [Next]_vars
             PROVE  ResultsAreExact'
  OBVIOUS
<1>1. results \in [Bgs -> Result] /\ bg \in 0 .. BgCount /\ BgCount \in Nat \ {0}
  BY LayoutAssumption DEF IInv, TypeOK
<1>2. ResultsAreExact
  BY DEF IInv
<1>3. CASE UNCHANGED <<image, results>>
  BY <1>2, <1>3 DEF ResultsAreExact
<1>4. CASE OpenResult
  <2>1. \A g \in Bgs : results'[g].is = "new" => results'[g] = results[g]
    BY <1>1, <1>4 DEF OpenResult, ResultIs
  <2> QED
    BY <1>2, <1>4, <2>1 DEF ResultsAreExact, OpenResult
<1>5. CASE WriteResult
  <2>1. bg - 1 \in Bgs
    BY <1>1, <1>5 DEF WriteResult, IInv, TypeOK, Bgs
  <2>2. SearchedUpTo(bg - 1, BlocksCount)
    BY <1>5 DEF WriteResult, IInv, FoundSoFar, Ending
  <2>3. \A b \in DataBlks(bg - 1) : b < BlocksCount
    BY LayoutAssumption DEF DataBlks, Blks
  <2>4. /\ blkids = {b \in DataBlks(bg - 1) : image[b] = "deleted"}
        /\ \A b \in DataBlks(bg - 1) : image[b] # "dir"
    BY <2>2, <2>3 DEF SearchedUpTo
  <2>5. /\ results'[bg - 1] = [is |-> "new", blkids |-> blkids]
        /\ \A g \in Bgs \ {bg - 1} : results'[g] = results[g]
        /\ image' = image
    BY <1>1, <1>5, <2>1 DEF WriteResult
  <2>6. results'[bg - 1].blkids = {b \in DataBlks(bg - 1) : image'[b] = "deleted"}
    BY <2>4, <2>5
  <2>7. ASSUME NEW g \in Bgs, results'[g].is = "new"
        PROVE  /\ results'[g].blkids = {b \in DataBlks(g) : image'[b] = "deleted"}
               /\ \A b \in DataBlks(g) : image'[b] # "dir"
    <3>1. CASE g = bg - 1
      BY <2>4, <2>5, <2>6, <3>1
    <3>2. CASE g # bg - 1
      BY <1>2, <2>5, <2>7, <3>2 DEF ResultsAreExact
    <3> QED
      BY <3>1, <3>2
  <2> QED
    BY <2>7 DEF ResultsAreExact
<1> QED
  BY <1>3, <1>4, <1>5 DEF Next, Step, vars, files, command, counts, Start, StartList, CreateMap, FillMap,
     OpenMap, BeginGroup, ScanBlock, ScanRaises, EndGroup, OpenInfo, WriteInfo, EndScan, Report,
     Flush, ListGroup, EndList, WriteFolders, Kill, Interrupt

(* What a group's metadata and its other blocks are.                       *)
LEMMA HeadsAndData ==
  ASSUME TypeOK, pc = "scan", ~AtEnd
  PROVE  /\ Blk \in Heads(bg) <=> i < HeadCount[bg]
         /\ Blk \in DataBlks(bg) <=> ~(i < HeadCount[bg])
         /\ \A g \in Bgs : g # bg => Blk \notin DataBlks(g)
<1>1. /\ bg \in Bgs /\ i \in 0 .. PerGroup - 1 /\ Blk \in Blks /\ BgOf(Blk) = bg
      /\ Blk = bg * PerGroup + i /\ bg * PerGroup \in Nat
  BY ScannedBlock
<1>2. PerGroup \in Nat \ {0}
  BY LayoutAssumption
<1>3. Blk - bg * PerGroup = i
  BY <1>1, <1>2
<1>4. Blk \in Heads(bg) <=> i < HeadCount[bg]
  BY <1>1, <1>3 DEF Heads
<1> QED
  BY <1>1, <1>4 DEF DataBlks

LEMMA MarkedClean ==
  ASSUME TypeOK, pc = "scan", ~AtEnd, Clean(valid)
  PROVE  /\ Clean(Marked)
         /\ Blk \in DataBlks(bg) <=> Blk \notin Marked
<1>1. bg \in Bgs
  BY ScannedBlock
<1>2. CASE i < HeadCount[bg]
  <2>1. Marked = valid \cup {Blk} /\ \A g \in Bgs : Blk \notin DataBlks(g)
    BY <1>2, HeadsAndData DEF Marked
  <2> QED
    BY <1>1, <2>1 DEF Clean
<1>3. CASE ~(i < HeadCount[bg])
  <2>1. Marked = valid /\ Blk \in DataBlks(bg)
    BY <1>3, HeadsAndData DEF Marked
  <2> QED
    BY <1>1, <2>1 DEF Clean
<1> QED
  BY <1>2, <1>3

(* Where a group that is scanned begins and ends.                          *)
LEMMA ScanBegins ==
  ASSUME TypeOK, pc = "groups", bg < BgCount, NEW b \in Blks, BgOf(b) = bg
  PROVE  bg * PerGroup \in Nat /\ ~(b < bg * PerGroup)
<1>1. bg \in Bgs /\ bg \in Nat
  BY LayoutAssumption DEF TypeOK, Bgs
<1>2. bg * PerGroup \in Nat /\ bg * PerGroup <= b
  BY <1>1, GroupBegins, GroupOfBlock
<1> QED
  BY <1>2, LayoutAssumption DEF Blks

LEMMA ScanEnds ==
  ASSUME TypeOK, pc = "scan", AtEnd, NEW b \in Blks, BgOf(b) = bg
  PROVE  b < Blk /\ b < BlocksCount
<1>1. bg \in Bgs /\ bg \in Nat /\ i \in Nat /\ b \in Nat
  BY LayoutAssumption DEF TypeOK, Bgs, Blks
<1>2. PerGroup \in Nat \ {0} /\ BlocksCount \in Nat /\ b < BlocksCount
  BY LayoutAssumption DEF Blks
<1>3. bg * PerGroup \in Nat /\ b < bg * PerGroup + PerGroup
  BY <1>1, GroupBegins, GroupOfBlock
<1>4. CASE i = PerGroup
  BY <1>2, <1>3, <1>4 DEF Blk
<1>5. CASE Blk = BlocksCount
  BY <1>2, <1>5
<1> QED
  BY <1>2, <1>4, <1>5 DEF AtEnd

(* A run that goes on finds a whole map, and no data block in it.          *)
LEMMA MapStep == IInv /\ [Next]_vars => MapIsReady'
<1> SUFFICES ASSUME IInv, [Next]_vars
             PROVE  MapIsReady'
  OBVIOUS
<1> USE DEF MapIsReady, MapOpen, Analyzing
<1>1. TypeOK /\ MapIsReady /\ MarksAreKept
  BY DEF IInv
<1>2. Clean({})
  BY DEF Clean
<1>3. ASSUME NEW bits, bits = map.bits \/ bits = valid
      PROVE  bits \subseteq Blks /\ [map EXCEPT !.bits = bits].bits = bits
             /\ [map EXCEPT !.bits = bits].is = map.is
  BY <1>1, <1>3 DEF TypeOK, Map
<1>4. CASE Start
  <2>1. CASE Fresh
    BY <1>2, <1>4, <2>1 DEF Start, NoMap, Fresh
  <2>2. CASE ~Fresh
    <3>1. map.is = "full" /\ Clean(map.bits)
      BY <1>1, <1>4, <2>2 DEF MarksAreKept, Start, Bits, Resting, Clean
    <3> QED
      BY <1>4, <2>2, <3>1 DEF Start, Fresh
  <2> QED
    BY <2>1, <2>2
<1>5. CASE CreateMap
  <2>1. Fresh
    BY <1>1, <1>5 DEF CreateMap, MarksAreKept
  <2> QED
    BY <1>1, <1>2, <1>5, <2>1 DEF CreateMap, command
<1>6. CASE FillMap
  <2>1. Fresh
    BY <1>1, <1>6 DEF FillMap, MarksAreKept
  <2> QED
    BY <1>1, <1>2, <1>6, <2>1 DEF FillMap, command, Fresh
<1>7. CASE OpenMap
  <2>1. map.is = "full"
    BY <1>1, <1>7 DEF OpenMap, TypeOK, Map
  <2> QED
    BY <1>1, <1>7, <2>1 DEF OpenMap, files
<1>8. CASE BeginGroup
  BY <1>1, <1>8 DEF BeginGroup, files
<1>9. CASE ScanBlock
  <2>1. Clean(Marked)
    BY <1>1, <1>9, MarkedClean DEF ScanBlock
  <2> QED
    BY <1>1, <1>9, <2>1 DEF ScanBlock, files
<1>10. CASE EndGroup \/ OpenInfo \/ WriteInfo \/ OpenResult \/ WriteResult
  BY <1>1, <1>10 DEF EndGroup, OpenInfo, WriteInfo, OpenResult, WriteResult, files, command
<1>11. CASE Flush
  <2>1. map'.bits = valid /\ map'.is = map.is
    BY <1>3, <1>11 DEF Flush
  <2> QED
    BY <1>1, <1>11, <2>1 DEF Flush, command
<1>12. CASE UNCHANGED vars
  BY <1>1, <1>12 DEF vars, files, command, Fresh
<1>13. CASE ScanRaises \/ EndScan \/ Report \/ StartList \/ ListGroup \/ EndList \/ WriteFolders
            \/ Kill \/ Interrupt
  BY <1>13 DEF ScanRaises, EndScan, Report, StartList, ListGroup, EndList, WriteFolders, Kill, Interrupt
<1> QED
  BY <1>4, <1>5, <1>6, <1>7, <1>8, <1>9, <1>10, <1>11, <1>12, <1>13 DEF Next, Step

(* What was marked of the groups a run has behind it stays marked.         *)
LEMMA MarkedStep == IInv /\ [Next]_vars => MarkedSoFar'
<1> SUFFICES ASSUME IInv, [Next]_vars, MapOpen', kills' = 0
             PROVE  MarkedSoFar'
  BY DEF MarkedSoFar
<1> USE DEF MarkedSoFar, MapOpen
<1>1. TypeOK /\ MarkedSoFar /\ MarksAreKept /\ MapIsReady
  BY DEF IInv
<1>2. /\ bg \in 0 .. BgCount /\ BgCount \in Nat \ {0} /\ info.bg \in 0 .. BgCount
      /\ kills \in Nat
  BY <1>1, LayoutAssumption, BoundsAssumption DEF TypeOK, Info
<1>3. Bgs = 0 .. BgCount - 1
  BY DEF Bgs
<1>4. CASE OpenMap
  <2>1. kills = 0 /\ bg' = bg /\ valid' = map.bits /\ bg = (IF Fresh THEN 0 ELSE info.bg)
        /\ pc' = "groups"
    BY <1>1, <1>4 DEF OpenMap, counts, MapIsReady
  <2>2. CASE Fresh
    BY <1>2, <1>3, <2>1, <2>2
  <2>3. CASE ~Fresh
    <3>1. \A g \in Done : Heads(g) \subseteq map.bits
      BY <1>1, <1>4, <2>1, <2>3 DEF MarksAreKept, Bits, OpenMap
    <3> QED
      BY <1>2, <1>3, <2>1, <2>3, <3>1 DEF Done
  <2> QED
    BY <2>2, <2>3
<1>5. CASE BeginGroup
  <2>1. bg' = bg /\ valid' = valid /\ kills = 0 /\ pc = "groups" /\ bg < BgCount /\ i' = 0
    BY <1>5 DEF BeginGroup, counts
  <2>2. ASSUME NEW b \in Heads(bg)
        PROVE  ~(b < Blk')
    <3>1. b \in Blks /\ BgOf(b) = bg
      BY DEF Heads
    <3>2. bg * PerGroup \in Nat /\ ~(b < bg * PerGroup)
      BY <1>1, <2>1, <3>1, ScanBegins
    <3>3. Blk' = bg * PerGroup
      BY <2>1, <3>2 DEF Blk
    <3> QED
      BY <3>2, <3>3
  <2> QED
    BY <1>1, <2>1, <2>2
<1>6. CASE ScanBlock
  <2>1. /\ pc = "scan" /\ ~AtEnd /\ bg' = bg /\ valid' = Marked /\ kills = 0 /\ i' = i + 1
        /\ pc' = pc
    BY <1>6 DEF ScanBlock, counts
  <2>2. /\ i \in Nat /\ Blk = bg * PerGroup + i /\ bg * PerGroup \in Nat /\ Blk \in Nat
    BY <1>1, <2>1, ScannedBlock DEF Blks
  <2>3. Blk' = Blk + 1
    BY <2>1, <2>2 DEF Blk
  <2>4. valid \subseteq Marked
    BY <1>1, <2>1, MarkedTypes
  <2>5. ASSUME NEW b \in Heads(bg), b < Blk'
        PROVE  b \in Marked
    <3>1. b \in Nat
      BY DEF Heads, Blks
    <3>2. b < Blk \/ b = Blk
      BY <2>2, <2>3, <2>5, <3>1
    <3>3. CASE b < Blk
      BY <1>1, <2>1, <2>4, <3>3
    <3>4. CASE b = Blk
      BY <1>1, <2>1, <2>5, <3>4, HeadsAndData DEF Marked
    <3> QED
      BY <3>2, <3>3, <3>4
  <2> QED
    BY <1>1, <2>1, <2>4, <2>5
<1>7. CASE EndGroup
  <2>1. /\ pc = "scan" /\ AtEnd /\ bg' = bg + 1 /\ valid' = valid /\ kills = 0
        /\ pc' = "openInfo"
    BY <1>7 DEF EndGroup, counts
  <2>2. Heads(bg) \subseteq valid
    <3>1. \A b \in Heads(bg) : b < Blk
      BY <1>1, <2>1, ScanEnds DEF Heads
    <3> QED
      BY <1>1, <2>1, <3>1
  <2>3. \A g \in Bgs : g < bg + 1 => g < bg \/ g = bg
    BY <1>2, <1>3
  <2> QED
    BY <1>1, <2>1, <2>2, <2>3
<1>8. CASE OpenInfo \/ WriteInfo \/ OpenResult \/ WriteResult
  BY <1>1, <1>8 DEF OpenInfo, WriteInfo, OpenResult, WriteResult, command, counts
<1>9. CASE Flush
  <2>1. UNCHANGED <<bg, i, valid, kills, pc>>
    BY <1>9 DEF Flush, command, counts
  <2>2. Blk' = Blk
    BY <2>1 DEF Blk
  <2> QED
    BY <1>1, <1>9, <2>1, <2>2 DEF Flush
<1>10. CASE UNCHANGED vars
  <2>1. UNCHANGED <<bg, i, valid, kills, pc>>
    BY <1>10 DEF vars, command, counts
  <2>2. Blk' = Blk
    BY <2>1 DEF Blk
  <2> QED
    BY <1>1, <2>1, <2>2
<1>11. CASE Start \/ CreateMap \/ FillMap \/ ScanRaises \/ EndScan \/ Report \/ StartList \/ ListGroup
            \/ EndList \/ WriteFolders \/ Kill \/ Interrupt
  BY <1>11 DEF Start, CreateMap, FillMap, ScanRaises, EndScan, Report, StartList, ListGroup, EndList,
     WriteFolders, Kill, Interrupt
<1> QED
  BY <1>4, <1>5, <1>6, <1>7, <1>8, <1>9, <1>10, <1>11 DEF Next, Step

(* What a run has found in its group.                                      *)
LEMMA FoundStep == IInv /\ [Next]_vars => FoundSoFar'
<1> SUFFICES ASSUME IInv, [Next]_vars
             PROVE  FoundSoFar'
  OBVIOUS
<1> USE DEF FoundSoFar, Ending
<1>1. TypeOK /\ FoundSoFar /\ MapIsReady
  BY DEF IInv
<1>2. bg \in 0 .. BgCount /\ BgCount \in Nat \ {0}
  BY <1>1, LayoutAssumption DEF TypeOK
<1>3. CASE BeginGroup
  <2>1. /\ bg' = bg /\ blkids' = {} /\ pc = "groups" /\ bg < BgCount /\ i' = 0 /\ pc' = "scan"
        /\ image' = image
    BY <1>3 DEF BeginGroup
  <2>2. ASSUME NEW b \in DataBlks(bg)
        PROVE  ~(b < Blk')
    <3>1. b \in Blks /\ BgOf(b) = bg
      BY DEF DataBlks
    <3>2. bg * PerGroup \in Nat /\ ~(b < bg * PerGroup)
      BY <1>1, <2>1, <3>1, ScanBegins
    <3>3. Blk' = bg * PerGroup
      BY <2>1, <3>2 DEF Blk
    <3> QED
      BY <3>2, <3>3
  <2>3. SearchedUpTo(bg, Blk)'
    BY <2>1, <2>2 DEF SearchedUpTo
  <2> QED
    BY <2>1, <2>3
<1>4. CASE ScanBlock
  <2>1. /\ pc = "scan" /\ ~AtEnd /\ bg' = bg /\ blkids' = Found /\ ~Raises /\ i' = i + 1
        /\ pc' = "scan" /\ image' = image
    BY <1>4 DEF ScanBlock
  <2>2. /\ i \in Nat /\ Blk = bg * PerGroup + i /\ bg * PerGroup \in Nat /\ Blk \in Nat
    BY <1>1, <2>1, ScannedBlock DEF Blks
  <2>3. Blk' = Blk + 1
    BY <2>1, <2>2 DEF Blk
  <2>4. Blk \in DataBlks(bg) <=> Blk \notin Marked
    BY <1>1, <2>1, MarkedClean DEF MapIsReady, MapOpen
  <2>5. \A b \in DataBlks(bg) : b < Blk + 1 <=> b < Blk \/ b = Blk
    BY <2>2 DEF DataBlks, Blks
  <2>6. /\ blkids = {b \in DataBlks(bg) : b < Blk /\ image[b] = "deleted"}
        /\ \A b \in DataBlks(bg) : b < Blk => image[b] # "dir"
    BY <1>1, <2>1 DEF SearchedUpTo
  <2>7. Found = {b \in DataBlks(bg) : b < Blk + 1 /\ image[b] = "deleted"}
    <3>1. CASE image[Blk] = "deleted" /\ Blk \notin Marked
      BY <2>2, <2>4, <2>5, <2>6, <3>1 DEF Found
    <3>2. CASE ~(image[Blk] = "deleted" /\ Blk \notin Marked)
      BY <2>2, <2>4, <2>5, <2>6, <3>2 DEF Found
    <3> QED
      BY <3>1, <3>2
  <2>8. \A b \in DataBlks(bg) : b < Blk + 1 => image[b] # "dir"
    BY <2>1, <2>4, <2>5, <2>6 DEF Raises
  <2>9. SearchedUpTo(bg, Blk)'
    BY <2>1, <2>3, <2>7, <2>8 DEF SearchedUpTo
  <2> QED
    BY <2>1, <2>9
<1>5. CASE EndGroup
  <2>1. /\ pc = "scan" /\ AtEnd /\ bg' = bg + 1 /\ pc' = "openInfo"
        /\ image' = image /\ blkids' = blkids
    BY <1>5 DEF EndGroup, files
  <2>2. \A b \in DataBlks(bg) : b < Blk /\ b < BlocksCount
    BY <1>1, <2>1, ScanEnds DEF DataBlks
  <2>3. SearchedUpTo(bg, BlocksCount)
    BY <1>1, <2>1, <2>2 DEF SearchedUpTo
  <2>4. bg' - 1 = bg
    BY <1>2, <2>1
  <2>5. SearchedUpTo(bg - 1, BlocksCount)'
    BY <2>1, <2>3, <2>4 DEF SearchedUpTo
  <2> QED
    BY <2>1, <2>5
<1>6. CASE OpenInfo \/ WriteInfo \/ OpenResult
  BY <1>1, <1>6 DEF OpenInfo, WriteInfo, OpenResult, command, SearchedUpTo
<1>7. CASE Flush \/ UNCHANGED vars
  <2>1. UNCHANGED <<image, bg, i, blkids, pc>>
    BY <1>7 DEF Flush, vars, command
  <2>2. Blk' = Blk
    BY <2>1 DEF Blk
  <2> QED
    BY <1>1, <2>1, <2>2 DEF SearchedUpTo
<1>8. CASE Start \/ CreateMap \/ FillMap \/ OpenMap \/ ScanRaises \/ WriteResult \/ EndScan \/ Report
           \/ StartList \/ ListGroup \/ EndList \/ WriteFolders \/ Kill \/ Interrupt
  <2>1. pc' # "scan" /\ ~Ending'
    BY <1>8 DEF Start, CreateMap, FillMap, OpenMap, ScanRaises, WriteResult, EndScan, Report, StartList,
       ListGroup, EndList, WriteFolders, Kill, Interrupt
  <2> QED
    BY <2>1
<1> QED
  BY <1>3, <1>4, <1>5, <1>6, <1>7, <1>8 DEF Next, Step

(* The marks of the groups that count as done.                             *)
LEMMA MarksStep == IInv /\ [Next]_vars => MarksAreKept'
<1> SUFFICES ASSUME IInv, [Next]_vars, ~Fresh'
             PROVE  MarksAreKept'
  BY DEF MarksAreKept
<1>1. TypeOK /\ MarksAreKept /\ MapIsReady /\ MarkedSoFar
  BY DEF IInv
<1>2. /\ bg \in 0 .. BgCount /\ BgCount \in Nat \ {0} /\ kills \in Nat /\ Bgs = 0 .. BgCount - 1
  BY <1>1, LayoutAssumption, BoundsAssumption DEF TypeOK, Bgs
<1>3. ASSUME NEW bits
      PROVE  [map EXCEPT !.bits = bits].is = map.is /\ [map EXCEPT !.bits = bits].bits = bits
  BY <1>1 DEF TypeOK, Map
<1>4. CASE WriteInfo
  <2>1. /\ pc = "info" /\ pc' = "openResult" /\ info' = Saved
        /\ UNCHANGED <<map, bg, valid, kills>>
    BY <1>4 DEF WriteInfo, command, counts
  <2>2. map.is = "full" /\ Clean(valid)
    BY <1>1, <2>1 DEF MapIsReady, MapOpen
  <2>3. Bits' = valid /\ Done' = 0 .. bg - 1
    BY <2>1 DEF Bits, MapOpen, Done, Saved
  <2>4. kills = 0 => \A g \in 0 .. bg - 1 : Heads(g) \subseteq valid
    BY <1>1, <1>2, <2>1 DEF MarkedSoFar, MapOpen
  <2> QED
    BY <2>1, <2>2, <2>3, <2>4 DEF MarksAreKept, Clean
<1>5. CASE OpenInfo
  BY <1>5 DEF OpenInfo, InfoIs, Fresh
<1>6. CASE FillMap
  <2>1. Fresh /\ Fresh'
    BY <1>1, <1>6 DEF FillMap, MapIsReady, MarksAreKept, Fresh
  <2> QED
    BY <2>1
<1>7. CASE CreateMap
  <2>1. Fresh /\ Fresh'
    BY <1>1, <1>7 DEF CreateMap, MarksAreKept, Fresh
  <2> QED
    BY <2>1
<1>8. ASSUME ~WriteInfo, ~OpenInfo, ~FillMap, ~CreateMap
      PROVE  MarksAreKept'
  <2>1. info' = info
    BY <1>8 DEF Next, Step, vars, files, Start, StartList, OpenMap, BeginGroup, ScanBlock, ScanRaises,
       EndGroup, OpenResult, WriteResult, EndScan, Report, Flush, ListGroup, EndList, WriteFolders,
       Kill, Interrupt
  <2>2. ~Fresh /\ Done' = Done
    BY <2>1 DEF Fresh, Done
  <2>3. /\ map.is = "full" /\ Clean(Bits)
        /\ kills = 0 => \A g \in Done : Heads(g) \subseteq Bits
    BY <1>1, <2>2 DEF MarksAreKept, Clean
  <2>4. SUFFICES /\ map'.is = "full" /\ Clean(Bits')
                 /\ kills' = 0 => kills = 0 /\ Bits \subseteq Bits'
    BY <2>2, <2>3 DEF MarksAreKept, Clean
  <2>5. CASE Start
    BY <2>2, <2>3, <2>5 DEF Start, Bits, MapOpen, Resting
  <2>6. CASE OpenMap
    BY <2>3, <2>6 DEF OpenMap, Bits, MapOpen, files, counts
  <2>7. CASE BeginGroup \/ EndGroup \/ OpenResult \/ WriteResult
    BY <2>3, <2>7 DEF BeginGroup, EndGroup, OpenResult, WriteResult, Bits, MapOpen, files, command, counts
  <2>8. CASE ScanBlock \/ ScanRaises
    <3>1. pc = "scan" /\ ~AtEnd /\ Bits = valid
      BY <2>8 DEF ScanBlock, ScanRaises, Bits, MapOpen
    <3>2. Clean(Marked) /\ valid \subseteq Marked
      BY <1>1, <2>3, <3>1, MarkedClean, MarkedTypes
    <3>3. map'.is = "full" /\ Bits' = Marked /\ kills' = kills
      BY <1>3, <2>3, <2>8 DEF ScanBlock, ScanRaises, Bits, MapOpen, files, counts
    <3> QED
      BY <3>1, <3>2, <3>3
  <2>9. CASE EndScan \/ Flush
    <3>1. map'.is = "full" /\ map'.bits = valid /\ Bits = valid /\ kills' = kills
      BY <1>3, <2>3, <2>9 DEF EndScan, Flush, Bits, MapOpen, counts
    <3>2. Bits' = valid
      BY <2>9, <3>1 DEF EndScan, Flush, Bits, command
    <3> QED
      BY <2>3, <3>1, <3>2
  <2>10. CASE Report \/ StartList \/ ListGroup \/ EndList \/ WriteFolders
    <3>1. ~MapOpen /\ ~MapOpen' /\ map' = map /\ kills' = kills
      BY <2>10 DEF Report, StartList, ListGroup, EndList, WriteFolders, MapOpen, Resting, files, counts
    <3> QED
      BY <2>3, <3>1 DEF Bits
  <2>11. CASE Kill
    <3>1. ~MapOpen' /\ map' = map /\ kills' # 0
      BY <1>2, <2>11 DEF Kill, MapOpen, files
    <3>2. Clean(map.bits)
      BY <1>1, <2>3 DEF MapIsReady, Analyzing, Bits
    <3> QED
      BY <2>3, <3>1, <3>2 DEF Bits
  <2>12. CASE Interrupt
    <3>1. ~MapOpen' /\ kills' = kills /\ map'.is = "full" /\ map'.bits = Bits
      BY <1>3, <2>3, <2>12 DEF Interrupt, MapOpen, Bits
    <3> QED
      BY <2>3, <3>1 DEF Bits
  <2>13. CASE UNCHANGED vars
    <3>1. UNCHANGED <<pc, map, valid, kills>>
      BY <2>13 DEF vars, files, command, counts
    <3>2. Bits' = Bits
      BY <3>1 DEF Bits, MapOpen
    <3> QED
      BY <2>3, <3>1, <3>2
  <2> QED
    BY <1>8, <2>5, <2>6, <2>7, <2>8, <2>9, <2>10, <2>11, <2>12, <2>13 DEF Next, Step
<1> QED
  BY <1>4, <1>5, <1>6, <1>7, <1>8

-----------------------------------------------------------------------------
LEMMA BgsFinite == IsFiniteSet(Bgs)
  BY LayoutAssumption, FS_Interval DEF Bgs

LEMMA FewLost ==
  ASSUME NEW A \in SUBSET Bgs, NEW B \in SUBSET Bgs, A \subseteq B
  PROVE  Cardinality(A) \in Nat /\ Cardinality(B) \in Nat /\ Cardinality(A) <= Cardinality(B)
<1>1. IsFiniteSet(B)
  BY BgsFinite, FS_Subset
<1> QED
  BY <1>1, FS_Subset, FS_CardinalityType

LEMMA OneMoreLost ==
  ASSUME NEW A \in SUBSET Bgs, NEW B \in SUBSET Bgs, NEW g \in Bgs, A \subseteq B \cup {g}
  PROVE  Cardinality(A) <= Cardinality(B) + 1
<1>1. IsFiniteSet(B)
  BY BgsFinite, FS_Subset
<1>2. Cardinality(B) \in Nat
  BY <1>1, FS_CardinalityType
<1>3. Cardinality(B \cup {g}) = IF g \in B THEN Cardinality(B) ELSE Cardinality(B) + 1
  BY <1>1, FS_AddElement
<1>4. B \cup {g} \in SUBSET Bgs
  OBVIOUS
<1>5. /\ Cardinality(A) \in Nat /\ Cardinality(B \cup {g}) \in Nat
      /\ Cardinality(A) <= Cardinality(B \cup {g})
  BY <1>4, FewLost
<1> QED
  BY <1>2, <1>3, <1>5

LEMMA LostTypes ==
  ASSUME TypeOK
  PROVE  /\ bg \in 0 .. BgCount /\ info.bg \in 0 .. BgCount /\ BgCount \in Nat \ {0}
         /\ kills \in Nat /\ interrupts \in Nat /\ Bgs = 0 .. BgCount - 1
         /\ Lost \in SUBSET Bgs /\ Missing \in SUBSET Bgs /\ Missing = {g \in Done : results[g].is # "new"}
         /\ Done = 0 .. info.bg - 1
         /\ Cardinality(Lost) \in Nat /\ Cardinality(Missing) \in Nat
<1>1. /\ bg \in 0 .. BgCount /\ info.bg \in 0 .. BgCount /\ BgCount \in Nat \ {0}
      /\ kills \in Nat /\ interrupts \in Nat
  BY LayoutAssumption, BoundsAssumption DEF TypeOK, Info
<1>2. Bgs = 0 .. BgCount - 1 /\ Done = 0 .. info.bg - 1
  BY DEF Bgs, Done
<1>3. Lost \in SUBSET Bgs
  BY DEF Lost
<1>4. Missing \in SUBSET Bgs /\ Missing = {g \in Done : results[g].is # "new"}
  BY <1>1, <1>2 DEF Missing
<1>5. Cardinality(Lost) \in Nat /\ Cardinality(Missing) \in Nat
  BY <1>3, <1>4, FewLost
<1> QED
  BY <1>1, <1>2, <1>3, <1>4, <1>5

(* What is lost of the groups behind a run was lost by the runs before it. *)
LEMMA LostStep == IInv /\ [Next]_vars => LostSoFar'
<1> SUFFICES ASSUME IInv, [Next]_vars
             PROVE  LostSoFar'
  OBVIOUS
<1> USE DEF MapOpen, Analyzing, Ending, Writing, Behind, Fresh
<1>1. TypeOK /\ LostSoFar /\ OneLostEach /\ MapIsReady
  BY DEF IInv
<1>2. /\ bg \in 0 .. BgCount /\ info.bg \in 0 .. BgCount /\ BgCount \in Nat \ {0}
      /\ kills \in Nat /\ interrupts \in Nat /\ Bgs = 0 .. BgCount - 1
      /\ Lost \in SUBSET Bgs /\ Missing \in SUBSET Bgs /\ Missing = {g \in Done : results[g].is # "new"}
      /\ Done = 0 .. info.bg - 1
      /\ Cardinality(Lost) \in Nat /\ Cardinality(Missing) \in Nat
  BY <1>1, LostTypes
<1>3. results \in [Bgs -> Result]
  BY <1>1 DEF TypeOK
<1>4. info.is # "new" => info.bg = 0
  BY <1>1 DEF LostSoFar
<1>5. CASE Start
  <2>1. /\ pc' = "map" /\ bg' = (IF info.is # "new" THEN 0 ELSE info.bg) /\ ~Writing
        /\ UNCHANGED <<info, results, kills, interrupts>>
    BY <1>5 DEF Start, Resting
  <2>2. Lost' = Missing
    <3>1. Behind' = info.bg
      BY <1>4, <2>1
    <3>2. Lost' = {g \in Bgs : g < info.bg /\ results[g].is # "new"}
      BY <2>1, <3>1 DEF Lost
    <3> QED
      BY <1>2, <3>2
  <2>3. Cardinality(Missing) <= kills + interrupts
    BY <1>1, <1>2, <2>1 DEF OneLostEach
  <2> QED
    BY <1>1, <1>2, <1>4, <2>1, <2>2, <2>3 DEF LostSoFar
<1>6. CASE \/ CreateMap \/ FillMap \/ OpenMap \/ BeginGroup \/ ScanBlock \/ Flush
           \/ UNCHANGED vars
  <2>1. /\ UNCHANGED <<info, results, kills, interrupts, bg>>
        /\ (~Ending' /\ ~Ending /\ Analyzing) \/ UNCHANGED pc
    BY <1>6 DEF CreateMap, FillMap, OpenMap, BeginGroup, ScanBlock, Flush, vars, files, command, counts
  <2>2. Lost' = Lost
    BY <2>1 DEF Lost
  <2> QED
    BY <1>1, <2>1, <2>2 DEF LostSoFar
<1>7. CASE EndGroup
  <2>1. /\ pc = "scan" /\ pc' = "openInfo" /\ bg' = bg + 1
        /\ UNCHANGED <<info, results, kills, interrupts>>
    BY <1>7 DEF EndGroup, files, counts
  <2>2. Behind' = bg /\ Behind = bg
    BY <1>2, <2>1
  <2>3. Lost' = Lost
    BY <2>1, <2>2 DEF Lost
  <2> QED
    BY <1>1, <2>1, <2>2, <2>3 DEF LostSoFar
<1>8. CASE OpenInfo
  <2>1. /\ pc = "openInfo" /\ pc' = "info" /\ info' = [is |-> "empty", bg |-> 0]
        /\ UNCHANGED <<results, bg, kills, interrupts>>
    BY <1>8 DEF OpenInfo, InfoIs, command, counts
  <2>2. Lost' = Lost
    BY <2>1 DEF Lost
  <2> QED
    BY <1>1, <2>1, <2>2 DEF LostSoFar
<1>9. CASE WriteInfo
  <2>1. /\ pc = "info" /\ pc' = "openResult" /\ info' = [is |-> "new", bg |-> bg]
        /\ UNCHANGED <<results, bg, kills, interrupts>>
    BY <1>9 DEF WriteInfo, Saved, command, counts
  <2>2. Lost' = Lost
    BY <2>1 DEF Lost
  <2> QED
    BY <1>1, <2>1, <2>2 DEF LostSoFar
<1>10. CASE OpenResult
  <2>1. /\ pc = "openResult" /\ pc' = "result"
        /\ results' = [results EXCEPT ![bg - 1] = ResultIs("empty")]
        /\ UNCHANGED <<info, bg, kills, interrupts>>
    BY <1>10 DEF OpenResult, command, counts
  <2>2. Behind' = bg - 1 /\ Behind = bg - 1
    BY <2>1
  <2>3. \A g \in Bgs : g < bg - 1 => results'[g] = results[g]
    BY <1>2, <1>3, <2>1
  <2>4. Lost' = Lost
    BY <2>1, <2>2, <2>3 DEF Lost
  <2> QED
    BY <1>1, <2>1, <2>2, <2>4 DEF LostSoFar
<1>11. CASE WriteResult
  <2>1. /\ pc = "result" /\ pc' = "groups"
        /\ results' = [results EXCEPT ![bg - 1] = [is |-> "new", blkids |-> blkids]]
        /\ UNCHANGED <<info, bg, kills, interrupts>>
    BY <1>11 DEF WriteResult, command, counts
  <2>2. bg > 0 /\ bg - 1 \in Bgs
    BY <1>1, <1>2, <2>1 DEF TypeOK
  <2>3. Behind' = bg /\ Behind = bg - 1
    BY <2>1
  <2>4. \A g \in Bgs : g < bg - 1 => results'[g] = results[g]
    BY <1>2, <1>3, <2>1
  <2>5. results'[bg - 1].is = "new"
    BY <1>3, <2>1, <2>2
  <2>6. \A g \in Bgs : g < bg <=> g < bg - 1 \/ g = bg - 1
    BY <1>2, <2>2
  <2>7. Lost' = Lost
    BY <2>1, <2>3, <2>4, <2>5, <2>6 DEF Lost
  <2> QED
    BY <1>1, <1>2, <2>1, <2>3, <2>7 DEF LostSoFar
<1>12. CASE ScanRaises \/ EndScan \/ Report \/ StartList \/ ListGroup \/ EndList \/ WriteFolders
            \/ Kill \/ Interrupt
  <2>1. ~Analyzing' /\ info' = info
    BY <1>12 DEF ScanRaises, EndScan, Report, StartList, ListGroup, EndList, WriteFolders, Kill,
       Interrupt, files
  <2> QED
    BY <1>4, <2>1 DEF LostSoFar
<1> QED
  BY <1>5, <1>6, <1>7, <1>8, <1>9, <1>10, <1>11, <1>12 DEF Next, Step

(* What a killed run leaves behind.                                        *)
LEMMA OneLostStep == IInv /\ [Next]_vars => OneLostEach'
<1> SUFFICES ASSUME IInv, [Next]_vars
             PROVE  OneLostEach'
  OBVIOUS
<1> USE DEF Writing
<1>1. TypeOK /\ LostSoFar /\ OneLostEach
  BY DEF IInv
<1>2. /\ bg \in 0 .. BgCount /\ info.bg \in 0 .. BgCount /\ BgCount \in Nat \ {0}
      /\ kills \in Nat /\ interrupts \in Nat /\ Bgs = 0 .. BgCount - 1
      /\ Lost \in SUBSET Bgs /\ Missing \in SUBSET Bgs /\ Missing = {g \in Done : results[g].is # "new"}
      /\ Done = 0 .. info.bg - 1
      /\ Cardinality(Lost) \in Nat /\ Cardinality(Missing) \in Nat
  BY <1>1, LostTypes
<1>3. results \in [Bgs -> Result]
  BY <1>1 DEF TypeOK
<1>4. CASE OpenInfo
  <2>1. info'.bg = 0 /\ ~Writing' /\ UNCHANGED <<kills, interrupts>>
    BY <1>4 DEF OpenInfo, InfoIs, counts
  <2>2. Missing' = {}
    BY <2>1 DEF Missing, Done
  <2>3. Cardinality(Missing') = 0
    BY <2>2, FS_EmptySet
  <2> QED
    BY <1>2, <2>1, <2>3 DEF OneLostEach
<1>5. CASE WriteInfo \/ OpenResult
  <2>1. Ending /\ Writing' /\ UNCHANGED <<bg, kills, interrupts>>
    BY <1>5 DEF WriteInfo, OpenResult, Ending, command, counts
  <2>2. bg > 0 /\ bg - 1 \in Bgs
    BY <1>1, <1>2, <2>1 DEF TypeOK, Ending
  <2>3. Cardinality(Lost) <= kills + interrupts
    BY <1>1, <2>1 DEF LostSoFar, Analyzing, MapOpen, Ending
  <2>4. info'.bg \in 0 .. bg
    BY <1>1, <1>2, <1>5 DEF WriteInfo, OpenResult, Saved, LostSoFar, Analyzing, MapOpen
  <2>5. \A g \in Bgs : g < bg - 1 => results'[g] = results[g]
    BY <1>2, <1>3, <1>5 DEF WriteInfo, OpenResult
  <2>6. Missing' = {g \in 0 .. info'.bg - 1 : results'[g].is # "new"}
    BY DEF Missing, Done
  <2>7. Lost = {g \in Bgs : g < bg - 1 /\ results[g].is # "new"}
    BY <2>1 DEF Lost, Behind
  <2>8. Missing' \in SUBSET Bgs
    BY <1>2, <2>4, <2>6
  <2>9. Missing' \subseteq Lost \cup {bg - 1}
    <3> SUFFICES ASSUME NEW g \in Missing', g # bg - 1
                 PROVE  g \in Lost
      OBVIOUS
    <3>1. g \in Bgs /\ g \in 0 .. info'.bg - 1 /\ results'[g].is # "new"
      BY <2>6, <2>8
    <3>2. g < bg - 1
      BY <1>2, <2>4, <3>1
    <3>3. results'[g] = results[g]
      BY <2>5, <3>1, <3>2
    <3> QED
      BY <2>7, <3>1, <3>2, <3>3
  <2>10. Cardinality(Missing') <= Cardinality(Lost) + 1 /\ Cardinality(Missing') \in Nat
    BY <1>2, <2>2, <2>8, <2>9, OneMoreLost, FewLost
  <2> QED
    BY <1>2, <2>1, <2>3, <2>10 DEF OneLostEach
<1>6. CASE WriteResult
  <2>1. /\ pc = "result" /\ ~Writing'
        /\ results' = [results EXCEPT ![bg - 1] = [is |-> "new", blkids |-> blkids]]
        /\ UNCHANGED <<info, bg, kills, interrupts>>
    BY <1>6 DEF WriteResult, command, counts
  <2>2. bg > 0 /\ bg - 1 \in Bgs
    BY <1>1, <1>2, <2>1 DEF TypeOK
  <2>3. Cardinality(Lost) <= kills + interrupts
    BY <1>1, <2>1 DEF LostSoFar, Analyzing, MapOpen
  <2>4. info.bg \in 0 .. bg
    BY <1>1, <1>2, <2>1 DEF LostSoFar, Analyzing, MapOpen
  <2>5. /\ \A g \in Bgs : g < bg - 1 => results'[g] = results[g]
        /\ results'[bg - 1].is = "new"
    BY <1>2, <1>3, <2>1, <2>2
  <2>6. Missing' = {g \in 0 .. info.bg - 1 : results'[g].is # "new"}
    BY <2>1 DEF Missing, Done
  <2>7. Lost = {g \in Bgs : g < bg - 1 /\ results[g].is # "new"}
    BY <2>1 DEF Lost, Behind, Ending
  <2>8. Missing' \subseteq Lost
    <3>1. \A g \in 0 .. info.bg - 1 : g \in Bgs /\ (g < bg - 1 \/ g = bg - 1)
      BY <1>2, <2>2, <2>4
    <3> QED
      BY <2>5, <2>6, <2>7, <3>1
  <2>9. Cardinality(Missing') <= Cardinality(Lost) /\ Cardinality(Missing') \in Nat
    BY <1>2, <2>8, FewLost
  <2> QED
    BY <1>2, <2>1, <2>3, <2>9 DEF OneLostEach
<1>7. ASSUME ~OpenInfo, ~WriteInfo, ~OpenResult, ~WriteResult
      PROVE  OneLostEach'
  <2>1. UNCHANGED <<info, results>>
    BY <1>7 DEF Next, Step, vars, files, Start, StartList, CreateMap, FillMap, OpenMap, BeginGroup,
       ScanBlock, ScanRaises, EndGroup, EndScan, Report, Flush, ListGroup, EndList, WriteFolders,
       Kill, Interrupt
  <2>2. Missing' = Missing
    BY <2>1 DEF Missing, Done
  <2>3. \/ kills' + interrupts' = kills + interrupts /\ (Writing' <=> Writing)
        \/ kills' + interrupts' = kills + interrupts + 1
    <3>1. CASE Kill \/ Interrupt
      BY <1>2, <3>1 DEF Kill, Interrupt
    <3>2. CASE Flush \/ UNCHANGED vars
      BY <3>2 DEF Flush, vars, command, counts
    <3>3. CASE ~Kill /\ ~Interrupt /\ ~Flush /\ ~UNCHANGED vars
      BY <1>7, <3>3 DEF Next, Step, counts, Resting, Start, StartList, CreateMap, FillMap, OpenMap,
         BeginGroup, ScanBlock, ScanRaises, EndGroup, EndScan, Report, ListGroup, EndList, WriteFolders
    <3> QED
      BY <3>1, <3>2, <3>3
  <2>4. kills' \in Nat /\ interrupts' \in Nat
    BY <1>1, TypeStep, BoundsAssumption DEF TypeOK
  <2>5. Cardinality(Missing') = Cardinality(Missing)
    BY <2>2
  <2>6. Cardinality(Missing) <= kills + interrupts + (IF Writing THEN 1 ELSE 0)
    BY <1>1 DEF OneLostEach
  <2>7. Cardinality(Missing') <= kills' + interrupts' + (IF Writing' THEN 1 ELSE 0)
    <3>1. CASE kills' + interrupts' = kills + interrupts /\ (Writing' <=> Writing)
      BY <2>5, <2>6, <3>1
    <3>2. CASE kills' + interrupts' = kills + interrupts + 1
      <4>1. Cardinality(Missing) <= kills + interrupts + 1
        BY <1>2, <2>6
      <4>2. Cardinality(Missing') <= kills' + interrupts'
        BY <2>5, <3>2, <4>1
      <4>3. CASE Writing'
        BY <1>2, <2>4, <2>5, <4>2, <4>3
      <4>4. CASE ~Writing'
        BY <1>2, <2>4, <2>5, <4>2, <4>4
      <4> QED
        BY <4>3, <4>4
    <3> QED
      BY <2>3, <3>1, <3>2
  <2> QED
    BY <2>7 DEF OneLostEach
<1> QED
  BY <1>4, <1>5, <1>6, <1>7

LEMMA InvInit == Init => IInv
<1> SUFFICES ASSUME Init
             PROVE  IInv
  OBVIOUS
<1>1. TypeOK
  BY TypeInit
<1>2. /\ info.is # "new" /\ info.bg = 0 /\ pc = "idle" /\ kills = 0 /\ interrupts = 0
      /\ \A g \in Bgs : results[g].is # "new"
  BY DEF Init, InfoIs, ResultIs
<1>3. ResultsAreExact
  BY <1>2 DEF ResultsAreExact
<1>4. Fresh /\ MarksAreKept
  BY <1>2 DEF MarksAreKept, Fresh
<1>5. Cardinality(Missing) = 0
  <2>1. Missing = {}
    BY <1>2 DEF Missing, Done
  <2> QED
    BY <2>1, FS_EmptySet
<1>6. OneLostEach
  BY <1>2, <1>5 DEF OneLostEach, Writing
<1>7. ~MapOpen /\ ~Analyzing /\ ~Ending
  BY <1>2 DEF MapOpen, Analyzing, Ending
<1>8. MapIsReady /\ LostSoFar /\ MarkedSoFar /\ FoundSoFar
  BY <1>2, <1>7 DEF MapIsReady, LostSoFar, MarkedSoFar, FoundSoFar
<1> QED
  BY <1>1, <1>3, <1>4, <1>6, <1>8 DEF IInv

LEMMA InvStep == IInv /\ [Next]_vars => IInv'
  BY TypeStep, ResultsStep, MarksStep, OneLostStep, MapStep, LostStep, MarkedStep, FoundStep DEF IInv

LEMMA InvCorrect == Spec => []IInv
  BY InvInit, InvStep, PTL DEF Spec

(* What is kept of a group is exactly its good directories, whatever was   *)
(* cut short before and whatever the bits on the disk were.                *)
THEOREM ResultsCorrect == Spec => []ResultsAreExact
<1>1. IInv => ResultsAreExact
  BY DEF IInv
<1> QED
  BY <1>1, InvCorrect, PTL

(* A run that is cut short loses one group at most.                        *)
THEOREM LostCorrect == Spec => []OneLostEach
<1>1. IInv => OneLostEach
  BY DEF IInv
<1> QED
  BY <1>1, InvCorrect, PTL

(* The bits of a run that goes on are a whole file and mark no data block, *)
(* and only a kill loses marks of the groups that are done.                *)
THEOREM MarksCorrect == Spec => []MarksAreKept
<1>1. IInv => MarksAreKept
  BY DEF IInv
<1> QED
  BY <1>1, InvCorrect, PTL

(* A list whose known_folders.pickle is there is whole: it is written last *)
(* and never again.                                                        *)
THEOREM FoldersCorrect == Spec => []FoldersMeanList
<1> DEFINE Whole == /\ list \in {"none", "partial", "whole"}
                    /\ pc = "folders" => list = "whole"
                    /\ folders = TRUE => list = "whole"
<1>1. Init => Whole
  BY DEF Init
<1>2. Whole /\ [Next]_vars => Whole'
  <2> SUFFICES ASSUME Whole, [Next]_vars
               PROVE  Whole'
    OBVIOUS
  <2>1. CASE StartList
    BY <2>1 DEF StartList, Unlisted
  <2>2. CASE EndList
    BY <2>2 DEF EndList
  <2>3. CASE WriteFolders
    BY <2>3 DEF WriteFolders
  <2>4. CASE Start \/ CreateMap \/ FillMap \/ OpenMap \/ BeginGroup \/ ScanBlock \/ ScanRaises \/ EndGroup
    BY <2>4 DEF Start, CreateMap, FillMap, OpenMap, BeginGroup, ScanBlock, ScanRaises, EndGroup, files
  <2>5. CASE OpenInfo \/ WriteInfo \/ OpenResult \/ WriteResult \/ EndScan \/ Report
    BY <2>5 DEF OpenInfo, WriteInfo, OpenResult, WriteResult, EndScan, Report, files
  <2>6. CASE ListGroup \/ Kill \/ Interrupt
    BY <2>6 DEF ListGroup, Kill, Interrupt, files
  <2>7. CASE Flush \/ UNCHANGED vars
    BY <2>7 DEF Flush, vars, files
  <2> QED
    BY <2>1, <2>2, <2>3, <2>4, <2>5, <2>6, <2>7 DEF Next, Step
<1>3. Whole /\ TypeOK => FoldersMeanList
  BY DEF TypeOK, FoldersMeanList
<1> QED
  BY <1>1, <1>2, <1>3, TypeCorrect, PTL DEF Spec
-----------------------------------------------------------------------------
(* grep.  A byte ends where the next one begins.                           *)
LEMMA NextBit ==
  ASSUME NEW a \in Nat, NEW w \in Nat \ {0}, (a + 1) % w # 0
  PROVE  (a + 1) - ((a + 1) % w) = a - (a % w)
<1> DEFINE q == a \div w  r == a % w  s == (a + 1) \div w  t == (a + 1) % w
<1>1. q \in Nat /\ r \in 0 .. w - 1 /\ a = w * q + r
  BY DivMod
<1>2. s \in Nat /\ t \in 0 .. w - 1 /\ a + 1 = w * s + t
  <2> DEFINE c == a + 1
  <2>1. c \in Nat
    OBVIOUS
  <2> HIDE DEF c
  <2>2. c \div w \in Nat /\ c % w \in 0 .. w - 1 /\ c = w * (c \div w) + (c % w)
    BY <2>1, DivMod
  <2> QED
    BY <2>2 DEF c
<1> HIDE DEF q, r, s, t
<1>3. t # 0
  BY DEF t
<1>4. w * q \in Nat /\ w * s \in Nat
  BY <1>1, <1>2
<1>5. CASE q < s
  <2>1. (q + 1) * w <= s * w
    BY <1>1, <1>2, <1>5, TimesMono
  <2>2. (q + 1) * w = w * q + w /\ s * w = w * s
    BY <1>1, <1>2
  <2> QED
    BY <1>1, <1>2, <1>3, <1>4, <2>1, <2>2
<1>6. CASE s < q
  <2>1. (s + 1) * w <= q * w
    BY <1>1, <1>2, <1>6, TimesMono
  <2>2. (s + 1) * w = w * s + w /\ q * w = w * q
    BY <1>1, <1>2
  <2> QED
    BY <1>1, <1>2, <1>4, <2>1, <2>2
<1>7. CASE q = s
  BY <1>1, <1>2, <1>4, <1>7 DEF r, t
<1> QED
  BY <1>1, <1>2, <1>5, <1>6, <1>7

LEMMA ByteOfBlock ==
  ASSUME NEW b \in 0 .. BlocksCount - 1
  PROVE  /\ b \div Width \in Nat /\ b \div Width < Bytes
         /\ b % Width \in 0 .. Width - 1 /\ b - (b % Width) = (b \div Width) * Width
<1> DEFINE q == b \div Width  r == b % Width  m == Bytes
<1>1. Width \in Nat \ {0} /\ BlocksCount \in Nat /\ BlocksCount % Width = 0 /\ b \in Nat
  BY LayoutAssumption, BytesAssumption
<1>2. q \in Nat /\ r \in 0 .. Width - 1 /\ b = Width * q + r
  BY <1>1, DivMod
<1>3. m \in Nat /\ BlocksCount = Width * m
  BY <1>1, DivMod DEF Bytes
<1> HIDE DEF q, r, m
<1>4. Width * q \in Nat /\ Width * q = q * Width /\ Width * m = m * Width
  BY <1>1, <1>2, <1>3
<1>5. q < m
  <2>1. SUFFICES ASSUME m <= q PROVE FALSE
    BY <1>2, <1>3
  <2>2. m * Width <= q * Width
    BY <1>1, <1>2, <1>3, <2>1, TimesMono
  <2> QED
    BY <1>1, <1>2, <1>3, <1>4, <2>2
<1> QED
  BY <1>2, <1>4, <1>5 DEF q, r, m

LEMMA BytesIsNat == Bytes \in Nat
  BY LayoutAssumption, BytesAssumption, DivMod DEF Bytes

(* Whatever happens to the file, it marks no data block if it did not.     *)
LEMMA FileStaysClean ==
  ASSUME IInv, [Next]_vars, Clean(map.bits)
  PROVE  Clean(map'.bits)
<1>1. TypeOK /\ (MapOpen => Clean(valid))
  BY DEF IInv, MapIsReady
<1>2. ASSUME NEW bits
      PROVE  [map EXCEPT !.bits = bits].bits = bits
  BY <1>1 DEF TypeOK, Map
<1>3. CASE Start \/ CreateMap \/ FillMap
  BY <1>3 DEF Start, CreateMap, FillMap, NoMap, Clean
<1>4. CASE ScanRaises
  <2>1. Clean(Marked)
    BY <1>1, <1>4, MarkedClean DEF ScanRaises, MapOpen
  <2> QED
    BY <1>2, <1>4, <2>1 DEF ScanRaises
<1>5. CASE EndScan \/ Flush \/ Interrupt
  BY <1>1, <1>2, <1>5 DEF EndScan, Flush, Interrupt, MapOpen
<1>6. CASE UNCHANGED vars
  BY <1>6 DEF vars, files
<1>7. CASE \/ OpenMap \/ BeginGroup \/ ScanBlock \/ EndGroup \/ OpenInfo \/ WriteInfo \/ OpenResult
           \/ WriteResult \/ Report \/ StartList \/ ListGroup \/ EndList \/ WriteFolders \/ Kill
  BY <1>7 DEF OpenMap, BeginGroup, ScanBlock, EndGroup, OpenInfo, WriteInfo, OpenResult, WriteResult,
              Report, StartList, ListGroup, EndList, WriteFolders, Kill, files
<1> QED
  BY <1>3, <1>4, <1>5, <1>6, <1>7 DEF Next, Step

LEMMA GrepInit0 == GrepInit => GrepInv
<1> SUFFICES ASSUME GrepInit
             PROVE  GrepInv
  OBVIOUS
<1>1. IInv
  BY InvInit DEF GrepInit
<1>2. GrepTypeOK
  <2>1. Bytes \in Nat /\ MaxGreps \in Nat
    BY BytesIsNat, BytesAssumption
  <2>2. NoWindow \in [from : 0 .. Bytes, bits : SUBSET Blks] /\ NoMap \in Map
    BY <2>1 DEF NoWindow, NoMap, Map
  <2>3. 0 <= BlocksCount /\ {} \subseteq Blks
    BY LayoutAssumption
  <2>4. open \in Map /\ window \in [from : 0 .. Bytes, bits : SUBSET Blks]
    BY <2>2 DEF GrepInit
  <2>5. greps \in 0 .. MaxGreps /\ n \in Nat /\ total \in Nat /\ at = "ready"
    BY <2>1 DEF GrepInit
  <2>6. /\ linked \in BOOLEAN /\ ofThis \in BOOLEAN /\ byte \subseteq 0 .. Width - 1
        /\ searched \subseteq Blks /\ kept \in {"none", "empty", "whole"}
    BY DEF GrepInit
  <2> QED
    BY <2>4, <2>5, <2>6 DEF GrepTypeOK
<1> QED
  BY <1>1, <1>2 DEF GrepInit, GrepInv, GrepIsClean, GrepMissesNoData

(* What grep does leaves analyze and its files alone, and the other way    *)
(* round but for the file that is open.                                    *)
LEMMA FollowStep ==
  ASSUME GrepInv, IInv', Next, Follow
  PROVE  (GrepTypeOK /\ GrepIsClean /\ GrepMissesNoData)'
<1> USE DEF GrepInv, Follow
<1>1. map' \in Map
  BY DEF IInv, TypeOK
<1>2. GrepTypeOK'
  BY <1>1 DEF GrepTypeOK
<1>3. linked' => open' = map'
  OBVIOUS
<1>4. ofThis => Clean(open'.bits)
  <2> SUFFICES ASSUME ofThis, linked'
               PROVE  Clean(map'.bits)
    BY DEF GrepIsClean
  <2>1. Clean(map.bits)
    BY DEF GrepIsClean
  <2> QED
    BY <2>1, FileStaysClean
<1>5. GrepIsClean'
  BY <1>3, <1>4 DEF GrepIsClean, Clean, Base, DataBlks, Heads
<1>6. GrepMissesNoData'
  BY DEF GrepMissesNoData
<1> QED
  BY <1>2, <1>5, <1>6

LEMMA LeaveStep ==
  ASSUME GrepInv, Leave, kept' \in {"none", "empty", "whole"}, UNCHANGED vars
  PROVE  (GrepTypeOK /\ GrepIsClean /\ GrepMissesNoData)'
<1>1. Bytes \in Nat
  BY BytesIsNat
<1>2. NoWindow \in [from : 0 .. Bytes, bits : SUBSET Blks] /\ NoMap \in Map
  BY <1>1 DEF NoWindow, NoMap, Map
<1> QED
  BY <1>2 DEF GrepInv, Leave, GrepTypeOK, GrepIsClean, GrepMissesNoData

LEMMA FilledTypes ==
  ASSUME GrepInv, NEW o \in 0 .. Bytes - 1
  PROVE  /\ Filled(o) \in [from : 0 .. Bytes, bits : SUBSET Blks]
         /\ ByteAt(o) \subseteq 0 .. Width - 1 /\ Zeros(ByteAt(o)) \in Nat
         /\ ofThis => Clean(Filled(o).bits)
<1>1. Filled(o) \in [from : 0 .. Bytes, bits : SUBSET Blks]
  BY BytesIsNat DEF GrepInv, GrepTypeOK, Filled, Map
<1>2. ByteAt(o) \subseteq 0 .. Width - 1
  BY DEF ByteAt
<1>3. Zeros(ByteAt(o)) \in Nat
  <2>1. IsFiniteSet(0 .. Width - 1) /\ Cardinality(0 .. Width - 1) = Width
    <3>1. Width \in Nat \ {0} /\ 0 \in Int /\ Width - 1 \in Int /\ ~(0 > Width - 1) /\ (Width - 1) - 0 + 1 = Width
      BY BytesAssumption
    <3>2. \A a, b \in Int : /\ IsFiniteSet(a .. b)
                            /\ Cardinality(a .. b) = IF a > b THEN 0 ELSE b - a + 1
      BY FS_Interval
    <3>3. IsFiniteSet(0 .. Width - 1) /\ Cardinality(0 .. Width - 1) = (Width - 1) - 0 + 1
      BY <3>1, <3>2
    <3> QED
      BY <3>1, <3>3
  <2>2. Cardinality(ByteAt(o)) \in Nat /\ Cardinality(ByteAt(o)) <= Width
    BY <1>2, <2>1, FS_Subset, FS_CardinalityType
  <2> QED
    BY <2>2, BytesAssumption DEF Zeros
<1>4. ofThis => Clean(Filled(o).bits)
  BY DEF GrepInv, GrepIsClean, Filled
<1> QED
  BY <1>1, <1>2, <1>3, <1>4

LEMMA EachBitStep ==
  ASSUME GrepInv, EachBit, UNCHANGED vars
  PROVE  (GrepTypeOK /\ GrepIsClean /\ GrepMissesNoData)'
<1> DEFINE o == n \div Width  r == n % Width
<1>1. /\ n \in 0 .. BlocksCount - 1 /\ n \in Blks /\ n \in Nat /\ BlocksCount \in Nat
      /\ Width \in Nat \ {0}
  BY LayoutAssumption, BytesAssumption DEF GrepInv, GrepTypeOK, EachBit, Blks
<1>2. o \in 0 .. Bytes - 1 /\ r \in 0 .. Width - 1 /\ n - r = o * Width
  BY <1>1, ByteOfBlock, BytesIsNat
<1>3. /\ window' = IF r = 0 THEN Filled(o) ELSE window
      /\ byte' = Current /\ Current = IF r = 0 THEN ByteAt(o) ELSE byte
      /\ searched' = IF r \in Current THEN searched ELSE searched \cup {n}
      /\ n' = n + 1 /\ at = "each" /\ n < BlocksCount
      /\ UNCHANGED <<at, open, linked, total, kept, greps, ofThis>>
  BY DEF EachBit, Current
<1> HIDE DEF o, r
<1>4. Current \subseteq 0 .. Width - 1
  BY <1>2, <1>3, FilledTypes DEF GrepInv, GrepTypeOK
<1>5. GrepTypeOK'
  BY <1>1, <1>2, <1>3, <1>4, FilledTypes DEF GrepInv, GrepTypeOK
<1>6. ASSUME ofThis
      PROVE  Clean({(n - r) + k : k \in Current})
  <2>1. CASE r = 0
    <3>1. Current = {k \in 0 .. Width - 1 : o * Width + k \in Filled(o).bits}
      BY <1>3, <2>1 DEF ByteAt
    <3>2. {(n - r) + k : k \in Current} \subseteq Filled(o).bits
      BY <1>2, <3>1
    <3> QED
      BY <1>2, <1>6, <3>2, FilledTypes DEF Clean
  <2>2. CASE r # 0
    BY <1>3, <1>6, <2>2 DEF GrepInv, GrepIsClean, Base, r
  <2> QED
    BY <2>1, <2>2
<1>7. ASSUME ofThis
      PROVE  /\ n' % Width # 0 => Clean({Base + k : k \in byte})'
             /\ \A g \in Bgs : \A b \in DataBlks(g)' : b < n' => b \in searched'
  <2>1. n' % Width # 0 => Base' = n - r
    BY <1>1, <1>3, NextBit DEF Base, r
  <2>2. \A g \in Bgs : DataBlks(g)' = DataBlks(g)
    BY DEF DataBlks, Heads
  <2>3. ASSUME NEW g \in Bgs, NEW b \in DataBlks(g), b < n'
        PROVE  b \in searched'
    <3>1. b \in Nat
      BY LayoutAssumption DEF DataBlks, Blks
    <3>2. CASE b < n
      BY <1>3, <1>7, <3>2 DEF GrepInv, GrepIsClean
    <3>3. CASE b = n
      <4>1. r \in Current => n \in {(n - r) + k : k \in Current}
        <5>1. (n - r) + r = n
          BY <1>1, <1>2
        <5> QED
          BY <5>1
      <4>2. r \notin Current
        BY <1>6, <1>7, <3>3, <4>1 DEF Clean
      <4> QED
        BY <1>3, <3>3, <4>2
    <3> QED
      BY <1>1, <1>3, <2>3, <3>1, <3>2, <3>3
  <2> QED
    BY <1>3, <1>6, <1>7, <2>1, <2>2, <2>3 DEF Clean
<1>8. ofThis => Clean(window'.bits)
  BY <1>2, <1>3, FilledTypes DEF GrepInv, GrepIsClean
<1>9. GrepIsClean'
  BY <1>3, <1>7, <1>8 DEF GrepInv, GrepIsClean, vars, files, Clean, DataBlks, Heads
<1>10. GrepMissesNoData'
  BY <1>3 DEF GrepMissesNoData
<1> QED
  BY <1>5, <1>9, <1>10

LEMMA GrepInvStep == GrepInv /\ [GrepNext]_allVars => GrepInv'
<1> SUFFICES ASSUME GrepInv, [GrepNext]_allVars
             PROVE  GrepInv'
  OBVIOUS
<1>1. IInv'
  <2>1. [Next]_vars
    BY DEF GrepNext, allVars
  <2> QED
    BY <2>1, InvStep DEF GrepInv
<1> SUFFICES (GrepTypeOK /\ GrepIsClean /\ GrepMissesNoData)'
  BY <1>1 DEF GrepInv
<1>2. CASE Next /\ Follow
  BY <1>1, <1>2, FollowStep
<1>3. CASE UNCHANGED allVars
  BY <1>3 DEF allVars, grepVars, vars, files, GrepInv, GrepTypeOK, GrepIsClean, GrepMissesNoData,
              Clean, Base, DataBlks, Heads
<1>4. CASE StartGrep /\ UNCHANGED vars
  <2>1. map \in Map /\ map' = map
    BY <1>4 DEF GrepInv, IInv, TypeOK, vars, files
  <2>2. ~Fresh => Clean(map.bits)
    BY DEF GrepInv, IInv, MarksAreKept, MapIsReady, Bits, Analyzing, Clean
  <2>3. GrepTypeOK'
    BY <1>4, <2>1, BytesAssumption DEF StartGrep, GrepInv, GrepTypeOK
  <2>4. window' = window /\ window.bits = {}
    BY <1>4 DEF StartGrep, GrepInv, GrepIsClean, NoWindow
  <2> QED
    BY <1>4, <2>1, <2>2, <2>3, <2>4 DEF StartGrep, GrepIsClean, GrepMissesNoData, Clean
<1>5. CASE (CountFails \/ StopGrep \/ DumpKept) /\ UNCHANGED vars
  <2>1. Leave /\ kept' \in {"none", "empty", "whole"}
    BY <1>5 DEF CountFails, StopGrep, DumpKept, GrepInv, GrepTypeOK
  <2> QED
    BY <1>5, <2>1, LeaveStep
<1>6. CASE CountByte /\ UNCHANGED vars
  <2>1. n \in 0 .. Bytes - 1
    BY <1>6, BytesIsNat DEF CountByte, GrepInv, GrepTypeOK
  <2> QED
    BY <1>6, <2>1, FilledTypes DEF CountByte, GrepInv, GrepTypeOK, GrepIsClean, GrepMissesNoData,
                                   vars, files, Clean, DataBlks, Heads
<1>7. CASE Counted /\ UNCHANGED vars
  <2>1. n' = 0 /\ Width \in Nat \ {0} /\ n' % Width = 0 /\ BlocksCount \in Nat
    BY <1>7, LayoutAssumption, BytesAssumption DEF Counted
  <2>2. \A g \in Bgs : \A b \in DataBlks(g)' : ~(b < n')
    BY <2>1, LayoutAssumption DEF DataBlks, Blks
  <2> QED
    BY <1>7, <2>1, <2>2 DEF Counted, GrepInv, GrepTypeOK, GrepIsClean, GrepMissesNoData,
                            vars, files, Clean, DataBlks, Heads
<1>8. CASE EachBit /\ UNCHANGED vars
  BY <1>8, EachBitStep
<1>9. CASE OpenKept /\ UNCHANGED vars
  <2>1. \A g \in Bgs : \A b \in DataBlks(g) : b < n
    BY <1>9, LayoutAssumption DEF OpenKept, DataBlks, Blks
  <2> QED
    BY <1>9, <2>1 DEF OpenKept, GrepInv, GrepTypeOK, GrepIsClean, GrepMissesNoData,
                      vars, files, Clean, DataBlks, Heads
<1> QED
  BY <1>2, <1>3, <1>4, <1>5, <1>6, <1>7, <1>8, <1>9 DEF GrepNext, GrepStep

(* Type correctness of grep beside analyze.                                *)
THEOREM GrepTypeCorrect == GrepSpec => []GrepTypeOK
<1>1. GrepInv => GrepTypeOK
  BY DEF GrepInv
<1> QED
  BY <1>1, GrepInit0, GrepInvStep, PTL DEF GrepSpec

(* A search that comes to its end has looked at every block of data, for   *)
(* every layout, width of a byte and buffer, whatever analyze did with the *)
(* file meanwhile.                                                         *)
THEOREM GrepCorrect == GrepSpec => []GrepMissesNoData
<1>1. GrepInv => GrepMissesNoData
  BY DEF GrepInv
<1> QED
  BY <1>1, GrepInit0, GrepInvStep, PTL DEF GrepSpec
-----------------------------------------------------------------------------
(* The progress of grep.  The bits of a byte that are not set, as blocks:  *)
(* they are as many, and lie where the byte does.                          *)
ClearIn(o, clear) == {o * Width + k : k \in clear}

LEMMA ClearBits ==
  ASSUME NEW o \in 0 .. Bytes - 1, NEW clear \in SUBSET (0 .. Width - 1)
  PROVE  /\ IsFiniteSet(clear) /\ IsFiniteSet(ClearIn(o, clear))
         /\ Cardinality(ClearIn(o, clear)) = Cardinality(clear)
         /\ \A b \in ClearIn(o, clear) : b \in Nat /\ o * Width <= b /\ b < o * Width + Width
         /\ o * Width + Width <= BlocksCount /\ o * Width \in Nat
<1> DEFINE T == ClearIn(o, clear)
           f == [k \in clear |-> o * Width + k]
<1>1. Width \in Nat \ {0} /\ BlocksCount \in Nat /\ Bytes \in Nat /\ o \in Nat /\ o + 1 <= Bytes
  BY LayoutAssumption, BytesAssumption, BytesIsNat
<1>2. o * Width \in Nat /\ o * Width + Width <= BlocksCount
  <2> DEFINE m == Bytes
  <2>1. BlocksCount = Width * m
    BY <1>1, BytesAssumption, DivMod DEF Bytes
  <2> HIDE DEF m
  <2>2. m \in Nat /\ o + 1 <= m
    BY <1>1 DEF m
  <2>3. (o + 1) * Width <= m * Width
    BY <1>1, <2>2, TimesMono
  <2>4. (o + 1) * Width = o * Width + Width /\ m * Width = Width * m /\ o * Width \in Nat
    BY <1>1, <2>2
  <2> QED
    BY <2>1, <2>3, <2>4
<1>3. IsFiniteSet(0 .. Width - 1)
  BY <1>1, FS_Interval
<1>4. IsFiniteSet(clear)
  BY <1>3, FS_Subset
<1>5. f \in Bijection(clear, T)
  <2> DEFINE d == o * Width
  <2>1. d \in Int /\ clear \subseteq Int
    BY <1>1, <1>2
  <2>2. T = {d + k : k \in clear} /\ f = [k \in clear |-> d + k]
    BY DEF ClearIn
  <2> HIDE DEF d, f, T
  <2>3. f \in [clear -> T] /\ \A t \in T : \E k \in clear : f[k] = t
    BY <2>2
  <2>4. \A j, k \in clear : f[j] = f[k] => j = k
    BY <2>1, <2>2
  <2> QED
    BY <2>3, <2>4 DEF Bijection, Injection, Surjection, IsInjective
<1>6. IsFiniteSet(T) /\ Cardinality(T) = Cardinality(clear)
  <2>1. ExistsBijection(clear, T)
    BY <1>5 DEF ExistsBijection
  <2> QED
    BY <1>4, <2>1, FS_Bijection
<1>7. ASSUME NEW b \in T
      PROVE  b \in Nat /\ o * Width <= b /\ b < o * Width + Width
  <2>1. PICK k \in clear : b = o * Width + k
    BY DEF ClearIn
  <2> QED
    BY <1>1, <1>2, <2>1
<1> QED
  BY <1>2, <1>4, <1>6, <1>7

LEMMA BlksFinite == IsFiniteSet(Blks) /\ Blks = 0 .. BlocksCount - 1
  BY LayoutAssumption, FS_Interval DEF Blks

(* The zeros of a byte are the bits that are clear in it.                  *)
LEMMA ZerosAreClear ==
  ASSUME NEW set \in SUBSET (0 .. Width - 1)
  PROVE  Zeros(set) = Cardinality((0 .. Width - 1) \ set)
<1> DEFINE all == 0 .. Width - 1
<1>1. IsFiniteSet(all) /\ Cardinality(all) = Width
  <2>1. Width \in Nat \ {0} /\ 0 \in Int /\ Width - 1 \in Int /\ ~(0 > Width - 1) /\ (Width - 1) - 0 + 1 = Width
    BY BytesAssumption
  <2>2. IsFiniteSet(all) /\ Cardinality(all) = IF 0 > Width - 1 THEN 0 ELSE (Width - 1) - 0 + 1
    BY <2>1, FS_Interval
  <2> QED
    BY <2>1, <2>2
<1> HIDE DEF all
<1>2. Cardinality(all \ set) = Cardinality(all) - Cardinality(all \cap set)
  BY <1>1, FS_Difference
<1>3. all \cap set = set
  BY DEF all
<1> QED
  BY <1>1, <1>2, <1>3 DEF Zeros, all

(* No mark is taken back.                                                  *)
LEMMA MarksOnlyGrow ==
  ASSUME IInv, [Next]_vars, MapOpen => map.bits \subseteq valid,
         map.is # "full" => map.bits = {}
  PROVE  /\ (MapOpen => map.bits \subseteq valid)'
         /\ (map.is # "full" => map.bits = {})'
         /\ map'.is # "none" => map.bits \subseteq map'.bits
<1>1. /\ map \in Map /\ map' = [is |-> map'.is, bits |-> map'.bits]
      /\ MapOpen => map.is = "full"
      /\ pc = "zeros" => map.is = "short"
      /\ \A bits : /\ [map EXCEPT !.bits = bits].is = map.is
                   /\ [map EXCEPT !.bits = bits].bits = bits
  <2>1. map' \in Map
    BY InvStep DEF IInv, TypeOK
  <2> QED
    BY <2>1 DEF IInv, TypeOK, MapIsReady, Map
<1>2. CASE Start \/ CreateMap \/ FillMap
  BY <1>1, <1>2 DEF Start, CreateMap, FillMap, NoMap, MapOpen
<1>3. CASE OpenMap
  BY <1>3 DEF OpenMap, MapOpen, files, command
<1>4. CASE ScanBlock \/ ScanRaises
  BY <1>1, <1>4 DEF ScanBlock, ScanRaises, Marked, MapOpen, files
<1>5. CASE EndScan \/ Flush \/ Interrupt
  BY <1>1, <1>5 DEF EndScan, Flush, Interrupt, MapOpen, command
<1>6. CASE \/ BeginGroup \/ EndGroup \/ OpenInfo \/ WriteInfo \/ OpenResult \/ WriteResult
  BY <1>6 DEF BeginGroup, EndGroup, OpenInfo, WriteInfo, OpenResult, WriteResult, MapOpen, files, command
<1>7. CASE Report \/ StartList \/ ListGroup \/ EndList \/ WriteFolders \/ Kill
  BY <1>7 DEF Report, StartList, ListGroup, EndList, WriteFolders, Kill, MapOpen, files
<1>8. CASE UNCHANGED vars
  BY <1>8 DEF vars, files, command, MapOpen
<1> QED
  BY <1>2, <1>3, <1>4, <1>5, <1>6, <1>7, <1>8 DEF Next, Step

(* What was read of the file last has the marks that were read before.     *)
LEMMA FilledGrows ==
  ASSUME ProgressInv, NEW o
  PROVE  /\ window.bits \subseteq Filled(o).bits
         /\ Filled(o).bits \subseteq open.bits
         /\ Filled(o).bits \subseteq Blks
BY DEF ProgressInv, MarksGrow, Filled, GrepInv, GrepTypeOK, Map

(* Counting a byte adds the blocks whose bits are clear in it.             *)
LEMMA CountByteStep ==
  ASSUME ProgressInv, CountByte
  PROVE  \E U \in SUBSET Blks : ToSearch(U)'
<1>1. PICK U \in SUBSET Blks : ToSearch(U)
  BY DEF ProgressInv
<1> DEFINE set == ByteAt(n)
           clear == (0 .. Width - 1) \ set
           T == ClearIn(n, clear)
           d == n * Width
<1>2. /\ at = "count" /\ at' = at /\ n < Bytes /\ window' = Filled(n)
      /\ total' = total + Zeros(set) /\ n' = n + 1 /\ searched' = searched
  BY DEF CountByte
<1>3. n \in 0 .. Bytes - 1 /\ total \in Nat /\ set \in SUBSET (0 .. Width - 1)
      /\ Width \in Nat \ {0} /\ BlocksCount \in Nat
  BY <1>2, BytesIsNat, BytesAssumption, LayoutAssumption DEF ProgressInv, GrepInv, GrepTypeOK, ByteAt
<1>4. /\ IsFiniteSet(T) /\ Cardinality(T) = Cardinality(clear)
      /\ \A b \in T : b \in Nat /\ d <= b /\ b < d + Width
      /\ d + Width <= BlocksCount /\ d \in Nat
  <2>1. clear \in SUBSET (0 .. Width - 1)
    OBVIOUS
  <2> HIDE DEF clear
  <2> QED
    BY <1>3, <2>1, ClearBits
<1>5. Cardinality(clear) = Zeros(set)
  BY <1>3, ZerosAreClear
<1>6. Covered = 0 .. d - 1 /\ Covered' = 0 .. d + Width - 1
  <2> DEFINE e == (n + 1) * Width
  <2>1. e = d + Width
    BY <1>3
  <2>2. Covered = 0 .. d - 1
    BY <1>2 DEF Covered
  <2>3. Covered' = 0 .. e - 1
    BY <1>2 DEF Covered
  <2> HIDE DEF d, e
  <2>4. e - 1 = d + Width - 1
    BY <1>3, <1>4, <2>1
  <2> QED
    BY <2>2, <2>3, <2>4
<1>7. ASSUME NEW b \in 0 .. d + Width - 1
      PROVE  b < d \/ b \in T \/ b \in Filled(n).bits
  <2> SUFFICES ASSUME ~(b < d), b \notin T
               PROVE  b \in Filled(n).bits
    OBVIOUS
  <2>1. b - d \in 0 .. Width - 1 /\ b = d + (b - d)
    <3> HIDE DEF d
    <3> QED
      BY <1>3, <1>4
  <2>2. b - d \notin clear
    BY <2>1 DEF ClearIn
  <2>3. b - d \in ByteAt(n)
    BY <2>1, <2>2
  <2>4. n * Width + (b - d) \in Filled(n).bits
    BY <2>3 DEF ByteAt
  <2> QED
    BY <2>1, <2>4
<1> HIDE DEF T, set, clear, d
<1>8. /\ T \subseteq Blks /\ T \subseteq Covered'
      /\ U \subseteq 0 .. d - 1 /\ U \subseteq Covered'
  <2>1. U \subseteq 0 .. d - 1
    BY <1>1, <1>6 DEF ToSearch
  <2>2. 0 .. d - 1 \subseteq 0 .. d + Width - 1
    BY <1>3, <1>4
  <2>3. T \subseteq 0 .. d + Width - 1 /\ T \subseteq 0 .. BlocksCount - 1
    BY <1>3, <1>4
  <2> QED
    BY <1>6, <2>1, <2>2, <2>3, BlksFinite
<1>9. U \cap T = {}
  <2> SUFFICES ASSUME NEW b \in U, b \in T
               PROVE  FALSE
    OBVIOUS
  <2>1. b \in 0 .. d - 1 /\ d <= b
    BY <1>4, <1>8
  <2> QED
    BY <1>4, <2>1
<1>10. Cardinality(U \cup T) = total + Zeros(set)
  <2>1. IsFiniteSet(U) /\ Cardinality(U) = total
    BY <1>1, BlksFinite, FS_Subset DEF ToSearch
  <2>2. Cardinality(U \cup T) = Cardinality(U) + Cardinality(T) - Cardinality(U \cap T)
    BY <1>4, <2>1, FS_Union
  <2>3. Cardinality(U \cap T) = 0 /\ Cardinality(T) \in Nat
    BY <1>4, <1>9, FS_EmptySet, FS_CardinalityType
  <2> QED
    BY <1>3, <1>4, <1>5, <2>1, <2>2, <2>3
<1>11. Covered' \subseteq (U \cup T) \cup window'.bits
  <2> SUFFICES ASSUME NEW b \in 0 .. d + Width - 1, b \notin T
               PROVE  b \in U \/ b \in Filled(n).bits
    BY <1>2, <1>6
  <2>1. CASE b < d
    <3>1. b \in Covered
      BY <1>4, <1>6, <2>1
    <3>2. b \in U \/ b \in window.bits
      BY <1>1, <3>1 DEF ToSearch
    <3> QED
      BY <3>2, FilledGrows
  <2> QED
    BY <1>7, <2>1
<1>12. PICK V \in SUBSET Blks : V = U \cup T
  BY <1>8
<1>13. ToSearch(V)'
  <2>1. at' # "each" /\ searched' \subseteq V
    BY <1>1, <1>2, <1>12 DEF ToSearch
  <2>2. Cardinality(V) = total' /\ V \subseteq Covered' /\ Covered' \subseteq V \cup window'.bits
    BY <1>2, <1>8, <1>10, <1>11, <1>12
  <2> QED
    BY <2>1, <2>2 DEF ToSearch
<1> QED
  BY <1>13

(* A block that is searched was counted.                                   *)
LEMMA EachBitCounts ==
  ASSUME ProgressInv, EachBit
  PROVE  \E U \in SUBSET Blks : ToSearch(U)'
<1>1. PICK U \in SUBSET Blks : ToSearch(U)
  BY DEF ProgressInv
<1> DEFINE o == n \div Width  r == n % Width
<1>2. /\ n \in 0 .. BlocksCount - 1 /\ n \in Nat /\ Width \in Nat \ {0} /\ BlocksCount \in Nat
  BY LayoutAssumption, BytesAssumption DEF ProgressInv, GrepInv, GrepTypeOK, EachBit
<1>3. o \in 0 .. Bytes - 1 /\ r \in 0 .. Width - 1 /\ n - r = o * Width
  <2>1. /\ n \div Width \in Nat /\ n \div Width < Bytes
        /\ n % Width \in 0 .. Width - 1 /\ n - (n % Width) = (n \div Width) * Width
    BY <1>2, ByteOfBlock
  <2>2. n \div Width \in 0 .. Bytes - 1
    BY <2>1, BytesIsNat
  <2> QED
    BY <2>1, <2>2
<1>4. /\ window' = IF r = 0 THEN Filled(o) ELSE window
      /\ byte' = Current /\ Current = IF r = 0 THEN ByteAt(o) ELSE byte
      /\ searched' = IF r \in Current THEN searched ELSE searched \cup {n}
      /\ n' = n + 1 /\ at = "each" /\ UNCHANGED <<at, total>>
  BY DEF EachBit, Current
<1>5. Base = n - r
  BY DEF Base
<1>6. o * Width + Width <= BlocksCount /\ o * Width \in Nat
  BY <1>3, ClearBits
<1> HIDE DEF o, r
<1>7. Covered = Blks /\ Covered' = Blks
  BY <1>4 DEF Covered
<1>8. Blks \subseteq U \cup window.bits /\ window.bits \subseteq window'.bits
  BY <1>1, <1>4, <1>7, FilledGrows DEF ToSearch
<1>9. ASSUME NEW k \in 0 .. Width - 1
      PROVE  (n - r) + k \in U \/ k \in Current
  <2>1. CASE r = 0
    <3>1. o * Width + k \in Blks
      BY <1>2, <1>3, <1>6, BlksFinite
    <3>2. o * Width + k \in U \/ o * Width + k \in Filled(o).bits
      BY <1>4, <1>8, <2>1, <3>1
    <3>3. o * Width + k \in U \/ k \in ByteAt(o)
      BY <3>2 DEF ByteAt
    <3> QED
      BY <1>3, <1>4, <2>1, <3>3
  <2>2. CASE r # 0
    BY <1>1, <1>4, <1>5, <2>2 DEF ToSearch, r
  <2> QED
    BY <2>1, <2>2
<1>10. searched' \subseteq U
  <2>1. (n - r) + r = n
    BY <1>2, <1>3
  <2>2. n \in U \/ r \in Current
    BY <1>3, <1>9, <2>1
  <2> QED
    BY <1>1, <1>4, <2>2 DEF ToSearch
<1>11. n' % Width # 0 => \A k \in 0 .. Width - 1 : (Base + k \in U \/ k \in byte)'
  <2>1. n' % Width # 0 => Base' = n - r
    BY <1>2, <1>4, NextBit DEF Base, r
  <2> QED
    BY <1>4, <1>9, <2>1
<1>12. ToSearch(U)'
  <2>1. Cardinality(U) = total' /\ U \subseteq Covered'
    BY <1>1, <1>4, <1>7 DEF ToSearch
  <2>2. Covered' \subseteq U \cup window'.bits
    BY <1>7, <1>8
  <2> QED
    BY <1>10, <1>11, <2>1, <2>2 DEF ToSearch
<1> QED
  BY <1>12

LEMMA ProgressInit == GrepInit => ProgressInv
<1> SUFFICES ASSUME GrepInit PROVE ProgressInv
  OBVIOUS
<1>1. GrepInv
  BY GrepInit0
<1>2. MarksGrow
  BY DEF GrepInit, Init, MarksGrow, MapOpen, NoMap, NoWindow
<1>3. ToSearch({})
  <2>1. n = 0 /\ at = "ready" /\ total = 0 /\ searched = {} /\ Width \in Nat
    BY BytesAssumption DEF GrepInit
  <2>2. Covered = {}
    BY <2>1 DEF Covered
  <2> QED
    BY <2>1, <2>2, FS_EmptySet DEF ToSearch
<1> QED
  BY <1>1, <1>2, <1>3 DEF ProgressInv

LEMMA LeavingCounts ==
  ASSUME Leave
  PROVE  \E U \in SUBSET Blks : ToSearch(U)'
<1>1. at' = "ready" /\ n' = 0 /\ total' = 0 /\ searched' = {} /\ Width \in Nat
  BY BytesAssumption DEF Leave
<1>2. Covered' = {}
  BY <1>1 DEF Covered
<1>3. ToSearch({})'
  BY <1>1, <1>2, FS_EmptySet DEF ToSearch
<1> QED
  BY <1>3

LEMMA ProgressStep == ProgressInv /\ [GrepNext]_allVars => ProgressInv'
<1> SUFFICES ASSUME ProgressInv, [GrepNext]_allVars
             PROVE  ProgressInv'
  OBVIOUS
<1> SUFFICES MarksGrow' /\ \E U \in SUBSET Blks : ToSearch(U)'
  <2>1. GrepInv'
    BY GrepInvStep DEF ProgressInv
  <2> QED
    BY <2>1 DEF ProgressInv
<1>1. PICK U \in SUBSET Blks : ToSearch(U)
  BY DEF ProgressInv
<1>2. MarksGrow /\ GrepInv
  BY DEF ProgressInv
<1>marks. ASSUME UNCHANGED vars, window'.bits \subseteq open'.bits
          PROVE  MarksGrow'
  BY <1>2, <1>marks DEF MarksGrow, MapOpen, vars, files, command
<1>same. ASSUME UNCHANGED <<window, n, byte, total, searched>>,
                at' = at \/ (at = "ready" /\ at' = "count") \/ (at = "each" /\ at' = "dump")
         PROVE  ToSearch(U)'
  <2>1. Covered' = Covered /\ Base' = Base /\ (at' = "each" => at = "each")
    BY <1>same DEF Covered, Base
  <2>2. at' = "each" /\ n' % Width # 0 => \A k \in 0 .. Width - 1 : (Base + k \in U \/ k \in byte)'
    BY <1>1, <1>same, <2>1 DEF ToSearch
  <2> QED
    BY <1>1, <1>same, <2>1, <2>2 DEF ToSearch
<1>3. CASE Next /\ Follow
  <2>1. ToSearch(U)'
    BY <1>3, <1>same DEF Follow
  <2>2. /\ (MapOpen => map.bits \subseteq valid)'
        /\ (map.is # "full" => map.bits = {})'
        /\ map'.is # "none" => map.bits \subseteq map'.bits
    BY <1>2, <1>3, MarksOnlyGrow DEF MarksGrow, GrepInv
  <2>3. window'.bits \subseteq open'.bits
    BY <1>2, <1>3, <2>2 DEF Follow, MarksGrow, GrepInv, GrepIsClean
  <2> QED
    BY <2>1, <2>2, <2>3 DEF MarksGrow
<1>4. CASE UNCHANGED allVars
  <2>1. UNCHANGED vars /\ UNCHANGED grepVars
    BY <1>4 DEF allVars
  <2>2. UNCHANGED <<at, open, window, n, byte, total, searched>>
    BY <2>1 DEF grepVars
  <2> QED
    BY <1>2, <1>marks, <1>same, <2>1, <2>2 DEF MarksGrow
<1>5. CASE StartGrep /\ UNCHANGED vars
  <2>1. window' = window /\ window.bits = {}
    BY <1>2, <1>5 DEF StartGrep, GrepInv, GrepIsClean, NoWindow
  <2> QED
    BY <1>5, <1>marks, <1>same, <2>1 DEF StartGrep
<1>6. CASE (CountFails \/ StopGrep \/ DumpKept) /\ UNCHANGED vars
  <2>1. Leave
    BY <1>6 DEF CountFails, StopGrep, DumpKept
  <2>2. window'.bits = {}
    BY <2>1 DEF Leave, NoWindow
  <2> QED
    BY <1>6, <1>marks, <2>1, <2>2, LeavingCounts
<1>7. CASE CountByte /\ UNCHANGED vars
  <2>1. window'.bits \subseteq open'.bits
    BY <1>7, FilledGrows DEF CountByte
  <2> QED
    BY <1>7, <1>marks, <2>1, CountByteStep
<1>8. CASE Counted /\ UNCHANGED vars
  <2>1. /\ at = "count" /\ n = Bytes /\ at' = "each" /\ n' = 0
        /\ UNCHANGED <<open, window, byte, total, searched>>
    BY <1>8 DEF Counted
  <2>2. Bytes * Width = BlocksCount /\ 0 % Width = 0
    <3> DEFINE m == Bytes
    <3>1. Width \in Nat \ {0} /\ BlocksCount \in Nat /\ BlocksCount = Width * m /\ m \in Nat
      BY LayoutAssumption, BytesAssumption, BytesIsNat, DivMod DEF Bytes
    <3> HIDE DEF m
    <3>2. m * Width = BlocksCount /\ 0 % Width = 0
      BY <3>1
    <3> QED
      BY <3>2 DEF m
  <2>3. Covered = Blks /\ Covered' = Blks
    BY <2>1, <2>2, BlksFinite DEF Covered
  <2>4. ToSearch(U)'
    BY <1>1, <2>1, <2>2, <2>3 DEF ToSearch
  <2>5. window'.bits \subseteq open'.bits
    BY <1>2, <2>1 DEF MarksGrow
  <2> QED
    BY <1>8, <1>marks, <2>4, <2>5
<1>9. CASE EachBit /\ UNCHANGED vars
  <2>1. window'.bits \subseteq open'.bits
    BY <1>2, <1>9, FilledGrows DEF EachBit, MarksGrow
  <2> QED
    BY <1>9, <1>marks, <2>1, EachBitCounts
<1>10. CASE OpenKept /\ UNCHANGED vars
  <2>1. UNCHANGED <<open, window, n, byte, total, searched>> /\ at = "each" /\ at' = "dump"
    BY <1>10 DEF OpenKept
  <2> QED
    BY <1>2, <1>10, <1>marks, <1>same, <2>1 DEF MarksGrow
<1> QED
  BY <1>3, <1>4, <1>5, <1>6, <1>7, <1>8, <1>9, <1>10 DEF GrepNext, GrepStep

(* grep never searches more blocks than it counted, though the bits were   *)
(* read twice, through a buffer, and set by analyze between the readings   *)
(* and during them.                                                        *)
THEOREM ProgressCorrect == GrepSpec => []ProgressIsDefined
<1>1. ProgressInv => ProgressIsDefined
  <2> SUFFICES ASSUME ProgressInv PROVE ProgressIsDefined
    OBVIOUS
  <2>1. PICK U \in SUBSET Blks : ToSearch(U)
    BY DEF ProgressInv
  <2>2. IsFiniteSet(U) /\ searched \in SUBSET U /\ Cardinality(U) = total
    BY <2>1, BlksFinite, FS_Subset DEF ToSearch
  <2>3. Cardinality(searched) <= Cardinality(U)
    BY <2>2, FS_Subset
  <2> QED
    BY <2>2, <2>3 DEF ProgressIsDefined
<1> QED
  BY <1>1, ProgressInit, ProgressStep, PTL DEF GrepSpec
=============================================================================
