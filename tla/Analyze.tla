-------------------------------- MODULE Analyze --------------------------------
(***************************************************************************)
(* The commands analyze and build_file_list (pyutil/main.py).  analyze     *)
(* looks at every block of the image, group by group, for directories.     *)
(* After each group it writes how many groups are done to                  *)
(* analysis_info.pickle, then what it found to analysis_bg<n>.pickle; the  *)
(* blocks that need no second look are bits of analysis_blocks.data, which *)
(* are written through a buffer.  build_file_list reads what was found.    *)
(*                                                                         *)
(* One command runs at a time.  It may be killed or interrupted between    *)
(* any two steps, and the next run goes on from the files.                 *)
(***************************************************************************)
EXTENDS Integers, FiniteSets

CONSTANTS
  BgCount,        \* sb.bg_count
  PerGroup,       \* sb.blocks_per_group
  BlocksCount,    \* sb.blocks_count_lo
  HeadCount,      \* the blocks at the beginning of each group that hold its metadata
  Images,         \* the images, each as what its blocks are
  MaxRuns,        \* bound: commands started
  MaxKills,       \* bound: commands killed
  MaxInterrupts   \* bound: commands interrupted

Bgs       == 0 .. BgCount - 1
Blks      == 0 .. BlocksCount - 1
BgOf(blk) == blk \div PerGroup

(* What DirectoryBlk.validate makes of a block: "plain" has errors or is   *)
(* free; "deleted" is a good directory whose entries have no valid inode;  *)
(* "dir" is one with an entry that has, or one that cannot be read.        *)
BlockKind == {"plain", "deleted", "dir"}

ASSUME LayoutAssumption ==
  /\ BgCount \in Nat \ {0} /\ PerGroup \in Nat \ {0} /\ BlocksCount \in Nat
  /\ (BgCount - 1) * PerGroup < BlocksCount /\ BlocksCount <= BgCount * PerGroup
  /\ HeadCount \in [Bgs -> 0 .. PerGroup]
ASSUME ImagesAssumption == Images \subseteq [Blks -> BlockKind]
ASSUME BoundsAssumption == MaxRuns \in Nat /\ MaxKills \in Nat /\ MaxInterrupts \in Nat

VARIABLES
  image,     \* the blocks: analyze does not write them
  (* the files *)
  info,      \* analysis_info.pickle: the state of the file and the number in it
  results,   \* analysis_bg<n>.pickle of each group
  map,       \* analysis_blocks.data: whether it is there, and its bits
  list,      \* file_list.txt
  folders,   \* whether known_folders.pickle is there
  (* the command *)
  pc, bg, i,
  valid,     \* the bits as the run sees them, the buffer included
  blkids,    \* the directories found in the group
  runs, kills, interrupts

files   == <<info, results, map, list, folders>>
counts  == <<runs, kills, interrupts>>
command == <<bg, i, valid, blkids>>
vars    == <<image, files, pc, command, counts>>

(* "old" is a file of an earlier version of analyze, "empty" one that was  *)
(* opened to be written and not yet closed.                                *)
Info   == [is : {"none", "empty", "old", "new"}, bg : 0 .. BgCount]
Result == [is : {"none", "empty", "old", "new"}, blkids : SUBSET Blks]
Map    == [is : {"none", "short", "full"}, bits : SUBSET Blks]

NoMap        == [is |-> "none", bits |-> {}]
InfoIs(s)    == [is |-> s, bg |-> 0]
ResultIs(s)  == [is |-> s, blkids |-> {}]

(* Before the first run there is nothing, or what an old version left.     *)
Init ==
  /\ image \in Images
  /\ \/ /\ info = InfoIs("none")
        /\ results = [g \in Bgs |-> ResultIs("none")]
        /\ map = NoMap
     \/ /\ info = InfoIs("old")
        /\ results = [g \in Bgs |-> ResultIs("old")]
        /\ map \in [is : {"full"}, bits : {{}, Blks}]
  /\ list = "none" /\ folders = FALSE
  /\ pc = "idle" /\ bg = 0 /\ i = 0 /\ valid = {} /\ blkids = {}
  /\ runs = 0 /\ kills = 0 /\ interrupts = 0
-----------------------------------------------------------------------------
Resting == pc \in {"idle", "reported"}
MapOpen == pc \in {"groups", "scan", "openInfo", "info", "openResult", "result"}

(* Without a readable info of this version everything starts over, and the *)
(* bits are removed; the results are not.                                  *)
Fresh == info.is # "new"
Start ==
  /\ Resting /\ runs < MaxRuns
  /\ runs' = runs + 1
  /\ bg' = IF Fresh THEN 0 ELSE info.bg
  /\ map' = IF Fresh THEN NoMap ELSE map
  /\ pc' = "map"
  /\ UNCHANGED <<image, info, results, list, folders, i, valid, blkids, kills, interrupts>>

(* The bits are created when there is no such file ...                     *)
CreateMap ==
  /\ pc = "map" /\ map.is = "none"
  /\ map' = [is |-> "short", bits |-> {}]
  /\ pc' = "zeros"
  /\ UNCHANGED <<image, info, results, list, folders, command, counts>>

FillMap ==
  /\ pc = "zeros"
  /\ map' = [is |-> "full", bits |-> {}]
  /\ pc' = "map"
  /\ UNCHANGED <<image, info, results, list, folders, command, counts>>

(* ... and opened again to be read and written.                            *)
OpenMap ==
  /\ pc = "map" /\ map.is # "none"
  /\ valid' = map.bits
  /\ pc' = "groups"
  /\ UNCHANGED <<image, files, bg, i, blkids, counts>>

BeginGroup ==
  /\ pc = "groups" /\ bg < BgCount
  /\ i' = 0
  /\ blkids' = {}
  /\ pc' = "scan"
  /\ UNCHANGED <<image, files, bg, valid, counts>>

Blk        == bg * PerGroup + i
AtEnd     == i = PerGroup \/ Blk = BlocksCount

(* The metadata is marked, what is marked is passed over.                  *)
MarkedIncl  == IF i <= HeadCount[bg] THEN valid \cup {Blk} ELSE valid   \* a slip
Marked      == IF i < HeadCount[bg] THEN valid \cup {Blk} ELSE valid
FoundAlways == blkids \cup {Blk}                        \* a slip: errors do not matter
Found       == IF image[Blk] = "deleted" /\ Blk \notin Marked THEN blkids \cup {Blk} ELSE blkids
Raises      == image[Blk] = "dir" /\ Blk \notin Marked

(* The bits have a byte for every block only when the file is full.        *)
ScanBlock ==
  /\ pc = "scan" /\ ~AtEnd
  /\ map.is = "full" /\ ~Raises
  /\ valid' = Marked
  /\ blkids' = Found
  /\ i' = i + 1
  /\ UNCHANGED <<image, files, pc, bg, counts>>

(* The command ends, and what it knew is gone.                             *)
Gone ==
  /\ bg' = 0 /\ i' = 0 /\ valid' = {} /\ blkids' = {}

(* A byte of the bits is missing; or the entries of a good directory have  *)
(* an inode, and iter(inode) does not take the attribute allow0.  Leaving  *)
(* the with statement writes what is in the buffer.                        *)
ScanRaises ==
  /\ pc = "scan" /\ ~AtEnd
  /\ map.is # "full" \/ Raises
  /\ map' = [map EXCEPT !.bits = Marked]
  /\ pc' = "idle"
  /\ Gone
  /\ UNCHANGED <<image, info, results, list, folders, counts>>

EndGroup ==
  /\ pc = "scan" /\ AtEnd
  /\ bg' = bg + 1
  /\ pc' = "openInfo"
  /\ UNCHANGED <<image, files, i, valid, blkids, counts>>

(* The number of groups done is written ...                                *)
OpenInfo ==
  /\ pc = "openInfo"
  /\ info' = InfoIs("empty")
  /\ pc' = "info"
  /\ UNCHANGED <<image, results, map, list, folders, command, counts>>

SavedNext == [is |-> "new", bg |-> IF bg < BgCount THEN bg + 1 ELSE bg]   \* a slip: the next one
Saved     == [is |-> "new", bg |-> bg]
WriteInfo ==
  /\ pc = "info"
  /\ info' = Saved
  /\ pc' = "openResult"
  /\ UNCHANGED <<image, results, map, list, folders, command, counts>>

(* ... before what was found in the last of them.                          *)
OpenResult ==
  /\ pc = "openResult"
  /\ results' = [results EXCEPT ![bg - 1] = ResultIs("empty")]
  /\ pc' = "result"
  /\ UNCHANGED <<image, info, map, list, folders, command, counts>>

WriteResult ==
  /\ pc = "result"
  /\ results' = [results EXCEPT ![bg - 1] = [is |-> "new", blkids |-> blkids]]
  /\ pc' = "groups"
  /\ UNCHANGED <<image, info, map, list, folders, command, counts>>

(* Closing the bits writes the buffer.                                     *)
EndScan ==
  /\ pc = "groups" /\ bg = BgCount
  /\ map' = [map EXCEPT !.bits = valid]
  /\ pc' = "load"
  /\ UNCHANGED <<image, info, results, list, folders, command, counts>>

(* The report reads the results of all groups, of any version.             *)
Loads(g) == results[g].is \in {"old", "new"}
Report ==
  /\ pc = "load"
  /\ pc' = IF \A g \in Bgs : Loads(g) THEN "reported" ELSE "idle"
  /\ Gone
  /\ UNCHANGED <<image, files, counts>>

(* The stream writes its buffer when it has to move it.                    *)
Flush ==
  /\ MapOpen /\ map.bits # valid
  /\ map' = [map EXCEPT !.bits = valid]
  /\ UNCHANGED <<image, info, results, list, folders, pc, command, counts>>
-----------------------------------------------------------------------------
(* build_file_list does nothing when there is a list.                      *)
Unlisted  == list = "none"
StartList ==
  /\ Resting /\ runs < MaxRuns
  /\ Unlisted
  /\ runs' = runs + 1
  /\ list' = "partial"
  /\ i' = 0
  /\ pc' = "list"
  /\ UNCHANGED <<image, info, results, map, folders, bg, valid, blkids, kills, interrupts>>

ListGroup ==
  /\ pc = "list" /\ i < BgCount
  /\ IF Loads(i) THEN i' = i + 1 /\ pc' = pc /\ UNCHANGED <<bg, valid, blkids>>
                 ELSE pc' = "idle" /\ Gone
  /\ UNCHANGED <<image, files, counts>>

ListedLate == i > BgCount           \* a slip: waits for one more
Listed     == i = BgCount
EndList ==
  /\ pc = "list" /\ Listed
  /\ list' = "whole"
  /\ pc' = "folders"
  /\ UNCHANGED <<image, info, results, map, folders, command, counts>>

WriteFolders ==
  /\ pc = "folders"
  /\ folders' = TRUE
  /\ pc' = "idle"
  /\ Gone
  /\ UNCHANGED <<image, info, results, map, list, counts>>
-----------------------------------------------------------------------------
(* Killed: what was not written is lost.                                   *)
Kill ==
  /\ ~Resting /\ kills < MaxKills
  /\ kills' = kills + 1
  /\ pc' = "idle"
  /\ Gone
  /\ UNCHANGED <<image, files, runs, interrupts>>

(* Interrupted: an exception, and the streams are closed.                  *)
Interrupt ==
  /\ ~Resting /\ interrupts < MaxInterrupts
  /\ interrupts' = interrupts + 1
  /\ map' = IF MapOpen THEN [map EXCEPT !.bits = valid] ELSE map
  /\ pc' = "idle"
  /\ Gone
  /\ UNCHANGED <<image, info, results, list, folders, runs, kills>>

Step ==
  \/ CreateMap \/ FillMap \/ OpenMap \/ BeginGroup \/ ScanBlock \/ ScanRaises \/ EndGroup
  \/ OpenInfo \/ WriteInfo \/ OpenResult \/ WriteResult \/ EndScan \/ Report
  \/ ListGroup \/ EndList \/ WriteFolders

Next == Start \/ StartList \/ Step \/ Flush \/ Kill \/ Interrupt

Spec == Init /\ [][Next]_vars
-----------------------------------------------------------------------------
TypeOK ==
  /\ image \in Images
  /\ info \in Info /\ results \in [Bgs -> Result] /\ map \in Map
  /\ list \in {"none", "partial", "whole"} /\ folders \in BOOLEAN
  /\ pc \in {"idle", "reported", "map", "zeros", "groups", "scan", "openInfo", "info",
             "openResult", "result", "load", "list", "folders"}
  /\ bg \in 0 .. BgCount
  /\ pc = "scan" => bg < BgCount
  /\ pc \in {"openInfo", "info", "openResult", "result"} => bg > 0
  /\ i \in Nat
  /\ pc = "scan" => i <= PerGroup /\ Blk <= BlocksCount
  /\ valid \subseteq Blks /\ blkids \subseteq Blks
  /\ runs \in 0 .. MaxRuns /\ kills \in 0 .. MaxKills /\ interrupts \in 0 .. MaxInterrupts

Heads(g)      == {b \in Blks : BgOf(b) = g /\ b - g * PerGroup < HeadCount[g]}
DataBlks(g)   == {b \in Blks : BgOf(b) = g /\ b \notin Heads(g)}
Done          == 0 .. info.bg - 1
Writing       == pc \in {"openResult", "result"}

(* "Search every block for blocks that look like directory entries": what  *)
(* is kept of a group is exactly its good directories, however the bits    *)
(* came about; a group with a directory in use is never done.              *)
ResultsAreExact == \A g \in Bgs : results[g].is = "new" =>
  /\ results[g].blkids = {b \in DataBlks(g) : image[b] = "deleted"}
  /\ \A b \in DataBlks(g) : image[b] # "dir"

(* The groups that count as done and have no result of this analysis are   *)
(* no more than the runs that were cut short: a run loses one at most.     *)
Missing      == {g \in Done : results[g].is # "new"}
OneLostEach  == Cardinality(Missing) <= kills + interrupts + (IF Writing THEN 1 ELSE 0)

(* The bits of a run that goes on are those of the groups it passes over:  *)
(* the file is whole, whatever was cut short when it was created, no data  *)
(* block is marked, and as long as no run was killed no mark is lost.      *)
Bits == IF MapOpen THEN valid ELSE map.bits
MarksAreKept == ~Fresh =>
  /\ map.is = "full"
  /\ \A g \in Bgs : Bits \cap DataBlks(g) = {}
  /\ kills = 0 => \A g \in Done : Heads(g) \subseteq Bits

(* A list with its known_folders.pickle is whole.                          *)
FoldersMeanList == folders => list = "whole"

(* Inductive.  The groups a run has behind it, of which the last may not   *)
(* be written yet; what it has marked and found so far.                    *)
Analyzing == MapOpen \/ pc \in {"map", "zeros"}
Ending    == pc \in {"openInfo", "info", "openResult", "result"}
Behind    == IF Ending THEN bg - 1 ELSE bg
Lost      == {g \in Bgs : g < Behind /\ results[g].is # "new"}
Clean(bits) == \A g \in Bgs : bits \cap DataBlks(g) = {}

MapIsReady ==
  /\ pc = "map" => map.is # "short" /\ bg = (IF Fresh THEN 0 ELSE info.bg)
  /\ pc = "zeros" => map.is = "short" /\ bg = 0
  /\ MapOpen => map.is = "full" /\ Clean(valid)
  /\ Analyzing => Clean(map.bits)
LostSoFar ==
  /\ Fresh => info.bg = 0
  /\ Analyzing => Cardinality(Lost) <= kills + interrupts
  /\ Analyzing /\ ~Fresh => IF Writing THEN info.bg = bg ELSE info.bg <= Behind
MarkedSoFar ==
  MapOpen /\ kills = 0 =>
    /\ \A g \in Bgs : g < bg => Heads(g) \subseteq valid
    /\ pc = "scan" => \A b \in Heads(bg) : b < Blk => b \in valid
SearchedUpTo(g, end) ==
  /\ blkids = {b \in DataBlks(g) : b < end /\ image[b] = "deleted"}
  /\ \A b \in DataBlks(g) : b < end => image[b] # "dir"
FoundSoFar ==
  /\ pc = "scan" => SearchedUpTo(bg, Blk)
  /\ Ending => SearchedUpTo(bg - 1, BlocksCount)

IInv ==
  /\ TypeOK /\ ResultsAreExact /\ MarksAreKept /\ OneLostEach
  /\ MapIsReady /\ LostSoFar /\ MarkedSoFar /\ FoundSoFar

(* "Search every block": a report is about groups that were searched.      *)
ReportIsOfThisSearch == pc = "reported" => \A g \in Bgs : results[g].is = "new"
=============================================================================
