---------------------------------- MODULE Grep ----------------------------------
(***************************************************************************)
(* grep (pyutil/main.py) searches every block whose bit is not set in      *)
(* analysis_blocks.data, and reads these bits as e2fs/bitmap.py does: a    *)
(* byte at a time, through the buffer of the stream.  It is another run of *)
(* the program, beside those of Analyze: analyze may write the file while  *)
(* grep reads it, or remove it and make another one.                       *)
(***************************************************************************)
EXTENDS Analyze

CONSTANTS
  Width,     \* the bits of a byte: 8
  Ahead,     \* the bytes that are read at once, from the one that is asked for
  MaxGreps   \* bound: runs of grep

ASSUME BytesAssumption == /\ Width \in Nat \ {0} /\ Ahead \in Nat \ {0} /\ MaxGreps \in Nat
                          /\ BlocksCount % Width = 0    \* analyze asserts it

VARIABLES
  at,        \* what grep does
  open,      \* the bits of the file it has open
  linked,    \* that file is still analysis_blocks.data
  window,    \* the buffer: the first byte in it, and the bits there were
  n,         \* the next byte to count, or the next block
  byte,      \* the byte of that block
  total,     \* the blocks to search, as they were counted
  searched,
  kept,      \* the file of the result
  greps,
  ofThis     \* history: analyze had saved a number of groups when the file was opened

grepVars == <<at, open, linked, window, n, byte, total, searched, kept, greps, ofThis>>
allVars  == <<vars, grepVars>>

Bytes    == BlocksCount \div Width
NoWindow == [from |-> Bytes, bits |-> {}]

GrepInit ==
  /\ Init
  /\ at = "ready" /\ open = NoMap /\ linked = FALSE /\ window = NoWindow
  /\ n = 0 /\ byte = {} /\ total = 0 /\ searched = {}
  /\ kept = "none" /\ greps = 0 /\ ofThis = FALSE
-----------------------------------------------------------------------------
(* Bitmap.byte: a byte that is not in the buffer is read, and those after  *)
(* it are read ahead.                                                      *)
Buffered(o) == window.from <= o /\ o < window.from + Ahead
Filled(o)   == IF Buffered(o) THEN window ELSE [from |-> o, bits |-> open.bits]
ByteAt(o)   == {k \in 0 .. Width - 1 : o * Width + k \in Filled(o).bits}

Leave ==
  /\ at' = "ready" /\ open' = NoMap /\ linked' = FALSE /\ window' = NoWindow
  /\ n' = 0 /\ byte' = {} /\ total' = 0 /\ searched' = {} /\ ofThis' = FALSE
  /\ UNCHANGED greps

(* A result that can be loaded is shown and that is all.  Without the file *)
(* of the bits there is an exception.                                      *)
StartGrep ==
  /\ at = "ready" /\ greps < MaxGreps
  /\ kept # "whole" /\ map.is # "none"
  /\ greps' = greps + 1
  /\ at' = "count"
  /\ open' = map /\ linked' = TRUE /\ ofThis' = ~Fresh
  /\ UNCHANGED <<window, n, byte, total, searched, kept>>

(* total() - len(valid).                                                   *)
Ones(b)  == Cardinality(b)                     \* a slip: those that are set
Zeros(b) == Width - Cardinality(b)
CountByte ==
  /\ at = "count" /\ n < Bytes /\ open.is = "full"
  /\ window' = Filled(n)
  /\ total' = total + Zeros(ByteAt(n))
  /\ n' = n + 1
  /\ UNCHANGED <<at, open, linked, byte, searched, kept, greps, ofThis>>

(* A byte is missing: EOF.                                                 *)
CountFails ==
  /\ at = "count" /\ n < Bytes /\ open.is # "full"
  /\ Leave /\ UNCHANGED kept

Counted ==
  /\ at = "count" /\ n = Bytes
  /\ at' = "each" /\ n' = 0
  /\ UNCHANGED <<open, linked, window, byte, total, searched, kept, greps, ofThis>>

(* BitmapIter.__next__: the byte is read again when its first bit is.      *)
ReadOnce == IF n = 0 THEN ByteAt(0) ELSE byte   \* a slip: when the first bit of all is
Current  == IF n % Width = 0 THEN ByteAt(n \div Width) ELSE byte
EachBit ==
  /\ at = "each" /\ n < BlocksCount
  /\ window' = IF n % Width = 0 THEN Filled(n \div Width) ELSE window
  /\ byte' = Current
  /\ searched' = IF n % Width \in Current THEN searched ELSE searched \cup {n}
  /\ n' = n + 1
  /\ UNCHANGED <<at, open, linked, total, kept, greps, ofThis>>

(* The result is written; nothing was ever added to it.                    *)
OpenKept ==
  /\ at = "each" /\ n = BlocksCount
  /\ kept' = "empty"
  /\ at' = "dump"
  /\ UNCHANGED <<open, linked, window, n, byte, total, searched, greps, ofThis>>
DumpKept ==
  /\ at = "dump"
  /\ kept' = "whole"
  /\ Leave

StopGrep == at # "ready" /\ Leave /\ UNCHANGED kept

GrepStep == CountByte \/ CountFails \/ Counted \/ EachBit \/ OpenKept \/ DumpKept

(* What analyze does to the file, grep sees; of a file that was removed it *)
(* has the last that was written.                                          *)
Follow ==
  /\ linked' = (linked /\ map'.is # "none")
  /\ open' = IF linked' THEN map' ELSE open
  /\ UNCHANGED <<at, window, n, byte, total, searched, kept, greps, ofThis>>

GrepNext ==
  \/ Next /\ Follow
  \/ (StartGrep \/ GrepStep \/ StopGrep) /\ UNCHANGED vars

GrepSpec == /\ GrepInit /\ [][GrepNext]_allVars
            /\ WF_allVars(Step /\ Follow)
            /\ WF_allVars(GrepStep /\ UNCHANGED vars)
-----------------------------------------------------------------------------
GrepTypeOK ==
  /\ at \in {"ready", "count", "each", "dump"}
  /\ open \in Map /\ linked \in BOOLEAN /\ ofThis \in BOOLEAN
  /\ window \in [from : 0 .. Bytes, bits : SUBSET Blks]
  /\ n \in Nat
  /\ at = "each" => n <= BlocksCount
  /\ byte \subseteq 0 .. Width - 1
  /\ total \in Nat /\ searched \subseteq Blks
  /\ kept \in {"none", "empty", "whole"} /\ greps \in 0 .. MaxGreps

(* A search that came to its end has looked at every block of data, though *)
(* analyze went on, was cut short or began again meanwhile, if it had      *)
(* saved a number of groups when the search began.  (Before that, the file *)
(* may be one of an earlier version.)                                      *)
GrepMissesNoData ==
  at = "dump" /\ ofThis => \A g \in Bgs : DataBlks(g) \subseteq searched

(* The blocks that are searched are never more than were counted before:   *)
(* i*100/total is defined and no more than 100.                            *)
ProgressIsDefined == Cardinality(searched) <= total

(* Both commands come to an end, side by side.                             *)
BothEnd == /\ ~Resting ~> Resting
           /\ at # "ready" ~> at = "ready"

(* Inductive.  The file grep has open is analysis_blocks.data until that   *)
(* is removed; it marks no data block, nor does the buffer, nor the byte   *)
(* that is looked at; the data blocks behind were searched.                *)
Base == n - (n % Width)
GrepIsClean ==
  /\ linked => open = map
  /\ at = "ready" => window = NoWindow
  /\ ofThis => /\ Clean(open.bits) /\ Clean(window.bits)
               /\ at = "each" =>
                    /\ n % Width # 0 => Clean({Base + k : k \in byte})
                    /\ \A g \in Bgs : \A b \in DataBlks(g) : b < n => b \in searched
GrepInv == IInv /\ GrepTypeOK /\ GrepIsClean /\ GrepMissesNoData

(* Inductive with GrepInv.  No mark is taken back while the file is there, *)
(* so that the buffer never has more of them than the file.  The blocks to *)
(* search are as many as a set that has those whose bits were counted and  *)
(* are not set in the buffer, or in the byte that is looked at.            *)
Covered == IF at \in {"ready", "count"} THEN 0 .. n * Width - 1 ELSE Blks
ToSearch(U) ==
  /\ Cardinality(U) = total
  /\ searched \subseteq U /\ U \subseteq Covered
  /\ Covered \subseteq U \cup window.bits
  /\ at = "each" /\ n % Width # 0 =>
       \A k \in 0 .. Width - 1 : Base + k \in U \/ k \in byte
MarksGrow ==
  /\ MapOpen => map.bits \subseteq valid
  /\ map.is # "full" => map.bits = {}
  /\ window.bits \subseteq open.bits
ProgressInv == GrepInv /\ MarksGrow /\ \E U \in SUBSET Blks : ToSearch(U)
=============================================================================
