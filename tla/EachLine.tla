------------------------------- MODULE EachLine -------------------------------
(***************************************************************************)
(* INode.each_line (e2fs/inode.py): the generator behind cat.  It reads    *)
(* the blocks that each_block yields into a buffer and yields lines, or    *)
(* pieces of line_size bytes where there is no line, until size bytes were *)
(* yielded or there are no more blocks.                                    *)
(*                                                                         *)
(* A byte is its position in the yielded blocks, one after the other; what *)
(* matters of its value is whether it is a newline.                        *)
(***************************************************************************)
EXTENDS Integers, Sequences

CONSTANTS
  BlockSize,   \* sb.block_size
  Calls        \* the calls, each with the file it is about

(* size is size_lo or the argument that replaces it, blks the number of    *)
(* blocks each_block yields, ends whether it then ends or raises.          *)
Call == [size : Nat, blks : Nat, ends : BOOLEAN, newlines : SUBSET Nat,
         nl : BOOLEAN, line_size : Nat \ {0}]

ASSUME BlockSizeAssumption == BlockSize \in Nat \ {0}
ASSUME CallsAssumption == Calls \subseteq Call

VARIABLES
  call,     \* chosen once, never written
  blk,      \* the blocks read so far
  bytes,    \* the bytes read so far
  given,    \* how many of them were yielded: the others are data, the buffer
  piece,    \* the length of the last piece yielded
  size,     \* what the generator takes for the rest of the file
  status    \* "run", or how the generator ended

vars == <<call, blk, bytes, given, piece, size, status>>

Init ==
  /\ call \in Calls
  /\ blk = 0 /\ bytes = << >> /\ given = 0 /\ piece = 0
  /\ size = call.size
  /\ status = "run"
-----------------------------------------------------------------------------
Held     == Len(bytes) - given
LineEnds == {k \in 1 .. Held : bytes[given + k] \in call.newlines}
LineAtNewline(n) == n + 1 \in LineEnds /\ \A m \in LineEnds : n + 1 <= m   \* a slip
LineIs(n)        == n \in LineEnds /\ \A m \in LineEnds : n <= m

(* A buffer without a line is yielded in pieces when it holds more.        *)
HasLine  == call.nl /\ LineEnds # {}
HasPiece == ~HasLine /\ Held > call.line_size
Idle     == ~HasLine /\ Held <= call.line_size

(* Yielding counts, reading does not.                                      *)
LeftTwice(n) == size - n - 1     \* a slip: the newline counts twice
Left(n)      == size - n

Yield(n) ==
  /\ given' = given + n
  /\ piece' = n
  /\ size' = Left(n)
  /\ UNCHANGED <<call, blk, bytes, status>>

YieldLine  == HasLine /\ \E n \in 0 .. Held : LineIs(n) /\ Yield(n)
YieldPiece == HasPiece /\ Yield(call.line_size)

MinOf(a, b)   == IF a < b THEN a ELSE b
WholeBlock    == BlockSize                         \* a slip: padding as well
ReadLineSize  == MinOf(size, MinOf(BlockSize, call.line_size))   \* a slip
ReadSize      == MinOf(size, BlockSize)

NoMoreBlocks == blk = call.blks
ReadBlock ==
  /\ Idle
  /\ size > 0 /\ ~NoMoreBlocks
  /\ bytes' = bytes \o [k \in 1 .. ReadSize |-> blk * BlockSize + k - 1]
  /\ blk' = blk + 1
  /\ UNCHANGED <<call, given, piece, size, status>>

(* each_block raises, or the size is negative: that many bytes cannot be   *)
(* read.  What is in the buffer is not yielded.                            *)
Raise ==
  /\ Idle
  /\ IF NoMoreBlocks THEN size # 0 /\ ~call.ends ELSE size < 0
  /\ status' = "raised"
  /\ UNCHANGED <<call, blk, bytes, given, piece, size>>

(* StopIteration, its own or that of each_block: the rest is yielded.      *)
StopsAtBlocks == NoMoreBlocks /\ call.ends
StopsEarly    == size < BlockSize \/ StopsAtBlocks    \* a slip: only whole blocks
Stops         == size = 0 \/ StopsAtBlocks
Finish ==
  /\ Idle /\ Stops
  /\ given' = Len(bytes)
  /\ piece' = Held
  /\ status' = "ended"
  /\ UNCHANGED <<call, blk, bytes, size>>

Step ==
  /\ status = "run"
  /\ YieldLine \/ YieldPiece \/ ReadBlock \/ Raise \/ Finish

Ended == status # "run" /\ UNCHANGED vars

Next == Step \/ Ended

Spec     == Init /\ [][Next]_vars
(* cat asks for the next piece until the generator ends.                   *)
FairSpec == Spec /\ WF_vars(Step)
-----------------------------------------------------------------------------
TypeOK ==
  /\ call \in Call
  /\ blk \in 0 .. call.blks
  /\ bytes \in Seq(Nat)
  /\ given \in 0 .. Len(bytes)
  /\ piece \in Nat
  /\ size \in Int
  /\ status \in {"run", "ended", "raised"}

(* However reading and yielding interleave, the bytes come in the order of *)
(* the file and none is passed over, up to its size: a block that was only *)
(* read in part is never followed by one of the file.                      *)
FileComesFirst ==
  \A k \in 1 .. Len(bytes) : k <= call.size => bytes[k] = k - 1

(* What ends without an error has yielded the whole file, or all of the    *)
(* blocks there are.                                                       *)
NothingIsLost ==
  status = "ended" => given >= MinOf(call.size, call.blks * BlockSize)

(* What is in the buffer when a block is read is not counted, so more is   *)
(* read than the file has; but never more than a line too much.            *)
NeverFarBeyond == Len(bytes) <= call.size + call.line_size

(* A file whose blocks end where its size does is read without an error.   *)
Fits == /\ call.ends
        /\ call.size <= call.blks * BlockSize
        /\ call.blks > 0 => (call.blks - 1) * BlockSize < call.size
FittingFilesAreRead == Fits => status # "raised"

(* A newline is the last byte of the piece it is in; a piece without one   *)
(* has line_size bytes, if it is not the last of all.                      *)
InPiece(k) == bytes[given - piece + k] \in call.newlines
PiecesAreLines == call.nl /\ piece > 0 =>
  /\ \A k \in 1 .. piece - 1 : ~InPiece(k)
  /\ status # "ended" => InPiece(piece) \/ piece = call.line_size

(* Inductive: what was yielded is what size has lost, and only a last part *)
(* of the file is read in part.                                            *)
Accounted ==
  /\ status # "ended" => size = call.size - given
  /\ piece <= given
  /\ Len(bytes) <= blk * BlockSize
  /\ Len(bytes) < call.size => Len(bytes) = blk * BlockSize

IInv == /\ TypeOK /\ FileComesFirst /\ NothingIsLost /\ NeverFarBeyond
        /\ FittingFilesAreRead /\ PiecesAreLines /\ Accounted

(* The generator comes to an end: every round yields or reads something.   *)
Terminates == <>(status # "run")
=============================================================================
