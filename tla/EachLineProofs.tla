--------------------------- MODULE EachLineProofs ---------------------------
(***************************************************************************)
(* Proofs about EachLine, for every size of block, line and file, with     *)
(* newlines anywhere: the bytes of the file come first and in order, none  *)
(* is lost, and never more than a line too much is read.                   *)
(***************************************************************************)
EXTENDS EachLine, SequenceTheorems, TLAPS

LEMMA CallTypes ==
  ASSUME TypeOK
  PROVE  /\ call.size \in Nat /\ call.blks \in Nat /\ call.line_size \in Nat \ {0}
         /\ blk \in Nat /\ blk <= call.blks /\ BlockSize \in Nat \ {0}
         /\ bytes \in Seq(Nat) /\ Len(bytes) \in Nat
         /\ given \in Nat /\ given <= Len(bytes) /\ Held \in Nat
         /\ piece \in Nat /\ size \in Int
<1>1. call \in Call /\ blk \in 0 .. call.blks /\ bytes \in Seq(Nat) /\ given \in 0 .. Len(bytes)
      /\ piece \in Nat /\ size \in Int
  BY DEF TypeOK
<1>2. call.size \in Nat /\ call.blks \in Nat /\ call.line_size \in Nat \ {0}
  BY <1>1 DEF Call
<1>3. Len(bytes) \in Nat
  BY <1>1
<1>4. blk \in Nat /\ blk <= call.blks /\ given \in Nat /\ given <= Len(bytes) /\ Held \in Nat
  BY <1>1, <1>2, <1>3 DEF Held
<1> QED
  BY <1>1, <1>2, <1>3, <1>4, BlockSizeAssumption

(* What a read adds to the buffer.                                         *)
LEMMA ReadTypes ==
  ASSUME TypeOK, ReadBlock
  PROVE  /\ blk * BlockSize \in Nat
         /\ (blk + 1) * BlockSize = blk * BlockSize + BlockSize
         /\ ReadSize \in Nat \ {0} /\ ReadSize <= size /\ ReadSize <= BlockSize
         /\ ReadSize = size \/ ReadSize = BlockSize
         /\ bytes' \in Seq(Nat) /\ Len(bytes') = Len(bytes) + ReadSize
         /\ \A k \in 1 .. Len(bytes') :
              bytes'[k] = IF k <= Len(bytes) THEN bytes[k]
                          ELSE blk * BlockSize + (k - Len(bytes)) - 1
<1>1. /\ blk \in Nat /\ BlockSize \in Nat \ {0} /\ bytes \in Seq(Nat) /\ Len(bytes) \in Nat
      /\ size \in Int
  BY CallTypes
<1>2. size > 0
  BY DEF ReadBlock
<1>3. blk * BlockSize \in Nat /\ (blk + 1) * BlockSize = blk * BlockSize + BlockSize
  BY <1>1
<1>4. /\ ReadSize \in Nat \ {0} /\ ReadSize <= size /\ ReadSize <= BlockSize
      /\ ReadSize = size \/ ReadSize = BlockSize
  BY <1>1, <1>2 DEF ReadSize, MinOf
<1> DEFINE base == blk * BlockSize
           n    == ReadSize
           new  == [k \in 1 .. n |-> base + k - 1]
<1>5. bytes' = bytes \o new
  BY DEF ReadBlock
<1>6. base \in Nat /\ n \in Nat \ {0}
  BY <1>3, <1>4
<1> HIDE DEF base, n
<1>7. new \in Seq(Nat) /\ Len(new) = n /\ \A k \in 1 .. n : new[k] = base + k - 1
  <2>1. \A k \in 1 .. n : base + k - 1 \in Nat
    BY <1>6
  <2>2. new \in [1 .. n -> Nat]
    BY <2>1
  <2> QED
    BY <1>6, <2>2
<1> HIDE DEF new
<1>8. bytes' \in Seq(Nat) /\ Len(bytes') = Len(bytes) + n
  BY <1>1, <1>5, <1>7, ConcatProperties
<1>9. ASSUME NEW k \in 1 .. Len(bytes')
      PROVE  bytes'[k] = IF k <= Len(bytes) THEN bytes[k] ELSE base + (k - Len(bytes)) - 1
  <2>1. bytes'[k] = IF k <= Len(bytes) THEN bytes[k] ELSE new[k - Len(bytes)]
    BY <1>1, <1>5, <1>7, <1>8, ConcatProperties
  <2> QED
    BY <1>1, <1>6, <1>7, <1>8, <2>1
<1> QED
  BY <1>3, <1>4, <1>8, <1>9 DEF base, n

LEMMA Starts == Init => IInv
<1> SUFFICES ASSUME Init
             PROVE  IInv
  OBVIOUS
<1>1. /\ call \in Call /\ blk = 0 /\ bytes = << >> /\ given = 0 /\ piece = 0 /\ size = call.size
      /\ status = "run"
  BY CallsAssumption DEF Init
<1>2. call.size \in Nat /\ call.blks \in Nat /\ call.line_size \in Nat \ {0} /\ BlockSize \in Nat \ {0}
  BY <1>1, BlockSizeAssumption DEF Call
<1>3. TypeOK
  BY <1>1, <1>2 DEF TypeOK
<1>4. FileComesFirst /\ NothingIsLost /\ FittingFilesAreRead /\ PiecesAreLines
  BY <1>1 DEF FileComesFirst, NothingIsLost, FittingFilesAreRead, PiecesAreLines
<1>5. NeverFarBeyond
  BY <1>1, <1>2 DEF NeverFarBeyond
<1>6. Accounted
  BY <1>1, <1>2 DEF Accounted
<1> QED
  BY <1>3, <1>4, <1>5, <1>6 DEF IInv

(* A piece that is yielded is part of the buffer.                          *)
LEMMA YieldTypes ==
  ASSUME TypeOK, YieldLine \/ YieldPiece
  PROVE  \E n \in Nat : /\ n <= Held /\ Yield(n)
                        /\ LineIs(n) \/ (~HasLine /\ n = call.line_size)
<1>1. Held \in Nat /\ call.line_size \in Nat
  BY CallTypes
<1>2. CASE YieldLine
  <2>1. PICK n \in 0 .. Held : LineIs(n) /\ Yield(n)
    BY <1>2 DEF YieldLine
  <2>2. n \in Nat /\ n <= Held
    BY <1>1
  <2> QED
    BY <2>1, <2>2
<1>3. CASE YieldPiece
  <2>1. call.line_size < Held /\ ~HasLine /\ Yield(call.line_size)
    BY <1>3 DEF YieldPiece, HasPiece
  <2>2. call.line_size <= Held
    BY <1>1, <2>1
  <2> QED
    BY <1>1, <2>1, <2>2
<1> QED
  BY <1>2, <1>3

LEMMA TypeStep == TypeOK /\ [Next]_vars => TypeOK'
<1> SUFFICES ASSUME TypeOK, [Next]_vars
             PROVE  TypeOK'
  OBVIOUS
<1>1. /\ call \in Call /\ blk \in 0 .. call.blks /\ bytes \in Seq(Nat) /\ given \in 0 .. Len(bytes)
      /\ piece \in Nat /\ size \in Int /\ status \in {"run", "ended", "raised"}
  BY DEF TypeOK
<1>2. /\ call.blks \in Nat /\ blk \in Nat /\ Len(bytes) \in Nat /\ given \in Nat /\ given <= Len(bytes)
      /\ Held = Len(bytes) - given /\ blk <= call.blks
  BY CallTypes DEF Held
<1>3. CASE YieldLine \/ YieldPiece
  <2>1. PICK n \in Nat : n <= Held /\ Yield(n)
    BY <1>3, YieldTypes
  <2>2. given' = given + n /\ piece' = n /\ size' = size - n /\ UNCHANGED <<call, blk, bytes, status>>
    BY <2>1 DEF Yield, Left
  <2>3. given + n \in 0 .. Len(bytes)
    BY <1>2, <2>1
  <2>4. size - n \in Int
    BY <1>1
  <2> QED
    BY <1>1, <2>2, <2>3, <2>4 DEF TypeOK
<1>4. CASE ReadBlock
  <2>1. bytes' \in Seq(Nat) /\ Len(bytes') = Len(bytes) + ReadSize /\ ReadSize \in Nat \ {0}
    BY <1>4, ReadTypes
  <2>2. blk' = blk + 1 /\ blk # call.blks /\ UNCHANGED <<call, given, piece, size, status>>
    BY <1>4 DEF ReadBlock, NoMoreBlocks
  <2>3. blk' \in 0 .. call.blks /\ given' \in 0 .. Len(bytes')
    BY <1>2, <2>1, <2>2
  <2> QED
    BY <1>1, <2>1, <2>2, <2>3 DEF TypeOK
<1>5. CASE Raise
  BY <1>1, <1>5 DEF TypeOK, Raise
<1>6. CASE Finish
  <2>1. given' \in 0 .. Len(bytes) /\ piece' \in Nat
    BY <1>2, <1>6 DEF Finish
  <2> QED
    BY <1>1, <1>6, <2>1 DEF TypeOK, Finish
<1>7. CASE UNCHANGED vars
  BY <1>1, <1>7 DEF TypeOK, vars
<1> QED
  BY <1>3, <1>4, <1>5, <1>6, <1>7 DEF Next, Step, Ended

(* A yield leaves what was read as it is.                                  *)
LEMMA YieldStep ==
  ASSUME IInv, status = "run", YieldLine \/ YieldPiece
  PROVE  IInv'
<1>1. TypeOK /\ FileComesFirst /\ NeverFarBeyond /\ Accounted
  BY DEF IInv
<1>2. PICK n \in Nat : n <= Held /\ Yield(n) /\ (LineIs(n) \/ (~HasLine /\ n = call.line_size))
  BY <1>1, YieldTypes
<1>3. given' = given + n /\ piece' = n /\ size' = size - n /\ UNCHANGED <<call, blk, bytes, status>>
  BY <1>2 DEF Yield, Left
<1>4. /\ Len(bytes) \in Nat /\ given \in Nat /\ given <= Len(bytes) /\ Held = Len(bytes) - given
      /\ call.size \in Nat
  BY <1>1, CallTypes DEF Held
<1>5. TypeOK'
  BY <1>1, TypeStep DEF Next, Step
<1>6. FileComesFirst' /\ NothingIsLost' /\ NeverFarBeyond' /\ FittingFilesAreRead'
  BY <1>1, <1>3 DEF FileComesFirst, NothingIsLost, NeverFarBeyond, FittingFilesAreRead
<1>7. Accounted'
  <2>1. /\ size = call.size - given /\ Len(bytes) <= blk * BlockSize
        /\ Len(bytes) < call.size => Len(bytes) = blk * BlockSize
    BY <1>1 DEF Accounted
  <2>2. size - n = call.size - (given + n) /\ n <= given + n
    BY <1>4, <2>1
  <2> QED
    BY <1>3, <2>1, <2>2 DEF Accounted
<1>8. PiecesAreLines'
  <2>1. ASSUME NEW k \in 1 .. n
        PROVE  (given + n) - n + k = given + k /\ k \in 1 .. Held
    BY <1>2, <1>4
  <2>2. ASSUME NEW k \in 1 .. n
        PROVE  InPiece(k)' <=> k \in LineEnds
    <3>1. InPiece(k)' <=> bytes[(given + n) - n + k] \in call.newlines
      BY <1>3 DEF InPiece
    <3> QED
      BY <2>1, <3>1 DEF LineEnds
  <2>3. /\ n > 0 => n \in 1 .. n
        /\ \A k \in 1 .. n - 1 : k \in 1 .. n /\ ~(n <= k)
    OBVIOUS
  <2>4. CASE LineIs(n)
    <3>1. n \in LineEnds /\ \A m \in LineEnds : n <= m
      BY <2>4 DEF LineIs
    <3>2. n > 0 => InPiece(n)'
      BY <2>2, <2>3, <3>1
    <3>3. ASSUME NEW k \in 1 .. n - 1
          PROVE  ~InPiece(k)'
      BY <2>2, <2>3, <3>1
    <3>4. /\ \A k \in 1 .. piece' - 1 : ~InPiece(k)'
          /\ piece' > 0 => InPiece(piece)'
      BY <1>3, <3>2, <3>3
    <3> QED
      BY <3>4 DEF PiecesAreLines
  <2>5. CASE ~HasLine /\ n = call.line_size
    <3>1. call.nl => LineEnds = {}
      BY <2>5 DEF HasLine
    <3>2. ASSUME call.nl, NEW k \in 1 .. n - 1
          PROVE  ~InPiece(k)'
      BY <2>2, <2>3, <3>1, <3>2
    <3>3. call.nl => \A k \in 1 .. piece' - 1 : ~InPiece(k)'
      BY <1>3, <3>2
    <3> QED
      BY <1>3, <2>5, <3>3 DEF PiecesAreLines
  <2> QED
    BY <1>2, <2>4, <2>5
<1> QED
  BY <1>5, <1>6, <1>7, <1>8 DEF IInv

(* A read that is not of a whole block is the last of the file.            *)
LEMMA ReadStep ==
  ASSUME IInv, status = "run", ReadBlock
  PROVE  IInv'
<1>1. TypeOK /\ FileComesFirst /\ NeverFarBeyond /\ Accounted /\ PiecesAreLines
  BY DEF IInv
<1>2. /\ blk * BlockSize \in Nat
      /\ (blk + 1) * BlockSize = blk * BlockSize + BlockSize
      /\ ReadSize \in Nat \ {0} /\ ReadSize <= size /\ ReadSize <= BlockSize
      /\ ReadSize = size \/ ReadSize = BlockSize
      /\ bytes' \in Seq(Nat) /\ Len(bytes') = Len(bytes) + ReadSize
      /\ \A k \in 1 .. Len(bytes') :
           bytes'[k] = IF k <= Len(bytes) THEN bytes[k]
                       ELSE blk * BlockSize + (k - Len(bytes)) - 1
  BY <1>1, ReadTypes
<1>3. /\ Len(bytes) \in Nat /\ given \in Nat /\ given <= Len(bytes) /\ Held = Len(bytes) - given
      /\ call.size \in Nat /\ call.line_size \in Nat /\ blk \in Nat /\ BlockSize \in Nat
      /\ piece \in Nat
  BY <1>1, CallTypes DEF Held
<1>4. /\ Held <= call.line_size /\ blk' = blk + 1
      /\ UNCHANGED <<call, given, piece, size, status>>
  BY DEF ReadBlock, Idle
<1>5. /\ size = call.size - given
      /\ Len(bytes) <= blk * BlockSize
      /\ Len(bytes) < call.size => Len(bytes) = blk * BlockSize
  BY <1>1 DEF Accounted
<1>6. TypeOK'
  BY <1>1, TypeStep DEF Next, Step
<1> DEFINE base == blk * BlockSize
           n    == ReadSize
<1>7. blk' * BlockSize = base + BlockSize
  BY <1>2, <1>4
<1>8. /\ base \in Nat /\ n \in Nat \ {0} /\ n <= size /\ n <= BlockSize
      /\ n = size \/ n = BlockSize
      /\ Len(bytes') = Len(bytes) + n
      /\ \A k \in 1 .. Len(bytes') :
           bytes'[k] = IF k <= Len(bytes) THEN bytes[k] ELSE base + (k - Len(bytes)) - 1
      /\ Len(bytes) <= base
      /\ Len(bytes) < call.size => Len(bytes) = base
  BY <1>2, <1>5
<1> HIDE DEF base, n
<1>9. FileComesFirst'
  <2>1. \A k \in 1 .. Len(bytes) : k <= call.size => bytes[k] = k - 1
    BY <1>1 DEF FileComesFirst
  <2>2. ASSUME NEW k \in 1 .. Len(bytes'), k <= call.size
        PROVE  bytes'[k] = k - 1
    <3>1. CASE k <= Len(bytes)
      <4>1. k \in 1 .. Len(bytes)
        BY <1>3, <3>1
      <4> QED
        BY <1>8, <2>1, <2>2, <3>1, <4>1
    <3>2. CASE ~(k <= Len(bytes))
      <4>1. Len(bytes) = base
        BY <1>3, <1>8, <2>2, <3>2
      <4> QED
        BY <1>3, <1>8, <2>2, <3>2, <4>1
    <3> QED
      BY <3>1, <3>2
  <2> QED
    BY <1>4, <2>2 DEF FileComesFirst
<1>10. NeverFarBeyond'
  <2>1. Len(bytes') <= call.size + call.line_size
    BY <1>3, <1>4, <1>5, <1>8
  <2> QED
    BY <1>4, <2>1 DEF NeverFarBeyond
<1>11. Accounted'
  <2>1. Len(bytes') <= base + BlockSize
    BY <1>3, <1>8
  <2>2. ASSUME Len(bytes') < call.size
        PROVE  Len(bytes') = base + BlockSize
    <3>1. Len(bytes) = base
      BY <1>3, <1>8, <2>2
    <3>2. CASE n = size
      <4>1. Len(bytes) + n >= call.size
        BY <1>3, <1>5, <1>8, <3>2
      <4> QED
        BY <1>3, <1>8, <2>2, <4>1
    <3>3. CASE n = BlockSize
      BY <1>8, <3>1, <3>3
    <3> QED
      BY <1>8, <3>2, <3>3
  <2>3. piece <= given
    BY <1>1 DEF Accounted
  <2> QED
    BY <1>4, <1>5, <1>7, <2>1, <2>2, <2>3 DEF Accounted
<1>12. PiecesAreLines'
  <2>1. piece <= given
    BY <1>1 DEF Accounted
  <2>2. ASSUME NEW k \in 1 .. piece
        PROVE  InPiece(k)' <=> InPiece(k)
    <3>1. given - piece + k \in 1 .. Len(bytes) /\ given - piece + k \in 1 .. Len(bytes')
      BY <1>3, <1>8, <2>1
    <3>2. bytes'[given - piece + k] = bytes[given - piece + k]
      BY <1>3, <1>8, <3>1
    <3> QED
      BY <1>4, <3>2 DEF InPiece
  <2>3. /\ piece > 0 => piece \in 1 .. piece
        /\ \A k \in 1 .. piece - 1 : k \in 1 .. piece
    BY <1>3
  <2> QED
    BY <1>1, <1>4, <2>2, <2>3 DEF PiecesAreLines
<1>13. NothingIsLost' /\ FittingFilesAreRead'
  BY <1>4 DEF NothingIsLost, FittingFilesAreRead
<1> QED
  BY <1>6, <1>9, <1>10, <1>11, <1>12, <1>13 DEF IInv

(* Nothing is left: neither bytes to yield nor blocks to read.             *)
LEMMA FinishStep ==
  ASSUME IInv, status = "run", Finish
  PROVE  IInv'
<1>1. TypeOK /\ FileComesFirst /\ NeverFarBeyond /\ Accounted
  BY DEF IInv
<1>2. /\ Len(bytes) \in Nat /\ given \in Nat /\ given <= Len(bytes) /\ Held = Len(bytes) - given
      /\ call.size \in Nat /\ call.blks \in Nat /\ BlockSize \in Nat
  BY <1>1, CallTypes DEF Held
<1>3. /\ given' = Len(bytes) /\ piece' = Held /\ status' = "ended" /\ ~HasLine
      /\ UNCHANGED <<call, blk, bytes, size>>
      /\ size = 0 \/ blk = call.blks
  BY DEF Finish, Idle, Stops, StopsAtBlocks, NoMoreBlocks
<1>4. /\ size = call.size - given /\ Len(bytes) <= blk * BlockSize
      /\ Len(bytes) < call.size => Len(bytes) = blk * BlockSize
  BY <1>1 DEF Accounted
<1>5. TypeOK'
  BY <1>1, TypeStep DEF Next, Step
<1>6. FileComesFirst' /\ NeverFarBeyond' /\ FittingFilesAreRead'
  BY <1>1, <1>3 DEF FileComesFirst, NeverFarBeyond, FittingFilesAreRead
<1>7. NothingIsLost'
  <2> DEFINE base == call.blks * BlockSize
  <2>1. base \in Nat
    BY <1>2
  <2>2. CASE size = 0
    <3>1. call.size <= Len(bytes)
      BY <1>2, <1>4, <2>2
    <3>2. MinOf(call.size, base) <= Len(bytes)
      BY <1>2, <2>1, <3>1 DEF MinOf
    <3> QED
      BY <1>3, <3>2 DEF NothingIsLost
  <2>3. CASE blk = call.blks
    <3>1. Len(bytes) < call.size => Len(bytes) = base
      BY <1>4, <2>3
    <3> HIDE DEF base
    <3>2. MinOf(call.size, base) <= Len(bytes)
      BY <1>2, <2>1, <3>1 DEF MinOf
    <3> QED
      BY <1>3, <3>2 DEF NothingIsLost, base
  <2> QED
    BY <1>3, <2>2, <2>3
<1>8. Accounted'
  <2>1. Held <= Len(bytes)
    BY <1>2
  <2> QED
    BY <1>3, <1>4, <2>1 DEF Accounted
<1>9. PiecesAreLines'
  <2>1. ASSUME NEW k \in 1 .. Held - 1
        PROVE  Len(bytes) - Held + k = given + k /\ k \in 1 .. Held
    BY <1>2
  <2>2. ASSUME call.nl, NEW k \in 1 .. Held - 1
        PROVE  ~InPiece(k)'
    <3>1. InPiece(k)' <=> bytes[Len(bytes) - Held + k] \in call.newlines
      BY <1>3 DEF InPiece
    <3>2. LineEnds = {}
      BY <1>3, <2>2 DEF HasLine
    <3> QED
      BY <2>1, <3>1, <3>2 DEF LineEnds
  <2>3. call.nl => \A k \in 1 .. piece' - 1 : ~InPiece(k)'
    BY <1>3, <2>2
  <2> QED
    BY <1>3, <2>3 DEF PiecesAreLines
<1> QED
  BY <1>5, <1>6, <1>7, <1>8, <1>9 DEF IInv

(* A negative size means that the whole file was yielded, and so that all  *)
(* the blocks of one that fits were read.                                  *)
LEMMA RaiseStep ==
  ASSUME IInv, status = "run", Raise
  PROVE  IInv'
<1>1. TypeOK /\ FileComesFirst /\ NeverFarBeyond /\ Accounted /\ PiecesAreLines
  BY DEF IInv
<1>2. /\ Len(bytes) \in Nat /\ given \in Nat /\ given <= Len(bytes) /\ blk \in Nat /\ blk <= call.blks
      /\ call.size \in Nat /\ call.blks \in Nat /\ BlockSize \in Nat \ {0}
  BY <1>1, CallTypes
<1>3. status' = "raised" /\ UNCHANGED <<call, blk, bytes, given, piece, size>>
  BY DEF Raise
<1>4. TypeOK'
  BY <1>1, TypeStep DEF Next, Step
<1>5. FileComesFirst' /\ NeverFarBeyond' /\ Accounted' /\ PiecesAreLines' /\ NothingIsLost'
  BY <1>1, <1>3 DEF FileComesFirst, NeverFarBeyond, Accounted, PiecesAreLines, InPiece, NothingIsLost
<1>6. ~Fits
  <2> SUFFICES ASSUME Fits
               PROVE  FALSE
    OBVIOUS
  <2>1. blk # call.blks /\ size < 0
    BY DEF Raise, Fits, NoMoreBlocks
  <2>2. size = call.size - given /\ Len(bytes) <= blk * BlockSize
    BY <1>1 DEF Accounted
  <2>3. call.blks > 0 /\ blk <= call.blks - 1
    BY <1>2, <2>1
  <2>4. (call.blks - 1) * BlockSize < call.size
    BY <2>3 DEF Fits
  <2>5. blk * BlockSize <= (call.blks - 1) * BlockSize
    <3> DEFINE c == call.blks - 1
    <3>1. c \in Nat /\ blk <= c
      BY <1>2, <2>3
    <3> HIDE DEF c
    <3>2. \E d \in Nat : c = blk + d
      <4>1. c - blk \in Nat /\ c = blk + (c - blk)
        BY <1>2, <3>1
      <4> QED
        BY <4>1
    <3>3. PICK d \in Nat : c = blk + d
      BY <3>2
    <3>4. (blk + d) * BlockSize = blk * BlockSize + d * BlockSize /\ d * BlockSize \in Nat
          /\ blk * BlockSize \in Nat
      BY <1>2
    <3>5. blk * BlockSize <= c * BlockSize
      BY <3>3, <3>4
    <3> QED
      BY <3>5 DEF c
  <2> DEFINE x == blk * BlockSize
             y == (call.blks - 1) * BlockSize
  <2>6. x \in Int /\ y \in Int /\ x <= y /\ y < call.size /\ Len(bytes) <= x
    BY <1>2, <2>2, <2>4, <2>5
  <2> HIDE DEF x, y
  <2>7. given > call.size
    BY <1>2, <2>1, <2>2
  <2> QED
    BY <1>2, <2>6, <2>7
<1>7. FittingFilesAreRead'
  BY <1>3, <1>6 DEF FittingFilesAreRead, Fits
<1> QED
  BY <1>4, <1>5, <1>7 DEF IInv

LEMMA InvStep == IInv /\ [Next]_vars => IInv'
<1> SUFFICES ASSUME IInv, [Next]_vars
             PROVE  IInv'
  OBVIOUS
<1>1. CASE Step
  BY <1>1, YieldStep, ReadStep, RaiseStep, FinishStep DEF Step
<1>2. CASE UNCHANGED vars
  BY <1>2 DEF vars, IInv, TypeOK, FileComesFirst, NothingIsLost, NeverFarBeyond, FittingFilesAreRead, Fits,
     PiecesAreLines, InPiece, Accounted
<1> QED
  BY <1>1, <1>2 DEF Next, Ended

LEMMA InvCorrect == Spec => []IInv
  BY Starts, InvStep, PTL DEF Spec
-----------------------------------------------------------------------------
(* The generator keeps its types, on every call.                           *)
THEOREM TypeCorrect == Spec => []TypeOK
<1>1. IInv => TypeOK
  BY DEF IInv
<1> QED
  BY <1>1, InvCorrect, PTL

(* The bytes come in the order of the file, none passed over.              *)
THEOREM FileCorrect == Spec => []FileComesFirst
<1>1. IInv => FileComesFirst
  BY DEF IInv
<1> QED
  BY <1>1, InvCorrect, PTL

(* A call that ends without an error has yielded the file.                 *)
THEOREM LossCorrect == Spec => []NothingIsLost
<1>1. IInv => NothingIsLost
  BY DEF IInv
<1> QED
  BY <1>1, InvCorrect, PTL

(* More than the file is read, but never more than a line too much.        *)
THEOREM ExcessCorrect == Spec => []NeverFarBeyond
<1>1. IInv => NeverFarBeyond
  BY DEF IInv
<1> QED
  BY <1>1, InvCorrect, PTL

(* A file whose blocks end where its size does raises no error.            *)
THEOREM FitCorrect == Spec => []FittingFilesAreRead
<1>1. IInv => FittingFilesAreRead
  BY DEF IInv
<1> QED
  BY <1>1, InvCorrect, PTL

(* What is yielded are lines.                                              *)
THEOREM LinesCorrect == Spec => []PiecesAreLines
<1>1. IInv => PiecesAreLines
  BY DEF IInv
<1> QED
  BY <1>1, InvCorrect, PTL
=============================================================================
