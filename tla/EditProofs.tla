------------------------------ MODULE EditProofs ------------------------------
(***************************************************************************)
(* Proofs about Edits.  What a step does to the streams is one of a few    *)
(* moves; most of what follows is said of these.                           *)
(***************************************************************************)
EXTENDS Edits, TLAPS

Fetches(p) == Open(p) /\ mode' = mode /\ \E c \in Cells : Fetch(p, c)
Writes(p)  == /\ mode[p] = "rw" /\ mode' = mode /\ at[p] = "sure"
              /\ Put(p, edit[p].cell, edit[p].val)
Seeks(p)   == /\ mode[p] = "r" /\ UNCHANGED <<image, mode, dirty>>
              /\ buf' = [buf EXCEPT ![p] = IF edit[p].cell \in Held(p) THEN @ ELSE Empty]
Flushes(p) == dirty[p] # {} /\ image' = Flushed(p) /\ dirty' = [dirty EXCEPT ![p] = {}] /\ UNCHANGED <<mode, buf>>
Opens(p)   == /\ ~Open(p) /\ UNCHANGED <<image, buf, dirty>>
              /\ \E m \in {"r", "rw"} : /\ mode' = [mode EXCEPT ![p] = m]
                                        /\ alone' = (alone /\ (m = "rw" => \A q \in Procs : mode[q] # "rw"))
Leaves(p)  == /\ Open(p)
              /\ mode' = [mode EXCEPT ![p] = "closed"]
              /\ buf' = [buf EXCEPT ![p] = Empty]
              /\ dirty' = [dirty EXCEPT ![p] = {}]
              /\ \/ image' = Flushed(p)
                 \/ UNCHANGED image /\ kills' = kills + 1
Moves(p)   == \/ Fetches(p) \/ Writes(p) \/ Seeks(p) \/ Flushes(p)
              \/ Opens(p) \/ Leaves(p)

LEMMA WordIsCell ==
  \A b \in Blks : \A k \in DOMAIN Entries[b] : Entries[b][k] \in Cells
BY EntriesAssumption

LEMMA EntryIsCell == \A e \in EntryEdits : e[1] \in Cells /\ e[2] \in Vals
BY EntryEditsAssumption, WordIsCell DEF WordsOf

(* Every step moves one stream at most.                                    *)
LEMMA StepMoves ==
  ASSUME TypeOK, [Next]_vars
  PROVE  \/ UNCHANGED streams /\ alone' = alone
         \/ \E p \in Procs : Moves(p) /\ (alone' = alone \/ Opens(p))
<1>1. CASE UNCHANGED vars
  BY <1>1 DEF vars, streams, hist
<1>2. ASSUME NEW p \in Procs, OpenImage(p)
      PROVE  Moves(p) /\ Opens(p)
  BY <1>2 DEF OpenImage, Moves, Opens
<1>3. ASSUME NEW p \in Procs, CloseImage(p)
      PROVE  Moves(p) /\ alone' = alone
  BY <1>3 DEF CloseImage, Left, Ready, Moves, Leaves
<1>4. ASSUME NEW p \in Procs, Kill(p)
      PROVE  Moves(p) /\ alone' = alone
  BY <1>4 DEF Kill, Left, Moves, Leaves
<1>5. ASSUME NEW p \in Procs, Flush(p)
      PROVE  Moves(p) /\ alone' = alone
  BY <1>5 DEF Flush, Moves, Flushes, hist
<1>6. ASSUME NEW p \in Procs, NEW c \in Cells, Look(p, c)
      PROVE  Moves(p) /\ alone' = alone
  BY <1>6 DEF Look, Ready, Moves, Fetches, hist
<1>7. ASSUME NEW p \in Procs, NEW e \in BlockEdits, ChangeBlock(p, e[1], e[2], e[3])
      PROVE  Moves(p) /\ alone' = alone
  <2>1. e[1] \in Cells
    BY InodesAssumption
  <2> QED
    BY <1>7, <2>1 DEF ChangeBlock, Ready, Moves, Fetches, hist
<1>8. ASSUME NEW p \in Procs, NEW e \in EntryEdits, ChangeDirEntry(p, e[1], e[2])
      PROVE  Moves(p) /\ alone' = alone
  BY <1>8, EntryIsCell DEF ChangeDirEntry, Ready, Moves, Fetches, hist
<1>9. ASSUME NEW p \in Procs, Write(p)
      PROVE  Moves(p) /\ alone' = alone
  <2>1. Open(p)
    BY <1>9 DEF Write, TypeOK, CommandTypes
  <2> QED
    BY <1>9, <2>1 DEF Write, Open, Moves, Writes, Seeks, hist, TypeOK, StreamTypes
<1>10. ASSUME NEW p \in Procs, NEW b \in Blks, NEW k \in DOMAIN Entries[b], Scan(p, b, k)
       PROVE  Moves(p) /\ alone' = alone
  BY <1>10, WordIsCell DEF Scan, Moves, Fetches, hist, TypeOK, CommandTypes
<1>11. ASSUME NEW p \in Procs,
              No(p) \/ Yes(p) \/ (\E s \in Searches : Search(p, s)) \/ OpenMatches(p) \/ Dump(p)
       PROVE  UNCHANGED streams /\ alone' = alone
  BY <1>11 DEF No, Yes, Search, OpenMatches, Dump, hist, streams
<1> QED
  BY <1>1, <1>2, <1>3, <1>4, <1>5, <1>6, <1>7, <1>8, <1>9, <1>10, <1>11 DEF Next, Command

-----------------------------------------------------------------------------
(* A fetch leaves the buffer alone, or it has written it and filled it     *)
(* from the image.                                                         *)
LEMMA FetchTypes ==
  ASSUME TypeOK, NEW p \in Procs, Fetches(p)
  PROVE  StreamTypes'
<1>1. PICK c \in Cells : Fetch(p, c)
  BY DEF Fetches
<1>2. CASE c \in Held(p) /\ UNCHANGED <<image, buf, dirty>>
  BY <1>2 DEF Fetches, TypeOK, StreamTypes, Held, Open
<1>3. CASE c \notin Held(p)
  <2> DEFINE W == Cells \cap (c .. c + Ahead - 1)
  <2>1. /\ image' = Flushed(p)
        /\ buf' = [buf EXCEPT ![p] = [d \in W |-> image'[d]]]
        /\ dirty' = [dirty EXCEPT ![p] = {}]
    BY <1>1, <1>3 DEF Fetch, Refill
  <2>2. image' \in [Cells -> Vals]
    BY <2>1 DEF Flushed, TypeOK, StreamTypes, Held
  <2>3. \A q \in Procs : q # p => buf'[q] = buf[q] /\ dirty'[q] = dirty[q]
    BY <2>1 DEF TypeOK, StreamTypes
  <2>4. DOMAIN buf'[p] = W /\ (\A d \in W : buf'[p][d] = image'[d]) /\ dirty'[p] = {}
    BY <2>1 DEF TypeOK, StreamTypes
  <2>5. DOMAIN buf' = Procs /\ dirty' \in [Procs -> SUBSET Cells]
    BY <2>1 DEF TypeOK, StreamTypes
  <2> HIDE DEF W
  <2>6. W \subseteq Cells
    BY DEF W
  <2> QED
    BY <2>2, <2>3, <2>4, <2>5, <2>6 DEF Fetches, TypeOK, StreamTypes, Held, Open
<1> QED
  BY <1>1, <1>2, <1>3 DEF Fetch

(* What is put into the buffer, where it is and where it is not.           *)
LEMMA PutHeld ==
  ASSUME StreamTypes, NEW p \in Procs, NEW c \in Held(p), NEW v, Put(p, c, v)
  PROVE  /\ image' = image
         /\ DOMAIN buf' = Procs /\ \A q \in Procs : q # p => buf'[q] = buf[q]
         /\ DOMAIN buf'[p] = Held(p) /\ buf'[p][c] = v
         /\ \A d \in Held(p) : d # c => buf'[p][d] = buf[p][d]
         /\ dirty' = [dirty EXCEPT ![p] = Hull(p, c)]
BY DEF Put, StreamTypes, Held

LEMMA PutElsewhere ==
  ASSUME StreamTypes, NEW p \in Procs, NEW c \in Cells \ Held(p), NEW v, Put(p, c, v)
  PROVE  /\ image' = Flushed(p)
         /\ DOMAIN buf' = Procs /\ \A q \in Procs : q # p => buf'[q] = buf[q]
         /\ DOMAIN buf'[p] = {c} /\ buf'[p][c] = v
         /\ dirty' = [dirty EXCEPT ![p] = {c}]
BY DEF Put, StreamTypes, Held

LEMMA FlushedTypes ==
  ASSUME StreamTypes, NEW p \in Procs
  PROVE  Flushed(p) \in [Cells -> Vals]
BY DEF Flushed, StreamTypes, Held

LEMMA HullIs ==
  ASSUME StreamTypes, NEW p \in Procs, NEW c \in Held(p)
  PROVE  Hull(p, c) \subseteq Held(p) /\ dirty[p] \cup {c} \subseteq Hull(p, c)
<1>1. \A d \in dirty[p] \cup {c} : d \in Held(p) /\ d \in Nat
  BY CellsAssumption DEF StreamTypes
<1>2. \A d \in dirty[p] \cup {c} : d <= d
  BY <1>1
<1> QED
  BY <1>1, <1>2 DEF Hull

LEMMA MoveTypes ==
  ASSUME TypeOK, NEW p \in Procs, Moves(p)
  PROVE  StreamTypes'
<1>1. CASE Fetches(p)
  BY <1>1, FetchTypes
<1>2. CASE Writes(p)
  <2> DEFINE c == edit[p].cell  v == edit[p].val
  <2>1. c \in Cells /\ v \in Vals
    BY <1>2 DEF Writes, TypeOK, CommandTypes
  <2>2. StreamTypes /\ Put(p, c, v) /\ mode' = mode /\ mode[p] = "rw"
    BY <1>2 DEF Writes, TypeOK
  <2> HIDE DEF c, v
  <2>3. CASE c \in Held(p)
    BY <2>1, <2>2, <2>3, PutHeld, HullIs DEF StreamTypes, Held, Open
  <2>4. CASE c \notin Held(p)
    <3>1. image' \in [Cells -> Vals]
      BY <2>1, <2>2, <2>4, PutElsewhere, FlushedTypes
    <3> QED
      BY <2>1, <2>2, <2>4, <3>1, PutElsewhere DEF StreamTypes, Held, Open
  <2> QED
    BY <2>3, <2>4
<1>3. CASE Seeks(p)
  <2>1. StreamTypes /\ dirty[p] = {}
    BY <1>3 DEF Seeks, TypeOK, StreamTypes
  <2>2. DOMAIN Empty = {}
    BY DEF Empty
  <2> QED
    BY <1>3, <2>1, <2>2 DEF Seeks, StreamTypes, Held, Open
<1>4. CASE Flushes(p)
  BY <1>4, FlushedTypes DEF Flushes, TypeOK, StreamTypes, Held, Open
<1>5. CASE Opens(p)
  BY <1>5 DEF Opens, TypeOK, StreamTypes, Held, Open
<1>6. CASE Leaves(p)
  <2>1. DOMAIN Empty = {}
    BY DEF Empty
  <2>2. image' \in [Cells -> Vals]
    BY <1>6, FlushedTypes DEF Leaves, TypeOK, StreamTypes
  <2> QED
    BY <1>6, <2>1, <2>2 DEF Leaves, TypeOK, StreamTypes, Held, Open
<1> QED
  BY <1>1, <1>2, <1>3, <1>4, <1>5, <1>6 DEF Moves

LEMMA CommandsKeepTypes ==
  ASSUME TypeOK, [Next]_vars, StreamTypes'
  PROVE  CommandTypes'
<1> USE DEF TypeOK, Goto, Open
<1>1. CASE UNCHANGED vars
  BY <1>1 DEF vars, streams, search, CommandTypes
<1>2. ASSUME NEW p \in Procs, OpenImage(p)
      PROVE  CommandTypes'
  BY <1>2 DEF OpenImage, CommandTypes, search, StreamTypes
<1>3. ASSUME NEW p \in Procs, CloseImage(p) \/ Kill(p)
      PROVE  CommandTypes'
  <2>1. Left(p)
    BY <1>3 DEF CloseImage, Kill
  <2>2. \A q \in Procs : q # p => at'[q] = at[q] /\ edit'[q] = edit[q] /\ mode'[q] = mode[q]
    BY <2>1 DEF Left, CommandTypes, StreamTypes
  <2>3. at'[p] = "ready" /\ at' \in [Procs -> {"ready", "asked", "sure", "search", "dump"}]
    BY <2>1 DEF Left, CommandTypes
  <2> QED
    BY <2>1, <2>2, <2>3 DEF Left, CommandTypes
<1>4. ASSUME NEW p \in Procs, Flush(p) \/ (\E c \in Cells : Look(p, c))
      PROVE  CommandTypes'
  BY <1>4 DEF Flush, Look, search, CommandTypes
<1>5. ASSUME NEW p \in Procs, NEW e \in BlockEdits, ChangeBlock(p, e[1], e[2], e[3])
      PROVE  CommandTypes'
  <2> DEFINE b == e[1]  i == e[2]  v == e[3]
  <2>1. b \in Inodes /\ i \in Int /\ v \in Vals
    BY InodesAssumption
  <2>2. b \in Nat /\ NBlock \in Nat \ {0}
    BY <2>1, InodesAssumption, CellsAssumption
  <2>3. UNCHANGED <<mode, search>>
    BY <1>5 DEF ChangeBlock
  <2> HIDE DEF b, i, v
  <2>4. CASE i \in -NBlock .. NBlock - 1
    <3>1. edit' = [edit EXCEPT ![p] = [cell |-> Offset(b, i), shown |-> Shown(b, i), val |-> v]]
          /\ Goto(p, "asked") /\ Ready(p)
      BY <1>5, <2>4 DEF ChangeBlock, b, i, v
    <3>2. Offset(b, i) \in Cells
      BY <2>1, <2>4, InodesAssumption DEF Offset
    <3>3. PICK j \in -NBlock .. NBlock - 1 : Shown(b, i) = b + j /\ i <= j
      <4>1. CASE i < 0
        <5>1. i + NBlock \in -NBlock .. NBlock - 1 /\ i <= i + NBlock /\ b + i + NBlock = b + (i + NBlock)
          BY <2>1, <2>2, <2>4, <4>1
        <5> QED
          BY <4>1, <5>1 DEF Shown
      <4>2. CASE ~(i < 0)
        BY <2>1, <2>2, <2>4, <4>2 DEF Shown
      <4> QED
        BY <4>1, <4>2
    <3>4. Shown(b, i) \in Cells
      BY <2>1, <3>3, InodesAssumption
    <3>5. Offset(b, i) <= Shown(b, i)
      BY <2>1, <2>2, <3>3 DEF Offset
    <3>6. edit'[p] \in [cell : Cells, shown : Cells, val : Vals] /\ edit'[p].cell <= edit'[p].shown
      BY <2>1, <3>1, <3>2, <3>4, <3>5 DEF CommandTypes
    <3>7. \A q \in Procs : q # p => edit'[q] = edit[q] /\ at'[q] = at[q]
      BY <3>1 DEF CommandTypes
    <3> QED
      BY <2>3, <3>1, <3>6, <3>7 DEF CommandTypes, Ready, search
  <2>5. CASE i \notin -NBlock .. NBlock - 1
    BY <1>5, <2>3, <2>5 DEF ChangeBlock, CommandTypes, search, b, i, v
  <2> QED
    BY <2>4, <2>5
<1>6. ASSUME NEW p \in Procs, NEW e \in EntryEdits, ChangeDirEntry(p, e[1], e[2])
      PROVE  CommandTypes'
  <2> DEFINE c == e[1]  v == e[2]
  <2>0. c \in Cells /\ v \in Vals
    BY EntryIsCell
  <2>1. c \in Cells /\ v \in Vals /\ c <= c
    <3> HIDE DEF c, v
    <3> QED
      BY <2>0, CellsAssumption
  <2>2. /\ edit' = [edit EXCEPT ![p] = [cell |-> c, shown |-> c, val |-> v]]
        /\ Goto(p, "asked") /\ Ready(p) /\ UNCHANGED <<mode, search>>
    BY <1>6 DEF ChangeDirEntry
  <2> HIDE DEF c, v
  <2>3. \A q \in Procs : q # p => edit'[q] = edit[q] /\ at'[q] = at[q]
    BY <2>2 DEF CommandTypes
  <2> QED
    BY <2>1, <2>2, <2>3 DEF CommandTypes, Ready, search
<1>7. ASSUME NEW p \in Procs, No(p) \/ Yes(p) \/ Write(p)
      PROVE  CommandTypes'
  <2>1. /\ UNCHANGED <<mode, search>>
        /\ \A q \in Procs : q # p => edit'[q] = edit[q] /\ at'[q] = at[q]
        /\ at[p] \in {"asked", "sure"} /\ DOMAIN edit' = Procs
        /\ at'[p] = "ready" \/ (at[p] = "asked" /\ at'[p] = "sure" /\ edit'[p] = edit[p])
        /\ at' \in [Procs -> {"ready", "asked", "sure", "search", "dump"}]
    BY <1>7 DEF No, Yes, Write, CommandTypes, streams
  <2> QED
    BY <2>1 DEF CommandTypes, search
<1>8. ASSUME NEW p \in Procs, NEW s \in Searches, Search(p, s)
      PROVE  CommandTypes'
  BY <1>8 DEF Search, Ready, CommandTypes, streams
<1>9. ASSUME NEW p \in Procs, NEW b \in Blks, NEW k \in DOMAIN Entries[b], Scan(p, b, k)
      PROVE  CommandTypes'
  <2>1. found' \in [Procs -> SUBSET Blks] /\ todo' \in [Procs -> SUBSET Blks]
    BY <1>9 DEF Scan, CommandTypes
  <2> QED
    BY <1>9, <2>1 DEF Scan, CommandTypes
<1>10. ASSUME NEW p \in Procs, OpenMatches(p) \/ Dump(p)
       PROVE  CommandTypes'
  <2>1. found' \in [Procs -> SUBSET Blks]
    BY <1>10 DEF OpenMatches, Dump, Idle, CommandTypes
  <2>2. cache' \in [Searches -> [is : {"none", "empty", "whole"}, blks : SUBSET Blks]]
    BY <1>10 DEF OpenMatches, Dump, CommandTypes
  <2>3. at' \in [Procs -> {"ready", "asked", "sure", "search", "dump"}]
    BY <1>10 DEF OpenMatches, Dump, Idle, CommandTypes
  <2> QED
    BY <1>10, <2>1, <2>2, <2>3 DEF OpenMatches, Dump, Idle, CommandTypes, streams
<1> QED
  BY <1>1, <1>2, <1>3, <1>4, <1>5, <1>6, <1>7, <1>8, <1>9, <1>10 DEF Next, Command

(* Type correctness: whatever is opened, typed, confirmed and killed, the  *)
(* streams hold words of the image, what is to be written is held, only a  *)
(* stream that was opened to write has anything to write, and an edit that *)
(* is asked about is one of a word of the image.                           *)
THEOREM TypeCorrect == Spec => []TypeOK
<1>1. Init => TypeOK
  <2> SUFFICES ASSUME Init PROVE TypeOK
    OBVIOUS
  <2>1. DOMAIN Empty = {}
    BY DEF Empty
  <2>2. StreamTypes
    BY <2>1, CellsAssumption DEF Init, StreamTypes, Held, Open
  <2>3. CommandTypes
    BY DEF Init, CommandTypes
  <2> QED
    BY <2>2, <2>3 DEF TypeOK
<1>2. TypeOK /\ [Next]_vars => TypeOK'
  <2> SUFFICES ASSUME TypeOK, [Next]_vars PROVE TypeOK'
    OBVIOUS
  <2>1. StreamTypes'
    <3>1. UNCHANGED streams => StreamTypes'
      BY DEF TypeOK, StreamTypes, streams, Held, Open
    <3> QED
      BY <3>1, StepMoves, MoveTypes
  <2> QED
    BY <2>1, CommandsKeepTypes DEF TypeOK
<1> QED
  BY <1>1, <1>2, PTL DEF Spec
-----------------------------------------------------------------------------
(* A move of another stream, or of one that only reads, leaves the image   *)
(* as it is; a word changes by what the one who writes has of it.          *)
LEMMA ImageMoves ==
  ASSUME StreamTypes, NEW p \in Procs, Moves(p), NEW c \in Cells
  PROVE  image'[c] = image[c] \/ (c \in dirty[p] /\ mode[p] = "rw" /\ image'[c] = buf[p][c])
<1>1. image' = image \/ image' = Flushed(p)
  BY DEF Moves, Fetches, Fetch, Refill, Writes, Put, Seeks, Flushes, Opens, Leaves
<1> QED
  BY <1>1 DEF Flushed, StreamTypes

LEMMA OthersStay ==
  ASSUME StreamTypes, NEW p \in Procs, Moves(p), NEW q \in Procs, q # p
  PROVE  buf'[q] = buf[q] /\ dirty'[q] = dirty[q] /\ mode'[q] = mode[q]
BY DEF Moves, Fetches, Fetch, Writes, Put, Seeks, Flushes, Opens, Leaves, StreamTypes

(* A move keeps what the buffer holds clean: what is not to be written is  *)
(* what the image has.                                                     *)
LEMMA OwnAgrees ==
  ASSUME TypeOK, StreamTypes', NEW p \in Procs, Moves(p),
         mode'[p] = "rw", mode[p] = "rw" => \A c \in Held(p) \ dirty[p] : buf[p][c] = image[c]
  PROVE  \A c \in Held(p)' \ dirty'[p] : buf'[p][c] = image'[c]
<1> USE DEF TypeOK
<1>1. CASE Fetches(p)
  <2>1. mode[p] = "rw"
    BY <1>1 DEF Fetches
  <2>2. PICK c \in Cells : Fetch(p, c)
    BY <1>1 DEF Fetches
  <2>3. CASE c \in Held(p) /\ UNCHANGED <<image, buf, dirty>>
    BY <2>1, <2>3 DEF Held
  <2>4. CASE c \notin Held(p)
    <3>1. buf'[p] = [d \in Cells \cap (c .. c + Ahead - 1) |-> image'[d]]
      BY <2>2, <2>4 DEF Fetch, StreamTypes
    <3> QED
      BY <3>1 DEF Held
  <2> QED
    BY <2>2, <2>3, <2>4 DEF Fetch
<1>2. CASE Writes(p)
  <2> DEFINE c == edit[p].cell  v == edit[p].val
  <2>1. c \in Cells /\ v \in Vals
    BY <1>2 DEF Writes, CommandTypes
  <2>2. StreamTypes /\ Put(p, c, v) /\ mode[p] = "rw"
    BY <1>2 DEF Writes
  <2> HIDE DEF c, v
  <2>3. CASE c \in Held(p)
    <3>1. dirty'[p] = Hull(p, c) /\ dirty[p] \subseteq Hull(p, c) /\ c \in Hull(p, c)
      BY <2>1, <2>2, <2>3, PutHeld, HullIs DEF StreamTypes
    <3>2. /\ image' = image /\ DOMAIN buf'[p] = Held(p)
          /\ \A d \in Held(p) : d # c => buf'[p][d] = buf[p][d]
      BY <2>1, <2>2, <2>3, PutHeld
    <3> QED
      BY <2>2, <3>1, <3>2 DEF Held
  <2>4. CASE c \notin Held(p)
    <3>1. dirty'[p] = {c} /\ DOMAIN buf'[p] = {c}
      BY <2>1, <2>2, <2>4, PutElsewhere DEF StreamTypes
    <3> QED
      BY <3>1 DEF Held
  <2> QED
    BY <2>3, <2>4
<1>3. CASE Seeks(p)
  BY <1>3 DEF Seeks
<1>4. CASE Flushes(p)
  <2>1. mode[p] = "rw" /\ image' = Flushed(p) /\ buf' = buf
    BY <1>4 DEF Flushes, StreamTypes
  <2> QED
    BY <2>1 DEF Flushed, StreamTypes, Held
<1>5. CASE Opens(p)
  BY <1>5 DEF Opens, StreamTypes, Held, Open
<1>6. CASE Leaves(p)
  BY <1>6 DEF Leaves, StreamTypes
<1> QED
  BY <1>1, <1>2, <1>3, <1>4, <1>5, <1>6 DEF Moves

LEMMA KillsAreCounted ==
  ASSUME [Next]_vars
  PROVE  kills' \in {kills, kills + 1}
<1>1. UNCHANGED vars => kills' = kills
  BY DEF vars, hist
<1>2. ASSUME NEW p \in Procs, OpenImage(p) \/ CloseImage(p) \/ Kill(p) \/ Flush(p)
      PROVE  kills' \in {kills, kills + 1}
  BY <1>2 DEF hist, OpenImage, CloseImage, Kill, Flush
<1>3. ASSUME NEW p \in Procs, Command(p)
      PROVE  kills' = kills
  BY <1>3 DEF hist, Command, Look, ChangeBlock, ChangeDirEntry, No, Yes, Write, Search, Scan,
              OpenMatches, Dump
<1> QED
  BY <1>1, <1>2, <1>3 DEF Next

LEMMA StreamStep ==
  ASSUME StreamInv, [Next]_vars, TypeOK'
  PROVE  StreamInv'
<1> USE DEF StreamInv
<1>0. (kills \in Nat)'
  BY KillsAreCounted
<1>1. CASE UNCHANGED streams /\ alone' = alone
  BY <1>0, <1>1 DEF OneWriter, BufferAgrees, streams, Held
<1>2. ASSUME NEW p \in Procs, Moves(p), alone' = alone \/ Opens(p)
      PROVE  StreamInv'
  <2>1. alone' => alone
    BY <1>2 DEF Opens
  <2>2. OneWriter'
    <3>1. CASE Opens(p)
      <4>1. PICK m \in {"r", "rw"} :
              /\ mode' = [mode EXCEPT ![p] = m]
              /\ alone' = (alone /\ (m = "rw" => \A q \in Procs : mode[q] # "rw"))
        BY <3>1 DEF Opens
      <4>2. \A q \in Procs : mode'[q] = IF q = p THEN m ELSE mode[q]
        BY <4>1 DEF TypeOK, StreamTypes
      <4> QED
        BY <2>1, <4>1, <4>2 DEF OneWriter
    <3>2. CASE ~Opens(p)
      <4>1. \A q \in Procs : mode'[q] = "rw" => mode[q] = "rw"
        BY <1>2, <3>2 DEF Moves, Fetches, Writes, Seeks, Flushes, Leaves, TypeOK, StreamTypes
      <4> QED
        BY <2>1, <4>1 DEF OneWriter
    <3> QED
      BY <3>1, <3>2
  <2>3. BufferAgrees'
    <3> SUFFICES ASSUME alone', NEW q \in Procs, mode'[q] = "rw", NEW c \in Held(q)' \ dirty'[q]
                 PROVE  buf'[q][c] = image'[c]
      BY DEF BufferAgrees
    <3>1. CASE q = p
      <4>1. mode[p] = "rw" => \A d \in Held(p) \ dirty[p] : buf[p][d] = image[d]
        BY <2>1 DEF BufferAgrees
      <4> QED
        BY <1>2, <3>1, <4>1, OwnAgrees DEF TypeOK
    <3>2. CASE q # p
      <4>1. buf'[q] = buf[q] /\ dirty'[q] = dirty[q] /\ mode[q] = "rw"
        BY <1>2, <3>2, OthersStay DEF TypeOK
      <4>2. c \in Held(q) \ dirty[q] /\ c \in Cells
        BY <4>1 DEF Held, TypeOK, StreamTypes
      <4>3. mode[p] # "rw"
        BY <2>1, <3>2, <4>1 DEF OneWriter
      <4>4. image'[c] = image[c]
        BY <1>2, <4>2, <4>3, ImageMoves DEF TypeOK
      <4> QED
        BY <2>1, <4>1, <4>2, <4>4 DEF BufferAgrees
    <3> QED
      BY <3>1, <3>2
  <2> QED
    BY <1>0, <2>2, <2>3
<1> QED
  BY <1>1, <1>2, StepMoves

LEMMA StreamInvariant == Spec => []StreamInv
<1>1. Init => OneWriter /\ BufferAgrees /\ kills \in Nat
  BY DEF Init, OneWriter, BufferAgrees, Held
<1>2. TypeOK /\ OneWriter /\ BufferAgrees /\ kills \in Nat /\ [Next]_vars /\ TypeOK'
        => (OneWriter /\ BufferAgrees /\ kills \in Nat)'
  BY StreamStep DEF StreamInv
<1> QED
  BY <1>1, <1>2, TypeCorrect, PTL DEF Spec, StreamInv

(* What was made of the edits is what the one who writes would leave, and  *)
(* the image when no one does.                                             *)
WriterHasContent == \A p \in Procs : mode[p] = "rw" => Content = Flushed(p)
ImageIsContent   == (\A p \in Procs : mode[p] # "rw") => Content = image

LEMMA ContentIs == StreamInv => ImageIsContent /\ (alone => WriterHasContent)
<1> SUFFICES ASSUME StreamInv
             PROVE  ImageIsContent /\ (alone => WriterHasContent)
  OBVIOUS
<1>1. ASSUME alone, NEW p \in Procs, mode[p] = "rw"
      PROVE  Content = Flushed(p)
  <2>1. \A q \in Procs : dirty[q] # {} => q = p
    BY <1>1 DEF StreamInv, TypeOK, StreamTypes, OneWriter
  <2>2. ASSUME NEW c \in Cells PROVE Content[c] = Flushed(p)[c]
    <3>1. CASE \E q \in Procs : c \in dirty[q]
      <4>1. (CHOOSE q \in Procs : c \in dirty[q]) = p /\ c \in dirty[p]
        BY <2>1, <3>1
      <4> QED
        BY <3>1, <4>1 DEF Content, Flushed
    <3>2. CASE ~ \E q \in Procs : c \in dirty[q]
      BY <3>2 DEF Content, Flushed
    <3> QED
      BY <3>1, <3>2
  <2> QED
    BY <2>2 DEF Content, Flushed
<1>2. ASSUME \A p \in Procs : mode[p] # "rw"
      PROVE  Content = image
  BY <1>2 DEF Content, StreamInv, TypeOK, StreamTypes
<1> QED
  BY <1>1, <1>2 DEF WriterHasContent, ImageIsContent

LEMMA ContentWillBe == StreamInv' => ImageIsContent' /\ (alone' => WriterHasContent')
BY ContentIs, PTL

(* The session that writes sees its own edits, however the stream is       *)
(* moved, for every image, read ahead and number of sessions that read.    *)
THEOREM OwnCorrect == Spec => []OwnEditsAreSeen
<1>1. StreamInv => OwnEditsAreSeen
  <2> SUFFICES ASSUME StreamInv, alone, NEW p \in Procs, mode[p] = "rw", NEW c \in Cells
               PROVE  Value(p, c) = Content[c]
    BY DEF OwnEditsAreSeen
  <2>1. Content[c] = IF c \in dirty[p] THEN buf[p][c] ELSE image[c]
    BY ContentIs DEF WriterHasContent, Flushed
  <2>2. dirty[p] \subseteq Held(p)
    BY DEF StreamInv, TypeOK, StreamTypes
  <2>3. c \in Held(p) \ dirty[p] => buf[p][c] = image[c]
    BY DEF StreamInv, BufferAgrees
  <2> QED
    BY <2>1, <2>2, <2>3 DEF Value
<1> QED
  BY <1>1, StreamInvariant, PTL
-----------------------------------------------------------------------------
(* A session that reads moves its own stream only.                         *)
LEMMA ReaderMoves ==
  ASSUME StreamInv, StreamInv', alone, alone', NEW p \in Procs, Moves(p), mode[p] # "rw"
  PROVE  UNCHANGED <<Content, image>>
<1>1. image' = image
  <2>1. \A c \in Cells : image'[c] = image[c]
    BY ImageMoves DEF StreamInv, TypeOK
  <2> QED
    BY <2>1 DEF StreamInv, TypeOK, StreamTypes
<1>2. CASE Opens(p)
  BY <1>1, <1>2 DEF Opens, Content
<1>3. CASE ~Opens(p)
  <2>1. mode'[p] # "rw"
    BY <1>3 DEF Moves, Fetches, Writes, Seeks, Flushes, Leaves, StreamInv, TypeOK, StreamTypes
  <2>2. \A q \in Procs : q # p => buf'[q] = buf[q] /\ dirty'[q] = dirty[q] /\ mode'[q] = mode[q]
    BY OthersStay DEF StreamInv, TypeOK
  <2>3. CASE \E q \in Procs : mode[q] = "rw"
    <3>1. PICK q \in Procs : mode[q] = "rw"
      BY <2>3
    <3>2. mode'[q] = "rw" /\ Flushed(q)' = Flushed(q)
      BY <1>1, <2>2, <3>1 DEF Flushed
    <3> QED
      BY <1>1, <3>1, <3>2, ContentIs, ContentWillBe DEF WriterHasContent
  <2>4. CASE \A q \in Procs : mode[q] # "rw"
    <3>1. \A q \in Procs : mode'[q] # "rw"
      BY <2>1, <2>2, <2>4
    <3> QED
      BY <1>1, <2>4, <3>1, ContentIs, ContentWillBe DEF ImageIsContent
  <2> QED
    BY <2>3, <2>4
<1> QED
  BY <1>2, <1>3

Keeps == P!Edit \/ P!Save \/ (P!Lose /\ kills' > kills) \/ UNCHANGED <<Content, image>>

(* The one that writes edits a word, saves, or is lost.                    *)
LEMMA WriterMoves ==
  ASSUME StreamInv, StreamInv', alone, alone', NEW p \in Procs, Moves(p), mode[p] = "rw"
  PROVE  Keeps
<1>1. Content = Flushed(p) /\ Content = [c \in Cells |-> Content[c]]
  BY ContentIs DEF WriterHasContent, Content
<1>2. mode'[p] = "rw" => Content' = Flushed(p)'
  BY ContentWillBe DEF WriterHasContent
<1> USE DEF StreamInv, TypeOK
<1>3. CASE Fetches(p)
  <2>1. PICK c \in Cells : Fetch(p, c)
    BY <1>3 DEF Fetches
  <2>2. CASE UNCHANGED <<image, buf, dirty>>
    BY <2>2 DEF Keeps, Content
  <2>3. CASE c \notin Held(p)
    <3>1. image' = Flushed(p) /\ dirty'[p] = {}
      BY <2>1, <2>3 DEF Fetch, Refill, StreamTypes
    <3>2. Flushed(p)' = image'
      BY <3>1 DEF Flushed, StreamTypes
    <3> QED
      BY <1>1, <1>2, <1>3, <3>1, <3>2 DEF Fetches, Keeps, P!Save
  <2> QED
    BY <2>1, <2>2, <2>3 DEF Fetch
<1>4. CASE Writes(p)
  <2> DEFINE c == edit[p].cell  v == edit[p].val
  <2>1. c \in Cells /\ v \in Vals /\ Put(p, c, v) /\ Content' = Flushed(p)'
    BY <1>2, <1>4 DEF Writes, CommandTypes
  <2> HIDE DEF c, v
  <2>2. CASE c \in Held(p)
    <3>1. /\ image' = image /\ DOMAIN buf'[p] = Held(p) /\ buf'[p][c] = v
          /\ \A d \in Held(p) : d # c => buf'[p][d] = buf[p][d]
          /\ dirty'[p] = Hull(p, c) /\ dirty[p] \subseteq Hull(p, c) /\ c \in Hull(p, c)
          /\ Hull(p, c) \subseteq Held(p)
      BY <2>1, <2>2, PutHeld, HullIs DEF StreamTypes
    <3>2. \A d \in Held(p) \ dirty[p] : buf[p][d] = image[d]
      BY DEF BufferAgrees
    <3>3. \A d \in Cells : Flushed(p)'[d] = IF d = c THEN v ELSE Content[d]
      BY <1>1, <3>1, <3>2 DEF Flushed
    <3>4. Content' = [Content EXCEPT ![c] = v]
      BY <1>1, <2>1, <3>3 DEF Flushed
    <3> QED
      BY <2>1, <3>1, <3>4 DEF Keeps, P!Edit
  <2>3. CASE c \notin Held(p)
    <3>1. image' = Content /\ buf'[p][c] = v /\ dirty'[p] = {c}
      BY <1>1, <2>1, <2>3, PutElsewhere DEF StreamTypes
    <3>2. \A d \in Cells : Flushed(p)'[d] = IF d = c THEN v ELSE Content[d]
      BY <3>1 DEF Flushed
    <3>3. Content' = [Content EXCEPT ![c] = v]
      BY <1>1, <2>1, <3>2 DEF Flushed
    <3> QED
      BY <2>1, <3>1, <3>3 DEF Keeps, P!Edit
  <2> QED
    BY <2>2, <2>3
<1>5. CASE Flushes(p)
  <2>1. image' = Flushed(p) /\ dirty'[p] = {} /\ mode'[p] = "rw"
    BY <1>5 DEF Flushes, StreamTypes
  <2>2. Flushed(p)' = image'
    BY <2>1 DEF Flushed, StreamTypes
  <2> QED
    BY <1>1, <1>2, <2>1, <2>2 DEF Keeps, P!Save
<1>6. CASE Leaves(p)
  <2>1. \A q \in Procs : mode'[q] # "rw"
    BY <1>6 DEF Leaves, OneWriter, StreamTypes
  <2>2. Content' = image'
    BY <2>1, ContentWillBe DEF ImageIsContent
  <2>3. CASE image' = Flushed(p)
    BY <1>1, <2>2, <2>3 DEF Keeps, P!Save
  <2>4. CASE UNCHANGED image /\ kills' = kills + 1
    BY <2>2, <2>4 DEF Keeps, P!Lose
  <2> QED
    BY <1>6, <2>3, <2>4 DEF Leaves
<1> QED
  BY <1>3, <1>4, <1>5, <1>6 DEF Moves, Seeks, Opens, Open

(* The refinement: with one session open to write at a time, and whatever  *)
(* the others read, an edit that was reported stays and nothing else       *)
(* changes, unless the session is killed before its buffer is written.     *)
THEOREM PromiseCorrect == Spec => KeepsPromise
<1>1. StreamInv /\ StreamInv' /\ [Next]_vars
        => [alone' => P!Edit \/ P!Save \/ (P!Lose /\ kills' > kills)]_<<Content, image>>
  <2> SUFFICES ASSUME StreamInv, StreamInv', [Next]_vars, alone'
               PROVE  Keeps
    BY Zenon DEF Keeps
  <2>1. CASE UNCHANGED streams /\ alone' = alone
    BY <2>1 DEF streams, Content, Keeps
  <2>2. ASSUME NEW p \in Procs, Moves(p), alone' = alone \/ Opens(p)
        PROVE  Keeps
    <3>1. alone
      BY <2>2 DEF Opens
    <3> QED
      BY <2>2, <3>1, ReaderMoves, WriterMoves DEF Keeps
  <2> QED
    BY <2>1, <2>2, StepMoves DEF StreamInv
<1>2. Init => P!Init
  BY CellsAssumption DEF Init, P!Init, Content
<1> QED
  BY <1>1, <1>2, StreamInvariant, PTL DEF KeepsPromise, Spec
-----------------------------------------------------------------------------
(* A word in a buffer was there, or is that of the image, or was written.  *)
LEMMA MoveCopies ==
  ASSUME TypeOK, StreamTypes', NEW p \in Procs, Moves(p), NEW q \in Procs, NEW c \in Held(q)'
  PROVE  \/ c \in Held(q) /\ buf'[q][c] = buf[q][c]
         \/ buf'[q][c] = image'[c]
         \/ q = p /\ Writes(p) /\ c = edit[p].cell /\ buf'[q][c] = edit[p].val
<1> USE DEF TypeOK
<1>1. CASE q # p
  BY <1>1, OthersStay DEF Held
<1>2. CASE q = p
  <2>1. CASE Fetches(p)
    <3>1. PICK d \in Cells : Fetch(p, d)
      BY <2>1 DEF Fetches
    <3>2. CASE buf' = buf
      BY <1>2, <3>2 DEF Held
    <3>3. CASE d \notin Held(p)
      <4>1. buf'[p] = [e \in Cells \cap (d .. d + Ahead - 1) |-> image'[e]]
        BY <3>1, <3>3 DEF Fetch, StreamTypes
      <4> QED
        BY <1>2, <4>1 DEF Held
    <3> QED
      BY <3>1, <3>2, <3>3 DEF Fetch
  <2>2. CASE Writes(p)
    <3> DEFINE d == edit[p].cell  v == edit[p].val
    <3>1. d \in Cells /\ StreamTypes /\ Put(p, d, v)
      BY <2>2 DEF Writes, CommandTypes
    <3> HIDE DEF d, v
    <3>2. CASE d \in Held(p)
      <4>1. /\ DOMAIN buf'[p] = Held(p) /\ buf'[p][d] = v
            /\ \A e \in Held(p) : e # d => buf'[p][e] = buf[p][e]
        BY <3>1, <3>2, PutHeld
      <4> QED
        BY <1>2, <2>2, <4>1 DEF Held, d, v
    <3>3. CASE d \notin Held(p)
      <4>1. DOMAIN buf'[p] = {d} /\ buf'[p][d] = v
        BY <3>1, <3>3, PutElsewhere
      <4> QED
        BY <1>2, <2>2, <4>1 DEF Held, d, v
    <3> QED
      BY <3>2, <3>3
  <2>3. CASE Seeks(p) \/ Leaves(p)
    <3>1. buf'[p] \in {buf[p], Empty} /\ DOMAIN Empty = {}
      BY <2>3 DEF Seeks, Leaves, StreamTypes, Empty
    <3> QED
      BY <1>2, <3>1 DEF Held
  <2>4. CASE Flushes(p) \/ Opens(p)
    BY <1>2, <2>4 DEF Flushes, Opens, Held
  <2> QED
    BY <2>1, <2>2, <2>3, <2>4 DEF Moves
<1> QED
  BY <1>1, <1>2

(* What is sure was shown before, here or by an earlier step.              *)
LEMMA SureIsExplained ==
  ASSUME TypeOK, [Next]_vars
  PROVE  /\ named \subseteq named' /\ misplaced \subseteq misplaced'
         /\ \A p \in Procs : at'[p] = "sure" =>
              /\ edit'[p] = edit[p]
              /\ \/ at[p] = "sure"
                 \/ <<edit[p].cell, edit[p].val>> \in named' \cup misplaced'
<1> USE DEF TypeOK, CommandTypes, Goto, hist
<1>1. CASE UNCHANGED vars
  BY <1>1 DEF vars
<1>2. ASSUME NEW p \in Procs,
             OpenImage(p) \/ CloseImage(p) \/ Kill(p) \/ Flush(p) \/ (\E c \in Cells : Look(p, c))
      PROVE  /\ named' = named /\ misplaced' = misplaced
             /\ \A q \in Procs : at'[q] = "sure" => edit'[q] = edit[q] /\ at[q] = "sure"
  BY <1>2 DEF OpenImage, CloseImage, Kill, Left, Flush, Look
<1>3. ASSUME NEW p \in Procs,
             \/ \E e \in BlockEdits : ChangeBlock(p, e[1], e[2], e[3])
             \/ \E e \in EntryEdits : ChangeDirEntry(p, e[1], e[2])
             \/ No(p) \/ Write(p)
             \/ \E s \in Searches : Search(p, s)
      PROVE  /\ named' = named /\ misplaced' = misplaced
             /\ \A q \in Procs : at'[q] = "sure" => edit'[q] = edit[q] /\ at[q] = "sure"
  <2>1. CASE \E e \in BlockEdits : ChangeBlock(p, e[1], e[2], e[3])
    BY <2>1 DEF ChangeBlock, Ready
  <2>2. CASE \E e \in EntryEdits : ChangeDirEntry(p, e[1], e[2])
    BY <2>2 DEF ChangeDirEntry, Ready
  <2>3. CASE No(p) \/ Write(p)
    BY <2>3 DEF No, Write
  <2>4. CASE \E s \in Searches : Search(p, s)
    BY <2>4 DEF Search
  <2> QED
    BY <1>3, <2>1, <2>2, <2>3, <2>4
<1>4. ASSUME NEW p \in Procs,
             \/ \E b \in Blks : \E k \in DOMAIN Entries[b] : Scan(p, b, k)
             \/ OpenMatches(p) \/ Dump(p)
      PROVE  /\ named' = named /\ misplaced' = misplaced
             /\ \A q \in Procs : at'[q] = "sure" => edit'[q] = edit[q] /\ at[q] = "sure"
  BY <1>4 DEF Scan, OpenMatches, Dump, Idle
<1>5. ASSUME NEW p \in Procs, Yes(p)
      PROVE  /\ named \subseteq named' /\ misplaced \subseteq misplaced'
             /\ edit' = edit /\ <<edit[p].cell, edit[p].val>> \in named' \cup misplaced'
             /\ \A q \in Procs : q # p => at'[q] = at[q]
  <2>1. /\ edit[p].cell \in Cells /\ edit[p].shown \in Cells
        /\ edit[p].cell <= edit[p].shown
    <3>1. edit[p] \in [cell : Cells, shown : Cells, val : Vals] /\ edit[p].cell <= edit[p].shown
      BY <1>5 DEF Yes
    <3> QED
      BY <3>1
  <2>2. edit[p].cell < edit[p].shown \/ edit[p].cell = edit[p].shown
    <3>1. \A a, b \in Nat : a <= b => a < b \/ a = b
      OBVIOUS
    <3> QED
      BY <2>1, <3>1, CellsAssumption
  <2>3. /\ named' = named \cup {<<edit[p].shown, edit[p].val>>}
        /\ misplaced' = IF edit[p].cell < edit[p].shown
                        THEN misplaced \cup {<<edit[p].cell, edit[p].val>>} ELSE misplaced
        /\ edit' = edit /\ \A q \in Procs : q # p => at'[q] = at[q]
    BY <1>5 DEF Yes
  <2>4. <<edit[p].cell, edit[p].val>> \in named' \cup misplaced'
    BY <2>2, <2>3
  <2> QED
    BY <2>3, <2>4
<1> QED
  BY <1>1, <1>2, <1>3, <1>4, <1>5 DEF Next, Command

LEMMA CopiesStep ==
  ASSUME TypeOK, StreamTypes', CopiesExplained, [Next]_vars
  PROVE  CopiesExplained'
<1> USE DEF CopiesExplained
<1>1. \A c, v : Explained(c, v) => v = Image0[c] \/ <<c, v>> \in named' \cup misplaced'
  BY SureIsExplained DEF Explained
<1>2. \A p \in Procs : at'[p] = "sure" => Explained(edit[p].cell, edit[p].val)'
  BY <1>1, SureIsExplained DEF Explained
<1>3. CASE UNCHANGED streams
  BY <1>1, <1>2, <1>3 DEF streams, Held, Explained
<1>4. ASSUME NEW p \in Procs, Moves(p)
      PROVE  CopiesExplained'
  <2>1. ASSUME NEW c \in Cells
        PROVE  Explained(c, image[c])'
    <3>1. image'[c] = image[c] \/ (c \in dirty[p] /\ image'[c] = buf[p][c])
      BY <1>4, ImageMoves DEF TypeOK
    <3>2. c \in dirty[p] => c \in Held(p)
      BY DEF TypeOK, StreamTypes
    <3>3. Explained(c, image[c]) /\ (c \in dirty[p] => Explained(c, buf[p][c]))
      BY <3>2
    <3>4. Explained(c, image'[c])
      BY <3>1, <3>3
    <3> QED
      BY <1>1, <3>4 DEF Explained
  <2>2. ASSUME NEW q \in Procs, NEW c \in Held(q)'
        PROVE  Explained(c, buf[q][c])'
    <3>1. c \in Cells
      BY DEF StreamTypes, Held
    <3> QED
      <4>1. CASE c \in Held(q) /\ buf'[q][c] = buf[q][c]
        BY <1>1, <4>1 DEF Explained
      <4>2. CASE buf'[q][c] = image'[c]
        BY <2>1, <3>1, <4>2 DEF Explained
      <4>3. CASE q = p /\ Writes(p) /\ c = edit[p].cell /\ buf'[q][c] = edit[p].val
        <5>1. Explained(c, edit[p].val)
          BY <4>3 DEF Writes
        <5> QED
          BY <1>1, <4>3, <5>1 DEF Explained
      <4> QED
        BY <1>4, <4>1, <4>2, <4>3, MoveCopies
  <2> QED
    BY <1>2, <2>1, <2>2
<1> QED
  BY <1>3, <1>4, StepMoves

(* Whoever else writes, whatever is read ahead, written by the way or lost *)
(* by a kill: a word of the image is what it was or what someone confirmed *)
(* after it was shown, unless a negative index put it there.               *)
THEOREM ShownCorrect == Spec => []ShownIsWritten
<1>1. Init => CopiesExplained
  BY DEF Init, CopiesExplained, Explained, Held, Empty
<1>2. TypeOK /\ TypeOK' /\ CopiesExplained /\ [Next]_vars => CopiesExplained'
  BY CopiesStep DEF TypeOK
<1>3. CopiesExplained => ShownIsWritten
  BY DEF CopiesExplained, Explained, ShownIsWritten
<1> QED
  BY <1>1, <1>2, <1>3, TypeCorrect, PTL DEF Spec
-----------------------------------------------------------------------------
LEMMA PastGrows ==
  ASSUME [Next]_vars, NEW p \in Procs, mode'[p] # "closed", NEW c \in Words
  PROVE  /\ past[p][c] \subseteq past'[p][c]
         /\ \/ UNCHANGED vars
            \/ /\ image'[c] \in past'[p][c]
               /\ c \in dirty'[p] => buf'[p][c] \in past'[p][c]
<1>1. CASE UNCHANGED vars
  BY <1>1 DEF vars
<1>2. CASE Remember
  <2>1. past'[p][c] = past[p][c] \cup {image'[c]} \cup {buf'[p][d] : d \in dirty'[p] \cap {c}}
    BY <1>2 DEF Remember, Words
  <2> QED
    BY <2>1
<1> QED
  BY <1>1, <1>2 DEF Next

LEMMA WordsAreCells == Words \subseteq Cells
BY WordIsCell DEF Words, WordsOf

LEMMA CopiesSeenStep ==
  ASSUME TypeOK, StreamTypes', CopiesSeen, [Next]_vars
  PROVE  CopiesSeen'
<1>1. CASE UNCHANGED vars
  BY <1>1 DEF vars, streams, CopiesSeen, Open, Held
<1>2. CASE ~ UNCHANGED vars
  <2> SUFFICES ASSUME NEW p \in Procs, mode'[p] # "closed", NEW c \in Words
               PROVE  /\ image'[c] \in past'[p][c]
                      /\ c \in Held(p)' => buf'[p][c] \in past'[p][c]
    BY DEF CopiesSeen, Open
  <2>1. /\ past[p][c] \subseteq past'[p][c] /\ image'[c] \in past'[p][c]
        /\ c \in dirty'[p] => buf'[p][c] \in past'[p][c]
    BY <1>2, PastGrows
  <2>2. c \in Held(p) => buf[p][c] \in past[p][c]
    BY DEF CopiesSeen, TypeOK, StreamTypes
  <2>3. ASSUME c \in Held(p)'
        PROVE  buf'[p][c] \in past'[p][c]
    <3>1. CASE UNCHANGED streams
      BY <2>1, <2>2, <2>3, <3>1 DEF streams, Held
    <3>2. ASSUME NEW q \in Procs, Moves(q)
          PROVE  buf'[p][c] \in past'[p][c]
      <4>1. CASE p = q /\ Writes(q) /\ c = edit[q].cell
        <5>1. StreamTypes /\ c \in Cells /\ Put(p, c, edit[p].val)
          BY <4>1, WordsAreCells DEF TypeOK, Writes
        <5>2. c \in dirty'[p]
          <6>1. CASE c \in Held(p)
            BY <5>1, <6>1, PutHeld, HullIs DEF StreamTypes
          <6>2. CASE c \notin Held(p)
            BY <5>1, <6>2, PutElsewhere DEF StreamTypes
          <6> QED
            BY <6>1, <6>2
        <5> QED
          BY <2>1, <5>2
      <4>2. CASE ~(p = q /\ Writes(q) /\ c = edit[q].cell)
        BY <2>1, <2>2, <2>3, <3>2, <4>2, MoveCopies
      <4> QED
        BY <4>1, <4>2
    <3> QED
      BY <3>1, <3>2, StepMoves
  <2> QED
    BY <2>1, <2>3
<1> QED
  BY <1>1, <1>2

(* The part of one session.                                                *)
SearchedBy(p) ==
  /\ at[p] \in {"ready", "asked", "sure"} => found[p] = {}
  /\ at[p] # "search" => cur[p] = <<>>
  /\ at[p] = "search" =>
       /\ \A b \in found[p] : \E c \in WordsOf(b) : Hit(p, c)
       /\ \A b \in Blks \ (todo[p] \cup found[p]) : \A k \in DOMAIN Entries[b] :
            cur[p] = <<>> \/ cur[p][1] # b \/ k < cur[p][2] => Miss(p, Entries[b][k])
       /\ cur[p] # <<>> => \E b \in Blks \ todo[p] : \E k \in DOMAIN Entries[b] : cur[p] = <<b, k>>

LEMMA HitsStay ==
  ASSUME [Next]_vars, NEW p \in Procs, mode'[p] # "closed", job'[p] = job[p], NEW c \in Words
  PROVE  (Hit(p, c) => Hit(p, c)') /\ (Miss(p, c) => Miss(p, c)')
BY PastGrows DEF Hit, Miss

LEMMA WordOfBlock ==
  ASSUME NEW b \in Blks
  PROVE  /\ WordsOf(b) \subseteq Words
         /\ \A k \in DOMAIN Entries[b] : Entries[b][k] \in WordsOf(b)
BY DEF Words, WordsOf

(* What is not at a search stays as it was; a search that is not moved     *)
(* keeps what it has seen.                                                 *)
LEMMA SearchStays ==
  ASSUME TypeOK, TypeOK', [Next]_vars, NEW p \in Procs, SearchedBy(p),
         job'[p] = job[p], todo'[p] = todo[p], cur'[p] = cur[p], found'[p] = found[p],
         at'[p] = at[p] \/ (at[p] \in {"ready", "asked", "sure"} /\ at'[p] \in {"ready", "asked", "sure"})
  PROVE  SearchedBy(p)'
<1>1. CASE at'[p] # "search"
  BY <1>1 DEF SearchedBy
<1>2. CASE at'[p] = "search"
  <2>1. at[p] = "search" /\ mode'[p] # "closed"
    BY <1>2 DEF TypeOK, CommandTypes, Open
  <2>2. \A c \in Words : (Hit(p, c) => Hit(p, c)') /\ (Miss(p, c) => Miss(p, c)')
    BY <2>1, HitsStay
  <2>3. \A b \in found'[p] : \E c \in WordsOf(b) : Hit(p, c)'
    <3>1. \A b \in found[p] : b \in Blks /\ \E c \in WordsOf(b) : Hit(p, c)
      BY <2>1 DEF SearchedBy, TypeOK, CommandTypes
    <3> QED
      BY <2>2, <3>1, WordOfBlock
  <2>4. ASSUME NEW b \in Blks \ (todo'[p] \cup found'[p]), NEW k \in DOMAIN Entries[b],
               cur'[p] = <<>> \/ cur'[p][1] # b \/ k < cur'[p][2]
        PROVE  Miss(p, Entries[b][k])'
    <3>1. Miss(p, Entries[b][k])
      BY <2>1, <2>4 DEF SearchedBy
    <3> QED
      BY <2>2, <3>1, WordOfBlock
  <2> QED
    BY <1>2, <2>1, <2>3, <2>4 DEF SearchedBy
<1> QED
  BY <1>1, <1>2

(* One entry is looked at.                                                 *)
LEMMA ScanStep ==
  ASSUME TypeOK, TypeOK', CopiesSeen, [Next]_vars, NEW p \in Procs, SearchedBy(p),
         NEW b \in Blks, NEW k \in DOMAIN Entries[b], Scan(p, b, k)
  PROVE  SearchedBy(p)'
<1> DEFINE c == Entries[b][k]
<1>1. /\ at[p] = "search" /\ at'[p] = "search" /\ job'[p] = job[p]
      /\ cur[p] = IF k = 1 THEN <<>> ELSE <<b, k>>
      /\ todo'[p] = todo[p] \ {b}
      /\ found'[p] = IF Matches(p, c) THEN found[p] \cup {b} ELSE found[p]
      /\ cur'[p] = IF Matches(p, c) \/ LastEntry(b, k) THEN <<>> ELSE <<b, k + 1>>
  BY DEF Scan, TypeOK, CommandTypes
<1>2. mode[p] # "closed" /\ mode'[p] # "closed"
  BY <1>1 DEF TypeOK, CommandTypes, Open
<1>3. \A d \in Words : (Hit(p, d) => Hit(p, d)') /\ (Miss(p, d) => Miss(p, d)')
  BY <1>1, <1>2, HitsStay
<1>4. c \in WordsOf(b) /\ c \in Words
  BY WordOfBlock
<1>5. Value(p, c) \in past[p][c]
  BY <1>2, <1>4 DEF Value, CopiesSeen, Open
<1>6. (Matches(p, c) => Hit(p, c)') /\ (~Matches(p, c) => Miss(p, c)')
  BY <1>3, <1>4, <1>5 DEF Matches, Hit, Miss
<1> HIDE DEF c
<1>7. \A d \in found'[p] : \E e \in WordsOf(d) : Hit(p, e)'
  <2>1. \A d \in found[p] : d \in Blks /\ \E e \in WordsOf(d) : Hit(p, e)
    BY <1>1 DEF SearchedBy, TypeOK, CommandTypes
  <2> QED
    BY <1>1, <1>3, <1>4, <1>6, <2>1, WordOfBlock
<1>8. ASSUME NEW d \in Blks \ (todo'[p] \cup found'[p]), NEW j \in DOMAIN Entries[d],
             cur'[p] = <<>> \/ cur'[p][1] # d \/ j < cur'[p][2]
      PROVE  Miss(p, Entries[d][j])'
  <2>1. Entries[d][j] \in Words
    BY WordOfBlock
  <2>2. CASE d # b
    <3>1. d \in Blks \ (todo[p] \cup found[p]) /\ (cur[p] = <<>> \/ cur[p][1] # d)
      BY <1>1, <1>8, <2>2
    <3>2. Miss(p, Entries[d][j])
      BY <1>1, <3>1 DEF SearchedBy
    <3> QED
      BY <1>3, <2>1, <3>2
  <2>3. CASE d = b
    <3>1. ~Matches(p, c)
      BY <1>1, <1>8, <2>3
    <3>2. Entries[b] \in Seq(Cells) /\ j \in 1 .. Len(Entries[b]) /\ k \in 1 .. Len(Entries[b])
      BY <2>3, EntriesAssumption
    <3>3. j < k \/ j = k
      <4>1. CASE LastEntry(b, k)
        BY <3>2, <4>1 DEF LastEntry
      <4>2. CASE ~LastEntry(b, k)
        <5>1. cur'[p] = <<b, k + 1>>
          BY <1>1, <3>1, <4>2
        <5>2. j < k + 1
          BY <1>8, <2>3, <5>1
        <5> QED
          BY <3>2, <5>2
      <4> QED
        BY <4>1, <4>2
    <3>4. CASE j = k
      BY <1>6, <2>3, <3>1, <3>4 DEF c
    <3>5. CASE j < k
      <4>1. cur[p] = <<b, k>>
        BY <1>1, <3>2, <3>5
      <4>2. b \notin todo[p] /\ b \notin found[p]
        BY <1>1, <1>8, <2>3, <3>1, <4>1 DEF SearchedBy
      <4>3. Miss(p, Entries[b][j])
        BY <1>1, <2>3, <3>5, <4>1, <4>2 DEF SearchedBy
      <4> QED
        BY <1>3, <2>1, <2>3, <4>3
    <3> QED
      BY <3>3, <3>4, <3>5
  <2> QED
    BY <2>2, <2>3
<1>9. ASSUME cur'[p] # <<>>
      PROVE  \E d \in Blks \ todo'[p] : \E j \in DOMAIN Entries[d] : cur'[p] = <<d, j>>
  <2>1. cur'[p] = <<b, k + 1>> /\ k # Len(Entries[b])
    BY <1>1, <1>9 DEF LastEntry
  <2>2. k + 1 \in DOMAIN Entries[b]
    BY <2>1, EntriesAssumption
  <2> QED
    BY <1>1, <2>1, <2>2
<1> QED
  BY <1>1, <1>7, <1>8, <1>9 DEF SearchedBy

LEMMA SearchStep ==
  ASSUME TypeOK, TypeOK', SearchInv, [Next]_vars
  PROVE  SearchInv'
<1> USE DEF SearchInv
<1>1. CopiesSeen'
  BY CopiesSeenStep DEF TypeOK
<1> SUFFICES ASSUME NEW q \in Procs
             PROVE  SearchedBy(q)'
  BY <1>1 DEF SearchedSoFar, SearchedBy
<1>2. SearchedBy(q)
  BY DEF SearchedSoFar, SearchedBy
<1>3. CASE UNCHANGED vars
  BY <1>2, <1>3, SearchStays DEF vars, search
<1>4. ASSUME NEW p \in Procs,
             \/ OpenImage(p) \/ Flush(p) \/ (\E c \in Cells : Look(p, c))
             \/ \E e \in BlockEdits : ChangeBlock(p, e[1], e[2], e[3])
             \/ \E e \in EntryEdits : ChangeDirEntry(p, e[1], e[2])
             \/ No(p) \/ Yes(p) \/ Write(p)
      PROVE  SearchedBy(q)'
  <2>1. UNCHANGED search
    BY <1>4 DEF OpenImage, Flush, Look, ChangeBlock, ChangeDirEntry, No, Yes, Write
  <2>2. at'[q] = at[q] \/ (at[q] \in {"ready", "asked", "sure"} /\ at'[q] \in {"ready", "asked", "sure"})
    BY <1>4 DEF OpenImage, Flush, Look, ChangeBlock, ChangeDirEntry, No, Yes, Write, Goto, Ready,
                TypeOK, CommandTypes
  <2> QED
    BY <1>2, <2>1, <2>2, SearchStays DEF search
<1>5. ASSUME NEW p \in Procs,
             \/ CloseImage(p) \/ Kill(p) \/ OpenMatches(p) \/ Dump(p)
             \/ (\E s \in Searches : Search(p, s))
             \/ \E b \in Blks : \E k \in DOMAIN Entries[b] : Scan(p, b, k)
      PROVE  SearchedBy(q)'
  <2>1. CASE q # p
    <3>1. job'[q] = job[q] /\ todo'[q] = todo[q] /\ cur'[q] = cur[q] /\ found'[q] = found[q] /\ at'[q] = at[q]
      BY <1>5, <2>1 DEF CloseImage, Kill, Left, OpenMatches, Dump, Idle, Search, Scan, Goto, TypeOK, CommandTypes
    <3> QED
      BY <1>2, <3>1, SearchStays
  <2>2. CASE q = p /\ (CloseImage(p) \/ Kill(p))
    <3>1. at'[p] = "ready" /\ found'[p] = {} /\ cur'[p] = <<>>
      BY <2>2 DEF CloseImage, Kill, Left, Goto, TypeOK, CommandTypes
    <3> QED
      BY <2>2, <3>1 DEF SearchedBy
  <2>3. CASE q = p /\ (OpenMatches(p) \/ Dump(p))
    <3>1. /\ cur'[p] = cur[p]
          /\ \/ at[p] = "dump"
             \/ at[p] = "search" /\ cur[p] = <<>>
          /\ \/ at'[p] = "dump"
             \/ at'[p] = "ready" /\ found'[p] = {}
      BY <2>3 DEF OpenMatches, Dump, Idle, Goto, TypeOK, CommandTypes
    <3> QED
      BY <1>2, <2>3, <3>1 DEF SearchedBy, OpenMatches
  <2>4. CASE q = p /\ \E s \in Searches : Search(p, s)
    <3>1. at[p] = "ready" /\ at'[p] = "search" /\ todo'[p] = Blks /\ found'[p] = found[p] /\ cur'[p] = cur[p]
      BY <2>4 DEF Search, Ready, Goto, TypeOK, CommandTypes
    <3> QED
      BY <1>2, <2>4, <3>1 DEF SearchedBy
  <2>5. CASE q = p /\ \E b \in Blks : \E k \in DOMAIN Entries[b] : Scan(p, b, k)
    BY <1>2, <2>5, ScanStep
  <2> QED
    BY <1>5, <2>1, <2>2, <2>3, <2>4, <2>5
<1> QED
  BY <1>3, <1>4, <1>5 DEF Next, Command

(* What a search is about to keep is explained by what the words were      *)
(* since the session was opened, whoever edits the image meanwhile and     *)
(* however much of it the buffer remembers.                                *)
THEOREM ExplainedCorrect == Spec => []SearchIsExplained
<1>1. Init => SearchInv
  BY DEF Init, SearchInv, CopiesSeen, SearchedSoFar, Open
<1>2. TypeOK /\ TypeOK' /\ SearchInv /\ [Next]_vars => SearchInv'
  BY SearchStep
<1>3. TypeOK /\ SearchInv => SearchIsExplained
  <2> SUFFICES ASSUME TypeOK, SearchInv, NEW p \in Procs, at[p] = "search", cur[p] = <<>>,
                      NEW b \in Blks \ todo[p]
               PROVE  IF b \in found[p] THEN \E c \in WordsOf(b) : Hit(p, c)
                      ELSE \A c \in WordsOf(b) : Miss(p, c)
    BY DEF SearchIsExplained, Hit, Miss
  <2>1. CASE b \in found[p]
    BY <2>1 DEF SearchInv, SearchedSoFar
  <2>2. CASE b \notin found[p]
    <3>1. \A k \in DOMAIN Entries[b] : Miss(p, Entries[b][k])
      BY <2>2 DEF SearchInv, SearchedSoFar
    <3> QED
      BY <2>2, <3>1 DEF WordsOf
  <2> QED
    BY <2>1, <2>2
<1> QED
  BY <1>1, <1>2, <1>3, TypeCorrect, PTL DEF Spec
=============================================================================
