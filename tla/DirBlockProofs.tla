---------------------------- MODULE DirBlockProofs ----------------------------
(***************************************************************************)
(* What holds of every directory block of any size and content, and of     *)
(* every edit of one.                                                      *)
(***************************************************************************)
EXTENDS DirBlock, TLAPS

(* What an entry may be when it is read, and what is known then.           *)
LEMMA HeaderOps ==
  ASSUME TypeOK, NEW o \in Nat, NEW h \in HeadersAt(o)
  PROVE  /\ h \in Header
         /\ h.rec_len \in Nat /\ h.name_len \in Nat /\ h.inode \in Nat
         /\ StepOf(h) \in Nat \ {0}
         /\ IterStep(h) = StepOf(h)
         /\ h.rec_len > 0 => StepOf(h) = h.rec_len
         /\ DOMAIN Known(o, h) = DOMAIN hdr \cup {o}
         /\ \A p \in DOMAIN hdr : Known(o, h)[p] = hdr[p]
         /\ Known(o, h)[o] = h
         /\ \A p \in DOMAIN Known(o, h) : Known(o, h)[p] \in Header
<1>1. h \in Header
  BY DEF HeadersAt, TypeOK
<1>2. h.rec_len \in Nat /\ h.name_len \in Nat /\ h.inode \in Nat
  BY <1>1, SizesAssumption DEF Header
<1>3. \A p \in DOMAIN hdr : Known(o, h)[p] = hdr[p]
  BY DEF Known, HeadersAt
<1> QED
  BY <1>1, <1>2, <1>3, SizesAssumption DEF Known, StepOf, IterStep, TypeOK

(* The same of an entry that was read before.                              *)
LEMMA EntryOps ==
  ASSUME TypeOK, NEW o \in DOMAIN hdr
  PROVE  /\ o \in Nat
         /\ hdr[o] \in Header
         /\ hdr[o].rec_len \in Nat /\ hdr[o].name_len \in Nat
         /\ Follows(o) \in Nat /\ o < Follows(o)
         /\ hdr[o].rec_len > 0 => Follows(o) = o + hdr[o].rec_len
  BY SizesAssumption DEF TypeOK, Header, Follows, StepOf

(* Entries that are chained and fit tile the block.                        *)
LEMMA ChainedTiles ==
  ASSUME TypeOK, Chained, Fitting, errors = {},
         pc = "validate" => off >= BlockSize
  PROVE  Tiles(BlockSize)
<1> SUFFICES ASSUME NEW o \in entries
             PROVE  /\ o \in DOMAIN hdr
                    /\ 8 + hdr[o].name_len <= hdr[o].rec_len
                    /\ o + hdr[o].rec_len \in entries \cup {BlockSize}
                    /\ \A p \in entries : o < p => o + hdr[o].rec_len <= p
  BY SizesAssumption DEF Tiles, Chained
<1>1. o \in DOMAIN hdr
  BY DEF Chained
<1>2. 8 + hdr[o].name_len <= hdr[o].rec_len /\ o + hdr[o].rec_len <= BlockSize
  BY DEF Fitting
<1>3. Follows(o) = o + hdr[o].rec_len
  BY <1>1, <1>2, EntryOps
<1>4. Follows(o) \in entries \/ Follows(o) >= BlockSize
  BY SizesAssumption DEF Chained, TypeOK
<1>5. \A p \in entries : o < p => Follows(o) <= p
  BY DEF Chained
<1>6. o + hdr[o].rec_len \in entries \cup {BlockSize}
  BY <1>1, <1>2, <1>3, <1>4, EntryOps, SizesAssumption
<1> QED
  BY <1>1, <1>2, <1>3, <1>5, <1>6

(* Writing the inode of an entry of a tiled block touches no other one.    *)
LEMMA RewriteOps ==
  ASSUME TypeOK, Chained, Fitting, errors = {},
         NEW t \in entries, NEW i \in Inodes
  PROVE  /\ Rewritten(t, i) = [hdr EXCEPT ![t].inode = i]
         /\ t + 8 <= BlockSize
<1>1. DOMAIN hdr = entries
  BY DEF Chained
<1>2. \A o \in entries :
        /\ o \in Nat
        /\ o + 8 <= Follows(o)
        /\ o + 8 <= BlockSize
        /\ \A p \in entries : o < p => Follows(o) <= p
  <2> SUFFICES ASSUME NEW o \in entries
               PROVE  /\ o \in Nat
                      /\ o + 8 <= Follows(o)
                      /\ o + 8 <= BlockSize
                      /\ \A p \in entries : o < p => Follows(o) <= p
    OBVIOUS
  <2>1. 8 + hdr[o].name_len <= hdr[o].rec_len /\ o + hdr[o].rec_len <= BlockSize
    BY DEF Fitting
  <2>2. o \in Nat /\ hdr[o].rec_len \in Nat /\ hdr[o].name_len \in Nat
    BY <1>1, EntryOps
  <2>3. Follows(o) = o + hdr[o].rec_len
    BY <1>1, <2>1, <2>2, EntryOps
  <2> QED
    BY <2>1, <2>2, <2>3, SizesAssumption DEF Chained
<1>3. \A o \in entries : ~Overlaps(o, t)
  <2> SUFFICES ASSUME NEW o \in entries, o # t PROVE o >= t + 4 \/ t >= o + 8
    BY <1>2 DEF Overlaps
  <2>1. o \in Nat /\ t \in Nat
    BY <1>2
  <2>2. CASE o < t
    <3>1. Follows(o) <= t /\ o + 8 <= Follows(o)
      BY <1>2, <2>2
    <3>2. Follows(o) \in Nat
      BY <1>1, EntryOps
    <3> QED
      BY <2>1, <3>1, <3>2
  <2>3. CASE t < o
    <3>1. Follows(t) <= o /\ t + 8 <= Follows(t)
      BY <1>2, <2>3
    <3>2. Follows(t) \in Nat
      BY <1>1, EntryOps
    <3> QED
      BY <2>1, <3>1, <3>2
  <2> QED
    BY <2>1, <2>2, <2>3
<1>4. {p \in DOMAIN hdr : ~Overlaps(p, t)} = DOMAIN hdr
  BY <1>1, <1>3
<1> DEFINE new == [hdr[t] EXCEPT !.inode = i]
<1>5. Rewritten(t, i) = [o \in DOMAIN hdr |-> IF o = t THEN new ELSE hdr[o]]
  BY <1>4 DEF Rewritten
<1> HIDE DEF new
<1>6. Rewritten(t, i) = [hdr EXCEPT ![t] = new]
  BY <1>1, <1>5 DEF TypeOK
<1> QED
  BY <1>2, <1>6 DEF new
-----------------------------------------------------------------------------
(* Init => IInv                                                            *)
LEMMA InitIsInductive == Init => IInv
<1> SUFFICES ASSUME Init PROVE IInv
  OBVIOUS
<1>1. TypeOK
  BY SizesAssumption DEF Init, TypeOK, None
<1>2. Chained /\ Fitting
  BY DEF Init, Chained, Fitting
<1> QED
  BY <1>1, <1>2 DEF Init, IInv, AcceptedIsTiled, Accepted, IterAgrees, ScanFailsOnHeader

(* A turn of validate's loop: the entry it adds follows the last one, and  *)
(* when it finds nothing wrong with it the entry fits.                     *)
LEMMA VisitIsInductive == IInv /\ Visit => IInv'
<1> SUFFICES ASSUME IInv, Visit PROVE IInv'
  OBVIOUS
<1>1. /\ TypeOK /\ Chained /\ Fitting /\ seen = {}
      /\ pc = "validate" /\ off \in Nat /\ off < BlockSize
      /\ UNCHANGED <<blk, all, seen, found>>
  BY DEF IInv, Visit, TypeOK
<1>2. PICK h \in HeadersAt(off) :
        /\ hdr' = Known(off, h)
        /\ IF Fails(off, h)
             THEN pc' = "failed" /\ UNCHANGED <<off, entries, errors>>
             ELSE /\ errors' = errors \cup EntryErrors(off, h)
                  /\ entries' = entries \cup {off}
                  /\ off' = off + StepOf(h)
                  /\ UNCHANGED pc
  BY DEF Visit
<1>3. /\ h \in Header /\ h.rec_len \in Nat /\ h.name_len \in Nat
      /\ StepOf(h) \in Nat \ {0}
      /\ h.rec_len > 0 => StepOf(h) = h.rec_len
  BY <1>1, HeaderOps
<1>4. /\ DOMAIN hdr' = DOMAIN hdr \cup {off}
      /\ \A p \in DOMAIN hdr : hdr'[p] = hdr[p]
      /\ hdr'[off] = h
      /\ hdr' \in [DOMAIN hdr' -> Header]
  <2> DEFINE new == Known(off, h)
  <2>1. /\ DOMAIN new = DOMAIN hdr \cup {off}
        /\ \A p \in DOMAIN hdr : new[p] = hdr[p]
        /\ new[off] = h
        /\ \A p \in DOMAIN new : new[p] \in Header
    BY <1>1, HeaderOps
  <2>2. new \in [DOMAIN new -> Header]
    BY <2>1 DEF Known
  <2>3. hdr' = new
    BY <1>2
  <2> HIDE DEF new
  <2> QED
    BY <2>1, <2>2, <2>3
<1>5. EntryErrors(off, h) \subseteq {"name", "rec_len", "insane", "end", "free"}
  BY DEF EntryErrors
<1>6. TypeOK'
  <2>1. DOMAIN hdr' \subseteq Nat
    BY <1>1, <1>4 DEF TypeOK
  <2>2. CASE Fails(off, h)
    BY <1>1, <1>2, <1>4, <2>1, <2>2 DEF TypeOK
  <2>3. CASE ~Fails(off, h)
    <3>1. off + StepOf(h) \in Nat
      BY <1>1, <1>3
    <3> QED
      BY <1>1, <1>2, <1>4, <1>5, <2>1, <2>3, <3>1 DEF TypeOK
  <2> QED
    BY <2>2, <2>3
<1>7. CASE Fails(off, h)
  <2>1. pc' = "failed"
    BY <1>2, <1>7
  <2>2. ASSUME ~all PROVE off + 8 > BlockSize
    <3>1. off + 7 > BlockSize \/ (ReadsName(off, h) /\ ~(Readable(off + 8, h.name_len) /\ Readable(off, 8)))
      BY <1>1, <1>7, SizesAssumption DEF Fails, Readable
    <3>2. CASE off + 7 > BlockSize
      BY <1>1, <3>2, SizesAssumption
    <3>3. CASE ReadsName(off, h) /\ ~(Readable(off + 8, h.name_len) /\ Readable(off, 8))
      <4>1. ~LongName(h) /\ ~PastEnd(off, h)
        BY <2>2, <3>3 DEF ReadsName
      <4>2. h.name_len <= h.rec_len - 8 /\ off + h.rec_len <= BlockSize
        BY <1>1, <1>3, <4>1, SizesAssumption DEF LongName, PastEnd
      <4>3. off + 8 + h.name_len <= BlockSize /\ off + 8 <= BlockSize
        BY <1>1, <1>3, <4>2, SizesAssumption
      <4> QED
        BY <3>3, <4>3 DEF Readable
    <3> QED
      BY <3>1, <3>2, <3>3
  <2> QED
    BY <1>1, <1>2, <1>6, <1>7, <2>1, <2>2
    DEF IInv, AcceptedIsTiled, Accepted, IterAgrees, ScanFailsOnHeader
<1>8. CASE ~Fails(off, h)
  <2>1. /\ errors' = errors \cup EntryErrors(off, h)
        /\ entries' = entries \cup {off}
        /\ off' = off + StepOf(h)
        /\ pc' = "validate"
    BY <1>1, <1>2, <1>8
  <2>2. \A o \in entries' :
          /\ o = off => Follows(o)' = off'
          /\ o # off => /\ o \in Nat /\ o < Follows(o) /\ Follows(o) \in Nat
                        /\ Follows(o)' = Follows(o)
    <3> SUFFICES ASSUME NEW o \in entries'
                 PROVE  /\ o = off => Follows(o)' = off'
                        /\ o # off => /\ o \in Nat /\ o < Follows(o) /\ Follows(o) \in Nat
                                      /\ Follows(o)' = Follows(o)
      OBVIOUS
    <3>1. Follows(o)' = o + StepOf(hdr'[o])
      BY DEF Follows, StepOf
    <3>2. CASE o = off
      BY <1>4, <2>1, <3>1, <3>2
    <3>3. CASE o # off
      <4>1. o \in DOMAIN hdr
        BY <1>1, <2>1, <3>3 DEF Chained
      <4>2. Follows(o) = o + StepOf(hdr[o])
        BY DEF Follows
      <4> QED
        BY <1>1, <1>4, <3>1, <3>3, <4>1, <4>2, EntryOps
    <3> QED
      BY <3>2, <3>3
  <2>3. Chained'
    <3>1. DOMAIN hdr' = entries'
      BY <1>1, <1>4, <2>1 DEF Chained
    <3>2. 0 \in entries' \/ (pc' = "validate" /\ off' = 0)
      BY <1>1, <2>1 DEF Chained
    <3>3. ASSUME NEW o \in entries'
          PROVE  /\ o < BlockSize
                 /\ Follows(o)' <= off'
                 /\ \/ Follows(o)' \in entries' \/ Follows(o)' >= BlockSize
                    \/ Follows(o)' = off'
                 /\ \A p \in entries' : o < p => Follows(o)' <= p
      <4>1. CASE o = off
        <5>1. Follows(o)' = off' /\ off' \in Nat
          BY <1>1, <1>3, <2>1, <2>2, <4>1
        <5>2. \A p \in entries' : ~(off < p)
          BY <1>1, <2>1, <2>2 DEF Chained
        <5> QED
          BY <1>1, <4>1, <5>1, <5>2
      <4>2. CASE o # off
        <5>1. o \in entries
          BY <2>1, <4>2
        <5>2. /\ Follows(o)' = Follows(o) /\ Follows(o) \in Nat
              /\ o < BlockSize /\ Follows(o) <= off
              /\ \/ Follows(o) \in entries \/ Follows(o) >= BlockSize
                 \/ Follows(o) = off
              /\ \A p \in entries : o < p => Follows(o) <= p
          BY <1>1, <2>2, <4>2, <5>1 DEF Chained
        <5>3. off <= off' /\ off' \in Nat
          BY <1>1, <1>3, <2>1
        <5> QED
          BY <1>1, <2>1, <5>2, <5>3
      <4> QED
        BY <4>1, <4>2
    <3> QED
      BY <2>1, <3>1, <3>2, <3>3 DEF Chained
  <2>4. Fitting'
    <3> SUFFICES ASSUME errors' = {}, NEW o \in entries'
                 PROVE  /\ 8 + hdr'[o].name_len <= hdr'[o].rec_len
                        /\ o + hdr'[o].rec_len <= BlockSize
      BY DEF Fitting
    <3>1. errors = {} /\ EntryErrors(off, h) = {}
      BY <2>1
    <3>2. CASE o = off
      <4>1. ~LongName(h) /\ ~PastEnd(off, h)
        BY <3>1 DEF EntryErrors
      <4> QED
        BY <1>1, <1>3, <1>4, <3>2, <4>1, SizesAssumption DEF LongName, PastEnd
    <3>3. CASE o # off
      BY <1>1, <1>4, <2>1, <3>1, <3>3 DEF Fitting, Chained
    <3> QED
      BY <3>2, <3>3
  <2> QED
    BY <1>1, <1>6, <2>1, <2>3, <2>4
    DEF IInv, AcceptedIsTiled, Accepted, IterAgrees, ScanFailsOnHeader
<1> QED
  BY <1>7, <1>8

(* EntryIter goes from an entry to the one that follows it.                *)
LEMMA NextEntryIsInductive == IInv /\ NextEntry => IInv'
<1> SUFFICES ASSUME IInv, NextEntry PROVE IInv'
  OBVIOUS
<1>1. /\ TypeOK /\ Chained /\ Fitting /\ IterAgrees /\ pc = "iterate"
      /\ off \in entries /\ off \in Nat /\ off < BlockSize
      /\ seen = {o \in entries : o < off}
      /\ UNCHANGED <<blk, all, entries, errors, found>>
  BY SizesAssumption DEF IInv, NextEntry, IterAgrees, TypeOK
<1>2. off \in DOMAIN hdr /\ HeadersAt(off) = {hdr[off]}
  BY <1>1 DEF Chained, HeadersAt
<1>3. hdr' = hdr
  <2>1. hdr' = Known(off, hdr[off])
    BY <1>2 DEF NextEntry
  <2>2. DOMAIN hdr \cup {off} = DOMAIN hdr
    BY <1>2
  <2>3. Known(off, hdr[off]) = [p \in DOMAIN hdr |-> hdr[p]]
    BY <2>2 DEF Known
  <2> QED
    BY <1>1, <2>1, <2>3 DEF TypeOK
<1>4. CASE ~Readable(off, 6)
  <2>1. pc' = "failed" /\ UNCHANGED <<off, seen>>
    BY <1>4 DEF NextEntry
  <2>2. off + 8 > BlockSize
    BY <1>1, <1>4, SizesAssumption DEF Readable
  <2> QED
    BY <1>1, <1>3, <2>1, <2>2
    DEF IInv, TypeOK, AcceptedIsTiled, Accepted, IterAgrees, ScanFailsOnHeader
<1>5. CASE Readable(off, 6)
  <2>1. /\ seen' = seen \cup {off}
        /\ off' = off + IterStep(hdr[off])
        /\ pc' = "iterate"
    BY <1>1, <1>2, <1>5 DEF NextEntry
  <2>2. off' = Follows(off)
    BY <2>1 DEF Follows, IterStep, StepOf
  <2>3. /\ off' \in Nat /\ off < off'
        /\ off' \in entries \/ off' >= BlockSize
        /\ \A p \in entries : off < p => off' <= p
    BY <1>1, <1>2, <2>2, EntryOps DEF Chained
  <2>4. seen' = {o \in entries : o < off'}
    <3>1. \A o \in entries : o \in Nat
      BY <1>1 DEF TypeOK
    <3>2. \A o \in entries : o < off' <=> (o < off \/ o = off)
      BY <1>1, <2>3, <3>1
    <3> QED
      BY <1>1, <2>1, <3>2
  <2>5. Chained' /\ Fitting' /\ TypeOK'
    BY <1>1, <1>3, <2>1, <2>3, <2>4
    DEF Chained, Fitting, TypeOK, Follows, StepOf
  <2>6. AcceptedIsTiled'
    BY <1>1, <1>3, <2>1 DEF IInv, AcceptedIsTiled, Accepted, Tiles
  <2> QED
    BY <1>1, <2>1, <2>3, <2>4, <2>5, <2>6 DEF IInv, IterAgrees, ScanFailsOnHeader
<1> QED
  BY <1>4, <1>5

(* An edit leaves a block that is tiled tiled.                             *)
LEMMA EditIsInductive == IInv /\ Edit => IInv'
<1> SUFFICES ASSUME IInv, Edit PROVE IInv'
  OBVIOUS
<1>1. /\ TypeOK /\ Chained /\ Fitting /\ AcceptedIsTiled
      /\ pc = "iterate" /\ pc' = "edited"
      /\ UNCHANGED <<blk, all, off, entries, errors, seen, found>>
  BY DEF IInv, Edit
<1>2. PICK t \in DOMAIN hdr, i \in Inodes : LastSeen(t) /\ hdr' = Rewritten(t, i)
  BY DEF Edit
<1> DEFINE new == [hdr[t] EXCEPT !.inode = i]
           keep == {p \in DOMAIN hdr : ~Overlaps(p, t)}
<1>3. new \in Header /\ hdr[t] \in Header
      /\ new.rec_len = hdr[t].rec_len /\ new.name_len = hdr[t].name_len
  BY <1>1, <1>2, EntryOps DEF Header
<1>4. hdr' = [o \in keep |-> IF o = t THEN new ELSE hdr[o]]
  BY <1>2 DEF Rewritten
<1> HIDE DEF new
<1>5. TypeOK'
  <2>1. \A o \in keep : (IF o = t THEN new ELSE hdr[o]) \in Header
    BY <1>1, <1>3 DEF TypeOK
  <2> HIDE DEF keep
  <2>2. DOMAIN hdr' = keep /\ hdr' \in [keep -> Header]
    BY <1>4, <2>1
  <2>3. DOMAIN hdr' \subseteq Nat
    BY <1>1, <2>2 DEF TypeOK, keep
  <2> QED
    BY <1>1, <2>2, <2>3 DEF TypeOK
<1>6. ASSUME errors = {} PROVE Tiles(BlockSize)'
  <2>1. hdr' = [hdr EXCEPT ![t] = new]
    BY <1>1, <1>2, <1>6, RewriteOps DEF Chained, new
  <2>2. /\ DOMAIN hdr' = DOMAIN hdr
        /\ \A o \in DOMAIN hdr : /\ hdr'[o].rec_len = hdr[o].rec_len
                                 /\ hdr'[o].name_len = hdr[o].name_len
    BY <1>1, <1>3, <2>1 DEF TypeOK
  <2>3. Tiles(BlockSize)
    BY <1>1, <1>6 DEF AcceptedIsTiled, Accepted
  <2> QED
    BY <1>1, <2>2, <2>3 DEF Tiles
<1> QED
  BY <1>1, <1>5, <1>6 DEF IInv, AcceptedIsTiled, Accepted, IterAgrees, ScanFailsOnHeader

(* IInv /\ [Next]_vars => IInv'.                                           *)
LEMMA NextIsInductive == IInv /\ [Next]_vars => IInv'
<1> SUFFICES ASSUME IInv, [Next]_vars PROVE IInv'
  OBVIOUS
<1>1. CASE Ended \/ UNCHANGED vars
  <2>1. UNCHANGED vars
    BY <1>1 DEF Ended
  <2> QED
    BY <2>1 DEF vars, IInv, TypeOK, AcceptedIsTiled, Accepted, IterAgrees,
                ScanFailsOnHeader, Chained, Fitting, Tiles, Follows, StepOf
<1>2. CASE Visit
  BY <1>2, VisitIsInductive
<1>3. CASE Validated
  <2>1. /\ TypeOK /\ Chained /\ Fitting /\ seen = {}
        /\ pc = "validate" /\ off >= BlockSize /\ pc' = "validated"
        /\ errors \subseteq errors'
        /\ errors' \subseteq errors \cup {"end", "free"}
        /\ UNCHANGED <<blk, all, hdr, off, entries, seen, found>>
    BY <1>3 DEF IInv, Validated
  <2>2. TypeOK'
    BY <2>1 DEF TypeOK
  <2>3. Chained'
    <3>1. off # 0 /\ off \in Nat
      BY <2>1, SizesAssumption DEF TypeOK
    <3>2. \A o \in entries : Follows(o)' = Follows(o)
      BY <2>1 DEF Follows, StepOf
    <3> QED
      BY <2>1, <3>1, <3>2 DEF Chained
  <2>4. Fitting'
    BY <2>1 DEF Fitting
  <2>5. errors' = {} => Tiles(BlockSize)'
    <3>1. errors' = {} => Tiles(BlockSize)
      BY <2>1, ChainedTiles
    <3> QED
      BY <2>1, <3>1 DEF Tiles
  <2> QED
    BY <2>1, <2>2, <2>3, <2>4, <2>5
    DEF IInv, AcceptedIsTiled, Accepted, IterAgrees, ScanFailsOnHeader
<1>4. CASE Lookup
  <2>1. /\ TypeOK /\ Chained /\ Fitting /\ AcceptedIsTiled
        /\ pc = "validated" /\ pc' = "listed"
        /\ UNCHANGED <<blk, all, hdr, off, entries, errors, seen>>
    BY <1>4 DEF IInv, Lookup
  <2>2. found' \in Inodes /\ found' # None
    <3>1. PICK o \in entries : found' = hdr[o].inode
      BY <1>4 DEF Lookup
    <3>2. hdr[o] \in Header
      BY <2>1, EntryOps DEF Chained
    <3> QED
      BY <3>1, <3>2, SizesAssumption DEF Header, None
  <2>3. TypeOK' /\ Chained' /\ Fitting'
    BY <2>1, <2>2 DEF TypeOK, Chained, Fitting, Follows, StepOf
  <2> QED
    BY <2>1, <2>2, <2>3
    DEF IInv, AcceptedIsTiled, Accepted, IterAgrees, ScanFailsOnHeader, Tiles
<1>5. CASE Iterate
  <2>1. /\ TypeOK /\ Chained /\ Fitting /\ AcceptedIsTiled /\ seen = {}
        /\ pc = "validated" /\ pc' = "iterate" /\ off' = 0
        /\ UNCHANGED <<blk, all, hdr, entries, errors, seen, found>>
    BY <1>5 DEF IInv, Iterate
  <2>2. TypeOK' /\ Chained' /\ Fitting' /\ off' \in entries'
    BY <2>1 DEF TypeOK, Chained, Fitting, Follows, StepOf
  <2>3. {o \in entries' : o < off'} = {}
    BY <2>1 DEF TypeOK
  <2> QED
    BY <2>1, <2>2, <2>3
    DEF IInv, AcceptedIsTiled, Accepted, IterAgrees, ScanFailsOnHeader, Tiles
<1>6. CASE NextEntry
  BY <1>6, NextEntryIsInductive
<1>7. CASE NotFound
  <2>1. /\ TypeOK /\ Chained /\ Fitting /\ AcceptedIsTiled
        /\ seen = {o \in entries : o < off}
        /\ pc = "iterate" /\ pc' = "listed" /\ off >= BlockSize
        /\ UNCHANGED <<blk, all, hdr, off, entries, errors, seen, found>>
    BY <1>7 DEF IInv, NotFound, IterAgrees
  <2>2. TypeOK' /\ Chained' /\ Fitting'
    BY <2>1 DEF TypeOK, Chained, Fitting, Follows, StepOf
  <2>3. \A o \in entries : o \in Nat /\ o < off
    BY <2>1, SizesAssumption DEF TypeOK, Chained
  <2>4. seen' = entries'
    BY <2>1, <2>3
  <2> QED
    BY <2>1, <2>2, <2>4
    DEF IInv, AcceptedIsTiled, Accepted, IterAgrees, ScanFailsOnHeader, Tiles
<1>8. CASE Edit
  BY <1>8, EditIsInductive
<1> QED
  BY <1>1, <1>2, <1>3, <1>4, <1>5, <1>6, <1>7, <1>8 DEF Next, Walk

(* An edit of a block without errors is local.                             *)
LEMMA NextIsLocal ==
  ASSUME IInv, Next, Accepted, pc' = "edited", pc # "edited"
  PROVE  \E t \in entries :
           /\ t + 4 <= BlockSize
           /\ hdr' = [hdr EXCEPT ![t].inode = hdr'[t].inode]
<1>1. Edit
  BY DEF Next, Walk, Visit, Validated, NextEntry, NotFound, Lookup, Iterate, Ended, vars
<1>2. /\ TypeOK /\ Chained /\ Fitting /\ errors = {}
  BY <1>1 DEF IInv, Edit, Accepted
<1>3. PICK t \in DOMAIN hdr, i \in Inodes : hdr' = Rewritten(t, i)
  BY <1>1 DEF Edit
<1>4. t \in entries
  BY <1>2 DEF Chained
<1>5. hdr' = [hdr EXCEPT ![t].inode = i] /\ t + 8 <= BlockSize
  BY <1>2, <1>3, <1>4, RewriteOps
<1>6. hdr[t] \in Header
  BY <1>2, EntryOps
<1>7. hdr'[t].inode = i
  BY <1>5, <1>6 DEF Header
<1>8. t + 4 <= BlockSize
  BY <1>2, <1>4, <1>5, SizesAssumption DEF TypeOK
<1> QED
  BY <1>4, <1>5, <1>7, <1>8
-----------------------------------------------------------------------------
(* The types of the state, for every size of block and every content.      *)
THEOREM TypeCorrect == Spec => []TypeOK
<1>1. IInv => TypeOK
  BY DEF IInv
<1> QED
  BY <1>1, InitIsInductive, NextIsInductive, PTL DEF Spec

(* Every block in which DirectoryBlk.validate finds no error is tiled by   *)
(* its entries, whichever of its two modes it ran in, and stays so when    *)
(* change_dir_entry writes to it.                                          *)
THEOREM AcceptedCorrect == Spec => []AcceptedIsTiled
<1>1. IInv => AcceptedIsTiled
  BY DEF IInv
<1> QED
  BY <1>1, InitIsInductive, NextIsInductive, PTL DEF Spec

(* EntryIter visits what validate visited, in every block that is read to  *)
(* its end, with errors or without.                                        *)
THEOREM IterCorrect == Spec => []IterAgrees
<1>1. IInv => IterAgrees
  BY DEF IInv
<1> QED
  BY <1>1, InitIsInductive, NextIsInductive, PTL DEF Spec

(* The scan for directories fails on nothing but a header that does not    *)
(* fit in the image.                                                       *)
THEOREM ScanCorrect == Spec => []ScanFailsOnHeader
<1>1. IInv => ScanFailsOnHeader
  BY DEF IInv
<1> QED
  BY <1>1, InitIsInductive, NextIsInductive, PTL DEF Spec

(* change_dir_entry writes the inode of one entry of a block without       *)
(* errors, within the block, and nothing of any other entry.               *)
THEOREM EditCorrect == Spec => EditIsLocal
<1>1. IInv /\ [Next]_vars =>
        [Accepted /\ pc' = "edited" /\ pc # "edited" =>
           \E t \in entries :
             /\ t + 4 <= BlockSize
             /\ hdr' = [hdr EXCEPT ![t].inode = hdr'[t].inode]]_vars
  BY NextIsLocal
<1> QED
  BY <1>1, InitIsInductive, NextIsInductive, PTL DEF Spec, EditIsLocal
=============================================================================
