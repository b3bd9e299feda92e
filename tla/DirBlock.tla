------------------------------- MODULE DirBlock -------------------------------
(***************************************************************************)
(* One block of a directory (e2fs/directory.py): DirectoryBlk.validate     *)
(* walks its entries by their rec_len and collects what is wrong with      *)
(* them, EntryIter walks them again without looking, and the command       *)
(* change_dir_entry (pyutil/main.py) validates, iterates up to the entry   *)
(* with the name it was given and writes that entry's inode field.         *)
(*                                                                         *)
(* An entry is 8 bytes -- inode 4, rec_len 2, name_len 1, file_type 1 --   *)
(* and its name.  Nothing keeps the entries of a damaged block from        *)
(* overlapping or from reaching out of it, and if it is the last of the    *)
(* image there is nothing to read there.  What an entry holds is chosen    *)
(* when it is first read and remembered.                                   *)
(***************************************************************************)
EXTENDS Integers

CONSTANTS
  BlockSize,   \* sb.block_size
  RecLens,     \* the values of rec_len
  NameLens,    \* the values of name_len
  Inodes       \* the values of inode

ASSUME SizesAssumption ==
  /\ BlockSize \in Nat \ {0}
  /\ RecLens \subseteq Nat /\ NameLens \subseteq Nat /\ Inodes \subseteq Nat

(* sane: file_type is known and the name has no control characters.        *)
Header == [inode : Inodes, rec_len : RecLens, name_len : NameLens, sane : BOOLEAN]

VARIABLES
  blk,       \* whether it is the image's last block, and marked free
  all,       \* the argument of validate
  hdr,       \* the entries read so far, by offset in the block
  pc,        \* where the command is
  off,       \* the offset of the next entry to visit
  entries,   \* the offsets that validate visited, always on from the last
  errors,    \* what it found
  seen,      \* the offsets that EntryIter visited
  found      \* the inode that name_or_inode returned, or None

vars == <<blk, all, hdr, pc, off, entries, errors, seen, found>>

None == -1

Init ==
  /\ blk \in [last : BOOLEAN, free : BOOLEAN]
  /\ all \in BOOLEAN
  /\ hdr = << >>
  /\ pc = "validate"
  /\ off = 0
  /\ entries = {}
  /\ errors = {}
  /\ seen = {}
  /\ found = None
-----------------------------------------------------------------------------
(* read fails when the image ends before the n bytes from o on.            *)
Readable(o, n) == ~blk.last \/ o + n <= BlockSize

(* The entry at o: what it is known to be, or anything.                    *)
HeadersAt(o)  == IF o \in DOMAIN hdr THEN {hdr[o]} ELSE Header
Known(o, h)   == [p \in DOMAIN hdr \cup {o} |-> IF p = o THEN h ELSE hdr[p]]

(* A rec_len of 0 ends the walk: it would never get on.                    *)
StepStuck(h)  == h.rec_len                      \* a slip: no way out
StepOf(h)     == IF h.rec_len = 0 THEN 2 * BlockSize ELSE h.rec_len
IterPacked(h) == 8 + h.name_len                 \* a slip: as if packed
IterStep(h)   == IF h.rec_len = 0 THEN 2 * BlockSize ELSE h.rec_len

(* DirectoryEntry.validate: each of the first two errors returns, unless   *)
(* all of them are asked for, before the name is read.                     *)
LongName(h)       == h.name_len > h.rec_len - 8
PastEnd(o, h)     == o + h.rec_len > BlockSize
ReadsAlways(o, h) == TRUE                       \* a slip: no early return
ReadsName(o, h)   == all \/ (~LongName(h) /\ ~PastEnd(o, h))
EntryErrorsFirst(o, h) ==      \* a slip: a long name only counts if it returns
  (IF LongName(h) /\ ~all THEN {"name"} ELSE {})
    \cup (IF PastEnd(o, h) /\ (all \/ ~LongName(h)) THEN {"rec_len"} ELSE {})
    \cup (IF ReadsName(o, h) /\ ~h.sane THEN {"insane"} ELSE {})
EntryErrors(o, h) ==
  (IF LongName(h) THEN {"name"} ELSE {})
    \cup (IF PastEnd(o, h) /\ (all \/ ~LongName(h)) THEN {"rec_len"} ELSE {})
    \cup (IF ReadsName(o, h) /\ ~h.sane THEN {"insane"} ELSE {})

Fails(o, h) ==
  \/ ~Readable(o, 7)
  \/ ReadsName(o, h) /\ ~(Readable(o + 8, h.name_len) /\ Readable(o, 8))

(* One turn of the loop of DirectoryBlk.validate.                          *)
Visit ==
  /\ pc = "validate"
  /\ off < BlockSize
  /\ \E h \in HeadersAt(off) :
       /\ hdr' = Known(off, h)
       /\ IF Fails(off, h)
            THEN pc' = "failed" /\ UNCHANGED <<off, entries, errors>>
            ELSE /\ errors' = errors \cup EntryErrors(off, h)
                 /\ entries' = entries \cup {off}
                 /\ off' = off + StepOf(h)
                 /\ UNCHANGED pc
  /\ UNCHANGED <<blk, all, seen, found>>

(* ... and what comes after the loop.                                      *)
Validated ==
  /\ pc = "validate"
  /\ off >= BlockSize
  /\ errors' = errors \cup (IF off # BlockSize THEN {"end"} ELSE {})
                      \cup (IF blk.free THEN {"free"} ELSE {})
  /\ pc' = "validated"
  /\ UNCHANGED <<blk, all, hdr, off, entries, seen, found>>

(* name_or_inode goes no further when there are errors; it returns the     *)
(* inode of the first of validate's entries that has the name.             *)
Lookup ==
  /\ pc = "validated" /\ all
  /\ errors = {}
  /\ \E o \in entries :
       /\ hdr[o].name_len > 0
       /\ found' = hdr[o].inode
  /\ pc' = "listed"
  /\ UNCHANGED <<blk, all, hdr, off, entries, errors, seen>>

(* for e in d: a new EntryIter, whether there were errors or not.          *)
Iterate ==
  /\ pc = "validated"
  /\ pc' = "iterate"
  /\ off' = 0
  /\ UNCHANGED <<blk, all, hdr, entries, errors, seen, found>>

(* EntryIter.__next__                                                      *)
NextEntry ==
  /\ pc = "iterate"
  /\ off < BlockSize
  /\ \E h \in HeadersAt(off) :
       /\ hdr' = Known(off, h)
       /\ IF ~Readable(off, 6)
            THEN pc' = "failed" /\ UNCHANGED <<off, seen>>
            ELSE seen' = seen \cup {off} /\ off' = off + IterStep(h) /\ UNCHANGED pc
  /\ UNCHANGED <<blk, all, entries, errors, found>>

NotFound ==
  /\ pc = "iterate"
  /\ off >= BlockSize
  /\ pc' = "listed"
  /\ UNCHANGED <<blk, all, hdr, off, entries, errors, seen, found>>

(* The four bytes at t are overwritten: what overlaps them has to be read  *)
(* again, what begins there has a new inode.                               *)
Overlaps(o, t) == o # t /\ o < t + 4 /\ t < o + 8
RewrittenType(t, i) == [hdr EXCEPT ![t].sane = FALSE]    \* a slip: file_type's
Rewritten(t, i) ==
  [o \in {p \in DOMAIN hdr : ~Overlaps(p, t)} |->
     IF o = t THEN [hdr[t] EXCEPT !.inode = i] ELSE hdr[o]]

(* change_dir_entry, which has validated for all errors and shown them:    *)
(* the entry visited last has the name.                                    *)
LastSeen(t) == t \in seen /\ \A o \in seen : o <= t
Edit ==
  /\ pc = "iterate" /\ all
  /\ \E t \in DOMAIN hdr, i \in Inodes :
       /\ LastSeen(t)
       /\ Readable(t, 7) /\ Readable(t + 8, hdr[t].name_len)
       /\ hdr' = Rewritten(t, i)
  /\ pc' = "edited"
  /\ UNCHANGED <<blk, all, off, entries, errors, seen, found>>

Walk == Visit \/ Validated \/ NextEntry \/ NotFound
Ended == pc \in {"failed", "listed", "edited"} /\ UNCHANGED vars

Next == Walk \/ Lookup \/ Iterate \/ Edit \/ Ended

Spec     == Init /\ [][Next]_vars
FairSpec == Spec /\ WF_vars(Walk)
-----------------------------------------------------------------------------
TypeOK ==
  /\ blk \in [last : BOOLEAN, free : BOOLEAN]
  /\ all \in BOOLEAN
  /\ DOMAIN hdr \subseteq Nat
  /\ hdr \in [DOMAIN hdr -> Header]
  /\ pc \in {"validate", "validated", "iterate", "listed", "edited", "failed"}
  /\ off \in Nat
  /\ entries \subseteq Nat
  /\ errors \subseteq {"name", "rec_len", "insane", "end", "free"}
  /\ seen \subseteq Nat
  /\ found \in Inodes \cup {None}

(* The entries tile the block from its start up to end: each has room for  *)
(* its header and its name, the next begins where it ends, and none is     *)
(* inside another.                                                         *)
Tiles(end) ==
  /\ 0 \in entries \cup {end}
  /\ \A o \in entries :
       /\ o \in DOMAIN hdr
       /\ 8 + hdr[o].name_len <= hdr[o].rec_len
       /\ o + hdr[o].rec_len \in entries \cup {end}
       /\ \A p \in entries : o < p => o + hdr[o].rec_len <= p

(* A block in which validate finds nothing wrong, asked for all errors or  *)
(* only for the first, is one that its entries tile exactly -- and still   *)
(* is when change_dir_entry has written to it.                             *)
Accepted        == pc \notin {"validate", "failed"} /\ errors = {}
AcceptedIsTiled == Accepted => Tiles(BlockSize)

(* The two walks agree on where the entries are, errors or not: the        *)
(* commands that validate and those that only iterate see the same block.  *)
IterAgrees ==
  /\ pc = "iterate" => seen = {o \in entries : o < off}
  /\ pc = "listed" /\ found = None => seen = entries

(* The scan of every block of the image for directories validates for the  *)
(* first error only.  It can fail at the image's end in one way only: on a *)
(* header that does not fit in the last block.                             *)
ScanFailsOnHeader == pc = "failed" /\ ~all => off + 8 > BlockSize

(* Writing into a block without errors stays in the block, and changes the *)
(* inode of one entry and nothing else.                                    *)
EditIsLocal ==
  [][Accepted /\ pc' = "edited" /\ pc # "edited" =>
       \E t \in entries :
         /\ t + 4 <= BlockSize
         /\ hdr' = [hdr EXCEPT ![t].inode = hdr'[t].inode]]_vars

(* Both walks end, in a block of any content.                              *)
WalksEnd == pc \in {"validate", "iterate"} ~> pc \notin {"validate", "iterate"}

(* Inductive.  The steps of validate lead from one entry to the next, over *)
(* none, until one leaves the block; EntryIter is always at one of them or *)
(* at the end.                                                             *)
Follows(o) == o + StepOf(hdr[o])
Chained ==
  /\ DOMAIN hdr = entries
  /\ 0 \in entries \/ (pc = "validate" /\ off = 0)
  /\ \A o \in entries :
       /\ o < BlockSize
       /\ pc = "validate" => Follows(o) <= off
       /\ \/ Follows(o) \in entries \/ Follows(o) >= BlockSize
          \/ pc = "validate" /\ Follows(o) = off
       /\ \A p \in entries : o < p => Follows(o) <= p
Fitting ==
  errors = {} => \A o \in entries : /\ 8 + hdr[o].name_len <= hdr[o].rec_len
                                    /\ o + hdr[o].rec_len <= BlockSize
IInv ==
  /\ TypeOK /\ AcceptedIsTiled /\ IterAgrees /\ ScanFailsOnHeader
  /\ pc \notin {"failed", "edited"} => Chained /\ Fitting
  /\ pc \in {"validate", "validated"} => seen = {}
  /\ pc = "iterate" => off \in entries \/ off >= BlockSize
=============================================================================
