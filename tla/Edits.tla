--------------------------------- MODULE Edits ---------------------------------
(***************************************************************************)
(* The commands that edit the image (change_block, change_dir_entry) and   *)
(* those that search its directories and keep the result (search,          *)
(* isearch), in pyutil/main.py.  A session is one run of the program, for  *)
(* one command or a shell: it reads and writes the image through the       *)
(* buffer of one stream.  Sessions run side by side and may be killed.     *)
(*                                                                         *)
(* The image is the words that these commands look at and change.          *)
(***************************************************************************)
EXTENDS Integers, Sequences, FiniteSetsExt

CONSTANTS
  Procs,
  Cells,       \* the words of the image, by their position
  Vals,        \* what they hold: ids of blocks and of inodes
  Image0,      \* the image at first
  Ahead,       \* the words that are read at once, from the one that is asked for
  Inodes,      \* the position of block[0] of each inode
  NBlock,      \* the words of its array block
  BlockEdits,  \* what is typed for change_block: inode, index, value
  Entries,     \* the inode words of each directory in pruned.pickle, in their order
  EntryEdits,  \* what is typed for change_dir_entry: the word, its value
  Searches,
  Hits,        \* for each search, the words and values it looks for
  MaxOpens,    \* bound: sessions
  MaxEdits,    \* bound: edits confirmed
  MaxKills     \* bound: sessions killed

Blks       == DOMAIN Entries
WordsOf(b) == {Entries[b][k] : k \in DOMAIN Entries[b]}

ASSUME CellsAssumption == Cells \subseteq Nat /\ Image0 \in [Cells -> Vals] /\ Ahead \in Nat \ {0}
ASSUME InodesAssumption ==
  /\ Inodes \subseteq Cells /\ NBlock \in Nat \ {0}
  /\ BlockEdits \subseteq Inodes \X Int \X Vals
  /\ \A b \in Inodes, i \in -NBlock .. NBlock - 1 : b + i \in Cells
ASSUME EntriesAssumption == \A b \in Blks : Entries[b] \in Seq(Cells) \ {<<>>}
ASSUME EntryEditsAssumption == EntryEdits \subseteq (UNION {WordsOf(b) : b \in Blks}) \X Vals
ASSUME BoundsAssumption == MaxOpens \in Nat /\ MaxEdits \in Nat /\ MaxKills \in Nat

VARIABLES
  image,
  mode,      \* how each session has opened the image
  buf,       \* its buffer: the words it holds
  dirty,     \* those of them that are to be written
  at, edit,  \* what it does, and the edit it asks about
  job, todo, cur, found,    \* the search: blocks left, words left of this one, matches
  cache,     \* the file of each search
  opens, kills,
  named,     \* history: the words and values that were shown and confirmed
  misplaced, \* history: those that a negative index puts elsewhere
  past,      \* history: what each word was since the session was opened
  alone      \* history: no two sessions were open to write at once

streams == <<image, mode, buf, dirty>>
search  == <<job, todo, cur, found, cache>>
hist    == <<opens, kills, named, misplaced, alone>>
vars    == <<streams, at, edit, search, hist, past>>

Empty   == [c \in {} |-> 0]
NoEdit  == [cell |-> 0, shown |-> 0, val |-> 0]

Init ==
  /\ image = Image0
  /\ mode = [p \in Procs |-> "closed"]
  /\ buf = [p \in Procs |-> Empty] /\ dirty = [p \in Procs |-> {}]
  /\ at = [p \in Procs |-> "ready"] /\ edit = [p \in Procs |-> NoEdit]
  /\ job \in [Procs -> Searches]
  /\ todo = [p \in Procs |-> {}] /\ cur = [p \in Procs |-> <<>>] /\ found = [p \in Procs |-> {}]
  /\ cache = [s \in Searches |-> [is |-> "none", blks |-> {}]]
  /\ opens = 0 /\ kills = 0 /\ named = {} /\ misplaced = {} /\ alone = TRUE
  /\ past = [p \in Procs |-> [c \in UNION {WordsOf(b) : b \in Blks} |-> {}]]

Open(p)    == mode[p] # "closed"
Ready(p)   == Open(p) /\ at[p] = "ready"
Goto(p, l) == at' = [at EXCEPT ![p] = l]
-----------------------------------------------------------------------------
(* The stream: a BufferedRandom or BufferedReader of Python's io.          *)
Held(p)     == DOMAIN buf[p]
Flushed(p)  == [c \in Cells |-> IF c \in dirty[p] THEN buf[p][c] ELSE image[c]]
Value(p, c) == IF c \in Held(p) THEN buf[p][c] ELSE image[c]

(* A word outside the buffer is read into it, with those around it, after  *)
(* what is to be written was.                                              *)
Refill(p)   == image' = Flushed(p)
Fetch(p, c) ==
  \/ c \in Held(p) /\ UNCHANGED <<image, buf, dirty>>
  \/ /\ c \notin Held(p)
     /\ Refill(p)
     /\ buf' = [buf EXCEPT ![p] = [d \in Cells \cap (c .. c + Ahead - 1) |-> image'[d]]]
     /\ dirty' = [dirty EXCEPT ![p] = {}]

(* The buffer remembers where the first and the last word to be written    *)
(* are, and writes what is between them as well.                           *)
Hull(p, c) == LET S == dirty[p] \cup {c} IN {d \in Held(p) : \E a, b \in S : a <= d /\ d <= b}
Put(p, c, v) ==
  IF c \in Held(p)
  THEN /\ buf' = [buf EXCEPT ![p][c] = v]
       /\ dirty' = [dirty EXCEPT ![p] = Hull(p, c)]
       /\ UNCHANGED image
  ELSE /\ image' = Flushed(p)
       /\ buf' = [buf EXCEPT ![p] = [d \in {c} |-> v]]
       /\ dirty' = [dirty EXCEPT ![p] = {c}]

Flush(p) ==
  /\ dirty[p] # {}
  /\ image' = Flushed(p)
  /\ dirty' = [dirty EXCEPT ![p] = {}]
  /\ UNCHANGED <<mode, buf, at, edit, search, hist>>
-----------------------------------------------------------------------------
(* main opens the image, 'r+b' with --write and 'rb' without.              *)
OpenImage(p) ==
  /\ ~Open(p) /\ opens < MaxOpens
  /\ opens' = opens + 1
  /\ \E m \in {"r", "rw"} :
       /\ mode' = [mode EXCEPT ![p] = m]
       /\ alone' = (alone /\ (m = "rw" => \A q \in Procs : mode[q] # "rw"))
  /\ UNCHANGED <<image, buf, dirty, at, edit, search, kills, named, misplaced>>

Left(p) == /\ mode' = [mode EXCEPT ![p] = "closed"]
           /\ buf' = [buf EXCEPT ![p] = Empty]
           /\ dirty' = [dirty EXCEPT ![p] = {}]
           /\ Goto(p, "ready")
           /\ edit' = [edit EXCEPT ![p] = NoEdit]
           /\ todo' = [todo EXCEPT ![p] = {}]
           /\ cur' = [cur EXCEPT ![p] = <<>>]
           /\ found' = [found EXCEPT ![p] = {}]
           /\ UNCHANGED <<job, cache, opens, named, misplaced, alone>>

(* Leaving the with statement closes the stream.                           *)
Abandon(p)    == Ready(p) /\ UNCHANGED image /\ Left(p) /\ UNCHANGED kills   \* a slip: it does not
CloseImage(p) == Ready(p) /\ image' = Flushed(p) /\ Left(p) /\ UNCHANGED kills
Kill(p)       == Open(p) /\ kills < MaxKills /\ kills' = kills + 1 /\ Left(p) /\ UNCHANGED image

(* Any other command reads a word.                                         *)
Look(p, c) == /\ Ready(p) /\ Fetch(p, c)
              /\ UNCHANGED <<mode, at, edit, search, hist>>
-----------------------------------------------------------------------------
(* change_block sets l[index], of a list, and shows it; it is written at   *)
(* 4*index from the beginning of the array.                                *)
Shown(b, i)  == IF i < 0 THEN b + i + NBlock ELSE b + i
OneOff(b, i) == b + i + 1                                \* a slip: offset of the next one
Offset(b, i) == b + i
ChangeBlock(p, b, i, v) ==
  /\ Ready(p) /\ Cardinality(named) < MaxEdits
  /\ Fetch(p, b)
  /\ IF i \in -NBlock .. NBlock - 1
     THEN /\ edit' = [edit EXCEPT ![p] = [cell |-> Offset(b, i), shown |-> Shown(b, i), val |-> v]]
          /\ Goto(p, "asked")
     ELSE UNCHANGED <<edit, at>>      \* IndexError
  /\ UNCHANGED <<mode, search, hist>>

ChangeDirEntry(p, c, v) ==
  /\ Ready(p) /\ Cardinality(named) < MaxEdits
  /\ Fetch(p, c)
  /\ edit' = [edit EXCEPT ![p] = [cell |-> c, shown |-> c, val |-> v]]
  /\ Goto(p, "asked")
  /\ UNCHANGED <<mode, search, hist>>

(* areyousure.                                                             *)
No(p) == /\ at[p] = "asked"
         /\ Goto(p, "ready") /\ edit' = [edit EXCEPT ![p] = NoEdit]
         /\ UNCHANGED <<streams, search, hist>>
Yes(p) ==
  /\ at[p] = "asked"
  /\ named' = named \cup {<<edit[p].shown, edit[p].val>>}
  /\ misplaced' = IF edit[p].cell < edit[p].shown     \* by a negative index
                  THEN misplaced \cup {<<edit[p].cell, edit[p].val>>} ELSE misplaced
  /\ Goto(p, "sure")
  /\ UNCHANGED <<streams, edit, search, opens, kills, alone>>

(* A slip: as if every stream was opened to write.                         *)
WriteAlways(p) ==
  /\ at[p] = "sure"
  /\ Put(p, edit[p].cell, edit[p].val)
  /\ Goto(p, "ready") /\ edit' = [edit EXCEPT ![p] = NoEdit]
  /\ UNCHANGED <<mode, search, hist>>

(* A stream that was opened to be read moves, and does not write.          *)
Write(p) ==
  /\ at[p] = "sure"
  /\ IF mode[p] = "rw" THEN Put(p, edit[p].cell, edit[p].val)
     ELSE /\ buf' = [buf EXCEPT ![p] = IF edit[p].cell \in Held(p) THEN @ ELSE Empty]
          /\ UNCHANGED <<image, dirty>>
  /\ Goto(p, "ready") /\ edit' = [edit EXCEPT ![p] = NoEdit]
  /\ UNCHANGED <<mode, search, hist>>
-----------------------------------------------------------------------------
(* A search whose result can be loaded is not made again.                  *)
Search(p, s) ==
  /\ Ready(p) /\ cache[s].is # "whole"
  /\ job' = [job EXCEPT ![p] = s]
  /\ todo' = [todo EXCEPT ![p] = Blks]
  /\ Goto(p, "search")
  /\ UNCHANGED <<streams, edit, cur, found, cache, hist>>

Matches(p, c)    == <<c, Value(p, c)>> \in Hits[job[p]]
FirstEntry(b, k) == k = 1                                \* a slip: one is enough
LastEntry(b, k)  == k = Len(Entries[b])
(* The entries of a block, up to the first that matches.                   *)
Scan(p, b, k) ==
  /\ at[p] = "search"
  /\ cur[p] = IF k = 1 THEN <<>> ELSE <<b, k>>
  /\ k = 1 => b \in todo[p]
  /\ todo' = [todo EXCEPT ![p] = @ \ {b}]
  /\ LET c == Entries[b][k] IN
       /\ Fetch(p, c)
       /\ found' = [found EXCEPT ![p] = IF Matches(p, c) THEN @ \cup {b} ELSE @]
       /\ cur' = [cur EXCEPT ![p] = IF Matches(p, c) \/ LastEntry(b, k) THEN <<>> ELSE <<b, k + 1>>]
  /\ UNCHANGED <<mode, at, edit, job, cache, hist>>

Idle(p) == Goto(p, "ready") /\ found' = [found EXCEPT ![p] = {}]
(* The directory of the results is not made by the code: without it the    *)
(* result of the search cannot be written, and is not shown.               *)
OpenMatches(p) ==
  /\ at[p] = "search" /\ cur[p] = <<>> /\ todo[p] = {}
  /\ \/ /\ cache' = [cache EXCEPT ![job[p]] = [is |-> "empty", blks |-> {}]]
        /\ Goto(p, "dump") /\ UNCHANGED found
     \/ Idle(p) /\ UNCHANGED cache
  /\ UNCHANGED <<streams, edit, job, todo, cur, hist>>
Dump(p) ==
  /\ at[p] = "dump"
  /\ cache' = [cache EXCEPT ![job[p]] = [is |-> "whole", blks |-> found[p]]]
  /\ Idle(p)
  /\ UNCHANGED <<streams, edit, job, todo, cur, hist>>

Command(p) ==
  \/ \E c \in Cells : Look(p, c)
  \/ \E e \in BlockEdits : ChangeBlock(p, e[1], e[2], e[3])
  \/ \E e \in EntryEdits : ChangeDirEntry(p, e[1], e[2])
  \/ No(p) \/ Yes(p) \/ Write(p)
  \/ \E s \in Searches : Search(p, s)
  \/ \E b \in Blks : \E k \in DOMAIN Entries[b] : Scan(p, b, k)
  \/ OpenMatches(p) \/ Dump(p)

Remember ==
  past' = [p \in Procs |-> [c \in UNION {WordsOf(b) : b \in Blks} |->
    IF mode'[p] = "closed" THEN {}
    ELSE past[p][c] \cup {image'[c]} \cup {buf'[p][d] : d \in dirty'[p] \cap {c}}]]

Next == /\ \E p \in Procs : OpenImage(p) \/ CloseImage(p) \/ Kill(p) \/ Flush(p) \/ Command(p)
        /\ Remember
Spec == Init /\ [][Next]_vars
-----------------------------------------------------------------------------
StreamTypes ==
  /\ image \in [Cells -> Vals]
  /\ mode \in [Procs -> {"closed", "r", "rw"}]
  /\ DOMAIN buf = Procs /\ dirty \in [Procs -> SUBSET Cells]
  /\ \A p \in Procs : /\ Held(p) \subseteq Cells
                      /\ \A c \in Held(p) : buf[p][c] \in Vals
                      /\ dirty[p] \subseteq Held(p)
                      /\ ~Open(p) => Held(p) = {}
                      /\ dirty[p] # {} => mode[p] = "rw"
CommandTypes ==
  /\ at \in [Procs -> {"ready", "asked", "sure", "search", "dump"}]
  /\ DOMAIN edit = Procs
  /\ \A p \in Procs : at[p] \in {"asked", "sure"} =>
       /\ edit[p] \in [cell : Cells, shown : Cells, val : Vals]
       /\ edit[p].cell <= edit[p].shown
  /\ \A p \in Procs : at[p] # "ready" => Open(p)
  /\ job \in [Procs -> Searches] /\ todo \in [Procs -> SUBSET Blks] /\ found \in [Procs -> SUBSET Blks]
  /\ DOMAIN cur = Procs
  /\ cache \in [Searches -> [is : {"none", "empty", "whole"}, blks : SUBSET Blks]]
TypeOK == StreamTypes /\ CommandTypes

(* What was made of the edits: the image, and the words to be written.     *)
Content == [c \in Cells |-> IF \E p \in Procs : c \in dirty[p]
                            THEN buf[CHOOSE p \in Procs : c \in dirty[p]][c] ELSE image[c]]
P == INSTANCE EditPromise WITH content <- Content, kept <- image

(* "Wrote": an edit that was reported stays, and nothing else changes,     *)
(* unless a session is killed before its buffer is written; so it is as    *)
(* long as no two sessions are open to write.                              *)
KeepsPromise ==
  /\ P!Init
  /\ [][alone' => \/ P!Edit \/ P!Save
                  \/ P!Lose /\ kills' > kills]_<<Content, image>>

(* The session that writes sees its own edits, wherever the stream was     *)
(* moved: what inode_ and blkls print before an edit is true.              *)
OwnEditsAreSeen ==
  alone => \A p \in Procs : mode[p] = "rw" => \A c \in Cells : Value(p, c) = Content[c]

(* Every word of the image is what it was, or what someone was shown it    *)
(* would become and confirmed, or was put there by a negative index:       *)
(* whoever else writes, and whatever the buffer writes by the way.         *)
ShownIsWritten ==
  \A c \in Cells : image[c] # Image0[c] => <<c, image[c]>> \in named \cup misplaced

(* "Find all directory entries that point to this inode": the blocks that  *)
(* a search is about to keep had such an entry at some time since the      *)
(* session began, and the others did not have one all the time.  (When     *)
(* nothing is edited meanwhile, they are exactly the blocks that have.)    *)
SearchIsExplained ==
  \A p \in Procs : at[p] = "search" /\ cur[p] = <<>> =>
    \A b \in Blks \ todo[p] :
      IF b \in found[p] THEN \E c \in WordsOf(b) : \E v \in past[p][c] : <<c, v>> \in Hits[job[p]]
      ELSE \A c \in WordsOf(b) : \E v \in past[p][c] : <<c, v>> \notin Hits[job[p]]

(* Inductive.  One session writes, and what it holds and did not change is *)
(* what the image has.                                                     *)
OneWriter ==
  alone => \A p, q \in Procs : mode[p] = "rw" /\ mode[q] = "rw" => p = q
BufferAgrees ==
  alone => \A p \in Procs : mode[p] = "rw" => \A c \in Held(p) \ dirty[p] : buf[p][c] = image[c]
StreamInv == TypeOK /\ OneWriter /\ BufferAgrees /\ kills \in Nat

(* Every copy of a word is explained, not only that of the image.          *)
Explained(c, v) == v = Image0[c] \/ <<c, v>> \in named \cup misplaced
CopiesExplained ==
  /\ \A c \in Cells : Explained(c, image[c])
  /\ \A p \in Procs : /\ \A c \in Held(p) : Explained(c, buf[p][c])
                      /\ at[p] = "sure" => Explained(edit[p].cell, edit[p].val)

(* A search has seen only what was, in the blocks behind it and in the     *)
(* words of the one it is at.                                              *)
Words          == UNION {WordsOf(b) : b \in Blks}
Hit(p, c)      == \E v \in past[p][c] : <<c, v>> \in Hits[job[p]]
Miss(p, c)     == \E v \in past[p][c] : <<c, v>> \notin Hits[job[p]]
CopiesSeen     == \A p \in Procs : Open(p) => \A c \in Words :
                    image[c] \in past[p][c] /\ (c \in Held(p) => buf[p][c] \in past[p][c])
SearchedSoFar  == \A p \in Procs :
  /\ at[p] \in {"ready", "asked", "sure"} => found[p] = {}
  /\ at[p] # "search" => cur[p] = <<>>
  /\ at[p] = "search" =>
       /\ \A b \in found[p] : \E c \in WordsOf(b) : Hit(p, c)
       /\ \A b \in Blks \ (todo[p] \cup found[p]) : \A k \in DOMAIN Entries[b] :
            cur[p] = <<>> \/ cur[p][1] # b \/ k < cur[p][2] => Miss(p, Entries[b][k])
       /\ cur[p] # <<>> => \E b \in Blks \ todo[p] : \E k \in DOMAIN Entries[b] : cur[p] = <<b, k>>
SearchInv == CopiesSeen /\ SearchedSoFar
=============================================================================
