-------------------------------- MODULE Shell --------------------------------
(***************************************************************************)
(* The working directory (pyutil/main.py): the shell and its prompt, cd    *)
(* and ls, as several users run them on one image.  The directory is an    *)
(* inode number in local/curpath.pickle, which all of them share.          *)
(*                                                                         *)
(* A directory is what each_block and DirectoryBlk make of an inode: its   *)
(* blocks, and whether reading what follows them raises.  The image is not *)
(* written.                                                                *)
(***************************************************************************)
EXTENDS Integers, Sequences, SequencesExt

CONSTANTS
  Procs,           \* processes
  InodeCount,      \* sb.inode_count
  Names,           \* names of entries, and strings shown and typed
  Shown,           \* what f'{name_utf8}' makes of a name
  Lower,           \* str.lower
  Number,          \* coerce_int; for "" that of the integer 2, see CdResult
  Images,          \* the images and the words their users type, by the image's name
  LsArgs,          \* the arguments given to ls
  RecursionLimit,  \* Python's, in calls of branch
  MaxUp            \* bound: names in a path

NotANumber == -1
NoParent   == -1
Nothing    == -1

Ids == 1 .. InodeCount - 1

(* A name that is not UTF-8 stays bytes in name_utf8, and is shown as b'..':*)
(* another name, which is a string.                                        *)
IsUtf8(n) == Shown[n] = n

(* bad: validate finds errors.  found: what it walks, iterated: what the   *)
(* iterator does, the same entries unless the block is bad                 *)
(* (DirBlock!IterAgrees).                                                  *)
Entry == [name : Names, inode : Nat]
Block == {b \in [bad : BOOLEAN, found : Seq(Entry), iterated : Seq(Entry)] :
            b.bad \/ b.iterated = b.found}
Inode == [isdir : BOOLEAN, bad : BOOLEAN, blks : Seq(Block), raises : BOOLEAN]
Image == [inodes : [Ids -> Inode], words : SUBSET {Shown[n] : n \in Names}]
Args  == [root : Nat, parent : Nat \cup {NoParent}, depth : Nat, keep_going : BOOLEAN]

ASSUME SizesAssumption ==
  InodeCount \in Nat /\ 2 \in Ids /\ MaxUp \in Nat /\ RecursionLimit \in Nat \ {0}
ASSUME NamesAssumption ==
  /\ {"", ".", ".."} \subseteq Names
  /\ Shown \in [Names -> Names]
  /\ \A n \in Names : IsUtf8(Shown[n])
  /\ IsUtf8("") /\ IsUtf8(".") /\ IsUtf8("..")
  /\ Lower \in [Names -> Names]
  /\ Number \in [Names -> Nat \cup {NotANumber}]
ASSUME ImagesAssumption == Images \in [DOMAIN Images -> Image]
ASSUME ArgsAssumption == \A a \in LsArgs : a \in Args

VARIABLES
  image,   \* the name of the image, chosen once
  saved,   \* local/curpath.pickle, Nothing if there is none or it is empty
  pc,      \* what each process does
  looped,  \* whether it is a shell, or ends with its command
  cwd,     \* where cur_path set out
  at,      \* where it is
  path,    \* the words it has collected
  target,  \* the inode cd is about to save
  args,    \* the arguments of ls
  stk      \* the calls of branch, the innermost last

vars == <<image, saved, pc, looped, cwd, at, path, target, args, stk>>

(* A call of branch: b is its block, e the entry in it, 0 before validate. *)
Frame == [inode : Ids, parent : Nat \cup {NoParent}, b : Nat \ {0}, e : Nat]

(* The defaults of ls.                                                     *)
NoArgs == [root |-> 0, parent |-> NoParent, depth |-> 1, keep_going |-> FALSE]

Init ==
  /\ image \in DOMAIN Images
  /\ saved = Nothing
  /\ pc     = [p \in Procs |-> "off"]
  /\ looped = [p \in Procs |-> FALSE]
  /\ cwd    = [p \in Procs |-> 2]
  /\ at     = [p \in Procs |-> 2]
  /\ path   = [p \in Procs |-> << >>]
  /\ target = [p \in Procs |-> Nothing]
  /\ args   = [p \in Procs |-> NoArgs]
  /\ stk    = [p \in Procs |-> << >>]
-----------------------------------------------------------------------------
(* A missing, empty or half written file is the root directory.            *)
AsSaved   == saved                                     \* a slip: no except
cur_inode == IF saved = Nothing THEN 2 ELSE saved

(* The first entry of a directory that its iterators yield and that passes *)
(* the test; if there is none, one without a name.                         *)
NoEntry == [name |-> "", inode |-> 0]
FirstEntry(i, sb, Test(_)) ==
  LET In(blk)  == SelectInSeq(blk.iterated, Test)
      Has(blk) == In(blk) # 0
      blks == Images[sb].inodes[i].blks
      k    == SelectInSeq(blks, Has)
  IN  IF k = 0 THEN NoEntry ELSE blks[k].iterated[In(blks[k])]

(* The inode of the first "..".  0 stands for none, and for an exception   *)
(* on the way to it as well: sb.inode(0) raises, too.                      *)
IsParent(e) == e.name = ".."
Parents == [sb \in DOMAIN Images |-> [i \in Ids |-> FirstEntry(i, sb, IsParent).inode]]
parent_inode(i, sb) == Parents[sb][i]

(* The entry a directory has for i: the first, except ".".                 *)
EntryFor == [sb \in DOMAIN Images |-> [parent \in Ids |-> [i \in Ids |->
  LET IsFor(e) == e.name # "." /\ e.inode = i IN FirstEntry(parent, sb, IsFor)]]]
IsNamed(parent, i, sb)        == EntryFor[sb][parent][i].inode = i
name_for_inode(parent, i, sb) == EntryFor[sb][parent][i].name

(* A round of cur_path looks up the parent and the name before it asks     *)
(* whether it is at the top.  The shell does not catch its exceptions.     *)
Dies(i, sb) ==
  i \in Ids /\ parent_inode(i, sb) \in Ids
    => /\ Images[sb].inodes[parent_inode(i, sb)].raises
       /\ ~IsNamed(parent_inode(i, sb), i, sb)

IsNameless(i, sb) == ~IsNamed(parent_inode(i, sb), i, sb)   \* a slip: ".." names the root
IsTop(i, sb) == i = 2 \/ ~IsNamed(parent_inode(i, sb), i, sb)

ShownFor(i, sb) == Shown[name_for_inode(parent_inode(i, sb), i, sb)]
NamesAfter(names, i, sb) == Append(names, ShownFor(i, sb)) \* a slip
NamesFrom(names, i, sb)  == <<ShownFor(i, sb)>> \o names
-----------------------------------------------------------------------------
(* name_or_inode: the inode, or Nothing when it raises.  The blocks of the *)
(* directory d are validated one by one, each before its entries are       *)
(* looked at.  For the empty word cd hands over the integer 2, which       *)
(* cannot be compared with the name of an entry.  Bytes never equal a      *)
(* string.                                                                 *)
Matches(e, w) == w = "" \/ (IsUtf8(e.name) /\ Lower[e.name] = Lower[w])
IndexIn(blk, w) == LET Test(e) == Matches(e, w) IN SelectInSeq(blk.found, Test)

name_or_inode(w, d, sb) ==
  LET Ends(blk) == blk.bad \/ IndexIn(blk, w) # 0
      blks == Images[sb].inodes[d].blks
      k    == SelectInSeq(blks, Ends)
  IN  IF d \notin Ids THEN Nothing
      ELSE IF k # 0
           THEN IF blks[k].bad \/ w = "" THEN Nothing
                ELSE blks[k].found[IndexIn(blks[k], w)].inode
      ELSE IF Images[sb].inodes[d].raises THEN Nothing
      ELSE Number[w]
-----------------------------------------------------------------------------
(* A process starts: the shell, or one command.                            *)
Start(p) ==
  /\ pc[p] \in {"off", "died"}
  /\ \E shell \in BOOLEAN :
       /\ looped' = [looped EXCEPT ![p] = shell]
       /\ pc' = [pc EXCEPT ![p] = IF shell THEN "prompt" ELSE "ready"]
  /\ UNCHANGED <<image, saved, cwd, at, path, target, args, stk>>

(* cur_path reads the file, after the prompt has read it to show it.       *)
Prompt(p) ==
  /\ pc[p] = "prompt"
  /\ pc'   = [pc EXCEPT ![p] = "walk"]
  /\ cwd'  = [cwd EXCEPT ![p] = cur_inode]
  /\ at'   = [at EXCEPT ![p] = cur_inode]
  /\ path' = [path EXCEPT ![p] = << >>]
  /\ UNCHANGED <<image, saved, looped, target, args, stk>>

(* The variables of cur_path are gone when it returns or raises; what it   *)
(* returned is in them until the user has typed something.                 *)
Forget(p) ==
  /\ cwd'  = [cwd EXCEPT ![p] = 2]
  /\ at'   = [at EXCEPT ![p] = 2]
  /\ path' = [path EXCEPT ![p] = << >>]

Die(p) ==
  /\ pc[p] = "walk" /\ Dies(at[p], image)
  /\ pc' = [pc EXCEPT ![p] = "died"]
  /\ looped' = [looped EXCEPT ![p] = FALSE]
  /\ Forget(p)
  /\ UNCHANGED <<image, saved, target, args, stk>>

Arrive(p) ==
  /\ pc[p] = "walk" /\ ~Dies(at[p], image) /\ IsTop(at[p], image)
  /\ pc' = [pc EXCEPT ![p] = "ready"]
  /\ UNCHANGED <<image, saved, looped, cwd, at, path, target, args, stk>>

(* A cycle of ".." is never left: MaxUp cuts it short.                     *)
Up(p) ==
  /\ pc[p] = "walk" /\ ~Dies(at[p], image) /\ ~IsTop(at[p], image)
  /\ Len(path[p]) < MaxUp
  /\ path' = [path EXCEPT ![p] = NamesFrom(@, at[p], image)]
  /\ at'   = [at EXCEPT ![p] = parent_inode(@, image)]
  /\ UNCHANGED <<image, saved, pc, looped, cwd, target, args, stk>>

(* What follows a command, whether or not it raised: the shell runs it in  *)
(* a try.                                                                  *)
After(p) == IF looped[p] THEN "prompt" ELSE "off"

(* cd reads the file again.  An inode 0 is not saved.                      *)
IsFound(i) == i # Nothing                              \* a slip: saves it
IsSaved(i) == i # Nothing /\ i # 0
Cd(p) ==
  /\ pc[p] = "ready"
  /\ \E w \in Images[image].words :
       LET i == name_or_inode(w, cur_inode, image) IN
       IF IsSaved(i)
         THEN /\ target' = [target EXCEPT ![p] = i]
              /\ pc' = [pc EXCEPT ![p] = "open"]
         ELSE pc' = [pc EXCEPT ![p] = After(p)] /\ UNCHANGED target
  /\ Forget(p)
  /\ UNCHANGED <<image, saved, looped, args, stk>>

(* Opening the file for writing empties it.                                *)
Open(p) ==
  /\ pc[p] = "open"
  /\ saved' = Nothing
  /\ pc' = [pc EXCEPT ![p] = "write"]
  /\ UNCHANGED <<image, looped, cwd, at, path, target, args, stk>>

(* A number over a longer one reads as itself: a pickle has its end in it. *)
Write(p) ==
  /\ pc[p] = "write"
  /\ saved' = target[p]
  /\ pc' = [pc EXCEPT ![p] = After(p)]
  /\ target' = [target EXCEPT ![p] = Nothing]
  /\ UNCHANGED <<image, looped, cwd, at, path, args, stk>>
-----------------------------------------------------------------------------
Inodes == Images[image].inodes
Call(i, parent) == [inode |-> i, parent |-> parent, b |-> 1, e |-> 0]

(* ls: errors end it, unless it is to keep going.                          *)
Ls(p) ==
  /\ pc[p] = "ready"
  /\ \E a \in LsArgs :
       LET i == IF a.root # 0 THEN a.root ELSE cur_inode IN
       IF i \in Ids /\ (Inodes[i].bad => a.keep_going)
         THEN /\ pc'   = [pc EXCEPT ![p] = "ls"]
              /\ args' = [args EXCEPT ![p] = a]
              /\ stk'  = [stk EXCEPT ![p] = <<Call(i, a.parent)>>]
         ELSE pc' = [pc EXCEPT ![p] = After(p)] /\ UNCHANGED <<args, stk>>
  /\ Forget(p)
  /\ UNCHANGED <<image, saved, looped, target>>

Top(p)    == stk[p][Len(stk[p])]
Blks(p)   == Inodes[Top(p).inode].blks
InBlks(p) == pc[p] = "ls" /\ Top(p).b <= Len(Blks(p))
AtEntry(p) == InBlks(p) /\ Top(p).e # 0 /\ Top(p).e <= Len(Blks(p)[Top(p).b].found)
EntryAt(p) == Blks(p)[Top(p).b].found[Top(p).e]

(* "." and ".." have to agree with where ls is, what else has an inode     *)
(* with the inode's own validate.                                          *)
HasChild(e) == e.name \notin {"", ".", ".."} /\ e.inode \in Ids
IsWrong(e, f) ==
  \/ e.name = "."  /\ e.inode # f.inode
  \/ e.name = ".." /\ f.parent # NoParent /\ e.inode # f.parent
  \/ HasChild(e) /\ Inodes[e.inode].bad

(* Directories are left out; ls goes into everything else, until it is     *)
(* deep enough.  Depth 0 is never reached.                                 *)
IsDeep(p)     == Len(stk[p]) = args[p].depth
Descends(p) == HasChild(EntryAt(p)) /\ ~Inodes[EntryAt(p).inode].isdir /\ ~IsDeep(p)

Fails(p) ==
  \/ InBlks(p) /\ Top(p).e = 0 /\ Blks(p)[Top(p).b].bad /\ ~args[p].keep_going
  \/ AtEntry(p) /\ IsWrong(EntryAt(p), Top(p)) /\ ~args[p].keep_going
  \/ AtEntry(p) /\ Descends(p) /\ Len(stk[p]) = RecursionLimit
  \/ pc[p] = "ls" /\ ~InBlks(p) /\ Inodes[Top(p).inode].raises

LsEnds(p) ==
  /\ stk'  = [stk EXCEPT ![p] = << >>]
  /\ args' = [args EXCEPT ![p] = NoArgs]
  /\ pc'  = [pc EXCEPT ![p] = After(p)]

LsFail(p) ==
  /\ pc[p] = "ls" /\ Fails(p)
  /\ LsEnds(p)
  /\ UNCHANGED <<image, saved, looped, cwd, at, path, target>>

Advanced(p)  == [stk[p] EXCEPT ![Len(stk[p])].e = @ + 1]
NextBlock(p) == [stk[p] EXCEPT ![Len(stk[p])].b = @ + 1, ![Len(stk[p])].e = 0]

LsValidate(p) ==
  /\ InBlks(p) /\ Top(p).e = 0 /\ ~Fails(p)
  /\ stk' = [stk EXCEPT ![p] = Advanced(p)]
  /\ UNCHANGED <<image, saved, pc, looped, cwd, at, path, target, args>>

LsEntry(p) ==
  /\ AtEntry(p) /\ ~Fails(p)
  /\ stk' = [stk EXCEPT ![p] =
       IF Descends(p) THEN Advanced(p) \o <<Call(EntryAt(p).inode, Top(p).inode)>>
                      ELSE Advanced(p)]
  /\ UNCHANGED <<image, saved, pc, looped, cwd, at, path, target, args>>

LsNextBlock(p) ==
  /\ InBlks(p) /\ Top(p).e # 0 /\ ~AtEntry(p)
  /\ stk' = [stk EXCEPT ![p] = NextBlock(p)]
  /\ UNCHANGED <<image, saved, pc, looped, cwd, at, path, target, args>>

LsReturn(p) ==
  /\ pc[p] = "ls" /\ ~InBlks(p) /\ ~Fails(p)
  /\ IF Len(stk[p]) = 1 THEN LsEnds(p)
     ELSE stk' = [stk EXCEPT ![p] = Front(@)] /\ UNCHANGED <<pc, args>>
  /\ UNCHANGED <<image, saved, looped, cwd, at, path, target>>
-----------------------------------------------------------------------------
(* The end of the input, or of a command that is not one of these.         *)
Eof(p) ==
  /\ pc[p] = "ready"
  /\ pc' = [pc EXCEPT ![p] = "off"]
  /\ looped' = [looped EXCEPT ![p] = FALSE]
  /\ Forget(p)
  /\ UNCHANGED <<image, saved, target, args, stk>>

Kill(p) ==
  /\ pc[p] \notin {"off", "died"}
  /\ pc' = [pc EXCEPT ![p] = "off"]
  /\ looped' = [looped EXCEPT ![p] = FALSE]
  /\ stk' = [stk EXCEPT ![p] = << >>]
  /\ args' = [args EXCEPT ![p] = NoArgs]
  /\ target' = [target EXCEPT ![p] = Nothing]
  /\ Forget(p)
  /\ UNCHANGED <<image, saved>>

Step(p) ==
  \/ Prompt(p) \/ Die(p) \/ Arrive(p) \/ Up(p) \/ Open(p) \/ Write(p)
  \/ LsFail(p) \/ LsValidate(p) \/ LsEntry(p) \/ LsNextBlock(p) \/ LsReturn(p)

User(p) == Start(p) \/ Cd(p) \/ Ls(p) \/ Eof(p) \/ Kill(p)

Next == \E p \in Procs : Step(p) \/ User(p)

Spec == Init /\ [][Next]_vars

(* A process that is not killed goes on.  The user need not do anything.   *)
FairSpec == Spec /\ \A p \in Procs : WF_vars(Step(p))
-----------------------------------------------------------------------------
Places == {"off", "died", "prompt", "walk", "ready", "open", "write", "ls"}

(* What the processes hold has its type: the inode of the file is one that *)
(* was saved, and calls of ls are on inodes there are.                     *)
TypeOK ==
  /\ image \in DOMAIN Images
  /\ saved \in Nat \cup {Nothing}
  /\ pc \in [Procs -> Places]
  /\ looped \in [Procs -> BOOLEAN]
  /\ cwd \in [Procs -> Nat] /\ at \in [Procs -> Nat]
  /\ path \in [Procs -> Seq(Names)]
  /\ target \in [Procs -> Nat \cup {Nothing}]
  /\ args \in [Procs -> Args]
  /\ stk \in [Procs -> Seq(Frame)]
  /\ \A p \in Procs : pc[p] = "ls" => stk[p] # << >>

Dirs(sb) == {i \in Ids : Images[sb].inodes[i].isdir}

(* The names in a directory: no two strings differ by case only, and only  *)
(* spare entries have none.                                                *)
TellsApart(blks) ==
  \A k, l \in DOMAIN blks : \A m \in DOMAIN blks[k].found, n \in DOMAIN blks[l].found :
    LET e == blks[k].found[m]  f == blks[l].found[n] IN
    /\ e.name = "" => e.inode = 0
    /\ e.name # "" /\ IsUtf8(e.name) /\ IsUtf8(f.name) /\ Lower[e.name] = Lower[f.name]
         => k = l /\ m = n

(* Images without damage, in which every directory has a name.             *)
IsSound(sb) ==
  /\ 2 \in Dirs(sb)
  /\ \A i \in Dirs(sb) :
       /\ parent_inode(i, sb) \in Dirs(sb)
       /\ IsNamed(parent_inode(i, sb), i, sb)
       /\ ~Images[sb].inodes[i].raises
       /\ \A k \in DOMAIN Images[sb].inodes[i].blks : ~Images[sb].inodes[i].blks[k].bad
       /\ TellsApart(Images[sb].inodes[i].blks)
Sound == {sb \in DOMAIN Images : IsSound(sb)}

(* Those whose directories are all named in UTF-8; files need not be.      *)
Legible == {sb \in Sound : \A i \in Dirs(sb) :
              IsUtf8(name_for_inode(parent_inode(i, sb), i, sb))}

(* What the prompt shows can be typed: looking its words up one by one     *)
(* from where it begins leads to the working directory it was made for     *)
(* (main.py:39-48 against main.py:52-63).  It does not where a directory's *)
(* name is not UTF-8 (directory.py:108-112).                               *)
LeadsTo(names, from, to, sb) ==
  \E ds \in [0 .. Len(names) -> Dirs(sb)] :
    /\ ds[0] = from /\ ds[Len(names)] = to
    /\ \A k \in 1 .. Len(names) : ds[k] = name_or_inode(names[k], ds[k - 1], sb)
PathLeadsBack ==
  image \in Legible => \A p \in Procs :
    looped[p] /\ pc[p] \in {"walk", "ready"} /\ cwd[p] \in Dirs(image)
      => LeadsTo(path[p], at[p], cwd[p], image)

(* Where users only go to directories no shell dies, however many shells   *)
(* and commands change the directory at once and wherever one of them is   *)
(* killed (main.py:12-20, main.py:733-748).                                *)
OnlyDirs == {sb \in Sound : \A d \in Dirs(sb), w \in Images[sb].words :
               name_or_inode(w, d, sb) \in Dirs(sb) \cup {Nothing, 0}}

ShellLives == image \in OnlyDirs => \A p \in Procs : pc[p] # "died"

(* ls shows no more layers than it was asked for (main.py:192-255).        *)
LsWithinDepth ==
  \A p \in Procs : args[p].depth # 0 => Len(stk[p]) <= args[p].depth

(* Images without a cycle of "..", but for the root's own.                 *)
Rooted == {sb \in DOMAIN Images :
  \A S \in SUBSET (Ids \ {2}) : S # {} => \E i \in S : parent_inode(i, sb) \notin S}

(* Every command and every prompt ends, if no ".." are a cycle: the prompt *)
(* reaches the top, ls ends at its depth or at Python's, even where files  *)
(* read as directories that contain themselves.                            *)
Busy == {"prompt", "walk", "open", "write", "ls"}
CommandsEnd ==
  \A p \in Procs : image \in Rooted /\ pc[p] \in Busy ~> pc[p] \notin Busy
=============================================================================
