----------------------------- MODULE ShellProofs -----------------------------
(***************************************************************************)
(* Proofs about Shell, for any number of processes on any image: no shell  *)
(* dies where users only go to directories, ls keeps to its depth, and the *)
(* words of a prompt lead back to its directory.  The first two need of a  *)
(* lookup only where OnlyDirs says that it leads; the last one opens it: a *)
(* name in UTF-8 is shown as it is and finds the first entry that has it,  *)
(* the only one in a sound image.                                          *)
(***************************************************************************)
EXTENDS Shell, SequenceTheorems, WellFoundedInduction, TLAPS

(* Wherever the working directory is kept, in the file or on the way to it *)
(* or at a prompt, it is a directory.                                      *)
LiveInv ==
  image \in OnlyDirs =>
    /\ saved \in Dirs(image) \cup {Nothing}
    /\ pc \in [Procs -> Places \ {"died"}]
    /\ at \in [Procs -> Dirs(image)]
    /\ target \in [Procs -> Dirs(image) \cup {Nothing}]
    /\ \A p \in Procs : pc[p] \in {"open", "write"} => target[p] # Nothing

(* In a sound image the walk goes from directory to directory.             *)
LEMMA DirsSurvive ==
  ASSUME NEW sb \in OnlyDirs, NEW i \in Dirs(sb)
  PROVE  ~Dies(i, sb) /\ parent_inode(i, sb) \in Dirs(sb)
<1>1. IsSound(sb)
  BY DEF OnlyDirs, Sound
<1>2. parent_inode(i, sb) \in Dirs(sb) /\ IsNamed(parent_inode(i, sb), i, sb)
  BY <1>1 DEF IsSound
<1>3. i \in Ids /\ parent_inode(i, sb) \in Ids
  BY <1>2 DEF Dirs
<1> QED BY <1>2, <1>3 DEF Dies

LEMMA RootIsDir == ASSUME NEW sb \in OnlyDirs PROVE 2 \in Dirs(sb)
  BY DEF OnlyDirs, Sound, IsSound

(* A lookup that is saved leads to a directory.                            *)
LEMMA LookupsAreDirs ==
  ASSUME NEW sb \in OnlyDirs, NEW d \in Dirs(sb), NEW w \in Images[sb].words,
         IsSaved(name_or_inode(w, d, sb))
  PROVE  name_or_inode(w, d, sb) \in Dirs(sb)
  BY DEF OnlyDirs, IsSaved, Nothing

LEMMA DirsAreIds == \A sb : Nothing \notin Dirs(sb)
  BY SizesAssumption DEF Dirs, Ids, Nothing

LEMMA LiveInit == Init => LiveInv
<1> SUFFICES ASSUME Init, image \in OnlyDirs PROVE LiveInv
  BY DEF LiveInv
<1> QED BY RootIsDir DEF Init, LiveInv, Places, Nothing

LEMMA LiveStep == LiveInv /\ [Next]_vars => LiveInv'
<1> SUFFICES ASSUME LiveInv, [Next]_vars, image' \in OnlyDirs PROVE LiveInv'
  BY DEF LiveInv
<1>0. image' = image
  BY DEF Next, Step, User, Start, Prompt, Die, Arrive, Up, Cd, Open, Write, Ls, LsFail, LsValidate,
         LsEntry, LsNextBlock, LsReturn, Eof, Kill, vars
<1>1. /\ image \in OnlyDirs
      /\ saved \in Dirs(image) \cup {Nothing}
      /\ pc \in [Procs -> Places \ {"died"}]
      /\ at \in [Procs -> Dirs(image)]
      /\ target \in [Procs -> Dirs(image) \cup {Nothing}]
      /\ \A p \in Procs : pc[p] \in {"open", "write"} => target[p] # Nothing
  BY <1>0 DEF LiveInv
<1>2. Dirs(image') = Dirs(image)
  BY <1>0
<1>3. cur_inode \in Dirs(image) /\ 2 \in Dirs(image)
  BY <1>1, RootIsDir DEF cur_inode
<1>4. \A p \in Procs : After(p) \in Places \ {"died", "open", "write"}
  BY DEF After, Places
<1>5. CASE UNCHANGED vars
  BY <1>1, <1>5 DEF LiveInv, vars
<1>6. ASSUME NEW p \in Procs, Step(p) \/ User(p) PROVE LiveInv'
  <2>1. CASE Start(p)
    BY <1>1, <1>2, <2>1 DEF Start, LiveInv, Places
  <2>2. CASE Prompt(p)
    BY <1>1, <1>2, <1>3, <2>2 DEF Prompt, LiveInv, Places
  <2>3. CASE Die(p)
    BY <1>1, <2>3, DirsSurvive DEF Die
  <2>4. CASE Arrive(p)
    BY <1>1, <1>2, <2>4 DEF Arrive, LiveInv, Places
  <2>5. CASE Up(p)
    <3>1. parent_inode(at[p], image) \in Dirs(image)
      BY <1>1, DirsSurvive
    <3> QED BY <1>1, <1>2, <2>5, <3>1 DEF Up, LiveInv
  <2>6. CASE Cd(p)
    <3>1. PICK w \in Images[image].words :
            LET i == name_or_inode(w, cur_inode, image) IN
            IF IsSaved(i)
              THEN target' = [target EXCEPT ![p] = i] /\ pc' = [pc EXCEPT ![p] = "open"]
              ELSE pc' = [pc EXCEPT ![p] = After(p)] /\ UNCHANGED target
      BY <2>6 DEF Cd
    <3>2. at' \in [Procs -> Dirs(image)] /\ saved' = saved
      BY <1>1, <1>3, <2>6 DEF Cd, Forget
    <3>3. CASE IsSaved(name_or_inode(w, cur_inode, image))
      <4>1. name_or_inode(w, cur_inode, image) \in Dirs(image)
        BY <1>1, <1>3, <3>3, LookupsAreDirs
      <4>2. PICK i \in Dirs(image) : target' = [target EXCEPT ![p] = i]
        BY <3>1, <3>3, <4>1
      <4>3. pc' = [pc EXCEPT ![p] = "open"]
        BY <3>1, <3>3
      <4>4. target' \in [Procs -> Dirs(image) \cup {Nothing}] /\ i # Nothing
        BY <1>1, <4>2, DirsAreIds
      <4>5. \A q \in Procs : pc'[q] \in {"open", "write"} => target'[q] # Nothing
        BY <1>1, <4>2, <4>3, <4>4
      <4>6. pc' \in [Procs -> Places \ {"died"}]
        BY <1>1, <4>3 DEF Places
      <4> QED BY <1>1, <1>2, <3>2, <4>4, <4>5, <4>6 DEF LiveInv
    <3>4. CASE ~IsSaved(name_or_inode(w, cur_inode, image))
      BY <1>1, <1>2, <1>4, <3>1, <3>2, <3>4 DEF LiveInv
    <3> QED BY <3>3, <3>4
  <2>7. CASE Open(p)
    BY <1>1, <1>2, <2>7 DEF Open, LiveInv, Places
  <2>8. CASE Write(p)
    BY <1>1, <1>2, <1>4, <2>8 DEF Write, LiveInv
  <2>9. CASE Ls(p)
    <3>1. \/ pc' = [pc EXCEPT ![p] = "ls"]
          \/ pc' = [pc EXCEPT ![p] = After(p)]
      BY <2>9 DEF Ls
    <3>2. at' \in [Procs -> Dirs(image)] /\ saved' = saved /\ target' = target
      BY <1>1, <1>3, <2>9 DEF Ls, Forget
    <3> QED BY <1>1, <1>2, <1>4, <3>1, <3>2 DEF LiveInv, Places
  <2>10. CASE LsFail(p) \/ LsReturn(p)
    <3>1. pc' = pc \/ pc' = [pc EXCEPT ![p] = After(p)]
      BY <2>10 DEF LsFail, LsReturn, LsEnds
    <3>2. at' = at /\ saved' = saved /\ target' = target
      BY <2>10 DEF LsFail, LsReturn
    <3> QED BY <1>1, <1>2, <1>4, <3>1, <3>2 DEF LiveInv
  <2>11. CASE LsValidate(p) \/ LsEntry(p) \/ LsNextBlock(p)
    BY <1>1, <1>2, <2>11 DEF LsValidate, LsEntry, LsNextBlock, LiveInv
  <2>12. CASE Eof(p)
    BY <1>1, <1>2, <1>3, <2>12 DEF Eof, Forget, LiveInv, Places
  <2>13. CASE Kill(p)
    BY <1>1, <1>2, <1>3, <2>13 DEF Kill, Forget, LiveInv, Places, Nothing
  <2> QED BY <1>6, <2>1, <2>2, <2>3, <2>4, <2>5, <2>6, <2>7, <2>8, <2>9, <2>10, <2>11, <2>12, <2>13
             DEF Step, User
<1> QED BY <1>5, <1>6 DEF Next

(* No shell dies where users only go to directories, whatever the order of *)
(* the reads and writes of the file of the working directory, and wherever *)
(* a process is killed between emptying and writing it.                    *)
THEOREM LiveCorrect == Spec => []ShellLives
<1>1. LiveInv => ShellLives
  BY DEF LiveInv, ShellLives
<1> QED BY LiveInit, LiveStep, <1>1, PTL DEF Spec
-----------------------------------------------------------------------------
(* The calls of ls that have begun and not returned.                       *)
DepthInv ==
  /\ stk \in [Procs -> Seq(Frame)]
  /\ args \in [Procs -> Args]
  /\ pc \in [Procs -> Places]
  /\ \A p \in Procs : pc[p] = "ls" => stk[p] # << >>
  /\ LsWithinDepth

LEMMA NoArgsAreArgs == NoArgs \in Args
  BY DEF NoArgs, Args, NoParent

LEMMA TopIsFrame ==
  ASSUME DepthInv, NEW p \in Procs, pc[p] = "ls"
  PROVE  /\ Len(stk[p]) \in Nat \ {0} /\ Top(p) \in Frame
         /\ Top(p) = stk[p][Len(stk[p])]
  BY DEF DepthInv, Top

LEMMA FramesGoOn ==
  ASSUME NEW f \in Frame
  PROVE  [f EXCEPT !.e = @ + 1] \in Frame /\ [f EXCEPT !.b = @ + 1] \in Frame
<1>1. f.e + 1 \in Nat /\ f.b + 1 \in Nat \ {0}
  <2>1. f.e \in Nat /\ f.b \in Nat
    BY DEF Frame
  <2> QED BY <2>1
<1> QED BY <1>1 DEF Frame

(* Going on in a call changes neither the calls nor their number.          *)
LEMMA SameCalls ==
  ASSUME DepthInv, NEW p \in Procs, pc[p] = "ls"
  PROVE  /\ Advanced(p) \in Seq(Frame) /\ Len(Advanced(p)) = Len(stk[p])
         /\ NextBlock(p) \in Seq(Frame) /\ Len(NextBlock(p)) = Len(stk[p])
<1> DEFINE s == stk[p] n == Len(s)
<1>1. s \in Seq(Frame) /\ n \in 1 .. n /\ s[n] \in Frame /\ n \in Nat
  BY TopIsFrame DEF DepthInv
<1>2. [s[n] EXCEPT !.e = @ + 1] \in Frame
  BY <1>1, FramesGoOn
<1>3. [s[n] EXCEPT !.b = @ + 1] \in Frame
  BY <1>1, FramesGoOn
<1>4. Advanced(p) = [s EXCEPT ![n] = [s[n] EXCEPT !.e = @ + 1]]
  BY DEF Advanced
<1>5. NextBlock(p) = [s EXCEPT ![n] = [[s[n] EXCEPT !.b = @ + 1] EXCEPT !.e = 0]]
  BY <1>1 DEF NextBlock
<1>6. [[s[n] EXCEPT !.b = @ + 1] EXCEPT !.e = 0] \in Frame
  BY <1>3 DEF Frame
<1>7. \A f \in Frame : [s EXCEPT ![n] = f] \in Seq(Frame) /\ Len([s EXCEPT ![n] = f]) = n
  BY <1>1, ExceptSeq
<1> QED BY <1>2, <1>4, <1>5, <1>6, <1>7

LEMMA DepthInit == Init => DepthInv
<1> SUFFICES ASSUME Init PROVE DepthInv
  OBVIOUS
<1>1. << >> \in Seq(Frame) /\ Len(<< >>) = 0
  OBVIOUS
<1>2. NoArgs.depth = 1
  BY DEF NoArgs
<1> QED BY <1>1, <1>2, NoArgsAreArgs DEF Init, DepthInv, LsWithinDepth, Places

(* What a step of one process has to do to the calls.                      *)
LEMMA OneProcess ==
  ASSUME DepthInv, NEW p \in Procs,
         NEW s \in Seq(Frame), stk' = [stk EXCEPT ![p] = s],
         NEW a \in Args, args' = [args EXCEPT ![p] = a],
         NEW l \in Places, pc' = [pc EXCEPT ![p] = l],
         l = "ls" => s # << >>,
         a.depth # 0 => Len(s) <= a.depth
  PROVE  DepthInv'
<1>1. stk' \in [Procs -> Seq(Frame)] /\ args' \in [Procs -> Args] /\ pc' \in [Procs -> Places]
  BY DEF DepthInv
<1>2. ASSUME NEW q \in Procs
      PROVE  /\ pc'[q] = "ls" => stk'[q] # << >>
             /\ args'[q].depth # 0 => Len(stk'[q]) <= args'[q].depth
  <2>1. CASE q = p
    <3>1. stk'[q] = s /\ args'[q] = a /\ pc'[q] = l
      BY <2>1 DEF DepthInv
    <3> QED BY <3>1
  <2>2. CASE q # p
    <3>1. stk'[q] = stk[q] /\ args'[q] = args[q] /\ pc'[q] = pc[q]
      BY <2>2 DEF DepthInv
    <3> QED BY <3>1 DEF DepthInv, LsWithinDepth
  <2> QED BY <2>1, <2>2
<1> QED BY <1>1, <1>2 DEF DepthInv, LsWithinDepth

LEMMA DepthStep == DepthInv /\ [Next]_vars => DepthInv'
<1> SUFFICES ASSUME DepthInv, [Next]_vars PROVE DepthInv'
  OBVIOUS
<1>0. << >> \in Seq(Frame) /\ Len(<< >>) = 0 /\ (NoArgs.depth # 0 => Len(<< >>) <= NoArgs.depth)
  BY DEF NoArgs
<1>1. CASE UNCHANGED vars
  BY <1>1 DEF vars, DepthInv, LsWithinDepth
<1>2. ASSUME NEW p \in Procs, Step(p) \/ User(p) PROVE DepthInv'
  <2>0. /\ stk[p] \in Seq(Frame) /\ args[p] \in Args /\ pc[p] \in Places
        /\ pc[p] = "ls" => stk[p] # << >>
        /\ args[p].depth # 0 => Len(stk[p]) <= args[p].depth
        /\ stk = [stk EXCEPT ![p] = stk[p]] /\ args = [args EXCEPT ![p] = args[p]]
        /\ pc = [pc EXCEPT ![p] = pc[p]]
        /\ After(p) \in Places \ {"ls"}
    BY DEF DepthInv, LsWithinDepth, After, Places
  <2>1. CASE Start(p) \/ Prompt(p) \/ Die(p) \/ Arrive(p) \/ Up(p) \/ Cd(p) \/ Open(p) \/ Write(p) \/ Eof(p)
    <3>1. stk' = stk /\ args' = args
      BY <2>1 DEF Start, Prompt, Die, Arrive, Up, Cd, Open, Write, Eof
    <3>2. PICK l \in Places : pc' = [pc EXCEPT ![p] = l] /\ (l = "ls" => pc[p] = "ls")
      <4>1. CASE Start(p)
        BY <4>1 DEF Start, Places
      <4>2. CASE Cd(p)
        <5>1. pc' = [pc EXCEPT ![p] = "open"] \/ pc' = [pc EXCEPT ![p] = After(p)]
          BY <4>2 DEF Cd
        <5> QED BY <2>0, <5>1 DEF Places
      <4>3. CASE Write(p)
        BY <2>0, <4>3 DEF Write
      <4>4. CASE Prompt(p) \/ Die(p) \/ Arrive(p) \/ Open(p) \/ Eof(p)
        BY <4>4 DEF Prompt, Die, Arrive, Open, Eof, Places
      <4>5. CASE Up(p)
        BY <2>0, <4>5 DEF Up
      <4> QED BY <2>1, <4>1, <4>2, <4>3, <4>4, <4>5
    <3> QED BY <2>0, <3>1, <3>2, OneProcess
  <2>2. CASE Ls(p)
    <3>1. PICK a \in LsArgs :
            LET i == IF a.root # 0 THEN a.root ELSE cur_inode IN
            IF i \in Ids /\ (Inodes[i].bad => a.keep_going)
              THEN /\ pc'   = [pc EXCEPT ![p] = "ls"]
                   /\ args' = [args EXCEPT ![p] = a]
                   /\ stk'  = [stk EXCEPT ![p] = <<Call(i, a.parent)>>]
              ELSE pc' = [pc EXCEPT ![p] = After(p)] /\ UNCHANGED <<args, stk>>
      BY <2>2 DEF Ls
    <3> DEFINE i == IF a.root # 0 THEN a.root ELSE cur_inode
    <3>2. a \in Args /\ a.depth \in Nat
      BY ArgsAssumption DEF Args
    <3>3. CASE i \in Ids /\ (Inodes[i].bad => a.keep_going)
      <4>1. Call(i, a.parent) \in Frame
        BY <3>2, <3>3 DEF Call, Frame, Args
      <4>2. <<Call(i, a.parent)>> \in Seq(Frame) /\ Len(<<Call(i, a.parent)>>) = 1
            /\ <<Call(i, a.parent)>> # << >>
        BY <4>1
      <4>3. a.depth # 0 => Len(<<Call(i, a.parent)>>) <= a.depth
        BY <3>2, <4>2
      <4>4. "ls" \in Places
        BY DEF Places
      <4> HIDE DEF i
      <4> QED BY <3>1, <3>2, <3>3, <4>2, <4>3, <4>4, OneProcess DEF i
    <3>4. CASE ~(i \in Ids /\ (Inodes[i].bad => a.keep_going))
      BY <2>0, <3>1, <3>4, OneProcess
    <3> QED BY <3>3, <3>4
  <2>3. CASE LsFail(p) \/ (LsReturn(p) /\ Len(stk[p]) = 1)
    <3>1. /\ stk' = [stk EXCEPT ![p] = << >>] /\ args' = [args EXCEPT ![p] = NoArgs]
          /\ pc' = [pc EXCEPT ![p] = After(p)]
      BY <2>3 DEF LsFail, LsReturn, LsEnds
    <3> QED BY <1>0, <2>0, <3>1, NoArgsAreArgs, OneProcess
  <2>4. CASE LsReturn(p) /\ Len(stk[p]) # 1
    <3>1. stk' = [stk EXCEPT ![p] = Front(stk[p])] /\ args' = args /\ pc' = pc /\ pc[p] = "ls"
      BY <2>0, <2>4 DEF LsReturn
    <3>2. Len(stk[p]) \in Nat /\ Len(stk[p]) > 1 /\ args[p].depth \in Nat
      <4>1. Len(stk[p]) \in Nat \ {0} /\ Len(stk[p]) # 1
        BY <2>4, <3>1, TopIsFrame
      <4>2. args[p].depth \in Nat
        BY <2>0 DEF Args
      <4>3. \A n \in Nat \ {0} : n # 1 => n \in Nat /\ n > 1
        OBVIOUS
      <4> QED BY <4>1, <4>2, <4>3
    <3>3. Front(stk[p]) \in Seq(Frame) /\ Len(Front(stk[p])) = Len(stk[p]) - 1
      BY <2>0, <3>2 DEF Front
    <3>4. Front(stk[p]) # << >> /\ (args[p].depth # 0 => Len(Front(stk[p])) <= args[p].depth)
      BY <1>0, <2>0, <3>2, <3>3
    <3> QED BY <2>0, <3>1, <3>3, <3>4, OneProcess
  <2>5. CASE LsValidate(p) \/ LsNextBlock(p)
    <3>1. pc[p] = "ls" /\ pc' = pc /\ args' = args
      BY <2>5 DEF LsValidate, LsNextBlock, InBlks
    <3>2. PICK s \in Seq(Frame) : stk' = [stk EXCEPT ![p] = s] /\ Len(s) = Len(stk[p])
      BY <2>5, <3>1, SameCalls DEF LsValidate, LsNextBlock
    <3>3. s # << >>
      BY <1>0, <3>1, <3>2, TopIsFrame
    <3> QED BY <2>0, <3>1, <3>2, <3>3, OneProcess
  <2>6. CASE LsEntry(p)
    <3>1. pc[p] = "ls" /\ pc' = pc /\ args' = args
      BY <2>6 DEF LsEntry, AtEntry, InBlks
    <3>2. /\ Advanced(p) \in Seq(Frame) /\ Len(Advanced(p)) = Len(stk[p]) /\ Len(stk[p]) \in Nat \ {0}
          /\ args[p].depth \in Nat
      BY <2>0, <3>1, SameCalls, TopIsFrame DEF Args
    <3>3. CASE ~Descends(p)
      <4>1. stk' = [stk EXCEPT ![p] = Advanced(p)]
        BY <2>6, <3>3 DEF LsEntry
      <4>2. Advanced(p) # << >>
        BY <1>0, <3>2
      <4> QED BY <2>0, <3>1, <3>2, <4>1, <4>2, OneProcess
    <3>4. CASE Descends(p)
      <4> DEFINE c == Call(EntryAt(p).inode, Top(p).inode)
                 s == Advanced(p) \o <<c>>
      <4>1. stk' = [stk EXCEPT ![p] = s]
        BY <2>6, <3>4 DEF LsEntry
      <4>2. EntryAt(p).inode \in Ids /\ Len(stk[p]) # args[p].depth
        BY <3>4 DEF Descends, HasChild, IsDeep
      <4>3. Top(p).inode \in Nat
        BY <3>1, TopIsFrame, SizesAssumption DEF Frame, Ids
      <4>4. c \in Frame
        BY <4>2, <4>3 DEF Call, Frame
      <4> HIDE DEF c
      <4>5. s \in Seq(Frame) /\ Len(s) = Len(stk[p]) + 1
        BY <3>2, <4>4
      <4>6. s # << >> /\ (args[p].depth # 0 => Len(s) <= args[p].depth)
        BY <1>0, <2>0, <3>2, <4>2, <4>5
      <4> HIDE DEF s
      <4> QED BY <2>0, <3>1, <4>1, <4>5, <4>6, OneProcess
    <3> QED BY <3>3, <3>4
  <2>7. CASE Kill(p)
    <3>1. /\ stk' = [stk EXCEPT ![p] = << >>] /\ args' = [args EXCEPT ![p] = NoArgs]
          /\ pc' = [pc EXCEPT ![p] = "off"]
      BY <2>7 DEF Kill
    <3>2. "off" \in Places /\ "off" # "ls"
      BY DEF Places
    <3> QED BY <1>0, <3>1, <3>2, NoArgsAreArgs, OneProcess
  <2> QED BY <1>2, <2>1, <2>2, <2>3, <2>4, <2>5, <2>6, <2>7 DEF Step, User
<1> QED BY <1>1, <1>2 DEF Next

(* ls shows no more layers than it was asked for, on any image, however    *)
(* its files and directories contain each other.                           *)
THEOREM DepthCorrect == Spec => []LsWithinDepth
<1>1. DepthInv => LsWithinDepth
  BY DEF DepthInv
<1> QED BY DepthInit, DepthStep, <1>1, PTL DEF Spec
-----------------------------------------------------------------------------
(* The first place in a sequence that passes a test, or 0.                 *)
LEMMA MinIsIn ==
  ASSUME NEW S \in SUBSET Nat, S # {}
  PROVE  Min(S) \in S /\ \A y \in S : Min(S) <= y
<1> DEFINE R == {ss \in Nat \X Nat : ss[1] < ss[2]}
<1>1. IsWellFoundedOn(R, Nat)
  BY NatLessThanWellFounded DEF OpToRel
<1> HIDE DEF R
<1>2. PICK x \in S : \A y \in S : <<y, x>> \notin R
  BY <1>1, WFMin
<1>3. ASSUME NEW y \in S, y < x PROVE <<y, x>> \in R
  BY <1>3 DEF R
<1>4. \A y \in S : x <= y
  <2>1. \A y \in S : ~(y < x)
    BY <1>2, <1>3
  <2>2. \A y \in S : y \in Nat /\ x \in Nat
    OBVIOUS
  <2> QED BY <2>1, <2>2
<1> QED BY <1>4 DEF Min

LEMMA FirstPlace ==
  ASSUME NEW n \in Nat, NEW I \in SUBSET (1 .. n),
         NEW r, r = IF I # {} THEN Min(I) ELSE 0
  PROVE  /\ r \in 0 .. n
         /\ r # 0 <=> I # {}
         /\ r # 0 => r \in I
<1>1. I \subseteq Nat /\ 0 \notin I
  OBVIOUS
<1>2. CASE I = {}
  BY <1>2
<1>3. CASE I # {}
  <2>1. r \in I
    BY <1>1, <1>3, MinIsIn
  <2>2. r \in 1 .. n
    BY <2>1
  <2>3. r \in 0 .. n /\ r # 0
    BY <2>2
  <2> QED BY <1>3, <2>1, <2>3
<1> QED BY <1>2, <1>3

(* The directories of an image.                                            *)
LEMMA ImageTypes ==
  ASSUME NEW sb \in DOMAIN Images, NEW i \in Ids
  PROVE  /\ Images[sb].inodes[i] \in Inode /\ Images[sb].words \subseteq Names
         /\ Images[sb].inodes[i].blks \in Seq(Block)
         /\ Len(Images[sb].inodes[i].blks) \in Nat
         /\ \A k \in 1 .. Len(Images[sb].inodes[i].blks) :
              LET b == Images[sb].inodes[i].blks[k] IN
              /\ b \in Block /\ b.found \in Seq(Entry) /\ b.iterated \in Seq(Entry)
              /\ b.bad \/ b.iterated = b.found
<1>1. Images[sb] \in Image
  BY ImagesAssumption
<1>2. Images[sb].inodes[i] \in Inode /\ Images[sb].words \subseteq Names
  <2>1. \A n \in Names : Shown[n] \in Names
    BY NamesAssumption
  <2>2. Images[sb].inodes[i] \in Inode /\ Images[sb].words \subseteq {Shown[n] : n \in Names}
    BY <1>1 DEF Image
  <2> QED BY <2>1, <2>2
<1>3. Images[sb].inodes[i].blks \in Seq(Block)
  BY <1>2 DEF Inode
<1>4. ASSUME NEW b \in Block
      PROVE  /\ b.found \in Seq(Entry) /\ b.iterated \in Seq(Entry)
             /\ b.bad \/ b.iterated = b.found
  BY DEF Block
<1> QED BY <1>2, <1>3, <1>4, LenProperties

LEMMA EntryTypes == \A e \in Entry : e.name \in Names /\ e.inode \in Nat
  BY DEF Entry

(* The entry for ".." ...                                                  *)
LEMMA ParentType ==
  ASSUME NEW sb \in DOMAIN Images, NEW i \in Ids
  PROVE  parent_inode(i, sb) \in Nat
<1> DEFINE blks == Images[sb].inodes[i].blks
           I(k) == {m \in 1 .. Len(blks[k].iterated) : blks[k].iterated[m].name = ".."}
           In(k) == IF I(k) # {} THEN Min(I(k)) ELSE 0
           K == {k \in 1 .. Len(blks) : In(k) # 0}
           r == IF K # {} THEN Min(K) ELSE 0
<1>1. parent_inode(i, sb) = (IF r = 0 THEN NoEntry ELSE blks[r].iterated[In(r)]).inode
  BY DEF parent_inode, Parents, FirstEntry, SelectInSeq, IsParent
<1>3. blks \in Seq(Block) /\ Len(blks) \in Nat
  BY ImageTypes
<1>4. ASSUME NEW k \in 1 .. Len(blks)
      PROVE  In(k) # 0 => blks[k].iterated[In(k)] \in Entry
  <2>1. blks[k].iterated \in Seq(Entry) /\ Len(blks[k].iterated) \in Nat
    BY ImageTypes, LenProperties
  <2>2. I(k) \in SUBSET (1 .. Len(blks[k].iterated))
    OBVIOUS
  <2>3. In(k) # 0 => In(k) \in I(k)
    <3> HIDE DEF I
    <3> QED BY <2>1, <2>2, FirstPlace
  <2>4. \A m \in I(k) : blks[k].iterated[m] \in Entry
    BY <2>1
  <2> HIDE DEF I, In
  <2> QED BY <2>3, <2>4
<1>5. r # 0 => r \in K
  <2>1. K \in SUBSET (1 .. Len(blks))
    OBVIOUS
  <2> HIDE DEF K
  <2> QED BY <1>3, <2>1, FirstPlace
<1>6. CASE r = 0
  <2> HIDE DEF r
  <2>1. parent_inode(i, sb) = NoEntry.inode
    BY <1>1, <1>6
  <2> QED BY <2>1 DEF NoEntry
<1>7. CASE r # 0
  <2>1. r \in 1 .. Len(blks) /\ In(r) # 0
    BY <1>5, <1>7
  <2> HIDE DEF r, In, blks
  <2>2. blks[r].iterated[In(r)] \in Entry
    BY <1>4, <2>1
  <2>3. parent_inode(i, sb) = blks[r].iterated[In(r)].inode
    BY <1>1, <1>7
  <2> QED BY <2>2, <2>3, EntryTypes
<1> QED BY <1>6, <1>7

(* The blocks of a directory.                                             *)
BlksOf(d, sb) == Images[sb].inodes[d].blks

(* ... and the one for an inode that has a name.                           *)
LEMMA NamedEntry ==
  ASSUME NEW sb \in DOMAIN Images, NEW d \in Ids, NEW i \in Ids, IsNamed(d, i, sb)
  PROVE  \E k \in 1 .. Len(BlksOf(d, sb)) : \E m \in 1 .. Len(BlksOf(d, sb)[k].iterated) :
             LET e == BlksOf(d, sb)[k].iterated[m] IN
             e \in Entry /\ e.name = name_for_inode(d, i, sb) /\ e.inode = i
<1> DEFINE blks == Images[sb].inodes[d].blks
           I(k) == {m \in 1 .. Len(blks[k].iterated) :
                      blks[k].iterated[m].name # "." /\ blks[k].iterated[m].inode = i}
           In(k) == IF I(k) # {} THEN Min(I(k)) ELSE 0
           K == {k \in 1 .. Len(blks) : In(k) # 0}
           r == IF K # {} THEN Min(K) ELSE 0
           e == IF r = 0 THEN NoEntry ELSE blks[r].iterated[In(r)]
<1>1. EntryFor[sb][d][i] = e
  BY DEF EntryFor, FirstEntry, SelectInSeq
<1>2. e.inode = i /\ e.name = name_for_inode(d, i, sb)
  <2> HIDE DEF e
  <2> QED BY <1>1 DEF IsNamed, name_for_inode
<1>3. blks \in Seq(Block) /\ Len(blks) \in Nat
  BY ImageTypes
<1>4. ASSUME NEW k \in 1 .. Len(blks)
      PROVE  In(k) # 0 => /\ In(k) \in 1 .. Len(blks[k].iterated)
                          /\ blks[k].iterated[In(k)] \in Entry
  <2>1. blks[k].iterated \in Seq(Entry) /\ Len(blks[k].iterated) \in Nat
    BY ImageTypes, LenProperties
  <2>2. I(k) \in SUBSET (1 .. Len(blks[k].iterated))
    OBVIOUS
  <2>3. In(k) # 0 => In(k) \in I(k)
    <3> HIDE DEF I
    <3> QED BY <2>1, <2>2, FirstPlace
  <2> DEFINE es == blks[k].iterated
  <2>4. \A m \in 1 .. Len(es) : es[m] \in Entry
    <3>1. es \in Seq(Entry)
      BY <2>1
    <3> HIDE DEF es
    <3> QED BY <3>1
  <2> HIDE DEF I, In, blks
  <2> QED BY <2>2, <2>3, <2>4
<1>5. r # 0 => r \in K
  <2>1. K \in SUBSET (1 .. Len(blks))
    OBVIOUS
  <2> HIDE DEF K
  <2> QED BY <1>3, <2>1, FirstPlace
<1>6. r # 0
  <2> SUFFICES ASSUME r = 0 PROVE FALSE
    OBVIOUS
  <2>1. e = NoEntry
    <3> HIDE DEF r
    <3> QED OBVIOUS
  <2>2. i = NoEntry.inode
    <3> HIDE DEF e
    <3> QED BY <1>2, <2>1
  <2> HIDE DEF e, r
  <2> QED BY <2>2, SizesAssumption DEF NoEntry, Ids
<1>7. r \in 1 .. Len(blks) /\ In(r) # 0
  BY <1>5, <1>6
<1>8. e = blks[r].iterated[In(r)] /\ In(r) \in 1 .. Len(blks[r].iterated) /\ e \in Entry
  <2> HIDE DEF r, In, blks
  <2> QED BY <1>4, <1>6, <1>7
<1>9. \E k \in 1 .. Len(blks) : \E m \in 1 .. Len(blks[k].iterated) : e = blks[k].iterated[m]
  <2> HIDE DEF r, In, blks, e
  <2> QED BY <1>7, <1>8
<1>10. \E k \in 1 .. Len(blks) : \E m \in 1 .. Len(blks[k].iterated) :
         LET f == blks[k].iterated[m] IN
         f \in Entry /\ f.name = name_for_inode(d, i, sb) /\ f.inode = i
  <2> HIDE DEF e, r, In, I, K, blks
  <2> QED BY <1>2, <1>8, <1>9
<1> QED BY <1>10 DEF BlksOf

(* The place of a word among the entries of a block.                       *)
LEMMA IndexInFinds ==
  ASSUME NEW b, b.found \in Seq(Entry), NEW w
  PROVE  /\ IndexIn(b, w) \in 0 .. Len(b.found)
         /\ IndexIn(b, w) # 0 => IndexIn(b, w) \in 1 .. Len(b.found)
                                 /\ Matches(b.found[IndexIn(b, w)], w)
         /\ \A m \in 1 .. Len(b.found) : Matches(b.found[m], w) => IndexIn(b, w) # 0
<1> DEFINE I == {m \in 1 .. Len(b.found) : Matches(b.found[m], w)}
           r == IF I # {} THEN Min(I) ELSE 0
<1>1. IndexIn(b, w) = r
  BY DEF IndexIn, SelectInSeq
<1>2. I \in SUBSET (1 .. Len(b.found)) /\ Len(b.found) \in Nat
  BY LenProperties
<1>3. r \in 0 .. Len(b.found) /\ (r # 0 <=> I # {}) /\ (r # 0 => r \in I)
  <2> HIDE DEF I
  <2> QED BY <1>2, FirstPlace
<1> HIDE DEF r
<1> QED BY <1>1, <1>3

(* What is looked up in a directory has its type.                          *)
LEMMA LookupType ==
  ASSUME NEW sb \in DOMAIN Images, NEW d, NEW w \in Names
  PROVE  name_or_inode(w, d, sb) \in Nat \cup {Nothing}
<1>1. CASE d \notin Ids
  BY <1>1 DEF name_or_inode
<1>2. CASE d \in Ids
  <2> DEFINE blks == Images[sb].inodes[d].blks
             K == {k \in 1 .. Len(blks) : blks[k].bad \/ IndexIn(blks[k], w) # 0}
             r == IF K # {} THEN Min(K) ELSE 0
  <2>1. name_or_inode(w, d, sb) =
          IF r # 0
          THEN IF blks[r].bad \/ w = "" THEN Nothing
               ELSE blks[r].found[IndexIn(blks[r], w)].inode
          ELSE IF Images[sb].inodes[d].raises THEN Nothing ELSE Number[w]
    BY <1>2 DEF name_or_inode, SelectInSeq
  <2>2. Number[w] \in Nat \cup {Nothing}
    BY NamesAssumption DEF NotANumber, Nothing
  <2>3. r # 0 => r \in K
    <3>1. K \in SUBSET (1 .. Len(blks)) /\ Len(blks) \in Nat
      BY <1>2, ImageTypes
    <3> HIDE DEF K
    <3> QED BY <3>1, FirstPlace
  <2>4. CASE r = 0 \/ blks[r].bad \/ w = ""
    <3> HIDE DEF r
    <3> QED BY <2>1, <2>2, <2>4
  <2>5. CASE r # 0 /\ ~blks[r].bad /\ w # ""
    <3>1. r \in 1 .. Len(blks) /\ IndexIn(blks[r], w) # 0
      BY <2>3, <2>5
    <3> HIDE DEF r
    <3>2. blks[r].found \in Seq(Entry) /\ Len(blks[r].found) \in Nat
      BY <1>2, <3>1, ImageTypes, LenProperties
    <3>3. IndexIn(blks[r], w) \in 1 .. Len(blks[r].found)
      BY <3>1, <3>2, IndexInFinds
    <3>4. blks[r].found[IndexIn(blks[r], w)] \in Entry
      BY <3>2, <3>3
    <3> HIDE DEF blks
    <3> QED BY <2>1, <2>5, <3>4, EntryTypes
  <2> QED BY <2>4, <2>5
<1> QED BY <1>1, <1>2

(* The walk goes on only to where there is a directory, and a name.        *)
LEMMA WalkGoesOn ==
  ASSUME NEW sb \in DOMAIN Images, NEW i, ~Dies(i, sb), ~IsTop(i, sb)
  PROVE  /\ i \in Ids /\ i # 2 /\ parent_inode(i, sb) \in Ids /\ parent_inode(i, sb) \in Nat
         /\ IsNamed(parent_inode(i, sb), i, sb)
         /\ name_for_inode(parent_inode(i, sb), i, sb) \in Names
<1>1. i \in Ids /\ parent_inode(i, sb) \in Ids
  BY DEF Dies
<1>2. i # 2 /\ IsNamed(parent_inode(i, sb), i, sb)
  BY DEF IsTop
<1>3. name_for_inode(parent_inode(i, sb), i, sb) \in Names
  <2> DEFINE d == parent_inode(i, sb)
  <2>1. d \in Ids /\ IsNamed(d, i, sb)
    BY <1>1, <1>2
  <2> HIDE DEF d
  <2>2. \E e \in Entry : e.name = name_for_inode(d, i, sb)
    BY <1>1, <2>1, NamedEntry
  <2>3. name_for_inode(d, i, sb) \in Names
    BY <2>2, EntryTypes
  <2> QED BY <2>3 DEF d
<1> QED BY <1>1, <1>2, <1>3, ParentType

LEMMA NamesFromType ==
  ASSUME NEW names \in Seq(Names), NEW sb \in DOMAIN Images, NEW i, ~Dies(i, sb), ~IsTop(i, sb)
  PROVE  /\ NamesFrom(names, i, sb) \in Seq(Names)
         /\ Len(NamesFrom(names, i, sb)) = Len(names) + 1
         /\ NamesFrom(names, i, sb)[1] = ShownFor(i, sb)
         /\ \A k \in 1 .. Len(names) : NamesFrom(names, i, sb)[k + 1] = names[k]
<1> DEFINE n == ShownFor(i, sb)
<1>1. n \in Names
  BY WalkGoesOn, NamesAssumption DEF ShownFor
<1> HIDE DEF n
<1>2. <<n>> \in Seq(Names) /\ Len(<<n>>) = 1 /\ Len(names) \in Nat
  BY <1>1, LenProperties
<1>3. NamesFrom(names, i, sb) = <<n>> \o names
  BY DEF NamesFrom, n
<1>4. /\ <<n>> \o names \in Seq(Names) /\ Len(<<n>> \o names) = Len(names) + 1
      /\ \A k \in 1 .. Len(names) + 1 :
           (<<n>> \o names)[k] = IF k <= 1 THEN <<n>>[k] ELSE names[k - 1]
  BY <1>2, ConcatProperties
<1>5. \A k \in 1 .. Len(names) : (<<n>> \o names)[k + 1] = names[k]
  BY <1>2, <1>4
<1>6. (<<n>> \o names)[1] = n
  BY <1>2, <1>4
<1> QED BY <1>3, <1>4, <1>5, <1>6 DEF n

LEMMA TypeInit == Init => TypeOK
<1> SUFFICES ASSUME Init PROVE TypeOK
  OBVIOUS
<1>1. << >> \in Seq(Frame) /\ << >> \in Seq(Names) /\ 2 \in Nat
  OBVIOUS
<1> QED BY <1>1, NoArgsAreArgs DEF Init, TypeOK, Places

LEMMA TypeStep == TypeOK /\ DepthInv' /\ [Next]_vars => TypeOK'
<1> SUFFICES ASSUME TypeOK, DepthInv', [Next]_vars PROVE TypeOK'
  OBVIOUS
<1> DEFINE Held == /\ image' \in DOMAIN Images
                   /\ saved' \in Nat \cup {Nothing}
                   /\ looped' \in [Procs -> BOOLEAN]
                   /\ cwd' \in [Procs -> Nat] /\ at' \in [Procs -> Nat]
                   /\ path' \in [Procs -> Seq(Names)]
                   /\ target' \in [Procs -> Nat \cup {Nothing}]
<1>0. << >> \in Seq(Names) /\ Nothing \in Nat \cup {Nothing} /\ 2 \in Nat /\ cur_inode \in Nat
  BY DEF TypeOK, cur_inode
<1>1. CASE UNCHANGED vars
  BY <1>1 DEF vars, TypeOK
<1>2. ASSUME NEW p \in Procs, Step(p) \/ User(p) PROVE Held
  <2>1. CASE Start(p) \/ Arrive(p) \/ Open(p) \/ LsFail(p) \/ LsValidate(p) \/ LsEntry(p)
             \/ LsNextBlock(p) \/ LsReturn(p)
    BY <1>0, <2>1 DEF Start, Arrive, Open, LsFail, LsValidate, LsEntry, LsNextBlock, LsReturn, TypeOK
  <2>2. CASE Prompt(p)
    BY <1>0, <2>2 DEF Prompt, TypeOK
  <2>6. CASE Die(p) \/ Eof(p) \/ Kill(p)
    <3>1. /\ Forget(p) /\ UNCHANGED <<image, saved>> /\ looped' = [looped EXCEPT ![p] = FALSE]
          /\ target' = target \/ target' = [target EXCEPT ![p] = Nothing]
      BY <2>6 DEF Die, Eof, Kill
    <3>2. target' \in [Procs -> Nat \cup {Nothing}]
      BY <3>1 DEF TypeOK
    <3>3. looped' \in [Procs -> BOOLEAN]
      BY <3>1 DEF TypeOK
    <3> QED BY <1>0, <3>1, <3>2, <3>3 DEF Forget, TypeOK
  <2>7. CASE Ls(p)
    <3>1. Forget(p) /\ UNCHANGED <<image, saved, looped, target>>
      BY <2>7 DEF Ls
    <3> QED BY <1>0, <3>1 DEF Forget, TypeOK
  <2>3. CASE Write(p)
    BY <1>0, <2>3 DEF Write, TypeOK
  <2>4. CASE Cd(p)
    <3>1. PICK w \in Images[image].words :
            \/ target' = [target EXCEPT ![p] = name_or_inode(w, cur_inode, image)]
            \/ UNCHANGED target
      BY <2>4 DEF Cd
    <3>2. image \in DOMAIN Images /\ w \in Names
      BY <3>1, ImageTypes, SizesAssumption DEF TypeOK
    <3>3. name_or_inode(w, cur_inode, image) \in Nat \cup {Nothing}
      BY <3>2, LookupType
    <3>4. target' \in [Procs -> Nat \cup {Nothing}]
      BY <3>1, <3>3 DEF TypeOK
    <3>5. Forget(p) /\ UNCHANGED <<image, saved, looped>>
      BY <2>4 DEF Cd
    <3> QED BY <1>0, <3>4, <3>5 DEF Forget, TypeOK
  <2>5. CASE Up(p)
    <3>1. ~Dies(at[p], image) /\ ~IsTop(at[p], image) /\ path[p] \in Seq(Names)
          /\ image \in DOMAIN Images
      BY <2>5 DEF Up, TypeOK
    <3>2. parent_inode(at[p], image) \in Nat /\ NamesFrom(path[p], at[p], image) \in Seq(Names)
      BY <3>1, WalkGoesOn, NamesFromType
    <3>3. /\ path' = [path EXCEPT ![p] = NamesFrom(path[p], at[p], image)]
          /\ at' = [at EXCEPT ![p] = parent_inode(at[p], image)]
          /\ UNCHANGED <<image, saved, looped, cwd, target>>
      BY <2>5 DEF Up
    <3> QED BY <3>2, <3>3 DEF TypeOK
  <2> QED BY <1>2, <2>1, <2>2, <2>3, <2>4, <2>5, <2>6, <2>7 DEF Step, User
<1>3. Held => TypeOK'
  BY DEF TypeOK, DepthInv
<1> QED BY <1>1, <1>2, <1>3 DEF Next

(* What the processes hold and the file has its type, whatever the images  *)
(* contain and however the users of one of them interfere.                 *)
THEOREM TypeCorrect == Spec => []TypeOK
<1> QED BY TypeInit, TypeStep, DepthInit, DepthStep, PTL DEF Spec
-----------------------------------------------------------------------------
(* What there is in the directories of a sound image.                      *)
LEMMA SoundBlocks ==
  ASSUME NEW sb \in Sound, NEW d \in Dirs(sb)
  PROVE  /\ d \in Ids /\ sb \in DOMAIN Images /\ Len(BlksOf(d, sb)) \in Nat
         /\ \A l \in 1 .. Len(BlksOf(d, sb)) : /\ ~BlksOf(d, sb)[l].bad
                                               /\ BlksOf(d, sb)[l].found \in Seq(Entry)
                                               /\ BlksOf(d, sb)[l].iterated = BlksOf(d, sb)[l].found
<1>1. d \in Ids /\ sb \in DOMAIN Images /\ IsSound(sb)
  BY DEF Sound, Dirs
<1>2. /\ Len(BlksOf(d, sb)) \in Nat /\ DOMAIN BlksOf(d, sb) = 1 .. Len(BlksOf(d, sb))
      /\ \A l \in 1 .. Len(BlksOf(d, sb)) :
           /\ BlksOf(d, sb)[l].found \in Seq(Entry)
           /\ BlksOf(d, sb)[l].bad \/ BlksOf(d, sb)[l].iterated = BlksOf(d, sb)[l].found
  BY <1>1, ImageTypes, LenProperties DEF BlksOf
<1>3. \A l \in DOMAIN BlksOf(d, sb) : ~BlksOf(d, sb)[l].bad
  BY <1>1 DEF IsSound, BlksOf
<1> QED BY <1>1, <1>2, <1>3

(* No entry without a name leads anywhere, and no two strings are the same *)
(* name.                                                                   *)
LEMMA SoundEntries ==
  ASSUME NEW sb \in Sound, NEW d \in Dirs(sb), NEW j \in 1 .. Len(BlksOf(d, sb)),
         NEW i \in 1 .. Len(BlksOf(d, sb)[j].found)
  PROVE  /\ BlksOf(d, sb)[j].found[i].name = "" => BlksOf(d, sb)[j].found[i].inode = 0
         /\ \A l \in 1 .. Len(BlksOf(d, sb)) : \A n \in 1 .. Len(BlksOf(d, sb)[l].found) :
              BlksOf(d, sb)[j].found[i].name # ""
              /\ IsUtf8(BlksOf(d, sb)[j].found[i].name) /\ IsUtf8(BlksOf(d, sb)[l].found[n].name)
              /\ Lower[BlksOf(d, sb)[j].found[i].name] = Lower[BlksOf(d, sb)[l].found[n].name]
              => j = l /\ i = n
<1>1. d \in Ids /\ sb \in DOMAIN Images /\ IsSound(sb)
  BY DEF Sound, Dirs
<1>2. DOMAIN BlksOf(d, sb) = 1 .. Len(BlksOf(d, sb))
  BY <1>1, ImageTypes, LenProperties DEF BlksOf
<1>3. ASSUME NEW l \in 1 .. Len(BlksOf(d, sb))
      PROVE  DOMAIN BlksOf(d, sb)[l].found = 1 .. Len(BlksOf(d, sb)[l].found)
  BY SoundBlocks, LenProperties
<1>4. TellsApart(BlksOf(d, sb))
  BY <1>1 DEF IsSound, BlksOf
<1>5. j \in DOMAIN BlksOf(d, sb) /\ i \in DOMAIN BlksOf(d, sb)[j].found
  BY <1>2, <1>3
<1>6. BlksOf(d, sb)[j].found[i].name = "" => BlksOf(d, sb)[j].found[i].inode = 0
  BY <1>4, <1>5 DEF TellsApart
<1>7. ASSUME NEW l \in 1 .. Len(BlksOf(d, sb)), NEW n \in 1 .. Len(BlksOf(d, sb)[l].found),
             BlksOf(d, sb)[j].found[i].name # "",
             IsUtf8(BlksOf(d, sb)[j].found[i].name), IsUtf8(BlksOf(d, sb)[l].found[n].name),
             Lower[BlksOf(d, sb)[j].found[i].name] = Lower[BlksOf(d, sb)[l].found[n].name]
      PROVE  j = l /\ i = n
  <2>1. l \in DOMAIN BlksOf(d, sb) /\ n \in DOMAIN BlksOf(d, sb)[l].found
    BY <1>2, <1>3
  <2> QED BY <1>4, <1>5, <1>7, <2>1 DEF TellsApart
<1> QED BY <1>6, <1>7

(* In a sound image a name that can be typed leads to the entry it is of.  *)
LEMMA LookupFinds ==
  ASSUME NEW sb \in Sound, NEW d \in Dirs(sb), NEW k \in 1 .. Len(BlksOf(d, sb)),
         NEW m \in 1 .. Len(BlksOf(d, sb)[k].found), NEW w, w = BlksOf(d, sb)[k].found[m].name,
         w # "", IsUtf8(w)
  PROVE  name_or_inode(w, d, sb) = BlksOf(d, sb)[k].found[m].inode
<1> DEFINE blks == BlksOf(d, sb)
           K == {l \in 1 .. Len(blks) : blks[l].bad \/ IndexIn(blks[l], w) # 0}
           r == IF K # {} THEN Min(K) ELSE 0
           n == IndexIn(blks[r], w)
<1>1. d \in Ids /\ Len(blks) \in Nat
  BY SoundBlocks
<1>2. \A l \in 1 .. Len(blks) : ~blks[l].bad /\ blks[l].found \in Seq(Entry)
  BY SoundBlocks
<1>3. name_or_inode(w, d, sb) =
        IF r # 0
        THEN IF blks[r].bad \/ w = "" THEN Nothing ELSE blks[r].found[n].inode
        ELSE IF Images[sb].inodes[d].raises THEN Nothing ELSE Number[w]
  BY <1>1 DEF name_or_inode, SelectInSeq, BlksOf
<1>4. k \in K
  <2>1. Matches(blks[k].found[m], w)
    BY DEF Matches
  <2>2. IndexIn(blks[k], w) # 0
    BY <1>2, <2>1, IndexInFinds
  <2> QED BY <2>2
<1>5. r # 0 /\ r \in K
  <2>1. K \in SUBSET (1 .. Len(blks))
    OBVIOUS
  <2> HIDE DEF K
  <2> QED BY <1>1, <1>4, <2>1, FirstPlace
<1>6. r \in 1 .. Len(blks) /\ n # 0 /\ ~blks[r].bad
  BY <1>2, <1>5
<1>7. n \in 1 .. Len(blks[r].found) /\ Matches(blks[r].found[n], w)
  <2> HIDE DEF r, blks
  <2> QED BY <1>2, <1>6, IndexInFinds
<1>8. /\ Lower[blks[k].found[m].name] = Lower[blks[r].found[n].name]
      /\ IsUtf8(blks[k].found[m].name) /\ IsUtf8(blks[r].found[n].name)
  <2> HIDE DEF r, n
  <2> QED BY <1>7 DEF Matches
<1>9. r = k /\ n = m
  <2> HIDE DEF r, n
  <2> QED BY <1>6, <1>7, <1>8, SoundEntries
<1>10. name_or_inode(w, d, sb) = blks[r].found[n].inode
  <2> HIDE DEF r, n
  <2> QED BY <1>3, <1>5, <1>6
<1> HIDE DEF r, n
<1> QED BY <1>9, <1>10

(* The word that cur_path shows for a directory leads there from above: it *)
(* is the directory's name.                                                *)
LEMMA NameLeads ==
  ASSUME NEW sb \in Legible, NEW i \in Dirs(sb)
  PROVE  /\ parent_inode(i, sb) \in Dirs(sb)
         /\ name_or_inode(ShownFor(i, sb), parent_inode(i, sb), sb) = i
<1> DEFINE d == parent_inode(i, sb)
<1>0. sb \in Sound /\ IsUtf8(name_for_inode(d, i, sb))
  BY DEF Legible
<1>1. sb \in DOMAIN Images /\ IsSound(sb) /\ i \in Ids /\ i # 0
  BY <1>0, SizesAssumption DEF Sound, Dirs, Ids
<1>9. ShownFor(i, sb) = name_for_inode(d, i, sb)
  BY <1>0 DEF ShownFor, IsUtf8
<1>2. d \in Dirs(sb) /\ IsNamed(d, i, sb)
  BY <1>1 DEF IsSound
<1> HIDE DEF d
<1>3. d \in Ids
  BY <1>2 DEF Dirs
<1>4. PICK k \in 1 .. Len(BlksOf(d, sb)) : \E m \in 1 .. Len(BlksOf(d, sb)[k].iterated) :
             LET e == BlksOf(d, sb)[k].iterated[m] IN
             e \in Entry /\ e.name = name_for_inode(d, i, sb) /\ e.inode = i
  BY <1>1, <1>2, <1>3, NamedEntry
<1>5. BlksOf(d, sb)[k].iterated = BlksOf(d, sb)[k].found
  BY <1>0, <1>2, SoundBlocks
<1>6. PICK m \in 1 .. Len(BlksOf(d, sb)[k].found) :
             /\ BlksOf(d, sb)[k].found[m].name = name_for_inode(d, i, sb)
             /\ BlksOf(d, sb)[k].found[m].inode = i
  BY <1>4, <1>5
<1>7. BlksOf(d, sb)[k].found[m].name # ""
  BY <1>0, <1>1, <1>2, <1>6, SoundEntries
<1>8. name_or_inode(BlksOf(d, sb)[k].found[m].name, d, sb) = BlksOf(d, sb)[k].found[m].inode
  BY <1>0, <1>2, <1>6, <1>7, LookupFinds
<1> QED BY <1>2, <1>6, <1>8, <1>9 DEF d

(* A word more at the front of a path that leads somewhere.                *)
LEMMA LeadsFurther ==
  ASSUME image \in Legible, NEW i \in Dirs(image), NEW c, NEW names \in Seq(Names),
         ~Dies(i, image), ~IsTop(i, image), LeadsTo(names, i, c, image)
  PROVE  /\ parent_inode(i, image) \in Dirs(image)
         /\ LeadsTo(NamesFrom(names, i, image), parent_inode(i, image), c, image)
<1> DEFINE d == parent_inode(i, image)
           new == NamesFrom(names, i, image)
           n == Len(names)
<1>1. image \in DOMAIN Images /\ n \in Nat
  BY LenProperties DEF Sound, Legible
<1>2. d \in Dirs(image) /\ name_or_inode(new[1], d, image) = i
  BY <1>1, NameLeads, NamesFromType
<1>3. Len(new) = n + 1 /\ \A k \in 1 .. n : new[k + 1] = names[k]
  BY <1>1, NamesFromType
<1> HIDE DEF d, new, n
<1>4. PICK ds \in [0 .. n -> Dirs(image)] :
         /\ ds[0] = i /\ ds[n] = c
         /\ \A k \in 1 .. n : ds[k] = name_or_inode(names[k], ds[k - 1], image)
  BY DEF LeadsTo, n
<1> DEFINE es == [k \in 0 .. n + 1 |-> IF k = 0 THEN d ELSE ds[k - 1]]
<1>5. es \in [0 .. n + 1 -> Dirs(image)] /\ es[0] = d /\ es[n + 1] = c
  BY <1>1, <1>2, <1>4
<1>6. ASSUME NEW k \in 1 .. n + 1
      PROVE  es[k] = name_or_inode(new[k], es[k - 1], image)
  <2>1. CASE k = 1
    <3>1. es[k] = i /\ es[k - 1] = d
      BY <1>1, <1>4, <2>1
    <3> QED BY <1>2, <2>1, <3>1
  <2>2. CASE k # 1
    <3>1. k - 1 \in 1 .. n /\ k - 1 - 1 \in 0 .. n /\ k - 1 # 0 /\ k # 0
      BY <1>1, <2>2
    <3>2. new[k] = names[k - 1]
      <4>1. new[(k - 1) + 1] = names[k - 1]
        BY <1>3, <3>1
      <4>2. (k - 1) + 1 = k
        OBVIOUS
      <4> QED BY <4>1, <4>2
    <3>3. es[k] = ds[k - 1] /\ es[k - 1] = ds[k - 1 - 1]
      BY <1>1, <3>1
    <3> HIDE DEF es
    <3> QED BY <1>4, <3>1, <3>2, <3>3
  <2> QED BY <2>1, <2>2
<1> HIDE DEF es
<1>7. LeadsTo(new, d, c, image)
  BY <1>3, <1>5, <1>6 DEF LeadsTo
<1> QED BY <1>2, <1>7 DEF d, new

(* What another process does, and what leads to a prompt.                  *)
LEMMA OthersStay ==
  ASSUME TypeOK, NEW p \in Procs, Step(p) \/ User(p), NEW q \in Procs, q # p
  PROVE  /\ looped'[q] = looped[q] /\ pc'[q] = pc[q] /\ cwd'[q] = cwd[q]
         /\ path'[q] = path[q] /\ at'[q] = at[q]
<1> USE DEF TypeOK
<1>1. CASE Start(p) \/ Prompt(p) \/ Arrive(p) \/ Up(p)
  BY <1>1 DEF Start, Prompt, Arrive, Up
<1>2. CASE Die(p) \/ Eof(p) \/ Kill(p)
  BY <1>2 DEF Die, Eof, Kill, Forget
<1>3. CASE Cd(p)
  <2>1. Forget(p) /\ looped' = looped /\ \E l : pc' = [pc EXCEPT ![p] = l]
    BY <1>3 DEF Cd
  <2> QED BY <2>1 DEF Forget
<1>4. CASE Ls(p)
  <2>1. Forget(p) /\ looped' = looped /\ \E l : pc' = [pc EXCEPT ![p] = l]
    BY <1>4 DEF Ls
  <2> QED BY <2>1 DEF Forget
<1>5. CASE Open(p) \/ Write(p) \/ LsFail(p) \/ LsValidate(p) \/ LsEntry(p) \/ LsNextBlock(p)
  BY <1>5 DEF Open, Write, LsFail, LsEnds, LsValidate, LsEntry, LsNextBlock
<1>6. CASE LsReturn(p)
  BY <1>6 DEF LsReturn, LsEnds
<1> QED BY <1>1, <1>2, <1>3, <1>4, <1>5, <1>6 DEF Step, User

LEMMA ShowingSteps ==
  ASSUME TypeOK, NEW p \in Procs, Step(p) \/ User(p), looped'[p], pc'[p] \in {"walk", "ready"}
  PROVE  Prompt(p) \/ Arrive(p) \/ Up(p)
<1> USE DEF TypeOK
<1>0. \A l : pc' = [pc EXCEPT ![p] = l] => pc'[p] = l
  OBVIOUS
<1>1. \A l : looped' = [looped EXCEPT ![p] = l] => looped'[p] = l
  OBVIOUS
<1>2. ~Die(p) /\ ~Eof(p) /\ ~Kill(p)
  BY <1>0 DEF Die, Eof, Kill
<1>3. ~Start(p)
  BY <1>0, <1>1 DEF Start
<1>4. (looped' = looped => After(p) = "prompt") /\ (pc' = [pc EXCEPT ![p] = After(p)] => looped' # looped)
  BY <1>0 DEF After
<1>5. ~Cd(p)
  BY <1>0, <1>4 DEF Cd
<1>6. ~Ls(p)
  BY <1>0, <1>4 DEF Ls
<1>7. ~Open(p) /\ ~Write(p) /\ ~LsFail(p)
  BY <1>0, <1>4 DEF Open, Write, LsFail, LsEnds
<1>8. ~LsValidate(p) /\ ~LsEntry(p) /\ ~LsNextBlock(p)
  BY DEF LsValidate, LsEntry, LsNextBlock, InBlks, AtEntry
<1>9. ~LsReturn(p)
  BY <1>0, <1>4 DEF LsReturn, LsEnds
<1> QED BY <1>2, <1>3, <1>5, <1>6, <1>7, <1>8, <1>9 DEF Step, User

(* What cur_path has collected leads back from where it is.  Every         *)
(* directory that it comes to in these images has a name that can be typed.*)
Shows(p) == looped[p] /\ pc[p] \in {"walk", "ready"} /\ cwd[p] \in Dirs(image)
PathInv ==
  image \in Legible =>
    \A p \in Procs : Shows(p) => at[p] \in Dirs(image) /\ LeadsTo(path[p], at[p], cwd[p], image)

(* A prompt that does not move, and one of another process.                *)
LEMMA PathStays ==
  ASSUME PathInv, image \in Legible, UNCHANGED image, NEW q \in Procs, Shows(q)',
         looped'[q] = looped[q], pc[q] \in {"walk", "ready"}, cwd'[q] = cwd[q],
         path'[q] = path[q], at'[q] = at[q]
  PROVE  at'[q] \in Dirs(image') /\ LeadsTo(path'[q], at'[q], cwd'[q], image')
<1>1. image' = image
  OBVIOUS
<1>2. Shows(q)
  BY <1>1 DEF Shows
<1>3. at[q] \in Dirs(image) /\ LeadsTo(path[q], at[q], cwd[q], image)
  BY <1>2 DEF PathInv
<1> QED BY <1>1, <1>3 DEF LeadsTo

LEMMA PathInit == Init => PathInv
BY DEF Init, PathInv, Shows

LEMMA PathStep == TypeOK /\ PathInv /\ [Next]_vars => PathInv'
<1> SUFFICES ASSUME TypeOK, PathInv, [Next]_vars, image' \in Legible, NEW q \in Procs, Shows(q)'
             PROVE  at'[q] \in Dirs(image') /\ LeadsTo(path'[q], at'[q], cwd'[q], image')
  BY DEF PathInv
<1>1. image' = image /\ image \in Legible
  BY DEF Next, Step, User, Start, Prompt, Die, Arrive, Up, Cd, Open, Write, Ls, LsFail, LsValidate,
         LsEntry, LsNextBlock, LsReturn, Eof, Kill, vars
<1>2. Dirs(image') = Dirs(image)
  BY <1>1
<1>3. CASE UNCHANGED vars
  <2>1. UNCHANGED <<looped, pc, cwd, at, path>> /\ pc[q] \in {"walk", "ready"}
    BY <1>3 DEF vars, Shows
  <2> QED BY <1>1, <2>1, PathStays
<1>4. ASSUME NEW p \in Procs, Step(p) \/ User(p), q # p
      PROVE  /\ looped'[q] = looped[q] /\ pc'[q] = pc[q] /\ cwd'[q] = cwd[q]
             /\ path'[q] = path[q] /\ at'[q] = at[q]
  BY <1>4, OthersStay
<1>5. ASSUME NEW p \in Procs, Step(p) \/ User(p)
      PROVE  at'[q] \in Dirs(image') /\ LeadsTo(path'[q], at'[q], cwd'[q], image')
  <2>1. CASE q # p
    <3>1. pc[q] \in {"walk", "ready"}
      BY <1>4, <1>5, <2>1 DEF Shows
    <3> QED BY <1>1, <1>2, <1>4, <1>5, <2>1, <3>1, PathStays
  <2>2. CASE q = p
    <3>1. Prompt(p) \/ Arrive(p) \/ Up(p)
      <4>1. looped'[p] /\ pc'[p] \in {"walk", "ready"}
        BY <2>2 DEF Shows
      <4> QED BY <1>5, <4>1, ShowingSteps
    <3>2. CASE Prompt(p)
      <4>1. path'[q] = << >> /\ at'[q] = cwd'[q] /\ cwd'[q] \in Dirs(image)
        BY <1>2, <2>2, <3>2 DEF Prompt, Shows, TypeOK
      <4> DEFINE ds == [k \in 0 .. 0 |-> at'[q]]
      <4>2. ds \in [0 .. Len(path'[q]) -> Dirs(image')] /\ ds[0] = at'[q] /\ ds[Len(path'[q])] = cwd'[q]
        BY <1>2, <4>1
      <4>3. \A k \in 1 .. Len(path'[q]) : ds[k] = name_or_inode(path'[q][k], ds[k - 1], image')
        BY <4>1
      <4> HIDE DEF ds
      <4> QED BY <4>1, <4>2, <4>3 DEF LeadsTo
    <3>3. CASE Arrive(p)
      <4>1. UNCHANGED <<looped, cwd, at, path>> /\ pc[q] = "walk"
        BY <2>2, <3>3 DEF Arrive
      <4> QED BY <1>1, <1>2, <4>1, PathStays
    <3>4. CASE Up(p)
      <4>1. /\ pc[p] = "walk" /\ ~Dies(at[p], image) /\ ~IsTop(at[p], image)
            /\ path'[p] = NamesFrom(path[p], at[p], image) /\ at'[p] = parent_inode(at[p], image)
            /\ UNCHANGED <<looped, pc, cwd>> /\ path[p] \in Seq(Names)
        BY <3>4 DEF Up, TypeOK
      <4>2. Shows(p)
        BY <1>2, <2>2, <4>1 DEF Shows
      <4>3. at[p] \in Dirs(image) /\ LeadsTo(path[p], at[p], cwd[p], image)
        BY <1>1, <4>2 DEF PathInv
      <4>4. at'[p] \in Dirs(image) /\ LeadsTo(path'[p], at'[p], cwd'[p], image)
        BY <1>1, <4>1, <4>3, LeadsFurther
      <4> QED BY <1>1, <2>2, <4>4 DEF LeadsTo
    <3> QED BY <3>1, <3>2, <3>3, <3>4
  <2> QED BY <2>1, <2>2
<1> QED BY <1>2, <1>3, <1>5 DEF Next

(* What the prompt shows leads back to the directory it was made for, in   *)
(* every sound image whose directories are named in UTF-8 and with any     *)
(* number of shells that change it (main.py:39-48 against main.py:52-63).  *)
THEOREM PathCorrect == Spec => []PathLeadsBack
<1>1. PathInv => PathLeadsBack
  BY DEF PathInv, PathLeadsBack, Shows
<1> QED
  BY <1>1, TypeInit, TypeStep, DepthInit, DepthStep, PathInit, PathStep, PTL DEF Spec
=============================================================================
