---------------------------- MODULE BootstrapProofs ----------------------------
(***************************************************************************)
(* Proofs about Bootstrap, for any number of terminals and starts, every   *)
(* host, and every PATH: what a settled checkout keeps, and that starts    *)
(* that are not disturbed leave whole environments and run in them.        *)
(***************************************************************************)
EXTENDS Bootstrap, SequenceTheorems, TLAPS

(* Where a start is not concerned by what another one does.                *)
SameFor(q) ==
  /\ at'[q] = at[q] /\ venv'[q] = venv[q] /\ path'[q] = path[q]
  /\ have'[q] = have[q] /\ data'[q] = data[q] /\ within'[q] = within[q]

(* PATH with an environment more, and with one under another name.         *)
LEMMA PrependOps ==
  ASSUME TypeOK, NEW p \in Procs, NEW v \in Venvs
  PROVE  /\ Prepend(p, v) \in [Procs -> Seq(Venvs)]
         /\ Prepend(p, v)[p] # <<>> /\ Prepend(p, v)[p][1] = v
         /\ \A q \in Procs : q # p => Prepend(p, v)[q] = path[q]
<1>1. path \in [Procs -> Seq(Venvs)] /\ path[p] \in Seq(Venvs)
  BY DEF TypeOK
<1> DEFINE s == <<v>> \o path[p]
<1>2. <<v>> \in Seq(Venvs) /\ Len(<<v>>) = 1
  OBVIOUS
<1>3. s \in Seq(Venvs) /\ Len(s) = 1 + Len(path[p]) /\ s[1] = v
  BY <1>1, <1>2, ConcatProperties, LenProperties
<1>4. s # <<>>
  BY <1>1, <1>3, LenProperties
<1> HIDE DEF s
<1>5. Prepend(p, v) = [path EXCEPT ![p] = s]
  BY DEF Prepend, s
<1> QED
  BY <1>1, <1>3, <1>4, <1>5

LEMMA RenamedOps ==
  ASSUME TypeOK, NEW p \in Procs, NEW v \in Venvs, path[p] # <<>>
  PROVE  /\ Renamed(p, v) \in [Procs -> Seq(Venvs)]
         /\ Renamed(p, v)[p] # <<>> /\ Renamed(p, v)[p][1] = v
         /\ \A q \in Procs : q # p => Renamed(p, v)[q] = path[q]
<1>1. path \in [Procs -> Seq(Venvs)] /\ path[p] \in Seq(Venvs)
  BY DEF TypeOK
<1>2. Tail(path[p]) \in Seq(Venvs)
  BY <1>1, HeadTailProperties
<1> DEFINE s == <<v>> \o Tail(path[p])
<1>3. <<v>> \in Seq(Venvs) /\ Len(<<v>>) = 1
  OBVIOUS
<1>4. s \in Seq(Venvs) /\ Len(s) = 1 + Len(Tail(path[p])) /\ s[1] = v
  BY <1>2, <1>3, ConcatProperties, LenProperties
<1>5. s # <<>>
  BY <1>2, <1>4, LenProperties
<1> HIDE DEF s
<1>6. Renamed(p, v) = [path EXCEPT ![p] = s]
  BY DEF Renamed, s
<1> QED
  BY <1>1, <1>4, <1>5, <1>6

(* What the installation makes of an environment, and a lock file that two *)
(* starts have written: one of their lists, or a mix.                      *)
LEMMA InstalledOps ==
  ASSUME TypeOK, NEW p \in Procs, Python(p) \in Venvs
  PROVE  /\ Installed(p) \subseteq VenvState
         /\ (have[p] => lock = "locked") => Installed(p) = {"whole"}
<1>1. dirs[Python(p)] \in VenvState
  BY DEF TypeOK
<1> QED
  BY <1>1 DEF Installed, VenvState

LEMMA OverlaidOps ==
  ASSUME NEW old, NEW new, NEW l \in Overlaid(old, new)
  PROVE  l \in {new, "mixed"} /\ (old = "empty" => l = new)
BY DEF Overlaid

(* The first environment in PATH is the one that is found, if it works.    *)
LEMMA FirstIsFound ==
  ASSUME TypeOK, NEW p \in Procs, path[p] # <<>>, Works(path[p][1])
  PROVE  Python(p) = path[p][1] /\ path[p][1] \in Venvs
<1> DEFINE found == {k \in DOMAIN path[p] : Works(path[p][k])}
<1>1. path[p] \in Seq(Venvs) /\ Len(path[p]) \in Nat \ {0} /\ DOMAIN path[p] = 1 .. Len(path[p])
  BY LenProperties, EmptySeq DEF TypeOK
<1>2. 1 \in found /\ found \subseteq Nat \ {0}
  BY <1>1
<1> HIDE DEF found
<1>3. Min(found) = 1
  <2>1. \A m \in found : 1 <= m
    BY <1>2
  <2>2. \A m \in found : (\A k \in found : m <= k) => m = 1
    BY <1>2
  <2> QED
    BY <1>2, <2>1, <2>2 DEF Min
<1>4. Python(p) = path[p][1]
  BY <1>2, <1>3 DEF Python, found
<1> QED
  BY <1>1, <1>4

(* What another start does.                                                *)
LEMMA OthersStay ==
  ASSUME TypeOK, NEW p \in Procs, Start(p) \/ Step(p) \/ Kill(p), NEW q \in Procs, q # p
  PROVE  SameFor(q)
<1> USE DEF TypeOK, SameFor, Goto, Fails, local, files, hist
<1>1. CASE Start(p) \/ NameIt(p) \/ Create(p) \/ Kill(p)
  BY <1>1 DEF Start, NameIt, Create, Kill
<1>2. CASE Look(p)
  BY <1>2 DEF Look, Prepend
<1>3. CASE Created(p)
  BY <1>3 DEF Created, Prepend
<1>4. CASE Upgrade(p) \/ Abort(p) \/ Aborted(p) \/ HaveLock(p)
  BY <1>4 DEF Upgrade, Abort, Aborted, HaveLock
<1>5. CASE Install(p)
  BY <1>5 DEF Install
<1>6. CASE Freeze(p)
  BY <1>6 DEF Freeze
<1>7. CASE OpenLock(p) \/ WriteLock(p)
  BY <1>7 DEF OpenLock, WriteLock
<1>8. CASE Move(p)
  BY <1>8 DEF Move, Renamed
<1>9. CASE Exec(p) \/ Import(p)
  BY <1>9 DEF Exec, Import
<1> QED
  BY <1>1, <1>2, <1>3, <1>4, <1>5, <1>6, <1>7, <1>8, <1>9 DEF Step

LEMMA HashType == TypeOK => Hash(lock) \in Venvs
  BY DEF TypeOK, Hash, Locks, Venvs

LEMMA DirsType ==
  ASSUME TypeOK
  PROVE  /\ \A v \in Venvs, s \in VenvState : [dirs EXCEPT ![v] = s] \in [Venvs -> VenvState]
         /\ \A v \in Venvs : dirs[v] \in VenvState
         /\ {"none", "partial", "bare", "whole"} \subseteq VenvState
         /\ {"none", "empty", "locked", "system"} \subseteq Locks
         /\ starts \in Nat /\ kills \in Nat /\ fails \in Nat
         /\ starts < MaxStarts => starts + 1 \in 0 .. MaxStarts
         /\ kills < MaxKills => kills + 1 \in 0 .. MaxKills
         /\ fails < MaxFails => fails + 1 \in 0 .. MaxFails
BY BoundsAssumption DEF TypeOK, VenvState, Locks

LEMMA TypeStep == StartInv /\ [Next]_vars => TypeOK'
<1> SUFFICES ASSUME StartInv, [Next]_vars
             PROVE  TypeOK'
  OBVIOUS
<1>t. TypeOK
  BY DEF StartInv
<1> USE <1>t, DirsType DEF local, files, hist, Goto, Fails
<1>0. CASE UNCHANGED vars
  BY <1>0 DEF TypeOK, vars
<1>1. ASSUME NEW p \in Procs, Start(p) PROVE TypeOK'
  <2>1. <<>> \in Seq(Venvs)
    OBVIOUS
  <2> QED
    BY <1>1, <2>1 DEF TypeOK, Start
<1>2. ASSUME NEW p \in Procs, NameIt(p) PROVE TypeOK'
  BY <1>2, HashType DEF TypeOK, NameIt
<1>3. ASSUME NEW p \in Procs, Look(p) PROVE TypeOK'
  <2>1. venv[p] \in Venvs /\ Prepend(p, venv[p]) \in [Procs -> Seq(Venvs)]
    BY PrependOps DEF TypeOK
  <2> QED
    BY <1>3, <2>1 DEF TypeOK, Look
<1>4. ASSUME NEW p \in Procs, Create(p) PROVE TypeOK'
  BY <1>4 DEF TypeOK, Create
<1>5. ASSUME NEW p \in Procs, Created(p) PROVE TypeOK'
  <2>1. venv[p] \in Venvs /\ Prepend(p, venv[p]) \in [Procs -> Seq(Venvs)]
    BY PrependOps DEF TypeOK
  <2>2. dirs' \in [Venvs -> VenvState] /\ path' \in [Procs -> Seq(Venvs)] /\ fails' \in 0 .. MaxFails
    <3>1. dirs' = dirs \/ \E s \in VenvState : dirs' = [dirs EXCEPT ![venv[p]] = s]
      BY <1>5, <2>1 DEF Created
    <3>2. path' = path \/ path' = Prepend(p, venv[p])
      BY <1>5 DEF Created
    <3>3. fails' = fails \/ (fails < MaxFails /\ fails' = fails + 1)
      BY <1>5 DEF Created
    <3>4. dirs' \in [Venvs -> VenvState]
      BY <2>1, <3>1 DEF TypeOK
    <3>5. fails' \in 0 .. MaxFails
      BY <3>3 DEF TypeOK
    <3> QED
      BY <2>1, <3>2, <3>4, <3>5 DEF TypeOK
  <2>3. PICK l \in {"upgrade", "abort"} : at' = [at EXCEPT ![p] = l]
    BY <1>5 DEF Created
  <2>4. UNCHANGED <<host, lock, venv, have, data, within, starts, kills, calm>>
    BY <1>5 DEF Created
  <2> QED
    BY <2>2, <2>3, <2>4 DEF TypeOK
<1>6. ASSUME NEW p \in Procs, Upgrade(p) PROVE TypeOK'
  <2>1. fails' \in 0 .. MaxFails
    BY <1>6 DEF TypeOK, Upgrade
  <2> QED
    BY <1>6, <2>1 DEF TypeOK, Upgrade
<1>7. ASSUME NEW p \in Procs, Abort(p) PROVE TypeOK'
  <2>1. dirs' \in [Venvs -> VenvState]
    BY <1>7 DEF TypeOK, Abort
  <2> QED
    BY <1>7, <2>1 DEF TypeOK, Abort
<1>8. ASSUME NEW p \in Procs, Aborted(p) PROVE TypeOK'
  <2>1. dirs' \in [Venvs -> VenvState]
    BY <1>8 DEF TypeOK, Aborted, Removed
  <2> QED
    BY <1>8, <2>1 DEF TypeOK, Aborted
<1>9. ASSUME NEW p \in Procs, HaveLock(p) PROVE TypeOK'
  BY <1>9 DEF TypeOK, HaveLock
<1>10. ASSUME NEW p \in Procs, Install(p) PROVE TypeOK'
  <2>1. dirs' \in [Venvs -> VenvState] /\ fails' \in 0 .. MaxFails /\ calm' \in BOOLEAN
    <3>1. dirs' = dirs \/ \E v \in Venvs, s \in VenvState : dirs' = [dirs EXCEPT ![v] = s]
      <4>1. \/ dirs' = dirs
            \/ Python(p) \in Venvs /\ \E s \in Installed(p) : dirs' = [dirs EXCEPT ![Python(p)] = s]
        BY <1>10 DEF Install
      <4> QED
        BY <4>1, InstalledOps DEF StartInv
    <3>2. fails' = fails \/ (fails < MaxFails /\ fails' = fails + 1)
      BY <1>10 DEF Install
    <3>3. calm' \in {calm, FALSE}
      BY <1>10 DEF Install
    <3>4. dirs' \in [Venvs -> VenvState]
      BY <3>1 DEF TypeOK
    <3>5. fails' \in 0 .. MaxFails
      BY <3>2 DEF TypeOK
    <3> QED
      BY <3>3, <3>4, <3>5 DEF TypeOK
  <2>3. PICK l \in {"exec", "freeze", "failed", "raised"} : at' = [at EXCEPT ![p] = l]
    BY <1>10 DEF Install
  <2>4. UNCHANGED <<host, lock, venv, path, have, data, within, starts, kills>>
    BY <1>10 DEF Install
  <2> QED
    BY <2>1, <2>3, <2>4 DEF TypeOK
<1>11. ASSUME NEW p \in Procs, Freeze(p) PROVE TypeOK'
  <2>1. data' \in [Procs -> Locks] /\ fails' \in 0 .. MaxFails
    <3>1. \/ data' = data
          \/ data' = [data EXCEPT ![p] = "system"]
          \/ data' = [data EXCEPT ![p] = "locked"]
      BY <1>11 DEF Freeze
    <3>2. fails' = fails \/ (fails < MaxFails /\ fails' = fails + 1)
      BY <1>11 DEF Freeze
    <3>3. fails' \in 0 .. MaxFails
      BY <3>2 DEF TypeOK
    <3>4. data \in [Procs -> Locks]
      BY DEF TypeOK
    <3> QED
      BY <3>1, <3>3, <3>4
  <2>3. PICK l \in {"open", "failed", "raised"} : at' = [at EXCEPT ![p] = l]
    BY <1>11 DEF Freeze
  <2>4. UNCHANGED <<host, lock, dirs, venv, path, have, within, starts, kills, calm>>
    BY <1>11 DEF Freeze
  <2> QED
    BY <2>1, <2>3, <2>4 DEF TypeOK
<1>12. ASSUME NEW p \in Procs, OpenLock(p) PROVE TypeOK'
  BY <1>12 DEF TypeOK, OpenLock
<1>13. ASSUME NEW p \in Procs, WriteLock(p) PROVE TypeOK'
  <2>1. lock' \in Overlaid(lock, data[p]) /\ data[p] \in Locks
    BY <1>13 DEF TypeOK, WriteLock
  <2>2. lock' \in Locks
    BY <2>1, OverlaidOps DEF Locks
  <2> QED
    BY <1>13, <2>2 DEF TypeOK, WriteLock
<1>14. ASSUME NEW p \in Procs, Move(p) PROVE TypeOK'
  <2>1. path[p] # <<>> /\ venv[p] \in Venvs /\ Hash(lock) \in Venvs
    BY <1>14, HashType DEF StartInv, InPath, Installing, Locking, Move, TypeOK
  <2>2. Moved(venv[p], Hash(lock)) \in [Venvs -> VenvState]
    BY <2>1 DEF TypeOK, Moved
  <2>3. Renamed(p, Hash(lock)) \in [Procs -> Seq(Venvs)]
    BY <2>1, RenamedOps
  <2>4. dirs' \in [Venvs -> VenvState] /\ path' \in [Procs -> Seq(Venvs)]
    BY <1>14, <2>2, <2>3 DEF TypeOK, Move
  <2> QED
    BY <1>14, <2>4 DEF TypeOK, Move
<1>15. ASSUME NEW p \in Procs, Exec(p) PROVE TypeOK'
  <2>1. within' \in [Procs -> Venvs \cup {"none"}]
    BY <1>15 DEF TypeOK, Exec
  <2> QED
    BY <1>15, <2>1 DEF TypeOK, Exec
<1>16. ASSUME NEW p \in Procs, Import(p) PROVE TypeOK'
  BY <1>16 DEF TypeOK, Import
<1>17. ASSUME NEW p \in Procs, Kill(p) PROVE TypeOK'
  BY <1>17 DEF TypeOK, Kill
<1> QED
  BY <1>0, <1>1, <1>2, <1>3, <1>4, <1>5, <1>6, <1>7, <1>8, <1>9, <1>10, <1>11, <1>12, <1>13,
     <1>14, <1>15, <1>16, <1>17 DEF Next, Step

(* No lock file is ever taken away.                                        *)
LEMMA LockStays ==
  ASSUME StartInv, NEW p \in Procs, Start(p) \/ Step(p) \/ Kill(p)
  PROVE  host' = host /\ (lock' = "none" => lock = "none")
<1> USE DEF files
<1>1. CASE Start(p) \/ NameIt(p) \/ Look(p) \/ Create(p) \/ Created(p) \/ Upgrade(p) \/ Abort(p)
           \/ Aborted(p) \/ HaveLock(p)
  BY <1>1 DEF Start, NameIt, Look, Create, Created, Upgrade, Abort, Aborted, HaveLock
<1>2. CASE Install(p) \/ Freeze(p) \/ OpenLock(p) \/ Move(p) \/ Exec(p) \/ Import(p) \/ Kill(p)
  BY <1>2 DEF Install, Freeze, OpenLock, Move, Exec, Import, Kill
<1>3. CASE WriteLock(p)
  <2>1. lock' \in Overlaid(lock, data[p]) /\ data[p] # "none" /\ host' = host
    BY <1>3 DEF WriteLock, StartInv, NoLockSeen
  <2> QED
    BY <2>1, OverlaidOps
<1> QED
  BY <1>1, <1>2, <1>3 DEF Step

(* What a start knows, after a step of its own.                            *)
LEMMA OwnPath ==
  ASSUME StartInv, NEW p \in Procs, Start(p) \/ Step(p) \/ Kill(p)
  PROVE  InPath(p)'
<1>1. TypeOK /\ InPath(p) /\ host' = host
  BY LockStays DEF StartInv
<1>2. \A l : at' = [at EXCEPT ![p] = l] => at'[p] = l
  BY <1>1 DEF TypeOK
<1> USE DEF Installing, Locking
<1>3. ASSUME at'[p] \notin Installing \cup {"exec"}
      PROVE  InPath(p)'
  BY <1>3 DEF InPath
<1>4. CASE Start(p) \/ NameIt(p) \/ Create(p) \/ Abort(p) \/ Aborted(p) \/ Import(p) \/ Kill(p)
  <2>1. at'[p] \in {"hash", "exists", "creating", "aborting", "failed", "ran", "broken", "off"}
    BY <1>2, <1>4 DEF Start, NameIt, Create, Abort, Aborted, Import, Kill, Goto
  <2> QED
    BY <1>3, <2>1
<1>5. CASE Look(p)
  <2>1. at'[p] \in {"create", "exec"} /\ venv' = venv /\ venv[p] \in Venvs
        /\ (at'[p] = "exec" => path' = Prepend(p, venv[p]))
    BY <1>1, <1>2, <1>5 DEF Look, Goto, TypeOK
  <2> QED
    BY <1>1, <2>1, PrependOps DEF InPath
<1>6. CASE Created(p)
  <2>1. at'[p] \in {"abort", "upgrade"} /\ venv' = venv /\ venv[p] \in Venvs
        /\ (at'[p] = "upgrade" => path' = Prepend(p, venv[p]))
    BY <1>1, <1>2, <1>6 DEF Created, Goto, Fails, TypeOK
  <2> QED
    BY <1>1, <2>1, PrependOps DEF InPath
<1>7. CASE Upgrade(p) \/ HaveLock(p) \/ Install(p) \/ Freeze(p) \/ OpenLock(p) \/ WriteLock(p)
  <2>1. at[p] \in Installing /\ UNCHANGED <<path, venv>>
    BY <1>7 DEF Upgrade, HaveLock, Install, Freeze, OpenLock, WriteLock, local
  <2> QED
    BY <1>1, <2>1 DEF InPath
<1>8. CASE Move(p)
  <2>1. path[p] # <<>> /\ venv[p] = "nolock" /\ Hash(lock) \in Venvs
    BY <1>1, <1>8, HashType DEF Move, InPath, StartInv, NoLockSeen
  <2>2. at'[p] \in {"raised", "exec"} /\ venv' = venv
        /\ (at'[p] = "exec" => path' = Renamed(p, Hash(lock)))
    BY <1>2, <1>8 DEF Move, Goto
  <2>3. Hash(lock) = "nolock" \/ host.hash
    BY DEF Hash
  <2> QED
    BY <1>1, <2>1, <2>2, <2>3, RenamedOps DEF InPath
<1>9. CASE Exec(p)
  <2>1. at'[p] \in {"import", "hash", "raised"}
    BY <1>2, <1>9 DEF Exec, Goto
  <2> QED
    BY <1>3, <2>1
<1> QED
  BY <1>4, <1>5, <1>6, <1>7, <1>8, <1>9 DEF Step

LEMMA OwnLock ==
  ASSUME StartInv, NEW p \in Procs, Start(p) \/ Step(p) \/ Kill(p)
  PROVE  NoLockSeen(p)'
<1>1. /\ TypeOK /\ NoLockSeen(p) /\ host' = host /\ (lock' = "none" => lock = "none")
      /\ venv[p] \in Venvs
  BY LockStays DEF StartInv, TypeOK
<1>2. \A l : at' = [at EXCEPT ![p] = l] => at'[p] = l
  BY <1>1 DEF TypeOK
<1> USE DEF Locking
<1>3. CASE \/ Start(p) \/ Look(p) \/ Create(p) \/ Created(p) \/ Upgrade(p) \/ Abort(p)
           \/ Aborted(p) \/ Import(p) \/ Kill(p) \/ Exec(p) \/ Move(p)
  <2>1. venv' = venv
    BY <1>3 DEF Start, Look, Create, Created, Upgrade, Abort, Aborted, Import, Kill, Exec, Move, local
  <2>2. at'[p] \notin Locking \cup {"install"}
    BY <1>2, <1>3 DEF Start, Look, Create, Created, Upgrade, Abort, Aborted, Import, Kill, Exec, Move,
                      Goto, Fails
  <2> QED
    BY <1>1, <2>1, <2>2 DEF NoLockSeen
<1>4. CASE NameIt(p)
  <2>1. at'[p] = "exists" /\ venv'[p] = Hash(lock) /\ lock' = lock
    BY <1>1, <1>2, <1>4 DEF NameIt, Goto, files, TypeOK
  <2> QED
    BY <2>1 DEF NoLockSeen, Hash
<1>5. CASE HaveLock(p)
  <2>1. at'[p] = "install" /\ have'[p] = (lock # "none") /\ UNCHANGED <<lock, venv>>
    BY <1>1, <1>2, <1>5 DEF HaveLock, Goto, files, TypeOK
  <2> QED
    BY <1>1, <2>1 DEF NoLockSeen
<1>6. CASE Install(p)
  <2>1. /\ at[p] = "install" /\ UNCHANGED <<lock, venv>>
        /\ (at'[p] = "freeze" /\ ~have[p]) \/ at'[p] \in {"exec", "failed", "raised"}
    BY <1>2, <1>6 DEF Install, Goto, Fails, local
  <2> QED
    BY <1>1, <2>1 DEF NoLockSeen
<1>7. CASE Freeze(p)
  <2>1. at[p] = "freeze" /\ UNCHANGED <<lock, venv>>
    BY <1>7 DEF Freeze, files
  <2>2. at'[p] \in {"open", "failed", "raised"}
    BY <1>2, <1>7 DEF Freeze, Goto, Fails
  <2>3. at'[p] = "open" => data'[p] # "none"
    BY <1>1, <1>2, <1>7 DEF Freeze, Goto, Fails, TypeOK
  <2> QED
    BY <1>1, <2>1, <2>2, <2>3 DEF NoLockSeen
<1>8. CASE OpenLock(p) \/ WriteLock(p)
  <2>1. /\ at[p] \in {"open", "write"} /\ at'[p] \in {"write", "move"}
        /\ lock' = "empty" \/ lock' \in Overlaid(lock, data[p])
        /\ UNCHANGED <<venv, data>>
    BY <1>1, <1>2, <1>8 DEF OpenLock, WriteLock, Goto, local
  <2>2. lock' # "none" /\ data[p] # "none"
    BY <1>1, <2>1, OverlaidOps DEF NoLockSeen
  <2> QED
    BY <1>1, <2>1, <2>2 DEF NoLockSeen
<1> QED
  BY <1>3, <1>4, <1>5, <1>6, <1>7, <1>8 DEF Step

LEMMA StartInvInit == Init => StartInv
<1> SUFFICES ASSUME Init PROVE StartInv
  OBVIOUS
<1>1. <<>> \in Seq(Venvs)
  OBVIOUS
<1>2. TypeOK
  BY <1>1, BoundsAssumption DEF Init, TypeOK, Locks, Venvs, VenvState
<1> QED
  BY <1>2 DEF Init, StartInv, InPath, NoLockSeen, Installing, Locking

LEMMA StartInvStep == StartInv /\ [Next]_vars => StartInv'
<1> SUFFICES ASSUME StartInv, [Next]_vars
             PROVE  StartInv'
  OBVIOUS
<1>1. TypeOK'
  BY TypeStep
<1>2. ASSUME NEW p \in Procs, Start(p) \/ Step(p) \/ Kill(p), NEW q \in Procs
      PROVE  InPath(q)' /\ NoLockSeen(q)'
  <2>1. CASE q = p
    BY <1>2, <2>1, OwnPath, OwnLock
  <2>2. CASE q # p
    <3>1. SameFor(q) /\ host' = host /\ (lock' = "none" => lock = "none")
      BY <1>2, <2>2, OthersStay, LockStays DEF StartInv
    <3>2. InPath(q) /\ NoLockSeen(q)
      BY DEF StartInv
    <3> QED
      BY <3>1, <3>2 DEF SameFor, InPath, NoLockSeen
  <2> QED
    BY <2>1, <2>2
<1>3. CASE UNCHANGED vars
  BY <1>1, <1>3 DEF vars, files, local, StartInv, InPath, NoLockSeen
<1> QED
  BY <1>1, <1>2, <1>3 DEF Next, StartInv

(* The starts and what they make keep their types, for any terminals and   *)
(* any host, however the starts interleave and wherever they are killed.   *)
THEOREM TypeCorrect == Spec => []TypeOK
<1>1. StartInv => TypeOK
  BY DEF StartInv
<1> QED
  BY <1>1, StartInvInit, StartInvStep, PTL DEF Spec
-----------------------------------------------------------------------------
(* A settled checkout: every start finds the environment and runs in it.   *)
LEMMA SettledStep ==
  ASSUME StartInv, Settled, NEW p \in Procs, Start(p) \/ Step(p) \/ Kill(p)
  PROVE  Settled'
<1>1. TypeOK /\ InPath(p) /\ GoesThere(p) /\ host' = host /\ Hash(lock) \in Venvs
  BY LockStays, HashType DEF StartInv, Settled
<1>2. \A l : at' = [at EXCEPT ![p] = l] => at'[p] = l
  BY <1>1 DEF TypeOK
<1>3. \/ Start(p) \/ NameIt(p) \/ Look(p) \/ Exec(p) \/ Import(p) \/ Kill(p)
  BY <1>1 DEF GoesThere, Resting, Step, Create, Created, Upgrade, Abort, Aborted, HaveLock, Install,
              Freeze, OpenLock, WriteLock, Move
<1>4. UNCHANGED files
  BY <1>3 DEF Start, NameIt, Look, Exec, Import, Kill
<1>5. Hash(lock)' = Hash(lock)
  BY <1>4 DEF files, Hash
<1>6. GoesThere(p)'
  <2>1. CASE Start(p) \/ Import(p) \/ Kill(p)
    <3>1. at'[p] \in {"hash", "ran", "broken", "off"}
      BY <1>2, <2>1 DEF Start, Import, Kill, Goto
    <3> QED
      BY <3>1 DEF GoesThere, Resting
  <2>2. CASE NameIt(p)
    <3>1. at'[p] = "exists" /\ venv'[p] = Hash(lock)
      BY <1>1, <1>2, <2>2 DEF NameIt, Goto, TypeOK
    <3> QED
      BY <1>5, <3>1 DEF GoesThere
  <2>3. CASE Look(p)
    <3>1. venv[p] = Hash(lock) /\ venv' = venv /\ ~IsNew(p)
      BY <1>1, <2>3 DEF Look, GoesThere, Resting, Settled, IsNew
    <3>2. at'[p] = "exec"
      BY <1>2, <2>3, <3>1 DEF Look, Goto
    <3> QED
      BY <1>5, <3>1, <3>2 DEF GoesThere
  <2>4. CASE Exec(p)
    <3>1. at[p] = "exec" /\ venv[p] = Hash(lock) /\ path[p] # <<>>
      BY <1>1, <2>4 DEF Exec, GoesThere, Resting, InPath
    <3>2. path[p][1] = Hash(lock)
      BY <1>1, <3>1 DEF InPath, Settled, Hash
    <3>3. Python(p) = Hash(lock)
      BY <1>1, <3>1, <3>2, FirstIsFound DEF Works, Settled
    <3>4. Python(p) \notin {"host", "none"}
      BY <1>1, <3>3 DEF Venvs
    <3>5. at'[p] = "import" /\ within'[p] = Hash(lock)
      BY <1>1, <1>2, <2>4, <3>3, <3>4 DEF Exec, Goto, TypeOK
    <3> QED
      BY <1>5, <3>5 DEF GoesThere
  <2> QED
    BY <1>3, <2>1, <2>2, <2>3, <2>4
<1>7. ASSUME NEW q \in Procs, q # p
      PROVE  GoesThere(q)'
  <2>1. SameFor(q) /\ GoesThere(q)
    BY <1>1, <1>7, OthersStay DEF Settled
  <2> QED
    BY <1>5, <2>1 DEF SameFor, GoesThere, Resting
<1> QED
  BY <1>4, <1>5, <1>6, <1>7 DEF Settled, files

(* No start changes a settled checkout, or comes to work outside of its    *)
(* environment, whatever else is started or killed.                        *)
THEOREM SettledCorrect == Spec => StaysSettled
<1>1. StartInv /\ [Next]_vars => [Settled => Settled']_vars
  BY SettledStep DEF Next
<1> QED
  BY <1>1, StartInvInit, StartInvStep, PTL DEF Spec, StaysSettled
-----------------------------------------------------------------------------
(* Starts one after the other, none of them killed and no installation     *)
(* failing.  Whoever moves is the only one that does.                      *)
LEMMA CalmBefore ==
  ASSUME NEW p \in Procs, Start(p) \/ Step(p) \/ Kill(p), calm'
  PROVE  /\ calm /\ ~Kill(p)
         /\ Start(p) => \A q \in Procs : Resting(q)
<1> USE DEF hist
<1>1. CASE Start(p) \/ Kill(p)
  BY <1>1 DEF Start, Kill, Resting
<1>2. CASE NameIt(p) \/ Look(p) \/ Create(p) \/ Created(p) \/ Upgrade(p) \/ Abort(p) \/ Aborted(p)
  BY <1>2 DEF NameIt, Look, Create, Created, Upgrade, Abort, Aborted, Start, Kill, Resting
<1>3. CASE HaveLock(p) \/ Install(p) \/ Freeze(p) \/ OpenLock(p) \/ WriteLock(p) \/ Move(p)
  BY <1>3 DEF HaveLock, Install, Freeze, OpenLock, WriteLock, Move, Start, Kill, Resting
<1>4. CASE Exec(p) \/ Import(p)
  BY <1>4 DEF Exec, Import, Start, Kill, Resting
<1> QED
  BY <1>1, <1>2, <1>3, <1>4 DEF Step

GoesWell(p) ==
  /\ at[p] \notin {"raised", "broken"}
  /\ Resting(p) => Quiet
  /\ ~Resting(p) => Made(p)

(* A start that is under way, and another state of its environment.        *)
LEMMA DirsOps ==
  ASSUME TypeOK, NEW v \in Venvs, NEW s, dirs' = [dirs EXCEPT ![v] = s]
  PROVE  \A w \in Venvs : dirs'[w] = IF w = v THEN s ELSE dirs[w]
BY DEF TypeOK

LEMMA CalmBegins ==
  ASSUME StartInv, NEW p \in Procs, Start(p), Quiet
  PROVE  GoesWell(p)'
<1>1. at'[p] = "hash" /\ UNCHANGED <<lock, dirs, venv>>
  BY DEF Start, Goto, StartInv, TypeOK, files
<1> QED
  BY <1>1 DEF GoesWell, Resting, Made, Quiet, Tidy, Locking

(* The start looks for its environment ...                                 *)
LEMMA CalmLooks ==
  ASSUME StartInv, NEW p \in Procs, NameIt(p) \/ Look(p), Made(p)
  PROVE  GoesWell(p)'
<1>1. TypeOK /\ Quiet /\ venv[p] \in Venvs
  BY DEF StartInv, TypeOK, NameIt, Look, Made
<1>2. \A l : at' = [at EXCEPT ![p] = l] => at'[p] = l
  BY <1>1 DEF TypeOK
<1>3. UNCHANGED <<lock, dirs>>
  BY DEF NameIt, Look, files
<1>4. Quiet' /\ \A v \in Venvs : Tidy(v)'
  BY <1>1, <1>3 DEF Quiet, Tidy
<1>5. CASE NameIt(p)
  <2>1. at'[p] = "exists" /\ venv'[p] \in Venvs
    BY <1>1, <1>2, <1>5, HashType DEF NameIt, Goto, TypeOK
  <2> QED
    BY <1>4, <2>1 DEF GoesWell, Resting, Made, Quiet, Locking
<1>6. CASE Look(p) /\ IsNew(p)
  <2>1. at'[p] = "create" /\ dirs'[venv'[p]] = "none" /\ venv' = venv
    BY <1>2, <1>3, <1>6 DEF Look, Goto, IsNew
  <2> QED
    BY <1>1, <1>4, <2>1 DEF GoesWell, Resting, Made, Quiet, Locking
<1>7. CASE Look(p) /\ ~IsNew(p)
  <2>1. at'[p] = "exec" /\ venv' = venv /\ path' = Prepend(p, venv[p])
    BY <1>2, <1>7 DEF Look, Goto
  <2>2. path'[p][1] = venv[p]
    BY <1>1, <2>1, PrependOps
  <2>3. dirs'[path'[p][1]] = "whole"
    BY <1>1, <1>3, <1>7, <2>2 DEF IsNew, Quiet, Tidy
  <2> QED
    BY <1>1, <1>4, <2>1, <2>3 DEF GoesWell, Resting, Made, Quiet, Locking
<1> QED
  BY <1>5, <1>6, <1>7

(* ... creates it, or takes away what it created ...                       *)
LEMMA CalmCreates ==
  ASSUME StartInv, NEW p \in Procs, Create(p) \/ Created(p) \/ Abort(p) \/ Aborted(p), Made(p)
  PROVE  GoesWell(p)'
<1>1. /\ TypeOK /\ venv[p] \in Venvs /\ venv' = venv /\ lock' = lock
      /\ lock \in {"none", "locked"} /\ \A v \in Venvs \ {venv[p]} : Tidy(v)
  BY DEF StartInv, TypeOK, Create, Created, Abort, Aborted, Made, local
<1>2. \A l : at' = [at EXCEPT ![p] = l] => at'[p] = l
  BY <1>1 DEF TypeOK
<1>3. ASSUME NEW s, dirs' = [dirs EXCEPT ![venv[p]] = s]
      PROVE  dirs'[venv[p]] = s /\ \A v \in Venvs \ {venv[p]} : Tidy(v)'
  <2>1. \A w \in Venvs : dirs'[w] = IF w = venv[p] THEN s ELSE dirs[w]
    BY <1>1, <1>3, DirsOps
  <2> QED
    BY <1>1, <2>1 DEF Tidy
<1>4. CASE Create(p)
  <2>1. at'[p] = "creating" /\ dirs' = [dirs EXCEPT ![venv[p]] = "partial"]
    BY <1>2, <1>4 DEF Create, Goto, Made
  <2> QED
    BY <1>1, <1>3, <2>1 DEF GoesWell, Resting, Made, Locking
<1>5. CASE Created(p)
  <2>1. dirs[venv[p]] = "partial"
    BY <1>5 DEF Created, Made
  <2>2. CASE dirs' = dirs /\ at'[p] = "abort"
    <3>1. \A v \in Venvs \ {venv[p]} : Tidy(v)'
      BY <1>1, <2>2 DEF Tidy
    <3> QED
      BY <1>1, <2>2, <3>1 DEF GoesWell, Resting, Made, Locking
  <2>3. CASE dirs' = [dirs EXCEPT ![venv[p]] = "bare"] /\ at'[p] = "upgrade"
    BY <1>1, <1>3, <2>3 DEF GoesWell, Resting, Made, Locking
  <2> QED
    BY <1>2, <1>5, <2>1, <2>2, <2>3 DEF Created, Goto, Fails
<1>6. CASE Abort(p)
  <2>1. /\ at'[p] = "aborting"
        /\ dirs' = [dirs EXCEPT ![venv[p]] = IF dirs[venv[p]] = "none" THEN dirs[venv[p]] ELSE "partial"]
    BY <1>2, <1>6 DEF Abort, Goto
  <2>2. \A v \in Venvs \ {venv[p]} : Tidy(v)'
    BY <1>3, <2>1
  <2> QED
    BY <1>1, <2>1, <2>2 DEF GoesWell, Resting, Made, Locking
<1>7. CASE Aborted(p)
  <2>1. at'[p] = "failed" /\ dirs' = [dirs EXCEPT ![venv[p]] = "none"]
    BY <1>2, <1>7 DEF Aborted, Removed, Goto
  <2>2. \A v \in Venvs : Tidy(v)'
    BY <1>3, <2>1 DEF Tidy
  <2> QED
    BY <1>1, <2>1, <2>2 DEF GoesWell, Resting, Quiet
<1> QED
  BY <1>4, <1>5, <1>6, <1>7

(* The python of an environment that is under way is its own.              *)
LEMMA CalmPython ==
  ASSUME StartInv, NEW p \in Procs, at[p] \in Installing, Made(p)
  PROVE  /\ Python(p) = venv[p] /\ venv[p] \in Venvs /\ Python(p) \notin {"host", "none"}
         /\ dirs[venv[p]] = IF at[p] \in Locking THEN "whole" ELSE "bare"
<1>1. TypeOK /\ path[p] # <<>> /\ path[p][1] = venv[p] /\ venv[p] \in Venvs
  BY DEF StartInv, InPath, TypeOK
<1>2. dirs[venv[p]] = IF at[p] \in Locking THEN "whole" ELSE "bare"
  BY DEF Made, Installing
<1>3. Python(p) = venv[p]
  BY <1>1, <1>2, FirstIsFound DEF Works
<1> QED
  BY <1>1, <1>2, <1>3 DEF Venvs

(* ... installs the requirements ...                                       *)
LEMMA CalmInstalls ==
  ASSUME StartInv, NEW p \in Procs, Upgrade(p) \/ HaveLock(p) \/ Install(p), Made(p), calm'
  PROVE  GoesWell(p)'
<1>1. /\ TypeOK /\ venv[p] \in Venvs /\ venv' = venv /\ lock' = lock /\ path' = path
      /\ lock \in {"none", "locked"} /\ \A v \in Venvs \ {venv[p]} : Tidy(v)
      /\ at[p] \in Installing \ Locking
  BY DEF StartInv, TypeOK, Upgrade, HaveLock, Install, Made, local, files, Installing, Locking
<1>2. \A l : at' = [at EXCEPT ![p] = l] => at'[p] = l
  BY <1>1 DEF TypeOK
<1>3. Python(p) = venv[p] /\ Python(p) \notin {"host", "none"} /\ dirs[venv[p]] = "bare"
  BY <1>1, CalmPython
<1>4. CASE Upgrade(p)
  <2>1. at'[p] \in {"haveLock", "abort"} /\ dirs' = dirs
    BY <1>2, <1>3, <1>4 DEF Upgrade, Goto, Fails, files
  <2>2. \A v \in Venvs \ {venv[p]} : Tidy(v)'
    BY <1>1, <2>1 DEF Tidy
  <2> QED
    BY <1>1, <1>3, <2>1, <2>2 DEF GoesWell, Resting, Made, Locking
<1>5. CASE HaveLock(p)
  <2>1. at'[p] = "install" /\ dirs' = dirs /\ have'[p] = (lock # "none")
    BY <1>1, <1>2, <1>5 DEF HaveLock, Goto, files, TypeOK
  <2>2. \A v \in Venvs \ {venv[p]} : Tidy(v)'
    BY <1>1, <2>1 DEF Tidy
  <2> QED
    BY <1>1, <1>3, <2>1, <2>2 DEF GoesWell, Resting, Made, Locking
<1>6. CASE Install(p)
  <2>1. have[p] => lock = "locked"
    BY <1>6 DEF Install, Made
  <2>2. at'[p] \in {"exec", "freeze"} /\ dirs' = [dirs EXCEPT ![venv[p]] = "whole"]
    <3>1. Python(p) \in Venvs /\ Installed(p) = {"whole"}
      BY <1>1, <1>3, <2>1, InstalledOps
    <3>2. \E s \in Installed(p) : dirs' = [dirs EXCEPT ![venv[p]] = s]
      BY <1>3, <1>6, <3>1 DEF Install
    <3>3. at'[p] \in {"exec", "freeze"}
      BY <1>2, <1>3, <1>6 DEF Install, Goto, Fails
    <3> QED
      BY <3>1, <3>2, <3>3
  <2>3. (\A v \in Venvs : Tidy(v)') /\ dirs'[venv[p]] = "whole"
    <3>1. \A w \in Venvs : dirs'[w] = IF w = venv[p] THEN "whole" ELSE dirs[w]
      BY <1>1, <2>2 DEF TypeOK
    <3> QED
      BY <1>1, <3>1 DEF Tidy
  <2>4. Quiet' /\ path'[p][1] = venv[p]
    BY <1>1, <2>3 DEF Quiet, StartInv, InPath
  <2> QED
    BY <1>1, <2>2, <2>3, <2>4 DEF GoesWell, Resting, Made, Locking
<1> QED
  BY <1>4, <1>5, <1>6

(* ... writes the lock file and gives its environment the name of it ...   *)
LEMMA MovedOps ==
  ASSUME TypeOK, NEW v \in Venvs, NEW w \in Venvs, dirs' = Moved(v, w),
         dirs[v] = "whole", \A u \in Venvs \ {v} : Tidy(u)
  PROVE  (\A u \in Venvs : Tidy(u)') /\ dirs'[w] = "whole"
<1>1. dirs \in [Venvs -> VenvState]
  BY DEF TypeOK
<1>2. CASE v = w
  BY <1>1, <1>2 DEF Moved, Tidy
<1>3. CASE v # w
  <2>1. \A u \in Venvs : dirs'[u] = IF u = w THEN IF dirs[w] = "none" THEN dirs[v] ELSE dirs[w]
                                    ELSE IF u = v THEN "none" ELSE dirs[u]
    BY <1>1, <1>3 DEF Moved
  <2>2. dirs'[w] = "whole"
    BY <1>3, <2>1 DEF Tidy
  <2>3. ASSUME NEW u \in Venvs PROVE dirs'[u] \in {"none", "whole"}
    BY <2>1, <2>2 DEF Tidy
  <2> QED
    BY <2>2, <2>3 DEF Tidy
<1> QED
  BY <1>2, <1>3

LEMMA CalmLocks ==
  ASSUME StartInv, NEW p \in Procs, Freeze(p) \/ OpenLock(p) \/ WriteLock(p) \/ Move(p), Made(p)
  PROVE  GoesWell(p)'
<1>1. /\ TypeOK /\ venv[p] \in Venvs /\ venv' = venv
      /\ \A v \in Venvs : Tidy(v)
      /\ at[p] \in Locking
  BY DEF StartInv, TypeOK, Freeze, OpenLock, WriteLock, Move, Made, Tidy, local, Locking
<1>2. \A l : at' = [at EXCEPT ![p] = l] => at'[p] = l
  BY <1>1 DEF TypeOK
<1>3. Python(p) = venv[p] /\ Python(p) \notin {"host", "none"} /\ dirs[venv[p]] = "whole"
  BY <1>1, CalmPython DEF Installing
<1>4. dirs' = dirs => \A v \in Venvs : Tidy(v)'
  BY <1>1 DEF Tidy
<1>5. CASE Freeze(p)
  <2>1. UNCHANGED <<lock, dirs>> /\ lock \in {"none", "locked"}
    BY <1>5 DEF Freeze, files, Made
  <2>2. CASE at'[p] = "open" /\ data'[p] = "locked"
    BY <1>1, <1>3, <1>4, <2>1, <2>2 DEF GoesWell, Resting, Made, Locking
  <2>3. CASE at'[p] = "failed"
    BY <1>4, <2>1, <2>3 DEF GoesWell, Resting, Quiet
  <2>4. at'[p] \in {"open", "failed"} /\ (at'[p] = "open" => data' = [data EXCEPT ![p] = "locked"])
    BY <1>2, <1>3, <1>5 DEF Freeze, Goto, Fails
  <2> QED
    BY <1>1, <2>2, <2>3, <2>4 DEF TypeOK
<1>6. CASE OpenLock(p)
  <2>1. at'[p] = "write" /\ data'[p] = "locked" /\ dirs' = dirs /\ lock' = "empty"
    BY <1>2, <1>6 DEF OpenLock, Goto, local, Made
  <2> QED
    BY <1>1, <1>3, <1>4, <2>1 DEF GoesWell, Resting, Made, Locking
<1>7. CASE WriteLock(p)
  <2>1. at'[p] = "move" /\ dirs' = dirs /\ data[p] = "locked" /\ lock = "empty"
        /\ lock' \in Overlaid(lock, data[p])
    BY <1>2, <1>7 DEF WriteLock, Goto, Made
  <2>2. lock' = "locked"
    BY <2>1, OverlaidOps
  <2> QED
    BY <1>1, <1>3, <1>4, <2>1, <2>2 DEF GoesWell, Resting, Made, Locking
<1>8. CASE Move(p)
  <2>1. /\ at'[p] = "exec" /\ lock' = lock /\ lock \in {"none", "locked"}
        /\ dirs' = Moved(venv[p], Hash(lock)) /\ path' = Renamed(p, Hash(lock))
    BY <1>2, <1>3, <1>8 DEF Move, Goto, Made
  <2>2. Hash(lock) \in Venvs /\ path[p] # <<>>
    BY <1>1, HashType DEF StartInv, InPath, Installing
  <2>3. path'[p][1] = Hash(lock)
    BY <1>1, <2>1, <2>2, RenamedOps
  <2>4. (\A v \in Venvs : Tidy(v)') /\ dirs'[Hash(lock)] = "whole"
    BY <1>1, <1>3, <2>1, <2>2, MovedOps
  <2>5. Quiet' /\ dirs'[path'[p][1]] = "whole"
    BY <2>1, <2>3, <2>4 DEF Quiet
  <2> QED
    BY <1>1, <2>1, <2>4, <2>5 DEF GoesWell, Resting, Made, Quiet, Locking
<1> QED
  BY <1>5, <1>6, <1>7, <1>8

(* ... and runs in it.                                                     *)
LEMMA CalmRuns ==
  ASSUME StartInv, NEW p \in Procs, Exec(p) \/ Import(p), Made(p)
  PROVE  GoesWell(p)'
<1>1. TypeOK /\ Quiet /\ UNCHANGED <<lock, dirs, venv>>
  BY DEF StartInv, Made, Exec, Import, files, local
<1>2. \A l : at' = [at EXCEPT ![p] = l] => at'[p] = l
  BY <1>1 DEF TypeOK
<1>3. Quiet' /\ \A v \in Venvs : Tidy(v)'
  BY <1>1 DEF Quiet, Tidy
<1>4. CASE Exec(p)
  <2>1. path[p] # <<>> /\ dirs[path[p][1]] = "whole"
    BY <1>4 DEF Exec, StartInv, InPath, Made
  <2>2. Python(p) = path[p][1] /\ path[p][1] \in Venvs
    BY <1>1, <2>1, FirstIsFound DEF Works
  <2>3. Python(p) \notin {"host", "none"}
    BY <2>2 DEF Venvs
  <2>4. at'[p] = "import" /\ within' = [within EXCEPT ![p] = Python(p)]
    BY <1>2, <1>4, <2>3 DEF Exec, Goto
  <2>5. within'[p] = path[p][1]
    BY <1>1, <2>2, <2>4 DEF TypeOK
  <2>6. dirs'[within'[p]] = "whole"
    BY <1>1, <2>1, <2>5
  <2> QED
    BY <1>3, <2>4, <2>6 DEF GoesWell, Resting, Made, Quiet, Locking
<1>5. CASE Import(p)
  <2>1. dirs[within[p]] = "whole"
    BY <1>5 DEF Import, Made
  <2>2. at'[p] = "ran"
    BY <1>2, <1>5, <2>1 DEF Import, Goto
  <2> QED
    BY <1>3, <2>2 DEF GoesWell, Resting
<1> QED
  BY <1>4, <1>5

LEMMA CalmInit == Init => CalmInv
BY DEF Init, CalmInv, OneAtATime, Quiet, Tidy, Resting

(* The start that moves was the only one under way, or none was.           *)
LEMMA CalmStep == StartInv /\ CalmInv /\ [Next]_vars => CalmInv'
<1> SUFFICES ASSUME StartInv, CalmInv, [Next]_vars, calm'
             PROVE  /\ OneAtATime'
                    /\ (\A q \in Procs : Resting(q)') => Quiet'
                    /\ \A q \in Procs : at'[q] \notin {"raised", "broken"}
                    /\ \A q \in Procs : ~Resting(q)' => Made(q)'
  BY DEF CalmInv
<1>1. ASSUME NEW p \in Procs, Start(p) \/ Step(p) \/ Kill(p)
      PROVE  /\ GoesWell(p)'
             /\ \A q \in Procs : q # p => Resting(q)' /\ at'[q] \notin {"raised", "broken"}
  <2>1. calm /\ ~Kill(p) /\ (Start(p) => \A q \in Procs : Resting(q))
    BY <1>1, CalmBefore
  <2>2. Step(p) => ~Resting(p)
    BY DEF Step, Resting, NameIt, Look, Create, Created, Upgrade, Abort, Aborted, HaveLock, Install,
           Freeze, OpenLock, WriteLock, Move, Exec, Import
  <2>3. ASSUME NEW q \in Procs, q # p
        PROVE  Resting(q)' /\ at'[q] \notin {"raised", "broken"}
    <3>1. Resting(q) /\ at[q] \notin {"raised", "broken"}
      BY <1>1, <2>1, <2>2, <2>3 DEF CalmInv, OneAtATime
    <3>2. at'[q] = at[q]
      BY <1>1, <2>3, OthersStay DEF StartInv, SameFor
    <3> QED
      BY <3>1, <3>2 DEF Resting
  <2>4. CASE Start(p)
    <3>1. Quiet
      BY <2>1, <2>4 DEF CalmInv
    <3> QED
      BY <2>3, <2>4, <3>1, CalmBegins
  <2>5. CASE Step(p)
    <3>1. Made(p)
      BY <2>1, <2>2, <2>5 DEF CalmInv
    <3>2. GoesWell(p)'
      BY <2>5, <3>1, CalmLooks, CalmCreates, CalmInstalls, CalmLocks, CalmRuns DEF Step
    <3> QED
      BY <2>3, <3>2
  <2> QED
    BY <1>1, <2>1, <2>4, <2>5
<1>2. CASE Next
  <2>1. PICK p \in Procs : Start(p) \/ Step(p) \/ Kill(p)
    BY <1>2 DEF Next
  <2>2. GoesWell(p)' /\ \A q \in Procs : q # p => Resting(q)' /\ at'[q] \notin {"raised", "broken"}
    BY <1>1, <2>1
  <2>3. OneAtATime'
    BY <2>2 DEF OneAtATime
  <2> QED
    BY <2>2, <2>3 DEF GoesWell
<1>3. CASE UNCHANGED vars
  <2>1. UNCHANGED <<lock, dirs, at, venv, path, have, data, within>> /\ calm
    BY <1>3 DEF vars, files, local, hist
  <2>2. \A q \in Procs : Resting(q)' = Resting(q)
    BY <2>1 DEF Resting
  <2>3. Quiet' = Quiet
    BY <2>1 DEF Quiet, Tidy
  <2>4. \A q \in Procs : Made(q)' = Made(q)
    BY <2>1, <2>3 DEF Made, Tidy, Locking
  <2> QED
    BY <2>1, <2>2, <2>3, <2>4 DEF CalmInv, OneAtATime
<1> QED
  BY <1>2, <1>3

(* Environments that were made without disturbance are whole when nobody   *)
(* works on them, so that "not exists(venv)" tells what is to be done.     *)
THEOREM WholeCorrect == Spec => []VenvsAreWhole
<1>1. CalmInv => VenvsAreWhole
  BY DEF CalmInv, VenvsAreWhole, Quiet, Tidy
<1> QED
  BY <1>1, StartInvInit, StartInvStep, CalmInit, CalmStep, PTL DEF Spec

(* Without disturbance a start runs the program, or a call has failed.     *)
THEOREM RunsCorrect == Spec => []StartsRun
<1>1. CalmInv => StartsRun
  BY DEF CalmInv, StartsRun
<1> QED
  BY <1>1, StartInvInit, StartInvStep, CalmInit, CalmStep, PTL DEF Spec
=============================================================================
