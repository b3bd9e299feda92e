------------------------------- MODULE Bootstrap -------------------------------
(***************************************************************************)
(* cli.py: how the program prepares the virtual environment it runs in.    *)
(* The environment is a directory named after the hash of the lock file,   *)
(* or "nolock".  A start that finds no such directory creates it, installs *)
(* the requirements into it, and, without a lock file, writes one and      *)
(* moves the directory to its name.  Every other start uses what is there. *)
(*                                                                         *)
(* Starts run side by side and may be killed between any two steps.        *)
(***************************************************************************)
EXTENDS Naturals, Sequences, FiniteSetsExt

CONSTANTS
  Procs,      \* the terminals the program is started in
  Hosts,      \* the machines: is there a program for the hash, is there a python?
  MaxPath,    \* the environments that fit in PATH
  MaxStarts,  \* bound: starts
  MaxKills,   \* bound: starts killed
  MaxFails    \* bound: calls of venv and pip that fail

ASSUME HostsAssumption == Hosts \subseteq [hash : BOOLEAN, python : BOOLEAN]
ASSUME BoundsAssumption == MaxPath \in Nat \ {0} /\ MaxStarts \in Nat /\ MaxKills \in Nat /\ MaxFails \in Nat

(* What is in requirements.lock: "locked" is the list of the requirements, *)
(* "system" the list of what the python of the machine has instead, and    *)
(* "mixed" the one over the other.                                         *)
Locks == {"none", "empty", "locked", "system", "mixed"}
Venvs == {"nolock", "empty", "locked", "system", "mixed"}
(* A directory is "partial" without a python that works in it, "bare" with *)
(* one, and "whole" with the requirements.                                 *)
VenvState == {"none", "partial", "bare", "whole"}

VARIABLES
  host, lock, dirs,
  at,        \* where each start is
  venv,      \* the variable venv
  path,      \* the environments that it put in PATH, the latest first
  have,      \* have_lock
  data,      \* lock_data
  within,    \* the environment whose python runs, once there is one
  starts, kills, fails,
  calm       \* history: nothing happened that may leave an environment incomplete

files == <<host, lock, dirs>>
local == <<venv, path, have, data, within>>
hist  == <<starts, kills, fails, calm>>
vars  == <<files, at, local, hist>>

(* A checkout with or without a lock file.                                 *)
Init ==
  /\ host \in Hosts
  /\ lock \in {"none", "locked"}
  /\ dirs = [v \in Venvs |-> "none"]
  /\ at = [p \in Procs |-> "off"]
  /\ venv = [p \in Procs |-> "nolock"]
  /\ path = [p \in Procs |-> <<>>]
  /\ have = [p \in Procs |-> FALSE]
  /\ data = [p \in Procs |-> "none"]
  /\ within = [p \in Procs |-> "none"]
  /\ starts = 0 /\ kills = 0 /\ fails = 0 /\ calm = TRUE

(* "failed": a call failed; "raised": there was no python, or nothing to   *)
(* move; "broken": the imports at the top of the program failed.           *)
Resting(p) == at[p] \in {"off", "ran", "failed", "raised", "broken"}
Goto(p, l) == at' = [at EXCEPT ![p] = l]
HashOf(l)  == IF ~host.hash THEN "nolock" ELSE l      \* a slip: of no file as well
Hash(l)    == IF l = "none" \/ ~host.hash THEN "nolock" ELSE l

Works(v)  == dirs[v] \in {"bare", "whole"}
(* The python that PATH leads to: that of an environment, or of the host.  *)
Python(p) ==
  LET found == {k \in DOMAIN path[p] : Works(path[p][k])}
  IN  IF found # {} THEN path[p][Min(found)] ELSE IF host.python THEN "host" ELSE "none"

(* A call that may fail, with what it does when it does not.               *)
Fails(p, l) == /\ fails < MaxFails /\ fails' = fails + 1
               /\ Goto(p, l)
-----------------------------------------------------------------------------
Start(p) ==
  /\ Resting(p) /\ starts < MaxStarts
  /\ starts' = starts + 1
  /\ calm' = (calm /\ \A q \in Procs : Resting(q))
  /\ path' = [path EXCEPT ![p] = <<>>]
  /\ within' = [within EXCEPT ![p] = "none"]
  /\ have' = [have EXCEPT ![p] = FALSE] /\ data' = [data EXCEPT ![p] = "none"]
  /\ Goto(p, "hash")
  /\ UNCHANGED <<files, venv, kills, fails>>

NameIt(p) ==
  /\ at[p] = "hash"
  /\ venv' = [venv EXCEPT ![p] = Hash(lock)]
  /\ Goto(p, "exists")
  /\ UNCHANGED <<files, path, have, data, within, hist>>

PrependOnce(p, v) == [path EXCEPT ![p] = IF @ = <<>> THEN <<v>> ELSE @]  \* a slip
Prepend(p, v)     == [path EXCEPT ![p] = <<v>> \o @]
IsEvenNewer(p)    == lock = "locked"                                     \* a slip: made again
IsNew(p)          == dirs[venv[p]] = "none"

(* An environment that exists is used as it is.                            *)
Look(p) ==
  /\ at[p] = "exists"
  /\ IF IsNew(p) THEN Goto(p, "create") /\ UNCHANGED path
                 ELSE Goto(p, "exec") /\ path' = Prepend(p, venv[p])
  /\ UNCHANGED <<files, venv, have, data, within, hist>>

(* python3 -m venv makes the directory, and then what is in it.            *)
Create(p) ==
  /\ at[p] = "create"
  /\ dirs' = [dirs EXCEPT ![venv[p]] = IF @ = "none" THEN "partial" ELSE @]
  /\ Goto(p, "creating")
  /\ UNCHANGED <<host, lock, local, hist>>

Created(p) ==
  /\ at[p] = "creating"
  /\ \/ /\ dirs[venv[p]] # "none"
        /\ dirs' = [dirs EXCEPT ![venv[p]] = IF @ = "partial" THEN "bare" ELSE @]
        /\ path' = Prepend(p, venv[p])
        /\ Goto(p, "upgrade")
        /\ UNCHANGED fails
     \/ Fails(p, "abort") /\ UNCHANGED <<dirs, path>>
     \/ /\ dirs[venv[p]] = "none"     \* removed by another start
        /\ Goto(p, "abort") /\ UNCHANGED <<dirs, path, fails>>
  /\ UNCHANGED <<host, lock, venv, have, data, within, starts, kills, calm>>

(* pip is asked not to work outside a virtual environment.                 *)
Upgrade(p) ==
  /\ at[p] = "upgrade"
  /\ \/ Python(p) \in Venvs /\ Goto(p, "haveLock") /\ UNCHANGED fails
     \/ Python(p) \in Venvs /\ Fails(p, "abort")
     \/ Python(p) = "host" /\ Goto(p, "abort") /\ UNCHANGED fails
     \/ Python(p) = "none" /\ Goto(p, "raised") /\ UNCHANGED fails
  /\ UNCHANGED <<files, local, starts, kills, calm>>

(* abort(venv, ...) removes the environment.                               *)
Abort(p) ==
  /\ at[p] = "abort"
  /\ dirs' = [dirs EXCEPT ![venv[p]] = IF @ = "none" THEN @ ELSE "partial"]
  /\ Goto(p, "aborting")
  /\ UNCHANGED <<host, lock, local, hist>>
EmptiedOnly(p) == dirs                                                  \* a slip
Removed(p)     == [dirs EXCEPT ![venv[p]] = "none"]
Aborted(p) ==
  /\ at[p] = "aborting"
  /\ dirs' = Removed(p)
  /\ Goto(p, "failed")
  /\ UNCHANGED <<host, lock, local, hist>>

HaveLock(p) ==
  /\ at[p] = "haveLock"
  /\ have' = [have EXCEPT ![p] = lock # "none"]
  /\ Goto(p, "install")
  /\ UNCHANGED <<files, venv, path, data, within, hist>>

(* A mix of two lists may have all that the program needs, or not.         *)
Installed(p) ==
  IF have[p] => lock = "locked" THEN {"whole"}
  ELSE {dirs[Python(p)]} \cup (IF lock = "mixed" THEN {"whole"} ELSE {})

(* A failed installation calls abort with the message only: the message is *)
(* taken for the environment, and the environment stays.                   *)
Install(p) ==
  /\ at[p] = "install"
  /\ \/ /\ Python(p) \in Venvs
        /\ \E s \in Installed(p) : dirs' = [dirs EXCEPT ![Python(p)] = s]
        /\ Goto(p, IF have[p] THEN "exec" ELSE "freeze")
        /\ UNCHANGED <<fails, calm>>
     \/ Python(p) \in Venvs /\ Fails(p, "failed") /\ calm' = FALSE /\ UNCHANGED dirs
     \/ Python(p) = "host" /\ Goto(p, "failed") /\ calm' = FALSE /\ UNCHANGED <<dirs, fails>>
     \/ Python(p) = "none" /\ Goto(p, "raised") /\ UNCHANGED <<dirs, fails, calm>>
  /\ UNCHANGED <<host, lock, local, starts, kills>>

(* What pip freeze lists; nothing is a failure.                            *)
Freeze(p) ==
  /\ at[p] = "freeze"
  /\ \/ /\ Python(p) = "host" \/ (Python(p) \in Venvs /\ dirs[Python(p)] = "whole")
        /\ data' = [data EXCEPT ![p] = IF Python(p) = "host" THEN "system" ELSE "locked"]
        /\ Goto(p, "open")
        /\ UNCHANGED fails
     \/ Python(p) # "none" /\ Fails(p, "failed") /\ UNCHANGED data
     \/ /\ Python(p) \in Venvs /\ dirs[Python(p)] = "bare"
        /\ Goto(p, "failed") /\ UNCHANGED <<data, fails>>
     \/ Python(p) = "none" /\ Goto(p, "raised") /\ UNCHANGED <<data, fails>>
  /\ UNCHANGED <<files, venv, path, have, within, starts, kills, calm>>

OpenLock(p) ==
  /\ at[p] = "open"
  /\ lock' = "empty"
  /\ Goto(p, "write")
  /\ UNCHANGED <<host, dirs, local, hist>>

(* The list gets to the beginning of the file when it is closed.  Where    *)
(* another start has written a longer one in between, its rest stays.      *)
Overlaid(old, new) == IF old \in {"none", "empty", new} THEN {new} ELSE {new, "mixed"}
WriteLock(p) ==
  /\ at[p] = "write"
  /\ lock' \in Overlaid(lock, data[p])
  /\ Goto(p, "move")
  /\ UNCHANGED <<host, dirs, local, hist>>

(* A directory that has the name already takes the environment in.         *)
Moved(v, w) ==
  IF v = w THEN dirs
  ELSE [dirs EXCEPT ![v] = "none", ![w] = IF @ = "none" THEN dirs[v] ELSE @]
NotRenamed(p, v) == path                                                 \* a slip
Renamed(p, v)    == [path EXCEPT ![p] = <<v>> \o Tail(@)]
Move(p) ==
  /\ at[p] = "move"
  /\ LET venv2 == Hash(lock) IN
       IF dirs[venv[p]] = "none"
       THEN Goto(p, "raised") /\ UNCHANGED <<dirs, path>>
       ELSE /\ dirs' = Moved(venv[p], venv2)
            /\ path' = Renamed(p, venv2)
            /\ Goto(p, "exec")
  /\ UNCHANGED <<host, lock, venv, have, data, within, hist>>

(* The program is started anew by the python that is found.  When that is  *)
(* the host's, it begins again, with a longer PATH; in the end that is too *)
(* long for the system.                                                    *)
Exec(p) ==
  /\ at[p] = "exec"
  /\ \/ /\ Python(p) \in Venvs
        /\ within' = [within EXCEPT ![p] = Python(p)]
        /\ Goto(p, "import")
     \/ /\ Python(p) = "host"
        /\ Goto(p, IF Len(path[p]) < MaxPath THEN "hash" ELSE "raised")
        /\ UNCHANGED within
     \/ Python(p) = "none" /\ Goto(p, "raised") /\ UNCHANGED within
  /\ UNCHANGED <<files, venv, path, have, data, hist>>

Import(p) ==
  /\ at[p] = "import"
  /\ Goto(p, IF dirs[within[p]] = "whole" THEN "ran" ELSE "broken")
  /\ UNCHANGED <<files, local, hist>>

Kill(p) ==
  /\ ~Resting(p) /\ kills < MaxKills
  /\ kills' = kills + 1
  /\ calm' = FALSE
  /\ Goto(p, "off")
  /\ UNCHANGED <<files, local, starts, fails>>

Step(p) ==
  \/ NameIt(p) \/ Look(p) \/ Create(p) \/ Created(p) \/ Upgrade(p) \/ Abort(p) \/ Aborted(p)
  \/ HaveLock(p) \/ Install(p) \/ Freeze(p) \/ OpenLock(p) \/ WriteLock(p) \/ Move(p)
  \/ Exec(p) \/ Import(p)
Next == \E p \in Procs : Start(p) \/ Step(p) \/ Kill(p)

Spec     == Init /\ [][Next]_vars
(* A start that is not killed goes on.                                     *)
FairSpec == Spec /\ \A p \in Procs : WF_vars(Step(p))
-----------------------------------------------------------------------------
TypeOK ==
  /\ host \in Hosts /\ lock \in Locks /\ dirs \in [Venvs -> VenvState]
  /\ at \in [Procs -> {"off", "ran", "failed", "raised", "broken", "hash", "exists", "create",
                       "creating", "upgrade", "abort", "aborting", "haveLock", "install", "freeze",
                       "open", "write", "move", "exec", "import"}]
  /\ venv \in [Procs -> Venvs] /\ path \in [Procs -> Seq(Venvs)] /\ have \in [Procs -> BOOLEAN]
  /\ data \in [Procs -> Locks] /\ within \in [Procs -> Venvs \cup {"none"}]
  /\ starts \in 0 .. MaxStarts /\ kills \in 0 .. MaxKills /\ fails \in 0 .. MaxFails
  /\ calm \in BOOLEAN

(* "new = not exists(venv)": an environment that exists and that nobody    *)
(* prepares is complete.  This holds of starts one after the other that    *)
(* are not killed and whose installation does not fail; that an            *)
(* environment cannot be created, or pip not be renewed, does no harm.     *)
VenvsAreWhole ==
  calm /\ (\A p \in Procs : Resting(p)) =>
    /\ \A v \in Venvs : dirs[v] \in {"none", "whole"}
    /\ lock # "empty"

(* "Now we are running in the virtual environment": then a start runs the  *)
(* program or says what failed, and the next one may try again.            *)
StartsRun == calm => \A p \in Procs : at[p] \notin {"raised", "broken"}

(* Once the lock and its environment are there and every start goes there, *)
(* no start changes them, whatever else is started or killed.              *)
GoesThere(p) ==
  \/ Resting(p) \/ at[p] = "hash"
  \/ at[p] \in {"exists", "exec"} /\ venv[p] = Hash(lock)
  \/ at[p] = "import" /\ within[p] = Hash(lock)
Settled ==
  /\ lock = "locked" /\ dirs[Hash(lock)] = "whole"
  /\ \A p \in Procs : GoesThere(p)
StaysSettled == [][Settled => Settled']_vars

(* Every start comes to an end, with an environment that is never          *)
(* completed as well.                                                      *)
StartsEnd == \A p \in Procs : ~Resting(p) ~> Resting(p)

(* Inductive.  From its creation on the environment is the first in PATH,  *)
(* until it has another name; a lock file is only written by a start that  *)
(* saw none, so that its environment was "nolock".                         *)
Locking    == {"freeze", "open", "write", "move"}
Installing == {"upgrade", "haveLock", "install"} \cup Locking
InPath(p) ==
  /\ at[p] \in Installing \cup {"exec"} => path[p] # <<>>
  /\ at[p] \in Installing => path[p][1] = venv[p]
  /\ at[p] = "exec" => path[p][1] = venv[p] \/ (venv[p] = "nolock" /\ host.hash)
NoLockSeen(p) ==
  /\ lock = "none" => venv[p] = "nolock"
  /\ at[p] \in Locking \/ (at[p] = "install" /\ ~have[p]) => venv[p] = "nolock"
  /\ at[p] \in {"open", "write"} => data[p] # "none"
StartInv == TypeOK /\ \A p \in Procs : InPath(p) /\ NoLockSeen(p)

(* Inductive with it, as long as all is calm: one start at a time, and     *)
(* what it has made of its environment at each point.                      *)
Tidy(v) == dirs[v] \in {"none", "whole"}
Quiet   == (\A v \in Venvs : Tidy(v)) /\ lock \in {"none", "locked"}
Made(p) ==
  /\ \A v \in Venvs \ {venv[p]} : Tidy(v)
  /\ IF at[p] = "write" THEN lock = "empty" ELSE lock \in {"none", "locked"}
  /\ at[p] = "create" => dirs[venv[p]] = "none"
  /\ at[p] = "creating" => dirs[venv[p]] = "partial"
  /\ at[p] \in {"upgrade", "haveLock", "install"} => dirs[venv[p]] = "bare"
  /\ at[p] = "install" /\ have[p] => lock = "locked"
  /\ at[p] \in Locking => dirs[venv[p]] = "whole"
  /\ at[p] \in {"open", "write"} => data[p] = "locked"
  /\ at[p] \in {"hash", "exists", "exec", "import"} => Quiet
  /\ at[p] = "exec" => dirs[path[p][1]] = "whole"
  /\ at[p] = "import" => dirs[within[p]] = "whole"
OneAtATime == \A p, q \in Procs : ~Resting(p) /\ ~Resting(q) => p = q
CalmInv ==
  calm =>
    /\ OneAtATime
    /\ (\A p \in Procs : Resting(p)) => Quiet
    /\ \A p \in Procs : at[p] \notin {"raised", "broken"}
    /\ \A p \in Procs : ~Resting(p) => Made(p)
=============================================================================
