----------------------------- MODULE CopyPromise -----------------------------
(***************************************************************************)
(* What "copy a file to some external destination" promises (cp, in        *)
(* pyutil/main.py), however often it is interrupted and run again: the     *)
(* blocks of the file reach their places, none is ever lost again, and a   *)
(* copy is reported as finished only when all of them are there.           *)
(***************************************************************************)
VARIABLES
  blocks,    \* the blocks of the file, by position
  copied,    \* those that are whole and in place at the destination
  reported   \* cp has returned without an error

vars == <<blocks, copied, reported>>

Init == copied = {} /\ reported = FALSE

Copy ==
  /\ copied' \in SUBSET blocks
  /\ copied \subseteq copied'
  /\ UNCHANGED <<blocks, reported>>

Report ==
  /\ copied = blocks
  /\ reported' = TRUE
  /\ UNCHANGED <<blocks, copied>>

Next == Copy \/ Report

Spec == Init /\ [][Next]_vars
=============================================================================
