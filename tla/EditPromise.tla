------------------------------ MODULE EditPromise ------------------------------
(***************************************************************************)
(* What the commands that edit the image promise to the one who uses them: *)
(* a word changes by an edit only, and an edit that was made stays, unless *)
(* it was not saved yet.                                                   *)
(***************************************************************************)
CONSTANTS Cells, Vals

VARIABLES
  content,   \* the words as edited
  kept       \* the words that were saved

vars == <<content, kept>>

Init == content \in [Cells -> Vals] /\ kept = content

(* What was edited before may be saved by the way.                         *)
Edit == /\ \E c \in Cells, v \in Vals : content' = [content EXCEPT ![c] = v]
        /\ kept' \in {kept, content}
Save == kept' = content /\ UNCHANGED content
Lose == content' = kept /\ UNCHANGED kept
=============================================================================
