--------------------------------- MODULE MCGrep ---------------------------------
(***************************************************************************)
(* An instance of Grep, and of Analyze with it, for TLC: two groups of six *)
(* blocks in all, with metadata of two blocks and of one; the second group *)
(* is cut short; the bits are two bytes of three.                          *)
(***************************************************************************)
EXTENDS Grep, TLC

MCHeads == 0 :> 2 @@ 1 :> 1
(* Block 4 is metadata, and may look like a directory all the same.  The   *)
(* second image has a directory in use, where the run ends.                *)
MCImage(used) == [b \in 0 .. 5 |-> IF b \in used THEN "dir" ELSE IF b \in {2, 4} THEN "deleted" ELSE "plain"]
MCImages == {MCImage({}), MCImage({3}), MCImage({5})}
=============================================================================
