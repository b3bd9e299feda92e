------------------------------ MODULE MCAnalyze ------------------------------
(***************************************************************************)
(* An instance of Analyze for TLC: two groups of eight blocks in all, with *)
(* metadata of three blocks and of two; the second group is cut short.     *)
(***************************************************************************)
EXTENDS Analyze, TLC

MCHeads == 0 :> 3 @@ 1 :> 2
(* One directory in use at most: the run ends at the first.  Block 6 is    *)
(* metadata, and may look like a directory all the same.                   *)
MCImages ==
  {m \in [0 .. 7 -> {"plain", "deleted", "dir"}] :
     /\ \A b \in {0, 1, 2, 5} : m[b] = "plain"
     /\ Cardinality({b \in 0 .. 7 : m[b] = "dir"}) <= 1}
=============================================================================
