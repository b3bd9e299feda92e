-------------------------------- MODULE MCEdits --------------------------------
(***************************************************************************)
(* Edits for TLC: an inode with one pointer, and a word of another in      *)
(* front of it; two directories, of two entries and of one.                *)
(***************************************************************************)
EXTENDS Edits, TLC

MCImage   == [c \in 0 .. 4 |-> IF c \in {1, 3} THEN 1 ELSE 0]
MCBlockEdits == {<<1, 0, 2>>, <<1, -1, 2>>, <<1, 1, 2>>}
MCEntryEdits == {<<2, 1>>, <<3, 0>>}
MCEntries == "a" :> <<2, 3>> @@ "b" :> <<4>>
MCHits    == "isearch" :> (2 .. 4) \X {1}
Symmetry  == Permutations(Procs)
=============================================================================
