----------------------------- MODULE MCEachLine -----------------------------
(***************************************************************************)
(* An instance of EachLine for TLC: blocks of three bytes, lines of two    *)
(* and of four, files of up to three blocks with newlines anywhere, and    *)
(* sizes that fit them and that do not.                                    *)
(***************************************************************************)
EXTENDS EachLine

MCCalls == UNION {
  [size : 0 .. 10, blks : {n}, ends : BOOLEAN, newlines : SUBSET (0 .. 3 * n - 1),
   nl : {TRUE}, line_size : {2, 4}]
  \cup [size : 0 .. 10, blks : {n}, ends : BOOLEAN, newlines : {{}},
        nl : {FALSE}, line_size : {2, 4}] : n \in 0 .. 3}
=============================================================================
