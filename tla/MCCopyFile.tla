------------------------------ MODULE MCCopyFile ------------------------------
(***************************************************************************)
(* Instances of CopyFile for TLC: blocks of two bytes, a save after every  *)
(* second block, files of up to six blocks whose last one may be partly    *)
(* used and whose indirect block is counted.  Numbers are written to the   *)
(* base of three: 2 over 11 makes 21, as 8 over 16 makes 86.               *)
(***************************************************************************)
EXTENDS CopyFile, TLC

CONSTANTS p1, p2, d1, d2

Radix == 3
Str[n \in 0 .. Radix * Radix - 1] ==
  IF n < Radix THEN <<n>> ELSE Append(Str[n \div Radix], n % Radix)

Dense(n) == [k \in 1 .. n |-> 10 + k]

(* What each_block makes of a file without holes.                          *)
DenseFiles ==
  {[slots |-> Dense(n), size |-> 2 * n - odd, count |-> n + 1,
    yields |-> Dense(n)] : n \in {1, 2, 4, 6}, odd \in {0, 1}}

(* ... and of one that fills its direct, its single and its double         *)
(* indirect blocks (one pointer each): the bound lets each_block go on     *)
(* into block 0, three blocks far.                                         *)
SurplusFiles ==
  {[slots |-> Dense(3), size |-> 6, count |-> 6, yields |-> Dense(3) \o <<3, 5, 6>>]}

DenseAndSurplus == DenseFiles \cup SurplusFiles
=============================================================================
