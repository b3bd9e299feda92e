------------------------------- MODULE MCShell -------------------------------
(***************************************************************************)
(* An instance of Shell for TLC: two processes on images of five inodes,   *)
(* a sound one whose users go to directories only, one with a directory    *)
(* that is not named in UTF-8, and others where they go to files and       *)
(* nowhere, with cycles and damage.                                        *)
(***************************************************************************)
EXTENDS Shell, TLC

(* x stands for bytes that are not UTF-8.                                  *)
MCNames == {"", ".", "..", "a", "b", "B", "f", "3", "5", "9", "x", "b'x'"}
MCShown == [n \in MCNames |-> IF n = "x" THEN "b'x'" ELSE n]
MCLower == [n \in MCNames |-> IF n = "B" THEN "b" ELSE n]
MCNumber == [n \in MCNames |->
  CASE n = "3" -> 3 [] n = "5" -> 5 [] n = "9" -> 9 [] n = "" -> 2 [] OTHER -> NotANumber]

E(name, inode) == [name |-> name, inode |-> inode]
Good(es)  == [bad |-> FALSE, found |-> es, iterated |-> es]
Bad(es, is) == [bad |-> TRUE, found |-> es, iterated |-> is]
Dir(blks) == [isdir |-> TRUE, bad |-> FALSE, blks |-> blks, raises |-> FALSE]
File(blks) == [Dir(blks) EXCEPT !.isdir = FALSE]

(* /a is 3, /a/B is 5, /f is 4; /a/B/a was deleted; x is a file, too.      *)
Tree == <<
  File(<< >>),
  Dir(<<Good(<<E(".", 2), E("..", 2), E("a", 3)>>), Good(<<E("", 0), E("f", 4), E("x", 4)>>)>>),
  Dir(<<Good(<<E(".", 3), E("..", 2), E("B", 5)>>)>>),
  File(<<Bad(<< >>, << >>)>>),
  Dir(<<Good(<<E(".", 5), E("..", 3), E("a", 0)>>)>>)>>

(* An inode that lost its mode: its directory is taken for a file, which   *)
(* contains itself.                                                        *)
Lost == [Tree EXCEPT ![4] = File(<<Good(<<E(".", 4), E("..", 2), E("f", 4), E("3", 0)>>)>>)]

(* ".." of 3 and 5 are each other.                                         *)
Cycle == [Tree EXCEPT ![3] = Dir(<<Good(<<E(".", 3), E("..", 5), E("B", 5)>>)>>)]

Damaged == [Tree EXCEPT
  ![2] = [Dir(<<Good(<<E(".", 2), E("..", 2), E("a", 3)>>), Bad(<<E("f", 4)>>, <<E("f", 9)>>)>>)
            EXCEPT !.raises = TRUE],
  ![4] = [File(<< >>) EXCEPT !.bad = TRUE],
  ![5] = Dir(<<Good(<<E("..", 2)>>)>>)]

Doubled == [Tree EXCEPT
  ![3] = Dir(<<Good(<<E(".", 3), E("..", 2), E("b", 0), E("B", 5), E("f", 4)>>)>>)]

(* 5 is /a/x, and /a has a file whose name is what the prompt shows of x.  *)
Illegible == [Tree EXCEPT
  ![3] = Dir(<<Good(<<E(".", 3), E("..", 2), E("b'x'", 4), E("x", 5)>>)>>)]

MCImages ==
  [tree    |-> [inodes |-> Tree, words |-> {"a", "b", "..", "3", ""}],
   lost    |-> [inodes |-> Lost, words |-> {"a", "f", "3"}],
   cycle   |-> [inodes |-> Cycle, words |-> {"a", "b", ".."}],
   damaged |-> [inodes |-> Damaged, words |-> {"a", "b", "f", "3"}],
   illegible |-> [inodes |-> Illegible, words |-> {"a", "5"}],
   doubled |-> [inodes |-> Doubled, words |-> {"b", "f", "9", ""}]]

MCLsArgs ==
  {[root |-> 2, parent |-> NoParent, depth |-> 2, keep_going |-> TRUE],
   [root |-> 0, parent |-> 2, depth |-> 0, keep_going |-> FALSE]}
=============================================================================
