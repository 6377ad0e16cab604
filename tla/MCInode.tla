------------------------------ MODULE MCInode ------------------------------
(***************************************************************************)
(* Inode on two disks of five inodes.  On the first are the directories /a *)
(* (inode 2) and /a/b (3), the file /b (4) and a free inode.  On the second*)
(* the processes are in the directory 3, which was removed before its      *)
(* parent 2; the file is /a, and the inodes 2 and 5 are free.              *)
(***************************************************************************)
EXTENDS Inode, TLC

Root == [Empty EXCEPT !["."] = 1, ![".."] = 1, !["b"] = 4]
Removed3 == [Empty EXCEPT !["."] = 3, ![".."] = 2]

Whole == [
  type |-> <<"dir", "dir", "dir", "file", "free">>,
  nlink |-> <<2, 2, 1, 1, 0>>,
  dir |-> <<[Root EXCEPT !["a"] = 2],
            [Empty EXCEPT !["."] = 2, ![".."] = 1, !["b"] = 3],
            Removed3, Empty, Empty>>]

Stale == [
  type |-> <<"dir", "free", "dir", "file", "free">>,
  nlink |-> <<1, 0, 0, 1, 0>>,
  dir |-> <<[Empty EXCEPT !["."] = 1, ![".."] = 1, !["a"] = 4],
            Empty, Removed3, Empty, Empty>>]

MCTrees == {Whole, Stale}

Symmetry == Permutations(Procs)

MCPaths ==
  {[abs |-> TRUE, names |-> <<"a">>],
   [abs |-> TRUE, names |-> <<"a", "b">>],
   [abs |-> FALSE, names |-> <<"b">>],
   [abs |-> TRUE, names |-> <<"a", "b", "..">>],
   [abs |-> FALSE, names |-> <<"..">>]}
=============================================================================
