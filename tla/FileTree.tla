------------------------------ MODULE FileTree ------------------------------
(***************************************************************************)
(* The file system that WFS presents, without a log: a tree of directories *)
(* and files.  A call changes the one path it names or, when the disk is   *)
(* full, nothing; fsck is invisible.                                       *)
(***************************************************************************)
EXTENDS Naturals, Sequences

CONSTANTS Paths, Offsets, Bytes

VARIABLE tree   \* tree[p]: what path p names

Absent == [kind |-> "absent", data |-> << >>]
Dir == [kind |-> "dir", data |-> << >>]
File(d) == [kind |-> "file", data |-> d]

Parent(p) == SubSeq(p, 1, Len(p) - 1)
Root == << >>

(* Overwriting at offset o, with zeros between the old end and o. *)
WriteAt(d, o, v) ==
  [i \in 1 .. (IF Len(d) > o THEN Len(d) ELSE o + 1) |->
     IF i = o + 1 THEN v ELSE IF i <= Len(d) THEN d[i] ELSE 0]

Init == tree = [p \in Paths |-> IF p = Root THEN Dir ELSE Absent]

Create(p, node) ==
  /\ tree[p] = Absent
  /\ tree[Parent(p)] = Dir
  /\ tree' = [tree EXCEPT ![p] = node]

Write(p, o, v) ==
  /\ tree[p].kind = "file"
  /\ tree' = [tree EXCEPT ![p].data = WriteAt(@, o, v)]

Unlink(p) ==
  /\ tree[p].kind = "file"
  /\ tree' = [tree EXCEPT ![p] = Absent]

Next ==
  \E p \in Paths \ {Root} :
    \/ Create(p, File(<< >>))
    \/ Create(p, Dir)
    \/ \E o \in Offsets, v \in Bytes : Write(p, o, v)
    \/ Unlink(p)

Spec == Init /\ [][Next]_tree
=============================================================================
