------------------------------- MODULE MCWfs -------------------------------
(* Small instances of Wfs. *)
EXTENDS Wfs

(* Every name is used in one directory only. *)
DistinctNames ==
  { << >>, <<"a">>, <<"d">>, <<"d", "b">>, <<"d", "e">>, <<"d", "e", "c">> }

(* The name a is used in two directories. *)
SharedName == { << >>, <<"a">>, <<"d">>, <<"d", "a">> }

(* Two names in the root. *)
TwoNames == { << >>, <<"a">>, <<"b">> }

(* A disk that does not fill up, with one fsck; and one that does. *)
Roomy == [size |-> 1000, calls |-> 5, fscks |-> 1]
Tight == [size |-> 120, calls |-> 7, fscks |-> 0]
BothDisks == {Roomy, Tight}
OneDisk == {Roomy}
SmallDisk == {[size |-> 80, calls |-> 8, fscks |-> 2]}
=============================================================================
