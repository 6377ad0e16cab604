------------------------------ MODULE Channel ------------------------------
(***************************************************************************)
(* What a pipe promises: a bounded queue of bytes with two ends.  Bytes    *)
(* come out in the order they went in, none twice and none lost while the  *)
(* reading end is open, and the end of file is seen only behind the last   *)
(* byte of the last writer.                                                *)
(***************************************************************************)
EXTENDS Integers, Sequences

CONSTANTS Byte, Capacity

VARIABLES
  queue, \* bytes written and not read
  ends,  \* the ends that are open: a subset of {"r", "w"}
  got    \* what the last read returned

Init == queue = <<>> /\ ends = {"r", "w"} /\ got = <<>>

Send == \E s \in UNION {[1 .. k -> Byte] : k \in 1 .. Capacity - Len(queue)} :
  /\ "w" \in ends
  /\ queue' = queue \o s
  /\ UNCHANGED <<ends, got>>

(* A read that returns nothing is the end of the file. *)
Receive == \E k \in 0 .. Len(queue) :
  /\ "r" \in ends
  /\ k = 0 => queue = <<>> /\ "w" \notin ends
  /\ got' = SubSeq(queue, 1, k)
  /\ queue' = SubSeq(queue, k + 1, Len(queue))
  /\ UNCHANGED ends

Close == \E e \in ends :
  /\ ends' = ends \ {e}
  /\ UNCHANGED <<queue, got>>

Next == Send \/ Receive \/ Close

Spec == Init /\ [][Next]_<<queue, ends, got>>
=============================================================================
