----------------------------- MODULE AtomicDisk -----------------------------
(***************************************************************************)
(* What the xv6 log promises file-system calls: the disk a restart finds   *)
(* only ever changes as a whole, at a moment when no call is between its   *)
(* begin_op and its end_op, and then to exactly what those calls wrote.    *)
(***************************************************************************)
CONSTANTS Procs, Blocks, Values

VARIABLES
  durable,   \* the disk that a crash and a recovery would leave
  current,   \* the disk as running calls see it
  active     \* processes inside a file-system call

vars == <<durable, current, active>>

Init ==
  /\ durable \in [Blocks -> Values]
  /\ current = durable
  /\ active = {}

Begin(p) ==
  /\ p \notin active
  /\ active' = active \cup {p}
  /\ UNCHANGED <<durable, current>>

Write(p, b, v) ==
  /\ p \in active
  /\ current' = [current EXCEPT ![b] = v]
  /\ UNCHANGED <<durable, active>>

End(p) ==
  /\ p \in active
  /\ active' = active \ {p}
  /\ UNCHANGED <<durable, current>>

Commit ==
  /\ active = {}
  /\ durable' = current
  /\ UNCHANGED <<current, active>>

Crash ==
  /\ current' = durable
  /\ active' = {}
  /\ UNCHANGED durable

Next ==
  \/ \E p \in Procs :
       \/ Begin(p)
       \/ \E b \in Blocks, v \in Values : Write(p, b, v)
       \/ End(p)
  \/ Commit
  \/ Crash

Spec == Init /\ [][Next]_vars
=============================================================================
