--------------------------- MODULE RequestService ---------------------------
(***************************************************************************)
(* What the proxy server promises its clients, without threads, locks or   *)
(* descriptors: admitted requests are pending in arrival order, never more *)
(* than MaxQueueSize of them; whoever takes a request takes the oldest of  *)
(* those with the greatest priority; every connection is answered at most  *)
(* once, and one that was taken for service is answered by its server      *)
(* alone, or hung up on: a member of Outcomes may stand for no answer.     *)
(***************************************************************************)
EXTENDS SafeQueue

CONSTANTS Conns, MaxQueueSize, Refusals, Outcomes

VARIABLES
  pending,    \* admitted requests, oldest first
  serving,    \* connections a worker is serving
  answered    \* answered[c]: how connection c was dealt with, or "none"

vars == <<pending, serving, answered>>

PendingConns == {pending[i].conn : i \in DOMAIN pending}

Init ==
  /\ pending = << >>
  /\ serving = {}
  /\ answered = [c \in Conns |-> "none"]

(* A request is admitted while there is room. *)
Admit ==
  /\ Len(pending) < MaxQueueSize
  /\ Len(pending') = Len(pending) + 1
  /\ \A i \in DOMAIN pending : pending'[i] = pending[i]
  /\ LET c == pending'[Len(pending) + 1].conn
     IN  c \in Conns \ (PendingConns \cup serving) /\ answered[c] = "none"
  /\ UNCHANGED <<serving, answered>>

(* A connection that is neither pending nor being served is refused. *)
Refuse(c, s) ==
  /\ c \notin PendingConns \cup serving
  /\ answered[c] = "none"
  /\ answered' = [answered EXCEPT ![c] = s]
  /\ UNCHANGED <<pending, serving>>

(* The oldest of the most urgent requests leaves: to a worker ... *)
Start(i) ==
  /\ IsHighest(pending, i)
  /\ pending' = Without(pending, i)
  /\ serving' = serving \cup {pending[i].conn}
  /\ UNCHANGED answered

(* ... or to the client of a GetJob request. *)
HandOut(i) ==
  /\ IsHighest(pending, i)
  /\ pending' = Without(pending, i)
  /\ UNCHANGED <<serving, answered>>

Finish(c, s) ==
  /\ c \in serving
  /\ answered[c] = "none"
  /\ answered' = [answered EXCEPT ![c] = s]
  /\ serving' = serving \ {c}
  /\ UNCHANGED pending

Next ==
  \/ Admit
  \/ \E c \in Conns, s \in Refusals : Refuse(c, s)
  \/ \E i \in DOMAIN pending : Start(i) \/ HandOut(i)
  \/ \E c \in Conns, s \in Outcomes : Finish(c, s)

Spec == Init /\ [][Next]_vars
=============================================================================
