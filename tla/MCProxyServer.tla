--------------------------- MODULE MCProxyServer ---------------------------
(* Small instances of ProxyServer. *)
EXTENDS ProxyServer, TLC

(* Two priorities, a delay, a GetJob and a path that is neither. *)
MCRequests ==
  {[kind |-> "work", priority |-> 1, delay |-> 0],
   [kind |-> "work", priority |-> 2, delay |-> 1],
   [kind |-> "getjob", priority |-> 0, delay |-> 0],
   [kind |-> "unknown", priority |-> 0, delay |-> 0]}

ThreadSymmetry == Permutations(Listeners) \cup Permutations(Workers)
                    \cup Permutations(Fds)
=============================================================================
