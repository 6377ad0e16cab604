------------------------------ MODULE MCBcache ------------------------------
(* Bcache with interchangeable blocks, contents and hands of one process;  *)
(* the buffers are told apart by their places in the list.                 *)
EXTENDS Bcache, TLC

SwapHands == {f \in Permutations(Hands) : \A P \in Processes : {f[p] : p \in P} \in Processes}

Symmetry == SwapHands \cup Permutations(Blocks) \cup Permutations(Data)
=============================================================================
