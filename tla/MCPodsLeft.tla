----------------------------- MODULE MCPodsLeft -----------------------------
(***************************************************************************)
(* An instance of PodsLeft for TLC: two requests in one worker.            *)
(***************************************************************************)
EXTENDS PodsLeft, TLC

CONSTANTS p1, p2, w1

RunsTogether == (p1 :> w1) @@ (p2 :> w1)

PodSymmetry == Permutations(Pods) \cup Permutations(Sessions)
=============================================================================
