-------------------------- MODULE MCSandboxManager --------------------------
(***************************************************************************)
(* Instances of SandboxManager for TLC.                                    *)
(***************************************************************************)
EXTENDS SandboxManager, TLC

CONSTANTS p1, p2, p3, w1, w2

\* One request.
RunsAlone == p1 :> w1

\* Two requests, each in a worker of its own.
RunsApart == (p1 :> w1) @@ (p2 :> w2)

\* Two requests in one worker.
RunsTogether == (p1 :> w1) @@ (p2 :> w1)

\* Three requests, of which two share a worker.
RunsMixed == (p1 :> w1) @@ (p2 :> w1) @@ (p3 :> w2)

PodSymmetry == Permutations(Pods)
SessionSymmetry == Permutations(Pods) \cup Permutations(Sessions)
=============================================================================
