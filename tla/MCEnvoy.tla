------------------------------ MODULE MCEnvoy ------------------------------
(***************************************************************************)
(* Envoy on small instances: as in MCSleeveManager, with a few clones,     *)
(* Creates and branch operations, and where there are two workspaces, one  *)
(* inside the other.                                                       *)
(***************************************************************************)
EXTENDS Envoy, TLC

CONSTANTS quell, stamp, outer, inner

MCPool == <<quell>>
MCUnder == [w \in Workspaces |-> IF w = outer THEN Workspaces \ {outer} ELSE {}]

\* Goroutines and jobs are interchangeable.
Symmetry == Permutations(Threads) \cup Permutations(JobIds)

=============================================================================
