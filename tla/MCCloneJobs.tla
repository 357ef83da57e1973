---------------------------- MODULE MCCloneJobs ----------------------------
(***************************************************************************)
(* CloneJobs on small instances: a path, and where Dirs has two, one       *)
(* inside the other.                                                       *)
(***************************************************************************)
EXTENDS CloneJobs

CONSTANTS outer, inner

MCUnder == [d \in Dirs |-> IF d = outer THEN Dirs \ {outer} ELSE {}]

=============================================================================
