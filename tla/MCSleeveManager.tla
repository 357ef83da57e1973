-------------------------- MODULE MCSleeveManager --------------------------
(***************************************************************************)
(* SleeveManager on small instances: a pool of one name, one time stamp    *)
(* name, and what a client may ask for by name.                            *)
(***************************************************************************)
EXTENDS SleeveManager

CONSTANTS quell, stamp

MCPool == <<quell>>

=============================================================================
