--------------------------- MODULE NameLifecycle ---------------------------
(***************************************************************************)
(* What the sleeve manager promises about names, with no goroutines, maps  *)
(* or daemon: a name that is free is given to one Spawn, becomes the name  *)
(* of a live sleeve or is free again, and a live sleeve's name is free     *)
(* again once a Kill has closed it.  It is handed out from "free" only.    *)
(*                                                                         *)
(* Two Kills of one sleeve can leave a name contested: nothing is promised *)
(* about it until the process restarts.  A restart forgets every name and  *)
(* then takes the names of the containers that are left as live.           *)
(***************************************************************************)
CONSTANT Names

VARIABLES serving, phase

Phases == {"free", "pending", "live", "closing", "contested"}

Init ==
  /\ serving = TRUE
  /\ phase = [n \in Names |-> "free"]

Move(n, from, to) ==
  /\ serving
  /\ phase[n] = from
  /\ phase' = [phase EXCEPT ![n] = to]
  /\ UNCHANGED serving

HandOut(n) == Move(n, "free", "pending")
GiveUp(n) == Move(n, "pending", "free")
Register(n) == Move(n, "pending", "live")
Close(n) == Move(n, "live", "closing")
Free(n) == Move(n, "closing", "free")
Contest(n) == Move(n, "live", "contested")

Forget ==
  /\ serving
  /\ serving' = FALSE
  /\ phase' = [n \in Names |-> "free"]

Adopt ==
  /\ ~ serving
  /\ serving' = TRUE
  /\ \E left \in SUBSET Names :
       phase' = [n \in Names |-> IF n \in left THEN "live" ELSE "free"]

Next ==
  \/ \E n \in Names : \/ HandOut(n) \/ GiveUp(n) \/ Register(n)
                      \/ Close(n) \/ Free(n) \/ Contest(n)
  \/ Forget
  \/ Adopt

Spec == Init /\ [][Next]_<<serving, phase>>

=============================================================================
