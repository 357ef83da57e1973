----------------------------- MODULE JobService -----------------------------
(***************************************************************************)
(* What a client of clone jobs may count on, with no goroutines, locks or  *)
(* directories: a job that was registered is known until it has ended,     *)
(* ends once, and never changes its outcome; a poll of a known job is      *)
(* answered with the status it had at some time since it was asked, or     *)
(* with something that is no status while the job ends, or not at all.  A  *)
(* restart forgets every job, and those under way are lost for good.       *)
(***************************************************************************)
CONSTANTS JobIds, Pollers

VARIABLES
  status,   \* status[j]: how far job j is, known or not
  known,    \* the jobs that can be looked up
  poll      \* poll[p]: the job p has asked about, and the status it was told

Outcomes == {"completed", "failed"}
Statuses == {"none", "cloning", "lost"} \cup Outcomes

\* "garbled" is no status: one read while it is written.
NoPoll == [seen |-> "none"]
Asked == [id : JobIds, seen : {"unread", "cloning", "garbled"} \cup Outcomes]

Init ==
  /\ status = [j \in JobIds |-> "none"]
  /\ known = {}
  /\ poll = [p \in Pollers |-> NoPoll]

Register(j) ==
  /\ status[j] = "none"
  /\ status' = [status EXCEPT ![j] = "cloning"]
  /\ known' = known \cup {j}
  /\ UNCHANGED poll

End(j) ==
  /\ status[j] = "cloning"
  /\ \E outcome \in Outcomes : status' = [status EXCEPT ![j] = outcome]
  /\ UNCHANGED <<known, poll>>

Forget(expired) ==
  /\ \A j \in expired : status[j] \in Outcomes
  /\ known' = known \ expired
  /\ UNCHANGED <<status, poll>>

\* Mutant: a job that is not there is answered for.
AskUnchecked(p, j) ==
  /\ poll[p].seen # "unread"
  /\ poll' = [poll EXCEPT ![p] = [id |-> j, seen |-> "unread"]]
  /\ UNCHANGED <<status, known>>

Ask(p, j) ==
  /\ poll[p].seen # "unread"
  /\ j \in known
  /\ poll' = [poll EXCEPT ![p] = [id |-> j, seen |-> "unread"]]
  /\ UNCHANGED <<status, known>>

Read(p) ==
  /\ poll[p].seen = "unread"
  /\ \E seen \in {status[poll[p].id], "garbled"} :
       /\ seen = "garbled" => status[poll[p].id] = "cloning"
       /\ poll' = [poll EXCEPT ![p].seen = seen]
  /\ UNCHANGED <<status, known>>

Break(p) ==
  /\ poll' = [poll EXCEPT ![p] = NoPoll]
  /\ UNCHANGED <<status, known>>

Restart ==
  /\ \E lost \in SUBSET {j \in JobIds : status[j] # "completed"} :
       /\ \A j \in JobIds : status[j] = "cloning" => j \in lost
       /\ status' = [j \in JobIds |-> IF j \in lost THEN "lost" ELSE status[j]]
  /\ known' = {}
  /\ poll' = [p \in Pollers |-> NoPoll]

Next ==
  \/ \E j \in JobIds : Register(j) \/ End(j)
  \/ \E expired \in SUBSET JobIds : Forget(expired)
  \/ \E p \in Pollers : Read(p) \/ Break(p) \/ \E j \in JobIds : Ask(p, j)
  \/ Restart

Spec == Init /\ [][Next]_<<status, known, poll>>

=============================================================================
