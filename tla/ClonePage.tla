----------------------------- MODULE ClonePage -----------------------------
(***************************************************************************)
(* The clone window of the web page (cloneWorkspace and its helpers in     *)
(* internal/envoy/web/templates/index.html), against what the envoy        *)
(* promises of clone jobs (JobService).  A submitted form is answered with *)
(* a job, which the page asks about every second until it has ended.  What *)
(* it asks about is a variable that all polls share: polls under way when  *)
(* it changes are answered about the job of before.                        *)
(*                                                                         *)
(* An action is one task of the page's event loop, or a step of the envoy. *)
(***************************************************************************)
CONSTANTS
  JobIds,    \* bound: the submissions of the form, and the jobs they make
  Pollers,   \* bound: polls under way at one time
  NoJob      \* null, in currentCloneJobId and in clonePollingInterval

ASSUME NoJobAssumption == NoJob \notin JobIds

VARIABLES
  status, known, poll,   \* the envoy, as JobService has it
  shown,       \* the window is open
  loading,     \* its button is disabled
  current,     \* currentCloneJobId
  interval,    \* clonePollingInterval: the interval the page can clear
  intervals,   \* the intervals that fire, named by the job that set them
  post,        \* post[j]: the submission that makes job j
  fetch,       \* fetch[p]: a poll under way and the job it asks about
  verdict,     \* history: verdict[j]: what the page said of j when it was on show
  overlapped   \* history: the form was submitted while a submission was under way

envoy == <<status, known, poll>>
window == <<shown, loading>>
polling == <<current, interval, intervals>>
history == <<verdict, overlapped>>
vars == <<envoy, window, polling, post, fetch, history>>

Service == INSTANCE JobService

Idle == [pc |-> "idle", job |-> NoJob]
Fetches == {Idle} \cup [pc : {"sent", "served"}, job : JobIds \cup {NoJob}]

TypeOK ==
  /\ status \in [JobIds -> Service!Statuses]
  /\ known \subseteq JobIds
  /\ poll \in [Pollers -> {Service!NoPoll} \cup Service!Asked]
  /\ shown \in BOOLEAN /\ loading \in BOOLEAN
  /\ {current, interval} \subseteq JobIds \cup {NoJob}
  /\ intervals \subseteq JobIds
  /\ post \in [JobIds -> {"unused", "sent", "accepted", "over"}]
  /\ fetch \in [Pollers -> Fetches]
  /\ verdict \in [JobIds -> {"none", "crossed"} \cup Service!Outcomes]
  /\ overlapped \in BOOLEAN

Init ==
  /\ Service!Init
  /\ shown = FALSE /\ loading = FALSE
  /\ current = NoJob /\ interval = NoJob /\ intervals = {}
  /\ post = [j \in JobIds |-> "unused"]
  /\ fetch = [p \in Pollers |-> Idle]
  /\ verdict = [j \in JobIds |-> "none"] /\ overlapped = FALSE

----------------------------------------------------------------------------
(***************************************************************************)
(* The window.                                                             *)
(***************************************************************************)
\* Mutant: the interval goes on.
StopKeepingInterval ==
  /\ current' = NoJob /\ interval' = NoJob
  /\ UNCHANGED intervals

StopClonePolling ==
  /\ current' = NoJob /\ interval' = NoJob
  /\ intervals' = intervals \ {interval}

ShowCloneModal ==
  /\ ~ shown
  /\ shown' = TRUE
  /\ UNCHANGED <<envoy, loading, polling, post, fetch, history>>

HideCloneModal ==
  /\ shown
  /\ shown' = FALSE /\ loading' = FALSE
  /\ StopClonePolling
  /\ UNCHANGED <<envoy, post, fetch, history>>

----------------------------------------------------------------------------
(***************************************************************************)
(* A submission, from the form to the interval.                            *)
(***************************************************************************)
UnderWay(j) == post[j] \in {"sent", "accepted"}

Submit(j) ==
  /\ shown /\ ~ loading
  /\ post[j] = "unused" /\ status[j] = "none"
  /\ post' = [post EXCEPT ![j] = "sent"]
  /\ loading' = TRUE
  /\ overlapped' = (overlapped \/ \E other \in JobIds : UnderWay(other))
  /\ UNCHANGED <<envoy, shown, polling, fetch, verdict>>

Accept(j) ==
  /\ post[j] = "sent"
  /\ Service!Register(j)
  /\ post' = [post EXCEPT ![j] = "accepted"]
  /\ UNCHANGED <<window, polling, fetch, history>>

\* Refused, or the request or its answer is lost.
PostFails(j) ==
  /\ UnderWay(j)
  /\ post' = [post EXCEPT ![j] = "over"]
  /\ loading' = FALSE
  /\ UNCHANGED <<envoy, shown, polling, fetch, history>>

\* The handle of an interval that still fires is overwritten.
PostAnswered(j) ==
  /\ post[j] = "accepted"
  /\ post' = [post EXCEPT ![j] = "over"]
  /\ loading' = TRUE
  /\ current' = j /\ interval' = j /\ intervals' = intervals \cup {j}
  /\ UNCHANGED <<envoy, shown, fetch, history>>

----------------------------------------------------------------------------
(***************************************************************************)
(* A poll.                                                                 *)
(***************************************************************************)
\* Mutant: setTimeout in place of setInterval.
TimerFiresOnce(p) ==
  /\ intervals # {} /\ fetch[p] = Idle
  /\ fetch' = [fetch EXCEPT ![p] = [pc |-> "sent", job |-> current]]
  /\ \E fired \in intervals : intervals' = intervals \ {fired}
  /\ UNCHANGED <<envoy, window, current, interval, post, history>>

\* Any of the intervals: all ask about the current job, or about null.
TimerFires(p) ==
  /\ intervals # {} /\ fetch[p] = Idle
  /\ fetch' = [fetch EXCEPT ![p] = [pc |-> "sent", job |-> current]]
  /\ UNCHANGED <<envoy, window, polling, post, history>>

Serve(p) ==
  /\ fetch[p].pc = "sent"
  /\ Service!Ask(p, fetch[p].job)
  /\ fetch' = [fetch EXCEPT ![p].pc = "served"]
  /\ UNCHANGED <<window, polling, post, history>>

\* Of a poll that is over nothing is left, on either side.
Done(p) ==
  /\ fetch' = [fetch EXCEPT ![p] = Idle]
  /\ Service!Break(p)

\* Not found, which is no JSON, or no answer: the page logs it.
Unanswerable(p) ==
  \/ fetch[p].pc = "sent" /\ fetch[p].job \notin known
  \/ fetch[p].pc = "served" /\ poll[p] = Service!NoPoll

PollFails(p) ==
  /\ fetch[p] # Idle
  /\ Done(p)
  /\ UNCHANGED <<window, polling, post, history>>

\* What is said is said of the job on show, whichever job was asked about: the
\* answer about another job crosses it.
Tell(p, outcome) ==
  /\ verdict' = [j \in JobIds |->
       IF j # current THEN verdict[j] ELSE IF fetch[p].job = j THEN outcome ELSE "crossed"]
  /\ UNCHANGED overlapped

\* Mutant: all that is not cloning is failed.
AnsweredOrFailed(p) ==
  /\ fetch[p].pc = "served" /\ poll[p].seen \notin {"none", "unread"}
  /\ Done(p)
  /\ CASE poll[p].seen = "completed" ->
            StopClonePolling /\ loading' = FALSE /\ shown' = FALSE /\ Tell(p, "completed")
       [] poll[p].seen = "cloning" -> UNCHANGED <<window, polling, history>>
       [] OTHER ->
            StopClonePolling /\ loading' = FALSE /\ UNCHANGED shown /\ Tell(p, "failed")
  /\ UNCHANGED post

PollAnswered(p) ==
  /\ fetch[p].pc = "served" /\ poll[p].seen \notin {"none", "unread"}
  /\ Done(p)
  /\ CASE poll[p].seen = "completed" ->
            StopClonePolling /\ loading' = FALSE /\ shown' = FALSE /\ Tell(p, "completed")
       [] poll[p].seen = "failed" ->
            StopClonePolling /\ loading' = FALSE /\ UNCHANGED shown /\ Tell(p, "failed")
       [] OTHER -> UNCHANGED <<window, polling, history>>
  /\ UNCHANGED post

----------------------------------------------------------------------------
\* The envoy, by its promise.
Progress ==
  \/ \E j \in JobIds : Service!End(j)
  \/ \E expired \in SUBSET known : Service!Forget(expired)
  \/ \E p \in Pollers : Service!Break(p)
  \/ Service!Restart

EnvoyStep(A) == A /\ UNCHANGED <<window, polling, post, fetch, history>>
ReadStatus(p) == EnvoyStep(Service!Read(p))

Next ==
  \/ ShowCloneModal \/ HideCloneModal
  \/ \E j \in JobIds : Submit(j) \/ Accept(j) \/ PostFails(j) \/ PostAnswered(j)
  \/ \E p \in Pollers :
       TimerFires(p) \/ Serve(p) \/ ReadStatus(p) \/ PollFails(p) \/ PollAnswered(p)
  \/ EnvoyStep(Progress)

Spec == Init /\ [][Next]_vars

\* Timers fire, and a network and an envoy that lose requests do not lose
\* them all.  Nobody has to open the window, and no clone has to end.
FairSpec ==
  /\ Spec
  /\ WF_vars(\E p \in Pollers : TimerFires(p))
  /\ \A p \in Pollers : WF_vars(Unanswerable(p) /\ PollFails(p))
  /\ SF_vars(\E p \in Pollers : Serve(p))
  /\ SF_vars(\E p \in Pollers : ReadStatus(p))
  /\ SF_vars(\E p \in Pollers : PollAnswered(p))

----------------------------------------------------------------------------
(***************************************************************************)
(* Properties.                                                             *)
(***************************************************************************)
\* No interval fires that the page can no longer clear, unless the form was
\* submitted while a submission was under way: hiding the window, or the late
\* answer of a poll, enables the button.
NoIntervalLeaks == ~ overlapped => intervals \subseteq {interval}

\* What the page says of the clone on show is so, whatever was lost, garbled
\* or answered late, unless that was an answer about another clone.
TellsTheTruth ==
  \A j \in JobIds :
    /\ verdict[j] = "completed" => status[j] = "completed"
    /\ verdict[j] = "failed" => status[j] \in {"failed", "lost"}

\* The clone on show does not stay so once it has ended, if the page gets to ask
\* before the envoy forgets it; after that the page asks for ever.
PollingSettles ==
  \A j \in JobIds :
    current = j /\ status[j] \in Service!Outcomes ~> current # j \/ j \notin known

=============================================================================
