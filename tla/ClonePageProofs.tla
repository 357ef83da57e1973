------------------------- MODULE ClonePageProofs -------------------------
(***************************************************************************)
(* Proofs about ClonePage: types, the interval that can be cleared, and    *)
(* the truth of what the page says, for any number of submissions and of   *)
(* polls under way.  Of the envoy they use JobService alone, which         *)
(* CloneJobs implements (CloneJobsProofs).                                 *)
(***************************************************************************)
EXTENDS ClonePage, TLAPS

----------------------------------------------------------------------------
(***************************************************************************)
(* The envoy: a job that can be looked up, or that a poll has looked up,   *)
(* has a status the page knows.                                            *)
(***************************************************************************)
Polled == {"cloning"} \cup Service!Outcomes

EnvoyInv ==
  /\ status \in [JobIds -> Service!Statuses]
  /\ known \subseteq JobIds
  /\ poll \in [Pollers -> {Service!NoPoll} \cup Service!Asked]
  /\ \A j \in known : status[j] \in Polled
  /\ \A p \in Pollers :
       poll[p] # Service!NoPoll => poll[p].id \in JobIds /\ status[poll[p].id] \in Polled

LEMMA EnvoyInit == Init => EnvoyInv
  BY DEF Init, Service!Init, EnvoyInv, Service!Statuses

LEMMA EnvoyKeepsTypes == EnvoyInv /\ Service!Next => EnvoyInv'
<1> SUFFICES ASSUME EnvoyInv, Service!Next
             PROVE  EnvoyInv'
  OBVIOUS
<1> USE DEF EnvoyInv, Polled, Service!Statuses, Service!Outcomes, Service!Asked, Service!NoPoll
<1>1. ASSUME NEW j \in JobIds, Service!Register(j)
      PROVE  EnvoyInv'
  BY <1>1 DEF Service!Register
<1>2. ASSUME NEW j \in JobIds, Service!End(j)
      PROVE  EnvoyInv'
  BY <1>2 DEF Service!End
<1>3. ASSUME NEW expired \in SUBSET JobIds, Service!Forget(expired)
      PROVE  EnvoyInv'
  BY <1>3 DEF Service!Forget
<1>4. ASSUME NEW p \in Pollers, NEW j \in JobIds, Service!Ask(p, j)
      PROVE  EnvoyInv'
  BY <1>4 DEF Service!Ask
<1>5. ASSUME NEW p \in Pollers, Service!Read(p)
      PROVE  EnvoyInv'
  <2>1. poll[p].id \in JobIds /\ status[poll[p].id] \in Polled
    BY <1>5 DEF Service!Read
  <2> QED BY <1>5, <2>1 DEF Service!Read
<1>6. ASSUME NEW p \in Pollers, Service!Break(p)
      PROVE  EnvoyInv'
  BY <1>6 DEF Service!Break
<1>7. CASE Service!Restart
  BY <1>7 DEF Service!Restart
<1> QED BY <1>1, <1>2, <1>3, <1>4, <1>5, <1>6, <1>7 DEF Service!Next

\* The page does to the envoy what a client may.
LEMMA EnvoySteps == EnvoyInv /\ [Next]_vars => [Service!Next]_envoy
<1> SUFFICES ASSUME EnvoyInv, [Next]_vars
             PROVE  Service!Next \/ UNCHANGED envoy
  OBVIOUS
<1>1. ASSUME NEW p \in Pollers, Serve(p)
      PROVE  Service!Next
  BY <1>1 DEF Serve, Service!Ask, Service!Next, EnvoyInv
<1>2. ASSUME NEW p \in Pollers, ReadStatus(p) \/ PollFails(p) \/ PollAnswered(p)
      PROVE  Service!Next
  BY <1>2 DEF ReadStatus, EnvoyStep, PollFails, PollAnswered, Done, Service!Next
<1>3. ASSUME NEW j \in JobIds, Accept(j)
      PROVE  Service!Next
  BY <1>3 DEF Accept, Service!Next
<1>4. CASE EnvoyStep(Progress)
  BY <1>4 DEF EnvoyStep, Progress, Service!Next, EnvoyInv
<1>5. ASSUME NEW j \in JobIds, Submit(j) \/ PostFails(j) \/ PostAnswered(j)
      PROVE  UNCHANGED envoy
  BY <1>5 DEF Submit, PostFails, PostAnswered
<1>6. CASE ShowCloneModal \/ HideCloneModal \/ UNCHANGED vars
           \/ \E p \in Pollers : TimerFires(p)
  BY <1>6 DEF ShowCloneModal, HideCloneModal, TimerFires, vars
<1> QED BY <1>1, <1>2, <1>3, <1>4, <1>5, <1>6 DEF Next

LEMMA EnvoyNext == EnvoyInv /\ [Next]_vars => EnvoyInv'
  BY EnvoySteps, EnvoyKeepsTypes DEF envoy, EnvoyInv

----------------------------------------------------------------------------
(***************************************************************************)
(* The page.                                                               *)
(***************************************************************************)
\* The three outcomes of an answer.
LEMMA Answers ==
  ASSUME NEW p \in Pollers, PollAnswered(p)
  PROVE  /\ fetch[p].pc = "served" /\ Done(p) /\ UNCHANGED post
         /\ \/ /\ poll[p].seen = "completed"
               /\ StopClonePolling /\ loading' = FALSE /\ shown' = FALSE
               /\ Tell(p, "completed")
            \/ /\ poll[p].seen = "failed"
               /\ StopClonePolling /\ loading' = FALSE /\ UNCHANGED shown
               /\ Tell(p, "failed")
            \/ UNCHANGED <<window, polling, history>>
<1>1. CASE poll[p].seen = "completed"
  BY <1>1 DEF PollAnswered
<1>2. CASE poll[p].seen = "failed"
  BY <1>2 DEF PollAnswered
<1>3. CASE poll[p].seen \notin {"completed", "failed"}
  BY <1>3 DEF PollAnswered
<1> QED BY <1>1, <1>2, <1>3

Flags == shown \in BOOLEAN /\ loading \in BOOLEAN /\ overlapped \in BOOLEAN

PageTypes ==
  /\ {current, interval} \subseteq JobIds \cup {NoJob}
  /\ intervals \subseteq JobIds
  /\ post \in [JobIds -> {"unused", "sent", "accepted", "over"}]
  /\ fetch \in [Pollers -> Fetches]
  /\ verdict \in [JobIds -> {"none", "crossed"} \cup Service!Outcomes]

LEMMA FlagsNext == Flags /\ [Next]_vars => Flags'
<1> SUFFICES ASSUME Flags, [Next]_vars
             PROVE  Flags'
  OBVIOUS
<1> USE DEF Flags, window, history
<1>1. CASE ShowCloneModal \/ HideCloneModal
  BY Zenon, <1>1 DEF ShowCloneModal, HideCloneModal
<1>2. ASSUME NEW j \in JobIds, Submit(j)
      PROVE  Flags'
  <2>1. overlapped' = (overlapped \/ \E other \in JobIds : UnderWay(other))
    BY Zenon, <1>2 DEF Submit
  <2>2. overlapped' \in BOOLEAN
    BY Zenon, <2>1
  <2> QED BY Zenon, <1>2, <2>2 DEF Submit
<1>3. ASSUME NEW j \in JobIds, Accept(j) \/ PostFails(j) \/ PostAnswered(j)
      PROVE  Flags'
  BY Zenon, <1>3 DEF Accept, PostFails, PostAnswered
<1>4. ASSUME NEW p \in Pollers, PollAnswered(p)
      PROVE  Flags'
  BY Zenon, <1>4, Answers DEF Tell
<1>5. ASSUME NEW p \in Pollers, TimerFires(p) \/ Serve(p) \/ ReadStatus(p) \/ PollFails(p)
      PROVE  Flags'
  BY Zenon, <1>5 DEF TimerFires, Serve, ReadStatus, EnvoyStep, PollFails
<1>6. CASE EnvoyStep(Progress) \/ UNCHANGED vars
  BY Zenon, <1>6 DEF EnvoyStep, vars
<1> QED BY Zenon, <1>1, <1>2, <1>3, <1>4, <1>5, <1>6 DEF Next

LEMMA PageNext == PageTypes /\ [Next]_vars => PageTypes'
<1> SUFFICES ASSUME PageTypes, [Next]_vars
             PROVE  PageTypes'
  OBVIOUS
<1> USE DEF PageTypes, polling, history, StopClonePolling, Fetches, Idle
<1>1. CASE ShowCloneModal \/ HideCloneModal
  BY <1>1 DEF ShowCloneModal, HideCloneModal
<1>2. ASSUME NEW j \in JobIds, Submit(j) \/ Accept(j) \/ PostFails(j) \/ PostAnswered(j)
      PROVE  PageTypes'
  BY <1>2 DEF Submit, Accept, PostFails, PostAnswered
<1>3. ASSUME NEW p \in Pollers, PollAnswered(p)
      PROVE  PageTypes'
  <2>1. fetch' \in [Pollers -> Fetches] /\ UNCHANGED post
    BY <1>3, Answers DEF Done
  <2>2. \/ UNCHANGED <<polling, verdict>>
        \/ StopClonePolling /\ \E said \in Service!Outcomes : Tell(p, said)
    BY <1>3, Answers DEF Service!Outcomes
  <2>3. ASSUME NEW said \in Service!Outcomes, Tell(p, said)
        PROVE  verdict' \in [JobIds -> {"none", "crossed"} \cup Service!Outcomes]
    BY <2>3 DEF Tell
  <2> QED BY <2>1, <2>2, <2>3
<1>4. ASSUME NEW p \in Pollers, TimerFires(p) \/ Serve(p) \/ PollFails(p)
      PROVE  PageTypes'
  BY <1>4 DEF TimerFires, Serve, PollFails, Done
<1>5. CASE EnvoyStep(Progress) \/ UNCHANGED vars \/ \E p \in Pollers : ReadStatus(p)
  BY <1>5 DEF EnvoyStep, ReadStatus, vars
<1> QED BY <1>1, <1>2, <1>3, <1>4, <1>5 DEF Next

TypeInv == EnvoyInv /\ Flags /\ PageTypes

LEMMA TypeInit == Init => TypeInv
<1>1. Init => Flags
  BY Zenon DEF Init, Flags
<1>2. Init => PageTypes
  BY DEF Init, PageTypes, Fetches
<1> QED BY <1>1, <1>2, EnvoyInit DEF TypeInv

LEMMA TypeNext == TypeInv /\ [Next]_vars => TypeInv'
  BY EnvoyNext, FlagsNext, PageNext DEF TypeInv

\* The variables of the page stay what they are; in particular every answer a poll
\* is told is a status or a garbled one.
THEOREM TypeCorrect == Spec => []TypeOK
<1>1. TypeInv => TypeOK
  BY Zenon DEF TypeInv, EnvoyInv, Flags, PageTypes, TypeOK
<1> QED BY <1>1, TypeInit, TypeNext, PTL DEF Spec

----------------------------------------------------------------------------
(***************************************************************************)
(* Intervals.  While a clone is on show the button is disabled, and while  *)
(* a submission is under way none is on show: unless two submissions       *)
(* overlap, an answered one finds no interval to overwrite.                *)
(***************************************************************************)
Alone ==
  /\ intervals \subseteq {interval}
  /\ current # NoJob => loading
  /\ \A j \in JobIds : UnderWay(j) =>
       current = NoJob /\ \A k \in JobIds : UnderWay(k) => k = j

IntervalInv ==
  /\ interval = current
  /\ ~ overlapped => Alone

LEMMA IntervalInit == Init => IntervalInv
  BY DEF Init, IntervalInv, Alone, UnderWay

\* The page stops polling, or a submission ends.
LEMMA StoppedAlone ==
  ASSUME TypeInv, IntervalInv, StopClonePolling, UNCHANGED <<post, overlapped>>
  PROVE  IntervalInv'
<1>1. current' = NoJob /\ interval' = NoJob
  BY DEF StopClonePolling
<1>2. ~ overlapped => intervals' = {}
  BY DEF StopClonePolling, IntervalInv, Alone
<1>3. \A j \in JobIds : UnderWay(j)' = UnderWay(j)
  BY DEF UnderWay
<1> QED BY <1>1, <1>2, <1>3 DEF IntervalInv, Alone

\* What leaves the page, or only sends and receives for it.
LEMMA NothingStarts ==
  ASSUME IntervalInv, UNCHANGED <<loading, polling, post, overlapped>>
  PROVE  IntervalInv'
  BY DEF IntervalInv, Alone, UnderWay, polling

LEMMA SubmitAlone ==
  ASSUME TypeInv, IntervalInv, NEW j \in JobIds, Submit(j)
  PROVE  IntervalInv'
<1>1. /\ post' = [post EXCEPT ![j] = "sent"]
      /\ loading' = TRUE /\ ~ loading
      /\ UNCHANGED polling
  BY DEF Submit
<1>2. ~ overlapped' => ~ overlapped /\ \A other \in JobIds : ~ UnderWay(other)
  BY Zenon DEF Submit
<1>3. \A k \in JobIds \ {j} : UnderWay(k)' = UnderWay(k)
  BY <1>1 DEF UnderWay, TypeInv, PageTypes
<1>4. CASE overlapped'
  BY <1>1, <1>4 DEF IntervalInv, polling
<1>5. CASE ~ overlapped'
  <2>1. Alone /\ current = NoJob
    BY <1>1, <1>2, <1>5 DEF IntervalInv, Alone
  <2>2. \A k \in JobIds : UnderWay(k)' => k = j
    BY <1>2, <1>3, <1>5
  <2> QED BY <1>1, <2>1, <2>2 DEF IntervalInv, Alone, polling
<1> QED BY <1>4, <1>5

LEMMA PostAlone ==
  ASSUME TypeInv, IntervalInv, NEW j \in JobIds,
         Accept(j) \/ PostFails(j) \/ PostAnswered(j)
  PROVE  IntervalInv'
<1>1. UNCHANGED overlapped /\ UnderWay(j)' \in BOOLEAN
  BY DEF Accept, PostFails, PostAnswered, history, UnderWay
<1>2. \A k \in JobIds \ {j} : UnderWay(k)' = UnderWay(k)
  BY DEF Accept, PostFails, PostAnswered, UnderWay, TypeInv, PageTypes
<1>3. UnderWay(j)
  BY DEF Accept, PostFails, PostAnswered, UnderWay
<1>4. ~ overlapped => current = NoJob /\ intervals = {}
  BY <1>3, NoJobAssumption DEF IntervalInv, Alone, TypeInv, PageTypes
<1>5. ~ overlapped => \A k \in JobIds \ {j} : ~ UnderWay(k)
  BY <1>3 DEF IntervalInv, Alone
<1>6. CASE Accept(j) \/ PostFails(j)
  <2>1. UNCHANGED polling
    BY <1>6 DEF Accept, PostFails
  <2> QED BY <1>1, <1>2, <1>4, <1>5, <2>1 DEF IntervalInv, Alone, polling
<1>7. CASE PostAnswered(j)
  <2>1. /\ loading' = TRUE
        /\ current' = j /\ interval' = j /\ intervals' = intervals \cup {j}
        /\ ~ UnderWay(j)'
    BY <1>7 DEF PostAnswered, UnderWay, TypeInv, PageTypes
  <2> QED BY <1>1, <1>2, <1>4, <1>5, <2>1 DEF IntervalInv, Alone
<1> QED BY <1>6, <1>7

LEMMA IntervalNext == TypeInv /\ IntervalInv /\ [Next]_vars => IntervalInv'
<1> SUFFICES ASSUME TypeInv, IntervalInv, [Next]_vars
             PROVE  IntervalInv'
  OBVIOUS
<1>1. CASE ShowCloneModal \/ EnvoyStep(Progress) \/ UNCHANGED vars
  BY <1>1, NothingStarts DEF ShowCloneModal, EnvoyStep, vars, window, history
<1>2. CASE HideCloneModal
  BY <1>2, StoppedAlone DEF HideCloneModal, history
<1>3. ASSUME NEW j \in JobIds, Submit(j) \/ Accept(j) \/ PostFails(j) \/ PostAnswered(j)
      PROVE  IntervalInv'
  BY <1>3, SubmitAlone, PostAlone
<1>4. ASSUME NEW p \in Pollers, TimerFires(p) \/ Serve(p) \/ ReadStatus(p) \/ PollFails(p)
      PROVE  IntervalInv'
  BY <1>4, NothingStarts
     DEF TimerFires, Serve, ReadStatus, EnvoyStep, PollFails, window, history
<1>5. ASSUME NEW p \in Pollers, PollAnswered(p)
      PROVE  IntervalInv'
  BY <1>5, Answers, StoppedAlone, NothingStarts DEF Tell, window, history
<1> QED BY <1>1, <1>2, <1>3, <1>4, <1>5 DEF Next

\* Unless two submissions overlapped, every interval that fires is the one the
\* page can clear.
THEOREM IntervalsDoNotLeak == Spec => []NoIntervalLeaks
<1>1. IntervalInv => NoIntervalLeaks
  BY DEF IntervalInv, Alone, NoIntervalLeaks
<1> QED BY <1>1, TypeInit, TypeNext, IntervalInit, IntervalNext, PTL DEF Spec

----------------------------------------------------------------------------
(***************************************************************************)
(* Answers.  An outcome never changes, so what a poll was told of its job  *)
(* is still so when the answer arrives; and the page knows by the fetch    *)
(* which job that was, though it does not look.                            *)
(***************************************************************************)
AnswerInv ==
  \A p \in Pollers :
    /\ poll[p].seen \in Service!Outcomes => status[poll[p].id] = poll[p].seen
    /\ fetch[p].pc = "served" /\ poll[p] # Service!NoPoll => poll[p].id = fetch[p].job

TruthInv == AnswerInv /\ TellsTheTruth

LEMMA TruthInit == Init => TruthInv
  BY DEF Init, Service!Init, Service!NoPoll, Service!Outcomes, Idle, TruthInv, AnswerInv,
         TellsTheTruth

\* A job that has ended stays as it ended, but that a restart may forget a failure.
LEMMA OutcomesStay ==
  ASSUME EnvoyInv, [Service!Next]_envoy, NEW j \in JobIds
  PROVE  /\ status[j] = "completed" => status'[j] = "completed"
         /\ status[j] = "failed" => status'[j] \in {"failed", "lost"}
         /\ status[j] = "lost" => status'[j] = "lost"
  BY DEF EnvoyInv, envoy, Service!Next, Service!Register, Service!End, Service!Forget,
         Service!Read, Service!Break, Service!Ask, Service!Restart

\* A step of the envoy that the page takes no part in.
LEMMA EnvoyAnswers ==
  ASSUME EnvoyInv, AnswerInv, EnvoyStep(Progress) \/ \E p \in Pollers : ReadStatus(p)
  PROVE  AnswerInv'
<1> USE DEF EnvoyInv, Service!Outcomes, Service!Asked, Service!NoPoll
<1>1. UNCHANGED fetch
  BY DEF EnvoyStep, ReadStatus
<1>2. CASE Service!Restart
  BY <1>1, <1>2 DEF Service!Restart, AnswerInv
<1>3. ASSUME NEW p \in Pollers, Service!Break(p)
      PROVE  AnswerInv'
  BY <1>1, <1>3 DEF Service!Break, AnswerInv
<1>4. ASSUME NEW j \in JobIds, Service!End(j)
      PROVE  AnswerInv'
  <2>1. UNCHANGED poll
        /\ \A k \in JobIds : status[k] \in Service!Outcomes => status'[k] = status[k]
    BY <1>4 DEF Service!End
  <2> QED BY <1>1, <2>1 DEF AnswerInv
<1>5. ASSUME NEW expired \in SUBSET known, Service!Forget(expired)
      PROVE  AnswerInv'
  BY <1>1, <1>5 DEF Service!Forget, AnswerInv
<1>6. ASSUME NEW p \in Pollers, Service!Read(p)
      PROVE  AnswerInv'
  BY <1>1, <1>6 DEF Service!Read, AnswerInv
<1> QED BY <1>2, <1>3, <1>4, <1>5, <1>6 DEF EnvoyStep, Progress, ReadStatus

LEMMA PollAnswers ==
  ASSUME TypeInv, AnswerInv, NEW p \in Pollers,
         TimerFires(p) \/ Serve(p) \/ PollFails(p) \/ PollAnswered(p)
  PROVE  AnswerInv'
<1> USE DEF TypeInv, EnvoyInv, PageTypes, AnswerInv
<1>1. CASE TimerFires(p)
  BY <1>1 DEF TimerFires, envoy
<1>2. CASE Serve(p)
  BY <1>2 DEF Serve, Service!Ask, Service!Outcomes
<1>3. CASE PollFails(p) \/ PollAnswered(p)
  <2>1. Done(p)
    BY <1>3, Answers DEF PollFails
  <2> QED BY <2>1 DEF Done, Idle, Service!Break, Service!NoPoll, Service!Outcomes
<1> QED BY <1>1, <1>2, <1>3

LEMMA AnswerNext == TypeInv /\ AnswerInv /\ [Next]_vars => AnswerInv'
<1> SUFFICES ASSUME TypeInv, AnswerInv, [Next]_vars
             PROVE  AnswerInv'
  OBVIOUS
<1>1. CASE ShowCloneModal \/ HideCloneModal \/ UNCHANGED vars
           \/ \E j \in JobIds : Submit(j) \/ PostFails(j) \/ PostAnswered(j)
  <2>1. UNCHANGED <<status, poll, fetch>>
    BY <1>1 DEF ShowCloneModal, HideCloneModal, vars, Submit, PostFails, PostAnswered, envoy
  <2> QED BY <2>1 DEF AnswerInv
<1>2. ASSUME NEW j \in JobIds, Accept(j)
      PROVE  AnswerInv'
  <2>1. /\ UNCHANGED <<poll, fetch>>
        /\ \A k \in JobIds : status[k] \in Service!Outcomes => status'[k] = status[k]
    BY <1>2 DEF Accept, Service!Register, Service!Outcomes, TypeInv, EnvoyInv
  <2> QED BY <2>1 DEF AnswerInv, TypeInv, EnvoyInv, Service!NoPoll, Service!Outcomes
<1> QED BY <1>1, <1>2, EnvoyAnswers, PollAnswers DEF Next, TypeInv

\* What is said of the job on show is what its status is.
LEMMA TellTrue ==
  ASSUME TypeInv, TruthInv, NEW p \in Pollers, PollAnswered(p)
  PROVE  TellsTheTruth'
<1>1. UNCHANGED status
  BY Answers DEF Done, Service!Break
<1>2. CASE UNCHANGED history
  BY <1>1, <1>2 DEF history, TruthInv, TellsTheTruth
<1>3. ASSUME NEW said \in Service!Outcomes, poll[p].seen = said, Tell(p, said)
      PROVE  TellsTheTruth'
  <2>1. status[fetch[p].job] = said
    <3>1. fetch[p].pc = "served"
      BY Answers
    <3>2. poll[p] # Service!NoPoll
      BY <1>3 DEF Service!NoPoll, Service!Outcomes
    <3> QED BY <1>3, <3>1, <3>2 DEF TruthInv, AnswerInv
  <2>2. \A j \in JobIds : verdict'[j] # verdict[j] =>
          \/ verdict'[j] = "crossed"
          \/ verdict'[j] = said /\ fetch[p].job = j
    BY <1>3 DEF Tell
  <2> QED BY <1>1, <2>1, <2>2 DEF TruthInv, TellsTheTruth, Service!Outcomes
<1> QED BY <1>2, <1>3, Answers DEF Service!Outcomes

LEMMA TruthNext == TypeInv /\ TruthInv /\ [Next]_vars => TruthInv'
<1> SUFFICES ASSUME TypeInv, TruthInv, [Next]_vars
             PROVE  TellsTheTruth'
  BY AnswerNext DEF TruthInv
<1>1. \A j \in JobIds :
        /\ status[j] = "completed" => status'[j] = "completed"
        /\ status[j] \in {"failed", "lost"} => status'[j] \in {"failed", "lost"}
  BY EnvoySteps, OutcomesStay DEF TypeInv
<1>2. CASE UNCHANGED verdict
  BY <1>1, <1>2 DEF TruthInv, TellsTheTruth
<1>3. UNCHANGED verdict \/ \E p \in Pollers : PollAnswered(p)
  BY DEF Next, vars, history, ShowCloneModal, HideCloneModal, Submit, Accept, PostFails,
         PostAnswered, TimerFires, Serve, ReadStatus, PollFails, EnvoyStep
<1> QED BY <1>2, <1>3, TellTrue

\* A clone that the page reported complete is complete, and one it reported failed
\* has failed, however late the answer came.
THEOREM PageTellsTheTruth == Spec => []TellsTheTruth
<1>1. TruthInv => TellsTheTruth
  BY DEF TruthInv
<1> QED BY <1>1, TypeInit, TypeNext, TruthInit, TruthNext, PTL DEF Spec

=============================================================================
