-------------------------- MODULE CloneJobsProofs --------------------------
(***************************************************************************)
(* Proofs about CloneJobs, for every number of clones, Creates, polls and  *)
(* paths.                                                                  *)
(***************************************************************************)
EXTENDS CloneJobs, TLAPS

----------------------------------------------------------------------------
(***************************************************************************)
(* Types.                                                                  *)
(***************************************************************************)
\* The disk is a tree; a clone whose goroutine is at work has its object, and so
\* has the clone a poll has looked up.
Active(j) == run[j] \in {"checked"} \cup InGit \cup Finishing

Polls ==
  {NoPoll} \cup [pc : {"status"}, id : JobIds]
    \cup [pc : {"error"}, id : JobIds, status : Seen]
    \cup [pc : {"answered"}, id : JobIds, status : Seen, error : BOOLEAN]

TypeInv ==
  /\ TypeOK
  /\ Rooted(DOMAIN disk)
  /\ \A j \in JobIds : Active(j) => j \in DOMAIN job
  /\ \A p \in Pollers : poll[p].pc # "idle" => poll[p].id \in DOMAIN job

\* A map with no keys.
LEMMA EmptyMap == DOMAIN << >> = {}
  OBVIOUS

LEMMA TypeInit == Init => TypeInv
<1> SUFFICES ASSUME Init
             PROVE  TypeInv
  OBVIOUS
<1>1. PICK there \in SUBSET Dirs : disk \in [there -> Workspace]
  BY DEF Init
<1>2. DOMAIN disk \subseteq Dirs /\ \A d \in DOMAIN disk : disk[d] \in Contents
  BY <1>1 DEF Workspace, Contents
<1>3. \A j \in JobIds : ~ Active(j)
  BY DEF Init, Active, InGit, Finishing
<1>4. \A p \in Pollers : poll[p] = NoPoll
  BY DEF Init
<1>5. TypeOK
  BY <1>2, EmptyMap DEF Init, TypeOK
<1>6. Rooted(DOMAIN disk)
  BY DEF Init, Rooted
<1> QED BY <1>3, <1>4, <1>5, <1>6 DEF TypeInv, NoPoll

\* Paths nest: one inside another one is not around it, and what is around one is
\* around all inside it.
LEMMA Nesting ==
  ASSUME NEW d \in Dirs, NEW e \in Dirs
  PROVE  /\ Within(d) \subseteq Dirs /\ Around(d) \subseteq Dirs
         /\ e \in Under[d] <=> d \in Around(e)
         /\ e \in Near(d) <=> d \in Near(e)
         /\ e \in Under[d] => e # d /\ Under[e] \subseteq Under[d]
         /\ e \in Around(d) => e # d /\ e \notin Under[d]
         /\ e \in Around(d) => Around(e) \subseteq Around(d)
  BY PathAssumption DEF Within, Around, Near

LEMMA NearTyped == \A d \in Dirs : Near(d) \subseteq Dirs
  BY Nesting DEF Near

\* Requests for path d add d and the directories around it, and remove what is
\* within d.
Touched(d) ==
  /\ DOMAIN disk' \subseteq DOMAIN disk \cup {d} \cup Around(d)
  /\ DOMAIN disk \ Within(d) \subseteq DOMAIN disk'
  /\ \A e \in DOMAIN disk \cap DOMAIN disk' : e # d => disk'[e] = disk[e]

DiskTyped ==
  /\ DOMAIN disk \subseteq Dirs /\ Rooted(DOMAIN disk)
  /\ \A e \in DOMAIN disk : disk[e] \in Contents

LEMMA Makes ==
  ASSUME DiskTyped, NEW d \in Dirs, NEW c \in Contents,
         \/ disk' = MakeDirs({d} \cup Around(d))
         \/ disk' = Put(MakeDirs(Around(d)), d, c)
  PROVE  /\ DiskTyped' /\ Touched(d)
         /\ DOMAIN disk' = DOMAIN disk \cup {d} \cup Around(d)
         /\ \A e \in DOMAIN disk \ {d} : disk'[e] = disk[e]
<1>1. /\ DOMAIN disk' = DOMAIN disk \cup {d} \cup Around(d)
      /\ \A e \in DOMAIN disk \ {d} : disk'[e] = disk[e]
  BY DEF MakeDirs, Put
<1>2. \A e \in DOMAIN disk' : disk'[e] \in Contents
  <2>1. [state |-> "empty", by |-> Nobody] \in Contents
    BY DEF Contents
  <2>2. \A ds : \A e \in DOMAIN MakeDirs(ds) : MakeDirs(ds)[e] \in Contents
    BY <2>1 DEF MakeDirs, DiskTyped
  <2> QED BY <2>2 DEF Put
<1>3. DOMAIN disk' \subseteq Dirs
  BY <1>1 DEF DiskTyped, Around
<1>4. Rooted(DOMAIN disk)'
  BY <1>1, <1>3, Nesting DEF DiskTyped, Rooted
<1> QED BY <1>1, <1>2, <1>3, <1>4 DEF DiskTyped, Touched

LEMMA Removes ==
  ASSUME DiskTyped, NEW d \in Dirs, RemoveTree(d)
  PROVE  /\ DiskTyped' /\ Touched(d)
         /\ DOMAIN disk' \subseteq DOMAIN disk
         /\ \A e \in DOMAIN disk' : disk'[e] = disk[e]
<1>1. PICK gone \in SUBSET Within(d) :
        /\ \A e \in gone : Under[e] \subseteq gone
        /\ disk' = Restrict(disk, DOMAIN disk \ gone)
  BY DEF RemoveTree
<1>2. /\ DOMAIN disk' = DOMAIN disk \ gone
      /\ \A e \in DOMAIN disk' : disk'[e] = disk[e]
  BY <1>1 DEF Restrict
<1>3. Rooted(DOMAIN disk)'
  BY <1>1, <1>2 DEF DiskTyped, Rooted, Around
<1> QED BY <1>1, <1>2, <1>3 DEF DiskTyped, Touched

LEMMA DiskIsTyped == TypeInv => DiskTyped
  BY DEF TypeInv, TypeOK, DiskTyped

\* What a clone does to the disk.
LEMMA CloneTouches ==
  ASSUME TypeInv, NEW j \in JobIds, job[j].ws \in Dirs, Register(j) \/ Git(j) \/ Finish(j)
  PROVE  DiskTyped' /\ Touched(job[j].ws)
<1>1. DiskTyped
  BY DiskIsTyped
<1>2. CASE GitBegin(j)
  <2>1. [state |-> "partial", by |-> j] \in Contents
    BY DEF Contents
  <2>2. CASE disk' = disk
    BY <1>1, <2>2 DEF DiskTyped, Touched
  <2> QED BY <1>1, <1>2, <2>1, <2>2, Makes DEF GitBegin
<1>3. CASE RemoveTree(job[j].ws)
  BY <1>1, <1>3, Removes
<1>4. CASE GitSucceed(j)
  BY <1>1, <1>4 DEF GitSucceed, Mine, DiskTyped, Touched, Contents
<1>5. CASE disk' = disk
  BY <1>1, <1>5 DEF DiskTyped, Touched
<1> QED BY <1>2, <1>3, <1>4, <1>5
        DEF Register, Git, GitFail, Finish, Lock, Complete, SetFailed, SetError, RemoveAll

\* Steps of a Create.
LEMMA CreateTyped ==
  ASSUME TypeInv, NEW c \in Creators,
         CreateMkdir(c) \/ \E d \in Dirs : CreateCheck(c, d)
  PROVE  TypeInv'
<1> USE DEF TypeInv
<1>1. UNCHANGED <<run, job, jobs, mu, poll, sweepDue>>
  BY DEF CreateMkdir, CreateCheck
<1>2. ASSUME NEW d \in Dirs, CreateCheck(c, d)
      PROVE  TypeOK'
  BY <1>2, NearTyped DEF CreateCheck, MarkRivals, TypeOK
<1>3. CASE CreateMkdir(c)
  <2>1. create[c].ws \in Dirs
    BY <1>3 DEF CreateMkdir, TypeOK, NoCreate
  <2>2. DiskTyped'
    <3>1. [state |-> "empty", by |-> Nobody] \in Contents
      BY DEF Contents
    <3> QED BY <1>3, <2>1, <3>1, DiskIsTyped, Makes DEF CreateMkdir, DiskTyped
  <2>3. create' \in [Creators -> {NoCreate} \cup [pc : {"checked"}, ws : Dirs]]
    BY <1>3 DEF CreateMkdir, TypeOK
  <2>4. rivals' = rivals
    BY <1>3 DEF CreateMkdir
  <2> QED BY <1>1, <2>2, <2>3, <2>4 DEF TypeOK, Active, DiskTyped
<1>4. ASSUME NEW d \in Dirs, CreateCheck(c, d)
      PROVE  Rooted(DOMAIN disk)'
  BY <1>4 DEF CreateCheck, Rooted
<1> QED BY <1>1, <1>2, <1>3, <1>4 DEF Active

\* Steps of a clone.
LEMMA CloneCheckTyped ==
  ASSUME TypeInv, NEW j \in JobIds, NEW d \in Dirs, CloneCheck(j, d)
  PROVE  TypeInv'
<1> USE DEF TypeInv
<1>1. [ws |-> d, status |-> "cloning", error |-> FALSE, age |-> LongAgo] \in Job
  BY CloneAssumption DEF Job, Status, LongAgo
<1>2. /\ DOMAIN job' = DOMAIN job \cup {j}
      /\ \A k \in DOMAIN job' : job'[k] \in Job
  BY <1>1 DEF CloneCheck, Put, TypeOK
<1>3. run' \in [JobIds -> {"new", "checked", "done", "lost"} \cup InGit \cup Finishing]
  BY DEF CloneCheck, Goto, TypeOK
<1>4. TypeOK'
  BY <1>2, <1>3, NearTyped DEF CloneCheck, MarkRivals, TypeOK
<1>5. \A k \in JobIds : Active(k)' => k \in DOMAIN job'
  BY <1>2 DEF CloneCheck, Goto, TypeOK, Active
<1>6. poll' = poll /\ Rooted(DOMAIN disk)'
  BY DEF CloneCheck, Rooted
<1> QED BY <1>2, <1>4, <1>5, <1>6

LEMMA CloneTyped ==
  ASSUME TypeInv, NEW j \in JobIds, Register(j) \/ Git(j) \/ Finish(j)
  PROVE  TypeInv'
<1> USE DEF TypeInv
<1>1. /\ Active(j) /\ j \in DOMAIN job /\ job[j] \in Job
      /\ UNCHANGED <<create, poll, sweepDue, rivals>>
  BY DEF Register, Git, GitBegin, GitSucceed, GitFail, Finish, Lock, Complete, SetFailed,
         SetError, RemoveAll, Goto, Active, InGit, Finishing, TypeOK
<1>2. /\ run' = [run EXCEPT ![j] = run'[j]]
      /\ run'[j] \in {"done"} \cup InGit \cup Finishing
  BY DEF Register, Git, GitBegin, GitSucceed, GitFail, Finish, Lock, Complete, SetFailed,
         SetError, RemoveAll, Goto, InGit, Finishing, TypeOK
<1>3. DOMAIN job' = DOMAIN job /\ \A k \in DOMAIN job : job'[k] \in Job
  <2>1. CASE job' = job
    BY <2>1 DEF TypeOK
  <2>2. ASSUME NEW after \in Job, job' = [job EXCEPT ![j] = after]
        PROVE  DOMAIN job' = DOMAIN job /\ \A k \in DOMAIN job : job'[k] \in Job
    BY <2>2 DEF TypeOK
  <2>3. /\ [job[j] EXCEPT !.age = 0] \in Job
        /\ [job[j] EXCEPT !.status = "completed"] \in Job
        /\ [job[j] EXCEPT !.status = "failed"] \in Job
        /\ [job[j] EXCEPT !.error = TRUE] \in Job
    <3>1. 0 \in 0 .. LongAgo
      BY CloneAssumption DEF LongAgo
    <3>2. "completed" \in Status /\ "failed" \in Status
      BY DEF Status
    <3> QED BY <1>1, <3>1, <3>2 DEF Job
  <2> QED BY <2>1, <2>2, <2>3
          DEF Register, Git, GitBegin, GitSucceed, GitFail, Finish, Lock, Complete,
              SetFailed, SetError, RemoveAll
<1>4. DiskTyped'
  <2>1. job[j].ws \in Dirs
    BY <1>1 DEF Job
  <2> QED BY <2>1, CloneTouches
<1>5. jobs' \subseteq jobs \cup {j} /\ mu' \in {mu, j, Nobody}
  BY DEF Register, Git, GitBegin, GitSucceed, GitFail, Finish, Lock, Complete, SetFailed,
         SetError, RemoveAll
<1>6. TypeOK' /\ Rooted(DOMAIN disk)'
  BY <1>1, <1>2, <1>3, <1>4, <1>5 DEF TypeOK, DiskTyped
<1>7. \A k \in JobIds : Active(k)' => k \in DOMAIN job'
  BY <1>1, <1>2, <1>3 DEF Active, TypeOK
<1> QED BY <1>1, <1>3, <1>6, <1>7

\* Polls read the object they looked up.
LEMMA PollTyped ==
  ASSUME TypeInv, NEW p \in Pollers, Answer(p) \/ \E j \in JobIds : GetJob(p, j)
  PROVE  TypeInv'
<1> USE DEF TypeInv
<1>1. UNCHANGED <<disk, run, job, jobs, mu, create, sweepDue, rivals>>
  BY DEF Answer, ReadStatus, ReadError, GetJob
<1>2. poll \in [Pollers -> Polls]
  BY DEF TypeOK, Polls
<1>3. ASSUME NEW after \in Polls, poll' = [poll EXCEPT ![p] = after],
             after.pc # "idle" => after.id \in DOMAIN job
      PROVE  TypeInv'
  <2>1. poll' \in [Pollers -> Polls]
    BY <1>2, <1>3
  <2>2. \A q \in Pollers : poll'[q].pc # "idle" => poll'[q].id \in DOMAIN job'
    BY <1>1, <1>2, <1>3
  <2> QED BY <1>1, <2>1, <2>2 DEF TypeOK, Rooted, Active, Polls
<1>4. ASSUME NEW j \in JobIds, GetJob(p, j)
      PROVE  TypeInv'
  BY <1>3, <1>4 DEF GetJob, Polls, TypeOK
<1>5. CASE ReadStatus(p)
  <2>1. poll[p].pc = "status" /\ poll[p].id \in JobIds /\ poll[p].id \in DOMAIN job
    BY <1>2, <1>5 DEF ReadStatus, Polls, NoPoll
  <2>2. job[poll[p].id].status \in Seen /\ "garbled" \in Seen
    BY <2>1 DEF TypeOK, Job, Seen
  <2> QED BY <1>3, <1>5, <2>1, <2>2 DEF ReadStatus, Polls
<1>6. CASE ReadError(p)
  <2>1. /\ poll[p].pc = "error" /\ poll[p].id \in JobIds /\ poll[p].status \in Seen
        /\ poll[p].id \in DOMAIN job
    BY <1>2, <1>6 DEF ReadError, Polls, NoPoll
  <2>2. job[poll[p].id].error \in BOOLEAN
    BY <2>1 DEF TypeOK, Job
  <2>3. [pc |-> "answered", id |-> poll[p].id, status |-> poll[p].status,
         error |-> job[poll[p].id].error] \in Polls /\ NoPoll \in Polls
    BY <2>1, <2>2 DEF Polls
  <2>4. \/ poll' = [poll EXCEPT ![p] =
             [pc |-> "answered", id |-> poll[p].id, status |-> poll[p].status,
              error |-> job[poll[p].id].error]]
        \/ poll' = [poll EXCEPT ![p] = NoPoll]
    BY <1>6 DEF ReadError
  <2> QED BY <1>3, <2>1, <2>3, <2>4 DEF NoPoll
<1> QED BY <1>4, <1>5, <1>6 DEF Answer

\* The clean-up and the end of the process.
LEMMA RestTyped ==
  ASSUME TypeInv, Tick \/ Sweep \/ Restart \/ UNCHANGED vars
  PROVE  TypeInv'
<1> USE DEF TypeInv
<1>1. CASE Tick
  <2>1. /\ DOMAIN job' = DOMAIN job
        /\ \A j \in DOMAIN job : job'[j] \in Job
    <3> SUFFICES ASSUME NEW j \in DOMAIN job
                 PROVE  job'[j] \in Job
      BY <1>1 DEF Tick
    <3>1. job[j] \in Job
      BY DEF TypeOK
    <3>2. job[j].age < LongAgo => [job[j] EXCEPT !.age = @ + 1] \in Job
      BY <3>1, CloneAssumption DEF Job, LongAgo
    <3> QED BY <1>1, <3>1, <3>2 DEF Tick
  <2> QED BY <1>1, <2>1 DEF Tick, TypeOK, Rooted, Active
<1>2. CASE Sweep
  BY <1>2 DEF Sweep, TypeOK, Rooted, Active
<1>3. CASE Restart
  <2>1. \A j \in JobIds : ~ Active(j)'
    BY <1>3 DEF Restart, Active, InGit, Finishing
  <2>2. \A p \in Pollers : poll'[p] = NoPoll
    BY <1>3 DEF Restart
  <2>3. TypeOK' /\ Rooted(DOMAIN disk)'
    BY <1>3 DEF Restart, TypeOK, Rooted
  <2> QED BY <2>1, <2>2, <2>3 DEF NoPoll
<1>4. CASE UNCHANGED vars
  BY <1>4 DEF vars, TypeOK, Rooted, Active
<1> QED BY <1>1, <1>2, <1>3, <1>4

LEMMA TypeNext == TypeInv /\ [Next]_vars => TypeInv'
  BY CreateTyped, CloneCheckTyped, CloneTyped, PollTyped, RestTyped DEF Next, CleanUp

\* Every reachable state is well typed.
THEOREM TypeCorrect == Spec => []TypeOK
<1>1. TypeInv => TypeOK
  BY DEF TypeInv
<1> QED BY <1>1, TypeInit, TypeNext, PTL DEF Spec

----------------------------------------------------------------------------
(***************************************************************************)
(* Statuses: a clone at work is "cloning" to everybody who can take the    *)
(* lock, so the sweep leaves it alone.                                     *)
(***************************************************************************)
StatusInv ==
  /\ \A j \in JobIds :
       /\ run[j] \in {"checked", "ok", "err"} \cup InGit => job[j].status = "cloning"
       /\ run[j] \in {"error", "remove"} => job[j].status = "failed" /\ mu = j
  /\ RunningJobIsKnown

LEMMA StatusInit == Init => StatusInv
  BY DEF Init, StatusInv, RunningJobIsKnown, InGit, Finishing

\* What a step of a clone does to it and to the lock.
LEMMA StatusSteps ==
  ASSUME TypeInv, StatusInv, NEW j \in JobIds,
         Register(j) \/ Git(j) \/ Finish(j) \/ \E d \in Dirs : CloneCheck(j, d)
  PROVE  StatusInv'
<1> USE DEF StatusInv
<1>1. /\ run' = [run EXCEPT ![j] = run'[j]]
      /\ \A k \in JobIds \ {j} : k \in DOMAIN job => job'[k] = job[k]
      /\ jobs \subseteq jobs'
      /\ mu' = mu \/ (mu = Nobody /\ mu' = j) \/ mu = j
    BY DEF TypeInv, TypeOK, Register, Git, GitBegin, GitSucceed, GitFail, Finish, Lock,
           Complete, SetFailed, SetError, RemoveAll, CloneCheck, Goto, Put
<1>2. \A k \in JobIds \ {j} :
        /\ run'[k] = run[k] /\ (Active(k) => job'[k] = job[k])
        /\ run[k] \in {"error", "remove"} => mu' = k
  BY <1>1, CloneAssumption DEF TypeInv, TypeOK
<1>3. /\ run'[j] \in {"checked", "ok", "err"} \cup InGit => job'[j].status = "cloning"
      /\ run'[j] \in {"error", "remove"} => job'[j].status = "failed" /\ mu' = j
      /\ run'[j] \in InGit \cup Finishing => j \in jobs'
  <2>1. CASE \E d \in Dirs : CloneCheck(j, d)
    BY <2>1 DEF CloneCheck, Goto, Put, TypeInv, TypeOK, InGit, Finishing
  <2>2. CASE Register(j) \/ Git(j)
    BY <2>2 DEF Register, Git, GitBegin, GitSucceed, GitFail, Goto, TypeInv, TypeOK,
                InGit, Finishing, RunningJobIsKnown
  <2>3. CASE Finish(j)
    <3>1. j \in DOMAIN job /\ job[j] \in Job /\ j \in jobs
      BY <2>3 DEF Finish, Lock, Complete, SetFailed, SetError, RemoveAll, Goto, TypeInv,
                  TypeOK, Active, Finishing, RunningJobIsKnown
    <3> QED BY <2>3, <3>1
            DEF Finish, Lock, Complete, SetFailed, SetError, RemoveAll, Goto, TypeInv,
                TypeOK, Job, InGit, Finishing
  <2> QED BY <2>1, <2>2, <2>3
<1>4. RunningJobIsKnown'
  BY <1>1, <1>2, <1>3 DEF RunningJobIsKnown
<1> QED BY <1>2, <1>3, <1>4 DEF Active, InGit, Finishing

LEMMA StatusNext == TypeInv /\ StatusInv /\ [Next]_vars => StatusInv'
<1> SUFFICES ASSUME TypeInv, StatusInv, [Next]_vars
             PROVE  StatusInv'
  OBVIOUS
<1> USE DEF StatusInv, RunningJobIsKnown
<1>1. CASE Sweep
  <2>1. \A j \in JobIds : run[j] \in InGit \cup Finishing => job[j].status = "cloning"
    <3>1. \A j \in JobIds : mu # j
      BY <1>1, CloneAssumption DEF Sweep
    <3> QED BY <3>1 DEF InGit, Finishing
  <2> QED BY <1>1, <2>1 DEF Sweep, Expired, Ended
<1>2. CASE Tick
  <2>1. \A j \in JobIds : Active(j) => job'[j].status = job[j].status
    BY <1>2 DEF Tick, TypeInv, TypeOK, Job
  <2> QED BY <1>2, <2>1 DEF Tick, Active, InGit, Finishing
<1>3. CASE Restart
  BY <1>3 DEF Restart, InGit, Finishing
<1>4. ASSUME NEW c \in Creators, CreateMkdir(c) \/ \E d \in Dirs : CreateCheck(c, d)
      PROVE  StatusInv'
  BY <1>4 DEF CreateMkdir, CreateCheck
<1>5. ASSUME NEW p \in Pollers, Answer(p) \/ \E j \in JobIds : GetJob(p, j)
      PROVE  StatusInv'
  BY <1>5 DEF Answer, ReadStatus, ReadError, GetJob
<1>6. CASE UNCHANGED vars
  BY <1>6 DEF vars
<1> QED BY <1>1, <1>2, <1>3, <1>4, <1>5, <1>6, StatusSteps DEF Next, CleanUp

\* A clone in progress can be looked up: the sweep does not take it for an
\* expired one.
THEOREM RunningClonesAreKnown == Spec => []RunningJobIsKnown
<1>1. StatusInv => RunningJobIsKnown
  BY DEF StatusInv
<1> QED BY <1>1, TypeInit, TypeNext, StatusInit, StatusNext, PTL DEF Spec

----------------------------------------------------------------------------
(***************************************************************************)
(* Paths.  A path that is no rivals' has at most one request that means to *)
(* make it, and no other is under way for a path inside or around it; what *)
(* is there is what that request put there.                                *)
(***************************************************************************)
Into(j, d) == Active(j) /\ job[j].ws = d
At(c, d) == create[c].pc = "checked" /\ create[c].ws = d
Has(d, state, j) == d \in DOMAIN disk /\ disk[d] = [state |-> state, by |-> j]

OneMaker(d) ==
  \A e \in Near(d) :
    /\ \A j, k \in JobIds : Into(j, d) /\ Into(k, e) => j = k
    /\ \A c, b \in Creators : At(c, d) /\ At(b, e) => c = b
    /\ \A j \in JobIds, c \in Creators :
         ~ (Into(j, d) /\ At(c, e)) /\ ~ (Into(j, e) /\ At(c, d))

MakersWork(d) ==
  /\ \A j \in JobIds : Into(j, d) =>
       /\ Under[d] \cap DOMAIN disk = {}
       /\ run[j] \in {"checked", "begin"} => d \notin DOMAIN disk
       /\ run[j] = "git" => Has(d, "partial", j)
       /\ run[j] = "ok" => Has(d, "repo", j)
       /\ run[j] \in {"err", "error", "remove"} =>
            d \notin DOMAIN disk \/ Has(d, "partial", j)
  /\ \A c \in Creators : At(c, d) => d \notin DOMAIN disk

\* No clone is under way at d or around it when one into d is complete: its check
\* would have found d there.
CompletedStay(d) ==
  \A j \in DOMAIN job :
    job[j].ws = d /\ job[j].status = "completed" =>
      Has(d, "repo", j) /\ \A k \in JobIds, e \in {d} \cup Around(d) : ~ Into(k, e)

PathOK(d) == OneMaker(d) /\ MakersWork(d) /\ CompletedStay(d)
PathInv == \A d \in Dirs \ rivals : PathOK(d)

LEMMA PathInit == Init => PathInv
<1> SUFFICES ASSUME Init, NEW d \in Dirs
             PROVE  PathOK(d)
  BY DEF PathInv
<1>1. /\ \A j \in JobIds : \A e : ~ Into(j, e)
      /\ \A c \in Creators : \A e : ~ At(c, e)
      /\ DOMAIN job = {}
  BY EmptyMap DEF Init, Into, At, Active, InGit, Finishing, NoCreate
<1> QED BY <1>1 DEF PathOK, OneMaker, MakersWork, CompletedStay

\* A completed clone that a step does not touch, and no new clone endangers.
LEMMA CompletedStays ==
  ASSUME NEW d, CompletedStay(d),
         \A j : Has(d, "repo", j) => Has(d, "repo", j)',
         \A j \in JobIds, e \in {d} \cup Around(d) : Into(j, e)' => Into(j, e),
         \A j \in DOMAIN job' :
           job'[j].ws = d /\ job'[j].status = "completed" =>
             j \in DOMAIN job /\ job[j].ws = d /\ job[j].status = "completed"
  PROVE  CompletedStay(d)'
<1> SUFFICES ASSUME NEW j \in DOMAIN job', job'[j].ws = d, job'[j].status = "completed"
             PROVE  /\ Has(d, "repo", j)'
                    /\ \A k \in JobIds, e \in {d} \cup Around(d) : ~ Into(k, e)'
  BY DEF CompletedStay, Around
<1>1. /\ Has(d, "repo", j)
      /\ \A k \in JobIds, e \in {d} \cup Around(d) : ~ Into(k, e)
  BY DEF CompletedStay
<1> QED BY <1>1

\* A path that a step has nothing to do with.
LEMMA PathStays ==
  ASSUME NEW d \in Dirs, PathOK(d),
         d \in DOMAIN disk' <=> d \in DOMAIN disk,
         d \in DOMAIN disk => disk'[d] = disk[d],
         Under[d] \cap DOMAIN disk' \subseteq DOMAIN disk,
         \A j \in JobIds, e \in Near(d) : Into(j, e)' => Into(j, e),
         \A j \in JobIds : Into(j, d)' => run'[j] = run[j],
         \A c \in Creators, e \in Near(d) : At(c, e)' => At(c, e),
         \A j \in DOMAIN job' :
           job'[j].ws = d /\ job'[j].status = "completed" =>
             j \in DOMAIN job /\ job[j].ws = d /\ job[j].status = "completed"
  PROVE  PathOK(d)'
<1>1. d \in Near(d) /\ {d} \cup Around(d) \subseteq Near(d)
  BY DEF Near, Within
<1>2. OneMaker(d)'
  <2> SUFFICES ASSUME NEW e \in Near(d)
               PROVE  /\ \A j, k \in JobIds : Into(j, d)' /\ Into(k, e)' => j = k
                      /\ \A c, b \in Creators : At(c, d)' /\ At(b, e)' => c = b
                      /\ \A j \in JobIds, c \in Creators :
                           ~ (Into(j, d)' /\ At(c, e)') /\ ~ (Into(j, e)' /\ At(c, d)')
    BY DEF OneMaker, Near, Within, Around
  <2> QED BY <1>1 DEF PathOK, OneMaker
<1>3. \A state, j : Has(d, state, j)' <=> Has(d, state, j)
  BY DEF Has
<1>4. MakersWork(d)'
  BY <1>1, <1>3 DEF PathOK, MakersWork
<1>5. CompletedStay(d)'
  BY <1>1, <1>3, CompletedStays DEF PathOK
<1> QED BY <1>2, <1>4, <1>5 DEF PathOK

\* A path nobody is making.
LEMMA Unmade ==
  ASSUME NEW d \in Dirs, CompletedStay(d)',
         \A j \in JobIds : ~ Into(j, d)',
         \A c \in Creators : ~ At(c, d)'
  PROVE  PathOK(d)'
<1>1. OneMaker(d)' /\ MakersWork(d)'
  BY DEF OneMaker, MakersWork
<1> QED BY <1>1 DEF PathOK

\* Nothing is inside a path that is not there.
LEMMA NothingInside ==
  ASSUME TypeInv, NEW d \in Dirs, d \notin DOMAIN disk
  PROVE  Under[d] \cap DOMAIN disk = {}
  BY Nesting DEF TypeInv, TypeOK, Rooted

\* Where a request that passes its check is not alone, everybody is marked.
LEMMA Marks ==
  ASSUME NEW d \in Dirs, MarkRivals(d), TypeInv
  PROVE  /\ rivals \subseteq rivals'
         /\ \A e \in Near(d) \ rivals' :
              /\ \A j \in JobIds : ~ Into(j, e)
              /\ \A c \in Creators : ~ At(c, e)
         /\ d \notin rivals' =>
              \A e \in Near(d) : /\ \A j \in JobIds : ~ Into(j, e)
                                 /\ \A c \in Creators : ~ At(c, e)
<1>1. /\ \A j \in JobIds : \A e : Into(j, e) => e \in Busy
      /\ \A c \in Creators : \A e : At(c, e) => e \in Busy
  BY DEF Into, At, Active, Busy, Cloning, Creating
<1>2. /\ rivals \subseteq rivals'
      /\ Busy \cap Near(d) \subseteq rivals'
      /\ d \notin rivals' => Busy \cap Near(d) = {}
  BY DEF MarkRivals
<1> QED BY <1>1, <1>2

\* A request that finds a path absent, and nobody else about to make it.
LEMMA CreateCheckKeeps ==
  ASSUME TypeInv, PathInv, NEW c \in Creators, NEW d \in Dirs, CreateCheck(c, d)
  PROVE  PathInv'
<1>1. /\ create' = [create EXCEPT ![c] = [pc |-> "checked", ws |-> d]]
      /\ d \notin DOMAIN disk /\ MarkRivals(d)
      /\ UNCHANGED <<disk, run, job>>
  BY DEF CreateCheck
<1>2. \A b \in Creators : \A e : At(b, e)' <=> IF b = c THEN e = d ELSE At(b, e)
  BY <1>1 DEF At, TypeInv, TypeOK
<1>3. \A j \in JobIds : \A e : Into(j, e)' <=> Into(j, e)
  BY <1>1 DEF Into, Active
<1> SUFFICES ASSUME NEW e \in Dirs \ rivals'
             PROVE  PathOK(e)'
  BY DEF PathInv
<1>4. PathOK(e)
  BY <1>1, Marks DEF PathInv
<1>5. CompletedStay(e)'
  <2>1. \A j : Has(e, "repo", j) => Has(e, "repo", j)'
    BY <1>1 DEF Has
  <2> QED BY <1>1, <1>3, <1>4, <2>1, CompletedStays DEF PathOK
<1>6. CASE e = d
  <2>1. \A f \in Near(d) : /\ \A j \in JobIds : ~ Into(j, f)
                           /\ \A b \in Creators : ~ At(b, f)
    BY <1>1, <1>6, Marks
  <2>2. OneMaker(d)'
    <3> SUFFICES ASSUME NEW f \in Near(d)
                 PROVE  /\ \A j, k \in JobIds : Into(j, d)' /\ Into(k, f)' => j = k
                        /\ \A a, b \in Creators : At(a, d)' /\ At(b, f)' => a = b
                        /\ \A j \in JobIds, b \in Creators :
                             ~ (Into(j, d)' /\ At(b, f)') /\ ~ (Into(j, f)' /\ At(b, d)')
      BY DEF OneMaker, Near, Within, Around
    <3>1. d \in Near(d)
      BY DEF Near, Within
    <3> QED BY <1>2, <1>3, <2>1, <3>1
  <2>3. MakersWork(d)'
    <3>1. d \in Near(d)
      BY DEF Near, Within
    <3> QED BY <1>1, <1>3, <2>1, <3>1 DEF MakersWork
  <2> QED BY <1>5, <1>6, <2>2, <2>3 DEF PathOK
<1>7. CASE e # d /\ e \in Near(d)
  BY <1>1, <1>2, <1>3, <1>5, <1>7, Marks, Unmade
<1>8. CASE e # d /\ e \notin Near(d)
  <2>1. d \notin Near(e)
    BY <1>8, Nesting
  <2> QED BY <1>1, <1>2, <1>3, <1>4, <2>1, PathStays
<1> QED BY <1>6, <1>7, <1>8

LEMMA CloneCheckKeeps ==
  ASSUME TypeInv, PathInv, NEW j \in JobIds, NEW d \in Dirs, CloneCheck(j, d)
  PROVE  PathInv'
<1>1. /\ run[j] = "new" /\ run' = [run EXCEPT ![j] = "checked"]
      /\ d \notin DOMAIN disk /\ MarkRivals(d)
      /\ DOMAIN job' = DOMAIN job \cup {j}
      /\ \A k \in DOMAIN job \ {j} : job'[k] = job[k]
      /\ job'[j].ws = d /\ job'[j].status = "cloning"
      /\ UNCHANGED <<disk, create>>
  BY DEF CloneCheck, Goto, Put
<1>2. \A k \in JobIds : \A e :
        /\ Into(k, e)' <=> IF k = j THEN e = d ELSE Into(k, e)
        /\ k # j => run'[k] = run[k]
  BY <1>1 DEF Into, Active, TypeInv, TypeOK
<1>3. \A b \in Creators : \A e : At(b, e)' <=> At(b, e)
  BY <1>1 DEF At
<1> SUFFICES ASSUME NEW e \in Dirs \ rivals'
             PROVE  PathOK(e)'
  BY DEF PathInv
<1>4. PathOK(e)
  BY <1>1, Marks DEF PathInv
<1>5. CompletedStay(e)'
  <2> SUFFICES ASSUME NEW k \in DOMAIN job', job'[k].ws = e, job'[k].status = "completed"
               PROVE  /\ Has(e, "repo", k)'
                      /\ \A i \in JobIds, f \in {e} \cup Around(e) : ~ Into(i, f)'
    BY DEF CompletedStay, Around
  <2>1. k \in DOMAIN job \ {j} /\ job[k].ws = e /\ job[k].status = "completed"
    BY <1>1
  <2>2. /\ Has(e, "repo", k)
        /\ \A i \in JobIds, f \in {e} \cup Around(e) : ~ Into(i, f)
    BY <1>4, <2>1 DEF PathOK, CompletedStay
  <2>3. d \notin {e} \cup Around(e)
    BY <1>1, <2>2 DEF Has, TypeInv, Rooted
  <2> QED BY <1>1, <1>2, <2>2, <2>3 DEF Has
<1>6. CASE e = d
  <2>1. \A f \in Near(d) : /\ \A k \in JobIds : ~ Into(k, f)
                           /\ \A b \in Creators : ~ At(b, f)
    BY <1>1, <1>6, Marks
  <2>2. d \in Near(d)
    BY DEF Near, Within
  <2>3. OneMaker(d)'
    <3> SUFFICES ASSUME NEW f \in Near(d)
                 PROVE  /\ \A i, k \in JobIds : Into(i, d)' /\ Into(k, f)' => i = k
                        /\ \A a, b \in Creators : At(a, d)' /\ At(b, f)' => a = b
                        /\ \A k \in JobIds, b \in Creators :
                             ~ (Into(k, d)' /\ At(b, f)') /\ ~ (Into(k, f)' /\ At(b, d)')
      BY DEF OneMaker, Near, Within, Around
    <3> QED BY <1>2, <1>3, <2>1, <2>2
  <2>4. run'[j] = "checked"
    BY <1>1 DEF TypeInv, TypeOK
  <2>5. Under[d] \cap DOMAIN disk' = {}
    BY <1>1, NothingInside
  <2>6. MakersWork(d)'
    BY <1>1, <1>2, <1>3, <2>1, <2>2, <2>4, <2>5 DEF MakersWork
  <2> QED BY <1>5, <1>6, <2>3, <2>6 DEF PathOK
<1>7. CASE e # d /\ e \in Near(d)
  BY <1>1, <1>2, <1>3, <1>5, <1>7, Marks, Unmade
<1>8. CASE e # d /\ e \notin Near(d)
  <2>1. d \notin Near(e)
    BY <1>8, Nesting
  <2>2. \A k \in DOMAIN job' : job'[k].ws = e /\ job'[k].status = "completed" =>
          k \in DOMAIN job /\ job[k].ws = e /\ job[k].status = "completed"
    BY <1>1
  <2>3. \A k \in JobIds : Into(k, e)' => run'[k] = run[k]
    BY <1>2, <1>8
  <2> QED BY <1>1, <1>2, <1>3, <1>4, <2>1, <2>2, <2>3, PathStays
<1> QED BY <1>6, <1>7, <1>8

\* Another path than that of the request at work: if the two are near, nobody is
\* making it; if not, the step does not reach it.
LEMMA Elsewhere ==
  ASSUME TypeInv, NEW d \in Dirs, NEW e \in Dirs, d # e, PathOK(e), Touched(d),
         (\E j \in JobIds : Into(j, d)) \/ (\E c \in Creators : At(c, d)),
         (\A k \in JobIds : ~ Into(k, d)) => \A f \in DOMAIN disk : disk'[f] = disk[f]
                                                /\ f \in DOMAIN disk',
         \A k \in JobIds : \A f : Into(k, f)' => Into(k, f),
         \A k \in JobIds : Into(k, e)' => run'[k] = run[k],
         \A c \in Creators : \A f : At(c, f)' => At(c, f),
         \A k \in DOMAIN job' :
           job'[k].ws = e /\ job'[k].status = "completed" =>
             k \in DOMAIN job /\ job[k].ws = e /\ job[k].status = "completed"
  PROVE  PathOK(e)'
<1>1. CASE e \in Near(d)
  <2>1. d \in Near(e) /\ e \in Near(e)
    BY <1>1, Nesting DEF Near, Within
  <2>2. /\ \A k \in JobIds : ~ Into(k, e)
        /\ \A c \in Creators : ~ At(c, e)
    <3>1. /\ \A j, k \in JobIds : Into(j, e) /\ Into(k, d) => j = k
          /\ \A c, b \in Creators : At(c, e) /\ At(b, d) => c = b
          /\ \A j \in JobIds, c \in Creators :
               ~ (Into(j, e) /\ At(c, d)) /\ ~ (Into(j, d) /\ At(c, e))
      BY <2>1 DEF PathOK, OneMaker
    <3> QED BY <3>1 DEF Into, At
  <2>3. CompletedStay(e)'
    <3> SUFFICES ASSUME NEW k \in DOMAIN job', job'[k].ws = e, job'[k].status = "completed"
                 PROVE  /\ Has(e, "repo", k)'
                        /\ \A i \in JobIds, f \in {e} \cup Around(e) : ~ Into(i, f)'
      BY DEF CompletedStay, Around
    <3>1. /\ Has(e, "repo", k)
          /\ \A i \in JobIds, f \in {e} \cup Around(e) : ~ Into(i, f)
      BY DEF PathOK, CompletedStay
    <3>2. Has(e, "repo", k)'
      <4>1. CASE \A i \in JobIds : ~ Into(i, d)
        BY <3>1, <4>1 DEF Has
      <4>2. CASE d \notin Around(e)
        <5>1. e \notin Within(d)
          BY <4>2, Nesting DEF Within
        <5> QED BY <3>1, <5>1 DEF Has, Touched
      <4> QED BY <3>1, <4>1, <4>2
    <3> QED BY <3>1, <3>2
  <2> QED BY <2>2, <2>3, Unmade
<1>2. CASE e \notin Near(d)
  <2>1. e \notin Within(d) /\ e \notin Around(d)
    BY <1>2 DEF Near
  <2>2. Under[e] \cap ({d} \cup Around(d)) = {}
    <3> SUFFICES ASSUME NEW x \in Under[e], x = d \/ x \in Around(d)
                 PROVE  FALSE
      OBVIOUS
    <3>1. x \in Dirs
      BY PathAssumption
    <3>2. d \in Under[e]
      BY <3>1, Nesting DEF Around
    <3> QED BY <2>1, <3>2 DEF Around
  <2>3. /\ e \in DOMAIN disk' <=> e \in DOMAIN disk
        /\ e \in DOMAIN disk => disk'[e] = disk[e]
        /\ Under[e] \cap DOMAIN disk' \subseteq DOMAIN disk
    BY <2>1, <2>2 DEF Touched
  <2> QED BY <2>3, PathStays
<1> QED BY <1>1, <1>2

\* Create makes the directory it alone means to make.
LEMMA CreateMkdirKeeps ==
  ASSUME TypeInv, PathInv, NEW c \in Creators, NEW d, create[c].ws = d, CreateMkdir(c)
  PROVE  PathInv'
<1>1. /\ At(c, d) /\ create' = [create EXCEPT ![c] = NoCreate]
      /\ UNCHANGED <<run, job, rivals>>
  BY DEF CreateMkdir, At
<1>2. d \in Dirs
  BY <1>1 DEF At, TypeInv, TypeOK, NoCreate
<1>3. \A b \in Creators : \A e : At(b, e)' <=> b # c /\ At(b, e)
  BY <1>1 DEF At, NoCreate, TypeInv, TypeOK
<1>4. \A j \in JobIds : \A e : Into(j, e)' <=> Into(j, e)
  BY <1>1 DEF Into, Active
<1>5. Touched(d) /\ \A e \in DOMAIN disk : disk'[e] = disk[e] /\ e \in DOMAIN disk'
  <2>1. CASE disk' = disk
    BY <2>1 DEF Touched
  <2>2. CASE disk' = MakeDirs({d} \cup Around(d))
    <3>1. [state |-> "empty", by |-> Nobody] \in Contents
      BY DEF Contents
    <3>2. Touched(d)
      BY <1>2, <2>2, <3>1, DiskIsTyped, Makes
    <3> QED BY <2>2, <3>2 DEF MakeDirs
  <2> QED BY <2>1, <2>2 DEF CreateMkdir
<1> SUFFICES ASSUME NEW e \in Dirs \ rivals
             PROVE  PathOK(e)'
  BY <1>1 DEF PathInv
<1>6. PathOK(e)
  BY DEF PathInv
<1>7. CASE e # d
  BY <1>1, <1>2, <1>3, <1>4, <1>5, <1>6, <1>7, Elsewhere
<1>8. CASE e = d
  <2>1. d \in Near(d)
    BY DEF Near, Within
  <2>2. /\ \A j \in JobIds : ~ Into(j, d)'
        /\ \A b \in Creators : ~ At(b, d)'
        /\ d \notin DOMAIN disk
    BY <1>1, <1>3, <1>4, <1>6, <1>8, <2>1 DEF PathOK, OneMaker, MakersWork
  <2>3. CompletedStay(d)'
    BY <1>1, <1>6, <1>8, <2>2 DEF PathOK, CompletedStay, Has
  <2> QED BY <1>2, <1>8, <2>2, <2>3, Unmade
<1> QED BY <1>7, <1>8

\* A clone at work touches its own path, what is inside and what is around it.
LEMMA CloneKeeps ==
  ASSUME TypeInv, StatusInv, PathInv, NEW j \in JobIds, NEW d, job[j].ws = d,
         Register(j) \/ Git(j) \/ Finish(j)
  PROVE  PathInv'
<1>1. Into(j, d) /\ j \in DOMAIN job /\ job[j] \in Job /\ d \in Dirs
  BY DEF Register, Git, GitBegin, GitSucceed, GitFail, Finish, Lock, Complete, SetFailed,
         SetError, RemoveAll, Goto, Into, Active, InGit, Finishing, TypeInv, TypeOK, Job
<1>2. /\ run' = [run EXCEPT ![j] = run'[j]]
      /\ DOMAIN job' = DOMAIN job
      /\ job'[j].ws = d
      /\ \A k \in DOMAIN job \ {j} : job'[k] = job[k]
      /\ UNCHANGED <<create, rivals>>
  BY <1>1
     DEF Register, Git, GitBegin, GitSucceed, GitFail, Finish, Lock, Complete, SetFailed,
         SetError, RemoveAll, Goto, TypeInv, TypeOK, Job
<1>3. \A k \in JobIds : \A e :
        /\ Into(k, e)' => Into(k, e)
        /\ k # j => run'[k] = run[k]
  BY <1>1, <1>2 DEF Into, Active, TypeInv, TypeOK
<1>4. \A b \in Creators : \A e : At(b, e)' <=> At(b, e)
  BY <1>2 DEF At
<1>5. Touched(d)
  BY <1>1, CloneTouches
<1>6. ASSUME NEW e \in Dirs \ rivals, e # d
      PROVE  PathOK(e)'
  <2>1. PathOK(e)
    BY DEF PathInv
  <2>2. \A k \in JobIds : Into(k, e)' => run'[k] = run[k]
    BY <1>1, <1>3, <1>6 DEF Into
  <2>3. \A k \in DOMAIN job' : job'[k].ws = e /\ job'[k].status = "completed" =>
          k \in DOMAIN job /\ job[k].ws = e /\ job[k].status = "completed"
    BY <1>2, <1>6
  <2> QED BY <1>1, <1>3, <1>4, <1>5, <1>6, <2>1, <2>2, <2>3, Elsewhere
<1>7. ASSUME d \notin rivals
      PROVE  PathOK(d)'
  <2>1. PathOK(d) /\ d \in Near(d)
    BY <1>1, <1>7 DEF PathInv, Near, Within
  <2>2. \A e \in Near(d) : /\ \A k \in JobIds \ {j} : ~ Into(k, e)
                           /\ \A b \in Creators : ~ At(b, e)
    BY <1>1, <2>1 DEF PathOK, OneMaker
  <2>3. OneMaker(d)'
    <3> SUFFICES ASSUME NEW e \in Near(d)
                 PROVE  /\ \A i, k \in JobIds : Into(i, d)' /\ Into(k, e)' => i = k
                        /\ \A a, b \in Creators : At(a, d)' /\ At(b, e)' => a = b
                        /\ \A k \in JobIds, b \in Creators :
                             ~ (Into(k, d)' /\ At(b, e)') /\ ~ (Into(k, e)' /\ At(b, d)')
      BY DEF OneMaker, Near, Within, Around
    <3> QED BY <1>3, <1>4, <2>1, <2>2
  <2>4. /\ run'[j] = "begin" => d \notin DOMAIN disk'
        /\ run'[j] = "git" => Has(d, "partial", j)'
        /\ run'[j] = "ok" => Has(d, "repo", j)'
        /\ run'[j] \in {"err", "error", "remove"} =>
             d \notin DOMAIN disk' \/ Has(d, "partial", j)'
        /\ run'[j] # "checked"
    <3>1. CASE Register(j)
      BY <1>1, <2>1, <3>1 DEF Register, Goto, TypeInv, TypeOK, PathOK, MakersWork
    <3>2. CASE GitBegin(j) \/ GitSucceed(j)
      BY <1>1, <2>1, <3>2
         DEF GitBegin, GitSucceed, Goto, TypeInv, TypeOK, PathOK, MakersWork, Has, Mine, Put
    <3>3. CASE GitFail(j)
      <4>1. run'[j] = "err" /\ Has(d, "partial", j)
        BY <1>1, <2>1, <3>3 DEF GitFail, Goto, TypeInv, TypeOK, PathOK, MakersWork
      <4>2. CASE disk' = disk
        BY <4>1, <4>2 DEF Has
      <4>3. CASE RemoveTree(d)
        BY <1>1, <4>1, <4>3, DiskIsTyped, Removes DEF Has
      <4> QED BY <3>3, <4>1, <4>2, <4>3 DEF GitFail
    <3>4. CASE Finish(j)
      BY <1>1, <2>1, <3>4
         DEF Finish, Lock, Complete, SetFailed, SetError, RemoveAll, Goto, TypeInv, TypeOK,
             PathOK, MakersWork, Has
    <3> QED BY <3>1, <3>2, <3>3, <3>4 DEF Git
  <2>5. Under[d] \cap DOMAIN disk' = {}
    <3>1. Under[d] \cap DOMAIN disk = {}
      BY <1>1, <2>1 DEF PathOK, MakersWork
    <3>2. Under[d] \cap ({d} \cup Around(d)) = {}
      BY <1>1, Nesting, PathAssumption DEF Around
    <3> QED BY <1>5, <3>1, <3>2 DEF Touched
  <2>6. MakersWork(d)'
    <3>1. \A k \in JobIds : Into(k, d)' => k = j
      BY <1>3, <2>1, <2>2
    <3>2. \A b \in Creators : ~ At(b, d)'
      BY <1>4, <2>1, <2>2
    <3> QED BY <2>4, <2>5, <3>1, <3>2 DEF MakersWork
  <2>7. \A k \in DOMAIN job : job[k].ws = d => job[k].status # "completed"
    BY <1>1, <2>1 DEF PathOK, CompletedStay
  <2>8. job'[j].status = "completed" => Has(d, "repo", j)' /\ run'[j] = "done"
    <3>1. run[j] \in {"checked", "ok", "err"} \cup InGit => job[j].status = "cloning"
      BY DEF StatusInv
    <3>2. run[j] \in {"error", "remove"} => job[j].status = "failed"
      BY DEF StatusInv
    <3>3. job[j].status # "completed"
      BY <1>1, <2>7
    <3>4. CASE Complete(j)
      BY <1>1, <2>1, <3>4
         DEF Complete, Goto, TypeInv, TypeOK, PathOK, MakersWork, Has
    <3>5. CASE ~ Complete(j)
      BY <1>1, <3>3, <3>5
         DEF Register, Git, GitBegin, GitSucceed, GitFail, Finish, Lock, SetFailed,
             SetError, RemoveAll, Job
    <3> QED BY <3>4, <3>5
  <2>9. CompletedStay(d)'
    <3> SUFFICES ASSUME NEW k \in DOMAIN job', job'[k].ws = d, job'[k].status = "completed"
                 PROVE  /\ Has(d, "repo", k)'
                        /\ \A i \in JobIds, e \in {d} \cup Around(d) : ~ Into(i, e)'
      BY DEF CompletedStay, Around
    <3>1. k = j
      BY <1>2, <2>7
    <3>2. Has(d, "repo", j)' /\ ~ Active(j)'
      BY <2>8, <3>1 DEF Active, InGit, Finishing
    <3>3. \A i \in JobIds \ {j}, e \in {d} \cup Around(d) : ~ Into(i, e)'
      BY <1>3, <2>1, <2>2 DEF Near
    <3> QED BY <3>1, <3>2, <3>3 DEF Into
  <2> QED BY <2>3, <2>6, <2>9 DEF PathOK
<1> QED BY <1>1, <1>2, <1>6, <1>7 DEF PathInv

LEMMA PathNext == TypeInv /\ StatusInv /\ PathInv /\ [Next]_vars => PathInv'
<1> SUFFICES ASSUME TypeInv, StatusInv, PathInv, [Next]_vars
             PROVE  PathInv'
  OBVIOUS
<1>1. CASE Tick
  <2>1. /\ DOMAIN job' = DOMAIN job /\ UNCHANGED <<disk, run, create, rivals>>
        /\ \A j \in DOMAIN job : /\ job'[j].ws = job[j].ws
                                 /\ job'[j].status = job[j].status
    BY <1>1 DEF Tick, TypeInv, TypeOK, Job
  <2>2. \A j \in JobIds : \A d : Into(j, d)' <=> Into(j, d)
    BY <2>1 DEF Into, TypeInv, Active
  <2>3. \A c \in Creators : \A d : At(c, d)' <=> At(c, d)
    BY <2>1 DEF At
  <2> QED BY <2>1, <2>2, <2>3, PathStays DEF PathInv
<1>2. CASE Restart
  <2>1. /\ \A j \in JobIds : \A d : ~ Into(j, d)'
        /\ \A c \in Creators : \A d : ~ At(c, d)'
        /\ UNCHANGED <<disk, job, rivals>>
    BY <1>2 DEF Restart, Into, At, Active, InGit, Finishing, NoCreate
  <2> QED BY <2>1, PathStays DEF PathInv
<1>3. CASE Sweep \/ (\E p \in Pollers : Answer(p) \/ \E j \in JobIds : GetJob(p, j))
           \/ UNCHANGED vars
  <2>1. UNCHANGED <<disk, run, job, create, rivals>>
    BY <1>3 DEF Sweep, Answer, ReadStatus, ReadError, GetJob, vars
  <2> QED BY <2>1, PathStays DEF PathInv, Into, At, Active
<1> QED BY <1>1, <1>2, <1>3, CreateCheckKeeps, CloneCheckKeeps, CreateMkdirKeeps,
           CloneKeeps DEF Next, CleanUp

CloneInv == TypeInv /\ StatusInv /\ PathInv

LEMMA CloneInvInit == Init => CloneInv
  BY TypeInit, StatusInit, PathInit DEF CloneInv

LEMMA CloneInvNext == CloneInv /\ [Next]_vars => CloneInv'
  BY TypeNext, StatusNext, PathNext DEF CloneInv

\* Where no request for a path met another for the same path, one inside it or one
\* around it, a clone that is reported complete is on the disk, and stays.
THEOREM CompletedClonesStay == Spec => []CompletedCloneStays
<1>1. CloneInv => CompletedCloneStays
  BY DEF CloneInv, TypeInv, TypeOK, Job, PathInv, PathOK, CompletedStay, Has,
         CompletedCloneStays
<1> QED BY <1>1, CloneInvInit, CloneInvNext, PTL DEF Spec

\* There, what a failed clone removes recursively is its own directory only.
THEOREM CleanUpsHitTheirOwn == Spec => []CleanUpHitsItsOwn
<1>1. CloneInv => CleanUpHitsItsOwn
  <2> SUFFICES ASSUME CloneInv, NEW j \in JobIds, run[j] \in {"err", "error", "remove"},
                      job[j].ws \notin rivals
               PROVE  \A d \in Within(job[j].ws) \cap DOMAIN disk : d = job[j].ws /\ Mine(j)
    BY DEF CleanUpHitsItsOwn
  <2>1. Into(j, job[j].ws) /\ job[j].ws \in Dirs
    BY DEF Into, Active, Finishing, CloneInv, TypeInv, TypeOK, Job
  <2>2. MakersWork(job[j].ws)
    BY <2>1 DEF CloneInv, PathInv, PathOK
  <2> QED BY <2>1, <2>2 DEF MakersWork, Has, Mine, Within
<1> QED BY <1>1, CloneInvInit, CloneInvNext, PTL DEF Spec

----------------------------------------------------------------------------
(***************************************************************************)
(* CloneJobs implements JobService.  A job that is in the map, or that a   *)
(* poll has found there, was registered in the life of this process; it    *)
(* is forgotten only when it has ended, which StatusInv says of its object.*)
(***************************************************************************)
Outside == {"new", "checked", "lost"}

ServiceInv ==
  /\ \A j \in JobIds :
       run[j] = "done" => j \in DOMAIN job /\ job[j].status \in Ended
  /\ \A j \in jobs : run[j] \notin Outside
  /\ \A p \in Pollers : poll[p].pc = "status" => run[poll[p].id] \notin Outside

statuses == [j \in JobIds |-> StatusOf(j)]
told == [p \in Pollers |-> Told(p)]

LEMMA ServiceInit == Init => ServiceInv
  BY DEF Init, ServiceInv, NoPoll

\* What a step of one clone does to the others, and to polls.
LEMMA CloneLeaves ==
  ASSUME TypeInv, StatusInv, NEW j \in JobIds,
         Register(j) \/ Git(j) \/ Finish(j) \/ \E d \in Dirs : CloneCheck(j, d)
  PROVE  /\ poll' = poll
         /\ run' = [run EXCEPT ![j] = run'[j]]
         /\ DOMAIN job' = DOMAIN job \cup {j}
         /\ \A k \in DOMAIN job \ {j} : job'[k] = job[k]
         /\ run'[j] = "done" => job'[j].status \in Ended
         /\ run'[j] \notin Outside \/ (run[j] = "new" /\ run'[j] = "checked")
         /\ jobs' = jobs \/ (jobs' = jobs \cup {j} /\ run'[j] \notin Outside)
<1> USE DEF TypeInv, TypeOK
<1>1. CASE \E d \in Dirs : CloneCheck(j, d)
  BY <1>1 DEF CloneCheck, Goto, Put, Outside
<1>2. CASE Register(j) \/ Git(j)
  <2>1. j \in DOMAIN job
    BY <1>2 DEF Register, Git, GitBegin, GitSucceed, GitFail, Goto, Active, InGit
  <2> QED BY <1>2, <2>1 DEF Register, Git, GitBegin, GitSucceed, GitFail, Goto, Outside
<1>3. CASE Finish(j)
  <2>1. j \in DOMAIN job /\ job[j] \in Job
    BY <1>3 DEF Finish, Lock, Complete, SetFailed, SetError, RemoveAll, Goto, Active,
                Finishing
  <2>2. run[j] = "remove" => job[j].status = "failed"
    BY DEF StatusInv
  <2>3. /\ run' = [run EXCEPT ![j] = run'[j]]
        /\ run'[j] \notin Outside
        /\ poll' = poll /\ jobs' = jobs
    BY <1>3 DEF Finish, Lock, Complete, SetFailed, SetError, RemoveAll, Goto, Outside
  <2>4. /\ DOMAIN job' = DOMAIN job
        /\ \A k \in DOMAIN job \ {j} : job'[k] = job[k]
    BY <1>3, <2>1 DEF Finish, Lock, Complete, SetFailed, SetError, RemoveAll
  <2>5. run'[j] = "done" => job'[j].status \in Ended
    BY <1>3, <2>1, <2>2
       DEF Finish, Lock, Complete, SetFailed, SetError, RemoveAll, Goto, Ended, Job
  <2> QED BY <2>1, <2>3, <2>4, <2>5
<1> QED BY <1>1, <1>2, <1>3

LEMMA ServiceNext == TypeInv /\ StatusInv /\ ServiceInv /\ [Next]_vars => ServiceInv'
<1> SUFFICES ASSUME TypeInv, StatusInv, ServiceInv, [Next]_vars
             PROVE  ServiceInv'
  OBVIOUS
<1> USE DEF ServiceInv
<1>1. ASSUME NEW j \in JobIds,
             Register(j) \/ Git(j) \/ Finish(j) \/ \E d \in Dirs : CloneCheck(j, d)
      PROVE  ServiceInv'
  <2>1. /\ jobs \subseteq JobIds
        /\ \A p \in Pollers : poll[p].pc = "status" => poll[p].id \in JobIds
    BY DEF TypeInv, TypeOK, NoPoll
  <2>2. /\ poll' = poll
        /\ run' = [run EXCEPT ![j] = run'[j]]
        /\ DOMAIN job' = DOMAIN job \cup {j}
        /\ \A k \in DOMAIN job \ {j} : job'[k] = job[k]
        /\ run'[j] = "done" => job'[j].status \in Ended
        /\ run'[j] \notin Outside \/ (run[j] = "new" /\ run'[j] = "checked")
        /\ jobs' = jobs \/ (jobs' = jobs \cup {j} /\ run'[j] \notin Outside)
    BY <1>1, CloneLeaves
  <2>3. \A k \in JobIds \ {j} : run'[k] = run[k]
    BY <2>2 DEF TypeInv, TypeOK
  <2>4. \A k \in JobIds : run[k] \notin Outside => run'[k] \notin Outside
    BY <2>2, <2>3 DEF Outside
  <2>5. \A k \in JobIds : run'[k] = "done" => k \in DOMAIN job' /\ job'[k].status \in Ended
    BY <2>2, <2>3
  <2> QED BY <2>1, <2>2, <2>4, <2>5
<1>2. ASSUME NEW p \in Pollers, NEW j \in JobIds, GetJob(p, j)
      PROVE  ServiceInv'
  BY <1>2 DEF GetJob, TypeInv, TypeOK
<1>3. ASSUME NEW p \in Pollers, Answer(p)
      PROVE  ServiceInv'
  BY <1>3 DEF Answer, ReadStatus, ReadError, NoPoll, TypeInv, TypeOK
<1>4. CASE Tick
  BY <1>4 DEF Tick, TypeInv, TypeOK, Job
<1>5. CASE Restart
  BY <1>5 DEF Restart, NoPoll, Outside, TypeInv, TypeOK
<1>6. CASE Sweep \/ UNCHANGED vars
           \/ \E c \in Creators : CreateMkdir(c) \/ \E d \in Dirs : CreateCheck(c, d)
  BY <1>6 DEF Sweep, vars, CreateMkdir, CreateCheck
<1> QED BY <1>1, <1>2, <1>3, <1>4, <1>5, <1>6 DEF Next, CleanUp

\* A job's status, from its object.
LEMMA StatusOfJob ==
  ASSUME StatusInv, NEW j \in JobIds
  PROVE  /\ run[j] \in {"new", "checked"} => StatusOf(j) = "none"
         /\ run[j] = "lost" => StatusOf(j) = "lost"
         /\ run[j] \notin Outside => StatusOf(j) = job[j].status
         /\ run[j] \in {"ok", "err"} \cup InGit => StatusOf(j) = "cloning"
  BY DEF StatusInv, StatusOf, Outside, InGit

\* The steps of a clone: its status stays, or it is registered, or it ends.
LEMMA CloneMaps ==
  ASSUME TypeInv, StatusInv, StatusInv', ServiceInv, NEW j \in JobIds,
         Register(j) \/ Git(j) \/ Finish(j) \/ \E d \in Dirs : CloneCheck(j, d)
  PROVE  Service!Next \/ UNCHANGED <<statuses, jobs, told>>
<1>0. /\ poll' = poll
      /\ run' = [run EXCEPT ![j] = run'[j]]
      /\ \A k \in DOMAIN job \ {j} : job'[k] = job[k]
  BY CloneLeaves
<1> USE DEF TypeInv, TypeOK
<1>1. told' = told
  BY <1>0 DEF told, Told
<1>2. \A k \in JobIds \ {j} : StatusOf(k)' = StatusOf(k)
  <2> SUFFICES ASSUME NEW k \in JobIds \ {j}
               PROVE  StatusOf(k)' = StatusOf(k)
    OBVIOUS
  <2>1. run'[k] = run[k]
    BY <1>0
  <2>2. CASE run[k] \in Outside
    BY <2>1, <2>2 DEF StatusOf, Outside
  <2>3. CASE run[k] \notin Outside
    <3>1. k \in DOMAIN job
      BY <2>3 DEF ServiceInv, Active, Outside
    <3> QED BY <1>0, <2>1, <3>1 DEF StatusOf
  <2> QED BY <2>2, <2>3
<1>3. statuses' = [statuses EXCEPT ![j] = StatusOf(j)']
  BY <1>2 DEF statuses
<1>4. CASE StatusOf(j)' = StatusOf(j) /\ jobs' = jobs
  BY <1>1, <1>3, <1>4 DEF statuses
<1>5. CASE Register(j)
  <2>1. StatusOf(j) = "none" /\ StatusOf(j)' = "cloning"
    BY <1>5 DEF Register, Goto, StatusOf, StatusInv, InGit
  <2>2. jobs' = jobs \cup {j}
    BY <1>5 DEF Register
  <2>3. Service!Register(j)
    BY <1>1, <1>3, <2>1, <2>2 DEF Service!Register, statuses, told
  <2> QED BY <2>3 DEF Service!Next
<1>6. CASE Complete(j) \/ SetFailed(j)
  <2>1. j \in DOMAIN job /\ job[j] \in Job
    BY <1>6 DEF Complete, SetFailed, Goto, Active, Finishing
  <2>2. StatusOf(j) = "cloning" /\ StatusOf(j)' \in {"completed", "failed"}
    BY <1>6, <2>1 DEF Complete, SetFailed, Goto, StatusOf, StatusInv, Job
  <2>3. jobs' = jobs
    BY <1>6 DEF Complete, SetFailed
  <2>4. Service!End(j)
    BY <1>1, <1>3, <2>2, <2>3 DEF Service!End, Service!Outcomes, statuses, told
  <2> QED BY <2>4 DEF Service!Next
<1>7. CASE (\E d \in Dirs : CloneCheck(j, d)) \/ Git(j)
  BY <1>4, <1>7 DEF CloneCheck, Git, GitBegin, GitSucceed, GitFail, Goto, StatusOf
<1>8. CASE Lock(j) \/ SetError(j) \/ RemoveAll(j)
  <2>1. j \in DOMAIN job /\ job[j] \in Job
    BY <1>8 DEF Lock, SetError, RemoveAll, Goto, Active, Finishing
  <2> QED BY <1>4, <1>8, <2>1 DEF Lock, SetError, RemoveAll, Goto, StatusOf, Job
<1> QED BY <1>5, <1>6, <1>7, <1>8 DEF Finish

\* The steps of a poll, which finds its job registered.
LEMMA PollMaps ==
  ASSUME TypeInv, StatusInv, ServiceInv, NEW p \in Pollers,
         Answer(p) \/ \E j \in JobIds : GetJob(p, j)
  PROVE  Service!Next \/ UNCHANGED <<statuses, jobs, told>>
<1> USE DEF TypeInv, TypeOK
<1>1. UNCHANGED <<run, job, jobs, mu>> /\ statuses' = statuses
  BY DEF Answer, ReadStatus, ReadError, GetJob, statuses, StatusOf
<1>2. \A q \in Pollers \ {p} : Told(q)' = Told(q)
  BY DEF Answer, ReadStatus, ReadError, GetJob, Told
<1>3. told' = [told EXCEPT ![p] = Told(p)']
  BY <1>2 DEF told
<1>4. ASSUME NEW j \in JobIds, GetJob(p, j)
      PROVE  Service!Next
  <2>1. Told(p)' = [id |-> j, seen |-> "unread"]
    BY <1>4 DEF GetJob, Told
  <2>2. told[p].seen # "unread"
    <3>1. poll[p].pc = "answered" => poll[p].status \in Seen
      BY DEF NoPoll
    <3>2. Told(p).seen # "unread"
      BY <1>4, <3>1 DEF GetJob, Told, Seen, Status
    <3> QED BY <3>2 DEF told
  <2>3. Service!Ask(p, j)
    BY <1>1, <1>3, <1>4, <2>1, <2>2 DEF Service!Ask, statuses, told, GetJob
  <2> QED BY <2>3 DEF Service!Next
<1>5. CASE ReadStatus(p)
  <2>1. PICK seen \in {job[poll[p].id].status, "garbled"} :
          /\ seen = "garbled" => mu = poll[p].id /\ run[poll[p].id] \in {"ok", "err"}
          /\ poll' = [poll EXCEPT ![p] = [pc |-> "error", id |-> poll[p].id, status |-> seen]]
    BY <1>5 DEF ReadStatus
  <2>2. poll[p].pc = "status" /\ poll[p].id \in JobIds
    BY <1>5 DEF ReadStatus, NoPoll
  <2>3. StatusOf(poll[p].id) = job[poll[p].id].status
    BY <2>2, StatusOfJob DEF ServiceInv
  <2>4. seen = "garbled" => StatusOf(poll[p].id) = "cloning"
    BY <2>1, <2>2, StatusOfJob
  <2>5. Told(p) = [id |-> poll[p].id, seen |-> "unread"]
    BY <2>2 DEF Told
  <2>6. Told(p)' = [id |-> poll[p].id, seen |-> seen]
    BY <2>1 DEF Told
  <2>7. told[p] = [id |-> poll[p].id, seen |-> "unread"]
        /\ statuses[poll[p].id] = StatusOf(poll[p].id)
    BY <2>2, <2>5 DEF told, statuses
  <2>8. told' = [told EXCEPT ![p].seen = seen]
    <3>1. [told[p] EXCEPT !.seen = seen] = [id |-> poll[p].id, seen |-> seen]
      BY <2>7
    <3> QED BY <1>3, <2>6, <3>1
  <2>9. /\ seen \in {statuses[told[p].id], "garbled"}
        /\ seen = "garbled" => statuses[told[p].id] = "cloning"
        /\ told[p].seen = "unread"
    BY <2>1, <2>3, <2>4, <2>7
  <2>10. UNCHANGED <<statuses, jobs>>
    BY <1>1
  <2>11. Service!Read(p)
    BY <2>8, <2>9, <2>10 DEF Service!Read, statuses, told
  <2> QED BY <2>11 DEF Service!Next
<1>6. CASE ReadError(p)
  <2>1. CASE poll' = [poll EXCEPT ![p] = NoPoll]
    <3>1. Told(p)' = [seen |-> "none"]
      BY <2>1 DEF Told, NoPoll
    <3>2. Service!Break(p)
      BY <1>1, <1>3, <3>1 DEF Service!Break, Service!NoPoll, statuses, told
    <3> QED BY <3>2 DEF Service!Next
  <2>2. CASE Told(p)' = Told(p)
    BY <1>1, <1>3, <2>2 DEF told
  <2> QED BY <1>6, <2>1, <2>2 DEF ReadError, Told
<1> QED BY <1>4, <1>5, <1>6 DEF Answer

\* The clean-up forgets what has ended.
LEMMA SweepMaps ==
  ASSUME TypeInv, StatusInv, ServiceInv, Sweep
  PROVE  Service!Next
<1>1. UNCHANGED <<run, job, poll>> /\ jobs' = jobs \ {j \in jobs : Expired(j)}
  BY DEF Sweep
<1>2. statuses' = statuses /\ told' = told
  BY <1>1 DEF statuses, told, StatusOf, Told
<1>3. \A j \in {k \in jobs : Expired(k)} : statuses[j] \in {"completed", "failed"}
  BY StatusOfJob DEF ServiceInv, TypeInv, TypeOK, Expired, Ended, statuses
<1>4. {j \in jobs : Expired(j)} \in SUBSET JobIds
  BY DEF TypeInv, TypeOK
<1>5. Service!Forget({j \in jobs : Expired(j)})
  BY <1>1, <1>2, <1>3 DEF Service!Forget, Service!Outcomes, statuses, told
<1> QED BY <1>4, <1>5 DEF Service!Next

\* A restart loses what was under way.
LEMMA RestartMaps ==
  ASSUME TypeInv, StatusInv, ServiceInv, Restart
  PROVE  Service!Next
<1> DEFINE lost == {j \in JobIds : run[j] \notin {"new", "done"}}
<1> USE DEF TypeInv, TypeOK
<1>1. \A j \in lost : statuses[j] # "completed" /\ StatusOf(j)' = "lost"
  <2> SUFFICES ASSUME NEW j \in lost
               PROVE  statuses[j] # "completed" /\ StatusOf(j)' = "lost"
    OBVIOUS
  <2>1. run'[j] = "lost"
    BY DEF Restart
  <2>2. CASE run[j] \in Outside
    BY <2>1, <2>2 DEF statuses, StatusOf, Outside
  <2>3. CASE run[j] \notin Outside
    <3>1. run[j] \in {"ok", "err", "error", "remove"} \cup InGit
      BY <2>3 DEF Outside, Finishing
    <3> QED BY <2>1, <2>3, <3>1 DEF statuses, StatusOf, StatusInv, Outside
  <2> QED BY <2>2, <2>3
<1>2. \A j \in JobIds \ lost : statuses[j] # "cloning" /\ StatusOf(j)' = statuses[j]
  BY DEF Restart, statuses, StatusOf, ServiceInv, Ended
<1>3. statuses' = [j \in JobIds |-> IF j \in lost THEN "lost" ELSE statuses[j]]
  BY <1>1, <1>2 DEF statuses
<1>4. told' = [p \in Pollers |-> [seen |-> "none"]]
  BY DEF Restart, told, Told, NoPoll
<1>5. /\ lost \in SUBSET {j \in JobIds : statuses[j] # "completed"}
      /\ \A j \in JobIds : statuses[j] = "cloning" => j \in lost
  BY <1>1, <1>2
<1>6. jobs' = {}
  BY DEF Restart
<1>7. Service!Restart
  BY <1>3, <1>4, <1>5, <1>6 DEF Service!Restart, Service!NoPoll, statuses, told
<1> QED BY <1>7 DEF Service!Next

LEMMA ServiceMaps ==
  ASSUME TypeInv, StatusInv, StatusInv', ServiceInv, [Next]_vars
  PROVE  Service!Next \/ UNCHANGED <<statuses, jobs, told>>
<1>1. CASE Tick
  <2>1. UNCHANGED <<run, jobs, poll>>
        /\ \A j \in DOMAIN job : job'[j].status = job[j].status
    BY <1>1 DEF Tick, TypeInv, TypeOK, Job
  <2>2. \A j \in JobIds : run[j] \notin Outside => j \in DOMAIN job
    BY DEF ServiceInv, TypeInv, TypeOK, Active, Outside
  <2> QED BY <2>1, <2>2 DEF statuses, told, StatusOf, Told, Outside
<1>2. CASE UNCHANGED vars
           \/ \E c \in Creators : CreateMkdir(c) \/ \E d \in Dirs : CreateCheck(c, d)
  BY <1>2 DEF vars, CreateMkdir, CreateCheck, statuses, told, StatusOf, Told
<1> QED BY <1>1, <1>2, CloneMaps, PollMaps, SweepMaps, RestartMaps DEF Next, CleanUp

\* A client of clone jobs gets the jobs it counts on: one that is under way can be
\* looked up, ends once, and no poll is told what its job was not, whatever
\* the lock, the unlocked reads, the clean-up and restarts do meanwhile.
THEOREM ImplementsJobService == Spec => JobsAsPromised
<1>1. Init => Service!Init
  BY DEF Init, Service!Init, Service!NoPoll, StatusOf, Told, NoPoll
<1>2. Init => TypeInv /\ StatusInv /\ ServiceInv
  BY TypeInit, StatusInit, ServiceInit
<1>3. TypeInv /\ StatusInv /\ ServiceInv /\ [Next]_vars
        => (TypeInv /\ StatusInv /\ ServiceInv)'
  BY TypeNext, StatusNext, ServiceNext
<1>4. TypeInv /\ StatusInv /\ ServiceInv /\ [Next]_vars
        => [Service!Next]_<<[j \in JobIds |-> StatusOf(j)], jobs,
                            [p \in Pollers |-> Told(p)]>>
  BY <1>3, ServiceMaps DEF statuses, told
<1> QED BY <1>1, <1>2, <1>3, <1>4, PTL DEF Spec, JobsAsPromised, Service!Spec

=============================================================================
