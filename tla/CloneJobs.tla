----------------------------- MODULE CloneJobs -----------------------------
(***************************************************************************)
(* How workspaces come to be (internal/envoy/workspace_manager.go): Create *)
(* makes an empty directory, Clone registers a job and leaves "git clone"  *)
(* to a goroutine of its own, runClone, which records the outcome and, on  *)
(* failure, removes the directory.  Clients poll jobs; a ticker forgets    *)
(* them an hour after they ended.                                          *)
(*                                                                         *)
(* WorkspaceManager.mu guards the map of jobs.  runClone also holds it     *)
(* while it writes the job, but a poll encodes the job after it gave the   *)
(* lock back, and the check that a directory does not exist is made by     *)
(* request handlers with no lock at all.  Paths nest: Create forbids a     *)
(* slash in a name, Clone does not look at the name.                       *)
(***************************************************************************)
EXTENDS Naturals, FiniteSets, Functions

CONSTANTS
  JobIds,     \* job ids: random, never drawn twice; a bound on the clones
  Creators,   \* goroutines that serve POST /api/workspaces
  Pollers,    \* goroutines that serve GET /api/workspaces/clone
  Dirs,       \* workspace paths
  Under,      \* Under[d]: the paths inside d
  Nobody,     \* holder of a free lock; maker of a directory no clone put there
  TTL         \* ticks of the clean-up an ended job is kept: 1 hour / 10 minutes

ASSUME CloneAssumption == TTL \in Nat /\ Nobody \notin JobIds

ASSUME PathAssumption ==
  /\ Under \in [Dirs -> SUBSET Dirs]
  /\ \A d \in Dirs : d \notin Under[d] /\ \A e \in Under[d] : Under[e] \subseteq Under[d]

VARIABLES
  disk,      \* the directories under the workspace root, by path
  run,       \* run[j]: where the goroutine of clone j is
  job,       \* job[j]: the CloneJob object, shared by pointer
  jobs,      \* WorkspaceManager.jobs: the ids that can be looked up
  mu,        \* the job whose goroutine holds WorkspaceManager.mu, or Nobody
  create,    \* create[c]: a Create in progress and the path it checked
  poll,      \* poll[p]: a poll in progress and what it has read
  sweepDue,  \* the clean-up ticker has fired
  rivals     \* history: paths of requests that got in each other's way

vars == <<disk, run, job, jobs, mu, create, poll, sweepDue, rivals>>

----------------------------------------------------------------------------
\* What is in a directory, and which clone put it there.
Contents == [state : {"empty", "partial", "repo"}, by : JobIds \cup {Nobody}]

\* The age of a job whose EndTime is not set: the zero time is before any cutoff.
LongAgo == TTL + 1

Status == {"cloning", "completed", "failed"}
Ended == {"completed", "failed"}

\* What a poll can see: a string is a pointer and a length, and one that is
\* read while it is written can have the one of before and the other of after.
Seen == Status \cup {"garbled"}
Job == [ws : Dirs, status : Status, error : BOOLEAN, age : 0 .. LongAgo]

\* The steps of runClone before git exits, and after.
InGit == {"begin", "git"}
Finishing == {"ok", "err", "error", "remove"}

NoCreate == [pc |-> "idle"]
NoPoll == [pc |-> "idle"]

\* A path with all that is inside it, and the paths it is inside of.
Within(d) == {d} \cup Under[d]
Around(d) == {e \in Dirs : d \in Under[e]}
Near(d) == Within(d) \cup Around(d)

Put(map, key, value) ==
  [k \in DOMAIN map \cup {key} |-> IF k = key THEN value ELSE map[k]]

\* The disk with directories made where there were none.
MakeDirs(ds) ==
  [d \in DOMAIN disk \cup ds |->
    IF d \in DOMAIN disk THEN disk[d] ELSE [state |-> "empty", by |-> Nobody]]

\* Clones and Creates that passed their check and are not done, and their paths.
Cloning == {j \in JobIds : run[j] \in {"checked"} \cup InGit \cup Finishing}
Creating == {c \in Creators : create[c].pc = "checked"}
Busy == {job[j].ws : j \in Cloning} \cup {create[c].ws : c \in Creating}

\* A request for d passes its check while others are under way for d, for
\* something inside d or for something d is inside of.
MarkRivals(d) ==
  LET others == Busy \cap Near(d) IN
  rivals' = IF others = {} THEN rivals ELSE rivals \cup others \cup {d}

TypeOK ==
  /\ DOMAIN disk \subseteq Dirs
  /\ \A d \in DOMAIN disk : disk[d] \in Contents
  /\ run \in [JobIds -> {"new", "checked", "done", "lost"} \cup InGit \cup Finishing]
  /\ DOMAIN job \subseteq JobIds
  /\ \A j \in DOMAIN job : job[j] \in Job
  /\ jobs \subseteq DOMAIN job
  /\ mu \in JobIds \cup {Nobody}
  /\ create \in [Creators -> {NoCreate} \cup [pc : {"checked"}, ws : Dirs]]
  /\ poll \in [Pollers -> {NoPoll} \cup [pc : {"status"}, id : JobIds]
                \cup [pc : {"error"}, id : JobIds, status : Seen]
                \cup [pc : {"answered"}, id : JobIds, status : Seen, error : BOOLEAN]]
  /\ sweepDue \in BOOLEAN
  /\ rivals \subseteq Dirs

\* The workspace root is a volume: there may be workspaces from before.  What is
\* there has the directories it is in.
Workspace == [state : {"empty", "repo"}, by : {Nobody}]
Rooted(there) == \A d \in there : Around(d) \subseteq there

Init ==
  /\ disk \in UNION {[there -> Workspace] : there \in {s \in SUBSET Dirs : Rooted(s)}}
  /\ run = [j \in JobIds |-> "new"]
  /\ job = << >>
  /\ jobs = {}
  /\ mu = Nobody
  /\ create = [c \in Creators |-> NoCreate]
  /\ poll = [p \in Pollers |-> NoPoll]
  /\ sweepDue = FALSE
  /\ rivals = {}

Goto(j, from, to) == run[j] = from /\ run' = [run EXCEPT ![j] = to]

----------------------------------------------------------------------------
(***************************************************************************)
(* Create: the checks, of which that of the name leaves the paths at the   *)
(* top; then MkdirAll, which is content with a directory that is there     *)
(* already.                                                                *)
(***************************************************************************)
CreateCheck(c, d) ==
  /\ create[c].pc = "idle"
  /\ Around(d) = {}
  /\ d \notin DOMAIN disk
  /\ create' = [create EXCEPT ![c] = [pc |-> "checked", ws |-> d]]
  /\ MarkRivals(d)
  /\ UNCHANGED <<disk, run, job, jobs, mu, poll, sweepDue>>

CreateMkdir(c) ==
  /\ create[c].pc = "checked"
  /\ \/ disk' = MakeDirs({create[c].ws} \cup Around(create[c].ws))
     \/ UNCHANGED disk                                     \* MkdirAll fails
  /\ create' = [create EXCEPT ![c] = NoCreate]
  /\ UNCHANGED <<run, job, jobs, mu, poll, sweepDue, rivals>>

(***************************************************************************)
(* Clone: the check and the new job; then, under the lock, the job is put  *)
(* in the map, and its goroutine is started.                               *)
(***************************************************************************)
\* Mutant: a workspace that exists is cloned into all the same.
CloneUnchecked(j, d) ==
  /\ Goto(j, "new", "checked")
  /\ job' = Put(job, j, [ws |-> d, status |-> "cloning", error |-> FALSE, age |-> LongAgo])
  /\ MarkRivals(d)
  /\ UNCHANGED <<disk, jobs, mu, create, poll, sweepDue>>

CloneCheck(j, d) ==
  /\ d \notin DOMAIN disk
  /\ Goto(j, "new", "checked")
  /\ job' = Put(job, j, [ws |-> d, status |-> "cloning", error |-> FALSE, age |-> LongAgo])
  /\ MarkRivals(d)
  /\ UNCHANGED <<disk, jobs, mu, create, poll, sweepDue>>

Register(j) ==
  /\ mu = Nobody
  /\ Goto(j, "checked", "begin")
  /\ jobs' = jobs \cup {j}
  /\ UNCHANGED <<disk, job, mu, create, poll, sweepDue, rivals>>

(***************************************************************************)
(* git clone, a process outside: it refuses a directory with something in  *)
(* it, makes the directories around its own, and when it fails half way it *)
(* usually removes what is in its own, whoever put it there.  Paths that   *)
(* the repository itself brings are part of it and none of Dirs.           *)
(***************************************************************************)
Usable(d) ==
  d \in DOMAIN disk => disk[d].state = "empty" /\ Under[d] \cap DOMAIN disk = {}
Mine(j) == job[j].ws \in DOMAIN disk /\ disk[job[j].ws] = [state |-> "partial", by |-> j]

\* A removal of d with all that is in it, which may stop half way.
RemoveTree(d) ==
  \E gone \in SUBSET Within(d) :
    /\ \A e \in gone : Under[e] \subseteq gone
    /\ disk' = Restrict(disk, DOMAIN disk \ gone)

GitBegin(j) ==
  LET d == job[j].ws IN
  /\ \/ /\ Goto(j, "begin", "git")
        /\ Usable(d)
        /\ disk' = Put(MakeDirs(Around(d)), d, [state |-> "partial", by |-> j])
     \/ /\ Goto(j, "begin", "err")
        /\ UNCHANGED disk
  /\ UNCHANGED <<job, jobs, mu, create, poll, sweepDue, rivals>>

GitSucceed(j) ==
  /\ Goto(j, "git", "ok")
  /\ Mine(j)
  /\ disk' = [disk EXCEPT ![job[j].ws].state = "repo"]
  /\ UNCHANGED <<job, jobs, mu, create, poll, sweepDue, rivals>>

GitFail(j) ==
  /\ Goto(j, "git", "err")
  /\ \/ UNCHANGED disk
     \/ Mine(j) /\ RemoveTree(job[j].ws)
  /\ UNCHANGED <<job, jobs, mu, create, poll, sweepDue, rivals>>

(***************************************************************************)
(* The rest of runClone, under the lock.  Each write is a step: a poll may *)
(* read the job between any two of them.                                   *)
(***************************************************************************)
Lock(j) ==
  /\ run[j] \in {"ok", "err"}
  /\ mu = Nobody
  /\ mu' = j
  /\ job' = [job EXCEPT ![j].age = 0]            \* EndTime
  /\ UNCHANGED <<disk, run, jobs, create, poll, sweepDue, rivals>>

Complete(j) ==
  /\ mu = j
  /\ Goto(j, "ok", "done")
  /\ job' = [job EXCEPT ![j].status = "completed"]
  /\ mu' = Nobody
  /\ UNCHANGED <<disk, jobs, create, poll, sweepDue, rivals>>

\* Mutant: a status that is not one of those the client knows.
SetErrorStatus(j) ==
  /\ mu = j
  /\ Goto(j, "err", "error")
  /\ job' = [job EXCEPT ![j].status = "error"]
  /\ UNCHANGED <<disk, jobs, mu, create, poll, sweepDue, rivals>>

SetFailed(j) ==
  /\ mu = j
  /\ Goto(j, "err", "error")
  /\ job' = [job EXCEPT ![j].status = "failed"]
  /\ UNCHANGED <<disk, jobs, mu, create, poll, sweepDue, rivals>>

SetError(j) ==
  /\ Goto(j, "error", "remove")
  /\ job' = [job EXCEPT ![j].error = TRUE]
  /\ UNCHANGED <<disk, jobs, mu, create, poll, sweepDue, rivals>>

\* Mutant: the lock is not given back on the failure path.
RemoveKeepingLock(j) ==
  /\ Goto(j, "remove", "done")
  /\ RemoveTree(job[j].ws)
  /\ UNCHANGED <<job, jobs, mu, create, poll, sweepDue, rivals>>

\* os.RemoveAll of the job's path and of all that is inside it, whoever made what
\* is there; the result is ignored.
RemoveAll(j) ==
  /\ Goto(j, "remove", "done")
  /\ RemoveTree(job[j].ws)
  /\ mu' = Nobody
  /\ UNCHANGED <<job, jobs, create, poll, sweepDue, rivals>>

----------------------------------------------------------------------------
(***************************************************************************)
(* A poll: GetJob under the lock, then the encoder reads the fields of the *)
(* job in their order, Status before Error, without it: the data race with *)
(* runClone is a choice of what the reader sees.  The answer to a Clone    *)
(* request encodes the new job in the same way.                            *)
(***************************************************************************)
GetJob(p, j) ==
  /\ poll[p].pc \in {"idle", "answered"}
  /\ mu = Nobody
  /\ j \in jobs
  /\ poll' = [poll EXCEPT ![p] = [pc |-> "status", id |-> j]]
  /\ UNCHANGED <<disk, run, job, jobs, mu, create, sweepDue, rivals>>

ReadStatus(p) ==
  LET j == poll[p].id IN
  /\ poll[p].pc = "status"
  /\ \E seen \in {job[j].status, "garbled"} :
       /\ seen = "garbled" => mu = j /\ run[j] \in {"ok", "err"}
       /\ poll' = [poll EXCEPT ![p] = [pc |-> "error", id |-> j, status |-> seen]]
  /\ UNCHANGED <<disk, run, job, jobs, mu, create, sweepDue, rivals>>

\* An Error read while it is written can have a length and no pointer yet: the
\* handler panics and there is no answer.
ReadError(p) ==
  LET j == poll[p].id IN
  /\ poll[p].pc = "error"
  /\ \/ poll' = [poll EXCEPT ![p] =
            [pc |-> "answered", id |-> j, status |-> @.status, error |-> job[j].error]]
     \/ mu = j /\ run[j] = "error" /\ poll' = [poll EXCEPT ![p] = NoPoll]
  /\ UNCHANGED <<disk, run, job, jobs, mu, create, sweepDue, rivals>>

(***************************************************************************)
(* cleanupExpiredJobs.  An age counts the ticks since the job ended; after *)
(* TTL ticks the job is at most as old as the time to live, so the sweep   *)
(* forgets it at the next one.  The lock is never held for a whole period: *)
(* a tick is served before the next.                                       *)
(***************************************************************************)
Tick ==
  /\ ~ sweepDue
  /\ sweepDue' = TRUE
  /\ job' = [j \in DOMAIN job |->
       IF job[j].age < LongAgo THEN [job[j] EXCEPT !.age = @ + 1] ELSE job[j]]
  /\ UNCHANGED <<disk, run, jobs, mu, create, poll, rivals>>

\* Mutant: the sweep goes by the end time alone.
ExpiredByTime(j) == job[j].age > TTL

Expired(j) == job[j].status \in Ended /\ job[j].age > TTL

Sweep ==
  /\ sweepDue
  /\ mu = Nobody
  /\ sweepDue' = FALSE
  /\ jobs' = {j \in jobs : ~ Expired(j)}
  /\ UNCHANGED <<disk, run, job, mu, create, poll, rivals>>

\* The process dies, its git processes with it, and a new one starts with no
\* jobs.  What is on the disk stays.
Restart ==
  /\ run' = [j \in JobIds |-> IF run[j] \in {"new", "done"} THEN run[j] ELSE "lost"]
  /\ jobs' = {}
  /\ mu' = Nobody
  /\ create' = [c \in Creators |-> NoCreate]
  /\ poll' = [p \in Pollers |-> NoPoll]
  /\ sweepDue' = FALSE
  /\ UNCHANGED <<disk, job, rivals>>

----------------------------------------------------------------------------
Git(j) == GitBegin(j) \/ GitSucceed(j) \/ GitFail(j)
Finish(j) == Lock(j) \/ Complete(j) \/ SetFailed(j) \/ SetError(j) \/ RemoveAll(j)
Answer(p) == ReadStatus(p) \/ ReadError(p)
CleanUp == Tick \/ Sweep

Next ==
  \/ \E c \in Creators : CreateMkdir(c) \/ \E d \in Dirs : CreateCheck(c, d)
  \/ \E j \in JobIds : Git(j) \/ Finish(j) \/ Register(j) \/ \E d \in Dirs : CloneCheck(j, d)
  \/ \E p \in Pollers : Answer(p) \/ \E j \in JobIds : GetJob(p, j)
  \/ CleanUp
  \/ Restart

Spec == Init /\ [][Next]_vars

\* Goroutines that can run do, one that waits for the lock gets it in the end,
\* and the ticker ticks.  Nothing is assumed of git, which envoy gives no deadline.
FairSpec ==
  /\ Spec
  /\ \A j \in JobIds : SF_vars(Finish(j))
  /\ SF_vars(CleanUp)

----------------------------------------------------------------------------
(***************************************************************************)
(* Properties.  A path is in rivals once a request for it and another, for *)
(* the same path, one inside it or one around it, were under way together; *)
(* what is said of paths holds of the others.                              *)
(***************************************************************************)
\* A clone reported complete is on the disk, made by that job, and stays: no
\* clean-up of another clone, of that path or of one around it, and no Create
\* touches it.
CompletedCloneStays ==
  \A j \in DOMAIN job :
    job[j].status = "completed" /\ job[j].ws \notin rivals =>
      job[j].ws \in DOMAIN disk /\ disk[job[j].ws] = [state |-> "repo", by |-> j]

\* What a failed clone is about to remove, recursively, is what it left itself.
CleanUpHitsItsOwn ==
  \A j \in JobIds :
    run[j] \in {"err", "error", "remove"} /\ job[j].ws \notin rivals =>
      \A d \in Within(job[j].ws) \cap DOMAIN disk : d = job[j].ws /\ Mine(j)

\* Clients get the jobs they count on (JobService): a job under way can be
\* looked up, ends once, and no poll is told what its job was not.
StatusOf(j) ==
  CASE run[j] \in {"new", "checked"} -> "none"
    [] run[j] = "lost" -> "lost"
    [] OTHER -> job[j].status

Told(p) ==
  CASE poll[p].pc = "idle" -> [seen |-> "none"]
    [] poll[p].pc = "status" -> [id |-> poll[p].id, seen |-> "unread"]
    [] OTHER -> [id |-> poll[p].id, seen |-> poll[p].status]

Service == INSTANCE JobService
  WITH status <- [j \in JobIds |-> StatusOf(j)], known <- jobs,
       poll <- [p \in Pollers |-> Told(p)]

JobsAsPromised == Service!Spec

\* A clone in progress can be looked up: the sweep, for which a job that has
\* not ended is older than any cutoff, goes by the status.
RunningJobIsKnown ==
  \A j \in JobIds : run[j] \in InGit \cup Finishing => j \in jobs

\* Once git has exited, the job ends, whatever holds the lock meanwhile, and is
\* forgotten.
JobEnds ==
  \A j \in JobIds :
    run[j] \in {"ok", "err"} ~> run[j] \in {"done", "lost"} /\ j \notin jobs

----------------------------------------------------------------------------
(***************************************************************************)
(* What the documentation says, and the code does not keep.                *)
(***************************************************************************)
\* "Failed clones attempt to clean up partial directories".
OnlyPartialDirsRemoved ==
  [][\A d \in DOMAIN disk : d \notin DOMAIN disk' => disk[d].state = "partial"]_vars

\* "failed: Clone failed (check error field)".
FailureCarriesError ==
  \A p \in Pollers :
    poll[p].pc = "answered" /\ poll[p].status = "failed" => poll[p].error

=============================================================================
