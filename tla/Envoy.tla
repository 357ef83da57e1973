------------------------------- MODULE Envoy -------------------------------
(***************************************************************************)
(* The envoy process: the sleeve manager, the clone jobs and the branch    *)
(* operations together, over one set of workspaces, one list of sleeves    *)
(* and one process that dies and restarts as a whole.                      *)
(*                                                                         *)
(* The components meet in three places.  A Spawn needs its workspace on    *)
(* the disk; a branch operation reads the disk and the list of sleeves; a  *)
(* failed clone removes a directory that a sleeve may have mounted.        *)
(***************************************************************************)
EXTENDS SleeveManager

CONSTANTS
  JobIds, Creators, Under, Nobody, TTL,    \* of CloneJobs
  Ops, Heads, DefaultHead                  \* of BranchOps

ASSUME HeadAssumption == DefaultHead \in Heads
ASSUME JobAssumption == TTL \in Nat /\ Nobody \notin JobIds
ASSUME UnderAssumption ==
  /\ Under \in [Workspaces -> SUBSET Workspaces]
  /\ \A v \in Workspaces : v \notin Under[v] /\ \A w \in Under[v] : Under[w] \subseteq Under[v]

VARIABLES
  disk, run, job, jobs, mu, create, sweepDue, rivals,   \* of CloneJobs
  op, tree,   \* of BranchOps
  early,      \* history: workspaces spawned on while a clone over them was under way
  asked       \* history: what op o could not see when it read the list

Clones == INSTANCE CloneJobs WITH Dirs <- Workspaces, Pollers <- {}, poll <- << >>

\* git makes the .git directory first, so a clone in progress has one.
Repos == {w \in DOMAIN disk : disk[w].state # "empty"}
Listed == {sleeves[n].ws : n \in DOMAIN sleeves}

Branch == INSTANCE BranchOps WITH repos <- Repos, listed <- Listed

managerVars == vars
cloneVars == <<disk, run, job, jobs, mu, create, sweepDue, rivals>>
branchVars == <<op, tree>>
history == <<early, asked>>
envoyVars == <<managerVars, cloneVars, branchVars, history>>

\* Clones under way into w or into something w is inside of.
CloningOver(w) == {j \in Clones!Cloning : w \in Clones!Within(job[j].ws)}

Mounted(w) == \E n \in DOMAIN containers : Running(n) /\ containers[n].ws = w
UnderWay == {n \in Names : \E t \in Threads : Spawning(t, n)}
NothingAsked == [lastId |-> 0, underWay |-> {}]

EnvoyTypeOK ==
  /\ TypeOK
  /\ Clones!TypeOK
  /\ Branch!BranchTypeOK
  /\ early \subseteq Workspaces
  /\ asked \in [Ops -> [lastId : Nat, underWay : SUBSET Names]]

EnvoyInit ==
  /\ Init
  /\ Clones!Init
  /\ Branch!BranchInit
  /\ early = {}
  /\ asked = [o \in Ops |-> NothingAsked]

----------------------------------------------------------------------------
SpawnRequest(t, w) ==
  /\ w \in DOMAIN disk                      \* os.Stat
  /\ AllocateName(t, w) \/ \E n \in Names : ReserveNamed(t, n, w)
  /\ early' = IF CloningOver(w) # {} THEN early \cup {w} ELSE early

\* The daemon refuses to create or start a container whose mount is not there.
MountSource(t) ==
  pc[t] \in {"create", "start"} /\ containers' # containers => local[t].ws \in DOMAIN disk

Manager(t) ==
  /\ \/ \E w \in Workspaces : SpawnRequest(t, w)
     \/ \E n \in Names : KillLookup(t, n) /\ UNCHANGED early
     \/ SpawnStep(t) /\ MountSource(t) /\ UNCHANGED early
     \/ KillStep(t) /\ UNCHANGED early
  /\ UNCHANGED <<cloneVars, branchVars, asked>>

\* A clone's directory appears with the default branch checked out.
Cloning ==
  /\ up
  /\ \/ \E c \in Creators :
          Clones!CreateMkdir(c) \/ \E w \in Workspaces : Clones!CreateCheck(c, w)
     \/ \E j \in JobIds :
          \/ Clones!Git(j) \/ Clones!Finish(j) \/ Clones!Register(j)
          \/ \E w \in Workspaces : Clones!CloneCheck(j, w)
     \/ Clones!CleanUp
  /\ tree' = [w \in Workspaces |->
               IF w \in Repos' \ Repos THEN Branch!FreshTree ELSE tree[w]]
  /\ UNCHANGED <<managerVars, op, history>>

Branching(o) ==
  /\ up
  /\ Branch!BranchStep(o)
  /\ asked' = [asked EXCEPT ![o] =
       IF op'[o].pc \in {"idle", "conflict"} THEN NothingAsked
       ELSE IF op[o].pc = "inuse" THEN [lastId |-> lastId, underWay |-> UnderWay]
       ELSE @]
  /\ UNCHANGED <<managerVars, cloneVars, early>>

\* A sleeve may do anything to its working tree, and so may a shell: envoy
\* serves one of its own.
TreeChanges(w) ==
  /\ w \in Repos
  /\ \E after \in Branch!Tree : tree' = [tree EXCEPT ![w] = after]
  /\ UNCHANGED <<managerVars, cloneVars, op, history>>

Exits ==
  /\ \E n \in Names : ContainerExits(n)
  /\ UNCHANGED <<cloneVars, branchVars, history>>

ProcessEnds ==
  /\ Crash
  /\ Clones!Restart
  /\ Branch!OpsLost
  /\ asked' = [o \in Ops |-> NothingAsked]
  /\ UNCHANGED early

ProcessStarts ==
  /\ RecoverSleeves
  /\ UNCHANGED <<cloneVars, branchVars, history>>

EnvoyNext ==
  \/ \E t \in Threads : Manager(t)
  \/ Cloning
  \/ \E o \in Ops : Branching(o)
  \/ \E w \in Workspaces : TreeChanges(w)
  \/ Exits
  \/ ProcessEnds
  \/ ProcessStarts

EnvoySpec == EnvoyInit /\ [][EnvoyNext]_envoyVars

----------------------------------------------------------------------------
(***************************************************************************)
(* Properties of the composition.                                          *)
(***************************************************************************)
\* The in-use check has three blind spots for the sleeves that mount the very
\* path: when git may change a tree under one that runs, its Spawn was under way
\* when the operation read the list, or its container was created later, or two
\* Kills contested its name and took it off the list.  (A sleeve on a path inside
\* or around the repository is not looked for: the check compares strings.)
InUseBlindSpots ==
  \A o \in Ops : op[o].pc \in {"clean", "git", "track"} =>
    \A n \in DOMAIN containers :
      Running(n) /\ containers[n].ws = op[o].ws =>
        \/ n \in asked[o].underWay
        \/ containers[n].id > asked[o].lastId
        \/ n \in contested

\* A sleeve keeps its workspace: what a running sleeve has mounted is on the
\* disk, unless it was spawned while a clone into it, or into something it is
\* inside of, was under way.
MountedStays ==
  \A n \in DOMAIN containers :
    Running(n) /\ containers[n].ws \notin early => containers[n].ws \in DOMAIN disk

----------------------------------------------------------------------------
(***************************************************************************)
(* What the documentation says, and the in-use check does not keep.        *)
(***************************************************************************)
\* "No surprises: Envoy doesn't modify workspace while sleeve runs": git does
\* not change a tree that a running sleeve has mounted.
GitLeavesMounted ==
  [][\A w \in Workspaces : Mounted(w) /\ op' # op => tree'[w] = tree[w]]_envoyVars

=============================================================================
