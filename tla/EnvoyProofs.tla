---------------------------- MODULE EnvoyProofs ----------------------------
(***************************************************************************)
(* Proofs about the whole process.  Every step of the envoy is a step of   *)
(* its sleeve manager or leaves the manager alone, so what is proved of    *)
(* the manager holds of the envoy; where the components meet there is more *)
(* to prove: which sleeves the in-use check misses, and that a running     *)
(* sleeve keeps its workspace.                                             *)
(***************************************************************************)
EXTENDS Envoy, SleeveDockerProofs

----------------------------------------------------------------------------
(***************************************************************************)
(* The manager inside the envoy.                                           *)
(***************************************************************************)
\* What an envoy step is to the manager.
LEMMA ManagerSteps ==
  ASSUME [EnvoyNext]_envoyVars
  PROVE  [Next]_vars
<1>1. ASSUME NEW t \in Threads, Manager(t)
      PROVE  Next
  <2>1. Request(t) \/ SpawnStep(t) \/ KillStep(t)
    BY <1>1 DEF Manager, SpawnRequest, Request
  <2> QED BY <2>1 DEF Next
<1>2. CASE Exits \/ ProcessEnds \/ ProcessStarts
  BY <1>2 DEF Exits, ProcessEnds, ProcessStarts, Next, Environment
<1>3. CASE \/ Cloning \/ (\E o \in Ops : Branching(o))
           \/ (\E w \in Workspaces : TreeChanges(w)) \/ UNCHANGED envoyVars
  BY <1>3 DEF Cloning, Branching, TreeChanges, envoyVars, managerVars
<1> QED BY <1>1, <1>2, <1>3 DEF EnvoyNext

\* The envoy is a sleeve manager: with a disk to look at, and branch
\* operations beside it, it does nothing that the manager alone does not do.
THEOREM EnvoyImplementsManager == EnvoySpec => Spec
<1>1. EnvoyInit => Init
  BY DEF EnvoyInit
<1> QED BY <1>1, ManagerSteps, PTL DEF EnvoySpec, Spec

\* A call does not end the process.
LEMMA ManagerUp ==
  ASSUME NEW t \in Threads, Manager(t)
  PROVE  up' = up
  BY DEF Manager, SpawnRequest, AllocateName, ReserveNamed, Reserve, KillLookup,
         SpawnStep, KillStep, AllocatePort, ListNetworks, CreateNetwork, CreateContainer,
         StartContainer, CleanUp, ReleaseAborted, Publish, FindContainer, StopContainer,
         RemoveContainer, DeleteSleeve, ReleaseKilled

\* The manager's invariant, with what the daemon knows of workspaces.
WorkspacesAgree ==
  /\ \A m \in DOMAIN sleeves : sleeves[m].cid <= lastId
  /\ \A m \in DOMAIN sleeves, n \in DOMAIN containers :
       sleeves[m].cid = containers[n].id => sleeves[m].ws = containers[n].ws
  /\ \A t \in Threads, n \in DOMAIN containers :
       Created(t) /\ local[t].cid = containers[n].id => local[t].ws = containers[n].ws

\* Steps that make no container, list nothing and name no container to a Spawn.
LEMMA AgreementStays ==
  ASSUME WorkspacesAgree, lastId' = lastId,
         DOMAIN containers' \subseteq DOMAIN containers,
         \A n \in DOMAIN containers' : /\ containers'[n].id = containers[n].id
                                       /\ containers'[n].ws = containers[n].ws,
         DOMAIN sleeves' \subseteq DOMAIN sleeves,
         \A n \in DOMAIN sleeves' : sleeves'[n] = sleeves[n],
         \A t \in Threads : Created(t)' => Created(t) /\ local'[t] = local[t]
  PROVE  WorkspacesAgree'
  BY DEF WorkspacesAgree

LEMMA AgreementNext ==
  ASSUME ManagerInv, WorkspacesAgree, [Next]_vars
  PROVE  WorkspacesAgree'
<1> USE DEF ManagerInv, NameInv, TypeInv, TypeOK, docker, memory
<1>1. ASSUME NEW t \in Threads, CreateContainer(t)
      PROVE  WorkspacesAgree'
  <2> DEFINE n == local[t].name
  <2>1. /\ pc[t] = "create" /\ pc' = [pc EXCEPT ![t] = pc'[t]]
        /\ sleeves' = sleeves
    BY <1>1 DEF CreateContainer, Goto
  <2>2. CASE UNCHANGED <<containers, lastId, local>>
    <3>1. pc'[t] = "abort"
      BY <1>1, <2>2 DEF CreateContainer, Goto
    <3> QED BY <2>1, <2>2, <3>1, AgreementStays DEF Created
  <2>3. CASE ~ UNCHANGED <<containers, lastId, local>>
    <3>1. /\ lastId' = lastId + 1
          /\ DOMAIN containers' = DOMAIN containers \cup {n}
          /\ containers'[n].id = lastId + 1 /\ containers'[n].ws = local[t].ws
          /\ \A k \in DOMAIN containers \ {n} : containers'[k] = containers[k]
          /\ local'[t].cid = lastId + 1 /\ local'[t].ws = local[t].ws
          /\ \A u \in Threads \ {t} : local'[u] = local[u]
      BY <1>1, <2>3 DEF CreateContainer, Put, Locals
    <3>2. \A k \in DOMAIN containers : containers[k].id \in 1 .. lastId
      BY DEF DockerInv, IdsUnique
    <3>3. \A u \in Threads : local[u].cid \in Nat /\ local[u].cid <= lastId
      BY DEF DockerInv, IdsUnique, Locals
    <3>4. \A m \in DOMAIN sleeves : sleeves[m].cid \in Nat
      BY DEF SleeveInfo
    <3> QED BY <2>1, <3>1, <3>2, <3>3, <3>4 DEF WorkspacesAgree, Created
  <2> QED BY <2>2, <2>3
<1>2. ASSUME NEW t \in Threads, StartContainer(t)
      PROVE  WorkspacesAgree'
  <2>1. /\ pc[t] = "start" /\ pc' = [pc EXCEPT ![t] = pc'[t]]
        /\ UNCHANGED <<local, sleeves, lastId>>
        /\ DOMAIN containers' = DOMAIN containers
        /\ \A n \in DOMAIN containers : /\ containers'[n].id = containers[n].id
                                        /\ containers'[n].ws = containers[n].ws
    BY <1>2 DEF StartContainer, Goto, Container
  <2> QED BY <2>1, AgreementStays DEF Created
<1>3. ASSUME NEW t \in Threads, Publish(t)
      PROVE  WorkspacesAgree'
  <2> DEFINE n == local[t].name
  <2>1. /\ Created(t) /\ pc' = [pc EXCEPT ![t] = "idle"]
        /\ \A u \in Threads \ {t} : local'[u] = local[u]
        /\ DOMAIN sleeves' = DOMAIN sleeves \cup {n}
        /\ sleeves'[n].cid = local[t].cid /\ sleeves'[n].ws = local[t].ws
        /\ \A k \in DOMAIN sleeves \ {n} : sleeves'[k] = sleeves[k]
        /\ UNCHANGED <<containers, lastId>>
    BY <1>3 DEF Publish, Return, Goto, Put, Created
  <2>2. local[t].cid <= lastId
    BY DEF DockerInv, IdsUnique
  <2> QED BY <2>1, <2>2 DEF WorkspacesAgree, Created
<1>4. ASSUME NEW t \in Threads, CleanUp(t) \/ StopContainer(t) \/ RemoveContainer(t)
      PROVE  WorkspacesAgree'
  <2>1. /\ UNCHANGED <<sleeves, lastId>>
        /\ pc' = [pc EXCEPT ![t] = pc'[t]] /\ pc'[t] \in {"abort", "remove", "delete", "idle"}
        /\ \A u \in Threads \ {t} : local'[u] = local[u]
    BY <1>4 DEF CleanUp, StopContainer, RemoveContainer, Return, Goto
  <2>2. /\ DOMAIN containers' \subseteq DOMAIN containers
        /\ \A n \in DOMAIN containers' : /\ containers'[n].id = containers[n].id
                                         /\ containers'[n].ws = containers[n].ws
    <3>1. CASE Remove(local[t].cid)
      BY <3>1, RemovesItsOwn
    <3>2. CASE containers' = containers
      BY <3>2
    <3>3. CASE StopContainer(t)
      BY <3>3 DEF StopContainer, Container
    <3> QED BY <1>4, <3>1, <3>2, <3>3 DEF CleanUp, RemoveContainer
  <2> QED BY <2>1, <2>2, AgreementStays DEF Created
<1>5. ASSUME NEW t \in Threads,
             \/ Request(t) \/ AllocatePort(t) \/ ListNetworks(t) \/ CreateNetwork(t)
             \/ ReleaseAborted(t) \/ FindContainer(t) \/ DeleteSleeve(t) \/ ReleaseKilled(t)
      PROVE  WorkspacesAgree'
  <2>1. /\ pc' = [pc EXCEPT ![t] = pc'[t]] /\ ~ Created(t)'
        /\ \A u \in Threads \ {t} : local'[u] = local[u]
    BY <1>5 DEF Request, ReserveNamed, AllocateName, Reserve, KillLookup, AllocatePort,
                ListNetworks, CreateNetwork, ReleaseAborted, FindContainer, DeleteSleeve,
                ReleaseKilled, Return, Goto, Created
  <2>2. /\ UNCHANGED <<containers, lastId>>
        /\ DOMAIN sleeves' \subseteq DOMAIN sleeves
        /\ \A n \in DOMAIN sleeves' : sleeves'[n] = sleeves[n]
    BY <1>5 DEF Request, ReserveNamed, AllocateName, Reserve, KillLookup, AllocatePort,
                ListNetworks, CreateNetwork, ReleaseAborted, FindContainer, DeleteSleeve,
                ReleaseKilled, Drop, Restrict
  <2> QED BY <2>1, <2>2, AgreementStays DEF Created
<1>6. CASE Crash
  BY <1>6, EmptyMap, AgreementStays DEF Crash, Created
<1>7. CASE RecoverSleeves
  <2>1. /\ UNCHANGED <<pc, local, containers, lastId>>
        /\ DOMAIN sleeves' = DOMAIN containers
        /\ \A n \in DOMAIN containers : /\ sleeves'[n].cid = containers[n].id
                                        /\ sleeves'[n].ws = containers[n].ws
    BY <1>7 DEF RecoverSleeves, RecoveredSleeve
  <2> QED BY <2>1 DEF WorkspacesAgree, Created, DockerInv, IdsUnique
<1>8. CASE (\E n \in Names : ContainerExits(n)) \/ UNCHANGED vars
  BY <1>8, AgreementStays DEF ContainerExits, vars, Created, Container
<1> QED BY <1>1, <1>2, <1>3, <1>4, <1>5, <1>6, <1>7, <1>8
        DEF Next, Environment, SpawnStep, KillStep

----------------------------------------------------------------------------
(***************************************************************************)
(* What the in-use check misses.  When the check passes, a running sleeve  *)
(* that mounts the workspace is not listed: two Kills contested its name,  *)
(* or its Spawn has yet to list it.  Later ones are of Spawns that were    *)
(* under way then, or have ids that were not given out yet.                *)
(***************************************************************************)
Passed(o) == op[o].pc \in {"clean", "git", "track"}

OpTyped ==
  /\ op \in [Ops -> {Branch!NoOp} \cup Branch!Request
                      \cup [pc : {"conflict"}, ws : Workspaces]]
  /\ asked \in [Ops -> [lastId : Nat, underWay : SUBSET Names]]

MissedInv ==
  /\ InUseBlindSpots
  /\ OpTyped
  /\ \A o \in Ops : Passed(o) => asked[o].lastId \in 0 .. lastId
  /\ \A o \in Ops, t \in Threads :
       Passed(o) /\ pc[t] = "start" /\ local[t].cid <= asked[o].lastId =>
         local[t].name \in asked[o].underWay

\* What the check that passes has seen.
LEMMA CheckPasses ==
  ASSUME ManagerInv, WorkspacesAgree, up, NEW w \in Workspaces, w \notin Listed,
         NEW n \in DOMAIN containers \ contested, Running(n), containers[n].ws = w
  PROVE  n \in UnderWay
<1> USE DEF ManagerInv, NameInv, TypeInv, TypeOK
<1>1. n \in Names \ contested
  OBVIOUS
<1>2. ~ (n \in DOMAIN sleeves /\ sleeves[n].cid = containers[n].id)
  BY DEF WorkspacesAgree, Listed
<1>3. PICK t \in Threads : pc[t] = "publish" /\ local[t].name = n
  BY <1>1, <1>2 DEF DockerInv, RunningIsTracked, Registered
<1> QED BY <1>1, <1>3 DEF UnderWay, Spawning, SpawnPC


\* Steps of the manager that let no container begin to run and make none.
LEMMA NothingMissed ==
  ASSUME MissedInv, op' = op, asked' = asked, lastId' = lastId,
         contested \subseteq contested',
         DOMAIN containers' \subseteq DOMAIN containers,
         \A n \in DOMAIN containers' :
           /\ containers'[n].id = containers[n].id
           /\ containers'[n].ws = containers[n].ws
           /\ containers'[n].state = "running" => containers[n].state = "running",
         \A t \in Threads : pc'[t] = "start" => pc[t] = "start" /\ local'[t] = local[t]
  PROVE  MissedInv'
<1> USE DEF MissedInv
<1>1. \A o \in Ops : Passed(o)' <=> Passed(o)
  BY DEF Passed
<1>2. InUseBlindSpots'
  BY DEF InUseBlindSpots, Running
<1> QED BY <1>1, <1>2 DEF OpTyped

LEMMA ManagerMisses ==
  ASSUME ManagerInv, MissedInv, op' = op, asked' = asked, [Next]_vars, up' \/ ~ up
  PROVE  MissedInv'
<1> USE DEF ManagerInv, NameInv, TypeInv, TypeOK, docker, memory
<1>1. ASSUME NEW t \in Threads, CreateContainer(t)
      PROVE  MissedInv'
  <2> DEFINE n == local[t].name
  <2>1. /\ pc[t] = "create" /\ pc' = [pc EXCEPT ![t] = pc'[t]]
        /\ contested' = contested
    BY <1>1 DEF CreateContainer, Goto
  <2>2. CASE UNCHANGED <<containers, lastId, local>>
    <3>1. pc'[t] = "abort"
      BY <1>1, <2>2 DEF CreateContainer, Goto
    <3> QED BY <2>1, <2>2, <3>1, NothingMissed
  <2>3. CASE ~ UNCHANGED <<containers, lastId, local>>
    <3>1. /\ lastId' = lastId + 1
          /\ DOMAIN containers' = DOMAIN containers \cup {n}
          /\ containers'[n].state = "created"
          /\ \A k \in DOMAIN containers \ {n} : containers'[k] = containers[k]
          /\ local'[t].cid = lastId + 1
          /\ \A u \in Threads \ {t} : local'[u] = local[u]
      BY <1>1, <2>3 DEF CreateContainer, Put, Locals
    <3>2. \A o \in Ops : Passed(o)' <=> Passed(o)
      BY DEF Passed
    <3>3. InUseBlindSpots'
      BY <2>1, <3>1 DEF MissedInv, InUseBlindSpots, Running
    <3>4. \A o \in Ops : Passed(o) => asked[o].lastId \in 0 .. lastId'
      BY <3>1 DEF MissedInv
    <3>5. \A o \in Ops, u \in Threads :
            Passed(o) /\ pc'[u] = "start" /\ local'[u].cid <= asked[o].lastId =>
              local'[u].name \in asked[o].underWay
      BY <2>1, <3>1 DEF MissedInv
    <3> QED BY <3>2, <3>3, <3>4, <3>5 DEF MissedInv, OpTyped
  <2> QED BY <2>2, <2>3
<1>2. ASSUME NEW t \in Threads, StartContainer(t)
      PROVE  MissedInv'
  <2> DEFINE n == local[t].name
  <2>1. /\ pc[t] = "start" /\ pc' = [pc EXCEPT ![t] = pc'[t]]
        /\ pc'[t] \in {"publish", "cleanup"}
        /\ UNCHANGED <<local, lastId, contested>>
        /\ DOMAIN containers' = DOMAIN containers
        /\ \A k \in DOMAIN containers : /\ containers'[k].id = containers[k].id
                                        /\ containers'[k].ws = containers[k].ws
        /\ \A k \in DOMAIN containers \ {n} : containers'[k] = containers[k]
        /\ containers' = containers
           \/ (n \in DOMAIN containers /\ containers[n].id = local[t].cid)
    BY <1>2 DEF StartContainer, Goto, Container
  <2>2. \A o \in Ops : Passed(o)' <=> Passed(o)
    BY DEF Passed
  <2>3. \A o \in Ops : Passed(o) =>
          /\ asked[o].lastId \in Nat
          /\ local[t].cid <= asked[o].lastId => n \in asked[o].underWay
    BY <2>1 DEF MissedInv
  <2>4. InUseBlindSpots'
    <3> SUFFICES ASSUME NEW o \in Ops, Passed(o), NEW k \in DOMAIN containers \ contested,
                        Running(k)', containers[k].ws = op[o].ws
                 PROVE  k \in asked[o].underWay \/ containers[k].id > asked[o].lastId
      BY <2>1 DEF InUseBlindSpots, Passed
    <3>1. CASE Running(k)
      BY <3>1 DEF MissedInv, InUseBlindSpots, Passed
    <3>2. CASE ~ Running(k)
      <4>1. k = n /\ containers[n].id = local[t].cid
        BY <2>1, <3>2 DEF Running
      <4> QED BY <4>1, <2>3 DEF Container
    <3> QED BY <3>1, <3>2
  <2> QED BY <2>1, <2>2, <2>4 DEF MissedInv, OpTyped
<1>3. ASSUME NEW t \in Threads, CleanUp(t) \/ StopContainer(t) \/ RemoveContainer(t)
      PROVE  MissedInv'
  <2>1. /\ UNCHANGED <<lastId, contested>>
        /\ pc' = [pc EXCEPT ![t] = pc'[t]] /\ pc'[t] # "start"
        /\ \A u \in Threads \ {t} : local'[u] = local[u]
    BY <1>3 DEF CleanUp, StopContainer, RemoveContainer, Return, Goto
  <2>2. /\ DOMAIN containers' \subseteq DOMAIN containers
        /\ \A n \in DOMAIN containers' :
             /\ containers'[n].id = containers[n].id
             /\ containers'[n].ws = containers[n].ws
             /\ containers'[n].state = "running" => containers[n].state = "running"
    <3>1. CASE Remove(local[t].cid)
      BY <3>1, RemovesItsOwn
    <3>2. CASE containers' = containers
      BY <3>2
    <3>3. CASE StopContainer(t)
      BY <3>3 DEF StopContainer, Container
    <3> QED BY <1>3, <3>1, <3>2, <3>3 DEF CleanUp, RemoveContainer
  <2> QED BY <2>1, <2>2, NothingMissed
<1>4. ASSUME NEW t \in Threads,
             \/ Request(t) \/ AllocatePort(t) \/ ListNetworks(t) \/ CreateNetwork(t)
             \/ ReleaseAborted(t) \/ Publish(t) \/ FindContainer(t) \/ DeleteSleeve(t)
             \/ ReleaseKilled(t)
      PROVE  MissedInv'
  <2>1. /\ pc' = [pc EXCEPT ![t] = pc'[t]] /\ pc'[t] # "start"
        /\ \A u \in Threads \ {t} : local'[u] = local[u]
        /\ UNCHANGED <<containers, lastId>> /\ contested \subseteq contested'
    BY <1>4 DEF Request, ReserveNamed, AllocateName, Reserve, KillLookup, AllocatePort,
                ListNetworks, CreateNetwork, ReleaseAborted, Publish, FindContainer,
                DeleteSleeve, ReleaseKilled, Return, Goto
  <2> QED BY <2>1, NothingMissed
<1>5. CASE RecoverSleeves
  BY <1>5, NothingMissed DEF RecoverSleeves
<1>6. CASE (\E n \in Names : ContainerExits(n)) \/ UNCHANGED vars
  BY <1>6, NothingMissed DEF ContainerExits, vars, Container
<1>7. ~ Crash
  BY DEF Crash
<1> QED BY <1>1, <1>2, <1>3, <1>4, <1>5, <1>6, <1>7
        DEF Next, Environment, SpawnStep, KillStep

\* A branch operation passes the check, or goes on with what it saw then.
LEMMA BranchingMisses ==
  ASSUME ManagerInv, WorkspacesAgree, MissedInv, NEW o \in Ops, Branching(o)
  PROVE  MissedInv'
<1> USE DEF Branch!NoOp, Branch!Request, Branch!OpPC, Branch!Kinds
<1>1. /\ UNCHANGED <<pc, local, sleeves, containers, lastId, contested>> /\ up
      /\ \A q \in Ops \ {o} : asked'[q] = asked[q]
  BY DEF Branching, managerVars, vars, docker, memory
<1>2. op[o] \in {Branch!NoOp} \cup Branch!Request \cup [pc : {"conflict"}, ws : Workspaces]
  BY DEF MissedInv, OpTyped
<1>3. /\ op' = [op EXCEPT ![o] = op'[o]]
      /\ \/ op'[o] = Branch!NoOp
         \/ op'[o] \in [pc : {"conflict"}, ws : Workspaces]
         \/ op'[o] \in Branch!Request /\ op'[o].pc = "inuse"
         \/ /\ op[o].pc = "inuse" /\ op[o].ws \in Workspaces \ Listed
            /\ op'[o] = [op[o] EXCEPT !.pc = "clean"]
         \/ /\ Passed(o)
            /\ \E to \in {"git", "track"} : op'[o] = [op[o] EXCEPT !.pc = to]
  BY <1>2
     DEF Branching, Branch!BranchStep, Branch!Open, Branch!CheckInUse, Branch!CheckClean,
         Branch!Checkout, Branch!PullFastForward, Branch!CheckoutTracking, Branch!Moves,
         Branch!Fails, Branch!Step, Branch!Done, Branch!IsWorkspaceInUse, MissedInv, OpTyped,
         Passed
<1>4. asked' = [asked EXCEPT ![o] =
        IF op'[o].pc \in {"idle", "conflict"} THEN NothingAsked
        ELSE IF op[o].pc = "inuse" THEN [lastId |-> lastId, underWay |-> UnderWay]
        ELSE asked[o]]
  BY DEF Branching, MissedInv, OpTyped
<1>5. OpTyped'
  <2>1. op' \in [Ops -> {Branch!NoOp} \cup Branch!Request
                       \cup [pc : {"conflict"}, ws : Workspaces]]
    BY <1>2, <1>3 DEF OpTyped, MissedInv, Passed
  <2>2. lastId \in Nat /\ UnderWay \in SUBSET Names
    BY DEF ManagerInv, NameInv, TypeInv, TypeOK, UnderWay
  <2>3. asked' \in [Ops -> [lastId : Nat, underWay : SUBSET Names]]
    BY <1>4, <2>2 DEF OpTyped, MissedInv, NothingAsked
  <2> QED BY <2>1, <2>3 DEF OpTyped
<1>6. \A q \in Ops \ {o} : op'[q] = op[q]
  BY <1>3 DEF MissedInv, OpTyped
<1>7. CASE ~ Passed(o)'
  BY <1>1, <1>5, <1>6, <1>7 DEF MissedInv, InUseBlindSpots, Running, Passed
<1>8. CASE Passed(o)' /\ Passed(o)
  <2>1. op'[o].ws = op[o].ws /\ asked'[o] = asked[o]
    BY <1>2, <1>3, <1>4, <1>8 DEF Passed, MissedInv, OpTyped
  <2> QED BY <1>1, <1>5, <1>6, <1>8, <2>1
          DEF MissedInv, InUseBlindSpots, Running, Passed
<1>9. CASE Passed(o)' /\ ~ Passed(o)
  <2>1. op[o].ws \in Workspaces \ Listed /\ op'[o].ws = op[o].ws
    BY <1>2, <1>3, <1>9 DEF Passed
  <2>2. asked'[o] = [lastId |-> lastId, underWay |-> UnderWay]
    BY <1>2, <1>3, <1>4, <1>9 DEF Passed, MissedInv, OpTyped
  <2>3. \A n \in DOMAIN containers \ contested :
          Running(n) /\ containers[n].ws = op[o].ws => n \in UnderWay
    BY <1>1, <2>1, CheckPasses
  <2>4. \A t \in Threads : pc[t] = "start" => local[t].name \in UnderWay
    BY DEF UnderWay, Spawning, SpawnPC, ManagerInv, NameInv, TypeInv, LocalsSet
  <2>5. lastId \in 0 .. lastId
    BY DEF ManagerInv, NameInv, TypeInv, TypeOK
  <2>6. InUseBlindSpots'
    BY <1>1, <1>6, <2>1, <2>2, <2>3 DEF MissedInv, InUseBlindSpots, Running, Passed
  <2> QED BY <1>1, <1>5, <1>6, <2>2, <2>4, <2>5, <2>6 DEF MissedInv, Passed
<1> QED BY <1>7, <1>8, <1>9

\* The envoy's invariant.
EnvoyInv == ManagerInv /\ WorkspacesAgree /\ MissedInv

LEMMA EnvoyInvInit == EnvoyInit => EnvoyInv
<1> SUFFICES ASSUME EnvoyInit
             PROVE  EnvoyInv
  OBVIOUS
<1>1. ManagerInv
  BY ManagerInit DEF EnvoyInit
<1>2. /\ \A t \in Threads : pc[t] = "idle"
      /\ DOMAIN sleeves = {} /\ DOMAIN containers = {} /\ lastId = 0
      /\ \A o \in Ops : op[o] = Branch!NoOp
      /\ op \in [Ops -> {Branch!NoOp}]
  BY EmptyMap DEF EnvoyInit, Init, Branch!BranchInit
<1>3. WorkspacesAgree
  BY <1>2 DEF WorkspacesAgree, Created
<1>4. OpTyped
  BY <1>2 DEF OpTyped, EnvoyInit, NothingAsked
<1>5. MissedInv
  BY <1>2, <1>4 DEF MissedInv, InUseBlindSpots, Passed, Branch!NoOp
<1> QED BY <1>1, <1>3, <1>5 DEF EnvoyInv

LEMMA EnvoyInvNext == EnvoyInv /\ [EnvoyNext]_envoyVars => EnvoyInv'
<1> SUFFICES ASSUME EnvoyInv, [EnvoyNext]_envoyVars
             PROVE  EnvoyInv'
  OBVIOUS
<1> USE DEF EnvoyInv
<1>1. [Next]_vars
  BY ManagerSteps
<1>2. ManagerInv' /\ WorkspacesAgree'
  BY <1>1, ManagerNext, AgreementNext
<1>3. ASSUME NEW o \in Ops, Branching(o)
      PROVE  MissedInv'
  BY <1>3, BranchingMisses
<1>4. ASSUME ProcessEnds
      PROVE  MissedInv'
  <2>1. /\ \A o \in Ops : op'[o] = Branch!NoOp
        /\ op' \in [Ops -> {Branch!NoOp}]
        /\ asked' = [o \in Ops |-> NothingAsked]
    BY <1>4 DEF ProcessEnds, Branch!OpsLost
  <2>2. OpTyped'
    BY <2>1 DEF OpTyped, NothingAsked
  <2> QED BY <2>1, <2>2 DEF MissedInv, InUseBlindSpots, Passed, Branch!NoOp
<1>5. ASSUME ~ ProcessEnds, ~ \E o \in Ops : Branching(o)
      PROVE  MissedInv'
  <2>1. op' = op /\ asked' = asked /\ (up' \/ ~ up)
    BY <1>5, ManagerUp
       DEF EnvoyNext, Manager, Cloning, TreeChanges, Exits, ProcessStarts, envoyVars,
           branchVars, history, managerVars, vars, ContainerExits, RecoverSleeves
  <2> QED BY <1>1, <2>1, ManagerMisses
<1> QED BY <1>2, <1>3, <1>4, <1>5

\* When the in-use check lets git change a tree that a running sleeve has
\* mounted, that sleeve's Spawn was under way at the check or came later, or two
\* overlapping Kills of its name took it off the list.
THEOREM InUseCheckBlindSpots == EnvoySpec => []InUseBlindSpots
<1>1. EnvoyInv => InUseBlindSpots
  BY DEF EnvoyInv, MissedInv
<1> QED BY <1>1, EnvoyInvInit, EnvoyInvNext, PTL DEF EnvoySpec


----------------------------------------------------------------------------
(***************************************************************************)
(* The clone jobs inside the envoy.                                        *)
(***************************************************************************)
Jobs == INSTANCE CloneJobsProofs WITH Dirs <- Workspaces, Pollers <- {}, poll <- << >>

\* No clone is under way into w or into something w is inside of.
Unclaimed(w) == \A j \in JobIds : Jobs!Active(j) => w \notin Jobs!Within(job[j].ws)

\* The two instances of CloneJobs, the one that Envoy is composed of and the one
\* the proofs are about, are the same.
LEMMA SameSteps ==
  ASSUME NEW c, NEW j, NEW w
  PROVE  /\ Clones!CreateMkdir(c) <=> Jobs!CreateMkdir(c)
         /\ Clones!CreateCheck(c, w) <=> Jobs!CreateCheck(c, w)
         /\ Clones!CloneCheck(j, w) <=> Jobs!CloneCheck(j, w)
         /\ Clones!Register(j) <=> Jobs!Register(j)
         /\ Clones!Git(j) <=> Jobs!Git(j)
         /\ Clones!Finish(j) <=> Jobs!Finish(j)
         /\ Clones!CleanUp <=> Jobs!CleanUp
         /\ Clones!Restart <=> Jobs!Restart
         /\ Clones!Init <=> Jobs!Init
         /\ Clones!TypeOK <=> Jobs!TypeOK
         /\ CloningOver(w) = {} <=> Unclaimed(w)
<1> USE DEF Clones!Put, Jobs!Put, Clones!Restrict, Jobs!Restrict, Clones!Goto, Jobs!Goto,
            Clones!InGit, Jobs!InGit, Clones!Finishing, Jobs!Finishing,
            Clones!LongAgo, Jobs!LongAgo, Clones!NoCreate, Jobs!NoCreate,
            Clones!Within, Jobs!Within, Clones!Around, Jobs!Around
<1>1. CloningOver(w) = {} <=> Unclaimed(w)
  BY DEF CloningOver, Unclaimed, Clones!Cloning, Jobs!Active
<1>2. /\ Clones!CreateMkdir(c) <=> Jobs!CreateMkdir(c)
      /\ Clones!CreateCheck(c, w) <=> Jobs!CreateCheck(c, w)
      /\ Clones!CloneCheck(j, w) <=> Jobs!CloneCheck(j, w)
  <2>1. \A ds : Clones!MakeDirs(ds) = Jobs!MakeDirs(ds)
    BY DEF Clones!MakeDirs, Jobs!MakeDirs
  <2>2. Clones!Busy = Jobs!Busy
    BY DEF Clones!Busy, Jobs!Busy, Clones!Cloning, Jobs!Cloning, Clones!Creating,
           Jobs!Creating
  <2>3. Clones!MarkRivals(w) <=> Jobs!MarkRivals(w)
    BY <2>2 DEF Clones!MarkRivals, Jobs!MarkRivals, Clones!Near, Jobs!Near
  <2> QED BY <2>1, <2>3 DEF Clones!CreateMkdir, Jobs!CreateMkdir, Clones!CreateCheck,
                            Jobs!CreateCheck, Clones!CloneCheck, Jobs!CloneCheck
<1>3. \A d : Clones!RemoveTree(d) <=> Jobs!RemoveTree(d)
  BY DEF Clones!RemoveTree, Jobs!RemoveTree
<1>4. /\ Clones!Register(j) <=> Jobs!Register(j)
      /\ Clones!Git(j) <=> Jobs!Git(j)
  <2>1. \A ds : Clones!MakeDirs(ds) = Jobs!MakeDirs(ds)
    BY DEF Clones!MakeDirs, Jobs!MakeDirs
  <2> QED BY <1>3, <2>1
          DEF Clones!Register, Jobs!Register, Clones!Git, Jobs!Git, Clones!GitBegin,
              Jobs!GitBegin, Clones!GitSucceed, Jobs!GitSucceed, Clones!GitFail,
              Jobs!GitFail, Clones!Usable, Jobs!Usable, Clones!Mine, Jobs!Mine
<1>5. Clones!Finish(j) <=> Jobs!Finish(j)
  BY <1>3
  DEF Clones!Finish, Jobs!Finish, Clones!Lock, Jobs!Lock, Clones!Complete,
      Jobs!Complete, Clones!SetFailed, Jobs!SetFailed, Clones!SetError, Jobs!SetError,
      Clones!RemoveAll, Jobs!RemoveAll
<1>6. Clones!CleanUp <=> Jobs!CleanUp
  BY DEF Clones!CleanUp, Jobs!CleanUp, Clones!Tick, Jobs!Tick, Clones!Sweep, Jobs!Sweep,
         Clones!Expired, Jobs!Expired, Clones!Ended, Jobs!Ended
<1>7. Clones!Restart <=> Jobs!Restart
  BY DEF Clones!Restart, Jobs!Restart, Clones!NoPoll, Jobs!NoPoll
<1>8. Clones!Init <=> Jobs!Init
  BY DEF Clones!Init, Jobs!Init, Clones!Workspace, Jobs!Workspace, Clones!NoPoll,
     Jobs!NoPoll, Clones!Rooted, Jobs!Rooted
<1>9. Clones!TypeOK <=> Jobs!TypeOK
  BY DEF Clones!TypeOK, Jobs!TypeOK, Clones!Contents, Jobs!Contents, Clones!Job, Jobs!Job,
     Clones!Status, Jobs!Status, Clones!NoPoll, Jobs!NoPoll, Clones!Seen, Jobs!Seen
<1> QED BY <1>1, <1>2, <1>3, <1>4, <1>5, <1>6, <1>7, <1>8, <1>9

\* What an envoy step is to the clone jobs.
LEMMA CloneSteps ==
  ASSUME [EnvoyNext]_envoyVars
  PROVE  [Jobs!Next]_Jobs!vars
<1>1. CASE Cloning
  BY <1>1, SameSteps DEF Cloning, Jobs!Next
<1>2. CASE ProcessEnds
  BY <1>2, SameSteps DEF ProcessEnds, Jobs!Next
<1>3. CASE UNCHANGED cloneVars
  BY <1>3 DEF cloneVars, Jobs!vars
<1>4. \/ Cloning \/ ProcessEnds \/ UNCHANGED cloneVars
  BY DEF EnvoyNext, Manager, Branching, TreeChanges, Exits, ProcessStarts, envoyVars
<1> QED BY <1>1, <1>2, <1>3, <1>4

\* Jobs's invariant is the envoy's.
LEMMA CloneInvSteps ==
  /\ EnvoyInit => Jobs!CloneInv
  /\ Jobs!CloneInv /\ [EnvoyNext]_envoyVars => Jobs!CloneInv'
  BY JobAssumption, UnderAssumption, SameSteps, CloneSteps, Jobs!CloneInvInit, Jobs!CloneInvNext
     DEF EnvoyInit

\* The envoy's clone jobs are those of CloneJobs.
THEOREM EnvoyImplementsClones == EnvoySpec => Jobs!Spec
<1>1. EnvoyInit => Jobs!Init
  BY SameSteps DEF EnvoyInit
<1> QED BY <1>1, CloneSteps, PTL DEF EnvoySpec, Jobs!Spec

----------------------------------------------------------------------------
(***************************************************************************)
(* Types of the whole.                                                     *)
(***************************************************************************)
LEMMA TreeTyped ==
  ASSUME MissedInv, tree \in [Workspaces -> Branch!Tree], [EnvoyNext]_envoyVars
  PROVE  tree' \in [Workspaces -> Branch!Tree]
<1>1. Branch!FreshTree \in Branch!Tree
  BY HeadAssumption DEF Branch!FreshTree, Branch!Tree
<1>2. CASE Cloning
  BY <1>1, <1>2 DEF Cloning
<1>3. ASSUME NEW o \in Ops, Branching(o)
      PROVE  tree' \in [Workspaces -> Branch!Tree]
  <2>1. \/ tree' = tree
        \/ \E head \in Heads : tree' = [tree EXCEPT ![op[o].ws].head = head]
    BY <1>3
       DEF Branching, Branch!BranchStep, Branch!Open, Branch!CheckInUse, Branch!CheckClean,
           Branch!Checkout, Branch!PullFastForward, Branch!CheckoutTracking, Branch!Moves,
           Branch!Fails
  <2> QED BY <2>1 DEF Branch!Tree
<1>4. ASSUME NEW w \in Workspaces, TreeChanges(w)
      PROVE  tree' \in [Workspaces -> Branch!Tree]
  BY <1>4 DEF TreeChanges
<1>5. CASE tree' = tree
  BY <1>5
<1> QED BY <1>2, <1>3, <1>4, <1>5
        DEF EnvoyNext, Manager, Exits, ProcessEnds, ProcessStarts, envoyVars, branchVars,
            Branch!OpsLost

----------------------------------------------------------------------------
(***************************************************************************)
(* A running sleeve keeps its workspace.  Spawn saw it on the disk; if no  *)
(* clone into it or around it was under way then, none begins as long as   *)
(* it is there, and only such a clone removes it.                          *)
(***************************************************************************)
InUse(w) ==
  \/ \E t \in Threads : pc[t] \in SpawnPC /\ local[t].ws = w
  \/ \E n \in DOMAIN containers : containers[n].ws = w

KeptInv ==
  \A w \in Workspaces \ early :
    InUse(w) => w \in DOMAIN disk /\ Unclaimed(w)

LEMMA RemoveShrinks ==
  ASSUME NEW id, Remove(id)
  PROVE  \A n \in DOMAIN containers' :
           n \in DOMAIN containers /\ containers'[n] = containers[n]
  BY DEF Remove, Drop, Restrict

\* A workspace comes into use by a Spawn that finds it on the disk.
LEMMA UseBegins ==
  ASSUME TypeInv, [EnvoyNext]_envoyVars, NEW w \in Workspaces, InUse(w)'
  PROVE  InUse(w) \/ \E t \in Threads : SpawnRequest(t, w) /\ Manager(t)
<1> USE DEF TypeInv, TypeOK, docker, memory
<1>1. ASSUME NEW t \in Threads, NEW v \in Workspaces, SpawnRequest(t, v), Manager(t)
      PROVE  InUse(w) \/ \E u \in Threads : SpawnRequest(u, w) /\ Manager(u)
  <2>1. /\ pc' = [pc EXCEPT ![t] = "port"] /\ containers' = containers
        /\ local'[t].ws = v /\ \A u \in Threads \ {t} : local'[u] = local[u]
    BY <1>1 DEF SpawnRequest, AllocateName, ReserveNamed, Reserve, Goto, NoLocals
  <2> QED BY <1>1, <2>1 DEF InUse
<1>2. ASSUME NEW t \in Threads, SpawnStep(t)
      PROVE  InUse(w)
  <2>1. /\ pc[t] \in SpawnPC /\ pc' = [pc EXCEPT ![t] = pc'[t]]
        /\ pc'[t] = "idle" \/ local'[t].ws = local[t].ws
        /\ \A u \in Threads \ {t} : local'[u] = local[u]
    BY <1>2 DEF SpawnStep, AllocatePort, ListNetworks, CreateNetwork, CreateContainer,
                StartContainer, CleanUp, ReleaseAborted, Publish, Return, Goto, SpawnPC,
                Locals
  <2>2. \A n \in DOMAIN containers' :
          \/ n \in DOMAIN containers /\ containers'[n].ws = containers[n].ws
          \/ containers'[n].ws = local[t].ws
    <3>1. CASE CreateContainer(t)
      BY <3>1 DEF CreateContainer, Put
    <3>2. CASE StartContainer(t)
      BY <3>2 DEF StartContainer, Container
    <3>3. CASE CleanUp(t)
      BY <3>3, RemoveShrinks DEF CleanUp
    <3> QED BY <1>2, <3>1, <3>2, <3>3
            DEF SpawnStep, AllocatePort, ListNetworks, CreateNetwork, ReleaseAborted, Publish
  <2> QED BY <2>1, <2>2 DEF InUse, SpawnPC
<1>3. ASSUME NEW t \in Threads, KillStep(t) \/ \E n \in Names : KillLookup(t, n)
      PROVE  InUse(w)
  <2>1. /\ pc' = [pc EXCEPT ![t] = pc'[t]] /\ pc'[t] \notin SpawnPC
        /\ \A u \in Threads \ {t} : local'[u] = local[u]
    BY <1>3 DEF KillStep, KillLookup, FindContainer, StopContainer, RemoveContainer,
                DeleteSleeve, ReleaseKilled, Return, Goto, SpawnPC
  <2>2. \A n \in DOMAIN containers' :
          n \in DOMAIN containers /\ containers'[n].ws = containers[n].ws
    <3>1. CASE StopContainer(t)
      BY <3>1 DEF StopContainer, Container
    <3>2. CASE RemoveContainer(t)
      BY <3>2, RemoveShrinks DEF RemoveContainer
    <3> QED BY <1>3, <3>1, <3>2
            DEF KillStep, KillLookup, FindContainer, DeleteSleeve, ReleaseKilled
  <2> QED BY <2>1, <2>2 DEF InUse
<1>4. CASE Exits
  BY <1>4 DEF Exits, ContainerExits, InUse, Container
<1>5. CASE ProcessEnds \/ ProcessStarts
  BY <1>5 DEF ProcessEnds, ProcessStarts, Crash, RecoverSleeves, InUse, SpawnPC
<1>6. CASE UNCHANGED vars
  BY <1>6 DEF vars, InUse
<1> QED BY <1>1, <1>2, <1>3, <1>4, <1>5, <1>6
        DEF EnvoyNext, Manager, Cloning, Branching, TreeChanges, envoyVars, managerVars

\* A path on the disk that no clone is under way at or around stays as it is,
\* whatever the clone jobs do.
LEMMA UnclaimedStays ==
  ASSUME Jobs!TypeInv, Cloning, NEW w \in Workspaces, w \in DOMAIN disk, Unclaimed(w)
  PROVE  w \in DOMAIN disk' /\ Unclaimed(w)'
<1> USE DEF Jobs!TypeInv, Jobs!TypeOK
<1>1. ASSUME NEW c \in Creators,
             Jobs!CreateMkdir(c) \/ \E v \in Workspaces : Jobs!CreateCheck(c, v)
      PROVE  w \in DOMAIN disk' /\ Unclaimed(w)'
  <2>1. w \in DOMAIN disk' /\ UNCHANGED <<run, job>>
    BY <1>1 DEF Jobs!CreateMkdir, Jobs!CreateCheck, Jobs!MakeDirs
  <2> QED BY <2>1 DEF Unclaimed, Jobs!Active, Jobs!Within
<1>2. ASSUME NEW j \in JobIds, NEW v \in Workspaces, Jobs!CloneCheck(j, v)
      PROVE  w \in DOMAIN disk' /\ Unclaimed(w)'
  <2>1. w \notin Jobs!Within(v)
    BY <1>2 DEF Jobs!CloneCheck, Jobs!Within, Jobs!Rooted, Jobs!Around
  <2>2. /\ disk' = disk /\ job'[j].ws = v
        /\ \A k \in JobIds \ {j} :
             run'[k] = run[k] /\ (k \in DOMAIN job => job'[k] = job[k])
    BY <1>2 DEF Jobs!CloneCheck, Jobs!Goto, Jobs!Put
  <2> QED BY <2>1, <2>2 DEF Unclaimed, Jobs!Active, Jobs!Within
<1>3. ASSUME NEW j \in JobIds, Jobs!Register(j) \/ Jobs!Git(j) \/ Jobs!Finish(j)
      PROVE  w \in DOMAIN disk' /\ Unclaimed(w)'
  <2>1. Jobs!Active(j) /\ j \in DOMAIN job /\ job[j] \in Jobs!Job
    BY <1>3
    DEF Jobs!Register, Jobs!Git, Jobs!GitBegin, Jobs!GitSucceed, Jobs!GitFail, Jobs!Finish,
        Jobs!Lock, Jobs!Complete, Jobs!SetFailed, Jobs!SetError, Jobs!RemoveAll, Jobs!Goto,
        Jobs!InGit, Jobs!Finishing, Jobs!Active
  <2>2. job[j].ws \in Workspaces
    BY <2>1 DEF Jobs!Job
  <2>3. Jobs!Touched(job[j].ws)
    BY <1>3, <2>2, JobAssumption, UnderAssumption, Jobs!CloneTouches
  <2>4. w \in DOMAIN disk'
    BY <2>1, <2>3 DEF Unclaimed, Jobs!Touched
  <2>5. /\ run' = [run EXCEPT ![j] = run'[j]] /\ job'[j].ws = job[j].ws
        /\ \A k \in DOMAIN job \ {j} : job'[k] = job[k]
    BY <1>3, <2>1
    DEF Jobs!Register, Jobs!Git, Jobs!GitBegin, Jobs!GitSucceed, Jobs!GitFail, Jobs!Finish,
        Jobs!Lock, Jobs!Complete, Jobs!SetFailed, Jobs!SetError, Jobs!RemoveAll, Jobs!Goto,
        Jobs!Job
  <2> QED BY <2>1, <2>4, <2>5 DEF Unclaimed, Jobs!Active, Jobs!Within
<1>4. CASE Jobs!CleanUp
  <2>1. \A j \in DOMAIN job : job'[j].ws = job[j].ws
    BY <1>4 DEF Jobs!CleanUp, Jobs!Tick, Jobs!Sweep, Jobs!Job
  <2>2. disk' = disk /\ run' = run
    BY <1>4 DEF Jobs!CleanUp, Jobs!Tick, Jobs!Sweep
  <2> QED BY <2>1, <2>2 DEF Unclaimed, Jobs!Active, Jobs!Within
<1> QED BY <1>1, <1>2, <1>3, <1>4, SameSteps DEF Cloning

LEMMA KeptNext ==
  ASSUME TypeInv, Jobs!TypeInv, KeptInv, [EnvoyNext]_envoyVars
  PROVE  KeptInv'
<1> SUFFICES ASSUME NEW w \in Workspaces, w \notin early', InUse(w)'
             PROVE  w \in DOMAIN disk' /\ Unclaimed(w)'
  BY DEF KeptInv
<1>1. early \subseteq early'
  BY DEF EnvoyNext, Manager, SpawnRequest, Cloning, Branching, TreeChanges, Exits,
         ProcessEnds, ProcessStarts, history, envoyVars
<1>2. w \in DOMAIN disk /\ Unclaimed(w)
  <2>1. CASE InUse(w)
    BY <1>1, <2>1 DEF KeptInv
  <2>2. CASE \E t \in Threads : SpawnRequest(t, w)
    BY <2>2, SameSteps DEF SpawnRequest
  <2> QED BY <2>1, <2>2, UseBegins
<1>3. CASE Cloning
  BY <1>2, <1>3, UnclaimedStays
<1>4. CASE ProcessEnds
  <2>1. /\ disk' = disk /\ job' = job
        /\ \A j \in JobIds : run'[j] \in {"new", "done", "lost"}
    BY <1>4 DEF ProcessEnds, Clones!Restart
  <2> QED BY <1>2, <2>1 DEF Unclaimed, Jobs!Active, Jobs!InGit, Jobs!Finishing
<1>5. CASE UNCHANGED cloneVars
  BY <1>2, <1>5 DEF cloneVars, Unclaimed, Jobs!Active, Jobs!Within
<1> QED BY <1>3, <1>4, <1>5
        DEF EnvoyNext, Manager, Branching, TreeChanges, Exits, ProcessStarts, envoyVars

LEMMA KeptInit == EnvoyInit => KeptInv
  BY EmptyMap DEF EnvoyInit, Init, KeptInv, InUse, SpawnPC

\* A running sleeve keeps its workspace, unless it was spawned while a clone into
\* it, or into something it is inside of, was under way.
THEOREM MountedWorkspacesStay == EnvoySpec => []MountedStays
<1>1. Jobs!CloneInv => Jobs!TypeInv
  BY DEF Jobs!CloneInv
<1>2. EnvoyInv => TypeInv
  BY DEF EnvoyInv, ManagerInv, NameInv
<1>3. TypeInv /\ KeptInv => MountedStays
  BY DEF TypeInv, TypeOK, Container, KeptInv, InUse, MountedStays, Running
<1> QED BY <1>1, <1>2, <1>3, EnvoyInvInit, EnvoyInvNext, CloneInvSteps, KeptInit, KeptNext,
           PTL DEF EnvoySpec

\* The working trees, and the Spawns that got ahead of a check.
TreesTyped == tree \in [Workspaces -> Branch!Tree] /\ early \subseteq Workspaces

LEMMA TreesInit == EnvoyInit => TreesTyped
  BY HeadAssumption
  DEF EnvoyInit, Branch!BranchInit, Branch!FreshTree, Branch!Tree, TreesTyped

LEMMA TreesNext ==
  ASSUME MissedInv, TreesTyped, [EnvoyNext]_envoyVars
  PROVE  TreesTyped'
<1>1. early' = early \/ \E w \in Workspaces : early' = early \cup {w}
  BY DEF EnvoyNext, Manager, SpawnRequest, Cloning, Branching, TreeChanges, Exits,
         ProcessEnds, ProcessStarts, history, envoyVars
<1> QED BY <1>1, TreeTyped DEF TreesTyped

\* Every state of the whole process is well typed: the manager's and the
\* daemon's, the clone jobs', the trees' and the branch operations'.
THEOREM EnvoyTypeCorrect == EnvoySpec => []EnvoyTypeOK
<1>1. EnvoyInv /\ Jobs!CloneInv /\ TreesTyped => EnvoyTypeOK
  BY SameSteps
  DEF EnvoyInv, ManagerInv, NameInv, TypeInv, MissedInv, OpTyped, Jobs!CloneInv,
      Jobs!TypeInv, TreesTyped, EnvoyTypeOK, Branch!BranchTypeOK
<1>2. EnvoyInv => MissedInv
  BY DEF EnvoyInv
<1> QED BY <1>1, <1>2, EnvoyInvInit, EnvoyInvNext, CloneInvSteps, TreesInit, TreesNext,
           PTL DEF EnvoySpec

=============================================================================
