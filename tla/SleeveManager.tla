--------------------------- MODULE SleeveManager ---------------------------
(***************************************************************************)
(* The sleeve manager of the envoy process (internal/envoy/                *)
(* sleeve_manager.go) together with the Docker daemon it drives.           *)
(*                                                                         *)
(* Every HTTP request runs in a goroutine of its own, so any number of     *)
(* Spawn and Kill calls are in progress at once.  An action is what one    *)
(* goroutine does between two points where another can run: one critical   *)
(* section of SleeveManager.mu, or one call to the Docker daemon.          *)
(*                                                                         *)
(* The process can die at any point (its container restarts: "restart:     *)
(* unless-stopped"); the maps are lost, the containers are not, and        *)
(* RecoverSleeves rebuilds the maps before requests are served again.      *)
(***************************************************************************)
EXTENDS Naturals, Sequences, FiniteSets, Functions

CONSTANTS
  Threads,        \* request goroutines
  Pool,           \* namePool, a sequence of names
  FallbackNames,  \* the names "sleeve-<UnixNano>" an exhausted pool falls back to
  ExplicitNames,  \* further names a client may ask for in its request
  Workspaces,     \* workspace paths
  BasePort,       \* 7681, the value nextPort starts from
  MaxPorts,       \* bound: spawns begun per process lifetime
  MaxCreates,     \* bound: containers ever created
  NoName, NoWorkspace   \* the values of a local variable that is not set

PoolNames == Range(Pool)
Names == PoolNames \cup FallbackNames \cup ExplicitNames

ASSUME NamesAssumption ==
  /\ Pool \in Seq(PoolNames)
  /\ NoName \notin Names
  /\ NoWorkspace \notin Workspaces

ASSUME PortAssumption ==
  /\ BasePort \in Nat
  /\ MaxPorts \in Nat
  /\ MaxCreates \in Nat

VARIABLES
  up,          \* the envoy process serves requests
  pc,          \* pc[t]: where goroutine t is, "idle" between requests
  local,       \* local[t]: the local variables of Spawn or Kill
  sleeves,     \* SleeveManager.sleeves
  usedNames,   \* SleeveManager.usedNames
  nextPort,    \* SleeveManager.nextPort
  containers,  \* the daemon's sleeve containers, by container name
  lastId,      \* number of container ids the daemon has given out
  network,     \* the daemon has the sleeves' network
  contested    \* history: names one Kill freed while another Kill still held them

memory == <<sleeves, usedNames, nextPort>>
docker == <<containers, lastId, network>>
vars == <<up, pc, local, memory, docker, contested>>

(***************************************************************************)
(* Data.  A map of the program is a function whose domain is the set of    *)
(* keys present.                                                           *)
(***************************************************************************)
SleeveStatus == {"running", "stopped", "created"}
SleeveInfo == [cid : Nat, ws : Workspaces, port : Nat, status : SleeveStatus]

ContainerState == {"created", "running", "exited"}
Container == [id : Nat, ws : Workspaces, state : ContainerState]

Locals == [name : Names \cup {NoName}, ws : Workspaces \cup {NoWorkspace},
           port : Nat, cid : Nat]
NoLocals == [name |-> NoName, ws |-> NoWorkspace, port |-> 0, cid |-> 0]

Put(map, key, value) ==
  [k \in DOMAIN map \cup {key} |-> IF k = key THEN value ELSE map[k]]
Drop(map, key) == Restrict(map, DOMAIN map \ {key})

(***************************************************************************)
(* Spawn is at one of SpawnPC after it reserved its name, Kill at one of   *)
(* KillPC after it found the sleeve registered.                            *)
(***************************************************************************)
SpawnPC == {"port", "netlist", "netcreate", "create", "start", "cleanup",
            "abort", "publish"}
KillPC == {"find", "stop", "remove", "delete", "free"}

Spawning(t, n) == pc[t] \in SpawnPC /\ local[t].name = n
Killing(t, n) == pc[t] \in KillPC /\ local[t].name = n

\* The container id of a live container, whatever its name.
Alive(id) == \E n \in DOMAIN containers : containers[n].id = id

TypeOK ==
  /\ up \in BOOLEAN
  /\ pc \in [Threads -> {"idle"} \cup SpawnPC \cup KillPC]
  /\ local \in [Threads -> Locals]
  /\ DOMAIN sleeves \subseteq Names
  /\ \A n \in DOMAIN sleeves : sleeves[n] \in SleeveInfo
  /\ usedNames \subseteq Names
  /\ nextPort \in Nat
  /\ DOMAIN containers \subseteq Names
  /\ \A n \in DOMAIN containers : containers[n] \in Container
  /\ lastId \in Nat
  /\ network \in BOOLEAN
  /\ contested \subseteq Names

Init ==
  /\ up = TRUE
  /\ pc = [t \in Threads |-> "idle"]
  /\ local = [t \in Threads |-> NoLocals]
  /\ sleeves = << >>
  /\ usedNames = {}
  /\ nextPort = BasePort
  /\ containers = << >>
  /\ lastId = 0
  /\ network \in BOOLEAN
  /\ contested = {}

----------------------------------------------------------------------------
Goto(t, from, to) == pc[t] = from /\ pc' = [pc EXCEPT ![t] = to]

\* The handler returns: its goroutine and its locals are gone.
Return(t, from) ==
  /\ Goto(t, from, "idle")
  /\ local' = [local EXCEPT ![t] = NoLocals]

(***************************************************************************)
(* Spawn, up to the reservation of its name.                               *)
(***************************************************************************)
\* Bound on the exploration, not in the code.
SpawnBound == nextPort < BasePort + MaxPorts /\ lastId < MaxCreates

Reserve(t, n, w) ==
  /\ up
  /\ SpawnBound
  /\ Goto(t, "idle", "port")
  /\ local' = [local EXCEPT ![t] = [NoLocals EXCEPT !.name = n, !.ws = w]]
  /\ usedNames' = usedNames \cup {n}
  /\ UNCHANGED <<up, sleeves, nextPort, docker, contested>>

\* Mutant: the check of usedNames is forgotten.
ReserveUnchecked(t, n, w) == Reserve(t, n, w)

\* The request names its sleeve; a name in use is answered with an error.
ReserveNamed(t, n, w) == n \notin usedNames /\ Reserve(t, n, w)

FreeInPool(i) == Pool[i] \notin usedNames

\* A time stamp never comes back: it is a name nothing in the system mentions.
Fresh(n) ==
  /\ n \notin usedNames \cup DOMAIN sleeves \cup DOMAIN containers
  /\ \A t \in Threads : local[t].name # n

\* allocateName: the first free name of the pool, else a time stamp.
AllocateName(t, w) ==
  \/ \E i \in DOMAIN Pool :
       /\ FreeInPool(i)
       /\ \A j \in 1 .. i - 1 : ~ FreeInPool(j)
       /\ Reserve(t, Pool[i], w)
  \/ /\ \A i \in DOMAIN Pool : ~ FreeInPool(i)
     /\ \E n \in FallbackNames : Fresh(n) /\ Reserve(t, n, w)

----------------------------------------------------------------------------
(***************************************************************************)
(* The rest of Spawn.  A failed call to the daemon has no effect there.    *)
(***************************************************************************)
AllocatePort(t) ==
  /\ Goto(t, "port", "netlist")
  /\ local' = [local EXCEPT ![t].port = nextPort]
  /\ nextPort' = nextPort + 1
  /\ UNCHANGED <<up, sleeves, usedNames, docker, contested>>

\* EnsureNetwork lists the networks, and creates the one it did not see.
ListNetworks(t) ==
  /\ \/ network /\ Goto(t, "netlist", "create")
     \/ ~ network /\ Goto(t, "netlist", "netcreate")
     \/ Goto(t, "netlist", "abort")
  /\ UNCHANGED <<up, local, memory, docker, contested>>

CreateNetwork(t) ==
  /\ \/ /\ ~ network
        /\ network' = TRUE
        /\ Goto(t, "netcreate", "create")
     \/ /\ Goto(t, "netcreate", "abort")   \* a duplicate is refused too
        /\ UNCHANGED network
  /\ UNCHANGED <<up, local, memory, containers, lastId, contested>>

CreateContainer(t) ==
  LET n == local[t].name IN
  /\ \/ /\ n \notin DOMAIN containers       \* the daemon's names are unique
        /\ lastId' = lastId + 1
        /\ containers' = Put(containers, n,
             [id |-> lastId + 1, ws |-> local[t].ws, state |-> "created"])
        /\ local' = [local EXCEPT ![t].cid = lastId + 1]
        /\ Goto(t, "create", "start")
     \/ /\ Goto(t, "create", "abort")
        /\ UNCHANGED <<containers, lastId, local>>
  /\ UNCHANGED <<up, memory, network, contested>>

StartContainer(t) ==
  LET n == local[t].name IN
  /\ \/ /\ n \in DOMAIN containers
        /\ containers[n].id = local[t].cid
        /\ containers' = [containers EXCEPT ![n].state = "running"]
        /\ Goto(t, "start", "publish")
     \/ /\ Goto(t, "start", "cleanup")
        /\ UNCHANGED containers
  /\ UNCHANGED <<up, local, memory, lastId, network, contested>>

\* RemoveContainer by id: an error when the id is gone, or for any other reason.
Remove(id) ==
  \E n \in DOMAIN containers :
    /\ containers[n].id = id
    /\ containers' = Drop(containers, n)

\* The result of removing the container that did not start is ignored.
CleanUp(t) ==
  /\ Remove(local[t].cid) \/ UNCHANGED containers
  /\ Goto(t, "cleanup", "abort")
  /\ UNCHANGED <<up, local, memory, lastId, network, contested>>

\* Mutant: a failure path that forgets releaseName.
AbortKeepingName(t) ==
  /\ Return(t, "abort")
  /\ UNCHANGED <<up, memory, docker, contested>>

\* releaseName on every failure path of Spawn.
ReleaseAborted(t) ==
  /\ usedNames' = usedNames \ {local[t].name}
  /\ Return(t, "abort")
  /\ UNCHANGED <<up, sleeves, nextPort, docker, contested>>

\* Mutant: Spawn answers without writing the map.
PublishNothing(t) ==
  /\ Return(t, "publish")
  /\ UNCHANGED <<up, memory, docker, contested>>

Publish(t) ==
  /\ sleeves' = Put(sleeves, local[t].name,
       [cid |-> local[t].cid, ws |-> local[t].ws, port |-> local[t].port,
        status |-> "running"])
  /\ Return(t, "publish")
  /\ UNCHANGED <<up, usedNames, nextPort, docker, contested>>

----------------------------------------------------------------------------
(***************************************************************************)
(* Kill.                                                                   *)
(***************************************************************************)
\* Mutant: Kill goes for the container whether or not the sleeve is registered.
KillUnregistered(t, n) ==
  /\ up
  /\ Goto(t, "idle", "find")
  /\ local' = [local EXCEPT ![t] = [NoLocals EXCEPT !.name = n]]
  /\ UNCHANGED <<up, memory, docker, contested>>

KillLookup(t, n) ==
  /\ up
  /\ n \in DOMAIN sleeves
  /\ Goto(t, "idle", "find")
  /\ local' = [local EXCEPT ![t] = [NoLocals EXCEPT !.name = n]]
  /\ UNCHANGED <<up, memory, docker, contested>>

\* GetContainerByName: by name, not by the id the sleeve was registered with.
FindContainer(t) ==
  LET n == local[t].name IN
  /\ \/ /\ n \in DOMAIN containers
        /\ local' = [local EXCEPT ![t].cid = containers[n].id]
        /\ Goto(t, "find", "stop")
     \/ /\ n \notin DOMAIN containers
        /\ Goto(t, "find", "delete")
        /\ UNCHANGED local
     \/ Return(t, "find")
  /\ UNCHANGED <<up, memory, docker, contested>>

\* The result of StopContainer is ignored.
StopContainer(t) ==
  /\ \/ \E n \in DOMAIN containers :
          /\ containers[n].id = local[t].cid
          /\ containers' = [containers EXCEPT ![n].state =
                              IF @ = "running" THEN "exited" ELSE @]
     \/ UNCHANGED containers
  /\ Goto(t, "stop", "remove")
  /\ UNCHANGED <<up, local, memory, lastId, network, contested>>

\* Mutant: a failed removal is ignored, as a failed stop is.
RemoveIgnoringErrors(t) ==
  /\ Remove(local[t].cid) \/ UNCHANGED containers
  /\ Goto(t, "remove", "delete")
  /\ UNCHANGED <<up, local, memory, lastId, network, contested>>

RemoveContainer(t) ==
  /\ \/ Remove(local[t].cid) /\ Goto(t, "remove", "delete") /\ UNCHANGED local
     \/ Return(t, "remove") /\ UNCHANGED containers
  /\ UNCHANGED <<up, memory, lastId, network, contested>>

\* Mutant: the name is released and the entry stays.
ReleaseInsteadOfDelete(t) ==
  /\ usedNames' = usedNames \ {local[t].name}
  /\ Goto(t, "delete", "free")
  /\ UNCHANGED <<up, local, sleeves, nextPort, docker, contested>>

DeleteSleeve(t) ==
  LET n == local[t].name IN
  /\ sleeves' = Drop(sleeves, n)
  /\ contested' = IF \E u \in Threads \ {t} : Killing(u, n)
                    THEN contested \cup {n} ELSE contested
  /\ Goto(t, "delete", "free")
  /\ UNCHANGED <<up, local, usedNames, nextPort, docker>>

\* Mutant: the port number is given back with the name.
ReleaseNameAndPort(t) ==
  /\ usedNames' = usedNames \ {local[t].name}
  /\ nextPort' = IF nextPort > BasePort THEN nextPort - 1 ELSE nextPort
  /\ Return(t, "free")
  /\ UNCHANGED <<up, sleeves, docker, contested>>

ReleaseKilled(t) ==
  /\ usedNames' = usedNames \ {local[t].name}
  /\ Return(t, "free")
  /\ UNCHANGED <<up, sleeves, nextPort, docker, contested>>

----------------------------------------------------------------------------
(***************************************************************************)
(* The environment: a sleeve's main process ends; envoy dies; envoy comes  *)
(* back.                                                                   *)
(***************************************************************************)
ContainerExits(n) ==
  /\ n \in DOMAIN containers
  /\ containers[n].state = "running"
  /\ containers' = [containers EXCEPT ![n].state = "exited"]
  /\ UNCHANGED <<up, pc, local, memory, lastId, network, contested>>

Crash ==
  /\ up
  /\ up' = FALSE
  /\ pc' = [t \in Threads |-> "idle"]
  /\ local' = [t \in Threads |-> NoLocals]
  /\ sleeves' = << >>
  /\ usedNames' = {}
  /\ nextPort' = BasePort
  /\ contested' = {}
  /\ UNCHANGED docker

\* Mutant: the daemon's word for the state is taken as it is.
RecoveredRaw(state) == state

RecoveredStatus(state) == IF state = "exited" THEN "stopped" ELSE state

\* The container's state and labels are all that is left of a sleeve.
RecoveredSleeve(c) ==
  [cid |-> c.id, ws |-> c.ws, port |-> BasePort, status |-> RecoveredStatus(c.state)]

\* Mutant: the recovered sleeves' names are not marked used.
RecoverWithoutNames ==
  /\ ~ up
  /\ up' = TRUE
  /\ sleeves' = [n \in DOMAIN containers |-> RecoveredSleeve(containers[n])]
  /\ UNCHANGED <<pc, local, usedNames, nextPort, docker, contested>>

\* NewServer recovers before it serves; when that fails, the process ends and
\* is started again, which is a stuttering step here.
RecoverSleeves ==
  /\ ~ up
  /\ up' = TRUE
  /\ sleeves' = [n \in DOMAIN containers |-> RecoveredSleeve(containers[n])]
  /\ usedNames' = DOMAIN containers
  /\ UNCHANGED <<pc, local, nextPort, docker, contested>>

----------------------------------------------------------------------------
SpawnStep(t) ==
  \/ AllocatePort(t)
  \/ ListNetworks(t)
  \/ CreateNetwork(t)
  \/ CreateContainer(t)
  \/ StartContainer(t)
  \/ CleanUp(t)
  \/ ReleaseAborted(t)
  \/ Publish(t)

KillStep(t) ==
  \/ FindContainer(t)
  \/ StopContainer(t)
  \/ RemoveContainer(t)
  \/ DeleteSleeve(t)
  \/ ReleaseKilled(t)

Request(t) ==
  \/ \E n \in Names, w \in Workspaces : ReserveNamed(t, n, w)
  \/ \E w \in Workspaces : AllocateName(t, w)
  \/ \E n \in Names : KillLookup(t, n)

Environment ==
  \/ \E n \in Names : ContainerExits(n)
  \/ Crash

Next ==
  \/ \E t \in Threads : Request(t) \/ SpawnStep(t) \/ KillStep(t)
  \/ Environment
  \/ RecoverSleeves

Spec == Init /\ [][Next]_vars

\* A goroutine that can run does; the daemon answers; the container is
\* restarted and in the end lists its containers.  Requests, exits and
\* crashes need not happen.
Fairness ==
  /\ \A t \in Threads : WF_vars(SpawnStep(t)) /\ WF_vars(KillStep(t))
  /\ WF_vars(RecoverSleeves)

FairSpec == Spec /\ Fairness

----------------------------------------------------------------------------
(***************************************************************************)
(* Properties.  A name is contested once one Kill has deleted its entry    *)
(* while another Kill, which looked the same entry up, has yet to finish:  *)
(* the second one goes on to stop, delete and free whatever bears the name *)
(* by then.  What follows holds of every name no two Kills contested; the  *)
(* first holds of every name.                                              *)
(***************************************************************************)
Registered(n) == n \in DOMAIN sleeves
Freeing(t, n) == pc[t] = "free" /\ local[t].name = n
Running(n) == n \in DOMAIN containers /\ containers[n].state = "running"

\* A reserved name is a sleeve's, or a Spawn or Kill in progress will
\* release it: no path of Spawn or Kill, failures included, leaks a name.
NoNameLeak ==
  \A n \in usedNames :
    \/ Registered(n)
    \/ \E t \in Threads : Spawning(t, n) \/ Freeing(t, n)

\* As long as a Spawn or a registered sleeve owns a name, or a Kill has yet to
\* release it, no other request can be given it.
OwnedNamesReserved ==
  \A n \in Names \ contested :
    \/ Registered(n)
    \/ \E t \in Threads : Spawning(t, n) \/ Freeing(t, n)
    => n \in usedNames

\* A name has one owner: the Spawn that reserved it, or the registered sleeve
\* and the Kills that found it, or the one Kill that is releasing it.
OneOwner ==
  \A n \in Names \ contested : \A t \in Threads :
    /\ Spawning(t, n) =>
         /\ ~ Registered(n)
         /\ \A u \in Threads \ {t} : ~ Spawning(u, n) /\ ~ Killing(u, n)
    /\ Freeing(t, n) =>
         /\ ~ Registered(n)
         /\ \A u \in Threads \ {t} : ~ Killing(u, n)
    /\ Killing(t, n) => Registered(n) \/ Freeing(t, n)

\* Each half keeps the other: a name is given out only when it is not reserved,
\* and its reservation is dropped only by the one owner it has.
NamesOwned == OwnedNamesReserved /\ OneOwner

\* Kill looks the sleeve up in the map and its container up by name: the
\* container it stops and removes is the one the sleeve was registered with.
KillHitsItsSleeve ==
  \A t \in Threads :
    LET n == local[t].name IN
    pc[t] \in {"stop", "remove"} /\ n \notin contested =>
      Registered(n) /\ sleeves[n].cid = local[t].cid

\* No container runs behind envoy's back: each is a registered sleeve's, or
\* that of a Spawn about to register it.
RunningIsTracked ==
  \A n \in Names \ contested :
    up /\ Running(n) =>
      \/ Registered(n) /\ sleeves[n].cid = containers[n].id
      \/ \E t \in Threads : /\ pc[t] = "publish"
                            /\ local[t].name = n
                            /\ local[t].cid = containers[n].id

\* A listed sleeve has its container, but for the moment in which the Kill
\* that removed the container has yet to delete the entry.
NoDeadEntry ==
  \A n \in DOMAIN sleeves \ contested :
    ~ Alive(sleeves[n].cid) =>
      \E t \in Threads : pc[t] = "delete" /\ local[t].name = n

\* The list and the daemon agree: what runs is listed, what is listed is there.
ListMatchesDaemon == RunningIsTracked /\ NoDeadEntry

\* Spawn writes the map without looking: it never overwrites a live entry.
NoEntryOverwritten ==
  [][\A n \in DOMAIN sleeves \cap DOMAIN sleeves' :
       n \notin contested => sleeves'[n] = sleeves[n]]_vars

\* Two listed sleeves share a port number only if it is the one that
\* RecoverSleeves gives to every sleeve and that numbering restarts from.
PortsDistinct ==
  \A m, n \in DOMAIN sleeves :
    m # n /\ sleeves[m].port = sleeves[n].port => sleeves[m].port = BasePort

\* Every reservation is resolved: the sleeve is registered or its name is free.
ReservationResolved ==
  \A n \in Names :
    (n \in usedNames /\ ~ Registered(n)) ~> (n \notin usedNames \/ Registered(n))

\* A container that runs is listed in the end, whatever crashes intervene.
RunningIsListed ==
  \A n \in Names :
    Running(n) ~> (Registered(n) \/ ~ Running(n) \/ n \in contested)

\* An entry whose container a Kill removed does not stay in the list.
DeadEntryGoes ==
  \A n \in Names :
    (Registered(n) /\ n \notin contested /\ ~ Alive(sleeves[n].cid))
      ~> (~ Registered(n) \/ n \in contested)

----------------------------------------------------------------------------
(***************************************************************************)
(* The manager implements the lifecycle of names.                          *)
(***************************************************************************)
Phase(n) ==
  CASE n \in contested -> "contested"
    [] n \notin contested /\ Registered(n) -> "live"
    [] n \notin contested /\ \E t \in Threads : Spawning(t, n) -> "pending"
    [] n \notin contested /\ \E t \in Threads : Freeing(t, n) -> "closing"
    [] OTHER -> "free"

Lifecycle == INSTANCE NameLifecycle
  WITH serving <- up, phase <- [n \in Names |-> Phase(n)]

\* Whatever Spawns, Kills and crashes interleave, a name goes through its
\* lifecycle one step at a time and is handed out only when it is free.
NamesFollowLifecycle == Lifecycle!Spec

----------------------------------------------------------------------------
(***************************************************************************)
(* What the documentation says of the list of sleeves, and Spawn does not  *)
(* look at.                                                                *)
(***************************************************************************)
\* "One sleeve per stack": no two listed sleeves mount one workspace.
OneSleevePerWorkspace ==
  \A m, n \in DOMAIN sleeves : m # n => sleeves[m].ws # sleeves[n].ws

=============================================================================
