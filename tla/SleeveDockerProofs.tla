------------------------- MODULE SleeveDockerProofs -------------------------
(***************************************************************************)
(* Proofs about SleeveManager and the daemon it drives: map and daemon     *)
(* agree, for every number of goroutines, names and containers.  They rest *)
(* on the ownership of names proved in SleeveManagerProofs: what a call    *)
(* knows of its container stays true because nobody else owns the name.    *)
(***************************************************************************)
EXTENDS SleeveManagerProofs

----------------------------------------------------------------------------
(***************************************************************************)
(* The inductive invariant.                                                *)
(***************************************************************************)
\* An id is given out once, and 0 never.
IdsUnique ==
  /\ \A n \in DOMAIN containers : containers[n].id \in 1 .. lastId
  /\ \A m, n \in DOMAIN containers : containers[m].id = containers[n].id => m = n
  /\ \A t \in Threads : local[t].cid <= lastId

\* The container whose id a call holds, as long as it is there, bears the name
\* the call is about.
IdsNamed ==
  \A t \in Threads, n \in DOMAIN containers :
    containers[n].id = local[t].cid => n = local[t].name

\* A Spawn that created its container still has it.
Created(t) == pc[t] \in {"start", "cleanup", "publish"}
SpawnHasIt ==
  \A t \in Threads :
    LET n == local[t].name IN
    Created(t) /\ n \notin contested =>
      n \in DOMAIN containers /\ containers[n].id = local[t].cid

\* A container of a listed name is the listed one.
ListedIsIt ==
  \A n \in DOMAIN sleeves \ contested :
    n \in DOMAIN containers => sleeves[n].cid = containers[n].id

\* Kill gets to the entry only when the container is gone.
Deleting(t, n) == pc[t] = "delete" /\ local[t].name = n
GoneBeforeDelete ==
  \A t \in Threads, n \in Names \ contested :
    Deleting(t, n) => n \notin DOMAIN containers

\* The container of a listed name is there until a Kill has removed it.
ListedIsThere ==
  \A n \in DOMAIN sleeves \ contested :
    n \in DOMAIN containers \/ \E t \in Threads : Deleting(t, n)

DockerInv ==
  /\ IdsUnique
  /\ IdsNamed
  /\ SpawnHasIt
  /\ ListedIsIt
  /\ GoneBeforeDelete
  /\ ListedIsThere
  /\ KillHitsItsSleeve
  /\ RunningIsTracked

----------------------------------------------------------------------------
(***************************************************************************)
(* Steps that leave the containers, but for their states, and the list     *)
(* alone: no call learns or forgets an id except by returning.             *)
(***************************************************************************)
\* Pcs at which the invariant speaks of a call.
Speaks(t) == Created(t) \/ pc[t] \in {"stop", "remove", "delete"}

LEMMA NothingMoved ==
  ASSUME DockerInv,
         DOMAIN containers' = DOMAIN containers,
         \A n \in DOMAIN containers :
           /\ containers'[n].id = containers[n].id
           /\ containers'[n].state = "running" => containers[n].state = "running",
         sleeves' = sleeves, contested' = contested, lastId' = lastId, up' => up,
         lastId \in Nat,
         \A t \in Threads :
           /\ \/ local'[t].name = local[t].name /\ local'[t].cid = local[t].cid
              \/ local'[t].cid = 0 /\ ~ Speaks(t)'
           /\ Created(t)' => Created(t)
           /\ pc'[t] \in {"stop", "remove"} => pc[t] \in {"stop", "remove"}
           /\ pc'[t] = "delete" <=> pc[t] = "delete"
           /\ pc[t] = "publish" => pc'[t] = "publish"
           /\ pc[t] = "delete" => local'[t].name = local[t].name
           /\ pc[t] = "publish" => local'[t] = local[t]
  PROVE  DockerInv'
<1> USE DEF DockerInv
<1>1. IdsUnique'
  BY DEF IdsUnique
<1>2. IdsNamed'
  BY DEF IdsNamed, IdsUnique
<1>3. SpawnHasIt'
  BY DEF SpawnHasIt, Created, Speaks
<1>4. ListedIsIt'
  BY DEF ListedIsIt
<1>5. GoneBeforeDelete' /\ ListedIsThere'
  BY DEF GoneBeforeDelete, ListedIsThere, Deleting
<1>6. KillHitsItsSleeve'
  BY DEF KillHitsItsSleeve, Registered, Speaks
<1>7. RunningIsTracked'
  BY DEF RunningIsTracked, Running, Registered
<1> QED BY <1>1, <1>2, <1>3, <1>4, <1>5, <1>6, <1>7

\* A request that begins knows no container yet.
LEMMA RequestMovesNothing ==
  ASSUME TypeInv, DockerInv, NEW t \in Threads, Request(t)
  PROVE  DockerInv'
<1> USE DEF memory, docker
<1>1. /\ pc[t] = "idle" /\ pc' = [pc EXCEPT ![t] = pc'[t]] /\ pc'[t] \in {"port", "find"}
      /\ local'[t].cid = 0 /\ \A u \in Threads \ {t} : local'[u] = local[u]
      /\ UNCHANGED <<up, sleeves, containers, lastId, contested>>
  BY DEF TypeInv, TypeOK, Request, ReserveNamed, AllocateName, Reserve, KillLookup,
         Goto, NoLocals
<1> QED BY <1>1, NothingMoved DEF TypeInv, TypeOK, Speaks, Created

\* The steps of Spawn before it creates the container, and its failures.
LEMMA SpawnMovesNothing ==
  ASSUME TypeInv, DockerInv, NEW t \in Threads,
         AllocatePort(t) \/ ListNetworks(t) \/ CreateNetwork(t) \/ ReleaseAborted(t)
  PROVE  DockerInv'
<1> USE DEF memory, docker
<1>1. /\ pc[t] \in {"port", "netlist", "netcreate", "abort"}
      /\ pc' = [pc EXCEPT ![t] = pc'[t]]
      /\ pc'[t] \in {"netlist", "netcreate", "create", "abort", "idle"}
      /\ \/ local'[t].name = local[t].name /\ local'[t].cid = local[t].cid
         \/ local'[t].cid = 0
      /\ \A u \in Threads \ {t} : local'[u] = local[u]
      /\ UNCHANGED <<up, sleeves, containers, lastId, contested>>
  BY DEF TypeInv, TypeOK, Locals, AllocatePort, ListNetworks, CreateNetwork,
         ReleaseAborted, Return, Goto, NoLocals
<1> QED BY <1>1, NothingMoved DEF TypeInv, TypeOK, Speaks, Created

\* A Kill that returns, a stopped container and one that exits by itself.
LEMMA KillMovesNothing ==
  ASSUME TypeInv, DockerInv, NEW t \in Threads,
         Return(t, "find") \/ Return(t, "remove") \/ Return(t, "free"),
         UNCHANGED <<up, sleeves, containers, lastId, contested>>
  PROVE  DockerInv'
<1>1. /\ pc[t] \in {"find", "remove", "free"} /\ pc' = [pc EXCEPT ![t] = "idle"]
      /\ local'[t].cid = 0 /\ \A u \in Threads \ {t} : local'[u] = local[u]
  BY DEF TypeInv, TypeOK, Return, Goto, NoLocals
<1> QED BY <1>1, NothingMoved DEF TypeInv, TypeOK, Speaks, Created

LEMMA StatesMoveNothing ==
  ASSUME TypeInv, DockerInv,
         \/ \E t \in Threads : StopContainer(t)
         \/ \E n \in Names : ContainerExits(n)
  PROVE  DockerInv'
<1> USE DEF memory
<1>1. /\ DOMAIN containers' = DOMAIN containers
      /\ \A n \in DOMAIN containers :
           /\ containers'[n].id = containers[n].id
           /\ containers'[n].state = "running" => containers[n].state = "running"
      /\ UNCHANGED <<up, local, sleeves, lastId, contested>>
  BY DEF TypeInv, TypeOK, Container, StopContainer, ContainerExits
<1>2. \/ pc' = pc
      \/ \E t \in Threads : pc[t] = "stop" /\ pc' = [pc EXCEPT ![t] = "remove"]
  BY DEF StopContainer, ContainerExits, Goto
<1> QED BY <1>1, <1>2, NothingMoved DEF TypeInv, TypeOK, Speaks, Created

----------------------------------------------------------------------------
(***************************************************************************)
(* The steps that create, start and remove containers, and that write the  *)
(* list.                                                                   *)
(***************************************************************************)
\* Two calls of one uncontested name, and a call and an entry of it: what
\* OneOwner excludes.
LEMMA SoleOwner ==
  ASSUME OneOwner, NEW n \in Names \ contested, NEW t \in Threads, Spawning(t, n)
  PROVE  /\ n \notin DOMAIN sleeves
         /\ \A u \in Threads \ {t} : ~ Spawning(u, n) /\ ~ Killing(u, n)
  BY DEF OneOwner, Registered

\* The id of a new container is one that nobody holds.
LEMMA CreateKeepsDocker ==
  ASSUME TypeInv, OneOwner, DockerInv, NEW t \in Threads, CreateContainer(t)
  PROVE  DockerInv'
<1> USE DEF memory, TypeInv, TypeOK
<1> DEFINE n == local[t].name
<1>1. /\ pc[t] = "create" /\ Spawning(t, n) /\ n \in Names
      /\ UNCHANGED <<up, sleeves, contested>>
  BY DEF CreateContainer, Goto, Spawning, SpawnPC, LocalsSet
<1>2. CASE UNCHANGED <<containers, lastId, local>>
  <2>1. pc' = [pc EXCEPT ![t] = pc'[t]] /\ pc'[t] \in {"start", "abort"}
    BY DEF CreateContainer, Goto
  <2>2. pc'[t] = "abort"
    BY <1>2, <2>1 DEF CreateContainer, Goto
  <2> QED BY <1>1, <1>2, <2>1, <2>2, NothingMoved DEF Speaks, Created
<1>3. CASE ~ UNCHANGED <<containers, lastId, local>>
  <2>1. /\ n \notin DOMAIN containers /\ lastId' = lastId + 1
        /\ DOMAIN containers' = DOMAIN containers \cup {n}
        /\ containers'[n].id = lastId + 1 /\ containers'[n].state = "created"
        /\ \A k \in DOMAIN containers : containers'[k] = containers[k]
        /\ local'[t].cid = lastId + 1 /\ local'[t].name = n
        /\ \A u \in Threads \ {t} : local'[u] = local[u]
        /\ pc' = [pc EXCEPT ![t] = "start"]
    BY <1>3 DEF CreateContainer, Goto, Put, Locals
  <2>2. IdsUnique'
    BY <2>1 DEF DockerInv, IdsUnique, Locals
  <2>3. IdsNamed'
    BY <2>1 DEF DockerInv, IdsUnique, IdsNamed
  <2>4. SpawnHasIt'
    BY <1>1, <2>1 DEF DockerInv, SpawnHasIt, Created
  <2>5. n \notin contested => n \notin DOMAIN sleeves
    BY <1>1, SoleOwner
  <2>6. ListedIsIt'
    BY <1>1, <2>1, <2>5 DEF DockerInv, ListedIsIt
  <2>7. \A u \in Threads, k \in Names : Deleting(u, k)' <=> Deleting(u, k)
    BY <1>1, <2>1 DEF Deleting
  <2>8. n \notin contested => \A u \in Threads : ~ Deleting(u, n)
    BY <1>1, SoleOwner DEF Deleting, Killing, KillPC
  <2>9. GoneBeforeDelete'
    BY <1>1, <2>1, <2>7, <2>8 DEF DockerInv, GoneBeforeDelete
  <2>10. ListedIsThere'
    BY <1>1, <2>1, <2>7 DEF DockerInv, ListedIsThere
  <2>11. KillHitsItsSleeve'
    BY <1>1, <2>1 DEF DockerInv, KillHitsItsSleeve, Registered
  <2>12. RunningIsTracked'
    BY <1>1, <2>1 DEF DockerInv, RunningIsTracked, Running, Registered
  <2> QED BY <2>2, <2>3, <2>4, <2>6, <2>9, <2>10, <2>11, <2>12 DEF DockerInv
<1> QED BY <1>2, <1>3

\* A container that begins to run is its Spawn's, which is about to list it.
LEMMA StartKeepsDocker ==
  ASSUME TypeInv, OneOwner, DockerInv, NEW t \in Threads, StartContainer(t)
  PROVE  DockerInv'
<1> USE DEF memory, TypeInv, TypeOK
<1> DEFINE n == local[t].name
<1>1. /\ pc[t] = "start" /\ Spawning(t, n) /\ n \in Names
      /\ UNCHANGED <<up, local, sleeves, lastId, contested>>
  BY DEF StartContainer, Goto, Spawning, SpawnPC, LocalsSet
<1>2. CASE pc'[t] = "cleanup"
  <2>1. pc' = [pc EXCEPT ![t] = "cleanup"] /\ containers' = containers
    BY <1>2 DEF StartContainer, Goto
  <2> QED BY <1>1, <2>1, NothingMoved DEF Speaks, Created
<1>3. CASE pc'[t] # "cleanup"
  <2>1. /\ pc' = [pc EXCEPT ![t] = "publish"]
        /\ n \in DOMAIN containers /\ containers[n].id = local[t].cid
        /\ DOMAIN containers' = DOMAIN containers
        /\ \A k \in DOMAIN containers : containers'[k].id = containers[k].id
        /\ \A k \in DOMAIN containers \ {n} : containers'[k] = containers[k]
    BY <1>3 DEF StartContainer, Goto, Container
  <2>2. IdsUnique' /\ IdsNamed' /\ ListedIsIt'
    BY <1>1, <2>1 DEF DockerInv, IdsUnique, IdsNamed, ListedIsIt
  <2>3. SpawnHasIt'
    BY <1>1, <2>1 DEF DockerInv, SpawnHasIt, Created
  <2>4. \A u \in Threads, k \in Names : Deleting(u, k)' <=> Deleting(u, k)
    BY <1>1, <2>1 DEF Deleting
  <2>5. GoneBeforeDelete' /\ ListedIsThere'
    BY <1>1, <2>1, <2>4 DEF DockerInv, GoneBeforeDelete, ListedIsThere
  <2>6. KillHitsItsSleeve'
    BY <1>1, <2>1 DEF DockerInv, KillHitsItsSleeve, Registered
  <2>7. RunningIsTracked'
    BY <1>1, <2>1 DEF DockerInv, RunningIsTracked, Running, Registered
  <2> QED BY <2>2, <2>3, <2>5, <2>6, <2>7 DEF DockerInv
<1> QED BY <1>2, <1>3

\* What a call removes by id is the container of its own name.
LEMMA RemovesItsOwn ==
  ASSUME DockerInv, NEW t \in Threads, Remove(local[t].cid)
  PROVE  LET n == local[t].name IN
         /\ n \in DOMAIN containers
         /\ DOMAIN containers' = DOMAIN containers \ {n}
         /\ \A k \in DOMAIN containers' : containers'[k] = containers[k]
<1>1. PICK n \in DOMAIN containers :
        containers[n].id = local[t].cid /\ containers' = Drop(containers, n)
  BY DEF Remove
<1>2. n = local[t].name
  BY <1>1 DEF DockerInv, IdsNamed
<1> QED BY <1>1, <1>2 DEF Drop, Restrict

\* The container of a failed start goes, or stays without running.
LEMMA CleanUpKeepsDocker ==
  ASSUME TypeInv, OneOwner, DockerInv, NEW t \in Threads, CleanUp(t)
  PROVE  DockerInv'
<1> USE DEF memory, TypeInv, TypeOK
<1> DEFINE n == local[t].name
<1>1. /\ pc[t] = "cleanup" /\ pc' = [pc EXCEPT ![t] = "abort"]
      /\ Spawning(t, n) /\ n \in Names
      /\ UNCHANGED <<up, local, sleeves, lastId, contested>>
  BY DEF CleanUp, Goto, Spawning, SpawnPC, LocalsSet
<1>2. CASE containers' = containers
  BY <1>1, <1>2, NothingMoved DEF Speaks, Created
<1>3. CASE containers' # containers
  <2>1. /\ DOMAIN containers' = DOMAIN containers \ {n}
        /\ \A k \in DOMAIN containers' : containers'[k] = containers[k]
    BY <1>3, RemovesItsOwn DEF CleanUp
  <2>2. IdsUnique' /\ IdsNamed' /\ ListedIsIt'
    BY <1>1, <2>1 DEF DockerInv, IdsUnique, IdsNamed, ListedIsIt
  <2>3. n \notin contested =>
          /\ n \notin DOMAIN sleeves
          /\ \A u \in Threads \ {t} : ~ Spawning(u, n)
    BY <1>1, SoleOwner
  <2>4. SpawnHasIt'
    BY <1>1, <2>1, <2>3 DEF DockerInv, SpawnHasIt, Created, Spawning, SpawnPC
  <2>5. \A u \in Threads, k \in Names : Deleting(u, k)' <=> Deleting(u, k)
    BY <1>1 DEF Deleting
  <2>6. GoneBeforeDelete' /\ ListedIsThere'
    BY <1>1, <2>1, <2>3, <2>5 DEF DockerInv, GoneBeforeDelete, ListedIsThere
  <2>7. KillHitsItsSleeve'
    BY <1>1 DEF DockerInv, KillHitsItsSleeve, Registered
  <2>8. RunningIsTracked'
    BY <1>1, <2>1 DEF DockerInv, RunningIsTracked, Running, Registered
  <2> QED BY <2>2, <2>4, <2>6, <2>7, <2>8 DEF DockerInv
<1> QED BY <1>2, <1>3

\* Spawn lists the container it created, which is still there.
LEMMA PublishKeepsDocker ==
  ASSUME TypeInv, OneOwner, DockerInv, NEW t \in Threads, Publish(t)
  PROVE  DockerInv'
<1> USE DEF docker, TypeInv, TypeOK
<1> DEFINE n == local[t].name
<1>1. /\ pc[t] = "publish" /\ Spawning(t, n) /\ n \in Names
      /\ pc' = [pc EXCEPT ![t] = "idle"]
      /\ local'[t].cid = 0 /\ \A u \in Threads \ {t} : local'[u] = local[u]
      /\ DOMAIN sleeves' = DOMAIN sleeves \cup {n} /\ sleeves'[n].cid = local[t].cid
      /\ \A k \in DOMAIN sleeves \ {n} : sleeves'[k] = sleeves[k]
      /\ UNCHANGED <<up, containers, lastId, contested>>
  BY DEF Publish, Return, Goto, Spawning, SpawnPC, LocalsSet, Put, NoLocals
<1>2. n \notin contested => n \in DOMAIN containers /\ containers[n].id = local[t].cid
  BY <1>1 DEF DockerInv, SpawnHasIt, Created
<1>3. n \notin contested => \A u \in Threads \ {t} : ~ Spawning(u, n) /\ ~ Killing(u, n)
  BY <1>1, SoleOwner
<1>4. IdsUnique' /\ IdsNamed'
  BY <1>1 DEF DockerInv, IdsUnique, IdsNamed
<1>5. SpawnHasIt'
  BY <1>1 DEF DockerInv, SpawnHasIt, Created
<1>6. ListedIsIt'
  BY <1>1, <1>2 DEF DockerInv, ListedIsIt
<1>7. \A u \in Threads, k \in Names : Deleting(u, k)' <=> Deleting(u, k)
  BY <1>1 DEF Deleting
<1>8. GoneBeforeDelete' /\ ListedIsThere'
  BY <1>1, <1>2, <1>7 DEF DockerInv, GoneBeforeDelete, ListedIsThere
<1>9. KillHitsItsSleeve'
  BY <1>1, <1>3 DEF DockerInv, KillHitsItsSleeve, Registered, Killing, KillPC
<1>10. RunningIsTracked'
  BY <1>1, <1>2 DEF DockerInv, RunningIsTracked, Running, Registered
<1> QED BY <1>4, <1>5, <1>6, <1>8, <1>9, <1>10 DEF DockerInv

\* Kill finds the container its sleeve was registered with, or none.
LEMMA FindKeepsDocker ==
  ASSUME TypeInv, OneOwner, DockerInv, NEW t \in Threads, FindContainer(t)
  PROVE  DockerInv'
<1> USE DEF memory, docker, TypeInv, TypeOK
<1> DEFINE n == local[t].name
<1>1. /\ pc[t] = "find" /\ Killing(t, n) /\ ~ Freeing(t, n) /\ n \in Names
      /\ UNCHANGED <<up, containers, sleeves, lastId, contested>>
  BY DEF FindContainer, Return, Goto, Killing, Freeing, KillPC, LocalsSet
<1>2. n \notin contested => Registered(n)
  BY <1>1 DEF OneOwner
<1>3. CASE Return(t, "find")
  BY <1>1, <1>3, KillMovesNothing
<1>4. CASE pc'[t] = "stop" /\ ~ Return(t, "find")
  <2>1. /\ n \in DOMAIN containers /\ pc' = [pc EXCEPT ![t] = "stop"]
        /\ local'[t].cid = containers[n].id /\ local'[t].name = n
        /\ \A u \in Threads \ {t} : local'[u] = local[u]
    BY <1>4 DEF FindContainer, Goto, Locals
  <2>2. IdsUnique' /\ IdsNamed'
    BY <1>1, <2>1 DEF DockerInv, IdsUnique, IdsNamed, Container
  <2>3. SpawnHasIt' /\ ListedIsIt'
    BY <1>1, <2>1 DEF DockerInv, SpawnHasIt, ListedIsIt, Created
  <2>4. \A u \in Threads, k \in Names : Deleting(u, k)' <=> Deleting(u, k)
    BY <1>1, <2>1 DEF Deleting
  <2>5. GoneBeforeDelete' /\ ListedIsThere'
    BY <1>1, <2>4 DEF DockerInv, GoneBeforeDelete, ListedIsThere
  <2>6. KillHitsItsSleeve'
    BY <1>1, <1>2, <2>1 DEF DockerInv, ListedIsIt, KillHitsItsSleeve, Registered
  <2>7. RunningIsTracked'
    BY <1>1, <2>1 DEF DockerInv, RunningIsTracked, Running, Registered
  <2> QED BY <2>2, <2>3, <2>5, <2>6, <2>7 DEF DockerInv
<1>5. CASE pc'[t] # "stop" /\ ~ Return(t, "find")
  <2>1. /\ n \notin DOMAIN containers /\ pc' = [pc EXCEPT ![t] = "delete"]
        /\ local' = local
    BY <1>5 DEF FindContainer, Goto
  <2>2. IdsUnique' /\ IdsNamed' /\ ListedIsIt'
    BY <1>1, <2>1 DEF DockerInv, IdsUnique, IdsNamed, ListedIsIt
  <2>3. SpawnHasIt' /\ KillHitsItsSleeve'
    BY <1>1, <2>1 DEF DockerInv, SpawnHasIt, Created, KillHitsItsSleeve, Registered
  <2>4. \A u \in Threads, k \in Names :
          Deleting(u, k)' <=> Deleting(u, k) \/ (u = t /\ k = n)
    BY <1>1, <2>1 DEF Deleting
  <2>5. GoneBeforeDelete' /\ ListedIsThere'
    BY <1>1, <2>1, <2>4 DEF DockerInv, GoneBeforeDelete, ListedIsThere
  <2>6. RunningIsTracked'
    BY <1>1, <2>1 DEF DockerInv, RunningIsTracked, Running, Registered
  <2> QED BY <2>2, <2>3, <2>5, <2>6 DEF DockerInv
<1> QED BY <1>3, <1>4, <1>5

\* A Kill that removed the container goes on to the entry.
LEMMA RemoveKeepsDocker ==
  ASSUME TypeInv, OneOwner, DockerInv, NEW t \in Threads, RemoveContainer(t)
  PROVE  DockerInv'
<1> USE DEF memory, TypeInv, TypeOK
<1> DEFINE n == local[t].name
<1>1. /\ pc[t] = "remove" /\ Killing(t, n) /\ n \in Names
      /\ UNCHANGED <<up, sleeves, lastId, contested>>
  BY DEF RemoveContainer, Return, Goto, Killing, KillPC, LocalsSet
<1>2. CASE Return(t, "remove") /\ UNCHANGED containers
  BY <1>1, <1>2, KillMovesNothing
<1>3. CASE ~ (Return(t, "remove") /\ UNCHANGED containers)
  <2>1. Remove(local[t].cid) /\ pc' = [pc EXCEPT ![t] = "delete"] /\ local' = local
    BY <1>3 DEF RemoveContainer, Goto
  <2>2. /\ DOMAIN containers' = DOMAIN containers \ {n}
        /\ \A k \in DOMAIN containers' : containers'[k] = containers[k]
    BY <2>1, RemovesItsOwn
  <2>3. IdsUnique' /\ IdsNamed' /\ ListedIsIt'
    BY <1>1, <2>1, <2>2 DEF DockerInv, IdsUnique, IdsNamed, ListedIsIt
  <2>4. n \notin contested => \A u \in Threads \ {t} : ~ Spawning(u, n)
    BY <1>1 DEF OneOwner
  <2>5. SpawnHasIt'
    BY <1>1, <2>1, <2>2, <2>4 DEF DockerInv, SpawnHasIt, Created, Spawning, SpawnPC
  <2>6. \A u \in Threads, k \in Names :
          Deleting(u, k)' <=> Deleting(u, k) \/ (u = t /\ k = n)
    BY <1>1, <2>1 DEF Deleting
  <2>7. GoneBeforeDelete' /\ ListedIsThere'
    BY <1>1, <2>2, <2>6 DEF DockerInv, GoneBeforeDelete, ListedIsThere
  <2>8. KillHitsItsSleeve'
    BY <1>1, <2>1 DEF DockerInv, KillHitsItsSleeve, Registered
  <2>9. RunningIsTracked'
    BY <1>1, <2>1, <2>2 DEF DockerInv, RunningIsTracked, Running, Registered
  <2> QED BY <2>3, <2>5, <2>7, <2>8, <2>9 DEF DockerInv
<1> QED BY <1>2, <1>3

\* The entry that goes has no container left, and no other Kill relies on it.
LEMMA DeleteKeepsDocker ==
  ASSUME TypeInv, OneOwner, DockerInv, NEW t \in Threads, DeleteSleeve(t)
  PROVE  DockerInv'
<1> USE DEF docker, TypeInv, TypeOK
<1> DEFINE n == local[t].name
<1>1. /\ pc[t] = "delete" /\ Killing(t, n) /\ n \in Names
      /\ pc' = [pc EXCEPT ![t] = "free"]
      /\ DOMAIN sleeves' = DOMAIN sleeves \ {n}
      /\ \A k \in DOMAIN sleeves' : sleeves'[k] = sleeves[k]
      /\ contested \subseteq contested'
      /\ n \notin contested' => \A u \in Threads \ {t} : ~ Killing(u, n)
      /\ UNCHANGED <<up, local, containers, lastId>>
  BY DEF DeleteSleeve, Goto, Killing, KillPC, LocalsSet, Drop, Restrict
<1>2. IdsUnique' /\ IdsNamed' /\ ListedIsIt'
  BY <1>1 DEF DockerInv, IdsUnique, IdsNamed, ListedIsIt
<1>3. SpawnHasIt'
  BY <1>1 DEF DockerInv, SpawnHasIt, Created
<1>4. \A u \in Threads, k \in Names :
        Deleting(u, k)' <=> Deleting(u, k) /\ u # t
  BY <1>1 DEF Deleting
<1>5. GoneBeforeDelete'
  BY <1>1, <1>4 DEF DockerInv, GoneBeforeDelete
<1>6. \A k \in Names \ {n} : ~ Deleting(t, k)
  BY DEF Deleting
<1>7. ListedIsThere'
  BY <1>1, <1>4, <1>6 DEF DockerInv, ListedIsThere
<1>8. KillHitsItsSleeve'
  BY <1>1 DEF DockerInv, KillHitsItsSleeve, Registered, Killing, KillPC
<1>9. n \notin contested => n \notin DOMAIN containers
  BY <1>1 DEF DockerInv, GoneBeforeDelete, Deleting
<1>10. RunningIsTracked'
  BY <1>1, <1>9 DEF DockerInv, RunningIsTracked, Running, Registered
<1> QED BY <1>2, <1>3, <1>5, <1>7, <1>8, <1>10 DEF DockerInv

\* After a crash no call knows anything, and nothing is listed.
LEMMA CrashKeepsDocker ==
  ASSUME TypeInv, DockerInv, Crash
  PROVE  DockerInv'
<1> USE DEF docker, TypeInv, TypeOK
<1>1. /\ \A t \in Threads : pc'[t] = "idle" /\ local'[t].cid = 0
      /\ DOMAIN sleeves' = {} /\ ~ up'
      /\ UNCHANGED <<containers, lastId>>
  BY EmptyMap DEF Crash, NoLocals
<1>2. IdsUnique' /\ IdsNamed'
  BY <1>1 DEF DockerInv, IdsUnique, IdsNamed
<1>3. SpawnHasIt' /\ GoneBeforeDelete' /\ KillHitsItsSleeve'
  BY <1>1 DEF SpawnHasIt, Created, GoneBeforeDelete, Deleting, KillHitsItsSleeve
<1>4. ListedIsIt' /\ ListedIsThere' /\ RunningIsTracked'
  BY <1>1 DEF ListedIsIt, ListedIsThere, RunningIsTracked
<1> QED BY <1>2, <1>3, <1>4 DEF DockerInv

\* Recovery lists every container with its id.
LEMMA RecoverKeepsDocker ==
  ASSUME TypeInv, DownIsQuiet, DockerInv, RecoverSleeves
  PROVE  DockerInv'
<1> USE DEF docker, TypeInv, TypeOK
<1>1. /\ \A t \in Threads : pc'[t] = "idle"
      /\ DOMAIN sleeves' = DOMAIN containers
      /\ \A n \in DOMAIN containers : sleeves'[n].cid = containers[n].id
      /\ UNCHANGED <<pc, local, containers, lastId, contested>>
  BY DEF RecoverSleeves, RecoveredSleeve, DownIsQuiet
<1>2. IdsUnique' /\ IdsNamed'
  BY <1>1 DEF DockerInv, IdsUnique, IdsNamed
<1>3. SpawnHasIt' /\ GoneBeforeDelete' /\ KillHitsItsSleeve'
  BY <1>1 DEF SpawnHasIt, Created, GoneBeforeDelete, Deleting, KillHitsItsSleeve
<1>4. ListedIsIt' /\ ListedIsThere' /\ RunningIsTracked'
  BY <1>1 DEF ListedIsIt, ListedIsThere, RunningIsTracked, Running, Registered
<1> QED BY <1>2, <1>3, <1>4 DEF DockerInv

----------------------------------------------------------------------------
(***************************************************************************)
(* The theorems.                                                           *)
(***************************************************************************)
ManagerInv == NameInv /\ DockerInv

LEMMA DockerInit == Init => DockerInv
<1> SUFFICES ASSUME Init PROVE DockerInv
  OBVIOUS
<1>1. /\ \A t \in Threads : pc[t] = "idle" /\ local[t].cid = 0
      /\ DOMAIN sleeves = {} /\ DOMAIN containers = {} /\ lastId = 0
  BY EmptyMap DEF Init, NoLocals
<1>2. IdsUnique /\ IdsNamed
  BY <1>1 DEF IdsUnique, IdsNamed
<1>3. SpawnHasIt /\ GoneBeforeDelete /\ KillHitsItsSleeve
  BY <1>1 DEF SpawnHasIt, Created, GoneBeforeDelete, Deleting, KillHitsItsSleeve
<1>4. ListedIsIt /\ ListedIsThere /\ RunningIsTracked
  BY <1>1 DEF ListedIsIt, ListedIsThere, RunningIsTracked, Running
<1> QED BY <1>2, <1>3, <1>4 DEF DockerInv

LEMMA ManagerInit == Init => ManagerInv
  BY NameInit, DockerInit DEF ManagerInv

LEMMA ManagerNext == ManagerInv /\ [Next]_vars => ManagerInv'
<1> SUFFICES ASSUME ManagerInv, [Next]_vars
             PROVE  DockerInv'
  BY NameNext DEF ManagerInv
<1> USE DEF ManagerInv, NameInv
<1>1. ASSUME NEW t \in Threads, Request(t)
      PROVE  DockerInv'
  BY <1>1, RequestMovesNothing
<1>2. ASSUME NEW t \in Threads, SpawnStep(t)
      PROVE  DockerInv'
  BY <1>2, SpawnMovesNothing, CreateKeepsDocker, StartKeepsDocker, CleanUpKeepsDocker,
     PublishKeepsDocker DEF SpawnStep
<1>3. ASSUME NEW t \in Threads, KillStep(t)
      PROVE  DockerInv'
  <2>1. CASE ReleaseKilled(t)
    BY <2>1, KillMovesNothing DEF ReleaseKilled, docker
  <2>2. CASE StopContainer(t)
    BY <2>2, StatesMoveNothing
  <2> QED BY <1>3, <2>1, <2>2, FindKeepsDocker, RemoveKeepsDocker, DeleteKeepsDocker
          DEF KillStep
<1>4. CASE Environment \/ RecoverSleeves
  BY <1>4, StatesMoveNothing, CrashKeepsDocker, RecoverKeepsDocker DEF Environment
<1>5. CASE UNCHANGED vars
  BY <1>5, NothingMoved DEF vars, memory, docker, TypeInv, TypeOK, Speaks, Created
<1> QED BY <1>1, <1>2, <1>3, <1>4, <1>5 DEF Next

\* Kill stops and removes the container its sleeve was registered with.
THEOREM KillsHitTheirSleeve == Spec => []KillHitsItsSleeve
<1>1. ManagerInv => KillHitsItsSleeve
  BY DEF ManagerInv, DockerInv
<1> QED BY <1>1, ManagerInit, ManagerNext, PTL DEF Spec

\* The list and the daemon agree, in both directions.
THEOREM ListAndDaemonAgree == Spec => []ListMatchesDaemon
<1>1. ManagerInv => RunningIsTracked
  BY DEF ManagerInv, DockerInv
<1>2. ManagerInv => NoDeadEntry
  BY DEF ManagerInv, DockerInv, ListedIsIt, ListedIsThere, NoDeadEntry, Alive, Deleting
<1> QED BY <1>1, <1>2, ManagerInit, ManagerNext, PTL DEF Spec, ListMatchesDaemon

\* The list is lost with the process, and recovered before it serves.
DownIsEmpty == ~ up => DOMAIN sleeves = {} /\ contested = {}

LEMMA EmptyNext == NameInv /\ DownIsEmpty /\ [Next]_vars => DownIsEmpty'
<1> SUFFICES ASSUME NameInv, DownIsEmpty, [Next]_vars, ~ up'
             PROVE  DOMAIN sleeves' = {} /\ contested' = {}
  BY DEF DownIsEmpty
<1> USE DEF NameInv, memory, docker
<1>1. CASE Crash
  BY <1>1, EmptyMap DEF Crash
<1>2. CASE RecoverSleeves
  BY <1>2 DEF RecoverSleeves
<1>3. CASE (\E n \in Names : ContainerExits(n)) \/ UNCHANGED vars
  BY <1>3 DEF ContainerExits, vars, DownIsEmpty
<1>4. ASSUME NEW t \in Threads, Request(t)
      PROVE  up /\ up' = up
  BY <1>4 DEF Request, ReserveNamed, AllocateName, Reserve, KillLookup
<1>5. ASSUME NEW t \in Threads, SpawnStep(t) \/ KillStep(t)
      PROVE  up /\ up' = up
  <2>1. pc[t] # "idle" /\ up' = up
    BY <1>5 DEF SpawnStep, AllocatePort, ListNetworks, CreateNetwork, CreateContainer,
                StartContainer, CleanUp, ReleaseAborted, Publish, KillStep, FindContainer,
                StopContainer, RemoveContainer, DeleteSleeve, ReleaseKilled, Return, Goto
  <2> QED BY <2>1 DEF DownIsQuiet
<1> QED BY <1>1, <1>2, <1>3, <1>4, <1>5 DEF Next, Environment

\* The entries a step may not touch.
Kept == \A n \in DOMAIN sleeves \cap DOMAIN sleeves' :
          n \notin contested => sleeves'[n] = sleeves[n]

LEMMA StepsKeepEntries ==
  ASSUME NameInv, DownIsEmpty, [Next]_vars
  PROVE  Kept
<1> USE DEF docker, memory, NameInv, Kept
<1>1. ASSUME NEW t \in Threads, Request(t)
      PROVE  sleeves' = sleeves
  BY <1>1 DEF Request, ReserveNamed, AllocateName, Reserve, KillLookup
<1>2. ASSUME NEW t \in Threads, SpawnStep(t)
      PROVE  sleeves' = sleeves \/ Publish(t)
  BY <1>2 DEF SpawnStep, AllocatePort, ListNetworks, CreateNetwork, CreateContainer,
              StartContainer, CleanUp, ReleaseAborted
<1>3. ASSUME NEW t \in Threads, KillStep(t)
      PROVE  sleeves' = sleeves \/ DeleteSleeve(t)
  BY <1>3 DEF KillStep, FindContainer, StopContainer, RemoveContainer, ReleaseKilled
<1>4. ASSUME NEW t \in Threads, Publish(t)
      PROVE  Kept
  <2> DEFINE n == local[t].name
  <2>1. /\ Spawning(t, n) /\ n \in Names
        /\ \A k \in DOMAIN sleeves \ {n} : sleeves'[k] = sleeves[k]
    BY <1>4 DEF Publish, Return, Goto, Spawning, SpawnPC, TypeInv, LocalsSet, Put
  <2>2. n \in contested \/ n \notin DOMAIN sleeves
    BY <2>1, SoleOwner
  <2> QED BY <2>1, <2>2
<1>5. ASSUME NEW t \in Threads, DeleteSleeve(t)
      PROVE  Kept
  BY <1>5 DEF DeleteSleeve, Drop, Restrict
<1>6. CASE Crash
  BY <1>6, EmptyMap DEF Crash
<1>7. CASE RecoverSleeves
  BY <1>7 DEF RecoverSleeves, DownIsEmpty
<1>8. CASE (\E n \in Names : ContainerExits(n)) \/ UNCHANGED vars
  BY <1>8 DEF ContainerExits, vars
<1> QED BY <1>1, <1>2, <1>3, <1>4, <1>5, <1>6, <1>7, <1>8 DEF Next, Environment

\* No step of anyone writes over the entry of a registered sleeve.
THEOREM EntriesAreKept == Spec => NoEntryOverwritten
<1>1. Init => NameInv /\ DownIsEmpty
  BY NameInit DEF Init, DownIsEmpty
<1>2. NameInv /\ DownIsEmpty /\ [Next]_vars => (NameInv /\ DownIsEmpty)'
  BY NameNext, EmptyNext
<1>3. NameInv /\ DownIsEmpty /\ [Next]_vars => [Kept]_vars
  BY StepsKeepEntries
<1> QED BY <1>1, <1>2, <1>3, PTL DEF Spec, Kept, NoEntryOverwritten

----------------------------------------------------------------------------
(***************************************************************************)
(* Port numbers: numbering goes up, and starts again at the port that all  *)
(* recovered sleeves bear.                                                 *)
(***************************************************************************)
Numbered(t) == pc[t] \in SpawnPC \ {"port"}

PortInv ==
  /\ nextPort >= BasePort
  /\ \A n \in DOMAIN sleeves :
       sleeves[n].port = BasePort \/ sleeves[n].port < nextPort
  /\ \A t \in Threads : Numbered(t) =>
       /\ local[t].port < nextPort
       /\ \A n \in DOMAIN sleeves :
            sleeves[n].port = local[t].port => sleeves[n].port = BasePort
       /\ \A u \in Threads : Numbered(u) /\ u # t => local[u].port # local[t].port
  /\ PortsDistinct

LEMMA PortInit == Init => PortInv
<1> SUFFICES ASSUME Init PROVE PortInv
  OBVIOUS
<1>1. DOMAIN sleeves = {} /\ \A t \in Threads : pc[t] = "idle"
  BY EmptyMap DEF Init
<1> QED BY <1>1, PortAssumption DEF Init, PortInv, PortsDistinct, Numbered, SpawnPC

\* Steps that number nothing and list nothing.
LEMMA NumbersStay ==
  ASSUME PortInv, nextPort' = nextPort,
         DOMAIN sleeves' \subseteq DOMAIN sleeves,
         \A n \in DOMAIN sleeves' : sleeves'[n] = sleeves[n],
         \A t \in Threads :
           Numbered(t)' => Numbered(t) /\ local'[t].port = local[t].port
  PROVE  PortInv'
  BY DEF PortInv, PortsDistinct

LEMMA PortNext == TypeInv /\ PortInv /\ [Next]_vars => PortInv'
<1> SUFFICES ASSUME TypeInv, PortInv, [Next]_vars
             PROVE  PortInv'
  OBVIOUS
<1> USE DEF docker, memory, TypeInv, TypeOK
<1>1. ASSUME NEW t \in Threads, AllocatePort(t)
      PROVE  PortInv'
  <2>1. /\ pc[t] = "port" /\ pc' = [pc EXCEPT ![t] = "netlist"]
        /\ local'[t].port = nextPort /\ \A u \in Threads \ {t} : local'[u] = local[u]
        /\ nextPort' = nextPort + 1 /\ sleeves' = sleeves
    BY <1>1 DEF AllocatePort, Goto, Locals
  <2>2. \A u \in Threads \ {t} : Numbered(u)' <=> Numbered(u)
    BY <2>1 DEF Numbered
  <2>3. /\ \A n \in DOMAIN sleeves : sleeves[n].port \in Nat
        /\ \A u \in Threads : local[u].port \in Nat
    BY DEF SleeveInfo, Locals
  <2> QED BY <2>1, <2>2, <2>3, PortAssumption DEF PortInv, PortsDistinct
<1>2. ASSUME NEW t \in Threads, Publish(t)
      PROVE  PortInv'
  <2> DEFINE n == local[t].name
  <2>1. /\ Numbered(t) /\ pc' = [pc EXCEPT ![t] = "idle"]
        /\ \A u \in Threads \ {t} : local'[u] = local[u]
        /\ DOMAIN sleeves' = DOMAIN sleeves \cup {n} /\ sleeves'[n].port = local[t].port
        /\ \A k \in DOMAIN sleeves \ {n} : sleeves'[k] = sleeves[k]
        /\ nextPort' = nextPort
    BY <1>2 DEF Publish, Return, Goto, Numbered, SpawnPC, Put
  <2>2. /\ ~ Numbered(t)'
        /\ \A u \in Threads \ {t} : Numbered(u)' <=> Numbered(u)
    BY <2>1 DEF Numbered, SpawnPC
  <2> QED BY <2>1, <2>2 DEF PortInv, PortsDistinct
<1>3. ASSUME NEW t \in Threads, Request(t)
      PROVE  PortInv'
  <2>1. /\ pc' = [pc EXCEPT ![t] = pc'[t]] /\ pc'[t] \in {"port", "find"}
        /\ \A u \in Threads \ {t} : local'[u] = local[u]
        /\ sleeves' = sleeves /\ nextPort' = nextPort
    BY <1>3 DEF Request, ReserveNamed, AllocateName, Reserve, KillLookup, Goto
  <2> QED BY <2>1, NumbersStay DEF Numbered, SpawnPC
<1>4. ASSUME NEW t \in Threads,
             \/ ListNetworks(t) \/ CreateNetwork(t) \/ CreateContainer(t)
             \/ StartContainer(t) \/ CleanUp(t)
      PROVE  PortInv'
  <2>1. /\ Numbered(t) /\ pc' = [pc EXCEPT ![t] = pc'[t]]
        /\ \A u \in Threads : local'[u].port = local[u].port
        /\ sleeves' = sleeves /\ nextPort' = nextPort
    BY <1>4 DEF ListNetworks, CreateNetwork, CreateContainer, StartContainer, CleanUp,
                Goto, Numbered, SpawnPC, Locals
  <2> QED BY <2>1, NumbersStay DEF Numbered
<1>5. ASSUME NEW t \in Threads, ReleaseAborted(t) \/ KillStep(t)
      PROVE  PortInv'
  <2>1. /\ pc' = [pc EXCEPT ![t] = pc'[t]] /\ pc'[t] \in KillPC \cup {"idle"}
        /\ \A u \in Threads \ {t} : local'[u] = local[u]
        /\ nextPort' = nextPort
        /\ DOMAIN sleeves' \subseteq DOMAIN sleeves
        /\ \A n \in DOMAIN sleeves' : sleeves'[n] = sleeves[n]
    BY <1>5 DEF ReleaseAborted, KillStep, FindContainer, StopContainer, RemoveContainer,
                DeleteSleeve, ReleaseKilled, Return, Goto, KillPC, Drop, Restrict
  <2> QED BY <2>1, NumbersStay DEF Numbered, SpawnPC, KillPC
<1>6. CASE Crash
  BY <1>6, EmptyMap, PortAssumption DEF Crash, PortInv, PortsDistinct, Numbered, SpawnPC
<1>7. CASE RecoverSleeves
  <2>1. \A n \in DOMAIN sleeves' : sleeves'[n].port = BasePort
    BY <1>7 DEF RecoverSleeves, RecoveredSleeve
  <2>2. UNCHANGED <<pc, local, nextPort>>
    BY <1>7 DEF RecoverSleeves
  <2> QED BY <2>1, <2>2 DEF PortInv, PortsDistinct, Numbered
<1>8. CASE (\E n \in Names : ContainerExits(n)) \/ UNCHANGED vars
  <2>1. UNCHANGED <<pc, local, sleeves, nextPort>>
    BY <1>8 DEF ContainerExits, vars
  <2> QED BY <2>1, NumbersStay DEF Numbered
<1> QED BY <1>1, <1>2, <1>3, <1>4, <1>5, <1>6, <1>7, <1>8
        DEF Next, Environment, SpawnStep

\* Listed sleeves share no port number but the one recovery gives to all.
THEOREM PortsAreDistinct == Spec => []PortsDistinct
<1>1. PortInv => PortsDistinct
  BY DEF PortInv
<1> QED BY <1>1, TypeInit, TypeNext, PortInit, PortNext, PTL DEF Spec

----------------------------------------------------------------------------
(***************************************************************************)
(* SleeveManager implements NameLifecycle: a name goes through its         *)
(* lifecycle one step at a time.  The steps that move a name are those     *)
(* that change its owner; that it is in the phase they leave is what       *)
(* OneOwner says.                                                          *)
(***************************************************************************)
\* What Phase looks at.
Pending(n) == \E t \in Threads : Spawning(t, n)
Closing(n) == \E t \in Threads : Freeing(t, n)
phases == [n \in Names |-> Phase(n)]

\* A name's phase, when its owners exclude each other.
LEMMA PhaseOf ==
  ASSUME OneOwner, NEW n \in Names \ contested
  PROVE  /\ Registered(n) => Phase(n) = "live"
         /\ Pending(n) => Phase(n) = "pending"
         /\ Closing(n) => Phase(n) = "closing"
         /\ ~ Registered(n) /\ ~ Pending(n) /\ ~ Closing(n) => Phase(n) = "free"
<1>1. Pending(n) => ~ Registered(n) /\ ~ Closing(n)
  BY FreeingKills DEF OneOwner, Pending, Closing, Spawning, Freeing, SpawnPC
<1>2. Closing(n) => ~ Registered(n) /\ ~ Pending(n)
  BY <1>1 DEF OneOwner, Closing
<1> QED BY <1>1, <1>2 DEF Phase, Pending, Closing

LEMMA PhaseContested ==
  ASSUME NEW n \in contested
  PROVE  Phase(n) = "contested"
  BY DEF Phase

\* The same of the state a step leads to.
LEMMA PhaseAfter ==
  ASSUME OneOwner', NEW n \in Names
  PROVE  /\ n \in contested' => Phase(n)' = "contested"
         /\ n \notin contested' =>
              /\ Registered(n)' => Phase(n)' = "live"
              /\ Pending(n)' => Phase(n)' = "pending"
              /\ Closing(n)' => Phase(n)' = "closing"
              /\ ~ Registered(n)' /\ ~ Pending(n)' /\ ~ Closing(n)' => Phase(n)' = "free"
<1>1. n \notin contested' /\ Pending(n)' => ~ Registered(n)' /\ ~ Closing(n)'
  BY DEF OneOwner, Pending, Closing, Spawning, Killing, Freeing, SpawnPC, KillPC
<1>2. n \notin contested' /\ Closing(n)' => ~ Registered(n)' /\ ~ Pending(n)'
  BY <1>1 DEF OneOwner, Closing
<1> QED BY <1>1, <1>2 DEF Phase, Pending, Closing

\* A name whose owners stay the same stays in its phase.
LEMMA PhaseStays ==
  ASSUME OneOwner, OneOwner', NEW n \in Names,
         n \in contested' <=> n \in contested,
         Registered(n)' <=> Registered(n),
         Pending(n)' <=> Pending(n),
         Closing(n)' <=> Closing(n)
  PROVE  Phase(n)' = Phase(n)
  BY PhaseOf, PhaseContested, PhaseAfter

\* One name moves, the others stay.
LEMMA OneMoves ==
  ASSUME NEW n \in Names, NEW to, Phase(n)' = to,
         \A m \in Names \ {n} : Phase(m)' = Phase(m)
  PROVE  phases' = [phases EXCEPT ![n] = to]
  BY DEF phases

LEMMA AllStay ==
  ASSUME \A n \in Names : Phase(n)' = Phase(n)
  PROVE  phases' = phases
  BY DEF phases

----------------------------------------------------------------------------
(***************************************************************************)
(* The steps.                                                              *)
(***************************************************************************)
LEMMA RequestMaps ==
  ASSUME NameInv, OneOwner', NEW t \in Threads, Request(t)
  PROVE  (\E n \in Names : Lifecycle!HandOut(n)) \/ UNCHANGED <<up, phases>>
<1> USE DEF NameInv, TypeInv, TypeOK, docker, memory
<1>1. ASSUME NEW n \in Names, NEW w \in Workspaces, n \notin usedNames, Reserve(t, n, w)
      PROVE  Lifecycle!HandOut(n) \/ UNCHANGED <<up, phases>>
  <2>1. /\ pc[t] = "idle" /\ pc' = [pc EXCEPT ![t] = "port"] /\ up /\ up' = up
        /\ local'[t].name = n /\ \A u \in Threads \ {t} : local'[u] = local[u]
        /\ sleeves' = sleeves /\ contested' = contested
    BY <1>1 DEF Reserve, Goto, NoLocals
  <2>2. \A u \in Threads, m \in Names :
          /\ Spawning(u, m)' <=> Spawning(u, m) \/ (u = t /\ m = n)
          /\ Freeing(u, m)' <=> Freeing(u, m)
    BY <2>1 DEF Spawning, Freeing, SpawnPC
  <2>3. \A m \in Names \ {n} : Phase(m)' = Phase(m)
    BY <2>1, <2>2, PhaseStays DEF Pending, Closing, Registered
  <2>4. CASE n \in contested
    <3>1. Phase(n)' = Phase(n)
      BY <2>1, <2>4, PhaseContested, PhaseAfter
    <3> QED BY <2>1, <2>3, <3>1, AllStay
  <2>5. CASE n \notin contested
    <3>1. Phase(n) = "free"
      BY <1>1, <2>5, FreeNameUnowned, PhaseOf DEF Pending, Closing
    <3>2. Phase(n)' = "pending"
      BY <2>1, <2>2, <2>5, PhaseAfter DEF Pending
    <3> QED BY <2>1, <2>3, <3>1, <3>2, OneMoves
            DEF Lifecycle!HandOut, Lifecycle!Move, phases
  <2> QED BY <2>4, <2>5
<1>2. ASSUME NEW n \in Names, NEW w \in Workspaces, ReserveNamed(t, n, w)
      PROVE  (\E m \in Names : Lifecycle!HandOut(m)) \/ UNCHANGED <<up, phases>>
  BY <1>1, <1>2 DEF ReserveNamed
<1>3. ASSUME NEW w \in Workspaces, AllocateName(t, w)
      PROVE  (\E m \in Names : Lifecycle!HandOut(m)) \/ UNCHANGED <<up, phases>>
  <2>1. \E n \in Names : n \notin usedNames /\ Reserve(t, n, w)
    BY <1>3, PoolName DEF AllocateName, FreeInPool, Fresh, Names
  <2> QED BY <1>1, <2>1
<1>4. ASSUME NEW n \in Names, KillLookup(t, n)
      PROVE  UNCHANGED <<up, phases>>
  <2>1. /\ pc[t] = "idle" /\ pc' = [pc EXCEPT ![t] = "find"] /\ up' = up
        /\ \A u \in Threads \ {t} : local'[u] = local[u]
        /\ sleeves' = sleeves /\ contested' = contested
    BY <1>4 DEF KillLookup, Goto
  <2>2. \A u \in Threads, m \in Names :
          /\ Spawning(u, m)' <=> Spawning(u, m)
          /\ Freeing(u, m)' <=> Freeing(u, m)
    BY <2>1 DEF Spawning, Freeing, SpawnPC
  <2>3. \A m \in Names : Phase(m)' = Phase(m)
    BY <2>1, <2>2, PhaseStays DEF Pending, Closing, Registered
  <2> QED BY <2>1, <2>3, AllStay
<1> QED BY <1>2, <1>3, <1>4 DEF Request

\* The names a step does not touch.
LEMMA OthersStay ==
  ASSUME OneOwner, OneOwner', NEW S \in SUBSET Names,
         \A m \in S :
           /\ m \in contested' <=> m \in contested
           /\ m \in DOMAIN sleeves' <=> m \in DOMAIN sleeves
           /\ \A u \in Threads : /\ Spawning(u, m)' <=> Spawning(u, m)
                                 /\ Freeing(u, m)' <=> Freeing(u, m)
  PROVE  \A m \in S : Phase(m)' = Phase(m)
<1> SUFFICES ASSUME NEW m \in S
             PROVE  Phase(m)' = Phase(m)
  OBVIOUS
<1>1. /\ Registered(m)' <=> Registered(m)
      /\ Pending(m)' <=> Pending(m)
      /\ Closing(m)' <=> Closing(m)
  BY DEF Registered, Pending, Closing
<1> QED BY <1>1, PhaseStays

\* Inside a Spawn or a Kill its name stays where it is.
LEMMA InnerStepMaps ==
  ASSUME NameInv, OneOwner', NEW t \in Threads,
         \/ AllocatePort(t) \/ ListNetworks(t) \/ CreateNetwork(t) \/ CreateContainer(t)
         \/ StartContainer(t) \/ CleanUp(t)
         \/ FindContainer(t) \/ StopContainer(t) \/ RemoveContainer(t)
  PROVE  UNCHANGED <<up, phases>>
<1> USE DEF NameInv, TypeInv, TypeOK, docker, memory
<1>1. /\ pc' = [pc EXCEPT ![t] = pc'[t]]
      /\ \/ /\ pc[t] \in SpawnPC /\ pc'[t] \in SpawnPC
            /\ local'[t].name = local[t].name
         \/ /\ pc[t] \in KillPC \ {"free"} /\ pc'[t] \in (KillPC \ {"free"}) \cup {"idle"}
      /\ \A u \in Threads \ {t} : local'[u] = local[u]
      /\ UNCHANGED <<up, sleeves, contested>>
  BY DEF AllocatePort, ListNetworks, CreateNetwork, CreateContainer, StartContainer,
         CleanUp, FindContainer, StopContainer, RemoveContainer, Return, Goto, SpawnPC,
         KillPC, Locals
<1>2. \A u \in Threads, m \in Names :
        /\ Spawning(u, m)' <=> Spawning(u, m)
        /\ Freeing(u, m)' <=> Freeing(u, m)
  BY <1>1 DEF Spawning, Freeing, SpawnPC, KillPC
<1>3. \A m \in Names : Phase(m)' = Phase(m)
  BY <1>1, <1>2, OthersStay
<1> QED BY <1>1, <1>3, AllStay

\* The end of a Spawn moves its name from "pending".
LEMMA SpawnEndMaps ==
  ASSUME NameInv, OneOwner', NEW t \in Threads, ReleaseAborted(t) \/ Publish(t),
         NEW n \in Names, local[t].name = n
  PROVE  Lifecycle!GiveUp(n) \/ Lifecycle!Register(n) \/ UNCHANGED <<up, phases>>
<1> USE DEF NameInv, TypeInv, TypeOK, docker, memory
<1>1. /\ Spawning(t, n) /\ up /\ up' = up
      /\ pc' = [pc EXCEPT ![t] = "idle"]
      /\ \A u \in Threads \ {t} : local'[u] = local[u]
      /\ contested' = contested
      /\ \/ sleeves' = sleeves
         \/ DOMAIN sleeves' = DOMAIN sleeves \cup {n}
  BY DEF ReleaseAborted, Publish, Return, Goto, Spawning, SpawnPC, LocalsSet, Put,
         DownIsQuiet
<1>2. \A u \in Threads, m \in Names :
        /\ Spawning(u, m)' <=> Spawning(u, m) /\ u # t
        /\ Freeing(u, m)' <=> Freeing(u, m)
  BY <1>1 DEF Spawning, Freeing, SpawnPC
<1>3. \A m \in Names \ {n} : Phase(m)' = Phase(m)
  <2>1. \A u \in Threads, m \in Names \ {n} :
          /\ Spawning(u, m)' <=> Spawning(u, m)
          /\ Freeing(u, m)' <=> Freeing(u, m)
    BY <1>1, <1>2 DEF Spawning, Freeing
  <2>2. \A m \in Names \ {n} : m \in DOMAIN sleeves' <=> m \in DOMAIN sleeves
    BY <1>1
  <2> QED BY <1>1, <2>1, <2>2, OthersStay
<1>4. CASE n \in contested
  <2>1. Phase(n)' = Phase(n)
    BY <1>1, <1>4, PhaseContested, PhaseAfter
  <2> QED BY <1>1, <1>3, <2>1, AllStay
<1>5. CASE n \notin contested
  <2>1. Phase(n) = "pending"
    BY <1>1, <1>5, PhaseOf DEF Pending
  <2>2. ~ Pending(n)' /\ ~ Closing(n)' /\ ~ Registered(n)
    BY <1>1, <1>2, <1>5, SoleOwner
       DEF Pending, Closing, Registered, Freeing, Killing, KillPC, Spawning, SpawnPC
  <2>3. Phase(n)' \in {"free", "live"}
    BY <1>1, <1>5, <2>2, PhaseAfter
  <2> QED BY <1>1, <1>3, <2>1, <2>3, OneMoves
          DEF Lifecycle!GiveUp, Lifecycle!Register, Lifecycle!Move, phases
<1> QED BY <1>4, <1>5

\* The first Kill to delete the entry closes the name, or leaves it contested.
LEMMA DeleteMaps ==
  ASSUME NameInv, OneOwner', NEW t \in Threads, DeleteSleeve(t),
         NEW n \in Names, local[t].name = n
  PROVE  Lifecycle!Close(n) \/ Lifecycle!Contest(n) \/ UNCHANGED <<up, phases>>
<1> USE DEF NameInv, TypeInv, TypeOK, docker, memory
<1>1. /\ pc[t] = "delete" /\ Killing(t, n) /\ up /\ up' = up
      /\ pc' = [pc EXCEPT ![t] = "free"] /\ local' = local
      /\ DOMAIN sleeves' = DOMAIN sleeves \ {n}
      /\ contested' \in {contested, contested \cup {n}}
  BY DEF DeleteSleeve, Goto, Killing, KillPC, LocalsSet, Drop, Restrict, DownIsQuiet
<1>2. \A u \in Threads, m \in Names :
        /\ Spawning(u, m)' <=> Spawning(u, m)
        /\ Freeing(u, m)' <=> Freeing(u, m) \/ (u = t /\ m = n)
  BY <1>1 DEF Spawning, Freeing, SpawnPC
<1>3. \A m \in Names \ {n} : Phase(m)' = Phase(m)
  BY <1>1, <1>2, OthersStay
<1>4. CASE n \in contested
  <2>1. Phase(n)' = Phase(n)
    BY <1>1, <1>4, PhaseContested, PhaseAfter
  <2> QED BY <1>1, <1>3, <2>1, AllStay
<1>5. CASE n \notin contested
  <2>1. Phase(n) = "live"
    <3>1. Registered(n)
      BY <1>1, <1>5 DEF OneOwner, Freeing
    <3> QED BY <1>5, <1>1, <3>1, PhaseOf
  <2>2. Closing(n)'
    BY <1>1, <1>2 DEF Closing
  <2>3. Phase(n)' \in {"closing", "contested"}
    BY <1>1, <2>2, PhaseAfter
  <2> QED BY <1>1, <1>3, <2>1, <2>3, OneMoves
          DEF Lifecycle!Close, Lifecycle!Contest, Lifecycle!Move, phases
<1> QED BY <1>4, <1>5

\* The Kill that closed the name frees it.
LEMMA FreeMaps ==
  ASSUME NameInv, OneOwner', NEW t \in Threads, ReleaseKilled(t),
         NEW n \in Names, local[t].name = n
  PROVE  Lifecycle!Free(n) \/ UNCHANGED <<up, phases>>
<1> USE DEF NameInv, TypeInv, TypeOK, docker, memory
<1>1. /\ Freeing(t, n) /\ up /\ up' = up
      /\ pc' = [pc EXCEPT ![t] = "idle"]
      /\ \A u \in Threads \ {t} : local'[u] = local[u]
      /\ contested' = contested /\ sleeves' = sleeves
  BY DEF ReleaseKilled, Return, Goto, Freeing, SpawnPC, LocalsSet, DownIsQuiet
<1>2. \A u \in Threads, m \in Names :
        /\ Spawning(u, m)' <=> Spawning(u, m)
        /\ Freeing(u, m)' <=> Freeing(u, m) /\ u # t
  BY <1>1 DEF Spawning, Freeing, SpawnPC
<1>3. \A m \in Names \ {n} : Phase(m)' = Phase(m)
  <2>1. \A u \in Threads, m \in Names \ {n} :
          /\ Spawning(u, m)' <=> Spawning(u, m)
          /\ Freeing(u, m)' <=> Freeing(u, m)
    BY <1>1, <1>2 DEF Spawning, Freeing
  <2>2. \A m \in Names \ {n} : m \in DOMAIN sleeves' <=> m \in DOMAIN sleeves
    BY <1>1
  <2> QED BY <1>1, <2>1, <2>2, OthersStay
<1>4. CASE n \in contested
  <2>1. Phase(n)' = Phase(n)
    BY <1>1, <1>4, PhaseContested, PhaseAfter
  <2> QED BY <1>1, <1>3, <2>1, AllStay
<1>5. CASE n \notin contested
  <2>1. Phase(n) = "closing"
    BY <1>1, <1>5, PhaseOf DEF Closing
  <2>2. ~ Registered(n) /\ \A u \in Threads \ {t} : ~ Freeing(u, n)
    BY <1>1, <1>5, FreeingKills DEF OneOwner
  <2>3. ~ Pending(n)
    BY <1>1, <1>5, SoleOwner DEF Pending, Spawning, SpawnPC, Freeing, Killing, KillPC
  <2>4. ~ Registered(n)' /\ ~ Pending(n)' /\ ~ Closing(n)'
    BY <1>1, <1>2, <2>2, <2>3 DEF Registered, Pending, Closing
  <2>5. Phase(n)' = "free"
    BY <1>1, <1>5, <2>4, PhaseAfter
  <2> QED BY <1>1, <1>3, <2>1, <2>5, OneMoves
          DEF Lifecycle!Free, Lifecycle!Move, phases
<1> QED BY <1>4, <1>5

----------------------------------------------------------------------------
(***************************************************************************)
(* A restart.                                                              *)
(***************************************************************************)
\* With the process every reservation and every request is gone.
LEMMA CrashMaps ==
  ASSUME NameInv, OneOwner', Crash
  PROVE  Lifecycle!Forget
<1>1. /\ \A t \in Threads : pc'[t] = "idle"
      /\ DOMAIN sleeves' = {} /\ contested' = {} /\ up /\ up' = FALSE
  BY EmptyMap DEF Crash
<1>2. \A n \in Names : Phase(n)' = "free"
  BY <1>1, PhaseAfter
     DEF Registered, Pending, Closing, Spawning, Freeing, SpawnPC
<1> QED BY <1>1, <1>2 DEF Lifecycle!Forget

\* The containers that are left are the sleeves there are.
LEMMA RecoverMaps ==
  ASSUME NameInv, OneOwner', DownIsEmpty, RecoverSleeves
  PROVE  Lifecycle!Adopt
<1> USE DEF NameInv, TypeInv, TypeOK
<1>1. /\ \A t \in Threads : pc'[t] = "idle"
      /\ DOMAIN sleeves' = DOMAIN containers /\ contested' = {}
      /\ ~ up /\ up' = TRUE /\ DOMAIN containers \in SUBSET Names
  BY DEF RecoverSleeves, DownIsQuiet, DownIsEmpty
<1>2. \A n \in Names : Phase(n)' = IF n \in DOMAIN containers THEN "live" ELSE "free"
  BY <1>1, PhaseAfter
     DEF Registered, Pending, Closing, Spawning, Freeing, SpawnPC
<1> QED BY <1>1, <1>2 DEF Lifecycle!Adopt

----------------------------------------------------------------------------
(***************************************************************************)
(* The theorem.                                                            *)
(***************************************************************************)
LEMMA InitMaps == Init => Lifecycle!Init
<1> SUFFICES ASSUME Init
             PROVE  Lifecycle!Init
  OBVIOUS
<1>1. /\ \A t \in Threads : pc[t] = "idle"
      /\ DOMAIN sleeves = {} /\ contested = {} /\ up = TRUE
  BY EmptyMap DEF Init
<1>2. \A n \in Names : Phase(n) = "free"
  BY <1>1 DEF Phase, Registered, Spawning, Freeing, SpawnPC
<1> QED BY <1>1, <1>2 DEF Lifecycle!Init

LEMMA NextMaps ==
  ASSUME NameInv, OneOwner', DownIsEmpty, [Next]_vars
  PROVE  Lifecycle!Next \/ UNCHANGED <<up, phases>>
<1>1. ASSUME NEW t \in Threads, Request(t)
      PROVE  Lifecycle!Next \/ UNCHANGED <<up, phases>>
  BY <1>1, RequestMaps DEF Lifecycle!Next
<1>2. ASSUME NEW t \in Threads, ReleaseAborted(t) \/ Publish(t) \/ DeleteSleeve(t)
                                \/ ReleaseKilled(t)
      PROVE  Lifecycle!Next \/ UNCHANGED <<up, phases>>
  <2>1. PICK n \in Names : local[t].name = n
    BY <1>2 DEF ReleaseAborted, Publish, DeleteSleeve, ReleaseKilled, Return, Goto,
                SpawnPC, KillPC, NameInv, TypeInv, LocalsSet
  <2> QED BY <1>2, <2>1, SpawnEndMaps, DeleteMaps, FreeMaps DEF Lifecycle!Next
<1>3. ASSUME NEW t \in Threads, SpawnStep(t) \/ KillStep(t)
      PROVE  Lifecycle!Next \/ UNCHANGED <<up, phases>>
  BY <1>2, <1>3, InnerStepMaps DEF SpawnStep, KillStep
<1>4. CASE Crash
  BY <1>4, CrashMaps DEF Lifecycle!Next
<1>5. CASE RecoverSleeves
  BY <1>5, RecoverMaps DEF Lifecycle!Next
<1>6. CASE (\E n \in Names : ContainerExits(n)) \/ UNCHANGED vars
  <2>1. UNCHANGED <<up, pc, local, sleeves, contested>>
    BY <1>6 DEF ContainerExits, vars, memory
  <2>2. \A n \in Names : Phase(n)' = Phase(n)
    BY <2>1, OthersStay DEF NameInv, Spawning, Freeing
  <2> QED BY <2>1, <2>2, AllStay
<1> QED BY <1>1, <1>3, <1>4, <1>5, <1>6 DEF Next, Environment

\* Names follow their lifecycle whatever calls, failures and crashes
\* interleave: the manager implements NameLifecycle.
THEOREM ImplementsLifecycle == Spec => NamesFollowLifecycle
<1>1. Init => NameInv /\ DownIsEmpty
  BY NameInit DEF Init, DownIsEmpty
<1>2. NameInv /\ DownIsEmpty /\ [Next]_vars => (NameInv /\ DownIsEmpty)'
  BY NameNext, EmptyNext
<1>3. NameInv /\ DownIsEmpty /\ [Next]_vars
        => [Lifecycle!Next]_<<up, [n \in Names |-> Phase(n)]>>
  BY NameNext, NextMaps DEF NameInv, phases
<1> QED BY <1>1, <1>2, <1>3, InitMaps, PTL DEF Spec, NamesFollowLifecycle, Lifecycle!Spec

=============================================================================
