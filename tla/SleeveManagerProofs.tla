------------------------ MODULE SleeveManagerProofs ------------------------
(***************************************************************************)
(* Proofs about SleeveManager, for every number of goroutines, every pool  *)
(* and every set of names.                                                 *)
(***************************************************************************)
EXTENDS SleeveManager, TLAPS

----------------------------------------------------------------------------
(***************************************************************************)
(* Types.  TypeOK is not inductive: Publish and CreateContainer write what *)
(* the locals hold into the maps, so the locals of a call in progress have *)
(* to be set.  Recovery takes statuses from the daemon's states.           *)
(***************************************************************************)
LocalsSet ==
  \A t \in Threads :
    /\ pc[t] \in SpawnPC \cup KillPC => local[t].name \in Names
    /\ pc[t] \in SpawnPC => local[t].ws \in Workspaces

TypeInv == TypeOK /\ LocalsSet

\* A name of the pool is a name.
LEMMA PoolName ==
  ASSUME NEW i \in DOMAIN Pool
  PROVE  Pool[i] \in Names
  BY DEF Names, PoolNames, Range

\* Locals with one field set stay locals.
LEMMA LocalsTyped ==
  /\ NoLocals \in Locals
  /\ \A n \in Names, w \in Workspaces :
       [NoLocals EXCEPT !.name = n, !.ws = w] \in Locals
  /\ \A n \in Names : [NoLocals EXCEPT !.name = n] \in Locals
  BY DEF Locals, NoLocals

\* The state a call leaves when it returns is well typed.
LEMMA ReturnTyped ==
  ASSUME TypeInv, NEW t \in Threads, NEW from, Return(t, from)
  PROVE  /\ pc' \in [Threads -> {"idle"} \cup SpawnPC \cup KillPC]
         /\ local' \in [Threads -> Locals]
         /\ LocalsSet'
  BY LocalsTyped DEF TypeInv, TypeOK, LocalsSet, Return, Goto, SpawnPC, KillPC

\* A reservation keeps the types, whatever name it is given.
LEMMA ReserveTyped ==
  ASSUME TypeInv, NEW t \in Threads, NEW n \in Names, NEW w \in Workspaces,
         Reserve(t, n, w)
  PROVE  TypeInv'
  BY LocalsTyped
  DEF TypeInv, TypeOK, LocalsSet, Reserve, Goto, docker, SpawnPC, KillPC, NoLocals

\* The empty map has no keys.
LEMMA EmptyMap == DOMAIN << >> = {}
  OBVIOUS

LEMMA TypeInit == Init => TypeInv
<1> SUFFICES ASSUME Init PROVE TypeInv
  OBVIOUS
<1>1. DOMAIN sleeves = {} /\ DOMAIN containers = {}
  BY EmptyMap DEF Init
<1>2. TypeOK
  BY <1>1, LocalsTyped, PortAssumption DEF Init, TypeOK
<1>3. LocalsSet
  BY DEF Init, LocalsSet, SpawnPC, KillPC
<1> QED BY <1>2, <1>3 DEF TypeInv

\* Every step keeps the types.
LEMMA TypeNext == TypeInv /\ [Next]_vars => TypeInv'
<1> SUFFICES ASSUME TypeInv, [Next]_vars
             PROVE  TypeInv'
  OBVIOUS
<1> USE DEF memory, docker
<1>1. ASSUME NEW t \in Threads, Request(t)
      PROVE  TypeInv'
  <2>1. ASSUME NEW n \in Names, NEW w \in Workspaces, ReserveNamed(t, n, w)
        PROVE  TypeInv'
    BY <2>1, ReserveTyped DEF ReserveNamed
  <2>2. ASSUME NEW w \in Workspaces, AllocateName(t, w)
        PROVE  TypeInv'
    <3>1. \E n \in Names : Reserve(t, n, w)
      BY <2>2, PoolName DEF AllocateName, Names
    <3> QED BY <3>1, ReserveTyped
  <2>3. ASSUME NEW n \in Names, KillLookup(t, n)
        PROVE  TypeInv'
    BY <2>3, LocalsTyped
    DEF TypeInv, TypeOK, LocalsSet, KillLookup, Goto, SpawnPC, KillPC, NoLocals
  <2> QED BY <1>1, <2>1, <2>2, <2>3 DEF Request
<1>2. ASSUME NEW t \in Threads, SpawnStep(t)
      PROVE  TypeInv'
  <2>1. CASE AllocatePort(t)
    BY <2>1 DEF TypeInv, TypeOK, LocalsSet, AllocatePort, Goto, Locals, SpawnPC, KillPC
  <2>2. CASE ListNetworks(t)
    BY <2>2 DEF TypeInv, TypeOK, LocalsSet, ListNetworks, Goto, SpawnPC, KillPC
  <2>3. CASE CreateNetwork(t)
    BY <2>3 DEF TypeInv, TypeOK, LocalsSet, CreateNetwork, Goto, SpawnPC, KillPC
  <2>4. CASE CreateContainer(t)
    <3> DEFINE n == local[t].name
    <3>1. n \in Names /\ local[t].ws \in Workspaces
      BY <2>4 DEF TypeInv, LocalsSet, CreateContainer, Goto, SpawnPC, KillPC
    <3>2. pc' \in [Threads -> {"idle"} \cup SpawnPC \cup KillPC]
      BY <2>4 DEF TypeInv, TypeOK, CreateContainer, Goto, SpawnPC, KillPC
    <3>3. local' \in [Threads -> Locals] /\ lastId' \in Nat
      BY <2>4 DEF TypeInv, TypeOK, CreateContainer, Locals
    <3>4. LocalsSet'
      BY <2>4 DEF TypeInv, TypeOK, LocalsSet, CreateContainer, Goto, SpawnPC, KillPC, Locals
    <3>5. /\ DOMAIN containers' \subseteq Names
          /\ \A k \in DOMAIN containers' : containers'[k] \in Container
      BY <2>4, <3>1 DEF TypeInv, TypeOK, CreateContainer, Container, ContainerState, Put
    <3> QED BY <2>4, <3>2, <3>3, <3>4, <3>5 DEF TypeInv, TypeOK, CreateContainer
  <2>5. CASE StartContainer(t)
    <3>1. /\ DOMAIN containers' \subseteq Names
          /\ \A k \in DOMAIN containers' : containers'[k] \in Container
      BY <2>5 DEF TypeInv, TypeOK, StartContainer, Container, ContainerState
    <3>2. LocalsSet' /\ pc' \in [Threads -> {"idle"} \cup SpawnPC \cup KillPC]
      BY <2>5 DEF TypeInv, TypeOK, LocalsSet, StartContainer, Goto, SpawnPC, KillPC
    <3> QED BY <2>5, <3>1, <3>2 DEF TypeInv, TypeOK, StartContainer
  <2>6. CASE CleanUp(t)
    <3>1. /\ DOMAIN containers' \subseteq Names
          /\ \A k \in DOMAIN containers' : containers'[k] \in Container
      BY <2>6 DEF TypeInv, TypeOK, CleanUp, Remove, Drop, Restrict
    <3>2. LocalsSet' /\ pc' \in [Threads -> {"idle"} \cup SpawnPC \cup KillPC]
      BY <2>6 DEF TypeInv, TypeOK, LocalsSet, CleanUp, Goto, SpawnPC, KillPC
    <3> QED BY <2>6, <3>1, <3>2 DEF TypeInv, TypeOK, CleanUp
  <2>7. CASE ReleaseAborted(t)
    BY <2>7, ReturnTyped DEF TypeInv, TypeOK, ReleaseAborted
  <2>8. CASE Publish(t)
    <3>1. local[t].name \in Names /\ local[t].ws \in Workspaces
      BY <2>8 DEF TypeInv, LocalsSet, Publish, Return, Goto, SpawnPC, KillPC
    <3>2. /\ DOMAIN sleeves' \subseteq Names
          /\ \A k \in DOMAIN sleeves' : sleeves'[k] \in SleeveInfo
      BY <2>8, <3>1 DEF TypeInv, TypeOK, Publish, SleeveInfo, SleeveStatus, Put, Locals
    <3> QED BY <2>8, <3>2, ReturnTyped DEF TypeInv, TypeOK, Publish
  <2> QED BY <1>2, <2>1, <2>2, <2>3, <2>4, <2>5, <2>6, <2>7, <2>8 DEF SpawnStep
<1>3. ASSUME NEW t \in Threads, KillStep(t)
      PROVE  TypeInv'
  <2>1. CASE FindContainer(t)
    <3>1. CASE Return(t, "find")
      BY <2>1, <3>1, ReturnTyped DEF TypeInv, TypeOK, FindContainer
    <3>2. CASE ~ Return(t, "find")
      BY <2>1, <3>2
      DEF TypeInv, TypeOK, LocalsSet, FindContainer, Goto, Locals, Container, SpawnPC, KillPC
    <3> QED BY <3>1, <3>2
  <2>2. CASE StopContainer(t)
    <3>1. /\ DOMAIN containers' \subseteq Names
          /\ \A k \in DOMAIN containers' : containers'[k] \in Container
      BY <2>2 DEF TypeInv, TypeOK, StopContainer, Container, ContainerState
    <3>2. LocalsSet' /\ pc' \in [Threads -> {"idle"} \cup SpawnPC \cup KillPC]
      BY <2>2 DEF TypeInv, TypeOK, LocalsSet, StopContainer, Goto, SpawnPC, KillPC
    <3> QED BY <2>2, <3>1, <3>2 DEF TypeInv, TypeOK, StopContainer
  <2>3. CASE RemoveContainer(t)
    <3>1. /\ DOMAIN containers' \subseteq Names
          /\ \A k \in DOMAIN containers' : containers'[k] \in Container
      BY <2>3 DEF TypeInv, TypeOK, RemoveContainer, Remove, Drop, Restrict
    <3>2. CASE Return(t, "remove")
      BY <2>3, <3>1, <3>2, ReturnTyped DEF TypeInv, TypeOK, RemoveContainer
    <3>3. CASE ~ Return(t, "remove")
      BY <2>3, <3>1, <3>3
      DEF TypeInv, TypeOK, LocalsSet, RemoveContainer, Goto, SpawnPC, KillPC
    <3> QED BY <3>2, <3>3
  <2>4. CASE DeleteSleeve(t)
    <3>1. local[t].name \in Names
      BY <2>4 DEF TypeInv, LocalsSet, DeleteSleeve, Goto, SpawnPC, KillPC
    <3>2. /\ DOMAIN sleeves' \subseteq Names
          /\ \A k \in DOMAIN sleeves' : sleeves'[k] \in SleeveInfo
      BY <2>4 DEF TypeInv, TypeOK, DeleteSleeve, Drop, Restrict
    <3>3. LocalsSet' /\ pc' \in [Threads -> {"idle"} \cup SpawnPC \cup KillPC]
      BY <2>4 DEF TypeInv, TypeOK, LocalsSet, DeleteSleeve, Goto, SpawnPC, KillPC
    <3> QED BY <2>4, <3>1, <3>2, <3>3 DEF TypeInv, TypeOK, DeleteSleeve
  <2>5. CASE ReleaseKilled(t)
    BY <2>5, ReturnTyped DEF TypeInv, TypeOK, ReleaseKilled
  <2> QED BY <1>3, <2>1, <2>2, <2>3, <2>4, <2>5 DEF KillStep
<1>4. ASSUME NEW n \in Names, ContainerExits(n)
      PROVE  TypeInv'
  <2>1. \A k \in DOMAIN containers' : containers'[k] \in Container
    BY <1>4 DEF TypeInv, TypeOK, ContainerExits, Container, ContainerState
  <2> QED BY <1>4, <2>1 DEF TypeInv, TypeOK, LocalsSet, ContainerExits
<1>5. CASE Crash
  <2>1. DOMAIN sleeves' = {}
    BY <1>5, EmptyMap DEF Crash
  <2>2. LocalsSet'
    BY <1>5 DEF Crash, LocalsSet, SpawnPC, KillPC
  <2>3. TypeOK'
    BY <1>5, <2>1, LocalsTyped, PortAssumption DEF Crash, TypeInv, TypeOK
  <2> QED BY <2>2, <2>3 DEF TypeInv
<1>6. CASE RecoverSleeves
  <2>1. \A k \in DOMAIN containers : RecoveredSleeve(containers[k]) \in SleeveInfo
    BY PortAssumption
    DEF TypeInv, TypeOK, Container, ContainerState, RecoveredSleeve, RecoveredStatus,
        SleeveInfo, SleeveStatus
  <2> QED BY <1>6, <2>1 DEF RecoverSleeves, TypeInv, TypeOK, LocalsSet
<1>7. CASE UNCHANGED vars
  BY <1>7 DEF vars, TypeInv, TypeOK, LocalsSet
<1> QED BY <1>1, <1>2, <1>3, <1>4, <1>5, <1>6, <1>7 DEF Next, Environment

\* Every reachable state is well typed.
THEOREM TypeCorrect == Spec => []TypeOK
<1>1. TypeInv => TypeOK
  BY DEF TypeInv
<1> QED BY <1>1, TypeInit, TypeNext, PTL DEF Spec

----------------------------------------------------------------------------
(***************************************************************************)
(* Names.  That a name has one owner is inductive together with the fact   *)
(* that the owner's name is reserved, which is what keeps a second Spawn   *)
(* out, and with the fact that nothing is in progress while the process is *)
(* down, which is what lets recovery take every container's name.          *)
(***************************************************************************)
DownIsQuiet == ~ up => \A t \in Threads : pc[t] = "idle"

NameInv == TypeInv /\ DownIsQuiet /\ OwnedNamesReserved /\ OneOwner

\* An idle goroutine owns nothing.
LEMMA IdleOwnsNothing ==
  ASSUME NEW t, pc[t] = "idle", NEW n
  PROVE  ~ Spawning(t, n) /\ ~ Killing(t, n) /\ ~ Freeing(t, n)
  BY DEF Spawning, Killing, Freeing, SpawnPC, KillPC

\* A call at the last step of Kill is a Kill.
LEMMA FreeingKills ==
  ASSUME NEW t, NEW n
  PROVE  Freeing(t, n) => Killing(t, n)
  BY DEF Killing, Freeing, KillPC

\* A step that hands no name to anyone and frees none keeps the owners unique
\* and their names reserved.
LEMMA OwnersShrink ==
  ASSUME OwnedNamesReserved, OneOwner,
         \A t \in Threads, n \in Names :
           /\ Spawning(t, n)' => Spawning(t, n)
           /\ Killing(t, n)' => Killing(t, n)
           /\ Freeing(t, n)' => Freeing(t, n)
           /\ Freeing(t, n) /\ Killing(t, n)' => Freeing(t, n)',
         DOMAIN sleeves' = DOMAIN sleeves, usedNames' = usedNames,
         contested' = contested
  PROVE  OwnedNamesReserved' /\ OneOwner'
  BY DEF OwnedNamesReserved, OneOwner, Registered

\* Every step of Spawn between the reservation and the registration keeps the
\* names: it moves one goroutine from a Spawn step to another.
LEMMA SpawnKeepsOwners ==
  ASSUME TypeInv, OwnedNamesReserved, OneOwner, NEW t \in Threads,
         \/ AllocatePort(t) \/ ListNetworks(t) \/ CreateNetwork(t)
         \/ CreateContainer(t) \/ StartContainer(t) \/ CleanUp(t)
  PROVE  OwnedNamesReserved' /\ OneOwner'
<1> USE DEF memory, docker
<1>1. /\ pc[t] \in SpawnPC /\ pc' = [pc EXCEPT ![t] = pc'[t]] /\ pc'[t] \in SpawnPC
      /\ \A u \in Threads : local'[u].name = local[u].name
      /\ sleeves' = sleeves /\ usedNames' = usedNames /\ contested' = contested
  BY DEF TypeInv, TypeOK, Locals, AllocatePort, ListNetworks, CreateNetwork,
         CreateContainer, StartContainer, CleanUp, Goto, SpawnPC
<1>2. \A u \in Threads, n \in Names :
        /\ Spawning(u, n)' => Spawning(u, n)
        /\ Killing(u, n)' => Killing(u, n)
        /\ Freeing(u, n)' => Freeing(u, n)
        /\ Freeing(u, n) /\ Killing(u, n)' => Freeing(u, n)'
  BY <1>1 DEF TypeInv, TypeOK, Spawning, Killing, Freeing, SpawnPC, KillPC
<1> QED BY <1>1, <1>2, OwnersShrink

\* So does every step of Kill before it deletes the entry.
LEMMA KillKeepsOwners ==
  ASSUME TypeInv, OwnedNamesReserved, OneOwner, NEW t \in Threads,
         FindContainer(t) \/ StopContainer(t) \/ RemoveContainer(t)
  PROVE  OwnedNamesReserved' /\ OneOwner'
<1> USE DEF memory, docker
<1>1. /\ pc[t] \in KillPC /\ pc[t] # "free"
      /\ pc' = [pc EXCEPT ![t] = pc'[t]]
      /\ pc'[t] \in (KillPC \ {"free"}) \cup {"idle"}
      /\ \A u \in Threads : pc'[u] # "idle" => local'[u].name = local[u].name
      /\ sleeves' = sleeves /\ usedNames' = usedNames /\ contested' = contested
  BY DEF TypeInv, TypeOK, Locals, FindContainer, StopContainer, RemoveContainer,
         Return, Goto, KillPC
<1>2. \A u \in Threads, n \in Names :
        /\ Spawning(u, n)' => Spawning(u, n)
        /\ Killing(u, n)' => Killing(u, n)
        /\ Freeing(u, n)' => Freeing(u, n)
        /\ Freeing(u, n) /\ Killing(u, n)' => Freeing(u, n)'
  BY <1>1 DEF TypeInv, TypeOK, Spawning, Killing, Freeing, SpawnPC, KillPC
<1> QED BY <1>1, <1>2, OwnersShrink

\* A name that no one reserved has no owner, and no Kill of it is under way.
LEMMA FreeNameUnowned ==
  ASSUME OwnedNamesReserved, OneOwner, NEW n \in Names \ contested, n \notin usedNames
  PROVE  /\ ~ Registered(n)
         /\ \A u \in Threads : ~ Spawning(u, n) /\ ~ Killing(u, n) /\ ~ Freeing(u, n)
  BY FreeingKills DEF OwnedNamesReserved, OneOwner

\* A reservation gives a name to one goroutine only when nobody owns it.
LEMMA ReserveKeepsOwners ==
  ASSUME TypeInv, OwnedNamesReserved, OneOwner, NEW t \in Threads,
         NEW n \in Names, NEW w \in Workspaces, n \notin usedNames, Reserve(t, n, w)
  PROVE  OwnedNamesReserved' /\ OneOwner'
<1> USE DEF docker
<1>1. /\ pc[t] = "idle" /\ pc' = [pc EXCEPT ![t] = "port"]
      /\ local'[t].name = n /\ \A u \in Threads \ {t} : local'[u].name = local[u].name
      /\ sleeves' = sleeves /\ usedNames' = usedNames \cup {n} /\ contested' = contested
  BY DEF TypeInv, TypeOK, Reserve, Goto, NoLocals
<1>2. \A u \in Threads, m \in Names :
        /\ Spawning(u, m)' <=> Spawning(u, m) \/ (u = t /\ m = n)
        /\ Killing(u, m)' <=> Killing(u, m)
        /\ Freeing(u, m)' <=> Freeing(u, m)
  BY <1>1 DEF TypeInv, TypeOK, Spawning, Killing, Freeing, SpawnPC, KillPC
<1>3. OwnedNamesReserved'
  BY <1>1, <1>2 DEF OwnedNamesReserved, Registered
<1>4. \A m : ~ Killing(t, m)' /\ ~ Freeing(t, m)'
  BY <1>1 DEF TypeInv, TypeOK, Killing, Freeing, KillPC
<1>5. OneOwner'
  BY <1>1, <1>2, <1>4, FreeNameUnowned, IdleOwnsNothing DEF OneOwner, Registered
<1> QED BY <1>3, <1>5

\* Kill's lookup adds a goroutine to those of a registered sleeve.
LEMMA LookupKeepsOwners ==
  ASSUME TypeInv, OwnedNamesReserved, OneOwner, NEW t \in Threads,
         NEW n \in Names, KillLookup(t, n)
  PROVE  OwnedNamesReserved' /\ OneOwner'
<1> USE DEF memory, docker
<1>1. /\ pc[t] = "idle" /\ pc' = [pc EXCEPT ![t] = "find"] /\ Registered(n)
      /\ local'[t].name = n /\ \A u \in Threads \ {t} : local'[u].name = local[u].name
      /\ sleeves' = sleeves /\ usedNames' = usedNames /\ contested' = contested
  BY DEF TypeInv, TypeOK, KillLookup, Goto, NoLocals, Registered
<1>2. \A u \in Threads, m \in Names :
        /\ Spawning(u, m)' <=> Spawning(u, m)
        /\ Killing(u, m)' <=> Killing(u, m) \/ (u = t /\ m = n)
        /\ Freeing(u, m)' <=> Freeing(u, m)
  BY <1>1 DEF TypeInv, TypeOK, Spawning, Killing, Freeing, SpawnPC, KillPC
<1>3. OwnedNamesReserved'
  BY <1>1, <1>2 DEF OwnedNamesReserved, Registered
<1>4. OneOwner'
  BY <1>1, <1>2 DEF OneOwner, Registered
<1> QED BY <1>3, <1>4

\* A goroutine that releases the name it alone owns leaves it without owner.
LEMMA ReleaseKeepsOwners ==
  ASSUME TypeInv, OwnedNamesReserved, OneOwner, NEW t \in Threads,
         ReleaseAborted(t) \/ ReleaseKilled(t)
  PROVE  OwnedNamesReserved' /\ OneOwner'
<1> USE DEF docker
<1> DEFINE n == local[t].name
<1>1. /\ Spawning(t, n) \/ Freeing(t, n)
      /\ pc' = [pc EXCEPT ![t] = "idle"]
      /\ \A u \in Threads \ {t} : local'[u].name = local[u].name
      /\ sleeves' = sleeves /\ usedNames' = usedNames \ {n} /\ contested' = contested
  BY DEF TypeInv, TypeOK, ReleaseAborted, ReleaseKilled, Return, Goto, Spawning,
         Freeing, SpawnPC
<1>2. \A u \in Threads, m \in Names :
        /\ Spawning(u, m)' <=> Spawning(u, m) /\ u # t
        /\ Killing(u, m)' <=> Killing(u, m) /\ u # t
        /\ Freeing(u, m)' <=> Freeing(u, m) /\ u # t
  BY <1>1 DEF TypeInv, TypeOK, Spawning, Killing, Freeing, SpawnPC, KillPC
<1>3. OwnedNamesReserved'
  BY <1>1, <1>2, FreeingKills DEF OwnedNamesReserved, OneOwner, Registered
<1>4. OneOwner'
  BY <1>1, <1>2 DEF OneOwner, Registered
<1> QED BY <1>3, <1>4

\* Registering a sleeve hands its name from the Spawn to the entry.
LEMMA PublishKeepsOwners ==
  ASSUME TypeInv, OwnedNamesReserved, OneOwner, NEW t \in Threads, Publish(t)
  PROVE  OwnedNamesReserved' /\ OneOwner'
<1> USE DEF docker
<1> DEFINE n == local[t].name
<1>1. /\ Spawning(t, n)
      /\ pc' = [pc EXCEPT ![t] = "idle"]
      /\ \A u \in Threads \ {t} : local'[u].name = local[u].name
      /\ DOMAIN sleeves' = DOMAIN sleeves \cup {n}
      /\ usedNames' = usedNames /\ contested' = contested
  BY DEF TypeInv, TypeOK, Publish, Return, Goto, Spawning, SpawnPC, Put
<1>2. \A u \in Threads, m \in Names :
        /\ Spawning(u, m)' <=> Spawning(u, m) /\ u # t
        /\ Killing(u, m)' <=> Killing(u, m) /\ u # t
        /\ Freeing(u, m)' <=> Freeing(u, m) /\ u # t
  BY <1>1 DEF TypeInv, TypeOK, Spawning, Killing, Freeing, SpawnPC, KillPC
<1>3. OwnedNamesReserved'
  BY <1>1, <1>2 DEF OwnedNamesReserved, Registered
<1>4. OneOwner'
  BY <1>1, <1>2, FreeingKills DEF OneOwner, Registered
<1> QED BY <1>3, <1>4

\* Deleting the entry hands the name from the sleeve to the Kill, unless
\* another Kill of it is under way, and then the name is contested.
LEMMA DeleteKeepsOwners ==
  ASSUME TypeInv, OwnedNamesReserved, OneOwner, NEW t \in Threads, DeleteSleeve(t)
  PROVE  OwnedNamesReserved' /\ OneOwner'
<1> USE DEF docker
<1> DEFINE n == local[t].name
<1>1. /\ Killing(t, n) /\ ~ Freeing(t, n)
      /\ pc' = [pc EXCEPT ![t] = "free"]
      /\ local' = local
      /\ DOMAIN sleeves' = DOMAIN sleeves \ {n}
      /\ usedNames' = usedNames /\ contested \subseteq contested'
      /\ n \notin contested' => \A u \in Threads \ {t} : ~ Killing(u, n)
  BY DEF TypeInv, TypeOK, DeleteSleeve, Goto, Killing, Freeing, KillPC, Drop, Restrict
<1>2. \A u \in Threads, m \in Names :
        /\ Spawning(u, m)' <=> Spawning(u, m)
        /\ Killing(u, m)' <=> Killing(u, m)
        /\ Freeing(u, m)' <=> Freeing(u, m) \/ (u = t /\ m = n)
  BY <1>1 DEF TypeInv, TypeOK, Spawning, Killing, Freeing, SpawnPC, KillPC
<1>3. OwnedNamesReserved'
  BY <1>1, <1>2 DEF OwnedNamesReserved, OneOwner, Registered
<1>4. OneOwner'
  BY <1>1, <1>2 DEF OneOwner, Registered
<1> QED BY <1>3, <1>4

\* While the process is down no call is in progress: calls need it up to
\* begin, and a crash ends them.
LEMMA QuietNext == TypeInv /\ DownIsQuiet /\ [Next]_vars => DownIsQuiet'
<1> SUFFICES ASSUME TypeInv, DownIsQuiet, [Next]_vars
             PROVE  DownIsQuiet'
  OBVIOUS
<1>1. ASSUME NEW t \in Threads, Request(t)
      PROVE  up /\ up' = up
  BY <1>1 DEF Request, ReserveNamed, AllocateName, Reserve, KillLookup
<1>2. ASSUME NEW t \in Threads, SpawnStep(t)
      PROVE  pc[t] # "idle" /\ up' = up
  BY <1>2 DEF SpawnStep, AllocatePort, ListNetworks, CreateNetwork, CreateContainer,
              StartContainer, CleanUp, ReleaseAborted, Publish, Return, Goto
<1>3. ASSUME NEW t \in Threads, KillStep(t)
      PROVE  pc[t] # "idle" /\ up' = up
  BY <1>3 DEF KillStep, FindContainer, StopContainer, RemoveContainer, DeleteSleeve,
              ReleaseKilled, Return, Goto
<1>4. CASE \E n \in Names : ContainerExits(n)
  BY <1>4 DEF ContainerExits, DownIsQuiet
<1>5. CASE Crash
  BY <1>5 DEF Crash, DownIsQuiet
<1>6. CASE RecoverSleeves
  BY <1>6 DEF RecoverSleeves, DownIsQuiet
<1>7. CASE UNCHANGED vars
  BY <1>7 DEF vars, DownIsQuiet
<1> QED BY <1>1, <1>2, <1>3, <1>4, <1>5, <1>6, <1>7 DEF Next, Environment, DownIsQuiet

LEMMA NameInit == Init => NameInv
<1> SUFFICES ASSUME Init PROVE NameInv
  OBVIOUS
<1>1. \A t \in Threads : pc[t] = "idle"
  BY DEF Init
<1>2. \A n : ~ Registered(n)
  BY EmptyMap DEF Init, Registered
<1>3. OwnedNamesReserved /\ OneOwner
  BY <1>1, <1>2, IdleOwnsNothing DEF OwnedNamesReserved, OneOwner
<1> QED BY <1>1, <1>3, TypeInit DEF NameInv, DownIsQuiet

LEMMA NameNext == NameInv /\ [Next]_vars => NameInv'
<1> SUFFICES ASSUME NameInv, [Next]_vars
             PROVE  OwnedNamesReserved' /\ OneOwner'
  BY TypeNext, QuietNext DEF NameInv
<1> USE DEF NameInv
<1>1. ASSUME NEW t \in Threads, Request(t)
      PROVE  OwnedNamesReserved' /\ OneOwner'
  <2>1. ASSUME NEW n \in Names, NEW w \in Workspaces, ReserveNamed(t, n, w)
        PROVE  OwnedNamesReserved' /\ OneOwner'
    BY <2>1, ReserveKeepsOwners DEF ReserveNamed
  <2>2. ASSUME NEW w \in Workspaces, AllocateName(t, w)
        PROVE  OwnedNamesReserved' /\ OneOwner'
    <3>1. \E n \in Names : n \notin usedNames /\ Reserve(t, n, w)
      BY <2>2, PoolName DEF AllocateName, FreeInPool, Fresh, Names
    <3> QED BY <3>1, ReserveKeepsOwners
  <2>3. ASSUME NEW n \in Names, KillLookup(t, n)
        PROVE  OwnedNamesReserved' /\ OneOwner'
    BY <2>3, LookupKeepsOwners
  <2> QED BY <1>1, <2>1, <2>2, <2>3 DEF Request
<1>2. ASSUME NEW t \in Threads, SpawnStep(t)
      PROVE  OwnedNamesReserved' /\ OneOwner'
  BY <1>2, SpawnKeepsOwners, ReleaseKeepsOwners, PublishKeepsOwners DEF SpawnStep
<1>3. ASSUME NEW t \in Threads, KillStep(t)
      PROVE  OwnedNamesReserved' /\ OneOwner'
  BY <1>3, KillKeepsOwners, DeleteKeepsOwners, ReleaseKeepsOwners DEF KillStep
<1>4. ASSUME NEW n \in Names, ContainerExits(n)
      PROVE  OwnedNamesReserved' /\ OneOwner'
  BY <1>4, OwnersShrink DEF ContainerExits, memory, Spawning, Killing, Freeing
<1>5. CASE Crash
  <2>1. /\ \A t \in Threads : pc'[t] = "idle"
        /\ \A n : ~ Registered(n)'
    BY <1>5, EmptyMap DEF Crash, Registered
  <2>2. \A t \in Threads, n \in Names :
          ~ Spawning(t, n)' /\ ~ Killing(t, n)' /\ ~ Freeing(t, n)'
    BY <2>1 DEF Spawning, Killing, Freeing, SpawnPC, KillPC
  <2> QED BY <2>1, <2>2 DEF OwnedNamesReserved, OneOwner
<1>6. CASE RecoverSleeves
  <2>1. \A t \in Threads : pc'[t] = "idle"
    BY <1>6 DEF RecoverSleeves, DownIsQuiet
  <2>2. \A t \in Threads, n \in Names :
          ~ Spawning(t, n)' /\ ~ Killing(t, n)' /\ ~ Freeing(t, n)'
    BY <2>1 DEF Spawning, Killing, Freeing, SpawnPC, KillPC
  <2>3. DOMAIN sleeves' = usedNames'
    BY <1>6 DEF RecoverSleeves
  <2> QED BY <2>2, <2>3 DEF OwnedNamesReserved, OneOwner, Registered
<1>7. CASE UNCHANGED vars
  BY <1>7, OwnersShrink DEF vars, memory, Spawning, Killing, Freeing
<1> QED BY <1>1, <1>2, <1>3, <1>4, <1>5, <1>6, <1>7 DEF Next, Environment

\* A name that no two Kills contested has one owner at a time, and as long as
\* it has one it is reserved.
THEOREM NamesHaveOneOwner == Spec => []NamesOwned
<1>1. NameInv => NamesOwned
  BY DEF NameInv, NamesOwned
<1> QED BY <1>1, NameInit, NameNext, PTL DEF Spec

----------------------------------------------------------------------------
(***************************************************************************)
(* Leaks.  NoNameLeak needs no help from the ownership invariant: whoever  *)
(* stops owning a name goes on to release it, or hands it to the map.      *)
(***************************************************************************)
LeakInv == TypeInv /\ DownIsQuiet /\ NoNameLeak

Owned(n) ==
  Registered(n) \/ \E t \in Threads : Spawning(t, n) \/ Freeing(t, n)

\* A step that takes no owner away from a name still reserved leaks nothing.
LEMMA OwnersStay ==
  ASSUME NoNameLeak, \A n \in usedNames' : n \notin usedNames => Owned(n)',
         \A n \in usedNames' : Owned(n) => Owned(n)'
  PROVE  NoNameLeak'
  BY DEF NoNameLeak, Owned

\* A goroutine that moves on within Spawn, or within Kill short of the release,
\* takes no owner away.
LEMMA MoveLeaksNothing ==
  ASSUME TypeInv, NoNameLeak, NEW t \in Threads,
         pc' = [pc EXCEPT ![t] = pc'[t]], pc[t] # "free",
         pc[t] \in SpawnPC => pc'[t] \in SpawnPC,
         \A u \in Threads : pc'[u] # "idle" => local'[u].name = local[u].name,
         DOMAIN sleeves' = DOMAIN sleeves, usedNames' = usedNames
  PROVE  NoNameLeak'
<1>1. \A u \in Threads, n \in Names :
        /\ Spawning(u, n) => Spawning(u, n)'
        /\ Freeing(u, n) => Freeing(u, n)'
  BY DEF TypeInv, TypeOK, Spawning, Freeing, SpawnPC, KillPC
<1>2. \A n \in Names : Owned(n) => Owned(n)'
  BY <1>1 DEF Owned, Registered
<1> QED BY <1>2, OwnersStay DEF TypeInv, TypeOK

LEMMA LeakNext == LeakInv /\ [Next]_vars => LeakInv'
<1> SUFFICES ASSUME LeakInv, [Next]_vars
             PROVE  NoNameLeak'
  BY TypeNext, QuietNext DEF LeakInv
<1> USE DEF LeakInv, memory, docker
<1>1. ASSUME NEW t \in Threads, NEW n \in Names, NEW w \in Workspaces, Reserve(t, n, w)
      PROVE  NoNameLeak'
  <2>1. /\ pc[t] = "idle" /\ pc' = [pc EXCEPT ![t] = "port"]
        /\ local'[t].name = n /\ \A u \in Threads \ {t} : local'[u].name = local[u].name
        /\ sleeves' = sleeves /\ usedNames' = usedNames \cup {n}
    BY <1>1 DEF TypeInv, TypeOK, Reserve, Goto, NoLocals
  <2>2. \A u \in Threads, m \in Names :
          /\ Spawning(u, m) => Spawning(u, m)'
          /\ Freeing(u, m) => Freeing(u, m)'
    BY <2>1 DEF TypeInv, TypeOK, Spawning, Freeing, SpawnPC, KillPC
  <2>3. Spawning(t, n)'
    BY <2>1 DEF TypeInv, TypeOK, Spawning, SpawnPC
  <2>4. \A m \in usedNames' : Owned(m) => Owned(m)'
    BY <2>1, <2>2 DEF TypeInv, TypeOK, Owned, Registered
  <2>5. Owned(n)'
    BY <2>3 DEF Owned
  <2> QED BY <2>1, <2>4, <2>5, OwnersStay
<1>2. ASSUME NEW t \in Threads, Request(t)
      PROVE  NoNameLeak'
  <2>1. ASSUME NEW n \in Names, KillLookup(t, n)
        PROVE  NoNameLeak'
    <3>1. /\ pc[t] = "idle" /\ pc' = [pc EXCEPT ![t] = "find"]
          /\ \A u \in Threads \ {t} : local'[u] = local[u]
          /\ sleeves' = sleeves /\ usedNames' = usedNames
      BY <2>1 DEF TypeInv, TypeOK, KillLookup, Goto
    <3>2. \A u \in Threads, m \in Names :
            /\ Spawning(u, m) => Spawning(u, m)'
            /\ Freeing(u, m) => Freeing(u, m)'
      BY <3>1 DEF TypeInv, TypeOK, Spawning, Freeing, SpawnPC, KillPC
    <3>3. \A m \in Names : Owned(m) => Owned(m)'
      BY <3>1, <3>2 DEF Owned, Registered
    <3> QED BY <3>1, <3>3, OwnersStay DEF TypeInv, TypeOK
  <2>2. ASSUME NEW w \in Workspaces, AllocateName(t, w)
        PROVE  NoNameLeak'
    <3>1. \E n \in Names : Reserve(t, n, w)
      BY <2>2, PoolName DEF AllocateName, Names
    <3> QED BY <3>1, <1>1
  <2> QED BY <1>1, <1>2, <2>1, <2>2 DEF Request, ReserveNamed
<1>3. ASSUME NEW t \in Threads,
             \/ AllocatePort(t) \/ ListNetworks(t) \/ CreateNetwork(t)
             \/ CreateContainer(t) \/ StartContainer(t) \/ CleanUp(t)
      PROVE  NoNameLeak'
  <2>1. /\ pc' = [pc EXCEPT ![t] = pc'[t]] /\ pc[t] # "free" /\ pc'[t] \in SpawnPC
        /\ \A u \in Threads : local'[u].name = local[u].name
        /\ sleeves' = sleeves /\ usedNames' = usedNames
    BY <1>3
    DEF TypeInv, TypeOK, Locals, AllocatePort, ListNetworks, CreateNetwork,
        CreateContainer, StartContainer, CleanUp, Goto, SpawnPC
  <2> QED BY <2>1, MoveLeaksNothing
<1>4. ASSUME NEW t \in Threads, FindContainer(t) \/ StopContainer(t) \/ RemoveContainer(t)
      PROVE  NoNameLeak'
  <2>1. /\ pc' = [pc EXCEPT ![t] = pc'[t]] /\ pc[t] # "free" /\ pc[t] \notin SpawnPC
        /\ \A u \in Threads : pc'[u] # "idle" => local'[u].name = local[u].name
        /\ sleeves' = sleeves /\ usedNames' = usedNames
    BY <1>4
    DEF TypeInv, TypeOK, Locals, FindContainer, StopContainer, RemoveContainer,
        Return, Goto, SpawnPC
  <2> QED BY <2>1, MoveLeaksNothing
<1>5. ASSUME NEW t \in Threads, ReleaseAborted(t) \/ ReleaseKilled(t) \/ Publish(t)
      PROVE  NoNameLeak'
  <2> DEFINE n == local[t].name
  <2>1. /\ pc' = [pc EXCEPT ![t] = "idle"]
        /\ \A u \in Threads \ {t} : local'[u].name = local[u].name
        /\ DOMAIN sleeves \subseteq DOMAIN sleeves' /\ usedNames' \subseteq usedNames
        /\ n \in usedNames' => n \in DOMAIN sleeves'
    BY <1>5 DEF TypeInv, TypeOK, ReleaseAborted, ReleaseKilled, Publish, Return, Goto, Put
  <2>2. \A u \in Threads, m \in Names \ {n} :
          /\ Spawning(u, m) => Spawning(u, m)'
          /\ Freeing(u, m) => Freeing(u, m)'
    BY <2>1 DEF TypeInv, TypeOK, Spawning, Freeing
  <2>3. \A m \in usedNames' : Owned(m) => Owned(m)'
    BY <2>1, <2>2 DEF TypeInv, TypeOK, Owned, Registered
  <2> QED BY <2>1, <2>3, OwnersStay
<1>6. ASSUME NEW t \in Threads, DeleteSleeve(t)
      PROVE  NoNameLeak'
  <2> DEFINE n == local[t].name
  <2>1. /\ pc[t] = "delete" /\ pc' = [pc EXCEPT ![t] = "free"] /\ local' = local
        /\ DOMAIN sleeves' = DOMAIN sleeves \ {n} /\ usedNames' = usedNames
    BY <1>6 DEF DeleteSleeve, Goto, Drop, Restrict
  <2>2. \A u \in Threads, m \in Names :
          /\ Spawning(u, m) => Spawning(u, m)'
          /\ Freeing(u, m) => Freeing(u, m)'
    BY <2>1 DEF TypeInv, TypeOK, Spawning, Freeing, SpawnPC, KillPC
  <2>3. Freeing(t, n)'
    BY <2>1 DEF TypeInv, TypeOK, Freeing
  <2>4. \A m \in Names : Owned(m) => Owned(m)'
    BY <2>1, <2>2, <2>3 DEF Owned, Registered
  <2> QED BY <2>1, <2>4, OwnersStay DEF TypeInv, TypeOK
<1>7. CASE Crash
  BY <1>7 DEF Crash, NoNameLeak
<1>8. CASE RecoverSleeves
  BY <1>8 DEF RecoverSleeves, NoNameLeak, Registered
<1>9. CASE (\E n \in Names : ContainerExits(n)) \/ UNCHANGED vars
  <2>1. UNCHANGED <<pc, local, sleeves, usedNames>>
    BY <1>9 DEF ContainerExits, vars
  <2> QED BY <2>1 DEF NoNameLeak, Registered, Spawning, Freeing
<1> QED
  BY <1>2, <1>3, <1>4, <1>5, <1>6, <1>7, <1>8, <1>9
  DEF Next, Environment, SpawnStep, KillStep

\* No interleaving and no failure leaks a name, contested or not.
THEOREM NamesDoNotLeak == Spec => []NoNameLeak
<1>1. Init => LeakInv
  BY NameInit DEF NameInv, LeakInv, Init, NoNameLeak
<1>2. LeakInv => NoNameLeak
  BY DEF LeakInv
<1> QED BY <1>1, <1>2, LeakNext, PTL DEF Spec

=============================================================================
