--------------------------- MODULE ServingProofs ---------------------------
(***************************************************************************)
(* Proofs about Serving: types, and the truth of what a client is told,    *)
(* for any number of requests and workspaces and any timeouts of which the *)
(* connection's is the shorter.                                            *)
(***************************************************************************)
EXTENDS Serving, FiniteSetTheorems, TLAPS

Handling(r) == Accept(r) \/ NothingToFetch(r) \/ BeginFetch(r) \/ Select(r) \/ ClientLeaves(r)
Fetching(r, w) == StartGit(r, w) \/ Skip(r, w) \/ GitExits(r, w)
Ending == StartFails \/ StartReturns \/ ShutdownReturns \/ Crash
Proceeding == Listen \/ Signal \/ Restart

\* The kinds of steps.
LEMMA Steps ==
  ASSUME [Next]_vars
  PROVE  \/ \E r \in Requests : Handling(r) \/ CloseDone(r) \/ \E w \in Workspaces : Fetching(r, w)
         \/ Proceeding \/ Ending \/ Tick \/ UNCHANGED vars
  BY DEF Next, Process, Goroutine, Handling, Fetching, Ending, Proceeding

LEMMA EndingEnds == Ending => End
  BY DEF Ending, StartFails, StartReturns, ShutdownReturns, Crash

LEMMA Numbers ==
  /\ WriteTimeout \in Nat /\ FetchTimeout \in Nat /\ ShutdownTimeout \in Nat
  /\ WriteTimeout <= FetchTimeout
  /\ Cardinality(Workspaces) \in Nat
  BY DeadlineAssumption, WorkspacesAssumption, FS_CardinalityType

----------------------------------------------------------------------------
(***************************************************************************)
(* The wait group.                                                         *)
(***************************************************************************)
\* What a wait group counts.
Running(r) == {w \in Workspaces : fetch[r][w] \in {"starting", "git"}}

\* The number of elements of a set of workspaces, and of a set with one less.
LEMMA Count ==
  ASSUME NEW S \in SUBSET Workspaces
  PROVE  /\ Cardinality(S) \in 0 .. Cardinality(Workspaces)
         /\ (Cardinality(S) = 0) <=> (S = {})
         /\ \A w \in S : Cardinality(S) > 0 /\ Cardinality(S \ {w}) = Cardinality(S) - 1
<1>1. IsFiniteSet(S) /\ Cardinality(S) <= Cardinality(Workspaces)
  BY WorkspacesAssumption, FS_Subset
<1>2. Cardinality(S) \in Nat /\ Cardinality(Workspaces) \in Nat
  BY <1>1, WorkspacesAssumption, FS_CardinalityType
<1>3. (Cardinality(S) = 0) <=> (S = {})
  BY <1>1, FS_EmptySet
<1>4. ASSUME NEW w \in S
      PROVE  Cardinality(S \ {w}) = Cardinality(S) - 1
  BY <1>1, FS_RemoveElement
<1>5. \A w \in S : Cardinality(S) > 0
  BY <1>2, <1>3
<1> QED BY <1>1, <1>2, <1>3, <1>4, <1>5

\* The counter is the number of goroutines that run, and done is closed when
\* none does.
CountInv ==
  \A r \in Requests :
    /\ wg[r] = Cardinality(Running(r))
    /\ waiter[r] = "ended" => Running(r) = {}

TypeInv == TypeOK /\ CountInv

LEMMA TypeInit == Init => TypeInv
<1> SUFFICES ASSUME Init
             PROVE  TypeInv
  OBVIOUS
<1>1. \A r \in Requests : Running(r) = {}
  BY DEF Init, Running, NoFetch
<1>2. CountInv
  BY <1>1, Count DEF Init, CountInv
<1> QED BY <1>2, Numbers DEF Init, TypeInv, TypeOK, NoFetch

\* A step that leaves the goroutines alone.
LEMMA CountStays == CountInv /\ UNCHANGED goroutines => CountInv'
  BY DEF CountInv, Running, goroutines

\* A step that changes the goroutines of one request.
LEMMA CountChanges ==
  ASSUME CountInv, NEW r \in Requests,
         \A q \in Requests \ {r} :
           fetch'[q] = fetch[q] /\ wg'[q] = wg[q] /\ waiter'[q] = waiter[q],
         wg'[r] = Cardinality(Running(r)'),
         waiter'[r] = "ended" => Running(r)' = {}
  PROVE  CountInv'
<1>1. \A q \in Requests \ {r} : Running(q)' = Running(q)
  BY DEF Running
<1> QED BY <1>1 DEF CountInv

LEMMA HandlingTyped ==
  ASSUME TypeInv, NEW r \in Requests, Handling(r)
  PROVE  TypeInv'
<1> USE Numbers DEF TypeInv
<1>1. CASE Accept(r)
  <2>1. TypeOK'
    BY <1>1 DEF Accept, TypeOK, NoFetch, process
  <2>2. Running(r) = {} /\ Running(r)' = {}
    BY <1>1 DEF Accept, Quiet, Running, NoFetch, TypeOK
  <2>3. wg'[r] = Cardinality(Running(r)')
    BY <1>1, <2>2 DEF Accept, CountInv
  <2>4. CountInv'
    BY <1>1, <2>2, <2>3, CountChanges DEF Accept, TypeOK
  <2> QED BY <2>1, <2>4
<1>2. CASE NothingToFetch(r) \/ Select(r)
  <2>1. PICK what \in {"nothing", "fetched", "timedOut"} : Answer(r, what)
    BY <1>2 DEF NothingToFetch, Select
  <2>2. TypeOK'
    BY <2>1 DEF Answer, TypeOK, process, goroutines
  <2> QED BY <2>1, <2>2, CountStays DEF Answer
<1>3. CASE BeginFetch(r)
  <2>1. PICK listed \in SUBSET Workspaces :
          /\ fetch' = [fetch EXCEPT ![r] = [w \in Workspaces |->
                                              IF w \in listed THEN "starting" ELSE "off"]]
          /\ wg' = [wg EXCEPT ![r] = Cardinality(listed)]
    BY <1>3 DEF BeginFetch
  <2>2. TypeOK'
    BY <1>3, <2>1, Count DEF BeginFetch, TypeOK, process
  <2>3. Running(r)' = listed
    BY <2>1 DEF Running, TypeOK
  <2>4. CountInv'
    BY <1>3, <2>1, <2>3, CountChanges DEF BeginFetch, TypeOK
  <2> QED BY <2>2, <2>4
<1>4. CASE ClientLeaves(r)
  <2>1. TypeOK'
    BY <1>4 DEF ClientLeaves, TypeOK, process, goroutines
  <2> QED BY <1>4, <2>1, CountStays DEF ClientLeaves
<1> QED BY <1>1, <1>2, <1>3, <1>4 DEF Handling

LEMMA FetchingTyped ==
  ASSUME TypeInv, NEW r \in Requests, NEW w \in Workspaces, Fetching(r, w)
  PROVE  TypeInv'
<1> USE DEF TypeInv
<1>1. \A q \in Requests \ {r} : fetch'[q] = fetch[q] /\ wg'[q] = wg[q] /\ waiter'[q] = waiter[q]
  BY DEF Fetching, StartGit, Skip, GitExits, TypeOK
<1>2. w \in Running(r)
  BY DEF Fetching, StartGit, Skip, GitExits, Running
<1>3. Running(r) \in SUBSET Workspaces
  BY DEF Running
<1>4. wg[r] > 0 /\ wg[r] - 1 = Cardinality(Running(r) \ {w})
  BY <1>2, <1>3, Count DEF CountInv
<1>5. waiter[r] # "ended"
  BY <1>2 DEF CountInv
<1>6. CASE StartGit(r, w)
  <2>1. TypeOK'
    BY <1>6 DEF StartGit, TypeOK, process, handler
  <2>2. Running(r)' = Running(r)
    BY <1>6 DEF StartGit, Running, TypeOK
  <2>3. wg'[r] = Cardinality(Running(r)')
    BY <1>6, <2>2 DEF StartGit, CountInv
  <2>4. CountInv'
    BY <1>1, <1>5, <1>6, <2>3, CountChanges DEF StartGit
  <2> QED BY <2>1, <2>4
<1>7. CASE Skip(r, w) \/ GitExits(r, w)
  <2>1. TypeOK'
    <3>1. wg'[r] \in 0 .. Cardinality(Workspaces)
      BY <1>4, <1>7, Numbers DEF Skip, GitExits, TypeOK
    <3>2. wg' \in [Requests -> 0 .. Cardinality(Workspaces)]
      BY <1>7, <3>1 DEF Skip, GitExits, TypeOK
    <3>3. fetch' \in [Requests -> [Workspaces -> {"off", "starting", "git", "exited", "skipped"}]]
      <4>1. PICK v \in {"exited", "skipped"} : fetch' = [fetch EXCEPT ![r][w] = v]
        BY <1>7 DEF Skip, GitExits
      <4>2. fetch[r] \in [Workspaces -> {"off", "starting", "git", "exited", "skipped"}]
        BY DEF TypeOK
      <4> QED BY <4>1, <4>2 DEF TypeOK
    <3> QED BY <1>7, <3>2, <3>3 DEF Skip, GitExits, TypeOK, process, handler
  <2>2. Running(r)' = Running(r) \ {w}
    BY <1>7 DEF Skip, GitExits, Running, TypeOK
  <2>3. wg'[r] = Cardinality(Running(r)')
    BY <1>4, <1>7, <2>2 DEF Skip, GitExits, TypeOK
  <2>4. CountInv'
    BY <1>1, <1>5, <1>7, <2>3, CountChanges DEF Skip, GitExits
  <2> QED BY <2>1, <2>4
<1> QED BY <1>6, <1>7 DEF Fetching

LEMMA EndTyped == TypeInv /\ End => TypeInv'
<1> SUFFICES ASSUME TypeInv, End
             PROVE  TypeInv'
  OBVIOUS
<1>1. TypeOK'
  BY Numbers DEF End, TypeInv, TypeOK, NoFetch, UnderWay
<1>2. \A r \in Requests : Running(r)' = {}
  BY DEF End, Running, NoFetch
<1> QED BY <1>1, <1>2, Count DEF End, TypeInv, CountInv

LEMMA LessTyped ==
  ASSUME NEW m \in Nat, NEW n \in 0 .. m
  PROVE  Less(n) \in 0 .. m
  BY DEF Less

LEMMA TypeNext == TypeInv /\ [Next]_vars => TypeInv'
<1> SUFFICES ASSUME TypeInv, [Next]_vars
             PROVE  TypeInv'
  OBVIOUS
<1>1. ASSUME NEW r \in Requests, CloseDone(r)
      PROVE  TypeInv'
  <2>1. TypeOK'
    BY <1>1 DEF CloseDone, TypeInv, TypeOK, process, handler
  <2>2. Running(r) = {}
    BY <1>1, Count DEF CloseDone, TypeInv, CountInv, Running
  <2>3. Running(r)' = Running(r) /\ wg'[r] = Cardinality(Running(r))
    BY <1>1 DEF CloseDone, Running, TypeInv, CountInv
  <2>4. CountInv'
    BY <1>1, <2>2, <2>3, CountChanges DEF CloseDone, TypeInv, TypeOK
  <2> QED BY <2>1, <2>4 DEF TypeInv
<1>2. CASE Proceeding
  <2>1. TypeOK'
    BY <1>2, Numbers DEF Proceeding, Listen, Signal, Restart, TypeInv, TypeOK, handler, goroutines
  <2> QED BY <1>2, <2>1, CountStays DEF Proceeding, Listen, Signal, Restart, TypeInv
<1>3. CASE Tick
  <2>1. \A r \in Requests : Less(writeLeft[r]) \in 0 .. WriteTimeout
                             /\ Less(ctxLeft[r]) \in 0 .. FetchTimeout
    BY Numbers, LessTyped DEF TypeInv, TypeOK
  <2>2. Less(drainLeft) \in 0 .. ShutdownTimeout
    BY Numbers, LessTyped DEF TypeInv, TypeOK
  <2>3. TypeOK'
    BY <1>3, <2>1, <2>2 DEF Tick, TypeInv, TypeOK, goroutines
  <2> QED BY <1>3, <2>3, CountStays DEF Tick, TypeInv
<1>4. CASE UNCHANGED vars
  <2>1. TypeOK'
    BY <1>4 DEF vars, TypeInv, TypeOK, process, handler, goroutines
  <2> QED BY <1>4, <2>1, CountStays DEF vars, TypeInv
<1> QED BY <1>1, <1>2, <1>3, <1>4, HandlingTyped, FetchingTyped, EndTyped, EndingEnds, Steps

\* Every state of the process is well typed; above all, no wait group counts
\* below zero, which would panic.
THEOREM TypeCorrect == Spec => []TypeOK
<1>1. TypeInv => TypeOK
  BY DEF TypeInv
<1> QED BY <1>1, TypeInit, TypeNext, PTL DEF Spec

----------------------------------------------------------------------------
(***************************************************************************)
(* What is delivered.                                                      *)
(***************************************************************************)
\* A handler that waits has told its client nothing; the connection is at its
\* deadline before a fetch is, and a workspace is skipped only after that.
\* What has been told of the fetches stays true.
TruthOf(r) ==
  /\ UnderWay(r) => reply[r] = "none"
  /\ pc[r] = "selecting" =>
       /\ writeLeft[r] <= ctxLeft[r]
       /\ \A w \in Workspaces : fetch[r][w] = "skipped" => ctxLeft[r] = 0
  /\ reply[r] # "timedOut"
  /\ reply[r] = "fetched" => \A w \in Workspaces : fetch[r][w] \in {"off", "exited"}

TruthInv == \A r \in Requests : TruthOf(r)

LEMMA TruthInit == Init => TruthInv
  BY DEF Init, TruthInv, TruthOf, UnderWay

\* What is known of a request does not depend on the others.
LEMMA TruthStays ==
  ASSUME NEW r \in Requests, TruthOf(r), pc'[r] = pc[r], reply'[r] = reply[r],
         writeLeft'[r] = writeLeft[r], ctxLeft'[r] = ctxLeft[r], fetch'[r] = fetch[r]
  PROVE  TruthOf(r)'
  BY DEF TruthOf, UnderWay

LEMMA HandlingTrue ==
  ASSUME TypeInv, TruthInv, NEW r \in Requests, Handling(r)
  PROVE  TruthInv'
<1> USE DEF TypeInv, TypeOK
<1>1. ASSUME NEW q \in Requests \ {r}
      PROVE  TruthOf(q)'
  <2>1. /\ pc'[q] = pc[q] /\ reply'[q] = reply[q] /\ fetch'[q] = fetch[q]
        /\ writeLeft'[q] = writeLeft[q] /\ ctxLeft'[q] = ctxLeft[q]
    BY DEF Handling, Accept, NothingToFetch, BeginFetch, Select, ClientLeaves, Answer, goroutines
  <2> QED BY <2>1, TruthStays DEF TruthInv
<1>2. TruthOf(r)
  BY DEF TruthInv
<1>3. CASE Accept(r)
  <2>1. TruthOf(r)'
    BY <1>3 DEF Accept, TruthOf, UnderWay
  <2> QED BY <1>1, <2>1 DEF TruthInv
<1>4. CASE NothingToFetch(r)
  <2>1. TruthOf(r)'
    BY <1>4 DEF NothingToFetch, Answer, TruthOf, UnderWay
  <2> QED BY <1>1, <2>1 DEF TruthInv
<1>5. CASE BeginFetch(r)
  <2>1. writeLeft'[r] <= ctxLeft'[r]
    BY <1>5, Numbers DEF BeginFetch
  <2>2. \A w \in Workspaces : fetch'[r][w] # "skipped"
    BY <1>5 DEF BeginFetch
  <2>3. reply'[r] = "none"
    BY <1>2, <1>5 DEF BeginFetch, TruthOf, UnderWay
  <2> QED BY <1>1, <2>1, <2>2, <2>3 DEF TruthInv, TruthOf
<1>6. CASE Select(r)
  <2>1. CASE Done(r) /\ Answer(r, "fetched")
    <3>1. \A w \in Workspaces : fetch[r][w] \in {"off", "exited", "skipped"}
      <4>1. Running(r) = {}
        BY <2>1 DEF Done, CountInv
      <4>2. \A w \in Workspaces : fetch[r][w] \notin {"starting", "git"}
        BY <4>1 DEF Running
      <4>3. fetch[r] \in [Workspaces -> {"off", "starting", "git", "exited", "skipped"}]
        OBVIOUS
      <4> QED BY <4>2, <4>3
    <3>2. ASSUME reply'[r] = "fetched"
          PROVE  \A w \in Workspaces : fetch[r][w] # "skipped"
      <4>1. writeLeft[r] > 0 /\ pc[r] = "selecting"
        BY <1>6, <2>1, <3>2 DEF Select, Answer
      <4>2. writeLeft[r] \in Nat /\ ctxLeft[r] \in Nat
        BY Numbers
      <4>3. ctxLeft[r] # 0
        BY <1>2, <4>1, <4>2 DEF TruthOf
      <4> QED BY <1>2, <4>1, <4>3 DEF TruthOf
    <3>3. TruthOf(r)'
      BY <2>1, <3>1, <3>2 DEF Answer, TruthOf, UnderWay, goroutines
    <3> QED BY <1>1, <3>3 DEF TruthInv
  <2>2. CASE ContextDone(r) /\ Answer(r, "timedOut")
    <3>1. reply'[r] = "lost"
      BY <1>2, <1>6, <2>2 DEF Select, ContextDone, Answer, TruthOf
    <3>2. TruthOf(r)'
      BY <2>2, <3>1 DEF Answer, TruthOf, UnderWay
    <3> QED BY <1>1, <3>2 DEF TruthInv
  <2> QED BY <1>6, <2>1, <2>2 DEF Select
<1>7. CASE ClientLeaves(r)
  <2>1. TruthOf(r)'
    BY <1>2, <1>7 DEF ClientLeaves, TruthOf, UnderWay, goroutines
  <2> QED BY <1>1, <2>1 DEF TruthInv
<1> QED BY <1>3, <1>4, <1>5, <1>6, <1>7 DEF Handling

LEMMA FetchingTrue ==
  ASSUME TypeInv, TruthInv, NEW r \in Requests, NEW w \in Workspaces, Fetching(r, w)
  PROVE  TruthInv'
<1> USE DEF TypeInv, TypeOK, Fetching, StartGit, Skip, GitExits, handler
<1>1. ASSUME NEW q \in Requests \ {r}
      PROVE  TruthOf(q)'
  BY <1>1, TruthStays DEF TruthInv
<1>2. TruthOf(r)
  BY DEF TruthInv
<1>3. \A v \in Workspaces \ {w} : fetch'[r][v] = fetch[r][v]
  OBVIOUS
<1>4. fetch[r][w] \notin {"off", "exited"} /\ (fetch'[r][w] = "skipped" => ctxLeft[r] = 0)
  BY DEF ContextDone
<1>5. TruthOf(r)'
  BY <1>2, <1>3, <1>4 DEF TruthOf, UnderWay
<1> QED BY <1>1, <1>5 DEF TruthInv

LEMMA TruthNext == TypeInv /\ TruthInv /\ [Next]_vars => TruthInv'
<1> SUFFICES ASSUME TypeInv, TruthInv, [Next]_vars
             PROVE  TruthInv'
  OBVIOUS
<1>1. CASE Ending
  <2>1. End
    BY <1>1, EndingEnds
  <2> QED BY <2>1 DEF End, TruthInv, TruthOf, UnderWay, NoFetch, TypeInv, TypeOK
<1>2. CASE Tick
  <2> SUFFICES ASSUME NEW r \in Requests
               PROVE  TruthOf(r)'
    BY DEF TruthInv
  <2>1. TruthOf(r)
    BY DEF TruthInv
  <2>2. writeLeft[r] \in Nat /\ ctxLeft[r] \in Nat
    BY Numbers DEF TypeInv, TypeOK
  <2> QED BY <1>2, <2>1, <2>2 DEF Tick, Less, TruthOf, UnderWay, goroutines
<1>3. CASE (\E r \in Requests : CloseDone(r)) \/ Proceeding \/ UNCHANGED vars
  <2>1. UNCHANGED <<pc, reply, writeLeft, ctxLeft, fetch>>
    BY <1>3 DEF CloseDone, Proceeding, Listen, Signal, Restart, vars, handler, goroutines
  <2> QED BY <2>1, TruthStays DEF TruthInv
<1> QED BY <1>1, <1>2, <1>3, HandlingTrue, FetchingTrue, Steps

\* What a client is told of its fetch is true, and that some timed out is
\* something it is never told.
THEOREM DeliveredAnswersAreTrue == Spec => []DeliveredMeansFetched
<1>1. TypeInv /\ TruthInv => DeliveredMeansFetched
  BY DEF TruthInv, TruthOf, DeliveredMeansFetched
<1> QED BY <1>1, TypeInit, TypeNext, TruthInit, TruthNext, PTL DEF Spec

=============================================================================
