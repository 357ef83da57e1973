------------------------------ MODULE Serving ------------------------------
(***************************************************************************)
(* The life of the process (cmd/envoy/main.go, internal/envoy/server.go)   *)
(* and the one request that fans out: FetchAllRemotes of                   *)
(* internal/envoy/workspace_manager.go, with a goroutine per workspace,    *)
(* one that waits for them all, and a select of that against a timeout.    *)
(* What the client gets of the answer depends on the server's deadline.    *)
(*                                                                         *)
(* Timers are counted down in ticks of 10 seconds; a tick waits for no     *)
(* goroutine, so that each may be as late as it likes.                     *)
(***************************************************************************)
EXTENDS Naturals, FiniteSets

CONSTANTS
  Requests,         \* bound: requests under way or leaving goroutines behind
  Workspaces,       \* the workspaces under the root
  WriteTimeout,     \* of the http.Server: 30 s
  FetchTimeout,     \* of the context of FetchAllRemotes: 30 s
  ShutdownTimeout   \* of the context of Shutdown: 10 s

\* The deadline of the connection runs from the request, the context of the
\* fetch from the end of List; nothing but the numbers orders the two.
ASSUME DeadlineAssumption ==
  /\ {WriteTimeout, FetchTimeout, ShutdownTimeout} \subseteq Nat
  /\ WriteTimeout <= FetchTimeout

\* The root is a directory.
ASSUME WorkspacesAssumption == IsFiniteSet(Workspaces)

VARIABLES
  proc,        \* the process
  drainLeft,   \* until Shutdown gives up waiting
  pc,          \* pc[r]: the handler of request r
  reply,       \* reply[r]: what its client has got
  writeLeft,   \* writeLeft[r]: until writes to the client fail
  ctxLeft,     \* ctxLeft[r]: until the context of its fetch is done
  fetch,       \* fetch[r][w]: its goroutine for workspace w
  wg,          \* wg[r]: the counter of its wait group
  waiter       \* waiter[r]: the goroutine that closes done

process == <<proc, drainLeft>>
handler == <<pc, reply, writeLeft, ctxLeft>>
goroutines == <<fetch, wg, waiter>>
vars == <<process, handler, goroutines>>

TypeOK ==
  /\ proc \in {"starting", "serving", "draining", "ended"}
  /\ drainLeft \in 0 .. ShutdownTimeout
  /\ pc \in [Requests -> {"none", "listing", "selecting", "answered"}]
  /\ reply \in [Requests -> {"none", "nothing", "fetched", "timedOut", "lost", "cut"}]
  /\ writeLeft \in [Requests -> 0 .. WriteTimeout]
  /\ ctxLeft \in [Requests -> 0 .. FetchTimeout]
  /\ fetch \in [Requests -> [Workspaces -> {"off", "starting", "git", "exited", "skipped"}]]
  /\ wg \in [Requests -> 0 .. Cardinality(Workspaces)]
  /\ waiter \in [Requests -> {"off", "waiting", "ended"}]

NoFetch == [w \in Workspaces |-> "off"]

Init ==
  /\ proc = "starting" /\ drainLeft = 0
  /\ pc = [r \in Requests |-> "none"] /\ reply = [r \in Requests |-> "none"]
  /\ writeLeft = [r \in Requests |-> 0] /\ ctxLeft = [r \in Requests |-> 0]
  /\ fetch = [r \in Requests |-> NoFetch] /\ wg = [r \in Requests |-> 0]
  /\ waiter = [r \in Requests |-> "off"]

Up == proc \in {"serving", "draining"}
UnderWay(r) == pc[r] \in {"listing", "selecting"}
Quiet(r) ==
  /\ \A w \in Workspaces : fetch[r][w] \in {"off", "exited", "skipped"}
  /\ waiter[r] # "waiting"

----------------------------------------------------------------------------
(***************************************************************************)
(* The handler of a fetch-all.                                             *)
(***************************************************************************)
\* The write deadline is set when the request has been read.
Accept(r) ==
  /\ proc = "serving" /\ ~ UnderWay(r) /\ Quiet(r)
  /\ pc' = [pc EXCEPT ![r] = "listing"]
  /\ reply' = [reply EXCEPT ![r] = "none"]
  /\ writeLeft' = [writeLeft EXCEPT ![r] = WriteTimeout]
  /\ fetch' = [fetch EXCEPT ![r] = NoFetch]
  /\ waiter' = [waiter EXCEPT ![r] = "off"]
  /\ UNCHANGED <<process, ctxLeft, wg>>

\* The handler returns; the context is cancelled, and the answer is flushed.
Answer(r, what) ==
  /\ pc' = [pc EXCEPT ![r] = "answered"]
  /\ reply' = [reply EXCEPT ![r] = IF writeLeft[r] > 0 THEN what ELSE "lost"]
  /\ writeLeft' = [writeLeft EXCEPT ![r] = 0]
  /\ ctxLeft' = [ctxLeft EXCEPT ![r] = 0]
  /\ UNCHANGED <<process, goroutines>>

\* List failed, or found no git workspace.
NothingToFetch(r) == Up /\ pc[r] = "listing" /\ Answer(r, "nothing")

\* Mutant: each goroutine adds itself to the wait group.
BeginFetchUncounted(r) ==
  /\ Up /\ pc[r] = "listing"
  /\ \E listed \in SUBSET Workspaces \ {{}} :
       fetch' = [fetch EXCEPT ![r] = [w \in Workspaces |-> IF w \in listed THEN "starting" ELSE "off"]]
  /\ wg' = wg
  /\ waiter' = [waiter EXCEPT ![r] = "waiting"]
  /\ ctxLeft' = [ctxLeft EXCEPT ![r] = FetchTimeout]
  /\ pc' = [pc EXCEPT ![r] = "selecting"]
  /\ UNCHANGED <<process, reply, writeLeft>>

BeginFetch(r) ==
  /\ Up /\ pc[r] = "listing"
  /\ \E listed \in SUBSET Workspaces \ {{}} :
       /\ fetch' = [fetch EXCEPT ![r] = [w \in Workspaces |-> IF w \in listed THEN "starting" ELSE "off"]]
       /\ wg' = [wg EXCEPT ![r] = Cardinality(listed)]
  /\ waiter' = [waiter EXCEPT ![r] = "waiting"]
  /\ ctxLeft' = [ctxLeft EXCEPT ![r] = FetchTimeout]
  /\ pc' = [pc EXCEPT ![r] = "selecting"]
  /\ UNCHANGED <<process, reply, writeLeft>>

Done(r) == waiter[r] = "ended"
ContextDone(r) == ctxLeft[r] = 0   \* expired, or cancelled by the handler's return

\* Mutant: the handler waits for done alone.
SelectDone(r) == Up /\ pc[r] = "selecting" /\ Done(r) /\ Answer(r, "fetched")

\* When both are ready, either is taken.
Select(r) ==
  /\ Up /\ pc[r] = "selecting"
  /\ \/ Done(r) /\ Answer(r, "fetched")
     \/ ContextDone(r) /\ Answer(r, "timedOut")

----------------------------------------------------------------------------
(***************************************************************************)
(* The goroutines of a fetch-all.                                          *)
(***************************************************************************)
StartGit(r, w) ==
  /\ Up /\ fetch[r][w] = "starting" /\ ~ ContextDone(r)
  /\ fetch' = [fetch EXCEPT ![r][w] = "git"]
  /\ UNCHANGED <<process, handler, wg, waiter>>

Skip(r, w) ==
  /\ Up /\ fetch[r][w] = "starting" /\ ContextDone(r)
  /\ fetch' = [fetch EXCEPT ![r][w] = "skipped"]
  /\ wg' = [wg EXCEPT ![r] = @ - 1]
  /\ UNCHANGED <<process, handler, waiter>>

\* Mutant: the goroutine counts itself out on return, and once more deferred.
GitExitsTwice(r, w) ==
  /\ Up /\ fetch[r][w] = "git"
  /\ fetch' = [fetch EXCEPT ![r][w] = "exited"]
  /\ wg' = [wg EXCEPT ![r] = @ - 2]
  /\ UNCHANGED <<process, handler, waiter>>

\* git exits, with success or not, which nobody asks; the context does not
\* stop it.
GitExits(r, w) ==
  /\ Up /\ fetch[r][w] = "git"
  /\ fetch' = [fetch EXCEPT ![r][w] = "exited"]
  /\ wg' = [wg EXCEPT ![r] = @ - 1]
  /\ UNCHANGED <<process, handler, waiter>>

\* Mutant: done is sent on, for which somebody has to receive.
SendDone(r) ==
  /\ Up /\ waiter[r] = "waiting" /\ wg[r] = 0
  /\ pc[r] = "selecting"
  /\ waiter' = [waiter EXCEPT ![r] = "ended"]
  /\ UNCHANGED <<process, handler, fetch, wg>>

CloseDone(r) ==
  /\ Up /\ waiter[r] = "waiting" /\ wg[r] = 0
  /\ waiter' = [waiter EXCEPT ![r] = "ended"]
  /\ UNCHANGED <<process, handler, fetch, wg>>

----------------------------------------------------------------------------
(***************************************************************************)
(* The process.                                                            *)
(***************************************************************************)
\* Everything in the container goes with the process.
End ==
  /\ proc' = "ended" /\ drainLeft' = 0
  /\ pc' = [r \in Requests |-> IF UnderWay(r) THEN "answered" ELSE pc[r]]
  /\ reply' = [r \in Requests |-> IF UnderWay(r) THEN "cut" ELSE reply[r]]
  /\ writeLeft' = [r \in Requests |-> 0] /\ ctxLeft' = [r \in Requests |-> 0]
  /\ fetch' = [r \in Requests |-> NoFetch] /\ wg' = [r \in Requests |-> 0]
  /\ waiter' = [r \in Requests |-> "off"]

\* ListenAndServe has the port.
Listen ==
  /\ proc = "starting" /\ proc' = "serving"
  /\ UNCHANGED <<drainLeft, handler, goroutines>>

\* NewServer or ListenAndServe fails, and log.Fatalf exits.
StartFails == proc = "starting" /\ End

\* Shutdown closes the listener and begins to wait.
Signal ==
  /\ proc \in {"starting", "serving"}
  /\ proc' = "draining" /\ drainLeft' = ShutdownTimeout
  /\ UNCHANGED <<handler, goroutines>>

\* Start returns ErrServerClosed once the listener is closed, and log.Fatalf
\* exits, whatever is under way.
StartReturns == proc = "draining" /\ End

\* Mutant: Shutdown has no timeout.
ShutdownWaitsForAll ==
  /\ proc = "draining"
  /\ \A r \in Requests : ~ UnderWay(r)
  /\ End

\* main returns after Shutdown; goroutines are not waited for.
ShutdownReturns ==
  /\ proc = "draining"
  /\ drainLeft = 0 \/ \A r \in Requests : ~ UnderWay(r)
  /\ End

Crash == Up /\ End

Restart ==
  /\ proc = "ended" /\ proc' = "starting"
  /\ UNCHANGED <<drainLeft, handler, goroutines>>

----------------------------------------------------------------------------
\* Nothing tells the handler.
ClientLeaves(r) ==
  /\ Up /\ UnderWay(r)
  /\ writeLeft' = [writeLeft EXCEPT ![r] = 0]
  /\ UNCHANGED <<process, pc, reply, ctxLeft, goroutines>>

Less(n) == IF n = 0 THEN 0 ELSE n - 1

Tick ==
  /\ Up
  /\ drainLeft' = Less(drainLeft)
  /\ writeLeft' = [r \in Requests |-> Less(writeLeft[r])]
  /\ ctxLeft' = [r \in Requests |-> Less(ctxLeft[r])]
  /\ UNCHANGED <<proc, pc, reply, goroutines>>

Goroutine(r) ==
  CloseDone(r) \/ \E w \in Workspaces : StartGit(r, w) \/ Skip(r, w)

Process == Listen \/ StartFails \/ Signal \/ StartReturns \/ ShutdownReturns \/ Crash \/ Restart

Next ==
  \/ \E r \in Requests :
       \/ Accept(r) \/ NothingToFetch(r) \/ BeginFetch(r) \/ Select(r) \/ ClientLeaves(r)
       \/ Goroutine(r) \/ \E w \in Workspaces : GitExits(r, w)
  \/ Process
  \/ Tick

Spec == Init /\ [][Next]_vars

\* Goroutines that can run do, main among them, and time passes.  Nothing is
\* assumed of git, in the fetches or in List, nor that Fatalf is ever reached.
FairSpec ==
  /\ Spec
  /\ \A r \in Requests : WF_vars(Select(r)) /\ WF_vars(Goroutine(r))
  /\ WF_vars(ShutdownReturns) /\ WF_vars(Tick)

----------------------------------------------------------------------------
(***************************************************************************)
(* Properties.                                                             *)
(***************************************************************************)
\* An answer that arrives is true: when it says that the workspaces were
\* fetched, git has exited in every one, none was skipped for the time and
\* none still runs.  The answer that only says some timed out never arrives,
\* since the connection's deadline is no later than the context's.
DeliveredMeansFetched ==
  \A r \in Requests :
    /\ reply[r] # "timedOut"
    /\ reply[r] = "fetched" /\ Up
         => \A w \in Workspaces : fetch[r][w] \in {"off", "exited"}

\* A git fetch that hangs does not hold its request for good: the context's
\* timeout ends the wait.  (A git that hangs in List, before the fetches are
\* started, would: it has no timeout and is not modelled.)
HandlerReturns ==
  \A r \in Requests : pc[r] = "selecting" ~> pc[r] # "selecting"

\* An answered request leaves no goroutine behind but for a git that hangs,
\* also when the answer was given by the timeout and nobody waits for done.
NothingIsLeft ==
  \A r \in Requests :
    pc[r] = "answered" ~> Quiet(r) \/ \E w \in Workspaces : fetch[r][w] = "git"

\* The process ends once it is told to, with requests under way or hanging.  It
\* says nothing of the requests being drained, which Fatalf may cut off.
EndsAfterSignal == proc = "draining" ~> proc = "ended"

=============================================================================
