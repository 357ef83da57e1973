# A TLA+ model of protectorate

protectorate runs coding agents in Docker containers ("sleeves").  One Go process, the
*envoy*, serves a web page and an HTTP API: it spawns and kills sleeves, creates and clones
the workspaces they mount, runs git in them, and proxies terminals.  This directory holds
TLA+ modules that model the envoy, the TLC configurations that check them on small
instances, and TLAPS proofs of what holds for every instance.

Paths below are relative to the repository.  SM is `internal/envoy/sleeve_manager.go`, WM
`internal/envoy/workspace_manager.go`, DK `internal/envoy/docker.go`, HD
`internal/envoy/handlers.go`, WS `internal/envoy/ws_proxy.go`, UI
`internal/envoy/web/templates/index.html`.

## 1. The system

| Component | State | Operations | Correct when |
|---|---|---|---|
| **Sleeve manager** (SM) | `sleeves` (name → entry), `usedNames`, `nextPort`, under one mutex `mu` | `Spawn`, `Kill`, `List`, `Get`, `RecoverSleeves` | a name is handed out once and always comes back; the list and the daemon agree; a Kill touches only the sleeve it was asked for; a restart loses nothing |
| **Docker client** (DK) | none of its own; the daemon's containers and network | `EnsureNetwork`, `CreateContainer`, `StartContainer`, `StopContainer`, `RemoveContainer`, `GetContainerByName`, `ListSleeveContainers`, listings | errors reach the caller; the network exists before a container uses it |
| **Workspace manager: creation and clones** (WM 75-190) | the directories under the workspace root; `jobs` (id → job) under its own `mu` | `Create`, `Clone`, `runClone` (goroutine), `GetJob`, `cleanupExpiredJobs` (goroutine, every 10 minutes) | a completed clone is on the disk and stays; a clean-up removes only what its clone left; a job ends, can be looked up while it runs, and is forgotten after an hour |
| **Workspace manager: branches** (WM 317-483) | a repository's working tree; the list of sleeves, read through `sleeveGetter` | `ListBranches`, `SwitchBranch`, `FetchRemote`, `PullRemote` | git never changes a tree that a sleeve works in, or one with uncommitted changes |
| **Fetch of all remotes** (WM 486-538) | a wait group, a 30-second context | `FetchAllRemotes` | it answers within its time; an answer that says the workspaces were fetched is true; nothing but a git that hangs is left behind |
| **WebSocket proxy** (WS) | two connections, two pumps, a ping goroutine, a channel of errors, a read deadline | `proxyWebSocket` | both sides are closed once either fails; a dead client is noticed, a live one is not cut off; no goroutine stays |
| **Server and process** (`server.go`, `cmd/envoy/main.go`) | up or down | `NewServer` (recovers before serving), `Start`, `Shutdown` | nothing is served before recovery; the process ends when told to |
| **HTTP handlers** (HD) | none | one per route | each runs the manager's operation in a goroutine of its own |
| **Web client** (UI) | the current terminal, its socket, timers and count of attempts, the status shown; current job and poll timer | terminal connection and reconnection; clone polling, create-then-spawn | a terminal reconnects once at a time, in the end gets there or gives up, and not after it was disposed of; the status shown is its own; polling ends with the job |
| **Configuration** (`config.go`) | none after start | `LoadEnvoyConfig` | what is configured is obeyed |
| **Protocol types**, **entrypoints and scripts** | none | – | – |

How they interact: `net/http` runs each request in its own goroutine, which calls the managers
directly.  The sleeve manager calls the daemon **outside** its lock, so between any two calls
every other request can run.  The workspace manager reads the sleeve manager's list through a
function value, copies it and then acts on the copy.  `runClone` and the job clean-up are
background goroutines that share the workspace manager's lock with requests; the handler of a poll
encodes the job object after the lock was given back. A terminal of the page is a WebSocket to the
proxy, which upgrades it before it dials the ttyd of the sleeve, and the page reconnects on what
it sees of that: the promise between the two is a specification of its own (`TerminalSession`),
and so is the one between clone jobs and the page's clone window, which polls them every second
(`JobService`).  `FetchAllRemotes` starts a goroutine per workspace and selects between their wait
group and a timeout, while the connection it answers on has a deadline too. The envoy's container
has `restart: unless-stopped`: when the process dies the maps are lost, the sleeves' containers
stay, and `RecoverSleeves` reads them back.

What makes this hard: interleavings of Spawns and Kills across their calls to the daemon; calls
that fail half way; a process that dies between creating a container and listing it; checks
(`os.Stat`, the list) that are stale when acted upon; a job object read and written without a
lock; timeouts that race with answers; pumps that block in a write while their peer, or the other
pump, fails; callbacks of a disposed terminal that still run, polls that are answered when the
page has moved on.  `PROJECT.json` lists each such place under "hazards", with its line and the
properties that cover it.  Where the code is open to a hazard no property can cover it: the entry
then has none, says so, and names the history variable (`contested`, `early`, `rivals`, `trouble`,
`late`, `overlapped`, `crossed`) by which the properties around it leave the case out.

## 2. The modules

| Module | What it is |
|---|---|
| `SleeveManager` | the sleeve manager, the daemon it drives, crash and recovery |
| `NameLifecycle` | abstract: what the sleeve manager promises about names |
| `CloneJobs` | workspace creation, clone jobs, polls of them, the job clean-up |
| `JobService` | abstract: what a client of clone jobs may count on |
| `BranchOps` | switching and pulling: the in-use check, the clean check, git |
| `Envoy` | the composition of `SleeveManager`, `CloneJobs` and `BranchOps` |
| `Serving` | the process from start to end, and the handler and goroutines of a fetch-all |
| `TerminalSession` | abstract: what a page may count on when it opens a terminal |
| `WsProxy` | the terminal proxy: pumps, pings, deadlines; implements `TerminalSession` |
| `TerminalPage` | the page's terminals, composed with `TerminalSession` |
| `ClonePage` | the page's clone window and its polls, composed with `JobService` |
| `MCSleeveManager`, `MCCloneJobs`, `MCEnvoy` | instances for TLC: small constants, paths inside one another, symmetry; the others are checked as they are |
| `SleeveManagerProofs` | theorems: types, owners of names, no leak |
| `SleeveDockerProofs` | theorems: map and daemon agree, kills hit their sleeve, ports; `SleeveManager` implements `NameLifecycle` |
| `CloneJobsProofs` | theorems: types and the safety of clones; `CloneJobs` implements `JobService` |
| `ClonePageProofs` | theorems: types, intervals, the truth of what the page says |
| `EnvoyProofs` | theorems: the composition implements its parts, and is safe where they meet |
| `ServingProofs`, `WsProxyProofs`, `TerminalPageProofs` | theorems: every safety property of these modules; `WsProxy` implements `TerminalSession` |

### SleeveManager

An action is what one goroutine does between two points where another can run: one
critical section of `mu`, or one call to the daemon.

| Code | Actions |
|---|---|
| `Spawn`: stat, name (SM 82-104), `allocateName` | `ReserveNamed`, `AllocateName` |
| `allocatePort` | `AllocatePort` |
| `EnsureNetwork` (DK 156-175): list, then create | `ListNetworks`, `CreateNetwork` |
| `CreateContainer`, `StartContainer`, the removal when the start fails | `CreateContainer`, `StartContainer`, `CleanUp` |
| `releaseName` on every failure path | `ReleaseAborted` |
| registration (SM 186-201) | `Publish` |
| `Kill`: lookup, container by name, stop, remove, delete entry, release | `KillLookup`, `FindContainer`, `StopContainer`, `RemoveContainer`, `DeleteSleeve`, `ReleaseKilled` |
| `RecoverSleeves` from `NewServer` | `RecoverSleeves` |
| – | `ContainerExits`, `Crash` |

`pc[t]` is where goroutine t is and `local[t]` holds its locals (name, workspace, port,
container id).  A map is a function whose domain is its keys.  Every call to the daemon
may fail, and a failed call has no effect at the daemon; what Kill does with a failure
(ignore a failed stop, return on a failed removal) follows the code.  The daemon refuses a
second container of one name, so container names are unique and ids are never reused.

Abstractions: the container's configuration, `toHostPath`, labels and mounts are data no
property tells apart; `Stat` of the workspace before the name is reserved has no effect and
is merged with it (a request it refuses changes nothing).  `List` and `Get` only read.  A
time-stamp name (`sleeve-<UnixNano>`) never comes back (`Fresh`).  A daemon call
that is under way when the process dies is taken to have happened or not happened before
that; one the daemon completes after recovery listed the containers is not modelled.
`local[t].cid` is 0 until the container exists.

`contested` is a history variable that no action reads.  A name is added when a Kill deletes its
entry while another Kill that looked up the same entry is still under way: the second one
finds the container *by name* and later deletes and releases *by name*, so a new sleeve of
that name can be stopped, unlisted and have its name given out a second time.  Two
overlapping Kills of one sleeve (a double click) are enough to get there.  The invariants
say what holds for every name this has not happened to.  A restart, which rebuilds
everything from the daemon, clears it.

### NameLifecycle

A name is `free`, `pending` (a Spawn holds it), `live`, `closing` (a Kill deleted the
entry and has yet to release the name) or `contested`.  It is handed out from `free`
only; a restart forgets all and takes the names of the containers that are left as live.
`SleeveManager` maps to it by `Phase(n)`, a function of its maps and program counters,
and the `sleeve_manager` run checks that each step is one of the lifecycle or a stutter.

### CloneJobs

| Code | Actions |
|---|---|
| `Create`: `Stat`, then `MkdirAll` | `CreateCheck`, `CreateMkdir` |
| `Clone`: `Stat` and the new job; then the job into the map under `mu`, goroutine started | `CloneCheck`, `Register` |
| git, an outside process | `GitBegin`, `GitSucceed`, `GitFail` |
| `runClone` after git, under `mu` | `Lock`, `Complete`; `SetFailed`, `SetError`, `RemoveAll` |
| `GetJob`, then the JSON encoder without the lock | `GetJob`, `ReadStatus`, `ReadError` |
| `cleanupExpiredJobs` | `Tick`, `Sweep` |
| – | `Restart` |

`disk` maps a path to what is in it (`empty`, `partial`, `repo`) and the job that put it
there; it may hold workspaces from before.  Paths nest: `Create` refuses a slash in a name
(WM 85), `Clone` does not look at the name (WM 115-125), so `foo/bar` can be cloned beside or into
`foo`.  `Under[d]` are the paths inside d; the disk is a tree (`Rooted`), so making a path makes
the ones around it (`MakeDirs`), and removing one removes what is inside, whoever made it
(`RemoveTree`), though a removal may stop half way.  git refuses a directory with something in it,
and removes what it made when it fails, or is killed before it can.  A directory that a
repository itself brings is part of the repository and no path of the model.  A job's age
counts ticks since its `EndTime`; the zero `EndTime` of a job that has not ended is before any
cutoff, so its age is `LongAgo`.

The encoder's reads race with `runClone`'s writes, so every write is a step and a poll can
read between any two.  A Go string is a pointer and a length: a status that is read while
it is written may be `garbled`, and an error read then may have a length and no pointer, in
which case the handler panics and `net/http` closes the connection without an answer.

`rivals` is a history variable like `contested`: the paths of two requests, each of which saw
its path absent, that were under way together for one path or for two of which one is inside
the other.  Of these the properties of paths say nothing, because the code promises nothing:
the clean-up of one can remove what the other made.

### JobService and ClonePage

`JobService` is clone jobs without goroutines, lock and directories.  A job's `status` goes
from `none` to `cloning` to an outcome and stays there; `known` are the jobs that can be
looked up, among them every job that is cloning; a poll asks about a known job and later reads
the status the job has by then, or one that is no status while the job is cloning (a torn
read), or is never answered.  A restart forgets every job; those that were cloning are `lost`.
`CloneJobs` implements it: `StatusOf(j)` is the status of the job object once the job is
registered, and `Told(p)` what a poll has read so far.  What is torn between status and error
text is below this level: it is the violation run `clone_torn_answer`.

`ClonePage` uses nothing else of the envoy, as the page does.

| Code (UI) | Actions of `ClonePage` |
|---|---|
| `showCloneModal`, `hideCloneModal` | `ShowCloneModal`, `HideCloneModal` |
| `cloneWorkspace` up to its POST | `Submit` |
| the handler of the POST | `Accept` |
| the answer: refused, lost, or a job and its `setInterval` | `PostFails`, `PostAnswered` |
| the interval's callback up to its fetch | `TimerFires` |
| `GetJob` and the encoder in the handler of the GET | `Serve`, `ReadStatus` |
| the callback after its fetch: nothing, or an outcome; the `catch` | `PollAnswered`, `PollFails` |
| the rest of the envoy | `Progress`: steps of `JobService` |

`currentCloneJobId` is `current` and the handle in `clonePollingInterval` is `interval`; the
intervals that fire, whether the page still has their handle or not, are `intervals`.  All of
them read `current` when they fire, so a poll asks about whatever job is on show by then, or
about `null`; `fetch[p]` remembers which.  Nothing compares that with `current` when the
answer comes.  `verdict` and `overlapped` are history variables: what the page said of the job
that was on show, `crossed` when the answer was about another; and whether the form was
submitted while a submission was under way, which the button prevents until the window is
hidden or a late answer enables it.

### BranchOps and Envoy

`SwitchBranch` and `PullRemote` are the same steps up to git: `Open` (the two `Stat`s),
`CheckInUse` (one read of the list), `CheckClean`, then `Checkout`, with `CheckoutTracking`
when `origin/<branch>` could not be checked out, or `PullFastForward`.  A working tree is what it has
checked out (`head`) and whether it is dirty.  git may refuse at any time; a `git status`
that fails counts as clean.  `FetchRemote` only updates remote-tracking refs, which
nothing here has.

`Envoy` puts the three components in one process.  It EXTENDS `SleeveManager` and
instantiates the others: `listed` of `BranchOps` is what the manager's list says, `repos`
what the disk of `CloneJobs` has.  What it adds is where they meet: a Spawn needs its
workspace on the disk (`SpawnRequest`), the daemon refuses a mount that is not there (`MountSource`),
a process end stops all of them (`ProcessEnds`), and a sleeve, or the shell of
`/envoy/terminal`, may do anything to a working tree (`TreeChanges`).  `early` and `asked` are
history variables: the workspaces spawned on while a clone over them (into them or into something
they are inside of) was under way, and, for each operation, the Spawns under way and the newest
container when it read the list.  `IsWorkspaceInUse` compares strings (WM 321).  A workspace is
one value, so another spelling of its path is not modelled; nor is a sleeve on a directory that
is part of a repository, which a checkout may remove.  A sleeve on another workspace inside or around
the repository is, and the check does not look for it: the properties are about sleeves on
the very path.

### Serving

| Code | Actions |
|---|---|
| the request, its write deadline (`server.go` 46) | `Accept` |
| `List` fails or finds no repository (WM 487-501) | `NothingToFetch` |
| context, wait group, one goroutine per workspace and the one that closes `done` (WM 493-524) | `BeginFetch` |
| each goroutine: skip when the context is done, else `git fetch` and `wg.Done` (WM 508-518) | `Skip`, `StartGit`, `GitExits` |
| `wg.Wait`, `close(done)` | `CloseDone` |
| the `select` (WM 526-537) | `Select` |
| `main`: start, `Fatalf`, signal, `Shutdown` with its 10 seconds | `Listen`, `StartFails`, `Signal`, `StartReturns`, `ShutdownReturns` |
| – | `Crash`, `Restart`, `ClientLeaves`, `Tick` |

`wg[r]` is the counter, `fetch[r][w]` the goroutine of workspace w, `waiter[r]` the one that
waits for them.  When both channels are ready the `select` takes either.  The context of the
fetch does not stop a git that runs (`exec.Command`, not `CommandContext`), and goroutines
outlive their handler.  A handler's return flushes the answer, which is `lost` when the
write deadline has passed or the client has left.  Which workspaces `List` finds is a free
choice, and whether a git succeeds is left out because the code does not look.  Times are
counted down in ticks of 10 seconds; a tick waits for nobody, so every goroutine may be as
late as it likes.

### TerminalSession, WsProxy and TerminalPage

`TerminalSession` is one connection as the page may count on it: the envoy opens it, drops
it, and sends a close frame only in reply to the page's own.  `WsProxy` implements it;
`TerminalPage` uses nothing else of the proxy.

| Code (WS) | Actions of `WsProxy` |
|---|---|
| upgrade, read deadline, pong handler | `Upgrade`, `ReadPong` |
| dial with its handshake timeout | `DialSucceeds`, `DialFails` |
| the goroutine that pings | `WritePing`, `PingFails`, `ContextDone` |
| client to target | `UpReads`, `UpReadFails`, `UpWrites`, `ReadClose` |
| target to client | `DownReads`, `DownReadFails`, `DownWrites` |
| the channel of two errors; the handler's one receive and its deferred closes | `Report`, `FirstError` |
| a peer, the clock | `AnswerPing`, `CloseFrame`, `PeerChanges`, `Tick` |

A pump that forwards is in one of two places: its read, or its write, and while it is in the write
it reads nothing: so the pump from the client serves pongs and close frames only between its
writes to ttyd.  `client` and `target` are what the peers do: a `stuck` browser and a `hung` ttyd
take nothing and say nothing, for a while or for good.  `UpWrites` and `DownWrites` may succeed at
any time, because the kernel buffers; only that they end is subject to the peer.  A write after
the connections were closed fails.  A tick is 10 seconds and waits for what takes less: ready
goroutines, and the 5 seconds after which a ping's write fails.  `trouble` is a history variable:
since the last pong read, a peer has let a tick pass, so that the client's deadline may pass for a
reason.  What is forwarded is data.

| Code (UI) | Actions of `TerminalPage` |
|---|---|
| `openTerminalWithPath`, with the old terminal's `dispose` and `connect` | `OpenTerminal` |
| `hideTerminalModal` | `HideTerminalModal` |
| `onopen`; `onclose` with `scheduleReconnect` | `OnOpen`; `OnClose`, from `Refused`, `Closed`, `CloseUnanswered`, `NetworkFails` |
| the callback of `setTimeout` | `TimerFires` |
| the envoy's side of a socket | `Upgrade`, `SendClose`, `ReplyClose`, `Drop`: steps of `TerminalSession` |
| – | `ServingChanges`, `Collect` |

An action is one task of the page's event loop.  `tc[c]` holds the fields of a
`TerminalConnection`; `timers` is the number of reconnections scheduled, which `dispose` does not
clear; a socket keeps the callbacks of its connection whatever becomes of it.  The growing delay
is not timed: a timer fires some time after it was set.  `gaveUp`, `refused` and `late` are
history variables: it has written that it gives up; how many attempts in a row no `onopen` came
of; the status shown was set by a connection that is not the current one. `MaxConns` and
`MaxSockets` bound the objects that exist at once; `Collect` is the garbage collector and makes
them reusable.

## 3. The runs

| Run | Instance | What it shows |
|---|---|---|
| `sleeve_manager` | 2 goroutines, pool of 1 name and 1 time-stamp name, 3 ports, 2 containers, fairness; 140k states | of the names no two Kills contested: no name leaks (`NoNameLeak`); a name has one owner and is reserved as long as it has one (`NamesOwned`); a Kill stops the container its sleeve was registered with (`KillHitsItsSleeve`); no container runs unlisted and no entry is without container (`ListMatchesDaemon`); two listed ports coincide only at 7681 (`PortsDistinct`); `SleeveManager` implements `NameLifecycle` (`NamesFollowLifecycle`); reservations get resolved (`ReservationResolved`), running containers get listed (`RunningIsListed`), dead entries go (`DeadEntryGoes`), through any number of crashes |
| `sleeve_shared_workspace` | violation | two Spawns of one workspace both succeed |
| `clone_jobs` | 2 clones, 1 Create, 1 poll, 2 paths one inside the other, restarts, fairness; 432k states | of paths that are no `rivals`: a completed clone stays (`CompletedCloneStays`), a clean-up removes its own and nothing inside it (`CleanUpHitsItsOwn`); `CloneJobs` implements `JobService` (`JobsAsPromised`); a job ends once git has exited and is forgotten (`JobEnds`) |
| `clone_page` | 2 submissions, 2 polls under way, fairness; 209k states | no interval fires that the page cannot clear, unless submissions overlapped (`NoIntervalLeaks`); what the page says of a clone is so (`TellsTheTruth`); a clone that ended does not stay on show if it can still be looked up (`PollingSettles`) |
| `clone_removes_other` | violation | of two clones into one path, the refused one removes what the other completed |
| `clone_torn_answer` | violation | a poll answers `failed` without the error |
| `envoy_in_use` | 2 goroutines, 1 name, 2 containers, 1 workspace, 1 Create, 1 branch operation; 235k states | of the sleeves on the very path, the in-use check misses one whose Spawn was under way, a later one, and one that two Kills took off the list (`InUseBlindSpots`); each of the three occurs |
| `envoy_workspaces` | 1 goroutine, 1 name, 1 container, 2 clones, 2 workspaces one inside the other; 2.5M states | a running sleeve keeps its workspace, unless it was spawned while a clone over it was under way (`MountedStays`) |
| `git_under_sleeve` | violation | git changes a tree that a running sleeve has mounted |
| `ws_proxy` | one session after another; 60, 30 and 10 seconds as 6, 3 and 1 ticks, a pong within 1; fairness; 34k states | a client that answers and takes what it is sent is not cut off by the read deadline, however slow the dial (`WellClientStays`); a lost client ends the session unless ttyd blocks the pump (`LostClientEnds`), and so does ttyd's end (`TargetCloseEnds`); no goroutine stays (`NothingIsLeft`); the page gets the session it counts on (`SessionAsPromised`) |
| `terminal_page` | 2 terminals, 3 sockets, 2 attempts, fairness; 89k states | a terminal waits for one socket or timer until it gives up (`OneThingAwaited`); a disposed one stays closed (`DisposedStaysClosed`); only refusals make it give up (`GivesUpOnRefusalsOnly`); the status is the current terminal's or a late callback's (`StatusOfCurrent`); without the envoy it gives up (`GivesUp`), with it a cut-off terminal comes back (`ComesBack`) |
| `serving` | 2 requests, 2 workspaces, 30, 30 and 10 seconds as 3, 3 and 1 ticks, fairness; 161k states | an answer that arrives is true (`DeliveredMeansFetched`); a handler ends in the end though a git fetch hangs (`HandlerReturns`); only a git that hangs is left behind (`NothingIsLeft`); the process ends after a signal (`EndsAfterSignal`) |

Bounds.  `MaxPorts` bounds the Spawns begun in the life of one process and `MaxCreates` the
containers ever created; both stand in the guard `SpawnBound`, and neither is in the code.  Kills,
failures, exits and crashes are not bounded.  Two goroutines suffice for every pairing of Spawn
and Kill, and two containers for a name to be spawned, killed, spawned again and found by a late
Kill; the proofs cover any number of each.  One pool name and one time-stamp name cover the
exhausted pool; the instances of `Envoy` make do with one name. One workspace is enough for the
manager because nothing it does depends on which it is.  `TTL` is 0 or 1 ticks where the code has
six: what matters is that a job survives a sweep before it expires, and in `envoy_workspaces`,
which asks nothing of jobs, not even that.  Two clones and a Create on a path and one inside it
are every pairing of requests for one path or for nested ones; paths of which neither is inside
the other do not affect each other, and `CloneJobsProofs` covers any number of clones and any
nesting.  Two submissions of `ClonePage` are the job on show and the one before or after it, two
polls the one that is late and the one that overtakes it.  The three instances of `Envoy` each
have what their question needs: a branch operation and two requests, so that two Kills can contest
a name; two nested workspaces and two clones; or one of everything.  The disk may hold empty or
cloned workspaces from before. Two requests and two workspaces of `Serving` give a skipped, a
finished and a hanging fetch beside each other, and handlers under way when the process is told to
end.  Two terminals of `TerminalPage` are the current one and one disposed of with callbacks to
come, three sockets the current one's old and new and the disposed one's; the code tries ten
times, the instance twice, which separates the first, a middle and the last attempt.  `OneMore`
stops counting refusals above `MaxAttempts`.  `WsProxy` has no bound but its clocks. Symmetry over
goroutines and jobs is used in `envoy_in_use` and `envoy_workspaces`, which check no liveness;
nested workspaces are not interchangeable.

Fairness.  `FairSpec` of `SleeveManager` assumes that a goroutine that can run does and that the
daemon answers (with success or failure), so weak fairness of each Spawn's and each Kill's steps,
and weak fairness of `RecoverSleeves`: the container restarts and in the end lists its containers.
It does not assume that requests, exits or crashes happen, or that they stop. `FairSpec` of
`CloneJobs` has strong fairness for what `runClone` does after git and for the clean-up (the
ticker and its sweep), because both wait for a lock that polls take too: Go's mutex hands itself
to a waiter that has starved for a millisecond.  Nothing is assumed of git, which the envoy gives
no deadline: a clone that hangs stays `cloning` for good, so liveness starts where git ends.

`FairSpec` of `ClonePage` assumes that intervals fire while there are any, that a poll nobody can
answer fails in the end, and that of requests and answers, which may all be lost or refused, not
all are: strong fairness of `Serve`, `ReadStatus` and `PollAnswered` for some poll.  No clone has to
end, and nobody has to touch the window.

`FairSpec` of `Serving` assumes that runnable goroutines run, the one in `Shutdown` among
them, and that time passes; nothing of git, and not that `Fatalf` is reached, which would end
the process without the drain.  `FairSpec` of `WsProxy` assumes the same of its goroutines,
and of a peer only that one that is well takes what it is sent and answers pings.  Where a goroutine is
ready only from time to time, since a peer comes and goes, the fairness is strong: Go's poller
wakes every reader and writer whose socket has become ready, and what has arrived is read
however much else has.  `FairSpec` of `TerminalPage` assumes that timers fire, callbacks run
and requests are answered, and, from `WsProxy`, that a session whose page is gone ends.
Nobody has to open or close a terminal, and `serving` may change or stay for good.

Deadlock is checked in every run.

## 4. What the code does otherwise than its documents say

Each of these is the violation of a run above; `PROJECT.json` quotes the documents.

* **Two sleeves on one workspace** (SM 93): Spawn does not look for another sleeve that
  mounts the workspace; VISION.md:107 says one sleeve per stack.
* **A failed clone removes another's repository** (WM 168): `RemoveAll` goes by path, not by
  what this clone made, and takes along what was cloned inside the path meanwhile: `Clone` accepts
  names with a slash, which docs/workspace_manager.md:157-160 rules out.
* **A torn answer** (HD 214): a poll encodes the job while `runClone` writes it.
* **git under a sleeve** (WM 383): a Spawn that has started its container and not listed
  it yet, or that comes after the check, mounts the tree git then changes.

Seen in the code while modelling, with no run of their own:

* `MaxSleeves` is loaded (config.go:117) and read by nothing; two Creates of one name can both
  answer 201 (WM 95); two overlapping Kills leave a name `contested`.
* Two overlapping Kills can take a running sleeve off the list (SM 229); a branch operation then
  changes its tree however long ago it was spawned (`InUseBlindSpots` has it as a third case).
* `RemoveAll` can remove the directory of a clone under way, or one inside it, from under a sleeve
  (`MountedStays` excludes it with `early`).
* A failed start whose removal fails too leaves a container that is not listed before the next
  restart, and whose name every later Spawn fails on (SM 181).
* `IsWorkspaceInUse` compares strings, so a sleeve inside the repository does not count; it counts
  a stopped sleeve, its comment says a running one (WM 317-321); a failed `git status` is a clean
  tree (WM 285).
* The answer that some workspaces timed out is never delivered: the write deadline, set when the
  request was read, has passed when the fetch's own 30 seconds are over (`DeliveredMeansFetched`
  proves it).  Whether a `git fetch` succeeded is not looked at (WM 516).
* `Shutdown` makes `Start` return `ErrServerClosed`, which `main` takes for a failure:
  `log.Fatalf` ends the process while `Shutdown` waits for the handlers.
* The upgrade comes before the dial, so a page whose ttyd is down sees its attempts succeed,
  resets its count and reconnects for ever (`GivesUpOnRefusalsOnly`).  The clean close for which
  the page has its "[Connection closed]" never comes unasked (`SessionAsPromised`).
* The close event of a disposed terminal can come after the next has connected and show it as
  disconnected (`StatusOfCurrent` excludes it with `late`); `dispose` leaves reconnection timers
  running, which do no harm (`DisposedStaysClosed`).
* A clone window that is hidden and submitted again while its POST is under way leaks the first
  interval, which fires for good (`NoIntervalLeaks` excludes it with `overlapped`, UI 1284).
* A poll that was under way when the window changed jobs is answered about the earlier one and
  acts on the later: its late `failed` stops the polling of the clone on show, its late
  `completed` closes the window (UI 1286; `TellsTheTruth` excludes it as `crossed`).
* After a restart of the envoy, or when the job was forgotten, polls find no job, the answer is no
  JSON and is only logged: the window says "Cloning" and asks until it is closed (UI 1301;
  `PollingSettles` excludes it with `known`).

## 5. What is proved

Every invariant that a passing run checks, and the three refinements, are proved for all values of
the constants.  The assumptions are `NamesAssumption` (the pool is a sequence, the values of unset
locals are no names), `NoJobAssumption` (`null` is no job), `PortAssumption` (bounds and base port
are natural numbers), `CloneAssumption`, `HeadAssumption` and `JobAssumption` (the same kind of
facts for jobs and trees), `PathAssumption` and `UnderAssumption` (no path is inside itself, and
what is inside a path inside d is inside d), `DeadlineAssumption` (the write deadline is no longer
than the fetch's time, as 30 and 30 seconds are), `WorkspacesAssumption` (a root has finitely many
workspaces), `TimingAssumption` (dial, ping interval and round trip add up to less than the pong
wait, as 10, 30 and a reasonable round trip do to 60 seconds) and `PageAssumption` (bounds are
numbers).  TLC evaluates each of them in a run.

**`SleeveManagerProofs`**: `TypeCorrect`, `NamesHaveOneOwner`, `NamesDoNotLeak`.  Type correctness
is not inductive by itself: a goroutine past its reservation must have a name and a workspace that
are set, so that registering it yields a well-typed entry; this is `LocalsSet`, and `TypeInv`
joins the two.  `OneOwner` and `OwnedNamesReserved` need each other: a Spawn gets a name that is
not in `usedNames`, so it is the sole owner only if every owner's name is in it; and releasing a
name keeps the others reserved only if nobody else owns it.  `DownIsQuiet` (no goroutine and no
map while the process is down) carries both over a restart, and the three with `TypeInv` are the
inductive invariant `NameInv`.  The proof has one lemma per kind of step (reserve, release,
publish, look up, delete, and the steps that touch neither maps nor owners).  `NoNameLeak` is
inductive with `TypeInv` and `DownIsQuiet` and holds of contested names as well.

**`SleeveDockerProofs`**: `KillsHitTheirSleeve`, `ListAndDaemonAgree`, `EntriesAreKept`,
`PortsAreDistinct`, `ImplementsLifecycle`.  The calls of Spawn and Kill to the
daemon leave the lock, and Kill goes by name; that they hit the right container follows from
ownership.  `DockerInv` says that ids are unique and the container of a call's id bears the
call's name, that a Spawn still has the container it created, that a container of a listed name is
the listed one, and that a Kill gets to the entry only when the container is gone.  Each is
kept because only the owner of a name, by `NameInv`, can create or remove its container.
Ports need `PortInv`: numbers in hand are below `nextPort`, and equal to a listed one only where
that is the port of recovery.

`ImplementsLifecycle` says that `Spec` implements `NameLifecycle` under `Phase`.  A step that
moves a name is its owner's, and `OneOwner` says that the phase it leaves is the one the abstract
step starts from.  `DownIsEmpty` makes recovery the abstract restart.

**`CloneJobsProofs`**: `TypeCorrect`, `RunningClonesAreKnown`, `CompletedClonesStay`,
`CleanUpsHitTheirOwn`, `ImplementsJobService`.  `StatusInv` ties the status in the map to where
the goroutine is, and a failing one to the lock, so that the sweep, which takes the lock, forgets
no running clone.  `PathInv` says of every path that is no rivals' that at most one request is
making it and none at the same time one inside or around it, that what is there is what that
request put there and nothing is inside it, and that a completed clone's repository is there and
no clone around it is under way: such a clone's check would have found its own path, because the
disk is a tree (`Rooted`, part of `TypeInv`).  `Touched` bounds what a request does to the disk;
`Elsewhere` uses it for all other paths.  The refinement of `JobService` adds `ServiceInv`: a job
in the map, or one that a poll holds, was registered in the life of this process, and a goroutine
that is done left an outcome.  `StatusOfJob` gives the abstract status of each program counter;
then the only steps that change it are `Register`, `Complete`, `SetFailed` and `Restart`, and a
torn read, possible only while the lock is held for writing the status, finds the job `cloning`.

**`ClonePageProofs`**: `TypeCorrect`, `IntervalsDoNotLeak`, `PageTellsTheTruth`, from the promise
of `JobService` alone (`EnvoySteps`: the page does to the envoy what a client may).  Types need
that a job that is known, or that a poll has asked about, has a status the page can be told.
Intervals need `IntervalInv`: without overlapping submissions the button is disabled while a clone
is on show, and none is on show while a submission is under way, so an answered one finds no
interval to overwrite.  The truth needs `AnswerInv`: an outcome a poll was told is still its
job's, because outcomes do not change but for a restart, which ends all polls; and that job is the
one the fetch was about.

**`EnvoyProofs`**: `EnvoyImplementsManager` and `EnvoyImplementsClones`: every step of the process
is a step of the manager and of the clone jobs, or leaves them alone, so all that is proved of the
two holds of the composition.  `InUseCheckBlindSpots` rests on `RunningIsTracked` (half of
`ListMatchesDaemon`): when the check passes, a running sleeve of the workspace is not listed, so
its name is contested or its Spawn has yet to list it; `MissedInv` keeps this up to the moment git
runs.  `MountedWorkspacesStay` rests on `KeptInv`: a workspace in use, and not spawned into early,
is on the disk and no clone works at it or around it (`Unclaimed`); only such a clone removes it,
and none begins, because a clone's check would find its path on a disk that is a tree.
`EnvoyTypeCorrect` joins the types.

**`ServingProofs`**: `TypeCorrect` needs `CountInv`, that a wait group's counter is the
number of goroutines that run, so it is never below zero.  `DeliveredAnswersAreTrue` needs
`TruthInv`: while a handler waits, what is left of the write deadline is at most what is left
of the fetch's, and a workspace is skipped only when that is nothing.

**`WsProxyProofs`**: `TypeCorrect`; `WellClientsStay` from `DeadlineInv`, that without
trouble more is left of the deadline than the next pong can take (the rest of the
interval and a round trip); `ImplementsSession`, that the proxy implements `TerminalSession`.

**`TerminalPageProofs`**: `TypeCorrect`, `OneThingIsAwaited`, `DisposedTerminalsStayClosed`,
`OnlyRefusalsMakeItGiveUp`, `StatusIsOfCurrent`, from one invariant `PageInv`: a live socket is the
current terminal's, a closing one is not; the current terminal has exactly one of a live socket, a
timer and having given up; its attempts exceed its refusals by at most one.  That no live
socket is closed cleanly, without which a terminal could be left waiting for nothing, is
the promise of `TerminalSession`.

Only model-checked: all liveness, which is out of the prover's reach together with ENABLED.

## 6. What is not modelled

* Listings for the page (`ListContainers`, `ListNetworks`, `formatPort`), `getGitInfo` and the
  other read-only git queries, host-path translation, request decoding and status codes,
  static files: pure input and output.
* `FetchRemote`, which updates remote-tracking refs that nothing here has.
* The configuration: the environment is read once at start.
* Installation and start-up scripts: sequential shell.
* The page's create-then-spawn form and its periodic refreshes (section 7).
* Docker's and git's own concurrency: a call to either has one effect, or none.

## 7. Plan

In order, most important first; 1 to 9 are done.

1. `SleeveManager`, `MCSleeveManager`: the manager and the daemon.
2. `NameLifecycle`: the abstract specification.
3. `SleeveManagerProofs`: types, owners, no leak.
4. `CloneJobs`: creation and clones.
5. `BranchOps`, `Envoy`, `MCEnvoy`: branch operations, and the composition.
6. `Serving`: the fetch of all remotes, and the life of the process.
7. `TerminalSession`, `WsProxy`, `TerminalPage`: terminals from ttyd to the page.
8. The proofs of all safety properties and refinements.
9. `JobService`, which `CloneJobs` implements, and `ClonePage`, the page's polling against it,
   with their proofs.
10. The page's create-then-spawn form and its refreshes against the list of sleeves.
