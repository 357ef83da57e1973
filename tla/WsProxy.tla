------------------------------ MODULE WsProxy ------------------------------
(***************************************************************************)
(* The terminal proxy (internal/envoy/ws_proxy.go): a handler upgrades     *)
(* the client's connection, dials the ttyd of the sleeve, and starts       *)
(* three goroutines: one pump per direction and one that pings the client. *)
(* It returns at the first error of a pump and closes both connections.    *)
(*                                                                         *)
(* Time passes in ticks of 10 seconds.  A tick waits for what is due in    *)
(* less: a ready goroutine runs, and a peer that is well takes what it is  *)
(* sent.                                                                   *)
(***************************************************************************)
EXTENDS Naturals

CONSTANTS
  PongWait,       \* how long the client may be silent: 60 s
  PingInterval,   \* 30 s
  DialTimeout,    \* HandshakeTimeout: 10 s
  RoundTrip       \* how long a client that is well takes to answer a ping

\* A ping sent one interval after the slowest dial is answered in time.
ASSUME TimingAssumption ==
  /\ {PongWait, PingInterval, DialTimeout, RoundTrip} \subseteq Nat
  /\ PingInterval > 0
  /\ DialTimeout + PingInterval + RoundTrip < PongWait

VARIABLES
  pc,         \* the handler
  up, down,   \* the pumps: client to target, target to client
  pinger,     \* the goroutine that pings
  errCh,      \* errors in the channel
  client,     \* the browser, "none" before it connects
  target,     \* ttyd
  elapsed,    \* since the dial began, until it has ended
  toPing,     \* until the next ping
  deadline,   \* until reads of the client fail
  ping,       \* the last ping: none, sent, or answered by a pong not read yet
  age,        \* since it was sent
  asked, replied,  \* a close frame came from the client; was answered
  trouble     \* history: since the last pong read, a peer has let a tick pass

goroutines == <<pc, up, down, pinger, errCh>>
peers == <<client, target>>
timers == <<elapsed, toPing, deadline, ping, age>>
closing == <<asked, replied>>
vars == <<goroutines, peers, timers, closing, trouble>>

Pump == {"off", "reading", "writing", "failed", "ended"}

\* stuck: reads nothing, for a while or for good, without a word.
Client == {"none", "well", "stuck", "reset"}
Target == {"well", "hung", "closed"}

TypeOK ==
  /\ pc \in {"idle", "dialing", "waiting", "done"}
  /\ up \in Pump /\ down \in Pump
  /\ pinger \in {"off", "ticking", "ended"}
  /\ errCh \in 0 .. 2
  /\ client \in Client /\ target \in Target
  /\ elapsed \in 0 .. DialTimeout
  /\ toPing \in 0 .. PingInterval
  /\ deadline \in 0 .. PongWait
  /\ ping \in {"none", "sent", "answered"} /\ age \in 0 .. RoundTrip
  /\ asked \in BOOLEAN /\ replied \in BOOLEAN /\ trouble \in BOOLEAN

Init ==
  /\ pc = "idle" /\ up = "off" /\ down = "off" /\ pinger = "off" /\ errCh = 0
  /\ client = "none" /\ target \in Target
  /\ elapsed = 0 /\ toPing = 0 /\ deadline = 0 /\ ping = "none" /\ age = 0
  /\ asked = FALSE /\ replied = FALSE /\ trouble = FALSE

\* The connections are closed by the handler alone, when it returns.
Open == pc \in {"dialing", "waiting"}
ClientReads == client = "well"
TargetReads == target = "well"

----------------------------------------------------------------------------
(***************************************************************************)
(* The handler.                                                            *)
(***************************************************************************)
Upgrade ==
  /\ pc = "idle"
  /\ pc' = "dialing"
  /\ client' = "well"
  /\ deadline' = PongWait
  /\ UNCHANGED <<up, down, pinger, errCh, target, elapsed, toPing, ping, age, closing, trouble>>

\* Mutant: the ticker runs at the client's deadline.
DialThenPingLate ==
  /\ pc = "dialing"
  /\ TargetReads
  /\ pc' = "waiting"
  /\ up' = "reading" /\ down' = "reading" /\ pinger' = "ticking"
  /\ toPing' = PongWait /\ elapsed' = 0
  /\ UNCHANGED <<errCh, peers, deadline, ping, age, closing, trouble>>

DialSucceeds ==
  /\ pc = "dialing"
  /\ TargetReads
  /\ pc' = "waiting"
  /\ up' = "reading" /\ down' = "reading" /\ pinger' = "ticking"
  /\ toPing' = PingInterval /\ elapsed' = 0
  /\ UNCHANGED <<errCh, peers, deadline, ping, age, closing, trouble>>

\* The deferred calls: the context is cancelled, both connections are closed.
Return ==
  /\ pc' = "done"
  /\ elapsed' = 0 /\ toPing' = 0 /\ deadline' = 0 /\ ping' = "none" /\ age' = 0
  /\ trouble' = FALSE

\* ttyd refuses, or the handshake takes too long.
DialFails ==
  /\ pc = "dialing"
  /\ target = "closed" \/ elapsed = DialTimeout
  /\ Return
  /\ UNCHANGED <<up, down, pinger, errCh, peers, closing>>

\* Mutant: the end of the terminal is passed on as a close frame.
FirstErrorWithClose ==
  /\ pc = "waiting"
  /\ errCh > 0
  /\ errCh' = errCh - 1
  /\ Return
  /\ replied' = TRUE
  /\ UNCHANGED <<up, down, pinger, peers, asked>>

FirstError ==
  /\ pc = "waiting"
  /\ errCh > 0
  /\ errCh' = errCh - 1
  /\ Return
  /\ UNCHANGED <<up, down, pinger, peers, closing>>

(***************************************************************************)
(* The pings.  A write to the client that has blocked for pingTimeout      *)
(* fails; then there are no more pings, and nobody else is told.           *)
(***************************************************************************)
WritePing ==
  /\ pinger = "ticking" /\ pc = "waiting"
  /\ toPing = 0
  /\ down # "writing"
  /\ toPing' = PingInterval
  /\ IF ping = "none" THEN ping' = "sent" /\ age' = 0 ELSE UNCHANGED <<ping, age>>
  /\ UNCHANGED <<goroutines, peers, elapsed, deadline, closing, trouble>>

PingFails ==
  /\ pinger = "ticking" /\ pc = "waiting"
  /\ toPing = 0
  /\ ~ ClientReads
  /\ down = "writing" \/ client = "reset"
  /\ pinger' = "ended"
  /\ trouble' = TRUE
  /\ UNCHANGED <<pc, up, down, errCh, peers, timers, closing>>

ContextDone ==
  /\ pinger = "ticking" /\ pc = "done"
  /\ pinger' = "ended"
  /\ UNCHANGED <<pc, up, down, errCh, peers, timers, closing, trouble>>

(***************************************************************************)
(* The pump from the client.  Reading also serves control frames: a pong   *)
(* extends the deadline, a close frame is answered, unless the other pump  *)
(* has blocked in a write, and makes the read fail.                        *)
(***************************************************************************)
\* Mutant: a pong does not extend the deadline.
ReadPongOnly ==
  /\ up = "reading" /\ Open
  /\ ping = "answered" /\ deadline > 0
  /\ ping' = "none" /\ age' = 0
  /\ trouble' = (trouble /\ pinger # "ticking")
  /\ UNCHANGED <<goroutines, peers, elapsed, toPing, deadline, closing>>

ReadPong ==
  /\ up = "reading" /\ Open
  /\ ping = "answered" /\ deadline > 0
  /\ deadline' = PongWait
  /\ ping' = "none" /\ age' = 0
  /\ trouble' = (trouble /\ pinger # "ticking")
  /\ UNCHANGED <<goroutines, peers, elapsed, toPing, closing>>

ReadClose ==
  /\ up = "reading" /\ Open
  /\ asked
  /\ up' = "failed"
  /\ replied' = (down # "writing" \/ ClientReads)
  /\ UNCHANGED <<pc, down, pinger, errCh, peers, timers, asked, trouble>>

UpReads ==
  /\ up = "reading" /\ Open
  /\ ClientReads /\ ~ asked /\ deadline > 0
  /\ up' = "writing"
  /\ UNCHANGED <<pc, down, pinger, errCh, peers, timers, closing, trouble>>

\* Mutant: reads of the client have no deadline.
UpReadsForever ==
  /\ up = "reading"
  /\ ~ Open \/ client = "reset"
  /\ up' = "failed"
  /\ UNCHANGED <<pc, down, pinger, errCh, peers, timers, closing, trouble>>

UpReadFails ==
  /\ up = "reading"
  /\ ~ Open \/ client = "reset" \/ deadline = 0
  /\ up' = "failed"
  /\ UNCHANGED <<pc, down, pinger, errCh, peers, timers, closing, trouble>>

UpWrites ==
  /\ up = "writing"
  /\ up' = IF Open /\ target # "closed" THEN "reading" ELSE "failed"
  /\ UNCHANGED <<pc, down, pinger, errCh, peers, timers, closing, trouble>>

(***************************************************************************)
(* The pump to the client.                                                 *)
(***************************************************************************)
DownReads ==
  /\ down = "reading" /\ Open
  /\ TargetReads
  /\ down' = "writing"
  /\ UNCHANGED <<pc, up, pinger, errCh, peers, timers, closing, trouble>>

\* Mutant: the pump returns without a word when ttyd closes.
DownReadEnds ==
  /\ down = "reading"
  /\ ~ Open \/ target = "closed"
  /\ down' = "ended"
  /\ UNCHANGED <<pc, up, pinger, errCh, peers, timers, closing, trouble>>

DownReadFails ==
  /\ down = "reading"
  /\ ~ Open \/ target = "closed"
  /\ down' = "failed"
  /\ UNCHANGED <<pc, up, pinger, errCh, peers, timers, closing, trouble>>

DownWrites ==
  /\ down = "writing"
  /\ down' = IF Open /\ client # "reset" THEN "reading" ELSE "failed"
  /\ UNCHANGED <<pc, up, pinger, errCh, peers, timers, closing, trouble>>

\* Mutant: a channel without a buffer, which the handler reads once.
ReportUnbuffered ==
  /\ pc = "waiting" /\ errCh = 0
  /\ errCh' = 1
  /\ \/ up = "failed" /\ up' = "ended" /\ UNCHANGED down
     \/ down = "failed" /\ down' = "ended" /\ UNCHANGED up
  /\ UNCHANGED <<pc, pinger, peers, timers, closing, trouble>>

\* The channel has room for the errors of both.
Report ==
  /\ errCh < 2
  /\ errCh' = errCh + 1
  /\ \/ up = "failed" /\ up' = "ended" /\ UNCHANGED down
     \/ down = "failed" /\ down' = "ended" /\ UNCHANGED up
  /\ UNCHANGED <<pc, pinger, peers, timers, closing, trouble>>

\* The next connection, once nothing of the last one is left.
Quiet == up \in {"off", "ended"} /\ down \in {"off", "ended"} /\ pinger \in {"off", "ended"}

NextSession ==
  /\ pc = "done" /\ Quiet
  /\ pc' = "idle" /\ up' = "off" /\ down' = "off" /\ pinger' = "off" /\ errCh' = 0
  /\ client' = "none" /\ target' \in Target
  /\ asked' = FALSE /\ replied' = FALSE
  /\ UNCHANGED <<timers, trouble>>

----------------------------------------------------------------------------
(***************************************************************************)
(* The peers, and time.                                                    *)
(***************************************************************************)
AnswerPing ==
  /\ ping = "sent" /\ client = "well"
  /\ ping' = "answered"
  /\ UNCHANGED <<goroutines, peers, elapsed, toPing, deadline, age, closing, trouble>>

CloseFrame ==
  /\ Open /\ client = "well" /\ ~ asked
  /\ asked' = TRUE
  /\ UNCHANGED <<goroutines, peers, timers, replied, trouble>>

PeerChanges ==
  /\ Open
  /\ \/ /\ \/ client = "well" /\ client' = "stuck"
           \/ client = "stuck" /\ client' = "well"
           \/ client \in {"well", "stuck"} /\ client' = "reset"
        /\ UNCHANGED target
     \/ /\ \/ target = "well" /\ target' = "hung"
           \/ target = "hung" /\ target' = "well"
           \/ target # "closed" /\ target' = "closed"
        /\ UNCHANGED client
  /\ UNCHANGED <<goroutines, timers, closing, trouble>>

\* What does not take a tick.
PumpIsReady ==
  \/ up = "failed" \/ down = "failed" \/ errCh > 0
  \/ up = "reading" /\ (deadline = 0 \/ ping = "answered" \/ asked \/ client = "reset")
  \/ up = "writing" /\ target # "hung"
  \/ down = "reading" /\ target = "closed"
  \/ down = "writing" /\ client \in {"well", "reset"}

Due ==
  \/ pc = "dialing" /\ (elapsed = DialTimeout \/ target = "closed")
  \/ pinger = "ticking" /\ toPing = 0
  \/ ping = "sent" /\ client = "well" /\ age = RoundTrip
  \/ PumpIsReady

Less(n) == IF n = 0 THEN 0 ELSE n - 1

Tick ==
  /\ Open /\ ~ Due
  /\ elapsed' = IF pc = "dialing" THEN elapsed + 1 ELSE elapsed
  /\ toPing' = Less(toPing)
  /\ deadline' = Less(deadline)
  /\ age' = IF ping = "sent" /\ age < RoundTrip THEN age + 1 ELSE age
  /\ trouble' = (trouble \/ (pc = "waiting" /\ (client # "well" \/ up = "writing")))
  /\ UNCHANGED <<goroutines, peers, ping, closing>>

----------------------------------------------------------------------------
Handler == DialSucceeds \/ DialFails \/ FirstError
Pinger == WritePing \/ PingFails \/ ContextDone
UpPump == ReadPong \/ ReadClose \/ UpReads \/ UpReadFails \/ UpWrites
DownPump == DownReads \/ DownReadFails \/ DownWrites
Peers == AnswerPing \/ CloseFrame \/ PeerChanges

Next == Upgrade \/ Handler \/ Pinger \/ UpPump \/ DownPump \/ Report \/ NextSession \/ Peers \/ Tick

Spec == Init /\ [][Next]_vars

\* A write ends when the peer takes it, or the connection is closed.
UpUnblocked == (target # "hung" \/ ~ Open) /\ UpWrites
DownUnblocked == (client \in {"well", "reset"} \/ ~ Open) /\ DownWrites

\* Goroutines that can run do, and time passes; nothing is assumed of the
\* peers but that one that is well takes what it is sent and answers pings.
\* The strong fairness: what has arrived is read, however much else has; what
\* waits to be written is written in the moments in which a peer reads.
FairSpec ==
  /\ Spec
  /\ WF_vars(Handler) /\ SF_vars(Pinger) /\ WF_vars(Report)
  /\ WF_vars(ReadClose) /\ WF_vars(UpReadFails) /\ WF_vars(DownReadFails)
  /\ SF_vars(UpUnblocked) /\ SF_vars(DownUnblocked)
  /\ SF_vars(ReadPong) /\ SF_vars(AnswerPing) /\ SF_vars(Tick)

----------------------------------------------------------------------------
(***************************************************************************)
(* Properties.                                                             *)
(***************************************************************************)
\* A terminal is not cut off by the read deadline while its browser answers
\* pings and takes what it is sent, and ttyd takes what it is sent; however
\* slow the dial was, before which no ping is sent, and whatever was wrong
\* before the last pong.
WellClientStays == pc = "waiting" /\ deadline = 0 => trouble

\* A browser that closed, reset or went away without a word (stuck, and never
\* well again) does not hold the proxy: only a ttyd that takes nothing can,
\* while the pump waits for it.
Lost == client \in {"stuck", "reset"} \/ asked
LostClientEnds ==
  (pc = "waiting" /\ Lost)
    ~> (pc # "waiting" \/ ~ Lost \/ (up = "writing" /\ target = "hung"))

\* When ttyd closes, the browser's connection is closed, also when the pump
\* has blocked in a write to a browser that takes nothing.
TargetCloseEnds == (pc = "waiting" /\ target = "closed") ~> pc # "waiting"

\* No goroutine outlives the connections for good: the channel takes the
\* error of the pump that nobody waits for.
NothingIsLeft == pc = "done" ~> Quiet

\* What the page counts on: a close frame only in reply to its own.
Session == INSTANCE TerminalSession WITH
  conn <- [state |-> IF pc = "idle" THEN "none" ELSE IF Open THEN "open" ELSE "over",
           asked |-> asked, replied |-> replied]

SessionAsPromised == Session!SessionSpec

=============================================================================
