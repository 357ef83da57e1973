---------------------------- MODULE TerminalPage ----------------------------
(***************************************************************************)
(* The terminals of the web page (class TerminalConnection and its callers *)
(* in internal/envoy/web/templates/index.html), against what the envoy     *)
(* promises of a session.  A connection of the page opens a WebSocket,     *)
(* opens another with a growing delay when that is not closed cleanly, and *)
(* gives up after so many attempts; opening another terminal, or closing   *)
(* the window, disposes of it.                                             *)
(*                                                                         *)
(* An action is one task of the page's event loop, or a step of the envoy. *)
(* Delays are not timed: a timer fires at some time after it was set.      *)
(***************************************************************************)
EXTENDS Naturals, FiniteSets

CONSTANTS
  MaxConns,      \* bound: TerminalConnection objects something refers to
  MaxSockets,    \* bound: WebSocket objects something refers to
  MaxAttempts    \* maxReconnectAttempts

ASSUME PageAssumption == {MaxConns, MaxSockets, MaxAttempts} \subseteq Nat

VARIABLES
  current,    \* currentConnection
  tc,         \* tc[c]: the fields of connection c
  ready,      \* ready[s]: the readyState of socket s
  owner,      \* owner[s]: the connection whose callbacks s has
  conn,       \* conn[s]: the envoy's side of it
  serving,    \* the envoy is up, and lists the sleeve
  shown,      \* the status on the page
  late        \* history: set by the callback of a connection not current

vars == <<current, tc, ready, owner, conn, serving, shown, late>>

Conns == 1 .. MaxConns
Sockets == 1 .. MaxSockets
NoConnection == 0
NoSocket == 0

\* Its steps, taken by one element of conn at a time.
Session == INSTANCE TerminalSession

\* timers: reconnections scheduled; gaveUp: it has written that it will not
\* try again; refused is a history variable: the attempts in a row that no
\* onopen came of.
Fields == [shouldReconnect : BOOLEAN, attempts : 0 .. MaxAttempts, ws : Sockets \cup {NoSocket},
           timers : 0 .. 1, gaveUp : BOOLEAN, refused : 0 .. MaxAttempts + 1]
NewFields(s) == [shouldReconnect |-> TRUE, attempts |-> 0, ws |-> s,
                 timers |-> 0, gaveUp |-> FALSE, refused |-> 0]
Disposed == [NewFields(NoSocket) EXCEPT !.shouldReconnect = FALSE]

TypeOK ==
  /\ current \in Conns \cup {NoConnection}
  /\ tc \in [Conns -> Fields]
  /\ ready \in [Sockets -> {"unused", "connecting", "open", "closing", "closed"}]
  /\ owner \in [Sockets -> Conns \cup {NoConnection}]
  /\ conn \in [Sockets -> Session!Conn]
  /\ serving \in BOOLEAN
  /\ shown \in {"none", "connecting", "connected", "disconnected"}
  /\ late \in BOOLEAN

Init ==
  /\ current = NoConnection
  /\ tc = [c \in Conns |-> Disposed]
  /\ ready = [s \in Sockets |-> "unused"]
  /\ owner = [s \in Sockets |-> NoConnection]
  /\ conn = [s \in Sockets |-> Session!NoConn]
  /\ serving \in BOOLEAN
  /\ shown = "none" /\ late = FALSE

Trying(c) == tc[c].shouldReconnect /\ ~ tc[c].gaveUp
SocketsOf(c) == {s \in Sockets : owner[s] = c}
Live(s) == ready[s] \in {"connecting", "open"}

----------------------------------------------------------------------------
(***************************************************************************)
(* Tasks of the page.                                                      *)
(***************************************************************************)
UpdateStatus(c, status) == shown' = status /\ late' = (c # current)

\* Objects are numbered from the lowest that is free.
IsNew(s) == ready[s] = "unused" /\ \A lower \in 1 .. s - 1 : ready[lower] # "unused"

\* Mutant: connecting is not shown.
ConnectSilently(c, s, readyBefore) ==
  /\ IsNew(s)
  /\ ready' = [readyBefore EXCEPT ![s] = "connecting"]
  /\ owner' = [owner EXCEPT ![s] = c]
  /\ UNCHANGED <<shown, late>>

\* connect: a socket of c, which keeps its callbacks whatever becomes of c.
Connect(c, s, readyBefore) ==
  /\ IsNew(s)
  /\ ready' = [readyBefore EXCEPT ![s] = "connecting"]
  /\ owner' = [owner EXCEPT ![s] = c]
  /\ shown' = "connecting" /\ late' = FALSE

\* dispose: the socket closes, its callbacks and the timer stay, and find
\* shouldReconnect false; they read no other field.
DisposeOf(c) == [tc EXCEPT ![c] = [Disposed EXCEPT !.timers = tc[c].timers]]
CloseSocketOf(c) ==
  [s \in Sockets |-> IF tc[c].ws = s /\ Live(s) THEN "closing" ELSE ready[s]]

\* openTerminalWithPath.  A connection nothing refers to is collected.
Forgotten(c) == c # current /\ SocketsOf(c) = {} /\ tc[c].timers = 0

OpenTerminal(c, s) ==
  /\ Forgotten(c) /\ \A lower \in 1 .. c - 1 : ~ Forgotten(lower)
  /\ current' = c
  /\ IF current = NoConnection
       THEN Connect(c, s, ready) /\ tc' = [tc EXCEPT ![c] = NewFields(s)]
       ELSE /\ Connect(c, s, CloseSocketOf(current))
            /\ tc' = [DisposeOf(current) EXCEPT ![c] = NewFields(s)]
  /\ UNCHANGED <<conn, serving>>

HideTerminalModal ==
  /\ current # NoConnection
  /\ tc' = DisposeOf(current)
  /\ ready' = CloseSocketOf(current)
  /\ current' = NoConnection
  /\ UNCHANGED <<owner, conn, serving, shown, late>>

\* Mutant: the attempts of before count on.
OnOpenKeepingCount(s) ==
  /\ ready[s] = "connecting" /\ conn[s].state # "none"
  /\ ready' = [ready EXCEPT ![s] = "open"]
  /\ tc' = [tc EXCEPT ![owner[s]].refused = 0]
  /\ UpdateStatus(owner[s], "connected")
  /\ UNCHANGED <<current, owner, conn, serving>>

\* Mutant: the status is left as it is.
OnOpenSilently(s) ==
  /\ ready[s] = "connecting" /\ conn[s].state # "none"
  /\ ready' = [ready EXCEPT ![s] = "open"]
  /\ tc' = [tc EXCEPT ![owner[s]].attempts = 0, ![owner[s]].refused = 0]
  /\ UNCHANGED <<current, owner, conn, serving, shown, late>>

\* onopen: the envoy has answered the upgrade; a close that follows comes later.
OnOpen(s) ==
  /\ ready[s] = "connecting" /\ conn[s].state # "none"
  /\ ready' = [ready EXCEPT ![s] = "open"]
  /\ tc' = [tc EXCEPT ![owner[s]].attempts = 0, ![owner[s]].refused = 0]
  /\ UpdateStatus(owner[s], "connected")
  /\ UNCHANGED <<current, owner, conn, serving>>

\* Mutant: attempts are not counted.
ScheduleForEver(f) == [f EXCEPT !.timers = @ + 1]

\* scheduleReconnect.
ScheduleReconnect(f) ==
  IF f.attempts >= MaxAttempts
    THEN [f EXCEPT !.gaveUp = TRUE]
    ELSE [f EXCEPT !.attempts = @ + 1, !.timers = @ + 1]

\* bound: a history of more than MaxAttempts refusals is not told apart.
OneMore(n) == IF n > MaxAttempts THEN n ELSE n + 1

\* Mutant: onerror schedules a reconnection too.
OnCloseAfterError(s, wasClean) ==
  LET c == owner[s]
      f == [tc[c] EXCEPT !.refused = IF ready[s] = "connecting" THEN OneMore(@) ELSE @] IN
  /\ ready' = [ready EXCEPT ![s] = "closed"]
  /\ tc' = [tc EXCEPT ![c] =
       IF f.shouldReconnect /\ ~ wasClean
         THEN ScheduleReconnect(ScheduleReconnect(f)) ELSE f]
  /\ UpdateStatus(c, "disconnected")
  /\ UNCHANGED <<current, owner, conn, serving>>

\* Mutant: the test of wasClean is the wrong way round.
OnCloseIfClean(s, wasClean) ==
  LET c == owner[s]
      f == [tc[c] EXCEPT !.refused = IF ready[s] = "connecting" THEN OneMore(@) ELSE @] IN
  /\ ready' = [ready EXCEPT ![s] = "closed"]
  /\ tc' = [tc EXCEPT ![c] =
       IF f.shouldReconnect /\ wasClean THEN ScheduleReconnect(f) ELSE f]
  /\ UpdateStatus(c, "disconnected")
  /\ UNCHANGED <<current, owner, conn, serving>>

\* onclose, after onerror if it was not clean.  Nothing is scheduled after a
\* clean close.
OnClose(s, wasClean) ==
  LET c == owner[s]
      f == [tc[c] EXCEPT !.refused = IF ready[s] = "connecting" THEN OneMore(@) ELSE @] IN
  /\ ready' = [ready EXCEPT ![s] = "closed"]
  /\ tc' = [tc EXCEPT ![c] =
       IF f.shouldReconnect /\ ~ wasClean THEN ScheduleReconnect(f) ELSE f]
  /\ UpdateStatus(c, "disconnected")
  /\ UNCHANGED <<current, owner, conn, serving>>

\* Mutant: the timer does not ask whether it is still wanted.
TimerReconnects(c, s) ==
  /\ tc[c].timers > 0
  /\ Connect(c, s, ready) /\ tc' = [tc EXCEPT ![c].timers = @ - 1, ![c].ws = s]
  /\ UNCHANGED <<current, conn, serving>>

\* The callback of setTimeout, which dispose does not clear.
TimerFires(c, s) ==
  /\ tc[c].timers > 0
  /\ \/ /\ tc[c].shouldReconnect
        /\ Connect(c, s, ready) /\ tc' = [tc EXCEPT ![c].timers = @ - 1, ![c].ws = s]
     \/ /\ ~ tc[c].shouldReconnect
        /\ tc' = [tc EXCEPT ![c].timers = @ - 1]
        /\ UNCHANGED <<ready, owner, shown, late>>
  /\ UNCHANGED <<current, conn, serving>>

----------------------------------------------------------------------------
(***************************************************************************)
(* The envoy, by its promise, and the network.                             *)
(***************************************************************************)
SessionStep(s, A(_, _)) ==
  /\ \E after \in Session!Conn :
       A(conn[s], after) /\ conn' = [conn EXCEPT ![s] = after]
  /\ UNCHANGED <<current, tc, ready, owner, serving, shown, late>>

\* The sleeve is listed: the request is upgraded; else it is refused.
Upgrade(s) ==
  /\ ready[s] \in {"connecting", "closing"} /\ serving
  /\ SessionStep(s, Session!Opens)

Refused(s) ==
  /\ ready[s] = "connecting" /\ conn[s].state = "none" /\ ~ serving
  /\ OnClose(s, FALSE)

Answer(s) == Upgrade(s) \/ Refused(s)

\* A socket closed by the page: before it was open, or with a close frame.
CloseUnanswered(s) ==
  /\ ready[s] = "closing" /\ conn[s].state = "none"
  /\ OnClose(s, FALSE)

SendClose(s) == ready[s] = "closing" /\ SessionStep(s, Session!Asks)
ReplyClose(s) == SessionStep(s, Session!Replies)
Drop(s) == SessionStep(s, Session!Drops)

Closed(s) ==
  /\ ready[s] \in {"open", "closing"} /\ conn[s].state = "over"
  /\ OnClose(s, conn[s].replied)

NetworkFails(s) ==
  /\ ready[s] = "open" /\ conn[s].state = "open"
  /\ OnClose(s, FALSE)

ServingChanges ==
  /\ serving' = ~ serving
  /\ UNCHANGED <<current, tc, ready, owner, conn, shown, late>>

\* A socket nothing refers to, whose session is over.
Collect(s) ==
  /\ ready[s] = "closed" /\ conn[s].state # "open"
  /\ \A c \in Conns : tc[c].ws # s
  /\ ready' = [ready EXCEPT ![s] = "unused"]
  /\ owner' = [owner EXCEPT ![s] = NoConnection]
  /\ conn' = [conn EXCEPT ![s] = Session!NoConn]
  /\ UNCHANGED <<current, tc, serving, shown, late>>

----------------------------------------------------------------------------
Callback(s) == OnOpen(s) \/ Closed(s) \/ CloseUnanswered(s)

Next ==
  \/ \E c \in Conns, s \in Sockets : OpenTerminal(c, s) \/ TimerFires(c, s)
  \/ HideTerminalModal
  \/ \E s \in Sockets :
       \/ Answer(s) \/ Callback(s) \/ NetworkFails(s) \/ Collect(s)
       \/ SendClose(s) \/ ReplyClose(s) \/ Drop(s)
  \/ ServingChanges

Spec == Init /\ [][Next]_vars

\* Timers fire, requests are answered, callbacks run; a session whose page is
\* gone ends (LostClientEnds of WsProxy).  Nobody has to open or close
\* anything, and no session that is well has to end.
FairSpec ==
  /\ Spec
  /\ \A c \in Conns : WF_vars(\E s \in Sockets : TimerFires(c, s))
  /\ \A s \in Sockets :
       /\ WF_vars(Answer(s)) /\ WF_vars(Callback(s)) /\ WF_vars(Collect(s))
       /\ WF_vars(ready[s] \in {"closing", "closed"} /\ Drop(s))

----------------------------------------------------------------------------
(***************************************************************************)
(* Properties.                                                             *)
(***************************************************************************)
\* An open terminal window always has one thing to wait for, a socket or a
\* timer, and never two, until it says that it has given up.  That no clean
\* close leaves it with nothing rests on the promise of the envoy.
OneThingAwaited ==
  \A c \in Conns :
    LET awaited == Cardinality({s \in SocketsOf(c) : Live(s)}) + tc[c].timers IN
    IF Trying(c) THEN awaited = 1 ELSE tc[c].gaveUp => awaited = 0

\* A disposed terminal does not come back: none of its timers and callbacks
\* opens a socket again, and its own is closed.
DisposedStaysClosed ==
  \A s \in Sockets : Live(s) => owner[s] = current

\* The page gives up only on an envoy that refuses it: after as many attempts
\* in a row that were not upgraded.  A ttyd that is down never makes it give up,
\* since the upgrade comes before the dial and resets the count.
GivesUpOnRefusalsOnly ==
  \A c \in Conns : tc[c].gaveUp => tc[c].refused >= MaxAttempts

\* The status of an open window: connected is never shown of a socket that is
\* not open, and of an open one it is missing only where the late callback of
\* a terminal disposed before has overwritten it.
StatusOfCurrent ==
  \A c \in Conns : c = current =>
    LET open == \E s \in Sockets : owner[s] = c /\ ready[s] = "open" IN
    /\ shown = "connected" => open
    /\ open /\ shown # "connected" => late

\* When the sleeve stays away, the page stops asking for it.
GivesUp ==
  \A c \in Conns :
    Trying(c) /\ ~ serving
      ~> serving \/ ~ Trying(c) \/ \E s \in SocketsOf(c) : ready[s] = "open"

\* While the sleeve can be reached, a terminal that was cut off comes back.
ComesBack ==
  \A c \in Conns :
    Trying(c) ~> ~ serving \/ ~ Trying(c) \/ \E s \in SocketsOf(c) : ready[s] = "open"

=============================================================================
