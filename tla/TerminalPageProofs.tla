------------------------ MODULE TerminalPageProofs ------------------------
(***************************************************************************)
(* Proofs about TerminalPage, for any number of terminals, sockets and     *)
(* attempts, and every order of its callbacks.                             *)
(***************************************************************************)
EXTENDS TerminalPage, FiniteSetTheorems, TLAPS

\* The actions, one by one.
LEMMA Actions ==
  ASSUME [Next]_vars
  PROVE  \/ \E c \in Conns, s \in Sockets : OpenTerminal(c, s) \/ TimerFires(c, s)
         \/ HideTerminalModal
         \/ \E s \in Sockets :
              \/ Upgrade(s) \/ SendClose(s) \/ ReplyClose(s) \/ Drop(s)
              \/ OnOpen(s) \/ Collect(s)
              \/ Refused(s) \/ CloseUnanswered(s) \/ Closed(s) \/ NetworkFails(s)
         \/ ServingChanges \/ UNCHANGED vars
  BY DEF Next, Answer, Callback

----------------------------------------------------------------------------
(***************************************************************************)
(* The fields of a connection.                                             *)
(***************************************************************************)
LEMMA FieldsTyped ==
  ASSUME NEW f \in Fields
  PROVE  /\ f.shouldReconnect \in BOOLEAN /\ f.gaveUp \in BOOLEAN
         /\ f.attempts \in 0 .. MaxAttempts /\ f.refused \in 0 .. MaxAttempts + 1
         /\ f.ws \in Sockets \cup {NoSocket} /\ f.timers \in 0 .. 1
  BY DEF Fields

LEMMA NewFieldsTyped ==
  ASSUME NEW s \in Sockets \cup {NoSocket}
  PROVE  /\ NewFields(s) \in Fields
         /\ NewFields(s).shouldReconnect /\ ~ NewFields(s).gaveUp
         /\ NewFields(s).ws = s /\ NewFields(s).timers = 0
         /\ NewFields(s).attempts = 0 /\ NewFields(s).refused = 0
  BY PageAssumption DEF NewFields, Fields

\* Fields of which one is changed.
LEMMA WithFlag ==
  ASSUME NEW f \in Fields, NEW b \in BOOLEAN
  PROVE  /\ [f EXCEPT !.shouldReconnect = b] \in Fields
         /\ [f EXCEPT !.shouldReconnect = b].shouldReconnect = b
         /\ [f EXCEPT !.shouldReconnect = b].gaveUp = f.gaveUp
         /\ [f EXCEPT !.shouldReconnect = b].ws = f.ws
         /\ [f EXCEPT !.gaveUp = b] \in Fields
         /\ [f EXCEPT !.gaveUp = b].gaveUp = b
         /\ [f EXCEPT !.gaveUp = b].shouldReconnect = f.shouldReconnect
         /\ [f EXCEPT !.gaveUp = b].ws = f.ws
         /\ [f EXCEPT !.gaveUp = b].timers = f.timers
         /\ [f EXCEPT !.gaveUp = b].attempts = f.attempts
         /\ [f EXCEPT !.gaveUp = b].refused = f.refused
  BY DEF Fields

\* What is left of a connection after dispose, and with its timers.
LEMMA DisposedFields ==
  /\ Disposed \in Fields /\ Disposed.shouldReconnect = FALSE
  /\ ~ Disposed.gaveUp /\ Disposed.ws = NoSocket
<1>1. NoSocket \in Sockets \cup {NoSocket}
  OBVIOUS
<1>2. Disposed \in Fields /\ Disposed.shouldReconnect = FALSE
  BY ONLY <1>1, NewFieldsTyped, WithFlag DEF Disposed
<1> QED BY <1>1, <1>2, NewFieldsTyped, WithFlag DEF Disposed

LEMMA DisposedTyped ==
  ASSUME NEW t \in 0 .. 1, NEW f, f = [Disposed EXCEPT !.timers = t]
  PROVE  /\ f \in Fields
         /\ ~ f.shouldReconnect /\ ~ f.gaveUp /\ f.ws = NoSocket /\ f.timers = t
  BY DisposedFields DEF Fields

\* scheduleReconnect sets one timer, or gives up.
LEMMA Scheduled ==
  ASSUME NEW f \in Fields, f.timers = 0, ~ f.gaveUp
  PROVE  /\ ScheduleReconnect(f) \in Fields
         /\ ScheduleReconnect(f).shouldReconnect = f.shouldReconnect
         /\ ScheduleReconnect(f).ws = f.ws
         /\ ScheduleReconnect(f).refused = f.refused
         /\ IF f.attempts >= MaxAttempts
              THEN /\ ScheduleReconnect(f).gaveUp /\ ScheduleReconnect(f).timers = 0
                   /\ ScheduleReconnect(f).attempts = f.attempts
              ELSE /\ ~ ScheduleReconnect(f).gaveUp /\ ScheduleReconnect(f).timers = 1
                   /\ ScheduleReconnect(f).attempts = f.attempts + 1
<1> DEFINE g == ScheduleReconnect(f)
<1>1. MaxAttempts \in Nat /\ f.attempts \in 0 .. MaxAttempts
  BY PageAssumption DEF Fields
<1>2. CASE f.attempts >= MaxAttempts
  <2> DEFINE h == [f EXCEPT !.gaveUp = TRUE]
  <2>1. h \in Fields /\ h.gaveUp = TRUE /\ h.shouldReconnect = f.shouldReconnect
        /\ h.ws = f.ws /\ h.timers = f.timers /\ h.attempts = f.attempts /\ h.refused = f.refused
    BY ONLY WithFlag, f \in Fields
  <2>2. g = h
    BY <1>2 DEF ScheduleReconnect
  <2> HIDE DEF g, h
  <2> QED BY <1>2, <2>1, <2>2 DEF g
<1>3. CASE ~ (f.attempts >= MaxAttempts)
  <2>1. g = [f EXCEPT !.attempts = f.attempts + 1, !.timers = 1]
    BY <1>3 DEF ScheduleReconnect, Fields
  <2>2. f.attempts + 1 \in 0 .. MaxAttempts
    BY <1>1, <1>3
  <2> DEFINE h == [f EXCEPT !.attempts = f.attempts + 1, !.timers = 1]
  <2>3. h.shouldReconnect = f.shouldReconnect /\ h.ws = f.ws /\ h.refused = f.refused
        /\ h.gaveUp = f.gaveUp /\ h.timers = 1 /\ h.attempts = f.attempts + 1
    BY ONLY f \in Fields DEF Fields
  <2>4. h \in Fields
    BY ONLY f \in Fields, <2>2, 1 \in 0 .. 1 DEF Fields
  <2> HIDE DEF g, h
  <2> QED BY <1>3, <2>1, <2>3, <2>4 DEF g, h
<1> QED BY <1>2, <1>3

LEMMA WithRefused ==
  ASSUME NEW f \in Fields, NEW n \in 0 .. MaxAttempts + 1
  PROVE  /\ [f EXCEPT !.refused = n] \in Fields
         /\ [f EXCEPT !.refused = n].refused = n
         /\ [f EXCEPT !.refused = n].shouldReconnect = f.shouldReconnect
         /\ [f EXCEPT !.refused = n].gaveUp = f.gaveUp
         /\ [f EXCEPT !.refused = n].ws = f.ws
         /\ [f EXCEPT !.refused = n].timers = f.timers
         /\ [f EXCEPT !.refused = n].attempts = f.attempts
         /\ n = f.refused => [f EXCEPT !.refused = n] = f
  BY DEF Fields

----------------------------------------------------------------------------
(***************************************************************************)
(* The invariant.                                                          *)
(***************************************************************************)
\* A live socket is the one of the current terminal; one that is closing is of
\* a terminal disposed of; no close is asked for, or answered, before that.
SocketOK(s) ==
  /\ ready[s] = "unused" => owner[s] = NoConnection
  /\ ready[s] # "unused" => owner[s] \in Conns
  /\ Live(s) => owner[s] = current /\ tc[current].ws = s
  /\ ready[s] = "closing" => owner[s] # current
  /\ ready[s] \in {"unused", "connecting", "open"} => ~ conn[s].asked /\ ~ conn[s].replied

\* The current terminal has a socket, or a timer, or has given up, and one of
\* them only.  Its attempts are no more than the refusals in a row and one,
\* for the socket that was open before them.
CurrentOK(f) ==
  /\ f.shouldReconnect /\ f.ws \in Sockets
  /\ Live(f.ws) => f.timers = 0 /\ ~ f.gaveUp
  /\ ~ Live(f.ws) => (f.gaveUp <=> f.timers = 0)
  /\ ready[f.ws] = "open" => f.attempts = 0
  /\ f.attempts <= f.refused + 1
  /\ f.gaveUp => f.refused >= MaxAttempts

DisposedOK(f) == ~ f.shouldReconnect /\ ~ f.gaveUp /\ f.ws = NoSocket

ShownOK ==
  current # NoConnection =>
    /\ shown = "connected" => ready[tc[current].ws] = "open"
    /\ ready[tc[current].ws] = "open" /\ shown # "connected" => late

PageInv ==
  /\ TypeOK
  /\ \A s \in Sockets : SocketOK(s)
  /\ current # NoConnection => CurrentOK(tc[current])
  /\ \A c \in Conns : c # current => DisposedOK(tc[c])
  /\ ShownOK

LEMMA Numbers ==
  /\ MaxAttempts \in Nat /\ MaxConns \in Nat /\ MaxSockets \in Nat
  /\ NoConnection \notin Conns /\ NoSocket \notin Sockets
  BY PageAssumption DEF NoConnection, NoSocket, Conns, Sockets

LEMMA NoConnTyped ==
  /\ Session!NoConn \in Session!Conn
  /\ ~ Session!NoConn.asked /\ ~ Session!NoConn.replied
  BY DEF Session!NoConn, Session!Conn

LEMMA PageInit == Init => PageInv
<1> SUFFICES ASSUME Init
             PROVE  PageInv
  OBVIOUS
<1>1. TypeOK
  BY DisposedFields, NoConnTyped DEF Init, TypeOK
<1>2. \A s \in Sockets : SocketOK(s)
  BY NoConnTyped DEF Init, SocketOK, Live
<1>3. \A c \in Conns : DisposedOK(tc[c])
  BY DisposedFields DEF Init, DisposedOK
<1> QED BY <1>1, <1>2, <1>3 DEF Init, PageInv, ShownOK

----------------------------------------------------------------------------
(***************************************************************************)
(* Terminals opened and closed.                                            *)
(***************************************************************************)
\* Once the current terminal's socket is closed none is live.
LEMMA ClosedByDispose ==
  ASSUME PageInv, current # NoConnection, NEW q \in Sockets,
         CloseSocketOf(current)[q] \in {"connecting", "open"}
  PROVE  FALSE
<1>1. CASE tc[current].ws = q /\ Live(q)
  BY <1>1 DEF CloseSocketOf
<1>2. CASE ~ (tc[current].ws = q /\ Live(q))
  <2>1. Live(q)
    BY <1>2 DEF CloseSocketOf, Live
  <2> QED BY <1>2, <2>1 DEF PageInv, SocketOK
<1> QED BY <1>1, <1>2

\* A close that starts here is the current terminal's.
LEMMA ClosingByDispose ==
  ASSUME PageInv, NEW q \in Sockets
  PROVE  /\ CloseSocketOf(current)[q] = "closing" => owner[q] \in Conns
         /\ CloseSocketOf(current)[q] = "unused" <=> ready[q] = "unused"
         /\ CloseSocketOf(current)[q] \in {"unused", "connecting", "open", "closing", "closed"}
  BY DEF PageInv, TypeOK, SocketOK, CloseSocketOf, Live

LEMMA DisposeFields ==
  ASSUME PageInv, current # NoConnection
  PROVE  /\ DisposeOf(current) \in [Conns -> Fields]
         /\ DisposedOK(DisposeOf(current)[current])
         /\ \A d \in Conns \ {current} : DisposeOf(current)[d] = tc[d]
<1>1. tc \in [Conns -> Fields] /\ current \in Conns
  BY DEF PageInv, TypeOK
<1>2. tc[current].timers \in 0 .. 1
  BY <1>1, FieldsTyped
<1> DEFINE f == [Disposed EXCEPT !.timers = tc[current].timers]
<1>3. f \in Fields /\ DisposedOK(f)
  BY <1>2, DisposedTyped DEF DisposedOK
<1>4. DisposeOf(current) = [tc EXCEPT ![current] = f]
  BY DEF DisposeOf
<1> HIDE DEF f
<1> QED BY <1>1, <1>3, <1>4

LEMMA HideKeeps == PageInv /\ HideTerminalModal => PageInv'
<1> SUFFICES ASSUME PageInv, HideTerminalModal
             PROVE  PageInv'
  OBVIOUS
<1> USE DEF HideTerminalModal
<1>1. TypeOK'
  BY DisposeFields, ClosingByDispose DEF PageInv, TypeOK, CloseSocketOf
<1>2. \A s \in Sockets : SocketOK(s)'
  <2> SUFFICES ASSUME NEW s \in Sockets
               PROVE  SocketOK(s)'
    OBVIOUS
  <2>1. ready'[s] \notin {"connecting", "open"}
    BY ClosedByDispose
  <2> QED BY <2>1, ClosingByDispose, Numbers DEF PageInv, SocketOK, Live
<1>3. \A c \in Conns : DisposedOK(tc'[c])
  BY DisposeFields DEF PageInv
<1> QED BY <1>1, <1>2, <1>3 DEF PageInv, ShownOK, CurrentOK, DisposedOK

\* A new terminal, over what is left of the last one.
LEMMA OpenKeeps ==
  ASSUME PageInv, NEW c \in Conns, NEW s \in Sockets, OpenTerminal(c, s)
  PROVE  PageInv'
<1>1. /\ current' = c /\ c # current /\ ready[s] = "unused"
      /\ \A q \in Sockets : owner[q] # c
      /\ owner' = [owner EXCEPT ![s] = c] /\ conn' = conn
      /\ shown' = "connecting" /\ late' = FALSE /\ serving' = serving
  BY DEF OpenTerminal, Forgotten, SocketsOf, Connect, IsNew
<1>2. PICK before \in {tc, DisposeOf(current)}, was \in {ready, CloseSocketOf(current)} :
        /\ tc' = [before EXCEPT ![c] = NewFields(s)]
        /\ ready' = [was EXCEPT ![s] = "connecting"]
        /\ IF current = NoConnection THEN before = tc /\ was = ready
             ELSE before = DisposeOf(current) /\ was = CloseSocketOf(current)
  BY DEF OpenTerminal, Connect
<1>3. /\ before \in [Conns -> Fields]
      /\ \A d \in Conns : d # c => DisposedOK(before[d])
  <2>1. CASE current = NoConnection
    BY <1>2, <2>1, Numbers DEF PageInv, TypeOK
  <2>2. CASE current # NoConnection
    BY <1>1, <1>2, <2>2, DisposeFields DEF PageInv
  <2> QED BY <2>1, <2>2
<1>4. /\ was \in [Sockets -> {"unused", "connecting", "open", "closing", "closed"}]
      /\ \A q \in Sockets : /\ was[q] \notin {"connecting", "open"}
                            /\ was[q] = "unused" <=> ready[q] = "unused"
  <2>1. CASE current = NoConnection
    <3>1. \A q \in Sockets : ~ Live(q)
      BY <2>1, Numbers DEF PageInv, SocketOK, Live
    <3> QED BY <1>2, <2>1, <3>1 DEF PageInv, TypeOK, Live
  <2>2. CASE current # NoConnection
    <3>1. CloseSocketOf(current)
            \in [Sockets -> {"unused", "connecting", "open", "closing", "closed"}]
      BY ClosingByDispose DEF CloseSocketOf
    <3> QED BY <1>2, <2>2, <3>1, ClosedByDispose, ClosingByDispose
  <2> QED BY <2>1, <2>2
<1>5. TypeOK'
  BY <1>1, <1>2, <1>3, <1>4, NewFieldsTyped DEF PageInv, TypeOK
<1>6. tc'[c] = NewFields(s) /\ \A d \in Conns : d # c => tc'[d] = before[d]
  BY <1>2, <1>3
<1>7. ready'[s] = "connecting" /\ \A q \in Sockets : q # s => ready'[q] = was[q]
  BY <1>2, <1>4
<1>8. \A q \in Sockets : SocketOK(q)'
  <2> SUFFICES ASSUME NEW q \in Sockets
               PROVE  SocketOK(q)'
    OBVIOUS
  <2>1. CASE q = s
    <3>1. ~ conn[s].asked /\ ~ conn[s].replied
      BY <1>1 DEF PageInv, SocketOK
    <3>2. owner'[s] = c
      BY <1>1 DEF PageInv, TypeOK
    <3> QED BY <1>1, <1>6, <1>7, <2>1, <3>1, <3>2, NewFieldsTyped, Numbers DEF SocketOK, Live
  <2>2. CASE q # s
    <3>1. owner'[q] = owner[q]
      BY <1>1, <2>2 DEF PageInv, TypeOK
    <3>2. SocketOK(q)
      BY DEF PageInv
    <3> QED BY <1>1, <1>4, <1>7, <2>2, <3>1, <3>2 DEF SocketOK, Live
  <2> QED BY <2>1, <2>2
<1>9. CurrentOK(tc[current])'
  BY <1>1, <1>6, <1>7, NewFieldsTyped, Numbers DEF CurrentOK, Live
<1>10. ShownOK'
  BY <1>1, <1>6, <1>7, NewFieldsTyped DEF ShownOK
<1> QED BY <1>1, <1>3, <1>5, <1>6, <1>8, <1>9, <1>10 DEF PageInv, DisposedOK

----------------------------------------------------------------------------
(***************************************************************************)
(* Timers and callbacks.                                                   *)
(***************************************************************************)
\* The timer of the current terminal finds it without a socket.
LEMMA TimerKeeps ==
  ASSUME PageInv, NEW c \in Conns, NEW s \in Sockets, TimerFires(c, s)
  PROVE  PageInv'
<1>1. tc \in [Conns -> Fields] /\ tc[c] \in Fields
  BY DEF PageInv, TypeOK
<1>2. tc[c].timers = 1
  BY <1>1, FieldsTyped DEF TimerFires
<1>3. CASE tc[c].shouldReconnect
  <2> DEFINE f == [tc[c] EXCEPT !.timers = 0, !.ws = s]
  <2>1. /\ f.shouldReconnect = tc[c].shouldReconnect /\ f.gaveUp = tc[c].gaveUp
        /\ f.attempts = tc[c].attempts /\ f.refused = tc[c].refused
        /\ f.ws = s /\ f.timers = 0
    BY <1>1 DEF Fields
  <2>2. f \in Fields
    BY ONLY <1>1, s \in Sockets, 0 \in 0 .. 1 DEF Fields
  <2>0. tc' = [tc EXCEPT ![c] = [tc[c] EXCEPT !.timers = tc[c].timers - 1, !.ws = s]]
    BY <1>1, <1>3 DEF TimerFires
  <2>3. /\ tc' = [tc EXCEPT ![c] = f] /\ ready[s] = "unused"
        /\ ready' = [ready EXCEPT ![s] = "connecting"]
        /\ owner' = [owner EXCEPT ![s] = c] /\ shown' = "connecting" /\ late' = FALSE
        /\ UNCHANGED <<current, conn, serving>>
    <3>1. tc[c].timers - 1 = 0
      BY <1>2
    <3> QED BY <1>3, <2>0, <3>1 DEF TimerFires, Connect, IsNew
  <2> HIDE DEF f
  <2>4. c = current
    BY <1>3 DEF PageInv, DisposedOK
  <2>5. CurrentOK(tc[c]) /\ current # NoConnection
    BY <2>4, Numbers DEF PageInv
  <2>6. ~ Live(tc[c].ws) /\ ~ tc[c].gaveUp
    BY <1>2, <2>5 DEF CurrentOK
  <2>7. \A q \in Sockets : ~ Live(q)
    BY <2>4, <2>6 DEF PageInv, SocketOK
  <2>8. TypeOK'
    BY <2>2, <2>3 DEF PageInv, TypeOK
  <2>9. /\ tc'[c] = f /\ \A d \in Conns : d # c => tc'[d] = tc[d]
        /\ ready'[s] = "connecting" /\ owner'[s] = c
        /\ \A q \in Sockets : q # s => ready'[q] = ready[q] /\ owner'[q] = owner[q]
    BY <1>1, <2>3 DEF PageInv, TypeOK
  <2>10. \A q \in Sockets : SocketOK(q)'
    <3> SUFFICES ASSUME NEW q \in Sockets
                 PROVE  SocketOK(q)'
      OBVIOUS
    <3>1. SocketOK(q)
      BY DEF PageInv
    <3>2. CASE q = s
      BY <2>1, <2>3, <2>4, <2>9, <3>1, <3>2 DEF SocketOK, Live
    <3>3. CASE q # s
      BY <2>3, <2>7, <2>9, <3>1, <3>3 DEF SocketOK, Live
    <3> QED BY <3>2, <3>3
  <2>11. CurrentOK(tc[current])'
    <3>1. f.shouldReconnect /\ ~ f.gaveUp
      BY <1>3, <2>1, <2>6
    <3>2. tc'[current'] = f /\ ready'[f.ws] = "connecting"
      BY <2>1, <2>3, <2>4, <2>9
    <3>3. f.attempts <= f.refused + 1
      BY <2>1, <2>5 DEF CurrentOK
    <3> QED BY <2>1, <3>1, <3>2, <3>3 DEF CurrentOK, Live
  <2>12. ShownOK'
    BY <2>1, <2>3, <2>4, <2>9 DEF ShownOK
  <2> QED BY <2>3, <2>4, <2>8, <2>9, <2>10, <2>11, <2>12 DEF PageInv, DisposedOK
<1>4. CASE ~ tc[c].shouldReconnect
  <2> DEFINE f == [tc[c] EXCEPT !.timers = 0]
  <2>1. /\ f.shouldReconnect = tc[c].shouldReconnect /\ f.gaveUp = tc[c].gaveUp
        /\ f.ws = tc[c].ws
    BY <1>1 DEF Fields
  <2>2. f \in Fields
    BY <1>1 DEF Fields
  <2>3. tc' = [tc EXCEPT ![c] = f] /\ UNCHANGED <<current, ready, owner, conn, serving, shown, late>>
    BY <1>2, <1>4 DEF TimerFires
  <2> HIDE DEF f
  <2>4. c # current
    BY <1>4, Numbers DEF PageInv, CurrentOK
  <2>5. tc'[c] = f /\ \A d \in Conns : d # c => tc'[d] = tc[d]
    BY <1>1, <2>3
  <2>6. current # NoConnection => current \in Conns /\ tc'[current] = tc[current]
    BY <2>4, <2>5 DEF PageInv, TypeOK
  <2>7. TypeOK'
    BY <2>2, <2>3 DEF PageInv, TypeOK
  <2>8. \A q \in Sockets : SocketOK(q)'
    BY <2>3, <2>6, Numbers DEF PageInv, SocketOK, Live
  <2>9. (current # NoConnection => CurrentOK(tc[current]))'
    BY <2>3, <2>6 DEF PageInv, CurrentOK, Live
  <2>10. ShownOK'
    BY <2>3, <2>6 DEF PageInv, ShownOK
  <2>11. \A d \in Conns : d # current' => DisposedOK(tc'[d])
    BY <2>1, <2>3, <2>4, <2>5 DEF PageInv, DisposedOK
  <2> QED BY <2>7, <2>8, <2>9, <2>10, <2>11 DEF PageInv, DisposedOK
<1> QED BY <1>3, <1>4

\* Only a socket of the current terminal can open.
LEMMA OnOpenKeeps ==
  ASSUME PageInv, NEW s \in Sockets, OnOpen(s)
  PROVE  PageInv'
<1>1. /\ current \in Conns /\ current # NoConnection
      /\ owner[s] = current /\ tc[current].ws = s /\ Live(s)
  BY Numbers DEF OnOpen, PageInv, SocketOK, Live
<1>2. tc \in [Conns -> Fields] /\ tc[current] \in Fields
  BY <1>1 DEF PageInv, TypeOK
<1>3. CurrentOK(tc[current])
  BY <1>1 DEF PageInv
<1> DEFINE f == [tc[current] EXCEPT !.attempts = 0, !.refused = 0]
<1>4. /\ f.shouldReconnect = tc[current].shouldReconnect /\ f.gaveUp = tc[current].gaveUp
      /\ f.ws = tc[current].ws /\ f.timers = tc[current].timers
      /\ f.attempts = 0 /\ f.refused = 0
  BY <1>2 DEF Fields
<1>5. f \in Fields
  <2>1. 0 \in 0 .. MaxAttempts /\ 0 \in 0 .. MaxAttempts + 1
    BY Numbers
  <2> QED BY ONLY <1>2, <2>1 DEF Fields
<1>6. tc' = [tc EXCEPT ![current] = f]
  BY <1>1, <1>2 DEF OnOpen
<1>7. /\ ready' = [ready EXCEPT ![s] = "open"] /\ shown' = "connected"
      /\ UNCHANGED <<current, owner, conn, serving>>
  BY DEF OnOpen, UpdateStatus
<1>8. late' \in BOOLEAN
  BY DEF OnOpen, UpdateStatus
<1> HIDE DEF f
<1>9. /\ tc'[current] = f /\ \A d \in Conns : d # current => tc'[d] = tc[d]
      /\ ready'[s] = "open" /\ \A q \in Sockets : q # s => ready'[q] = ready[q]
  BY <1>1, <1>2, <1>6, <1>7 DEF PageInv, TypeOK
<1>10. TypeOK'
  BY <1>5, <1>6, <1>7, <1>8 DEF PageInv, TypeOK
<1>11. \A q \in Sockets : SocketOK(q)'
  <2> SUFFICES ASSUME NEW q \in Sockets
               PROVE  SocketOK(q)'
    OBVIOUS
  <2>1. SocketOK(q)
    BY DEF PageInv
  <2>2. CASE q = s
    BY <1>1, <1>4, <1>7, <1>9, <2>1, <2>2 DEF SocketOK, Live
  <2>3. CASE q # s
    BY <1>1, <1>4, <1>7, <1>9, <2>1, <2>3 DEF SocketOK, Live
  <2> QED BY <2>2, <2>3
<1>12. CurrentOK(tc[current])'
  <2>1. f.shouldReconnect /\ ~ f.gaveUp /\ f.timers = 0
    BY <1>1, <1>3, <1>4 DEF CurrentOK
  <2>2. tc'[current'] = f /\ ready'[f.ws] = "open"
    BY <1>1, <1>4, <1>7, <1>9
  <2>3. f.attempts <= f.refused + 1
    BY <1>4
  <2> QED BY <1>1, <1>4, <2>1, <2>2, <2>3 DEF CurrentOK, Live
<1>13. ShownOK'
  BY <1>1, <1>4, <1>7, <1>9 DEF ShownOK
<1> QED BY <1>7, <1>9, <1>10, <1>11, <1>12, <1>13 DEF PageInv, DisposedOK

\* The close of a live socket is not clean, since the page has not asked for
\* it; any other is of a terminal disposed of.
LEMMA Closes ==
  ASSUME PageInv, NEW s \in Sockets,
         Refused(s) \/ CloseUnanswered(s) \/ Closed(s) \/ NetworkFails(s)
  PROVE  \/ Live(s) /\ OnClose(s, FALSE)
         \/ ready[s] = "closing" /\ \E wasClean \in BOOLEAN : OnClose(s, wasClean)
<1>1. CASE Refused(s) \/ NetworkFails(s)
  BY <1>1 DEF Refused, NetworkFails, Live
<1>2. CASE CloseUnanswered(s)
  BY <1>2 DEF CloseUnanswered
<1>3. CASE Closed(s)
  <2>1. conn[s].replied \in BOOLEAN
    BY DEF PageInv, TypeOK, Session!Conn
  <2>2. CASE ready[s] = "open"
    <3>1. conn[s].replied = FALSE
      BY <2>1, <2>2 DEF PageInv, SocketOK
    <3>2. OnClose(s, conn[s].replied)
      BY <1>3 DEF Closed
    <3>3. OnClose(s, FALSE)
      BY ONLY <3>1, <3>2
    <3> QED BY <2>2, <3>3 DEF Live
  <2>3. CASE ready[s] = "closing"
    BY <1>3, <2>1, <2>3 DEF Closed
  <2> QED BY <1>3, <2>2, <2>3 DEF Closed
<1> QED BY <1>1, <1>2, <1>3

\* What becomes of the current terminal when its socket closes.
LEMMA LiveCloses ==
  ASSUME PageInv, NEW s \in Sockets, Live(s), OnClose(s, FALSE)
  PROVE  /\ current \in Conns /\ owner[s] = current /\ tc[current].ws = s
         /\ \E f \in Fields :
              /\ tc' = [tc EXCEPT ![current] = f]
              /\ f.shouldReconnect /\ f.ws = s /\ (f.gaveUp <=> f.timers = 0)
              /\ f.attempts <= f.refused + 1
              /\ f.gaveUp => f.refused >= MaxAttempts
<1>1. current \in Conns /\ current # NoConnection /\ owner[s] = current /\ tc[current].ws = s
  BY Numbers DEF PageInv, SocketOK, Live
<1>2. tc \in [Conns -> Fields] /\ tc[current] \in Fields
  BY <1>1 DEF PageInv, TypeOK
<1>3. CurrentOK(tc[current])
  BY <1>1 DEF PageInv
<1> DEFINE n == IF ready[s] = "connecting" THEN OneMore(tc[current].refused) ELSE tc[current].refused
           g == [tc[current] EXCEPT !.refused = n]
           f == ScheduleReconnect(g)
<1>4. /\ tc[current].attempts \in 0 .. MaxAttempts
      /\ tc[current].refused \in 0 .. MaxAttempts + 1
  BY <1>2, FieldsTyped
<1>5. n \in 0 .. MaxAttempts + 1
  BY <1>4, Numbers DEF OneMore
<1>6. /\ tc[current].attempts <= n + 1
      /\ tc[current].attempts >= MaxAttempts => n >= MaxAttempts
      /\ tc[current].attempts < MaxAttempts => tc[current].attempts <= n
  <2>1. CASE ready[s] = "connecting"
    BY <1>3, <1>4, <2>1, Numbers DEF CurrentOK, OneMore
  <2>2. CASE ready[s] = "open"
    BY <1>1, <1>3, <1>4, <2>2, Numbers DEF CurrentOK
  <2> QED BY <2>1, <2>2 DEF Live
<1> HIDE DEF n
<1>7. /\ g \in Fields /\ g.refused = n /\ g.shouldReconnect = tc[current].shouldReconnect
      /\ g.gaveUp = tc[current].gaveUp /\ g.ws = s /\ g.timers = tc[current].timers
      /\ g.attempts = tc[current].attempts
  BY <1>1, <1>2, <1>5, WithRefused
<1>8. g.shouldReconnect /\ ~ g.gaveUp /\ g.timers = 0
  BY <1>1, <1>3, <1>7 DEF CurrentOK
<1>9. tc' = [tc EXCEPT ![current] = f]
  <2>1. tc' = [tc EXCEPT ![current] = IF g.shouldReconnect /\ ~ FALSE THEN f ELSE g]
    BY <1>1 DEF OnClose, n
  <2> HIDE DEF f, g
  <2> QED BY <1>8, <2>1
<1> HIDE DEF g
<1>10. /\ f \in Fields /\ f.shouldReconnect /\ f.ws = s /\ f.refused = n
       /\ f.gaveUp <=> f.timers = 0
       /\ f.gaveUp => g.attempts >= MaxAttempts /\ f.attempts = g.attempts
       /\ ~ f.gaveUp => g.attempts < MaxAttempts /\ f.attempts = g.attempts + 1
  BY <1>4, <1>7, <1>8, Scheduled, Numbers
<1> HIDE DEF f
<1>11. f.attempts <= f.refused + 1 /\ (f.gaveUp => f.refused >= MaxAttempts)
  BY <1>4, <1>5, <1>6, <1>7, <1>10, Numbers
<1> QED BY <1>1, <1>9, <1>10, <1>11

\* A terminal disposed of stays as it is.
LEMMA LateCloses ==
  ASSUME PageInv, NEW s \in Sockets, ready[s] = "closing",
         NEW wasClean \in BOOLEAN, OnClose(s, wasClean)
  PROVE  tc' = tc /\ owner[s] # current
<1>1. owner[s] \in Conns /\ owner[s] # current
  BY DEF PageInv, SocketOK
<1>2. tc \in [Conns -> Fields] /\ tc[owner[s]] \in Fields /\ ~ tc[owner[s]].shouldReconnect
  BY <1>1 DEF PageInv, TypeOK, DisposedOK
<1> DEFINE g == [tc[owner[s]] EXCEPT !.refused = tc[owner[s]].refused]
<1>3. g = tc[owner[s]]
  BY <1>2, FieldsTyped, WithRefused
<1>4. tc' = [tc EXCEPT ![owner[s]] = IF g.shouldReconnect /\ ~ wasClean
                                      THEN ScheduleReconnect(g) ELSE g]
  BY DEF OnClose
<1> HIDE DEF g
<1>5. tc' = [tc EXCEPT ![owner[s]] = tc[owner[s]]]
  BY <1>2, <1>3, <1>4
<1> QED BY <1>1, <1>2, <1>5

LEMMA CloseKeeps ==
  ASSUME PageInv, NEW s \in Sockets, NEW wasClean \in BOOLEAN, OnClose(s, wasClean),
         (Live(s) /\ wasClean = FALSE) \/ ready[s] = "closing"
  PROVE  PageInv'
<1>1. /\ ready' = [ready EXCEPT ![s] = "closed"] /\ shown' = "disconnected"
      /\ late' = (owner[s] # current) /\ UNCHANGED <<current, owner, conn, serving>>
  BY DEF OnClose, UpdateStatus
<1>2. late' \in BOOLEAN
  BY DEF OnClose, UpdateStatus
<1>3. ready'[s] = "closed" /\ \A q \in Sockets : q # s => ready'[q] = ready[q]
  BY <1>1 DEF PageInv, TypeOK
<1>4. CASE Live(s) /\ wasClean = FALSE
  <2>1. OnClose(s, FALSE)
    BY ONLY <1>4, OnClose(s, wasClean)
  <2>2. /\ current \in Conns /\ current # NoConnection
        /\ owner[s] = current /\ tc[current].ws = s
    BY <1>4, <2>1, LiveCloses, Numbers
  <2>3. PICK f \in Fields :
          /\ tc' = [tc EXCEPT ![current] = f]
          /\ f.shouldReconnect /\ f.ws = s /\ (f.gaveUp <=> f.timers = 0)
          /\ f.attempts <= f.refused + 1
          /\ f.gaveUp => f.refused >= MaxAttempts
    BY <1>4, <2>1, LiveCloses
  <2>4. tc'[current] = f /\ \A d \in Conns : d # current => tc'[d] = tc[d]
    BY <2>2, <2>3 DEF PageInv, TypeOK
  <2>5. TypeOK'
    BY <1>1, <1>2, <2>3 DEF PageInv, TypeOK
  <2>6. \A q \in Sockets : SocketOK(q)'
    <3> SUFFICES ASSUME NEW q \in Sockets
                 PROVE  SocketOK(q)'
      OBVIOUS
    <3>1. SocketOK(q)
      BY DEF PageInv
    <3>2. CASE q = s
      BY <1>1, <1>3, <2>2, <3>2 DEF SocketOK, Live
    <3>3. CASE q # s
      BY <1>1, <1>3, <2>2, <3>1, <3>3 DEF SocketOK, Live
    <3> QED BY <3>2, <3>3
  <2>7. CurrentOK(tc[current])'
    BY <1>1, <1>3, <2>3, <2>4 DEF CurrentOK, Live
  <2>8. ShownOK'
    BY <1>1, <1>3, <2>3, <2>4 DEF ShownOK
  <2> QED BY <1>1, <2>4, <2>5, <2>6, <2>7, <2>8 DEF PageInv, DisposedOK
<1>5. CASE ready[s] = "closing"
  <2>1. tc' = tc /\ owner[s] # current
    BY <1>5, LateCloses
  <2>2. TypeOK'
    BY <1>1, <1>2, <2>1 DEF PageInv, TypeOK
  <2>3. \A q \in Sockets : Live(q)' <=> Live(q)
    BY <1>3, <1>5 DEF Live
  <2>4. \A q \in Sockets : SocketOK(q)'
    <3> SUFFICES ASSUME NEW q \in Sockets
                 PROVE  SocketOK(q)'
      OBVIOUS
    <3>1. SocketOK(q)
      BY DEF PageInv
    <3>2. CASE q = s
      BY <1>1, <1>3, <1>5, <3>1, <3>2 DEF SocketOK, Live
    <3>3. CASE q # s
      BY <1>1, <1>3, <2>1, <2>3, <3>1, <3>3 DEF SocketOK
    <3> QED BY <3>2, <3>3
  <2>5. ASSUME current # NoConnection
        PROVE  CurrentOK(tc[current])'
    <3>1. CurrentOK(tc[current])
      BY <2>5 DEF PageInv
    <3>2. tc[current].ws \in Sockets
      BY <3>1 DEF CurrentOK
    <3>3. ready'[tc[current].ws] = "open" => ready[tc[current].ws] = "open"
      BY <1>3, <3>2
    <3> QED BY <1>1, <2>1, <2>3, <3>1, <3>2, <3>3 DEF CurrentOK
  <2>6. ShownOK'
    BY <1>1, <2>1 DEF ShownOK
  <2> QED BY <1>1, <2>1, <2>2, <2>4, <2>5, <2>6 DEF PageInv, DisposedOK
<1> QED BY <1>4, <1>5

----------------------------------------------------------------------------
(***************************************************************************)
(* The envoy's side.                                                       *)
(***************************************************************************)
\* A step of a session, which only the page's own close makes one of a close.
LEMMA SessionKeeps ==
  ASSUME PageInv, NEW s \in Sockets,
         Upgrade(s) \/ SendClose(s) \/ ReplyClose(s) \/ Drop(s)
  PROVE  PageInv'
<1>1. PICK after \in Session!Conn :
        /\ conn' = [conn EXCEPT ![s] = after]
        /\ UNCHANGED <<current, tc, ready, owner, serving, shown, late>>
        /\ \/ Session!Opens(conn[s], after)
           \/ ready[s] = "closing" /\ Session!Asks(conn[s], after)
           \/ Session!Replies(conn[s], after)
           \/ Session!Drops(conn[s], after)
  BY DEF Upgrade, SendClose, ReplyClose, Drop, SessionStep
<1>2. TypeOK'
  BY <1>1 DEF PageInv, TypeOK
<1>3. conn'[s] = after /\ \A q \in Sockets : q # s => conn'[q] = conn[q]
  BY <1>1 DEF PageInv, TypeOK
<1>4. conn[s] \in Session!Conn
  BY DEF PageInv, TypeOK
<1>5. \A q \in Sockets : SocketOK(q)'
  <2> SUFFICES ASSUME NEW q \in Sockets
               PROVE  SocketOK(q)'
    OBVIOUS
  <2>1. SocketOK(q)
    BY DEF PageInv
  <2>2. CASE q # s
    BY <1>1, <1>3, <2>1, <2>2 DEF SocketOK, Live
  <2>3. CASE q = s /\ ready[s] = "closing"
    BY <1>1, <2>1, <2>3 DEF SocketOK, Live
  <2>4. CASE q = s /\ ready[s] # "closing"
    <3>1. ready[s] \in {"unused", "connecting", "open"} => ~ after.asked /\ ~ after.replied
      BY <1>1, <1>4, <2>1, <2>4 DEF SocketOK, Session!Opens, Session!Replies, Session!Drops,
                                    Session!Conn
    <3> QED BY <1>1, <1>3, <2>1, <2>4, <3>1 DEF SocketOK, Live
  <2> QED BY <2>2, <2>3, <2>4
<1>6. (current # NoConnection => CurrentOK(tc[current]))'
  BY <1>1 DEF PageInv, CurrentOK, Live
<1>7. ShownOK'
  BY <1>1 DEF PageInv, ShownOK
<1> QED BY <1>1, <1>2, <1>5, <1>6, <1>7 DEF PageInv, DisposedOK

LEMMA CollectKeeps ==
  ASSUME PageInv, NEW s \in Sockets, Collect(s)
  PROVE  PageInv'
<1>1. /\ ready[s] = "closed" /\ \A c \in Conns : tc[c].ws # s
      /\ ready' = [ready EXCEPT ![s] = "unused"]
      /\ owner' = [owner EXCEPT ![s] = NoConnection]
      /\ conn' = [conn EXCEPT ![s] = Session!NoConn]
      /\ UNCHANGED <<current, tc, serving, shown, late>>
  BY DEF Collect
<1>2. TypeOK'
  BY <1>1, NoConnTyped DEF PageInv, TypeOK
<1>3. /\ ready'[s] = "unused" /\ owner'[s] = NoConnection /\ conn'[s] = Session!NoConn
      /\ \A q \in Sockets :
           q # s => ready'[q] = ready[q] /\ owner'[q] = owner[q] /\ conn'[q] = conn[q]
  BY <1>1 DEF PageInv, TypeOK
<1>4. \A q \in Sockets : SocketOK(q)'
  BY <1>1, <1>3, NoConnTyped DEF PageInv, SocketOK, Live
<1>5. ASSUME current # NoConnection
      PROVE  /\ CurrentOK(tc[current])
             /\ ready'[tc[current].ws] = ready[tc[current].ws]
  <2>1. CurrentOK(tc[current]) /\ current \in Conns
    BY <1>5 DEF PageInv, TypeOK
  <2> QED BY <1>1, <1>3, <2>1 DEF CurrentOK
<1>6. (current # NoConnection => CurrentOK(tc[current]))'
  BY <1>1, <1>5 DEF CurrentOK, Live
<1>7. ShownOK'
  BY <1>1, <1>5 DEF PageInv, ShownOK
<1> QED BY <1>1, <1>2, <1>4, <1>6, <1>7 DEF PageInv, DisposedOK

LEMMA PageNext == PageInv /\ [Next]_vars => PageInv'
<1> SUFFICES ASSUME PageInv, [Next]_vars
             PROVE  PageInv'
  OBVIOUS
<1>1. ASSUME NEW s \in Sockets, Refused(s) \/ CloseUnanswered(s) \/ Closed(s) \/ NetworkFails(s)
      PROVE  PageInv'
  <2>1. CASE Live(s) /\ OnClose(s, FALSE)
    BY ONLY <2>1, PageInv, CloseKeeps, FALSE \in BOOLEAN, s \in Sockets
  <2>2. CASE ready[s] = "closing" /\ \E wasClean \in BOOLEAN : OnClose(s, wasClean)
    BY <2>2, CloseKeeps
  <2> QED BY <1>1, <2>1, <2>2, Closes
<1>2. CASE ServingChanges \/ UNCHANGED vars
  <2>1. UNCHANGED <<current, tc, ready, owner, conn, shown, late>> /\ serving' \in BOOLEAN
    BY <1>2 DEF ServingChanges, vars, PageInv, TypeOK
  <2> QED BY <2>1 DEF PageInv, TypeOK, SocketOK, CurrentOK, DisposedOK, ShownOK, Live
<1> QED BY <1>1, <1>2, HideKeeps, OpenKeeps, TimerKeeps, OnOpenKeeps, SessionKeeps,
           CollectKeeps, Actions

----------------------------------------------------------------------------
(***************************************************************************)
(* Theorems.                                                               *)
(***************************************************************************)
\* Every state of the page is well typed; above all, no terminal has two
\* reconnections scheduled.
THEOREM TypeCorrect == Spec => []TypeOK
<1>1. PageInv => TypeOK
  BY DEF PageInv
<1> QED BY <1>1, PageInit, PageNext, PTL DEF Spec

\* An open terminal window waits for one socket or timer, and never for two.
THEOREM OneThingIsAwaited == Spec => []OneThingAwaited
<1>1. PageInv => OneThingAwaited
  <2> SUFFICES ASSUME PageInv, NEW c \in Conns, Trying(c) \/ tc[c].gaveUp
               PROVE  Cardinality({s \in SocketsOf(c) : Live(s)}) + tc[c].timers
                        = IF Trying(c) THEN 1 ELSE 0
    BY DEF OneThingAwaited, Trying
  <2>1. c = current /\ CurrentOK(tc[c]) /\ c # NoConnection
    BY Numbers DEF PageInv, DisposedOK, Trying
  <2>2. tc[c].timers \in 0 .. 1
    BY FieldsTyped DEF PageInv, TypeOK
  <2>3. CASE Live(tc[c].ws)
    <3>1. \A s \in Sockets : Live(s) => s = tc[c].ws
      BY <2>1 DEF PageInv, SocketOK
    <3>2. tc[c].ws \in SocketsOf(c)
      BY <2>1, <2>3 DEF CurrentOK, SocketsOf, PageInv, SocketOK
    <3>3. {s \in SocketsOf(c) : Live(s)} = {tc[c].ws}
      BY <2>3, <3>1, <3>2 DEF SocketsOf
    <3>4. Cardinality({tc[c].ws}) = 1
      BY FS_Singleton
    <3> QED BY <2>1, <2>3, <3>3, <3>4 DEF CurrentOK, Trying
  <2>4. CASE ~ Live(tc[c].ws)
    <3>1. {s \in SocketsOf(c) : Live(s)} = {}
      BY <2>1, <2>4 DEF PageInv, SocketOK, SocketsOf
    <3>2. Cardinality({}) = 0
      BY FS_EmptySet
    <3> QED BY <2>1, <2>2, <2>4, <3>1, <3>2 DEF CurrentOK, Trying
  <2> QED BY <2>3, <2>4
<1> QED BY <1>1, PageInit, PageNext, PTL DEF Spec

\* A terminal disposed of has no live socket, and gets none.
THEOREM DisposedTerminalsStayClosed == Spec => []DisposedStaysClosed
<1>1. PageInv => DisposedStaysClosed
  BY DEF PageInv, SocketOK, DisposedStaysClosed
<1> QED BY <1>1, PageInit, PageNext, PTL DEF Spec

\* The page gives up only after MaxAttempts refusals in a row.
THEOREM OnlyRefusalsMakeItGiveUp == Spec => []GivesUpOnRefusalsOnly
<1>1. PageInv => GivesUpOnRefusalsOnly
  BY Numbers DEF PageInv, CurrentOK, DisposedOK, GivesUpOnRefusalsOnly
<1> QED BY <1>1, PageInit, PageNext, PTL DEF Spec

\* The status of an open window is that of its socket, or was overwritten by a
\* terminal disposed of.
THEOREM StatusIsOfCurrent == Spec => []StatusOfCurrent
<1>1. PageInv => StatusOfCurrent
  <2> SUFFICES ASSUME PageInv, NEW c \in Conns, c = current
               PROVE  LET open == \E s \in Sockets : owner[s] = c /\ ready[s] = "open" IN
                      /\ shown = "connected" => open
                      /\ open /\ shown # "connected" => late
    BY DEF StatusOfCurrent
  <2>1. current # NoConnection /\ tc[c].ws \in Sockets
    BY Numbers DEF PageInv, CurrentOK
  <2>2. \A s \in Sockets : ready[s] = "open" => owner[s] = c /\ s = tc[c].ws
    BY DEF PageInv, SocketOK, Live
  <2> QED BY <2>1, <2>2 DEF PageInv, ShownOK
<1> QED BY <1>1, PageInit, PageNext, PTL DEF Spec

=============================================================================
