-------------------------- MODULE WsProxyProofs --------------------------
(***************************************************************************)
(* Proofs about WsProxy: types, the read deadline, and the promise that a  *)
(* page counts on, for every choice of the four times that meets           *)
(* TimingAssumption.                                                       *)
(***************************************************************************)
EXTENDS WsProxy, TLAPS

\* The actions, one by one.
LEMMA Actions ==
  ASSUME [Next]_vars
  PROVE  \/ Upgrade \/ DialSucceeds \/ DialFails \/ FirstError
         \/ WritePing \/ PingFails \/ ContextDone
         \/ ReadPong \/ ReadClose \/ UpReads \/ UpReadFails \/ UpWrites
         \/ DownReads \/ DownReadFails \/ DownWrites
         \/ Report \/ NextSession
         \/ AnswerPing \/ CloseFrame \/ PeerChanges \/ Tick
         \/ UNCHANGED vars
  BY DEF Next, Handler, Pinger, UpPump, DownPump, Peers

\* The times are numbers, the last of them more than the others together.
LEMMA Times ==
  /\ PongWait \in Nat /\ PingInterval \in Nat \ {0}
  /\ DialTimeout \in Nat /\ RoundTrip \in Nat
  /\ DialTimeout + PingInterval + RoundTrip < PongWait
  BY TimingAssumption

----------------------------------------------------------------------------
(***************************************************************************)
(* Types.                                                                  *)
(***************************************************************************)
Flags == asked \in BOOLEAN /\ replied \in BOOLEAN /\ trouble \in BOOLEAN

LEMMA TypeInit == Init => TypeOK
<1> SUFFICES ASSUME Init
             PROVE  TypeOK
  OBVIOUS
<1>1. Flags
  BY Zenon DEF Init, Flags
<1> QED BY <1>1, Times DEF Init, TypeOK, Flags, Pump, Client

LEMMA TypeNext == TypeOK /\ [Next]_vars => TypeOK'
<1> SUFFICES ASSUME TypeOK, [Next]_vars
             PROVE  TypeOK'
  OBVIOUS
<1>0. Flags
  BY DEF TypeOK, Flags
<1> USE Times DEF TypeOK, goroutines, peers, timers, closing
<1>1. CASE Upgrade
  BY <1>1 DEF Upgrade, Client
<1>2. CASE DialSucceeds
  BY <1>2 DEF DialSucceeds, Pump
<1>3. CASE DialFails \/ FirstError
  <2>1. Flags'
    BY ONLY Zenon, <1>3, <1>0 DEF DialFails, FirstError, Return, Flags, closing
  <2> QED BY <1>3, <2>1 DEF DialFails, FirstError, Return, Flags
<1>5. CASE WritePing
  BY <1>5 DEF WritePing
<1>6. CASE PingFails
  BY <1>6 DEF PingFails
<1>7. CASE ContextDone
  BY <1>7 DEF ContextDone
<1>8. CASE ReadPong
  BY <1>8 DEF ReadPong
<1>9. CASE ReadClose
  BY <1>9 DEF ReadClose, Pump
<1>10. CASE UpReads \/ UpReadFails \/ UpWrites
  BY <1>10 DEF UpReads, UpReadFails, UpWrites, Pump
<1>11. CASE DownReads \/ DownReadFails \/ DownWrites
  BY <1>11 DEF DownReads, DownReadFails, DownWrites, Pump
<1>12. CASE Report
  BY <1>12 DEF Report, Pump
<1>13. CASE NextSession
  <2>1. Flags'
    BY ONLY Zenon, <1>13, <1>0 DEF NextSession, Flags
  <2> QED BY <1>13, <2>1 DEF NextSession, Flags, Pump, Client
<1>14. CASE AnswerPing
  BY <1>14 DEF AnswerPing
<1>15. CASE CloseFrame
  BY <1>15 DEF CloseFrame
<1>16. CASE PeerChanges
  BY <1>16 DEF PeerChanges, Client, Target
<1>17. CASE Tick
  BY <1>17 DEF Tick, Less, Due
<1>18. CASE UNCHANGED vars
  BY <1>18 DEF vars
<1> QED BY <1>1, <1>2, <1>3, <1>5, <1>6, <1>7, <1>8, <1>9, <1>10, <1>11, <1>12, <1>13,
           <1>14, <1>15, <1>16, <1>17, <1>18, Actions

\* Every state of the proxy is well typed.
THEOREM TypeCorrect == Spec => []TypeOK
  BY TypeInit, TypeNext, PTL DEF Spec

----------------------------------------------------------------------------
(***************************************************************************)
(* The deadline.                                                           *)
(***************************************************************************)
\* The goroutines live from the end of the dial to some time after the return;
\* while the handler waits, one that has ended has left its error, or, if it
\* is the one that pings, seen trouble.
StageInv ==
  /\ pc # "dialing" => elapsed = 0
  /\ pc # "waiting" => ping = "none"
  /\ pc \in {"idle", "dialing"} => up = "off" /\ down = "off" /\ pinger = "off"
  /\ pc = "waiting" =>
       /\ up # "off"
       /\ up = "ended" \/ down = "ended" => errCh > 0
       /\ pinger = "ticking" \/ trouble

\* What is left of the deadline is more than the next pong can take: the rest
\* of the interval and a round trip, or of the round trip, or none.
Enough ==
  /\ ping = "none" => deadline > toPing + RoundTrip
  /\ ping = "sent" => deadline + age > RoundTrip
  /\ deadline > 0

DeadlineInv ==
  /\ pc = "dialing" => deadline + elapsed >= PongWait
  /\ pc = "waiting" /\ ~ trouble => Enough

ProxyInv == TypeOK /\ StageInv /\ DeadlineInv

LEMMA ProxyInit == Init => ProxyInv
  BY TypeInit DEF Init, ProxyInv, StageInv, DeadlineInv

LEMMA StageNext == TypeOK /\ StageInv /\ [Next]_vars => StageInv'
<1> SUFFICES ASSUME TypeOK, StageInv, [Next]_vars
             PROVE  StageInv'
  OBVIOUS
<1> USE DEF TypeOK, StageInv, goroutines, peers, timers, closing
<1>1. CASE Upgrade
  BY <1>1 DEF Upgrade
<1>2. CASE DialSucceeds
  BY <1>2 DEF DialSucceeds
<1>3. CASE DialFails \/ FirstError
  BY <1>3 DEF DialFails, FirstError, Return
<1>4. CASE WritePing \/ PingFails \/ ContextDone
  BY <1>4 DEF WritePing, PingFails, ContextDone
<1>5. CASE ReadPong
  BY <1>5 DEF ReadPong
<1>6. CASE ReadClose \/ UpReads \/ UpReadFails \/ UpWrites
  BY <1>6 DEF ReadClose, UpReads, UpReadFails, UpWrites
<1>7. CASE DownReads \/ DownReadFails \/ DownWrites
  BY <1>7 DEF DownReads, DownReadFails, DownWrites
<1>8. CASE Report
  BY <1>8 DEF Report
<1>9. CASE NextSession
  BY <1>9 DEF NextSession
<1>10. CASE AnswerPing \/ CloseFrame \/ PeerChanges
  BY <1>10 DEF AnswerPing, CloseFrame, PeerChanges
<1>11. CASE Tick
  BY <1>11 DEF Tick
<1>12. CASE UNCHANGED vars
  BY <1>12 DEF vars
<1> QED BY <1>1, <1>2, <1>3, <1>4, <1>5, <1>6, <1>7, <1>8, <1>9, <1>10, <1>11, <1>12,
           Actions

\* While there is no trouble a tick finds the pump at its read, and the ping
\* neither due nor late.
LEMMA TickKeepsEnough ==
  ASSUME ProxyInv, Tick, pc = "waiting", ~ trouble'
  PROVE  Enough'
<1> USE Times DEF ProxyInv, TypeOK, Tick, goroutines, peers, closing
<1>1. ~ trouble /\ client = "well" /\ up # "writing"
  OBVIOUS
<1>2. Enough
  BY <1>1 DEF DeadlineInv
<1>3. pinger = "ticking" /\ toPing # 0 /\ (ping = "sent" => age # RoundTrip)
  BY <1>1 DEF StageInv, Due
<1>4. ~ PumpIsReady
  BY DEF Due
<1>5. up = "reading" /\ ping # "answered"
  BY <1>1, <1>4 DEF StageInv, PumpIsReady, Pump
<1>6. deadline' = deadline - 1 /\ toPing' = toPing - 1
  BY <1>2, <1>3 DEF Enough, Less
<1> QED BY <1>2, <1>3, <1>5, <1>6 DEF Enough

LEMMA DeadlineNext == ProxyInv /\ [Next]_vars => DeadlineInv'
<1> SUFFICES ASSUME ProxyInv, [Next]_vars
             PROVE  DeadlineInv'
  OBVIOUS
<1> USE Times
    DEF ProxyInv, TypeOK, StageInv, DeadlineInv, Enough, goroutines, peers, timers, closing
<1>1. CASE Upgrade
  BY <1>1 DEF Upgrade
<1>2. CASE DialSucceeds
  BY <1>2 DEF DialSucceeds
<1>3. CASE DialFails \/ FirstError
  BY <1>3 DEF DialFails, FirstError, Return
<1>4. CASE WritePing
  BY <1>4 DEF WritePing
<1>5. CASE PingFails \/ ContextDone
  BY <1>5 DEF PingFails, ContextDone
<1>6. CASE ReadPong
  BY <1>6 DEF ReadPong, Open
<1>7. CASE ReadClose \/ UpReads \/ UpReadFails \/ UpWrites
  BY <1>7 DEF ReadClose, UpReads, UpReadFails, UpWrites
<1>8. CASE DownReads \/ DownReadFails \/ DownWrites
  BY <1>8 DEF DownReads, DownReadFails, DownWrites
<1>9. CASE Report \/ NextSession
  BY <1>9 DEF Report, NextSession
<1>10. CASE AnswerPing
  BY <1>10 DEF AnswerPing
<1>11. CASE CloseFrame \/ PeerChanges
  BY <1>11 DEF CloseFrame, PeerChanges
<1>12. CASE Tick
  <2>1. pc' = "dialing" => deadline' + elapsed' >= PongWait
    BY <1>12 DEF Tick, Less
  <2>2. pc' = "waiting" /\ ~ trouble' => Enough'
    BY <1>12, TickKeepsEnough DEF Tick
  <2> QED BY <2>1, <2>2
<1>13. CASE UNCHANGED vars
  BY <1>13 DEF vars
<1> QED BY <1>1, <1>2, <1>3, <1>4, <1>5, <1>6, <1>7, <1>8, <1>9, <1>10, <1>11, <1>12,
           <1>13, Actions

LEMMA ProxyNext == ProxyInv /\ [Next]_vars => ProxyInv'
  BY TypeNext, StageNext, DeadlineNext DEF ProxyInv

\* The read deadline never ends the session of a browser that is well.
THEOREM WellClientsStay == Spec => []WellClientStays
<1>1. ProxyInv => WellClientStays
  BY DEF ProxyInv, DeadlineInv, Enough, WellClientStays
<1> QED BY <1>1, ProxyInit, ProxyNext, PTL DEF Spec

----------------------------------------------------------------------------
(***************************************************************************)
(* What the page counts on.                                                *)
(***************************************************************************)
\* A close frame is answered once, by the read that fails for it.
ClosingInv ==
  /\ TypeOK
  /\ pc \in {"idle", "dialing"} => up = "off"
  /\ pc = "idle" => ~ asked
  /\ replied => up \in {"failed", "ended"}

LEMMA ClosingInit == Init => ClosingInv
  BY TypeInit DEF Init, ClosingInv

LEMMA ClosingNext == ClosingInv /\ [Next]_vars => ClosingInv'
<1> SUFFICES ASSUME ClosingInv, [Next]_vars
             PROVE  ClosingInv'
  OBVIOUS
<1> TypeOK'
  BY TypeNext DEF ClosingInv
<1> USE DEF ClosingInv, TypeOK, goroutines, peers, timers, closing
<1>1. CASE Upgrade \/ DialSucceeds \/ DialFails \/ FirstError
  BY <1>1 DEF Upgrade, DialSucceeds, DialFails, FirstError, Return
<1>2. CASE WritePing \/ PingFails \/ ContextDone \/ AnswerPing \/ PeerChanges
  BY <1>2 DEF WritePing, PingFails, ContextDone, AnswerPing, PeerChanges
<1>3. CASE ReadPong \/ ReadClose \/ UpReads \/ UpReadFails \/ UpWrites
  BY <1>3 DEF ReadPong, ReadClose, UpReads, UpReadFails, UpWrites
<1>4. CASE DownReads \/ DownReadFails \/ DownWrites \/ Report
  BY <1>4 DEF DownReads, DownReadFails, DownWrites, Report
<1>5. CASE CloseFrame
  BY <1>5 DEF CloseFrame, Open
<1>6. CASE NextSession \/ Tick \/ UNCHANGED vars
  BY <1>6 DEF NextSession, Tick, vars
<1> QED BY <1>1, <1>2, <1>3, <1>4, <1>5, <1>6, Actions

\* Records of flags.
LEMMA WithAsked ==
  ASSUME NEW q, NEW r, NEW t
  PROVE  [[state |-> "open", asked |-> q, replied |-> r] EXCEPT !.asked = t]
           = [state |-> "open", asked |-> t, replied |-> r]
  OBVIOUS

LEMMA WithReplied ==
  ASSUME NEW q, NEW r, NEW t
  PROVE  [[state |-> "open", asked |-> q, replied |-> r] EXCEPT !.replied = t]
           = [state |-> "open", asked |-> q, replied |-> t]
  OBVIOUS

\* The session of the page, as the proxy has it.
PageConn ==
  [state |-> IF pc = "idle" THEN "none" ELSE IF Open THEN "open" ELSE "over",
   asked |-> asked, replied |-> replied]

LEMMA SessionInit == Init => PageConn = Session!NoConn
  BY DEF Init, PageConn, Session!NoConn

LEMMA SessionNext ==
  ClosingInv /\ [Next]_vars => Session!Step(PageConn, PageConn') \/ UNCHANGED PageConn
<1> SUFFICES ASSUME ClosingInv, [Next]_vars
             PROVE  Session!Step(PageConn, PageConn') \/ UNCHANGED PageConn
  OBVIOUS
<1> USE DEF ClosingInv, TypeOK, PageConn, Open, goroutines, peers, timers, closing
<1>1. CASE Upgrade
  BY <1>1 DEF Upgrade, Session!Step, Session!Opens
<1>2. CASE DialFails \/ FirstError
  BY <1>2 DEF DialFails, FirstError, Return, Session!Step, Session!Drops
<1>3. CASE CloseFrame
  <2>1. /\ PageConn = [state |-> "open", asked |-> asked, replied |-> replied]
        /\ ~ asked
    BY <1>3 DEF CloseFrame
  <2>2. PageConn' = [state |-> "open", asked |-> TRUE, replied |-> replied]
    BY ONLY Zenon, <1>3, <2>1 DEF CloseFrame, goroutines, PageConn, Open
  <2> HIDE DEF PageConn
  <2>3. Session!Asks(PageConn, PageConn')
    <3>1. PageConn.state = "open" /\ ~ PageConn.asked
      BY <2>1
    <3>2. PageConn' = [PageConn EXCEPT !.asked = TRUE]
      BY ONLY <2>1, <2>2, WithAsked
    <3> QED BY <3>1, <3>2 DEF Session!Asks
  <2> QED BY <2>3 DEF Session!Step
<1>4. CASE ReadClose
  <2>1. CASE replied'
    <3>1. PageConn = [state |-> "open", asked |-> asked, replied |-> replied] /\ asked
      BY <1>4 DEF ReadClose
    <3>2. PageConn' = [state |-> "open", asked |-> asked, replied |-> TRUE]
      BY ONLY Zenon, <1>4, <2>1 DEF ReadClose, PageConn, Open
    <3> HIDE DEF PageConn
    <3>3. Session!Replies(PageConn, PageConn')
      <4>1. PageConn.state = "open" /\ PageConn.asked
        BY <3>1
      <4>2. PageConn' = [PageConn EXCEPT !.replied = TRUE]
        BY ONLY <3>1, <3>2, WithReplied
      <4> QED BY <4>1, <4>2 DEF Session!Replies
    <3> QED BY <3>3 DEF Session!Step
  <2>2. CASE ~ replied'
    BY <2>2, <1>4 DEF ReadClose
  <2> QED BY <2>1, <2>2
<1>5. CASE NextSession
  BY <1>5 DEF NextSession, Session!Step, Session!Ends, Session!NoConn
<1>6. CASE DialSucceeds \/ WritePing \/ PingFails \/ ContextDone \/ Tick \/ UNCHANGED vars
  BY <1>6 DEF DialSucceeds, WritePing, PingFails, ContextDone, Tick, vars
<1>7. CASE ReadPong \/ UpReads \/ UpReadFails \/ UpWrites
  BY <1>7 DEF ReadPong, UpReads, UpReadFails, UpWrites
<1>8. CASE DownReads \/ DownReadFails \/ DownWrites \/ Report
  BY <1>8 DEF DownReads, DownReadFails, DownWrites, Report
<1>9. CASE AnswerPing \/ PeerChanges
  BY <1>9 DEF AnswerPing, PeerChanges
<1> QED BY <1>1, <1>2, <1>3, <1>4, <1>5, <1>6, <1>7, <1>8, <1>9, Actions

\* The proxy implements the session that the page counts on: it sends a close
\* frame only in reply to the page's.
THEOREM ImplementsSession == Spec => SessionAsPromised
<1>1. ClosingInv /\ [Next]_vars
        => [Session!Step(PageConn, PageConn')]_PageConn
  BY SessionNext
<1> QED BY <1>1, ClosingInit, ClosingNext, SessionInit, PTL
        DEF Spec, SessionAsPromised, Session!SessionSpec, PageConn

=============================================================================
