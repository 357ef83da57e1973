-------------------------- MODULE TerminalSession --------------------------
(***************************************************************************)
(* What a page may count on when it opens a terminal: the envoy answers    *)
(* the upgrade before it knows whether a terminal is behind it, and ends a *)
(* session by dropping the connection.  It sends a close frame only in     *)
(* reply to the page's own, so a close the page did not ask for is never   *)
(* clean.                                                                  *)
(***************************************************************************)
VARIABLE conn   \* one connection of a page to the envoy, as the envoy has it

\* asked: the page has sent a close frame; replied: the envoy has answered it.
Conn == [state : {"none", "open", "over"}, asked : BOOLEAN, replied : BOOLEAN]
NoConn == [state |-> "none", asked |-> FALSE, replied |-> FALSE]

Opens(a, b) == a.state = "none" /\ b = [a EXCEPT !.state = "open"]
Asks(a, b) == a.state = "open" /\ ~ a.asked /\ b = [a EXCEPT !.asked = TRUE]
Replies(a, b) == a.state = "open" /\ a.asked /\ b = [a EXCEPT !.replied = TRUE]
Drops(a, b) == a.state = "open" /\ b = [a EXCEPT !.state = "over"]

\* All that the session used is given back.
Ends(a, b) == a.state = "over" /\ b = NoConn

Step(a, b) == Opens(a, b) \/ Asks(a, b) \/ Replies(a, b) \/ Drops(a, b) \/ Ends(a, b)

SessionSpec == conn = NoConn /\ [][Step(conn, conn')]_conn

=============================================================================
