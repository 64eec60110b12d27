------------------------------- MODULE KeepAlive -------------------------------
(***************************************************************************)
(* The keep-alive of one connection: the client's pings (client.cpp), the  *)
(* server's idle check (server.cpp) and the receive loop with its timeout  *)
(* of one second that both run in (ws_connection.cpp).                     *)
(*                                                                         *)
(* on_idle runs only when a whole poll period has brought no data, and on  *)
(* the thread that calls the handlers.  Time is counted in seconds since   *)
(* what the code remembers or waits for; what is due happens before the    *)
(* next second, but handlers and the locks that the server's receiving     *)
(* thread takes may keep it for any time.  (A client kept by a handler is  *)
(* one that hears something every second.)  Ages are cut off at a bound    *)
(* beyond which nothing depends on them.                                   *)
(***************************************************************************)
EXTENDS Naturals

CONSTANTS
  Interval,  \* PING_INTERVAL_MS, ping_interval_ms_
  Timeout,   \* PING_TIMEOUT_MS
  Poll,      \* SO_RCVTIMEO of run_recv_loop
  Delay,     \* the longest that a frame is under way
  NoPing       \* no ping is under way

ASSUME TimesAssumption ==
  /\ Interval \in Nat /\ Timeout \in Nat /\ Poll \in Nat \ {0} /\ Delay \in Nat
  /\ Delay < Interval
  /\ Poll + 2 * Delay < Timeout
ASSUME NoPingAssumption == NoPing \notin Nat

VARIABLES
  open,        \* the server has not closed the connection as idle
  alive,       \* the client runs and the network carries its frames
  sincePing,   \* client: the time since last_ping
  clientQuiet, \* client: the time its read has been blocked
  ping,        \* the age of the ping that is under way, or NoPing
  sinceHeard,  \* server: the time since last_activity_ms
  serverQuiet, \* server: the time its read has been blocked
  reader,      \* server: where the receiving thread stands, with what it has read
  inbox,       \* server: what has arrived and is not read
  unpolled,    \* history: the time since the client's on_idle last ran
  starved,     \* history: data kept on_idle of the client from running for too long
  undisturbed  \* history: the time the receiving thread has only read and timed out

clientVars == <<alive, sincePing, clientQuiet, unpolled, starved>>
readerVars == <<serverQuiet, reader, undisturbed>>
serverVars == <<open, sinceHeard, readerVars, inbox>>
keepAliveVars == <<clientVars, serverVars, ping>>

Cap == Interval + Timeout + Poll + 1
Aged(age, bound) == IF age < bound THEN age + 1 ELSE age
Later(age) == Aged(age, Cap)

KeepAliveTypeOK ==
  /\ open \in BOOLEAN /\ alive \in BOOLEAN /\ starved \in BOOLEAN
  /\ sincePing \in 0..Cap /\ sinceHeard \in 0..Cap /\ unpolled \in 0..Cap
  /\ clientQuiet \in 0..Poll /\ serverQuiet \in 0..Poll
  /\ ping \in 0..Delay \cup {NoPing}
  /\ reader \in {"reading", "fragment", "message", "handling"}
  /\ inbox \in {"nothing", "fragment", "message"}
  /\ undisturbed \in 0..(Poll + 1)

\* Each side takes the time when its loop starts; the two starts are a frame's way apart at most.
KeepAliveInit ==
  /\ open = TRUE /\ alive = TRUE /\ ping = NoPing /\ unpolled = 0 /\ starved = FALSE
  /\ clientQuiet = 0 /\ serverQuiet = 0 /\ undisturbed = 0
  /\ reader = "reading" /\ inbox = "nothing"
  /\ sincePing \in 0..Delay /\ sinceHeard \in 0..Delay
  /\ sincePing = 0 \/ sinceHeard = 0

-----------------------------------------------------------------------------
(* Plausible bugs. *)

\* The server allows for the interval and forgets the timeout.
IntervalOnly == sinceHeard >= Interval

\* The server's socket has no receive timeout.
BlocksForEver == FALSE

-----------------------------------------------------------------------------
(* The client. *)

\* Data from the server of any kind: the read returns and on_idle does not run.
ClientHears ==
  /\ open /\ alive /\ clientQuiet > 0
  /\ clientQuiet' = 0
  /\ UNCHANGED <<alive, sincePing, unpolled, starved, serverVars, ping>>

\* The read times out: on_idle sends a ping if the last one is old enough.
ClientPolls ==
  /\ open /\ alive /\ clientQuiet = Poll
  /\ clientQuiet' = 0 /\ unpolled' = 0
  /\ IF sincePing >= Interval
       THEN sincePing' = 0 /\ ping' = 0
       ELSE UNCHANGED <<sincePing, ping>>
  /\ UNCHANGED <<alive, starved, serverVars>>

\* The client or the network fails without a word; what is under way is lost.
ClientDies ==
  /\ open /\ alive /\ alive' = FALSE
  /\ ping' = NoPing
  /\ UNCHANGED <<sincePing, clientQuiet, unpolled, starved, serverVars>>

-----------------------------------------------------------------------------
(* The server. *)

\* What is in the socket when a frame or a part of one has been added.
InboxWith(data) == IF inbox = "message" THEN inbox ELSE data

PingArrives ==
  /\ open /\ ping # NoPing
  /\ ping' = NoPing /\ inbox' = InboxWith("message")
  /\ UNCHANGED <<open, sinceHeard, readerVars, clientVars>>

\* A message of any other kind, or bytes that complete none: a part of one, a ping of WebSocket.
DataArrives ==
  /\ open /\ alive
  /\ \E data \in {"fragment", "message"} : inbox' = InboxWith(data)
  /\ UNCHANGED <<open, sinceHeard, readerVars, clientVars, ping>>

\* The read returns with all that is there; the lock of the connection comes next.
ServerReads ==
  /\ open /\ reader = "reading" /\ inbox # "nothing"
  /\ reader' = inbox /\ inbox' = "nothing"
  /\ serverQuiet' = 0 /\ undisturbed' = 0
  /\ UNCHANGED <<open, sinceHeard, clientVars, ping>>

DropFragment ==
  /\ open /\ reader = "fragment" /\ reader' = "reading"
  /\ UNCHANGED <<open, sinceHeard, serverQuiet, undisturbed, inbox, clientVars, ping>>

\* handle_ws_payload, once it has the game lock, stores the time and goes on to the handler.
TakeMessage ==
  /\ open /\ reader = "message" /\ reader' = "handling"
  /\ sinceHeard' = 0
  /\ UNCHANGED <<open, serverQuiet, undisturbed, inbox, clientVars, ping>>

HandlerReturns ==
  /\ open /\ reader = "handling" /\ reader' = "reading"
  /\ UNCHANGED <<open, sinceHeard, serverQuiet, undisturbed, inbox, clientVars, ping>>

ServerReadTimesOut == serverQuiet = Poll
TooLongIdle == sinceHeard >= Interval + Timeout

\* The read times out: on_idle closes a connection that has been idle for too long.
ServerPolls ==
  /\ open /\ reader = "reading" /\ inbox = "nothing" /\ ServerReadTimesOut
  /\ serverQuiet' = 0
  /\ open' = ~TooLongIdle
  /\ UNCHANGED <<sinceHeard, reader, undisturbed, inbox, clientVars, ping>>

-----------------------------------------------------------------------------
Tick ==
  /\ open
  /\ ping # NoPing => ping < Delay
  /\ alive => clientQuiet < Poll
  /\ reader = "reading" => ~ServerReadTimesOut /\ inbox = "nothing"
  /\ ping' = IF ping = NoPing THEN NoPing ELSE ping + 1
  /\ sinceHeard' = Later(sinceHeard)
  /\ IF reader = "reading"
       THEN serverQuiet' = Aged(serverQuiet, Poll) /\ undisturbed' = Aged(undisturbed, Poll + 1)
       ELSE UNCHANGED <<serverQuiet, undisturbed>>
  /\ IF alive
       THEN /\ sincePing' = Later(sincePing) /\ clientQuiet' = clientQuiet + 1
            /\ unpolled' = Later(unpolled)
            /\ starved' = (starved \/ unpolled + 1 + 2 * Delay > Timeout)
       ELSE UNCHANGED <<sincePing, clientQuiet, unpolled, starved>>
  /\ UNCHANGED <<open, alive, reader, inbox>>

KeepAliveNext ==
  \/ ClientHears \/ ClientPolls \/ ClientDies
  \/ PingArrives \/ DataArrives
  \/ ServerReads \/ DropFragment \/ TakeMessage \/ HandlerReturns \/ ServerPolls
  \/ Tick

KeepAliveSpec == KeepAliveInit /\ [][KeepAliveNext]_keepAliveVars

-----------------------------------------------------------------------------
(* Properties. *)

\* server.cpp:370, client.cpp:284: a client that is there is not closed as idle, unless the
\* server's data kept it from its on_idle, which sends the pings, for longer than Timeout less two delays.
LiveClientIsKept == alive /\ ~open => starved

\* server.cpp:370: a connection that has brought no message for the time limit is closed by the
\* next poll, unless bytes have come that complete none, which restart the read (ws_connection.cpp:92),
\* or a handler has kept its thread: then a poll after these have ended.
SilentClientIsClosed ==
  open => sinceHeard < Interval + Timeout + Poll \/ undisturbed <= Poll
=============================================================================
