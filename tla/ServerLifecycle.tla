---------------------------- MODULE ServerLifecycle ----------------------------
(***************************************************************************)
(* The life of a Server: listen(), run_forever(), shutdown() and ~Server   *)
(* of server/src/server.cpp, with the accept thread and the detached       *)
(* connection threads that they race with.                                 *)
(*                                                                         *)
(* shutdown() is called once, by another thread while the main thread is   *)
(* up or in run_forever(), or by the destructor.  Its steps are the values *)
(* of sd.  A destructor that finds another thread inside shutdown() does   *)
(* not wait for it and destroys the members: with accept_thread_ joinable  *)
(* that terminates the process, later the other thread goes on in freed    *)
(* memory.  Nothing is said of what follows (main is "wrecked").           *)
(*                                                                         *)
(* What a handler does to the rooms is RoomServer's matter; here a         *)
(* connection thread is only where it stands and whether it has an entry   *)
(* in connections_.                                                        *)
(***************************************************************************)
EXTENDS Naturals

CONSTANTS
  Conns,     \* connections that peers may open
  Tls        \* the server has a TlsContext

ASSUME TlsAssumption == Tls \in BOOLEAN

VARIABLES
  flag,       \* shutting_down_
  sd,         \* the next step of shutdown()
  main,       \* where the main thread stands
  acceptor,   \* where accept_loop stands
  listening,  \* the listening socket
  conn,       \* where each connection stands
  entries,    \* the keys of connections_
  shut,       \* connections whose socket shutdown() has shut
  late,       \* history: threads that shutdown() found started and not registered
  missed      \* history: the notification fell between the main thread's test and its wait

stopVars == <<flag, sd, late>>
mainVars == <<main, missed>>
acceptVars == <<acceptor, listening>>
connVars == <<conn, entries, shut>>
vars == <<stopVars, mainVars, acceptVars, connVars>>

TypeOK ==
  /\ flag \in BOOLEAN /\ missed \in BOOLEAN
  /\ sd \in {"idle", "socket", "join", "walk", "callback", "notify", "done"}
  /\ main \in {"new", "up", "testing", "decided", "waiting", "left", "stopping", "destroyed", "wrecked"}
  /\ acceptor \in {"none", "test", "accept", "handshake", "ended"}
  /\ listening \in {"none", "open", "shut", "closed"}
  /\ conn \in [Conns -> {"away", "backlog", "handshake", "started", "served", "ending", "gone"}]
  /\ entries \subseteq Conns /\ shut \subseteq Conns /\ late \subseteq Conns

Init ==
  /\ flag = FALSE /\ sd = "idle" /\ late = {}
  /\ main = "new" /\ missed = FALSE
  /\ acceptor = "none" /\ listening = "none"
  /\ conn = [c \in Conns |-> "away"] /\ entries = {} /\ shut = {}

-----------------------------------------------------------------------------
(* Plausible bugs. *)

\* The listening socket is closed without being shut down first.
OnlyClosed == "closed"

\* The connections are closed before the accept thread has been joined.
NotJoined == TRUE

\* shutdown() sets the flag and forgets the notification.
NotNotified == main

-----------------------------------------------------------------------------
(* The main thread. *)

\* listen(): bind, then start the accept thread.
Listen ==
  /\ main = "new" /\ main' = "up"
  /\ listening' = "open" /\ acceptor' = "test"
  /\ UNCHANGED <<stopVars, connVars, missed>>

EnterRunForever ==
  /\ main = "up" /\ main' = "testing"
  /\ UNCHANGED <<stopVars, acceptVars, connVars, missed>>

\* The predicate of run_forever_cv_.wait, tested under run_forever_mutex_.
TestFlag ==
  /\ main = "testing"
  /\ main' = IF flag THEN "left" ELSE "decided"
  /\ UNCHANGED <<stopVars, acceptVars, connVars, missed>>

\* The wait itself; the notifier does not hold the mutex, so it may come first.
StartWaiting ==
  /\ main = "decided" /\ main' = "waiting"
  /\ UNCHANGED <<stopVars, acceptVars, connVars, missed>>

WakeSpuriously ==
  /\ main = "waiting" /\ main' = "testing"
  /\ UNCHANGED <<stopVars, acceptVars, connVars, missed>>

\* ~Server runs shutdown() unless the flag says that someone has called it.
DestructorShutsDown == ~flag

\* The Server is destroyed after run_forever(), or by an application that never enters it; a
\* shutdown() of another thread may not be over then.
Destroy ==
  /\ main \in {"left", "up"}
  /\ IF DestructorShutsDown
       THEN main' = "stopping" /\ flag' = TRUE /\ sd' = "socket"
       ELSE main' = (IF sd = "done" THEN "destroyed" ELSE "wrecked") /\ UNCHANGED <<flag, sd>>
  /\ UNCHANGED <<late, acceptVars, connVars, missed>>

FinishDestroying ==
  /\ main = "stopping" /\ sd = "done" /\ main' = "destroyed"
  /\ UNCHANGED <<stopVars, acceptVars, connVars, missed>>

-----------------------------------------------------------------------------
(* shutdown(), on the thread that calls it. *)

CallShutdown ==
  /\ sd = "idle" /\ main \in {"up", "testing", "decided", "waiting"}
  /\ flag' = TRUE /\ sd' = "socket"
  /\ UNCHANGED <<late, mainVars, acceptVars, connVars>>

\* What is left of the listening socket: ::shutdown wakes a thread blocked in accept, ::close alone does not.
ListeningAfterwards == "shut"

CloseListening ==
  /\ sd = "socket" /\ sd' = "join"
  /\ listening' = ListeningAfterwards
  /\ conn' = [c \in Conns |-> IF conn[c] = "backlog" THEN "gone" ELSE conn[c]]
  /\ UNCHANGED <<flag, late, mainVars, acceptor, entries, shut>>

AcceptThreadEnded == acceptor = "ended"

JoinAcceptThread ==
  /\ sd = "join" /\ AcceptThreadEnded
  /\ sd' = "walk"
  /\ UNCHANGED <<flag, late, mainVars, acceptVars, connVars>>

\* Under the game lock: close every connection that has an entry, dispose every room.
CloseConnections ==
  /\ sd = "walk" /\ sd' = "callback"
  /\ shut' = shut \cup entries
  /\ late' = {c \in Conns : conn[c] = "started"}
  /\ UNCHANGED <<flag, mainVars, acceptVars, conn, entries>>

CallOnDispose ==
  /\ sd = "callback" /\ sd' = "notify"
  /\ UNCHANGED <<flag, late, mainVars, acceptVars, connVars>>

\* run_forever_cv_.notify_all() reaches a main thread that waits.
MainAfterNotify == IF main = "waiting" THEN "testing" ELSE main

NotifyMain ==
  /\ sd = "notify" /\ sd' = "done"
  /\ main' = MainAfterNotify
  /\ missed' = (main = "decided")
  /\ UNCHANGED <<flag, late, acceptVars, connVars>>

-----------------------------------------------------------------------------
(* The accept thread. *)

\* The condition of accept_loop.
TestBeforeAccept ==
  /\ acceptor = "test"
  /\ acceptor' = IF flag THEN "ended" ELSE "accept"
  /\ UNCHANGED <<stopVars, mainVars, listening, connVars>>

\* With TLS the handshake follows on this thread; otherwise the connection's thread starts at once.
Accept(c) ==
  /\ acceptor = "accept" /\ listening = "open" /\ conn[c] = "backlog"
  /\ acceptor' = IF Tls THEN "handshake" ELSE "test"
  /\ conn' = [conn EXCEPT ![c] = IF Tls THEN "handshake" ELSE "started"]
  /\ UNCHANGED <<stopVars, mainVars, listening, entries, shut>>

\* accept fails now and then, and for good when the socket has been shut.
AcceptFails ==
  /\ acceptor = "accept" /\ acceptor' = "test"
  /\ listening \in {"open", "shut"}
  /\ UNCHANGED <<stopVars, mainVars, listening, connVars>>

\* SSL_accept returns: the connection's thread starts, or the socket is closed.
EndHandshake(c) ==
  /\ acceptor = "handshake" /\ conn[c] = "handshake"
  /\ acceptor' = "test"
  /\ \E end \in {"started", "gone"} : conn' = [conn EXCEPT ![c] = end]
  /\ UNCHANGED <<stopVars, mainVars, listening, entries, shut>>

-----------------------------------------------------------------------------
(* Peers and the threads that serve them. *)

Connect(c) ==
  /\ conn[c] = "away" /\ listening = "open"
  /\ conn' = [conn EXCEPT ![c] = "backlog"]
  /\ UNCHANGED <<stopVars, mainVars, acceptVars, entries, shut>>

\* The request is an upgrade: connections_ gets an entry and the thread goes on to run_recv_loop.
Register(c) ==
  /\ conn[c] = "started"
  /\ conn' = [conn EXCEPT ![c] = "served"]
  /\ entries' = entries \cup {c}
  /\ UNCHANGED <<stopVars, mainVars, acceptVars, shut>>

\* It is not, or it cannot be read.
Refuse(c) ==
  /\ conn[c] = "started"
  /\ conn' = [conn EXCEPT ![c] = "gone"]
  /\ UNCHANGED <<stopVars, mainVars, acceptVars, entries, shut>>

\* A Socket.IO Disconnect packet erases the entry and leaves the connection open.
DisconnectPacket(c) ==
  /\ conn[c] = "served" /\ c \in entries
  /\ entries' = entries \ {c}
  /\ UNCHANGED <<stopVars, mainVars, acceptVars, conn, shut>>

\* The receive loop ends: the socket is shut or the peer has gone.
LeaveRecvLoop(c) ==
  /\ conn[c] = "served"
  /\ conn' = [conn EXCEPT ![c] = "ending"]
  /\ UNCHANGED <<stopVars, mainVars, acceptVars, entries, shut>>

\* The close handler, then handle_connection returns.
EndConnection(c) ==
  /\ conn[c] = "ending"
  /\ conn' = [conn EXCEPT ![c] = "gone"]
  /\ entries' = entries \ {c}
  /\ UNCHANGED <<stopVars, mainVars, acceptVars, shut>>

-----------------------------------------------------------------------------
Wrecked == main = "wrecked"

Next ==
  /\ ~Wrecked
  /\ \/ Listen \/ EnterRunForever \/ TestFlag \/ StartWaiting \/ WakeSpuriously
     \/ Destroy \/ FinishDestroying
     \/ CallShutdown \/ CloseListening \/ JoinAcceptThread \/ CloseConnections
     \/ CallOnDispose \/ NotifyMain
     \/ TestBeforeAccept \/ AcceptFails
     \/ \E c \in Conns :
          \/ Accept(c) \/ EndHandshake(c) \/ Connect(c) \/ Register(c) \/ Refuse(c)
          \/ DisconnectPacket(c) \/ LeaveRecvLoop(c) \/ EndConnection(c)

Spec == Init /\ [][Next]_vars

\* The main thread, shutdown() and the accept thread run where they wait for nobody outside the
\* process, and on_dispose_ returns.  No peer is fair: a TLS handshake may last for ever, and so
\* may the walk over the connections, which writes to them with the game lock in its hands.
FairSpec ==
  /\ Spec
  /\ WF_vars(TestFlag \/ StartWaiting)
  /\ WF_vars(~Wrecked /\ (CloseListening \/ JoinAcceptThread \/ CallOnDispose \/ NotifyMain))
  /\ WF_vars(~Wrecked /\ TestBeforeAccept)
  /\ WF_vars(~Wrecked /\ AcceptFails /\ listening = "shut")

-----------------------------------------------------------------------------
(* Properties. *)

\* server.cpp:155-157 closes the connections after the accept thread is joined: every connection
\* then served is shut, but those whose entry a Disconnect packet had erased and those whose
\* thread had started and not registered.  A connection accepted meanwhile is not missed.
ShutdownReachesConnections ==
  sd \in {"callback", "notify", "done"} =>
    \A c \in Conns : conn[c] = "served" => c \in shut \/ c \in late \/ c \notin entries

\* SSL_accept (server.cpp:130) and the walk under the game lock (153-168) have no timeout: they
\* last as long as a peer is silent or reads nothing.
WaitsForPeer == acceptor = "handshake" \/ sd = "walk"

\* server.cpp:142: shutdown() comes to its end whatever accept_loop was doing, a thread blocked in
\* accept included, unless a peer keeps it waiting for ever or the Server is destroyed under it.
ShutdownReturns == (sd # "idle") ~> (sd = "done" \/ Wrecked \/ []WaitsForPeer)

\* server.cpp:115: after shutdown() the main thread leaves run_forever(), unless the one
\* notification fell between its test and its wait.
RunForeverReturns == (sd = "done") ~> (main \notin {"testing", "decided", "waiting"} \/ missed)

=============================================================================
