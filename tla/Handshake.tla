------------------------------- MODULE Handshake -------------------------------
(***************************************************************************)
(* The beginning of a connection as the two byte streams of its socket:    *)
(* the HTTP request and its answer (http.cpp, server.cpp, client.cpp), the *)
(* upgrade, and the frames that follow in the same streams                 *)
(* (ws_connection.cpp), whose contents are those of Packets.               *)
(*                                                                         *)
(* A stream is a sequence of units: the head of a message is some units    *)
(* and its blank line, a body is some units, and a frame is FrameUnits of  *)
(* them.  A read may return less than was sent.  Where the head ends only  *)
(* the reader knows: what it reads beyond that is lost to the frames.      *)
(***************************************************************************)
EXTENDS Packets

CONSTANTS
  HeadUnits,    \* the length of a head before its blank line
  BodyUnits,    \* Content-Length of the request of an HTTP client
  FrameUnits,   \* the length of a frame
  MaxHead       \* MAX_HEADER_SIZE

ASSUME LengthsAssumption ==
  /\ HeadUnits \in Nat /\ BodyUnits \in Nat \ {0} /\ FrameUnits \in Nat \ {0}
  /\ MaxHead \in Nat /\ HeadUnits < MaxHead

\* The text that stands for a client's id, and for what a client sends.
ASSUME IdAssumption == "id" \in Strings

VARIABLES
  kind,       \* the request: "upgrade", one that is "refused", one with a "body", or "endless"
  up, down,   \* the units under way to the server and to the client
  upEnd, downEnd,   \* the sender of the stream has closed it
  srv, cli,         \* where the connection's thread and the client stand
  srvRead, cliRead, \* how many units of the head, or of the body, have been read
  reply,      \* what write_response or the upgrade has still to write
  srvPending, cliPending, \* pending_recv_
  srvSent, cliSent,       \* how many frames have been sent
  payload,    \* the data of the server's last event
  srvHandled, cliHandled  \* the frames handled, as parse_frame gives them

upVars == <<up, upEnd>>
downVars == <<down, downEnd>>
serverVars == <<srv, srvRead, reply, srvPending, srvSent, srvHandled, payload>>
clientVars == <<cli, cliRead, cliPending, cliSent, cliHandled, kind>>
vars == <<upVars, downVars, serverVars, clientVars>>

-----------------------------------------------------------------------------
(* Messages. *)

HeadUnit == [unit |-> "head", ok |-> FALSE]
BlankLine(ok) == [unit |-> "blank", ok |-> ok]
BodyUnit == [unit |-> "body"]
HeadOf(n, ok) == [i \in 1..n |-> HeadUnit] \o <<BlankLine(ok)>>
BodyOf(n) == [i \in 1..n |-> BodyUnit]
Frame(f) == [i \in 1..FrameUnits |-> [unit |-> "frame", frame |-> f, part |-> i]]

Request(k) ==
  CASE k = "endless" -> [i \in 1..MaxHead |-> HeadUnit]
    [] k = "body" -> HeadOf(HeadUnits, TRUE) \o BodyOf(BodyUnits)
    [] OTHER -> HeadOf(HeadUnits, TRUE)

\* What the server sends on a connection: the three frames of the greeting, then events.
\* One event with any payload stands for all that follow.
ServerFrames ==
  <<build_open_frame("sid", 25000, 5000), build_connect_ack_frame,
    build_event_frame("CLIENT_ID_SET", [t |-> "str", s |-> "id"]),
    build_event_frame("message", payload)>>
\* What a client sends; the library's own client never sends the last one.
ClientFrames ==
  <<PING_PACKET, build_event_frame("message", [t |-> "str", s |-> "id"]), build_disconnect_frame>>

\* What they are to who parses them.
ServerMeans ==
  <<[kind |-> "Open", sid |-> "sid", pingInterval |-> 25000, pingTimeout |-> 5000],
    [kind |-> "Connect"],
    [kind |-> "Event", event |-> "CLIENT_ID_SET", data |-> [t |-> "str", s |-> "id"]],
    [kind |-> "Event", event |-> "message", data |-> Canonical[payload]]>>
ClientMeans ==
  <<[kind |-> "Ping"], [kind |-> "Event", event |-> "message", data |-> [t |-> "str", s |-> "id"]],
    [kind |-> "Disconnect"]>>

-----------------------------------------------------------------------------
TypeOK ==
  /\ kind \in {"none", "upgrade", "refused", "body", "endless"}
  /\ upEnd \in BOOLEAN /\ downEnd \in BOOLEAN
  /\ srv \in {"head", "body", "reply", "greet", "open", "gone"}
  /\ cli \in {"start", "head", "open", "gone"}
  /\ srvRead \in 0..MaxHead + BodyUnits /\ cliRead \in 0..MaxHead
  /\ srvSent \in 0..Len(ServerFrames) /\ cliSent \in 0..Len(ClientFrames)
  /\ Len(srvPending) < FrameUnits /\ Len(cliPending) < FrameUnits
  /\ payload \in Values
  /\ Len(srvHandled) <= cliSent /\ Len(cliHandled) <= srvSent

Init ==
  /\ kind = "none" /\ up = <<>> /\ down = <<>> /\ upEnd = FALSE /\ downEnd = FALSE
  /\ srv = "head" /\ cli = "start" /\ srvRead = 0 /\ cliRead = 0 /\ reply = <<>>
  /\ srvPending = <<>> /\ cliPending = <<>> /\ srvSent = 0 /\ cliSent = 0
  /\ payload = Null
  /\ srvHandled = <<>> /\ cliHandled = <<>>

-----------------------------------------------------------------------------
(* Plausible bugs. *)

\* The head is read in whatever pieces arrive.
ReadsInPieces(stream) == 1..Len(stream)

\* A head may go on for ever.
NoLimit(n) == FALSE

-----------------------------------------------------------------------------
(* Reading. *)

After(stream, n) == SubSeq(stream, n + 1, Len(stream))

\* A head is read one byte at a time, so that nothing behind it is touched.
HeadReads(stream) == {1}
HeadEnds(taken) == \E i \in DOMAIN taken : taken[i].unit = "blank"
Accepted(taken) == \E i \in DOMAIN taken : taken[i].unit = "blank" /\ taken[i].ok
TooLong(n) == n >= MaxHead

\* Frames are taken from what has been received, as far as they are complete.
Complete(units) == Len(units) \div FrameUnits
Parsed(units, frames) ==
  [i \in 1..Complete(units) |-> parse_frame(frames[units[i * FrameUnits].frame])]
Incomplete(units) == After(units, Complete(units) * FrameUnits)

-----------------------------------------------------------------------------
(* The server's connection thread. *)

\* handle_connection returns: the socket is closed.
ServerLeaves ==
  /\ srv' = "gone" /\ downEnd' = TRUE
  /\ UNCHANGED <<srvRead, reply, srvPending, srvSent, srvHandled, payload, down>>

\* What follows the head: the rest of the request, or the answer.
HeadIsRead ==
  IF kind = "body"
    THEN srv' = "body" /\ srvRead' = 0 /\ UNCHANGED reply
    ELSE srv' = "reply" /\ reply' = HeadOf(HeadUnits, kind = "upgrade") /\ UNCHANGED srvRead

ServerReadsHead ==
  /\ srv = "head" /\ up # <<>>
  /\ \E n \in HeadReads(up) :
       /\ up' = After(up, n)
       /\ IF HeadEnds(SubSeq(up, 1, n))
            THEN HeadIsRead /\ UNCHANGED <<downVars, srvPending, srvSent, srvHandled, payload>>
            ELSE IF TooLong(srvRead + n) THEN ServerLeaves
            ELSE srvRead' = srvRead + n
                 /\ UNCHANGED <<srv, reply, srvPending, srvSent, srvHandled, payload, downVars>>
  /\ UNCHANGED <<upEnd, clientVars>>

\* The body may come in pieces.
ServerReadsBody ==
  /\ srv = "body" /\ up # <<>>
  /\ \E n \in 1..Len(up) :
       /\ srvRead + n <= BodyUnits
       /\ up' = After(up, n) /\ srvRead' = srvRead + n
       /\ IF srvRead + n = BodyUnits THEN srv' = "reply" /\ reply' = HeadOf(HeadUnits, FALSE)
                                    ELSE UNCHANGED <<srv, reply>>
  /\ UNCHANGED <<upEnd, downVars, clientVars, srvPending, srvSent, srvHandled, payload>>

\* A write may be short; write_response goes on with the rest.  (The 101 is one write of a few bytes
\* to an empty buffer, which takes them all.)  Then the connection is upgraded or closed.
ServerReplies ==
  /\ srv = "reply"
  /\ \E n \in 1..Len(reply) :
       /\ kind = "upgrade" => n = Len(reply)
       /\ down' = down \o SubSeq(reply, 1, n) /\ reply' = After(reply, n)
       /\ IF n < Len(reply) THEN UNCHANGED <<srv, downEnd>>
          ELSE /\ srv' = IF kind = "upgrade" THEN "greet" ELSE "gone"
               /\ downEnd' = (kind # "upgrade")
  /\ UNCHANGED <<srvRead, srvPending, srvSent, srvHandled, payload, upVars, clientVars>>

\* The greeting comes before run_recv_loop; what rooms send comes after it.
ServerSends ==
  /\ srv \in {"greet", "open"} /\ srvSent < Len(ServerFrames)
  /\ srvSent' = srvSent + 1 /\ down' = down \o Frame(srvSent + 1)
  /\ IF srvSent' = Len(ServerFrames) THEN payload' \in Values ELSE UNCHANGED payload
  /\ srv' = IF srvSent' = 3 THEN "open" ELSE srv
  /\ UNCHANGED <<srvRead, reply, srvPending, srvHandled, downEnd, upVars, clientVars>>

ServerReceives ==
  /\ srv = "open" /\ up # <<>>
  /\ \E n \in 1..Len(up) :
       LET received == srvPending \o SubSeq(up, 1, n)
       IN /\ up' = After(up, n)
          /\ srvHandled' = srvHandled \o Parsed(received, ClientFrames)
          /\ srvPending' = Incomplete(received)
  /\ UNCHANGED <<srv, srvRead, reply, srvSent, payload, upEnd, downVars, clientVars>>

ServerFindsEnd ==
  /\ srv \in {"head", "body", "open"} /\ up = <<>> /\ upEnd
  /\ ServerLeaves
  /\ UNCHANGED <<upVars, clientVars>>

-----------------------------------------------------------------------------
(* The client, or an HTTP client that sends another request. *)

ClientLeaves ==
  /\ cli' = "gone" /\ upEnd' = TRUE
  /\ UNCHANGED <<up, cliPending, cliSent, cliHandled, kind>>

ClientAsks(k) ==
  /\ cli = "start" /\ cli' = "head"
  /\ kind' = k /\ up' = Request(k)
  /\ UNCHANGED <<upEnd, cliRead, cliPending, cliSent, cliHandled, downVars, serverVars>>

\* read_response_headers, and the test for 101.
ClientReadsHead ==
  /\ cli = "head" /\ down # <<>>
  /\ \E n \in HeadReads(down) :
       /\ down' = After(down, n)
       /\ LET taken == SubSeq(down, 1, n)
          IN IF Accepted(taken)
               THEN cli' = "open" /\ UNCHANGED <<upVars, cliRead, cliPending, cliSent, cliHandled, kind>>
             ELSE IF HeadEnds(taken) \/ TooLong(cliRead + n) THEN ClientLeaves /\ UNCHANGED cliRead
             ELSE cliRead' = cliRead + n
                  /\ UNCHANGED <<upVars, cli, cliPending, cliSent, cliHandled, kind>>
  /\ UNCHANGED <<downEnd, serverVars>>

ClientSends ==
  /\ cli = "open" /\ cliSent < Len(ClientFrames)
  /\ cliSent' = cliSent + 1 /\ up' = up \o Frame(cliSent + 1)
  /\ UNCHANGED <<upEnd, downVars, serverVars, cli, cliRead, cliPending, cliHandled, kind>>

ClientReceives ==
  /\ cli = "open" /\ down # <<>>
  /\ \E n \in 1..Len(down) :
       LET received == cliPending \o SubSeq(down, 1, n)
       IN /\ down' = After(down, n)
          /\ cliHandled' = cliHandled \o Parsed(received, ServerFrames)
          /\ cliPending' = Incomplete(received)
  /\ UNCHANGED <<cli, cliRead, cliSent, kind, downEnd, upVars, serverVars>>

ClientFindsEnd ==
  /\ cli \in {"head", "open"} /\ down = <<>> /\ downEnd
  /\ ClientLeaves
  /\ UNCHANGED <<cliRead, downVars, serverVars>>

\* A peer may close its side at any time.
ClientCloses ==
  /\ cli \in {"head", "open"}
  /\ ClientLeaves
  /\ UNCHANGED <<cliRead, downVars, serverVars>>

-----------------------------------------------------------------------------
ServerStep ==
  ServerReadsHead \/ ServerReadsBody \/ ServerReplies \/ ServerSends \/ ServerReceives \/ ServerFindsEnd

Next ==
  \/ ServerReadsHead \/ ServerReadsBody \/ ServerReplies \/ ServerSends \/ ServerReceives
  \/ ServerFindsEnd
  \/ \E k \in {"upgrade", "refused", "body", "endless"} : ClientAsks(k)
  \/ ClientReadsHead \/ ClientSends \/ ClientReceives \/ ClientFindsEnd \/ ClientCloses

Spec == Init /\ [][Next]_vars

\* The threads of both sides run, and the network carries what is written.
FairSpec == Spec /\ WF_vars(ServerStep) /\ WF_vars(ClientReadsHead \/ ClientFindsEnd)

-----------------------------------------------------------------------------
(* Properties. *)

\* The units of the frames 1 to n.
UnitsOf(n) ==
  [i \in 1..n * FrameUnits |-> Frame((i - 1) \div FrameUnits + 1)[((i - 1) % FrameUnits) + 1]]

\* http.cpp:13, client.cpp:23: neither side's reading of a head or a body takes anything of the
\* frames behind it: on an upgraded connection every frame sent is handled, as what it
\* was and in its order, or waits in pending_recv_ or in the stream.
NothingIsLost ==
  /\ cli = "open" =>
       UnitsOf(Len(cliHandled)) \o cliPending \o down = UnitsOf(srvSent)
  /\ srv \in {"greet", "open"} =>
       UnitsOf(Len(srvHandled)) \o srvPending \o up = UnitsOf(cliSent)

\* sio_protocol.cpp:20, msgpack_codec.cpp:9: the frames handled are those sent: an event comes with its
\* name and its data, which is null if it was null, and has the same numbers, texts and structure.
FramesKeepTheirMeaning ==
  /\ cliHandled = SubSeq(ServerMeans, 1, Len(cliHandled))
  /\ srvHandled = SubSeq(ClientMeans, 1, Len(srvHandled))

\* client.cpp:247, server.cpp:316: a handshake with a server that runs ends, whatever was asked:
\* neither side waits for a byte that the other will not send.
HandshakeEnds == (cli = "head") ~> (cli \in {"open", "gone"})
=============================================================================
