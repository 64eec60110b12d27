------------------------------ MODULE WsConnection ------------------------------
(***************************************************************************)
(* One WsConnection (ws_connection.cpp) as the server uses it              *)
(* (Server::handle_connection, send_frame_to_client, shutdown).            *)
(*                                                                         *)
(* The connection lives on the stack of its receiving thread.  Other       *)
(* threads reach it through connections_ under the game lock, and take     *)
(* io_mutex_ to send or close; the receiving thread takes io_mutex_ to     *)
(* parse what it has read and releases it before it dispatches the         *)
(* messages, whose handlers take the game lock.  A write blocks while the  *)
(* kernel's send buffer is full.                                           *)
(*                                                                         *)
(* Messages are numbered in the order the peer sends them; 0 is a close    *)
(* frame.  Framing is wslay's, which answers a close frame and takes no    *)
(* frame after a close frame.                                              *)
(***************************************************************************)
EXTENDS Naturals, Sequences

CONSTANTS
  Senders,      \* other threads that hold the game lock in turn
  Receiver,     \* the thread in run_recv_loop
  NoThread,
  MaxMessages,  \* bound: messages of the peer
  BufferSize    \* frames that fit in the send buffer

ASSUME ThreadsAssumption == Receiver \notin Senders /\ NoThread \notin Senders \cup {Receiver}
ASSUME SizesAssumption == MaxMessages \in Nat /\ BufferSize \in Nat \ {0}

VARIABLES
  alive,      \* the WsConnection exists
  entry,      \* connections_ points to it
  game,       \* holder of the game lock
  io,         \* holder of io_mutex_
  closed,     \* closed_
  closing,    \* wslay has queued a close frame
  shut,       \* the socket is shut down, or the TCP connection is gone
  out,        \* frames in the send buffer
  sent,       \* messages the peer has sent
  ended,      \* the peer has sent its close frame
  arriving,   \* frames not yet read from the socket
  chunk,      \* frames read and not yet parsed
  batch,      \* messages to dispatch
  stop,       \* run_recv_loop's flag
  pc,         \* the receiving thread
  use,        \* what each thread does with the connection
  op,         \* what for
  handled     \* history: messages given to the message handler

peerVars == <<sent, ended>>
wsVars == <<closed, closing, shut, out>>
recvVars == <<arriving, chunk, batch, stop, pc, handled>>
useVars == <<use, op>>
vars == <<alive, entry, game, io, wsVars, peerVars, recvVars, useVars>>

Threads == Senders \cup {Receiver}
Frames == 0 .. MaxMessages

(* The types of the variables.                                             *)
TypeOK ==
  /\ {alive, entry, closed, closing, shut, ended, stop} \subseteq BOOLEAN
  /\ {game, io} \subseteq Threads \cup {NoThread}
  /\ out \in 0 .. BufferSize
  /\ sent \in Frames
  /\ {arriving, chunk} \subseteq Seq(Frames)
  /\ {batch, handled} \subseteq Seq(1 .. MaxMessages)
  /\ pc \in {"reading", "own use", "parsing", "dispatching", "handling", "waiting", "resumed",
             "ending", "closing",
             "returning", "gone"}
  /\ use \in [Threads -> {"none", "enter", "write"}]
  /\ op \in [Threads -> {"send", "close"}]

(* After the handshake, with the connection in connections_: the receiving *)
(* thread is about to greet (three frames, taken as one), without the game *)
(* lock.                                                                   *)
Init ==
  /\ alive = TRUE
  /\ entry = TRUE
  /\ game = NoThread
  /\ io = NoThread
  /\ closed = FALSE
  /\ closing = FALSE
  /\ shut = FALSE
  /\ out = 0
  /\ sent = 0
  /\ ended = FALSE
  /\ arriving = <<>>
  /\ chunk = <<>>
  /\ batch = <<>>
  /\ stop = FALSE
  /\ pc = "own use"
  /\ use = [t \in Threads |-> IF t = Receiver THEN "enter" ELSE "none"]
  /\ op = [t \in Threads |-> "send"]
  /\ handled = <<>>

-------------------------------------------------------------------------------
(***************************************************************************)
(* Plausible bugs: each is a variant of a definition below, none of them   *)
(* is used by the specification, and each breaks a property.               *)
(***************************************************************************)
FoundOnly(t) == NoThread
PendingKept(frames) == handled \o SelectSeq(frames, LAMBDA f : f # 0)
OnlyQueues(t) == UNCHANGED shut
StillReceiver == Receiver

-------------------------------------------------------------------------------
(***************************************************************************)
(* Sending and closing, by any thread                                      *)
(***************************************************************************)

Uses(t, what) == use' = [use EXCEPT ![t] = "enter"] /\ op' = [op EXCEPT ![t] = what]

(* lock_guard on io_mutex_, at the head of send_text, send_binary, close.  *)
Enter(t) ==
  /\ use[t] = "enter"
  /\ io = NoThread
  /\ io' = t
  /\ use' = [use EXCEPT ![t] = "write"]
  /\ UNCHANGED <<alive, entry, game, wsVars, peerVars, recvVars, op>>

(* No write blocks once the socket is shut down.                           *)
MayWrite == shut \/ closed \/ closing \/ out < BufferSize

(* wslay takes the frame unless a close frame is queued before it, and     *)
(* writes it unless the socket fails.                                      *)
BufferAfterWrite == IF shut \/ closed \/ closing THEN out ELSE out + 1

(* close() ends with shutdown_close().                                     *)
ShutByOp(t) == shut' = (shut \/ op[t] = "close")

(* The rest of the call; a sender then leaves the game lock.               *)
Write(t) ==
  /\ use[t] = "write"
  /\ MayWrite
  /\ out' = BufferAfterWrite
  /\ closing' = (closing \/ (op[t] = "close" /\ ~closed))
  /\ ShutByOp(t)
  /\ io' = NoThread
  /\ use' = [use EXCEPT ![t] = "none"]
  /\ game' = IF game = t /\ t \in Senders THEN NoThread ELSE game
  /\ UNCHANGED <<alive, entry, closed, peerVars, recvVars, op>>

(* The game lock is kept until the connection is done with.                *)
HolderAfterFind(t) == t

(* send_frame_to_client, or shutdown()'s close of every connection: the    *)
(* game lock, then the entry.                                              *)
SenderFinds(t, what) ==
  /\ use[t] = "none"
  /\ game = NoThread
  /\ entry
  /\ game' = HolderAfterFind(t)
  /\ Uses(t, what)
  /\ UNCHANGED <<alive, entry, io, wsVars, peerVars, recvVars>>

-------------------------------------------------------------------------------
(***************************************************************************)
(* The receiving thread                                                    *)
(***************************************************************************)

(* socket_->read returns some of what has arrived.                         *)
Read ==
  /\ pc = "reading"
  /\ \E n \in 1 .. Len(arriving) :
       /\ chunk' = SubSeq(arriving, 1, n)
       /\ arriving' = SubSeq(arriving, n + 1, Len(arriving))
  /\ pc' = "parsing"
  /\ UNCHANGED <<alive, entry, game, io, wsVars, peerVars, batch, stop, handled, useVars>>

(* read fails or finds the end: what has not been read is lost.            *)
ReadEnds ==
  /\ pc = "reading"
  /\ shut
  /\ pc' = "ending"
  /\ arriving' = <<>>
  /\ UNCHANGED <<alive, entry, game, io, wsVars, peerVars, chunk, batch, stop, handled, useVars>>

(* on_idle after a read that timed out: the peer has been silent for too   *)
(* long, and the connection is closed from this side.  A socket that is    *)
(* shut down does not time out: its reads return at once.                  *)
OnIdle ==
  /\ pc = "reading"
  /\ arriving = <<>>
  /\ ~shut
  /\ pc' = "own use"
  /\ Uses(Receiver, "close")
  /\ UNCHANGED <<alive, entry, game, io, wsVars, peerVars, arriving, chunk, batch, stop, handled>>

OwnUseEnds ==
  /\ pc = "own use"
  /\ use[Receiver] = "none"
  /\ pc' = "reading"
  /\ UNCHANGED <<alive, entry, game, io, wsVars, peerVars, arriving, chunk, batch, stop, handled, useVars>>

(* Where the first close frame is.                                         *)
CloseAt(frames) == CHOOSE k \in 1 .. Len(frames) : frames[k] = 0 /\ \A l \in 1 .. k - 1 : frames[l] # 0

(* The messages that wslay parses: up to a close frame.                    *)
Parsed(frames) ==
  IF \E k \in 1 .. Len(frames) : frames[k] = 0 THEN SubSeq(frames, 1, CloseAt(frames) - 1) ELSE frames

(* Who holds io_mutex_ while the messages are dispatched.                  *)
HolderAfterParse == NoThread

(* The section under io_mutex_: messages to the batch, and an answer to a  *)
(* close frame, which is written before the mutex is released.             *)
Parse ==
  /\ pc = "parsing"
  /\ io = NoThread
  /\ MayWrite \/ \A k \in 1 .. Len(chunk) : chunk[k] # 0
  /\ LET last == \E k \in 1 .. Len(chunk) : chunk[k] = 0
     IN /\ batch' = Parsed(chunk)
        /\ stop' = last
        /\ closing' = (closing \/ last)
        /\ out' = IF last THEN BufferAfterWrite ELSE out
  /\ chunk' = <<>>
  /\ io' = HolderAfterParse
  /\ pc' = "dispatching"
  /\ UNCHANGED <<alive, entry, game, closed, shut, peerVars, arriving, handled, useVars>>

(* on_message_: handle_ws_payload takes the game lock.  The handler may    *)
(* send to the client itself, and a Disconnect frame erases the entry.     *)
Handle ==
  /\ pc = "dispatching"
  /\ batch # <<>>
  /\ game = NoThread
  /\ game' = Receiver
  /\ handled' = Append(handled, Head(batch))
  /\ batch' = Tail(batch)
  /\ pc' = "handling"
  /\ \/ UNCHANGED <<entry, useVars>>
     \/ entry' = FALSE /\ UNCHANGED useVars
     \/ entry /\ Uses(Receiver, "send") /\ UNCHANGED entry
  /\ UNCHANGED <<alive, io, wsVars, peerVars, arriving, chunk, stop>>

(* allow_reconnection in an on_leave hook: without the game lock ...       *)
HandlerWaits ==
  /\ pc = "handling"
  /\ use[Receiver] = "none"
  /\ game' = NoThread
  /\ pc' = "waiting"
  /\ UNCHANGED <<alive, entry, io, wsVars, peerVars, arriving, chunk, batch, stop, handled, useVars>>

(* ... which it takes again to go on.                                      *)
HandlerResumes ==
  /\ pc = "waiting"
  /\ game = NoThread
  /\ game' = Receiver
  /\ pc' = "resumed"
  /\ UNCHANGED useVars \/ (entry /\ Uses(Receiver, "send"))
  /\ UNCHANGED <<alive, entry, io, wsVars, peerVars, arriving, chunk, batch, stop, handled>>

HandlerReturns ==
  /\ pc \in {"handling", "resumed"}
  /\ use[Receiver] = "none"
  /\ game' = NoThread
  /\ pc' = "dispatching"
  /\ UNCHANGED <<alive, entry, io, wsVars, peerVars, arriving, chunk, batch, stop, handled, useVars>>

(* All messages are dispatched, also those before a close frame.           *)
DispatchEnds ==
  /\ pc = "dispatching"
  /\ batch = <<>>
  /\ pc' = IF stop THEN "ending" ELSE "reading"
  /\ UNCHANGED <<alive, entry, game, io, wsVars, peerVars, arriving, chunk, batch, stop, handled, useVars>>

(* After the loop closed_ is set under io_mutex_ ...                       *)
SetClosed ==
  /\ pc = "ending"
  /\ io = NoThread
  /\ closed' = TRUE
  /\ pc' = "closing"
  /\ UNCHANGED <<alive, entry, game, io, closing, shut, out, peerVars, arriving, chunk, batch, stop,
                 handled, useVars>>

(* ... the close handler erases the entry under the game lock (and tells   *)
(* the rooms) ...                                                          *)
CloseHandler ==
  /\ pc = "closing"
  /\ game = NoThread
  /\ entry' = FALSE
  /\ pc' = "returning"
  /\ UNCHANGED <<alive, game, io, wsVars, peerVars, arriving, chunk, batch, stop, handled, useVars>>

(* ... and handle_connection returns, after one more section under the     *)
(* game lock: ws is destroyed.                                             *)
Destroy ==
  /\ pc = "returning"
  /\ game = NoThread
  /\ alive' = FALSE
  /\ pc' = "gone"
  /\ UNCHANGED <<entry, game, io, wsVars, peerVars, arriving, chunk, batch, stop, handled, useVars>>

-------------------------------------------------------------------------------
(***************************************************************************)
(* The peer and the network (external)                                     *)
(***************************************************************************)

PeerSends ==
  /\ ~shut
  /\ ~ended
  /\ sent < MaxMessages
  /\ sent' = sent + 1
  /\ arriving' = Append(arriving, sent + 1)
  /\ UNCHANGED <<alive, entry, game, io, wsVars, ended, chunk, batch, stop, pc, handled, useVars>>

PeerCloses ==
  /\ ~shut
  /\ ~ended
  /\ ended' = TRUE
  /\ arriving' = Append(arriving, 0)
  /\ UNCHANGED <<alive, entry, game, io, wsVars, sent, chunk, batch, stop, pc, handled, useVars>>

PeerReads ==
  /\ out > 0
  /\ out' = out - 1
  /\ UNCHANGED <<alive, entry, game, io, closed, closing, shut, peerVars, recvVars, useVars>>

ConnectionDies ==
  /\ ~shut
  /\ shut' = TRUE
  /\ UNCHANGED <<alive, entry, game, io, closed, closing, out, peerVars, recvVars, useVars>>

-------------------------------------------------------------------------------

ReceiverStep ==
  \/ Read
  \/ ReadEnds
  \/ OnIdle
  \/ OwnUseEnds
  \/ Parse
  \/ Handle
  \/ HandlerWaits
  \/ HandlerResumes
  \/ HandlerReturns
  \/ DispatchEnds
  \/ SetClosed
  \/ CloseHandler
  \/ Destroy

PeerStep == PeerSends \/ PeerCloses \/ PeerReads \/ ConnectionDies

Next ==
  \/ \E t \in Threads : Enter(t) \/ Write(t)
  \/ \E t \in Senders, what \in {"send", "close"} : SenderFinds(t, what)
  \/ ReceiverStep
  \/ PeerStep

Spec == Init /\ [][Next]_vars

(* A thread inside a mutex runs on, one that waits for it gets it in the   *)
(* end (assumed: std::mutex promises less), a hook that waits goes on (by  *)
(* its timer, see RoomServer) and waits once, a read of a socket that is   *)
(* shut down returns, and the peer takes what is sent to it, sooner or     *)
(* later.  Without the last nothing below is true of the code: a write     *)
(* blocks under both locks, and even close() waits behind it.              *)
Fairness ==
  /\ \A t \in Threads : SF_vars(Enter(t)) /\ WF_vars(Write(t))
  /\ WF_vars(Read \/ ReadEnds)
  /\ WF_vars(OwnUseEnds \/ HandlerReturns \/ DispatchEnds)
  /\ SF_vars(Parse)
  /\ SF_vars(Handle)
  /\ SF_vars(HandlerResumes)
  /\ SF_vars(SetClosed)
  /\ SF_vars(CloseHandler)
  /\ SF_vars(Destroy)
  /\ WF_vars(PeerReads)

FairSpec == Spec /\ Fairness

-------------------------------------------------------------------------------
(***************************************************************************)
(* Safety                                                                  *)
(***************************************************************************)

(* Nobody uses the connection once handle_connection has returned, and     *)
(* connections_ does not point to it: a thread that found the entry keeps  *)
(* the game lock until it is done, and the close handler waits for it.     *)
NoUseAfterReturn == ~alive => ~entry /\ \A t \in Threads : use[t] = "none"

(* The message handler gets the peer's messages in order, each once, and   *)
(* none after the close handler; and if the loop stopped at a close frame  *)
(* it got all of them, also those that were read together with the frame.  *)
HandledInOrder ==
  /\ \A k \in 1 .. Len(handled) : handled[k] = k
  /\ pc \in {"ending", "closing", "returning", "gone"} => batch = <<>> /\ (stop => Len(handled) = sent)

-------------------------------------------------------------------------------
(***************************************************************************)
(* Liveness (of FairSpec)                                                  *)
(***************************************************************************)

(* A thread that sends or closes leaves the connection, and so the game    *)
(* lock: io_mutex_ is never held while waiting for the game lock.          *)
EveryUseEnds == \A t \in Threads : use[t] # "none" ~> use[t] = "none"

(* A connection that this side has closed, or that is gone, is cleaned up, *)
(* whether or not the peer answers.                                        *)
ClosedConnectionReturns == (closing \/ shut) ~> pc = "gone"
===============================================================================
