--------------------------- MODULE WsConnectionProofs ---------------------------
(***************************************************************************)
(* Theorems about WsConnection: nobody uses a connection that is gone, and *)
(* messages are handled in order, for any threads, traffic and buffer.     *)
(***************************************************************************)
EXTENDS WsConnection, SequenceTheorems, TLAPS

(* A sender is at the connection only with the game lock in its hands, and *)
(* while the entry stands; the receiving thread only from its loop.  The   *)
(* close handler cannot erase the entry before the sender has left.        *)
UseInv ==
  /\ use \in [Threads -> {"none", "enter", "write"}]
  /\ alive = (pc # "gone")
  /\ entry \in BOOLEAN
  /\ pc \in {"returning", "gone"} => ~entry
  /\ pc \in {"handling", "resumed"} => game = Receiver
  /\ \A t \in Senders : use[t] # "none" => game = t /\ entry
  /\ use[Receiver] # "none" => pc \in {"own use", "handling", "resumed"}

(* UseInv holds in the initial state of a connection.                      *)
LEMMA UseInvInit == Init => UseInv
BY ThreadsAssumption DEF Init, UseInv, Threads

(* A step at io_mutex_ keeps UseInv: Enter changes no lock but io_mutex_,  *)
(* and Write leaves the connection together with the game lock.            *)
LEMMA UseInvIo ==
  ASSUME UseInv, NEW t \in Threads, Enter(t) \/ Write(t)
  PROVE  UseInv'
<1> USE ThreadsAssumption DEF UseInv, Threads
<1>1. CASE Enter(t)
  BY <1>1 DEF Enter, recvVars
<1>2. CASE Write(t)
  <2> USE <1>2 DEF Write, recvVars
  <2>1. use' \in [Threads -> {"none", "enter", "write"}] /\ use'[t] = "none"
    OBVIOUS
  <2>2. UNCHANGED <<alive, entry, pc>>
    OBVIOUS
  <2>3. ASSUME NEW u \in Senders, use'[u] # "none"
        PROVE  game' = u /\ entry'
    <3>1. u # t /\ use[u] # "none"
      BY <2>1, <2>3
    <3>2. game = u /\ entry
      BY <3>1
    <3>3. game' = u
      BY <3>1, <3>2
    <3>4. entry'
      BY <3>2 DEF UseInv
    <3> QED  BY <3>3, <3>4
  <2>4. use'[Receiver] # "none" => pc' \in {"own use", "handling", "resumed"}
    BY <2>2
  <2>5. pc' \in {"handling", "resumed"} => game' = Receiver
    BY <2>2
  <2> QED  BY <2>1, <2>2, <2>3, <2>4, <2>5
<1> QED  BY <1>1, <1>2

(* A sender that finds the entry has taken the game lock.                  *)
LEMMA UseInvFinds ==
  ASSUME UseInv, NEW t \in Senders, NEW what \in {"send", "close"}, SenderFinds(t, what)
  PROVE  UseInv'
BY ThreadsAssumption DEF UseInv, Threads, SenderFinds, HolderAfterFind, Uses, recvVars

(* The receiving thread keeps UseInv: it erases the entry only with the    *)
(* game lock free, when no sender is at the connection.                    *)
LEMMA UseInvReceiver ==
  ASSUME UseInv, ReceiverStep
  PROVE  UseInv'
<1> USE ThreadsAssumption DEF UseInv, Threads
<1>1. CASE Read
  BY <1>1 DEF Read, useVars
<1>2. CASE ReadEnds
  BY <1>2 DEF ReadEnds, useVars
<1>3. CASE OnIdle
  BY <1>3 DEF OnIdle, Uses
<1>4. CASE OwnUseEnds
  BY <1>4 DEF OwnUseEnds, useVars
<1>5. CASE Parse
  BY <1>5 DEF Parse, useVars
<1>6. CASE Handle
  BY <1>6 DEF Handle, Uses, useVars
<1>7. CASE HandlerReturns
  BY <1>7 DEF HandlerReturns, useVars
<1>8. CASE DispatchEnds
  BY <1>8 DEF DispatchEnds, useVars
<1>9. CASE SetClosed
  BY <1>9 DEF SetClosed, useVars
<1>10. CASE CloseHandler
  BY <1>10 DEF CloseHandler, useVars
<1>11. CASE Destroy
  BY <1>11 DEF Destroy, useVars
<1>12. CASE HandlerWaits
  BY <1>12 DEF HandlerWaits, useVars
<1>13. CASE HandlerResumes
  BY <1>13 DEF HandlerResumes, Uses, useVars
<1> QED
  BY <1>1, <1>2, <1>3, <1>4, <1>5, <1>6, <1>7, <1>8, <1>9, <1>10, <1>11, <1>12, <1>13 DEF ReceiverStep

(* Every step keeps UseInv.                                                *)
LEMMA UseInvNext == UseInv /\ [Next]_vars => UseInv'
<1> SUFFICES ASSUME UseInv, [Next]_vars PROVE UseInv'
  OBVIOUS
<1>1. CASE UNCHANGED vars
  BY <1>1 DEF UseInv, vars, useVars, recvVars
<1>2. CASE PeerStep
  <2>1. UNCHANGED <<use, alive, entry, game, pc>>
    BY <1>2 DEF PeerStep, PeerSends, PeerCloses, PeerReads, ConnectionDies, useVars, recvVars
  <2> QED  BY <2>1 DEF UseInv
<1> QED  BY <1>1, <1>2, UseInvIo, UseInvFinds, UseInvReceiver DEF Next

(* Nobody uses a WsConnection after handle_connection has returned, and    *)
(* connections_ does not point to it.                                      *)
THEOREM GoneConnectionIsUnused == Spec => []NoUseAfterReturn
<1>1. UseInv => NoUseAfterReturn
  BY DEF UseInv, NoUseAfterReturn, Threads
<1> QED  BY <1>1, UseInvInit, UseInvNext, PTL DEF Spec

-------------------------------------------------------------------------------
(***************************************************************************)
(* Messages are handled in order.                                          *)
(***************************************************************************)

LoopOver == pc \in {"ending", "closing", "returning", "gone"}

(* Where the messages of each stage are in the order of the peer.          *)
Dispatched == Len(handled) + Len(batch)
ReadSoFar == Dispatched + Len(chunk)

(* A frame at position k after the first n messages is message n + k, or   *)
(* the close frame, which comes after the last message.                    *)
InPlace(frame, n, k) == IF frame = 0 THEN ended /\ n + k = sent + 1 ELSE frame = n + k

TypesInv ==
  /\ handled \in Seq(Nat) /\ batch \in Seq(Nat) /\ chunk \in Seq(Nat) /\ arriving \in Seq(Nat)
  /\ sent \in Nat
  /\ {stop, ended, shut} \subseteq BOOLEAN

(* What a stage of the pipeline holds: the batch is empty while frames are *)
(* read and parsed, the chunk while messages are dispatched.               *)
StageInv ==
  /\ pc \in {"reading", "own use"} => chunk = <<>> /\ batch = <<>> /\ ~stop
  /\ pc = "parsing" => batch = <<>> /\ ~stop
  /\ pc \in {"dispatching", "handling", "waiting", "resumed"} => chunk = <<>>
  /\ LoopOver => chunk = <<>> /\ batch = <<>> /\ (stop \/ (shut /\ arriving = <<>>))
  /\ stop => ended /\ arriving = <<>> /\ Dispatched = sent

(* From the handler back to the socket the frames are numbered without a   *)
(* gap, the close frame is the last of all, and before it comes nothing    *)
(* is missing.                                                             *)
OrderInv ==
  /\ \A k \in 1 .. Len(handled) : handled[k] = k
  /\ \A k \in 1 .. Len(batch) : batch[k] = Len(handled) + k
  /\ \A k \in 1 .. Len(chunk) : InPlace(chunk[k], Dispatched, k)
  /\ \A k \in 1 .. Len(chunk) : chunk[k] = 0 => k = Len(chunk) /\ arriving = <<>>
  /\ \A k \in 1 .. Len(arriving) : InPlace(arriving[k], ReadSoFar, k)
  /\ \A k \in 1 .. Len(arriving) : arriving[k] = 0 => k = Len(arriving)
  /\ ~ended /\ ~LoopOver => ReadSoFar + Len(arriving) = sent

PipeInv == TypesInv /\ StageInv /\ OrderInv

(* Facts about sequences that the steps of the pipeline need.              *)
LEMMA AppendTail ==
  ASSUME NEW s \in Seq(Nat)
  PROVE  /\ Len(s) \in Nat
         /\ s = <<>> <=> Len(s) = 0
         /\ \A e \in Nat : /\ Append(s, e) \in Seq(Nat)
                           /\ Len(Append(s, e)) = Len(s) + 1
                           /\ \A k \in 1 .. Len(s) : Append(s, e)[k] = s[k]
                           /\ Append(s, e)[Len(s) + 1] = e
         /\ s # <<>> => /\ Tail(s) \in Seq(Nat)
                        /\ Len(Tail(s)) = Len(s) - 1
                        /\ Head(s) = s[1] /\ Head(s) \in Nat
                        /\ \A k \in 1 .. Len(Tail(s)) : Tail(s)[k] = s[k + 1]
OBVIOUS

LEMMA Split ==
  ASSUME NEW s \in Seq(Nat), NEW n \in 1 .. Len(s)
  PROVE  /\ SubSeq(s, 1, n) \in Seq(Nat) /\ SubSeq(s, n + 1, Len(s)) \in Seq(Nat)
         /\ Len(SubSeq(s, 1, n)) = n /\ Len(SubSeq(s, n + 1, Len(s))) = Len(s) - n
         /\ \A k \in 1 .. n : SubSeq(s, 1, n)[k] = s[k]
         /\ \A k \in 1 .. Len(s) - n : SubSeq(s, n + 1, Len(s))[k] = s[n + k]
<1>1. Len(s) \in Nat /\ \A k \in 1 .. Len(s) : s[k] \in Nat
  OBVIOUS
<1>2. /\ SubSeq(s, 1, n) \in Seq(Nat)
      /\ Len(SubSeq(s, 1, n)) = IF 1 <= n THEN n - 1 + 1 ELSE 0
      /\ \A k \in 1 .. n - 1 + 1 : SubSeq(s, 1, n)[k] = s[1 + k - 1]
  <2>1. 1 \in Int /\ n \in Int /\ \A k \in 1 .. n : s[k] \in Nat
    BY <1>1
  <2> QED
    BY <2>1, SubSeqProperties
<1>3. /\ SubSeq(s, n + 1, Len(s)) \in Seq(Nat)
      /\ Len(SubSeq(s, n + 1, Len(s))) = IF n + 1 <= Len(s) THEN Len(s) - (n + 1) + 1 ELSE 0
      /\ \A k \in 1 .. Len(s) - (n + 1) + 1 : SubSeq(s, n + 1, Len(s))[k] = s[(n + 1) + k - 1]
  <2>1. n + 1 \in Int /\ Len(s) \in Int /\ \A k \in n + 1 .. Len(s) : s[k] \in Nat
    BY <1>1
  <2> QED
    BY <2>1, SubSeqProperties
<1>4. \A k \in 1 .. n : SubSeq(s, 1, n)[k] = s[k]
  <2> TAKE k \in 1 .. n
  <2>1. k \in 1 .. n - 1 + 1 /\ 1 + k - 1 = k
    OBVIOUS
  <2> QED
    BY <1>2, <2>1
<1>5. \A k \in 1 .. Len(s) - n : SubSeq(s, n + 1, Len(s))[k] = s[n + k]
  <2> TAKE k \in 1 .. Len(s) - n
  <2>1. k \in 1 .. Len(s) - (n + 1) + 1 /\ (n + 1) + k - 1 = n + k
    BY <1>1
  <2> QED
    BY <1>3, <2>1
<1>6. Len(SubSeq(s, 1, n)) = n /\ Len(SubSeq(s, n + 1, Len(s))) = Len(s) - n
  BY <1>1, <1>2, <1>3
<1> QED
  BY <1>2, <1>3, <1>4, <1>5, <1>6

LEMMA Before ==
  ASSUME NEW n \in Nat, n \in 1 .. n, n # 1
  PROVE  n - 1 \in 1 .. n
OBVIOUS

(* Parsed drops a close frame at the end and nothing else.                 *)
LEMMA ParsedFrames ==
  ASSUME NEW s \in Seq(Nat), \A k \in 1 .. Len(s) : s[k] = 0 => k = Len(s)
  PROVE  /\ Parsed(s) \in Seq(Nat)
         /\ Len(Parsed(s)) = IF \E k \in 1 .. Len(s) : s[k] = 0 THEN Len(s) - 1 ELSE Len(s)
         /\ \A k \in 1 .. Len(Parsed(s)) : k \in 1 .. Len(s) /\ Parsed(s)[k] = s[k]
<1>1. Len(s) \in Nat
  OBVIOUS
<1>2. CASE \A k \in 1 .. Len(s) : s[k] # 0
  BY <1>1, <1>2 DEF Parsed
<1>3. CASE \E k \in 1 .. Len(s) : s[k] = 0
  <2>1. Len(s) \in 1 .. Len(s) /\ s[Len(s)] = 0 /\ \A l \in 1 .. Len(s) - 1 : s[l] # 0
    BY <1>1, <1>3
  <2>2. CloseAt(s) \in 1 .. Len(s) /\ s[CloseAt(s)] = 0
    BY <2>1 DEF CloseAt
  <2>3. CloseAt(s) = Len(s)
    BY <2>2
  <2>4. Parsed(s) = SubSeq(s, 1, Len(s) - 1)
    BY <1>3, <2>3 DEF Parsed
  <2>5. /\ SubSeq(s, 1, Len(s) - 1) \in Seq(Nat)
        /\ Len(SubSeq(s, 1, Len(s) - 1)) = Len(s) - 1
        /\ \A k \in 1 .. Len(s) - 1 : SubSeq(s, 1, Len(s) - 1)[k] = s[k]
    <3>1. CASE Len(s) = 1
      <4>1. SubSeq(s, 1, Len(s) - 1) = <<>>
        BY <3>1, SubSeqEmpty
      <4> QED
        BY <3>1, <4>1
    <3>2. CASE Len(s) # 1
      <4>1. Len(s) - 1 \in 1 .. Len(s)
        BY <1>1, <2>1, <3>2, Before
      <4> QED
        BY <4>1, Split
    <3> QED
      BY <3>1, <3>2
  <2> QED
    BY <1>1, <1>3, <2>4, <2>5
<1> QED
  BY <1>2, <1>3

(* The pipeline starts empty.                                              *)
LEMMA PipeInit == Init => PipeInv
<1> SUFFICES ASSUME Init
             PROVE  PipeInv
  OBVIOUS
<1>1. /\ handled = <<>> /\ batch = <<>> /\ chunk = <<>> /\ arriving = <<>> /\ sent = 0
      /\ stop = FALSE /\ ended = FALSE /\ shut = FALSE /\ pc = "own use"
  BY DEF Init
<1>2. <<>> \in Seq(Nat) /\ Len(<<>>) = 0 /\ \A k \in 1 .. Len(<<>>) : FALSE
  OBVIOUS
<1>3. TypesInv /\ StageInv
  BY <1>1, <1>2 DEF TypesInv, StageInv, LoopOver
<1>4. ReadSoFar + Len(arriving) = sent
  <2>1. Len(handled) = 0 /\ Len(batch) = 0 /\ Len(chunk) = 0 /\ Len(arriving) = 0
    BY <1>1, <1>2
  <2>2. sent = 0
    BY <1>1
  <2> QED
    BY <2>1, <2>2 DEF ReadSoFar, Dispatched
<1>5. OrderInv
  BY <1>1, <1>2, <1>4 DEF OrderInv
<1> QED
  BY <1>3, <1>5 DEF PipeInv

(* A step that touches no stage of the pipeline keeps the invariant, if    *)
(* the receiving thread stays on the same side of every section.           *)
LEMMA PipeKept ==
  ASSUME PipeInv, UNCHANGED <<handled, batch, chunk, arriving, stop, sent, ended>>,
         shut' \in BOOLEAN, shut => shut',
         \/ pc' = pc
         \/ {pc, pc'} \subseteq {"reading", "own use"}
         \/ {pc, pc'} \subseteq {"dispatching", "handling", "waiting", "resumed"}
         \/ {pc, pc'} \subseteq {"ending", "closing", "returning", "gone"}
         \/ pc = "dispatching" /\ batch = <<>> /\ pc' = (IF stop THEN "ending" ELSE "reading")
  PROVE  PipeInv'
<1>1. TypesInv'
  BY DEF PipeInv, TypesInv
<1>2. StageInv'
  BY DEF PipeInv, TypesInv, StageInv, LoopOver, Dispatched
<1>3. LoopOver' => LoopOver \/ stop
  BY DEF LoopOver
<1>4. LoopOver => LoopOver'
  BY DEF LoopOver
<1>5. OrderInv'
  BY <1>4 DEF PipeInv, OrderInv, InPlace, Dispatched, ReadSoFar
<1> QED
  BY <1>1, <1>2, <1>5 DEF PipeInv

(* The same for a step that leaves the socket alone, too.                  *)
LEMMA PipeSame ==
  ASSUME PipeInv, UNCHANGED <<handled, batch, chunk, arriving, stop, sent, ended, shut>>,
         \/ pc' = pc
         \/ {pc, pc'} \subseteq {"reading", "own use"}
         \/ {pc, pc'} \subseteq {"dispatching", "handling", "waiting", "resumed"}
         \/ {pc, pc'} \subseteq {"ending", "closing", "returning", "gone"}
         \/ pc = "dispatching" /\ batch = <<>> /\ pc' = (IF stop THEN "ending" ELSE "reading")
  PROVE  PipeInv'
<1>1. shut' \in BOOLEAN /\ (shut => shut')
  BY DEF PipeInv, TypesInv
<1> QED
  BY <1>1, PipeKept

(* A part of what has arrived is read.                                     *)
LEMMA PipeRead == PipeInv /\ Read => PipeInv'
<1> SUFFICES ASSUME PipeInv, Read
             PROVE  PipeInv'
  OBVIOUS
<1>1. PICK n \in 1 .. Len(arriving) : /\ chunk' = SubSeq(arriving, 1, n)
                                      /\ arriving' = SubSeq(arriving, n + 1, Len(arriving))
  BY DEF Read
<1>2. /\ pc = "reading" /\ pc' = "parsing"
      /\ UNCHANGED <<handled, batch, stop, sent, ended, shut>>
  BY DEF Read, wsVars, peerVars
<1>3. /\ handled \in Seq(Nat) /\ batch \in Seq(Nat) /\ arriving \in Seq(Nat) /\ sent \in Nat
      /\ stop \in BOOLEAN /\ ended \in BOOLEAN /\ shut \in BOOLEAN
  BY DEF PipeInv, TypesInv
<1>4. chunk = <<>> /\ batch = <<>> /\ ~stop
  BY <1>2 DEF PipeInv, StageInv
<1>5. /\ chunk' \in Seq(Nat) /\ arriving' \in Seq(Nat)
      /\ Len(chunk') = n /\ Len(arriving') = Len(arriving) - n
      /\ \A k \in 1 .. n : chunk'[k] = arriving[k]
      /\ \A k \in 1 .. Len(arriving) - n : arriving'[k] = arriving[n + k]
  BY <1>1, <1>3, Split
<1>6. Len(handled) \in Nat /\ Len(batch) = 0 /\ Len(chunk) = 0 /\ Len(arriving) \in Nat
  BY <1>3, <1>4
<1>7. /\ Dispatched = Len(handled) /\ Dispatched' = Len(handled)
      /\ ReadSoFar = Len(handled) /\ ReadSoFar' = Len(handled) + n
  BY <1>2, <1>5, <1>6 DEF Dispatched, ReadSoFar
<1>8. TypesInv'
  BY <1>2, <1>3, <1>5 DEF TypesInv
<1>9. StageInv'
  BY <1>2, <1>4 DEF StageInv, LoopOver
<1>10. /\ \A k \in 1 .. Len(arriving) : InPlace(arriving[k], Len(handled), k)
       /\ \A k \in 1 .. Len(arriving) : arriving[k] = 0 => k = Len(arriving)
       /\ ~ended => Len(handled) + Len(arriving) = sent
  BY <1>2, <1>7 DEF PipeInv, OrderInv, LoopOver
<1>11. \A k \in 1 .. Len(chunk') : InPlace(chunk[k], Len(handled), k)'
  <2> TAKE k \in 1 .. Len(chunk')
  <2>1. k \in 1 .. n /\ k \in 1 .. Len(arriving)
    BY <1>5, <1>6
  <2>2. chunk'[k] = arriving[k] /\ InPlace(arriving[k], Len(handled), k)
    BY <1>5, <1>10, <2>1
  <2> QED
    BY <1>2, <2>2 DEF InPlace
<1>12. \A k \in 1 .. Len(chunk') : chunk'[k] = 0 => k = Len(chunk') /\ arriving' = <<>>
  <2> TAKE k \in 1 .. Len(chunk')
  <2> HAVE chunk'[k] = 0
  <2>1. k \in 1 .. n /\ k \in 1 .. Len(arriving)
    BY <1>5, <1>6
  <2>2. k = Len(arriving)
    BY <1>5, <1>10, <2>1
  <2>3. k = n /\ Len(arriving') = 0
    BY <1>5, <1>6, <2>1, <2>2
  <2> QED
    BY <1>5, <2>3
<1>13. \A k \in 1 .. Len(arriving') : InPlace(arriving[k], Len(handled) + n, k)'
  <2> TAKE k \in 1 .. Len(arriving')
  <2>1. n + k \in 1 .. Len(arriving) /\ k \in 1 .. Len(arriving) - n
    BY <1>5, <1>6
  <2>2. arriving'[k] = arriving[n + k] /\ InPlace(arriving[n + k], Len(handled), n + k)
    BY <1>5, <1>10, <2>1
  <2>3. Len(handled) + n + k = Len(handled) + (n + k)
    BY <1>6, <2>1
  <2> QED
    BY <1>2, <2>2, <2>3 DEF InPlace
<1>14. \A k \in 1 .. Len(arriving') : arriving'[k] = 0 => k = Len(arriving')
  <2> TAKE k \in 1 .. Len(arriving')
  <2>1. n + k \in 1 .. Len(arriving) /\ k \in 1 .. Len(arriving) - n
    BY <1>5, <1>6
  <2>2. arriving'[k] = arriving[n + k]
    BY <1>5, <2>1
  <2> QED
    BY <1>5, <1>6, <1>10, <2>1, <2>2
<1>15. ~ended => Len(handled) + n + Len(arriving') = sent
  BY <1>5, <1>6, <1>10
<1>16. /\ \A k \in 1 .. Len(handled) : handled[k] = k
       /\ \A k \in 1 .. Len(batch) : batch[k] = Len(handled) + k
  BY DEF PipeInv, OrderInv
<1>17. OrderInv'
  BY <1>2, <1>7, <1>11, <1>12, <1>13, <1>14, <1>15, <1>16 DEF OrderInv, InPlace
<1> QED
  BY <1>8, <1>9, <1>17 DEF PipeInv

(* The messages of a chunk go to the batch; a close frame among them is    *)
(* the last frame of all, so that nothing is missing before it.            *)
LEMMA PipeParse == PipeInv /\ Parse => PipeInv'
<1> SUFFICES ASSUME PipeInv, Parse
             PROVE  PipeInv'
  OBVIOUS
<1> DEFINE last == \E k \in 1 .. Len(chunk) : chunk[k] = 0
<1>1. /\ pc = "parsing" /\ pc' = "dispatching"
      /\ batch' = Parsed(chunk) /\ stop' = last /\ chunk' = <<>>
      /\ UNCHANGED <<handled, arriving, sent, ended, shut>>
  BY DEF Parse, peerVars
<1>2. /\ handled \in Seq(Nat) /\ chunk \in Seq(Nat) /\ arriving \in Seq(Nat) /\ sent \in Nat
      /\ ended \in BOOLEAN /\ shut \in BOOLEAN
  BY DEF PipeInv, TypesInv
<1>3. batch = <<>>
  BY <1>1 DEF PipeInv, StageInv
<1>4. Len(handled) \in Nat /\ Len(batch) = 0 /\ Len(chunk) \in Nat /\ Len(arriving) \in Nat
  BY <1>2, <1>3
<1>5. Dispatched = Len(handled) /\ ReadSoFar = Len(handled) + Len(chunk)
  BY <1>4 DEF Dispatched, ReadSoFar
<1>6. /\ \A k \in 1 .. Len(handled) : handled[k] = k
      /\ \A k \in 1 .. Len(chunk) : InPlace(chunk[k], Len(handled), k)
      /\ \A k \in 1 .. Len(chunk) : chunk[k] = 0 => k = Len(chunk) /\ arriving = <<>>
      /\ \A k \in 1 .. Len(arriving) : InPlace(arriving[k], Len(handled) + Len(chunk), k)
      /\ \A k \in 1 .. Len(arriving) : arriving[k] = 0 => k = Len(arriving)
      /\ ~ended => Len(handled) + Len(chunk) + Len(arriving) = sent
  BY <1>1, <1>5 DEF PipeInv, OrderInv, LoopOver
<1>7. /\ Parsed(chunk) \in Seq(Nat)
      /\ Len(Parsed(chunk)) = IF last THEN Len(chunk) - 1 ELSE Len(chunk)
      /\ \A k \in 1 .. Len(Parsed(chunk)) : k \in 1 .. Len(chunk) /\ Parsed(chunk)[k] = chunk[k]
  BY <1>2, <1>6, ParsedFrames
<1>8. last => /\ arriving = <<>> /\ ended /\ Len(handled) + Len(chunk) = sent + 1
              /\ Len(chunk) >= 1
  <2> SUFFICES ASSUME NEW k \in 1 .. Len(chunk), chunk[k] = 0
               PROVE  /\ arriving = <<>> /\ ended /\ Len(handled) + Len(chunk) = sent + 1
                      /\ Len(chunk) >= 1
    OBVIOUS
  <2>1. k = Len(chunk) /\ arriving = <<>>
    BY <1>6
  <2>2. ended /\ Len(handled) + k = sent + 1
    BY <1>6 DEF InPlace
  <2> QED
    BY <1>4, <2>1, <2>2
<1>9. \A k \in 1 .. Len(batch') : batch'[k] = Len(handled) + k
  <2> SUFFICES ASSUME NEW k \in 1 .. Len(Parsed(chunk))
               PROVE  Parsed(chunk)[k] = Len(handled) + k
    BY <1>1
  <2>1. k \in 1 .. Len(chunk) /\ Parsed(chunk)[k] = chunk[k] /\ InPlace(chunk[k], Len(handled), k)
    BY <1>6, <1>7
  <2>2. chunk[k] # 0
    <3> SUFFICES ASSUME chunk[k] = 0
                 PROVE  FALSE
      OBVIOUS
    <3>1. last /\ k = Len(chunk)
      BY <1>6, <2>1
    <3>2. Len(Parsed(chunk)) = Len(chunk) - 1
      BY <1>7, <3>1
    <3>3. k \in 1 .. Len(chunk) - 1
      BY <3>2
    <3> QED
      BY <1>4, <3>1, <3>3
  <2> QED
    BY <2>1, <2>2 DEF InPlace
<1>10. Len(chunk') = 0 /\ \A k \in 1 .. Len(chunk') : FALSE
  BY <1>1
<1>11. /\ Dispatched' = Len(handled) + Len(Parsed(chunk))
       /\ ReadSoFar' = Len(handled) + Len(Parsed(chunk))
  BY <1>1, <1>4, <1>7, <1>10 DEF Dispatched, ReadSoFar
<1>12. stop' => ended /\ arriving = <<>> /\ Dispatched' = sent
  <2> SUFFICES ASSUME last
               PROVE  ended /\ arriving = <<>> /\ Dispatched' = sent
    BY <1>1
  <2>1. Len(Parsed(chunk)) = Len(chunk) - 1
    BY <1>7
  <2> HIDE DEF last
  <2> QED
    BY <1>2, <1>4, <1>8, <1>11, <2>1
<1>13. TypesInv'
  <2>1. stop' \in BOOLEAN
    BY <1>1
  <2>2. <<>> \in Seq(Nat)
    OBVIOUS
  <2> HIDE DEF last
  <2> QED
    BY <1>1, <1>2, <1>7, <2>1, <2>2 DEF TypesInv
<1>14. StageInv'
  BY <1>1, <1>12 DEF StageInv, LoopOver
<1>15. ~last => Len(Parsed(chunk)) = Len(chunk)
  BY <1>7
<1>16. \A k \in 1 .. Len(arriving) : InPlace(arriving[k], Len(handled) + Len(Parsed(chunk)), k)
  <2>1. CASE last
    <3>1. \A k \in 1 .. Len(arriving) : FALSE
      BY <1>8, <2>1
    <3> QED
      BY <3>1
  <2>2. CASE ~last
    BY <1>6, <1>15, <2>2
  <2> QED
    BY <2>1, <2>2
<1>17. ~ended => Len(handled) + Len(Parsed(chunk)) + Len(arriving) = sent
  BY <1>6, <1>8, <1>15
<1>18. OrderInv'
  <2> HIDE DEF last
  <2>1. \A k \in 1 .. Len(arriving) : InPlace(arriving[k], ReadSoFar, k)'
    BY <1>1, <1>11, <1>16 DEF InPlace
  <2>2. \A k \in 1 .. Len(batch') : batch'[k] = Len(handled') + k
    BY <1>1, <1>9
  <2>3. ~ended' => ReadSoFar' + Len(arriving') = sent'
    BY <1>1, <1>11, <1>17
  <2> QED
    BY <1>1, <1>6, <1>10, <2>1, <2>2, <2>3 DEF OrderInv
<1> QED
  BY <1>13, <1>14, <1>18 DEF PipeInv

(* The next message of the batch is the one the handler has not had yet.   *)
LEMMA PipeHandle == PipeInv /\ Handle => PipeInv'
<1> SUFFICES ASSUME PipeInv, Handle
             PROVE  PipeInv'
  OBVIOUS
<1>1. /\ pc = "dispatching" /\ pc' = "handling" /\ batch # <<>>
      /\ handled' = Append(handled, Head(batch)) /\ batch' = Tail(batch)
      /\ UNCHANGED <<chunk, arriving, stop, sent, ended, shut>>
  BY DEF Handle, wsVars, peerVars
<1>2. /\ handled \in Seq(Nat) /\ batch \in Seq(Nat) /\ chunk \in Seq(Nat) /\ arriving \in Seq(Nat)
      /\ sent \in Nat /\ stop \in BOOLEAN /\ ended \in BOOLEAN /\ shut \in BOOLEAN
  BY DEF PipeInv, TypesInv
<1>3. chunk = <<>>
  BY <1>1 DEF PipeInv, StageInv
<1>4. /\ Len(handled) \in Nat /\ Len(batch) \in Nat /\ Len(batch) # 0
      /\ Tail(batch) \in Seq(Nat) /\ Len(Tail(batch)) = Len(batch) - 1
      /\ Head(batch) = batch[1] /\ Head(batch) \in Nat
      /\ \A k \in 1 .. Len(Tail(batch)) : Tail(batch)[k] = batch[k + 1]
  BY <1>1, <1>2, AppendTail
<1>5. /\ Append(handled, Head(batch)) \in Seq(Nat)
      /\ Len(Append(handled, Head(batch))) = Len(handled) + 1
      /\ \A k \in 1 .. Len(handled) : Append(handled, Head(batch))[k] = handled[k]
      /\ Append(handled, Head(batch))[Len(handled) + 1] = Head(batch)
  BY <1>2, <1>4, AppendTail
<1>6. /\ \A k \in 1 .. Len(handled) : handled[k] = k
      /\ \A k \in 1 .. Len(batch) : batch[k] = Len(handled) + k
  BY DEF PipeInv, OrderInv
<1>7. Len(handled') = Len(handled) + 1 /\ Len(batch') = Len(batch) - 1
  BY <1>1, <1>4, <1>5
<1>8. Dispatched' = Dispatched /\ ReadSoFar' = ReadSoFar
  BY <1>1, <1>4, <1>7 DEF Dispatched, ReadSoFar
<1>9. Head(batch) = Len(handled) + 1
  BY <1>4, <1>6
<1>10. \A k \in 1 .. Len(handled') : handled'[k] = k
  <2> SUFFICES ASSUME NEW k \in 1 .. Len(handled) + 1
               PROVE  handled'[k] = k
    BY <1>7
  <2>1. CASE k \in 1 .. Len(handled)
    BY <1>1, <1>5, <1>6, <2>1
  <2>2. CASE k = Len(handled) + 1
    BY <1>1, <1>5, <1>9, <2>2
  <2>3. k \in 1 .. Len(handled) \/ k = Len(handled) + 1
    BY <1>4
  <2> QED
    BY <2>1, <2>2, <2>3
<1>11. \A k \in 1 .. Len(batch') : batch'[k] = Len(handled') + k
  <2> SUFFICES ASSUME NEW k \in 1 .. Len(batch) - 1
               PROVE  batch'[k] = Len(handled') + k
    BY <1>7
  <2>1. k + 1 \in 1 .. Len(batch) /\ k \in 1 .. Len(Tail(batch))
    BY <1>4
  <2>2. batch'[k] = batch[k + 1] /\ batch[k + 1] = Len(handled) + (k + 1)
    BY <1>1, <1>4, <1>6, <2>1
  <2> QED
    BY <1>4, <1>7, <2>2
<1>12. TypesInv'
  BY <1>1, <1>2, <1>4, <1>5 DEF TypesInv
<1>13. StageInv'
  BY <1>1, <1>3, <1>8 DEF PipeInv, StageInv, LoopOver
<1>14. OrderInv'
  <2>1. /\ ~LoopOver /\ ~LoopOver'
    BY <1>1 DEF LoopOver
  <2> QED
    BY <1>1, <1>8, <1>10, <1>11, <2>1 DEF PipeInv, OrderInv, InPlace
<1> QED
  BY <1>12, <1>13, <1>14 DEF PipeInv

(* A read that fails loses what has arrived, but the socket is shut down.  *)
LEMMA PipeReadEnds == PipeInv /\ ReadEnds => PipeInv'
<1> SUFFICES ASSUME PipeInv, ReadEnds
             PROVE  PipeInv'
  OBVIOUS
<1>1. /\ pc = "reading" /\ pc' = "ending" /\ shut /\ arriving' = <<>>
      /\ UNCHANGED <<handled, batch, chunk, stop, sent, ended, shut>>
  BY DEF ReadEnds, wsVars, peerVars
<1>2. chunk = <<>> /\ batch = <<>> /\ ~stop
  BY <1>1 DEF PipeInv, StageInv
<1>3. \A k \in 1 .. Len(arriving') : FALSE
  BY <1>1
<1>4. \A k \in 1 .. Len(chunk') : FALSE
  BY <1>1, <1>2
<1>5. LoopOver'
  BY <1>1 DEF LoopOver
<1>6. TypesInv'
  <2>1. <<>> \in Seq(Nat)
    OBVIOUS
  <2> QED
    BY <1>1, <2>1 DEF PipeInv, TypesInv
<1>7. StageInv'
  BY <1>1, <1>2 DEF StageInv, LoopOver
<1>8. OrderInv'
  BY <1>1, <1>3, <1>4, <1>5 DEF PipeInv, OrderInv
<1> QED
  BY <1>6, <1>7, <1>8 DEF PipeInv

(* The peer sends its next message, or after the last one a close frame,   *)
(* and the loop still runs or its socket is shut down.                     *)
LEMMA PipePeer == PipeInv /\ (PeerSends \/ PeerCloses) => PipeInv'
<1> SUFFICES ASSUME PipeInv, PeerSends \/ PeerCloses
             PROVE  PipeInv'
  OBVIOUS
<1> DEFINE frame == IF ended' THEN 0 ELSE sent + 1
<1>1. /\ ~shut /\ ~ended
      /\ arriving' = Append(arriving, frame)
      /\ \/ ended' = FALSE /\ sent' = sent + 1
         \/ ended' = TRUE /\ sent' = sent
      /\ UNCHANGED <<handled, batch, chunk, stop, pc, shut>>
  BY DEF PipeInv, TypesInv, PeerSends, PeerCloses, wsVars
<1>2. /\ handled \in Seq(Nat) /\ batch \in Seq(Nat) /\ chunk \in Seq(Nat) /\ arriving \in Seq(Nat)
      /\ sent \in Nat /\ stop \in BOOLEAN /\ ended \in BOOLEAN /\ shut \in BOOLEAN
  BY DEF PipeInv, TypesInv
<1>3. ~stop /\ ~LoopOver /\ ~LoopOver'
  BY <1>1 DEF PipeInv, StageInv, LoopOver
<1>4. frame \in Nat /\ (frame = 0 <=> ended')
  BY <1>1, <1>2
<1>5. /\ Len(handled) \in Nat /\ Len(batch) \in Nat /\ Len(chunk) \in Nat /\ Len(arriving) \in Nat
  BY <1>2
<1>6. /\ arriving' \in Seq(Nat) /\ Len(arriving') = Len(arriving) + 1
      /\ \A k \in 1 .. Len(arriving) : arriving'[k] = arriving[k]
      /\ arriving'[Len(arriving) + 1] = frame
  <2> HIDE DEF frame
  <2> QED
    BY <1>1, <1>2, <1>4, AppendTail
<1>7. Dispatched' = Dispatched /\ ReadSoFar' = ReadSoFar /\ ReadSoFar \in Nat
  BY <1>1, <1>5 DEF Dispatched, ReadSoFar
<1>8. ReadSoFar + Len(arriving) = sent
  BY <1>1, <1>3 DEF PipeInv, OrderInv
<1>9. /\ \A k \in 1 .. Len(chunk) : InPlace(chunk[k], Dispatched, k) /\ chunk[k] # 0
      /\ \A k \in 1 .. Len(arriving) : InPlace(arriving[k], ReadSoFar, k) /\ arriving[k] # 0
  BY <1>1 DEF PipeInv, OrderInv, InPlace
<1>10. \A k \in 1 .. Len(arriving') : InPlace(arriving[k], ReadSoFar, k)'
  <2> SUFFICES ASSUME NEW k \in 1 .. Len(arriving) + 1
               PROVE  InPlace(arriving[k], ReadSoFar, k)'
    BY <1>6
  <2>1. CASE k \in 1 .. Len(arriving)
    BY <1>6, <1>7, <1>9, <2>1 DEF InPlace
  <2>2. CASE k = Len(arriving) + 1
    <3>1. arriving'[k] = frame /\ ReadSoFar' + k = sent + 1
      BY <1>2, <1>5, <1>6, <1>7, <1>8, <2>2
    <3> QED
      BY <1>1, <3>1, <1>4 DEF InPlace
  <2>3. k \in 1 .. Len(arriving) \/ k = Len(arriving) + 1
    BY <1>5
  <2> QED
    BY <2>1, <2>2, <2>3
<1>11. \A k \in 1 .. Len(arriving') : arriving'[k] = 0 => k = Len(arriving')
  <2> SUFFICES ASSUME NEW k \in 1 .. Len(arriving) + 1, arriving'[k] = 0
               PROVE  k = Len(arriving) + 1
    BY <1>6
  <2>1. k \in 1 .. Len(arriving) \/ k = Len(arriving) + 1
    BY <1>5
  <2> QED
    BY <1>6, <1>9, <2>1
<1>12. TypesInv'
  <2>1. sent' \in Nat
    BY <1>1, <1>2
  <2>2. {stop', ended', shut'} \subseteq BOOLEAN
    BY <1>1, <1>2
  <2>3. handled' \in Seq(Nat) /\ batch' \in Seq(Nat) /\ chunk' \in Seq(Nat) /\ arriving' \in Seq(Nat)
    BY <1>1, <1>2, <1>6
  <2> QED
    BY <2>1, <2>2, <2>3 DEF TypesInv
<1>13. StageInv'
  BY <1>1, <1>3 DEF PipeInv, StageInv, LoopOver
<1>14. ~ended' => ReadSoFar' + Len(arriving') = sent'
  <2>1. ~ended' => sent' = sent + 1
    BY <1>1
  <2>2. ReadSoFar' = ReadSoFar /\ Len(arriving') = Len(arriving) + 1
    BY <1>6, <1>7
  <2>3. ReadSoFar' + Len(arriving') = sent + 1
    BY <1>2, <1>5, <1>7, <1>8, <2>2
  <2> QED
    BY <2>1, <2>3
<1>15. \A k \in 1 .. Len(chunk') : InPlace(chunk[k], Dispatched, k)' /\ chunk'[k] # 0
  BY <1>1, <1>7, <1>9 DEF InPlace
<1>16. OrderInv'
  BY <1>1, <1>10, <1>11, <1>14, <1>15 DEF PipeInv, OrderInv
<1> QED
  BY <1>12, <1>13, <1>16 DEF PipeInv

(* Every step keeps the invariant: only five touch the pipeline.           *)
LEMMA PipeNext == PipeInv /\ [Next]_vars => PipeInv'
<1> SUFFICES ASSUME PipeInv, [Next]_vars
             PROVE  PipeInv'
  OBVIOUS
<1>1. CASE UNCHANGED vars
  <2>1. UNCHANGED <<handled, batch, chunk, arriving, stop, sent, ended, shut, pc>>
    BY <1>1 DEF vars, recvVars, peerVars, wsVars
  <2> QED
    BY <2>1, PipeSame
<1>2. ASSUME NEW t \in Threads, Enter(t) \/ Write(t)
      PROVE  PipeInv'
  <2>1. UNCHANGED <<handled, batch, chunk, arriving, stop, sent, ended, pc>>
    BY <1>2 DEF Enter, Write, recvVars, peerVars
  <2>2. shut \in BOOLEAN
    BY DEF PipeInv, TypesInv
  <2>3. CASE Enter(t)
    <3>1. UNCHANGED shut
      BY <2>3 DEF Enter, wsVars
    <3> QED
      BY <2>1, <3>1, PipeSame
  <2>4. CASE Write(t)
    <3>1. shut' = (shut \/ op[t] = "close")
      BY <2>4 DEF Write, ShutByOp
    <3>2. shut' \in BOOLEAN /\ (shut => shut')
      BY <2>2, <3>1
    <3> QED
      BY <2>1, <3>2, PipeKept
  <2> QED
    BY <1>2, <2>3, <2>4
<1>3. ASSUME NEW t \in Senders, NEW what \in {"send", "close"}, SenderFinds(t, what)
      PROVE  PipeInv'
  <2>1. UNCHANGED <<handled, batch, chunk, arriving, stop, sent, ended, shut, pc>>
    BY <1>3 DEF SenderFinds, recvVars, peerVars, wsVars
  <2> QED
    BY <2>1, PipeSame
<1>4. CASE OnIdle \/ OwnUseEnds
  <2>1. UNCHANGED <<handled, batch, chunk, arriving, stop, sent, ended, shut>>
    BY <1>4 DEF OnIdle, OwnUseEnds, peerVars, wsVars
  <2>2. {pc, pc'} \subseteq {"reading", "own use"}
    BY <1>4 DEF OnIdle, OwnUseEnds
  <2> QED
    BY <2>1, <2>2, PipeSame
<1>5. CASE HandlerWaits \/ HandlerResumes \/ HandlerReturns
  <2>1. UNCHANGED <<handled, batch, chunk, arriving, stop, sent, ended, shut>>
    BY <1>5 DEF HandlerWaits, HandlerResumes, HandlerReturns, peerVars, wsVars
  <2>2. {pc, pc'} \subseteq {"dispatching", "handling", "waiting", "resumed"}
    BY <1>5 DEF HandlerWaits, HandlerResumes, HandlerReturns
  <2> QED
    BY <2>1, <2>2, PipeSame
<1>6. CASE DispatchEnds
  <2>1. UNCHANGED <<handled, batch, chunk, arriving, stop, sent, ended, shut>>
    BY <1>6 DEF DispatchEnds, peerVars, wsVars
  <2>2. pc = "dispatching" /\ batch = <<>> /\ pc' = (IF stop THEN "ending" ELSE "reading")
    BY <1>6 DEF DispatchEnds
  <2> QED
    BY <2>1, <2>2, PipeSame
<1>7. CASE SetClosed \/ CloseHandler \/ Destroy
  <2>1. UNCHANGED <<handled, batch, chunk, arriving, stop, sent, ended, shut>>
    BY <1>7 DEF SetClosed, CloseHandler, Destroy, peerVars, wsVars
  <2>2. {pc, pc'} \subseteq {"ending", "closing", "returning", "gone"}
    BY <1>7 DEF SetClosed, CloseHandler, Destroy
  <2> QED
    BY <2>1, <2>2, PipeSame
<1>8. CASE PeerReads
  <2>1. UNCHANGED <<handled, batch, chunk, arriving, stop, sent, ended, shut, pc>>
    BY <1>8 DEF PeerReads, recvVars, peerVars
  <2> QED
    BY <2>1, PipeSame
<1>9. CASE ConnectionDies
  <2>1. UNCHANGED <<handled, batch, chunk, arriving, stop, sent, ended, pc>>
    BY <1>9 DEF ConnectionDies, recvVars, peerVars
  <2>2. shut' \in BOOLEAN /\ (shut => shut')
    BY <1>9 DEF ConnectionDies
  <2> QED
    BY <2>1, <2>2, PipeKept
<1> QED
  BY <1>1, <1>2, <1>3, <1>4, <1>5, <1>6, <1>7, <1>8, <1>9, PipeRead, PipeReadEnds, PipeParse, PipeHandle,
     PipePeer DEF Next, ReceiverStep, PeerStep

(* The message handler gets the peer's messages in order, each once, and   *)
(* none after the close handler; after a close frame it has had them all,  *)
(* whatever reads cut the traffic into chunks and wherever the connection  *)
(* is closed or dies.                                                      *)
THEOREM MessagesInOrder == Spec => []HandledInOrder
<1>1. PipeInv => HandledInOrder
  <2> SUFFICES ASSUME PipeInv
               PROVE  HandledInOrder
    OBVIOUS
  <2>1. \A k \in 1 .. Len(handled) : handled[k] = k
    BY DEF PipeInv, OrderInv
  <2>2. LoopOver => batch = <<>> /\ (stop => Dispatched = sent)
    BY DEF PipeInv, StageInv
  <2>3. batch = <<>> => Dispatched = Len(handled)
    BY DEF PipeInv, TypesInv, Dispatched
  <2> QED
    BY <2>1, <2>2, <2>3 DEF HandledInOrder, LoopOver
<1> QED
  BY <1>1, PipeInit, PipeNext, PTL DEF Spec
===============================================================================
