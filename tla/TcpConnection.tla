----------------------------- MODULE TcpConnection -----------------------------
(***************************************************************************)
(* One TcpConnection of a TcpServer: its state, its channel, its output     *)
(* buffer and the functors queued for it in its I/O loop, against the peer, *)
(* the user's code in other threads and in the loop's callbacks, and the    *)
(* TcpServer that holds it (possibly in another loop).                      *)
(*                                                                          *)
(* A call from another thread is two steps, the test of state_ and the rest *)
(* of the call: state_ is a plain variable.  The loop thread runs handlers  *)
(* and functors to completion but for the user callbacks inside them.  The  *)
(* queue is the FIFO of TaskExecutor.  Users keep a TcpConnectionPtr during *)
(* and after their calls, so that the functors bound to a raw `this' find   *)
(* the object alive.                                                        *)
(***************************************************************************)
EXTENDS Channel, Naturals, SequencesExt

CONSTANTS Messages,      \* what the user sends, each once
          MessageSize,   \* units per message: the socket accepts some of them
          HighWaterMark, \* in units
          OtherThreads,  \* threads that are not the connection's loop
          OtherCalls,    \* the calls those threads make
          LoopCalls,     \* the calls user code in the loop's callbacks makes
          ServerStops,   \* may the TcpServer be destroyed meanwhile?
          MaxInbox,      \* bound on what the peer sends
          MaxQueue,      \* no call is made with more functors queued
          MaxCloses      \* no call is made after so many handleClose()

ApiCalls == {"send", "shutdown", "forceClose", "forceCloseWithDelay",
             "startRead", "stopRead"}

ASSUME SizesAssumption == /\ MessageSize \in Nat \ {0}
                          /\ HighWaterMark \in Nat \ {0}
                          /\ MaxInbox \in Nat /\ MaxQueue \in Nat /\ MaxCloses \in Nat
ASSUME CallsAssumption == OtherCalls \subseteq ApiCalls /\ LoopCalls \subseteq ApiCalls
ASSUME ServerStopsAssumption == ServerStops \in BOOLEAN

VARIABLES
  state_, reading_, outputBuffer_,
  events_,    \* channel_->events_
  index_,     \* channel_->index_, see EPollPoller
  queue,      \* functors of the I/O loop for this connection, oldest first
  delayed,    \* is the timer of forceCloseWithDelay running?
  calling,    \* the call each other thread has tested state_ for
  pc,         \* the loop thread: idle, in a channel's handler, in user code
  todo,       \* the callbacks Channel::handleEvent() has still to make
  then,       \* what follows the user callback
  server,     \* has TcpServer the connection in connections_? is it alive?
  removals,   \* removeConnectionInLoop() calls on their way to the server
  wire, fin,  \* units written, and shutdown(SHUT_WR) done
  peer, inbox, sockErr, \* the other end; unread data; SO_ERROR
  accepted,   \* history: units of the messages sendInLoop() took on
  dropped,    \* history: did a write fail for good?
  closes,     \* history: handleClose() calls
  misuse,     \* history: what was done that the code does not provide for
  failed      \* the assert that ended the process

conn == <<state_, reading_, outputBuffer_, events_, index_>>
loop == <<pc, todo, then>>
socket == <<wire, fin, peer, inbox, sockErr>>
owner == <<server, removals>>
history == <<accepted, dropped, closes>>
vars == <<conn, queue, delayed, calling, loop, owner, socket, history, misuse, failed>>

States == {"kConnecting", "kConnected", "kDisconnecting", "kDisconnected"}
Functor == {<<"send", m>> : m \in Messages}
             \cup {<<f>> : f \in {"shutdown", "forceClose", "startRead", "stopRead",
                                   "established", "destroyed", "callback"}}
Units == Messages \X (1 .. MessageSize)

TypeOK ==
  /\ state_ \in States
  /\ reading_ \in BOOLEAN
  /\ outputBuffer_ \in Seq(Units)
  /\ events_ \subseteq Events
  /\ index_ \in {"kNew", "kAdded", "kDeleted"}
  /\ queue \in Seq(Functor)
  /\ delayed \in BOOLEAN
  /\ calling \in [OtherThreads -> {<<"none">>} \cup Functor \cup {<<"delay">>}]
  /\ pc \in {"idle", "handling", "user", "gone"}
  /\ todo \in Seq({"close", "error", "read", "write"})
  /\ then \in {"return", "close", "remove"}
  /\ server \in {"holds", "released", "dead"}
  /\ removals \in Nat
  /\ wire \in Seq(Units)
  /\ fin \in BOOLEAN
  /\ peer \in {"open", "fin", "reset"}
  /\ inbox \in 0 .. MaxInbox
  /\ sockErr \in BOOLEAN
  /\ accepted \in Seq(Units)
  /\ dropped \in BOOLEAN
  /\ closes \in Nat
  /\ misuse \subseteq {"stopRead", "lateRead", "lateClose"}
  /\ failed \in {"none", "handleClose", "removeChannel", "removeConnection",
                 "destructor", "deadServer"}

(* The constructor; TcpServer::newConnection() has then stored the           *)
(* connection and passed connectEstablished() to the I/O loop.               *)
Init ==
  /\ state_ = "kConnecting" /\ reading_ = TRUE /\ outputBuffer_ = <<>>
  /\ events_ = kNoneEvent /\ index_ = "kNew"
  /\ queue = <<<<"established">>>>
  /\ delayed = FALSE
  /\ calling = [t \in OtherThreads |-> <<"none">>]
  /\ pc = "idle" /\ todo = <<>> /\ then = "return"
  /\ server = "holds" /\ removals = 0
  /\ wire = <<>> /\ fin = FALSE
  /\ peer = "open" /\ inbox = 0 /\ sockErr = FALSE
  /\ accepted = <<>> /\ dropped = FALSE /\ closes = 0 /\ misuse = {}
  /\ failed = "none"

(* No assert has ended the process. *)
Running == failed = "none"

--------------------------------------------------------------------------------
(* The channel in its EPollPoller. *)

(* Channel::update() with a new interest *)
update(events) ==
  /\ events_' = events
  /\ index_' = IF index_ = "kAdded" /\ isNoneEvent(events) THEN "kDeleted" ELSE "kAdded"

(* Channel::remove(), with the asserts of EPollPoller::removeChannel *)
removeChannel ==
  /\ failed' = IF index_ = "kNew" \/ ~isNoneEvent(events_) THEN "removeChannel" ELSE failed
  /\ index_' = "kNew"
  /\ UNCHANGED events_

(* Entering a user callback, and what the handler does after it. *)
callUser(next) == pc' = "user" /\ then' = next

(* What poll would report: HUP and ERR need no interest. *)
Ready ==
  {c \in Conditions :
     \/ c = "HUP" /\ (peer = "reset" \/ (fin /\ peer = "fin"))
     \/ c = "ERR" /\ sockErr
     \/ c = "IN" /\ isReading(events_) /\ (inbox > 0 \/ peer # "open")
     \/ c = "OUT" /\ isWriting(events_)}

--------------------------------------------------------------------------------
(* Sending. *)

(* A write to the socket fails for good after shutdownWrite() (EPIPE) or a   *)
(* reset (ECONNRESET); otherwise it takes some of the units, or none.        *)
WriteFails == fin \/ peer = "reset"
WriteTakes(data) == IF WriteFails THEN {0} ELSE 0 .. Len(data)

(* Mutant: one unit too many. *)
Mutant_bytes(m) == [i \in 1 .. MessageSize + 1 |-> <<m, i>>]

(* The units of a message. *)
bytes(m) == [i \in 1 .. MessageSize |-> <<m, i>>]

(* Mutant: a message is written directly although older data is buffered. *)
Mutant_WritesDirectly == TRUE

(* if no thing in output queue, try writing directly *)
WritesDirectly == ~isWriting(events_) /\ outputBuffer_ = <<>>

(* Mutant: write interest is not switched on. *)
Mutant_bufferRest(rest) == outputBuffer_' = outputBuffer_ \o rest /\ UNCHANGED <<events_, index_>>

(* outputBuffer_.append(), and enableWriting() if it was off *)
bufferRest(rest) ==
  /\ outputBuffer_' = outputBuffer_ \o rest
  /\ IF isWriting(events_)
     THEN UNCHANGED <<events_, index_>>
     ELSE update(Interest("enableWriting", events_))

(* sendInLoop().  fs are the functors queued before it is called; it queues  *)
(* writeCompleteCallback_ and highWaterMarkCallback_.                        *)
sendInLoop(m, fs) ==
  \/ /\ state_ = "kDisconnected"
     /\ queue' = fs
     /\ UNCHANGED <<outputBuffer_, events_, index_, wire, accepted, dropped>>
  \/ /\ state_ # "kDisconnected"
     /\ accepted' = accepted \o bytes(m)
     /\ \E n \in IF WritesDirectly THEN WriteTakes(bytes(m)) ELSE {0} :
          LET rest == SubSeq(bytes(m), n + 1, MessageSize)
              fault == WritesDirectly /\ WriteFails
              total == Len(outputBuffer_) + Len(rest)
              high == ~fault /\ total >= HighWaterMark /\ Len(outputBuffer_) < HighWaterMark
          IN  /\ wire' = wire \o SubSeq(bytes(m), 1, n)
              /\ dropped' = (dropped \/ fault)
              /\ IF fault \/ rest = <<>>
                 THEN UNCHANGED <<outputBuffer_, events_, index_>>
                 ELSE bufferRest(rest)
              /\ queue' = IF rest = <<>> \/ high THEN Append(fs, <<"callback">>) ELSE fs

(* Mutant: the half-close does not wait for the output buffer. *)
Mutant_shutdownInLoop(events) == fin' = TRUE

(* Mutant: the test is negated. *)
Mutant_shutdownInLoop_negated(events) == fin' = (fin \/ isWriting(events))

(* shutdownInLoop(): the write side is shut down unless data is waiting. *)
shutdownInLoop(events) == fin' = (fin \/ ~isWriting(events))

--------------------------------------------------------------------------------
(* Handlers of the loop thread. *)

(* Mutant: the channel keeps its interest. *)
Mutant_handleClose ==
  /\ failed' = IF state_ \in {"kConnected", "kDisconnecting"} THEN failed ELSE "handleClose"
  /\ state_' = "kDisconnected"
  /\ closes' = closes + 1
  /\ callUser("close")
  /\ UNCHANGED <<reading_, outputBuffer_, events_, index_, accepted, dropped>>

(* handleClose() up to connectionCallback_; closeCallback_ follows it.       *)
handleClose ==
  /\ failed' = IF state_ \in {"kConnected", "kDisconnecting"} THEN failed ELSE "handleClose"
  /\ state_' = "kDisconnected"
  /\ update(kNoneEvent)
  /\ closes' = closes + 1
  /\ callUser("close")
  /\ UNCHANGED <<reading_, outputBuffer_, accepted, dropped>>

(* A poll reports the channel; handleEvent() makes its callbacks in turn.    *)
poll ==
  /\ Running
  /\ pc = "idle"
  /\ index_ = "kAdded"
  /\ \E revents \in SUBSET Ready :
       /\ revents # {} /\ Ready \ {"OUT"} \subseteq revents
       /\ todo' = handleEvent(revents)
  /\ pc' = "handling"
  /\ UNCHANGED <<conn, queue, delayed, calling, misuse, then, owner, socket, history, failed>>

(* handleRead(): data, end of stream, or an error (which read() consumes).   *)
handleRead ==
  \/ /\ inbox > 0 /\ ~sockErr
     /\ inbox' = inbox - 1
     /\ callUser("return")
     /\ UNCHANGED <<conn, queue, owner, wire, fin, peer, sockErr, history, failed>>
  \/ /\ inbox = 0 /\ peer # "open" /\ ~sockErr
     /\ handleClose
     /\ UNCHANGED <<queue, owner, socket>>
  \/ /\ sockErr
     /\ sockErr' = FALSE
     /\ UNCHANGED <<conn, queue, owner, pc, then, wire, fin, peer, inbox, history, failed>>

(* handleWrite(): the socket takes some units, or the write fails.           *)
handleWrite ==
  IF isWriting(events_)
  THEN \E n \in WriteTakes(outputBuffer_) :
    LET left == SubSeq(outputBuffer_, n + 1, Len(outputBuffer_))
        drained == n > 0 /\ left = <<>>
    IN  /\ wire' = wire \o SubSeq(outputBuffer_, 1, n)
        /\ outputBuffer_' = left
        /\ IF drained
           THEN /\ update(Interest("disableWriting", events_))
                /\ queue' = Append(queue, <<"callback">>)
                /\ IF state_ = "kDisconnecting" THEN shutdownInLoop(events_') ELSE UNCHANGED fin
           ELSE UNCHANGED <<events_, index_, queue, fin>>
        /\ UNCHANGED <<state_, reading_, peer, inbox, sockErr>>
  ELSE UNCHANGED <<conn, queue, socket>>

(* The next callback of handleEvent(), or its end. *)
dispatch ==
  /\ Running
  /\ pc = "handling"
  /\ \/ /\ todo = <<>>
        /\ pc' = "idle"
        /\ UNCHANGED <<conn, queue, owner, todo, then, socket, history, failed>>
     \/ /\ todo # <<>>
        /\ todo' = Tail(todo)
        /\ CASE Head(todo) = "close" -> handleClose /\ UNCHANGED <<queue, owner, socket>>
             [] Head(todo) = "read"  -> handleRead
             [] Head(todo) = "write" -> handleWrite /\ UNCHANGED <<owner, pc, then, history, failed>>
             [] Head(todo) = "error" -> /\ sockErr' = FALSE
                                        /\ UNCHANGED <<conn, queue, owner, pc, then, wire, fin,
                                                       peer, inbox, history, failed>>
  /\ UNCHANGED <<delayed, calling, misuse>>

(* A user callback returns to the rest of its handler: closeCallback_ is     *)
(* TcpServer::removeConnection, and connectDestroyed() removes the channel.  *)
userReturns ==
  /\ Running
  /\ pc = "user"
  /\ pc' = IF todo = <<>> THEN "idle" ELSE "handling"
  /\ then' = "return"
  /\ CASE then = "return" -> UNCHANGED <<events_, index_, removals, failed>>
       [] then = "close"  -> /\ removals' = removals + 1
                             /\ failed' = IF server = "dead" THEN "deadServer" ELSE failed
                             /\ UNCHANGED <<events_, index_>>
       [] then = "remove" -> removeChannel /\ UNCHANGED removals
  /\ UNCHANGED <<state_, reading_, outputBuffer_, queue, delayed, calling, misuse, todo, server,
                 socket, history>>

--------------------------------------------------------------------------------
(* Functors of the I/O loop. *)

connectEstablished ==
  /\ state_' = "kConnected"
  /\ update(Interest("enableReading", events_))
  /\ callUser("return")
  /\ UNCHANGED <<reading_, outputBuffer_, socket, history, failed>>

(* connectDestroyed(): a connection that is still kConnected is closed here. *)
connectDestroyed ==
  /\ IF state_ = "kConnected"
     THEN /\ state_' = "kDisconnected"
          /\ update(kNoneEvent)
          /\ callUser("remove")
          /\ UNCHANGED failed
     ELSE removeChannel /\ UNCHANGED <<state_, pc, then>>
  /\ UNCHANGED <<reading_, outputBuffer_, socket, history>>

(* Mutant: the state is not tested again in the loop thread. *)
Mutant_forceCloseInLoop == handleClose /\ UNCHANGED socket

forceCloseInLoop ==
  IF state_ \in {"kConnected", "kDisconnecting"}
  THEN handleClose /\ UNCHANGED socket
  ELSE UNCHANGED <<conn, pc, then, socket, history, failed>>

startReadInLoop ==
  IF ~reading_ \/ ~isReading(events_)
  THEN reading_' = TRUE /\ update(Interest("enableReading", events_))
  ELSE UNCHANGED <<reading_, events_, index_>>

stopReadInLoop ==
  IF reading_ \/ isReading(events_)
  THEN reading_' = FALSE /\ update(Interest("disableReading", events_))
  ELSE UNCHANGED <<reading_, events_, index_>>

(* History: a call that leaves the channel without interest, or gives it     *)
(* interest again when the connection is closed.                             *)
MisusedBy(f) ==
  CASE f = "stopRead" -> {"stopRead"}
    [] f = "startRead" /\ state_ = "kDisconnected" -> {"lateRead"}
    [] OTHER -> {}

(* The oldest functor of the queue runs. *)
runFunctor ==
  /\ Running
  /\ pc = "idle"
  /\ queue # <<>>
  /\ LET f == Head(queue) IN
     IF f[1] = "send"
     THEN /\ sendInLoop(f[2], Tail(queue))
          /\ UNCHANGED <<state_, reading_, pc, then, fin, peer, inbox, sockErr, closes, failed>>
     ELSE /\ queue' = Tail(queue)
          /\ CASE f[1] = "established" -> connectEstablished
               [] f[1] = "destroyed"   -> connectDestroyed
               [] f[1] = "forceClose"  -> forceCloseInLoop
               [] f[1] = "callback"    -> /\ callUser("return")
                                          /\ UNCHANGED <<conn, socket, history, failed>>
               [] f[1] = "shutdown"    -> /\ shutdownInLoop(events_)
                                          /\ UNCHANGED <<conn, pc, then, wire, peer, inbox,
                                                         sockErr, history, failed>>
               [] f[1] = "startRead"   -> /\ startReadInLoop
                                          /\ UNCHANGED <<state_, outputBuffer_, pc, then, socket,
                                                         history, failed>>
               [] f[1] = "stopRead"    -> /\ stopReadInLoop
                                          /\ UNCHANGED <<state_, outputBuffer_, pc, then, socket,
                                                         history, failed>>
  /\ misuse' = misuse \cup MisusedBy(Head(queue)[1])
  /\ UNCHANGED <<delayed, calling, todo, owner>>

--------------------------------------------------------------------------------
(* Calls of the user. *)

Unsent(m) == /\ \A i \in DOMAIN accepted : accepted[i][1] # m
             /\ <<"send", m>> \notin ToSet(queue)
             /\ \A t \in OtherThreads : calling[t] # <<"send", m>>

(* The test each call begins with.  startRead() and stopRead() test nothing; *)
(* the user has the connection from the first connectionCallback_ on.        *)
Permitted(call) ==
  CASE call \in {"send", "shutdown"} -> state_ = "kConnected"
    [] call \in {"forceClose", "forceCloseWithDelay"} -> state_ \in {"kConnected", "kDisconnecting"}
    [] call \in {"startRead", "stopRead"} -> state_ # "kConnecting"

(* Another thread tests state_ ... *)
callBegins(t) ==
  /\ Running
  /\ pc # "gone" /\ Len(queue) < MaxQueue /\ closes < MaxCloses
  /\ calling[t] = <<"none">>
  /\ \E call \in OtherCalls :
       /\ Permitted(call)
       /\ \/ /\ call = "send"
             /\ \E m \in Messages : Unsent(m) /\ calling' = [calling EXCEPT ![t] = <<"send", m>>]
          \/ /\ call \notin {"send", "forceCloseWithDelay"}
             /\ calling' = [calling EXCEPT ![t] = <<call>>]
          \/ /\ call = "forceCloseWithDelay"
             /\ calling' = [calling EXCEPT ![t] = <<"delay">>]
  /\ UNCHANGED <<conn, queue, delayed, loop, owner, socket, history, misuse, failed>>

(* ... and does the rest of its call. *)
callEnds(t) ==
  /\ Running
  /\ calling[t] # <<"none">>
  /\ state_' = IF calling[t][1] \in {"shutdown", "forceClose", "delay"}
               THEN "kDisconnecting" ELSE state_
  /\ IF calling[t] = <<"delay">>
     THEN delayed' = TRUE /\ UNCHANGED queue
     ELSE queue' = Append(queue, calling[t]) /\ UNCHANGED delayed
  /\ misuse' = IF state_ = "kDisconnected" /\ state_' # state_ THEN misuse \cup {"lateClose"} ELSE misuse
  /\ calling' = [calling EXCEPT ![t] = <<"none">>]
  /\ UNCHANGED <<reading_, outputBuffer_, events_, index_, loop, owner, socket, history, failed>>

(* User code in a callback of the loop: everything but forceClose() acts at once. *)
loopCalls ==
  /\ Running
  /\ pc = "user" /\ Len(queue) < MaxQueue /\ closes < MaxCloses
  /\ \E call \in LoopCalls :
       /\ Permitted(call)
       /\ misuse' = misuse \cup MisusedBy(call)
       /\ \/ /\ call = "send"
             /\ \E m \in Messages : Unsent(m) /\ sendInLoop(m, queue)
             /\ UNCHANGED <<state_, reading_, delayed, fin, peer, inbox, sockErr, closes>>
          \/ /\ call = "shutdown"
             /\ state_' = "kDisconnecting"
             /\ shutdownInLoop(events_)
             /\ UNCHANGED <<reading_, outputBuffer_, events_, index_, queue, delayed, wire, peer,
                            inbox, sockErr, history>>
          \/ /\ call = "forceClose"
             /\ state_' = "kDisconnecting"
             /\ queue' = Append(queue, <<"forceClose">>)
             /\ UNCHANGED <<reading_, outputBuffer_, events_, index_, delayed, socket, history>>
          \/ /\ call = "forceCloseWithDelay"
             /\ state_' = "kDisconnecting"
             /\ delayed' = TRUE
             /\ UNCHANGED <<reading_, outputBuffer_, events_, index_, queue, socket, history>>
          \/ /\ \/ call = "startRead" /\ startReadInLoop
                \/ call = "stopRead" /\ stopReadInLoop
             /\ UNCHANGED <<state_, outputBuffer_, queue, delayed, socket, history>>
  /\ UNCHANGED <<calling, loop, owner, failed>>

(* The timer of forceCloseWithDelay() calls forceClose() in the loop thread. *)
delayEnds ==
  /\ Running
  /\ pc = "idle" /\ delayed
  /\ delayed' = FALSE
  /\ IF Permitted("forceClose")
     THEN state_' = "kDisconnecting" /\ queue' = Append(queue, <<"forceClose">>)
     ELSE UNCHANGED <<state_, queue>>
  /\ UNCHANGED <<reading_, outputBuffer_, events_, index_, calling, loop, owner, socket, history,
                 misuse, failed>>

--------------------------------------------------------------------------------
(* The TcpServer, in its own loop. *)

(* removeConnectionInLoop(), with assert(n == 1), then connectDestroyed() is queued *)
removeConnectionInLoop ==
  /\ Running
  /\ removals > 0
  /\ removals' = removals - 1
  /\ failed' = CASE server = "holds" -> failed
                 [] server = "released" -> "removeConnection"
                 [] server = "dead" -> "deadServer"
  /\ server' = IF server = "holds" THEN "released" ELSE server
  /\ queue' = Append(queue, <<"destroyed">>)
  /\ UNCHANGED <<conn, delayed, calling, misuse, loop, socket, history>>

(* ~TcpServer() hands connectDestroyed() of each connection to its loop. *)
stopServer ==
  /\ Running
  /\ ServerStops
  /\ server # "dead"
  /\ server' = "dead"
  /\ queue' = IF server = "holds" THEN Append(queue, <<"destroyed">>) ELSE queue
  /\ UNCHANGED <<conn, delayed, calling, misuse, loop, removals, socket, history, failed>>

(* The last TcpConnectionPtr goes: ~TcpConnection() and ~Socket().  Neither *)
(* looks at the channel: one that a late startRead() put back stays behind   *)
(* in the poller's channels_, a pointer this module follows no further.      *)
destructor ==
  /\ Running
  /\ pc = "idle" /\ queue = <<>>
  /\ \A t \in OtherThreads : calling[t] = <<"none">>
  /\ server # "holds" /\ removals = 0 /\ state_ # "kConnecting"
  /\ pc' = "gone"
  /\ delayed' = FALSE
  /\ failed' = IF state_ # "kDisconnected" THEN "destructor" ELSE failed
  /\ UNCHANGED <<conn, queue, calling, todo, then, owner, socket, history, misuse>>

--------------------------------------------------------------------------------
(* The peer. *)
peerSends ==
  /\ Running /\ pc # "gone"
  /\ peer = "open" /\ inbox < MaxInbox
  /\ inbox' = inbox + 1
  /\ UNCHANGED <<conn, queue, delayed, calling, misuse, loop, owner, wire, fin, peer, sockErr, history,
                 failed>>

peerCloses ==
  /\ Running /\ pc # "gone"
  /\ peer = "open"
  /\ peer' = "fin"
  /\ UNCHANGED <<conn, queue, delayed, calling, misuse, loop, owner, wire, fin, inbox, sockErr, history,
                 failed>>

peerResets ==
  /\ Running /\ pc # "gone"
  /\ peer # "reset"
  /\ peer' = "reset" /\ inbox' = 0 /\ sockErr' = TRUE
  /\ UNCHANGED <<conn, queue, delayed, calling, misuse, loop, owner, wire, fin, history, failed>>

--------------------------------------------------------------------------------
Loop == poll \/ dispatch \/ userReturns \/ runFunctor
User == loopCalls \/ \E t \in OtherThreads : callBegins(t) \/ callEnds(t)
Peer == peerSends \/ peerCloses \/ peerResets

Next == \/ Loop \/ User \/ Peer
        \/ delayEnds \/ removeConnectionInLoop \/ stopServer \/ destructor

Spec == Init /\ [][Next]_vars

(* The loop is scheduled and callbacks return; each iteration polls and then *)
(* runs the queue, so that neither starves the other.  The server's loop and *)
(* other threads go on, and a peer that has not reset the connection goes on *)
(* reading, so that the socket takes data again and again.                   *)
Fairness ==
  /\ SF_vars(poll)
  /\ SF_vars(runFunctor)
  /\ WF_vars(dispatch)
  /\ WF_vars(userReturns)
  /\ SF_vars(poll /\ "write" \in ToSet(todo'))
  /\ SF_vars(dispatch /\ wire' # wire)
  /\ WF_vars(removeConnectionInLoop)
  /\ WF_vars(destructor)
  /\ SF_vars(delayEnds)
  /\ \A t \in OtherThreads : WF_vars(callEnds(t))

FairSpec == Spec /\ Fairness

--------------------------------------------------------------------------------
(* Properties. *)

(* TcpConnection::sendInLoop and handleWrite: through direct writes, partial *)
(* writes and the output buffer, from whatever thread, what goes out is the  *)
(* messages in the order in which sendInLoop() saw them, with no gap and no  *)
(* repetition, and all of it unless the socket failed.                       *)
StreamIntact ==
  /\ IsPrefix(wire \o outputBuffer_, accepted)
  /\ ~dropped => wire \o outputBuffer_ = accepted

(* TcpConnection::shutdownInLoop: the half-close never cuts off data that    *)
(* was accepted before it, and nothing is buffered after it.                 *)
FinAfterDrain == fin => outputBuffer_ = <<>>

(* TcpConnection::sendInLoop, handleWrite: buffered data never waits         *)
(* unwatched, and the channel never asks for OUT with nothing to write.      *)
BufferedIsWatched ==
  state_ # "kDisconnected" => (isWriting(events_) <=> outputBuffer_ # <<>>)

(* The asserts of TcpConnection, EPollPoller::removeChannel and              *)
(* TcpServer::removeConnectionInLoop never fail if other threads only call   *)
(* send(), the callbacks only send and close, reading is left on and the     *)
(* server outlives the connection, whatever the peer does.                   *)
NoAssertFails == failed = "none"

(* TcpConnection::handleRead, handleClose, TcpServer::removeConnection,      *)
(* connectDestroyed: a connection whose peer has gone is taken out of the    *)
(* poller and of the server and destroyed.                                   *)
PeerGoneReleases == (peer # "open") ~> (pc = "gone")

(* TcpConnection::shutdown, forceClose: a connection that is told to go      *)
(* down sends its FIN after what is buffered, or is closed.                  *)
DisconnectingEnds ==
  (state_ = "kDisconnecting") ~> (fin \/ state_ = "kDisconnected")

(* TcpConnection.c++, handleClose: "assert(state_ == kConnected || state_ == *)
(* kDisconnecting)".  Fails when the user had called stopRead(): disableAll() *)
(* puts the silent channel back into epoll, which reports HUP again.         *)
HandleCloseAssert == failed # "handleClose"

(* The asserts of TcpConnection, EPollPoller::removeChannel and              *)
(* TcpServer::removeConnectionInLoop: whatever is called from wherever, each *)
(* fails only after the misuse that explains it.  handleClose() runs on a    *)
(* closed connection only after a stopRead(), a startRead() on a closed      *)
(* connection, or a close by another thread that overwrites kDisconnected;   *)
(* the connection is erased twice only after the last of these; its channel  *)
(* is removed with interest, and it is destroyed in the wrong state, only    *)
(* after the last two or when the server goes first.                         *)
AssertsFailOnlyAfter ==
  /\ failed = "handleClose" => misuse # {}
  /\ failed = "removeConnection" => "lateClose" \in misuse
  /\ failed = "removeChannel" => misuse \cap {"lateRead", "lateClose"} # {} \/ server = "dead"
  /\ failed = "destructor" => "lateClose" \in misuse \/ server = "dead"

================================================================================
