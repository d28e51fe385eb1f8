--------------------------- MODULE TcpConnectionProofs ---------------------------
(***************************************************************************)
(* Proofs about TcpConnection for any messages, threads, calls and bounds:  *)
(* the stream is intact, buffered data is watched, and each assert fails    *)
(* only after the misuse that explains it.                                  *)
(***************************************************************************)
EXTENDS TcpConnection, SequenceTheorems, TLAPS

(* Of the callbacks that enter user code or close the connection, a          *)
(* sequence has at most one, or none.                                        *)
Callbacks == {"close", "error", "read", "write"}
AtMostOne(s) ==
  \A i, j \in DOMAIN s : s[i] \in {"close", "read"} /\ s[j] \in {"close", "read"} => i = j
HasNone(s) == \A i \in DOMAIN s : s[i] \notin {"close", "read"}

(* A functor is not in the queue, or at most once. *)
Without(q, f) == \A i \in DOMAIN q : q[i] # f
AtMostOnce(q, f) == \A i, j \in DOMAIN q : q[i] = f /\ q[j] = f => i = j

Live == state_ \in {"kConnected", "kDisconnecting"}

(* Once a write has failed, the socket takes nothing more, and there is      *)
(* nothing in the buffer that could follow the gap.                          *)
StreamInv ==
  /\ StreamIntact
  /\ dropped => /\ WriteFails
                /\ ~isWriting(events_)
                /\ outputBuffer_ = <<>>

(* Until another thread overwrites kDisconnected, the interest in OUT says   *)
(* whether there is data; a closed connection has none.                      *)
WatchInv ==
  "lateClose" \notin misuse =>
    /\ BufferedIsWatched
    /\ state_ = "kDisconnected" => ~isWriting(events_)

(* Only the I/O loop and the server queue these. *)
CallsInv ==
  \A t \in OtherThreads : calling[t][1] \notin {"established", "destroyed", "callback"}

(* The functor, or the delay, that a call of another thread ends with. *)
CallOf(call) ==
  CASE call = "send" -> {<<"send", m>> : m \in Messages}
    [] call = "forceCloseWithDelay" -> {<<"delay">>}
    [] OTHER -> {<<call>>}

(* Other threads are in calls they may make, and the queue holds what such   *)
(* calls leave and what the I/O loop and the server put there.               *)
OwnFunctors == {<<"callback">>, <<"forceClose">>, <<"established">>, <<"destroyed">>}
Made(c) == \E call \in OtherCalls : c \in CallOf(call)
MadeInv ==
  /\ \A t \in OtherThreads : calling[t] = <<"none">> \/ Made(calling[t])
  /\ \A i \in DOMAIN queue : queue[i] \in OwnFunctors \/ Made(queue[i])

(* The connection is established by the first functor, before anyone has it. *)
EstablishedInv ==
  /\ state_ # "kConnecting" => Without(queue, <<"established">>)
  /\ state_ = "kConnecting" =>
       /\ queue # <<>> /\ Head(queue) = <<"established">>
       /\ Without(Tail(queue), <<"established">>)
       /\ pc = "idle" /\ removals = 0 /\ server # "released"
       /\ events_ = kNoneEvent /\ index_ = "kNew"
       /\ \A t \in OtherThreads : calling[t] = <<"none">>

(* The server hands the connection over to be destroyed once, when it lets   *)
(* go of it.                                                                 *)
DestroyedInv ==
  /\ server = "holds" => Without(queue, <<"destroyed">>)
  /\ AtMostOnce(queue, <<"destroyed">>)

(* Of the callbacks that one handleEvent() makes at most one enters user     *)
(* code or closes the connection.                                            *)
TodoInv ==
  /\ pc \in {"idle", "gone"} => todo = <<>>
  /\ pc # "handling" => HasNone(todo)
  /\ AtMostOne(todo)

(* A connection that was closed is let go of once, unless another thread     *)
(* overwrites kDisconnected.                                                 *)
Closing == pc = "user" /\ then = "close"
CloseInv ==
  "lateClose" \notin misuse =>
    /\ Closing \/ removals > 0 \/ server = "released" => state_ = "kDisconnected"
    /\ removals <= 1
    /\ Closing => removals = 0 /\ server # "released"
    /\ removals > 0 => server # "released"

(* Without misuse, the channel is in the poller and reads exactly while the  *)
(* connection is live, and only a live connection is told to close.          *)
ChannelInv ==
  misuse = {} =>
    /\ Live => index_ = "kAdded" /\ isReading(events_)
    /\ state_ = "kDisconnected" => index_ # "kAdded" /\ events_ = kNoneEvent
    /\ HasNone(todo) \/ Live

(* While the server is there and a closed connection is left alone, its      *)
(* channel has no interest, and is out of the poller only once               *)
(* connectDestroyed() has run.                                               *)
RemovalInv ==
  misuse \cap {"lateRead", "lateClose"} = {} /\ server # "dead" =>
    /\ state_ = "kDisconnected" => events_ = kNoneEvent
    /\ ~(pc = "user" /\ then = "remove")
    /\ index_ = "kNew" => \/ state_ = "kConnecting"
                          \/ server = "released" /\ Without(queue, <<"destroyed">>)

LifeInv == EstablishedInv /\ DestroyedInv /\ TodoInv /\ CloseInv /\ ChannelInv /\ RemovalInv

Inv == /\ TypeOK /\ StreamInv /\ WatchInv /\ MadeInv /\ AssertsFailOnlyAfter
       /\ Running => LifeInv

(* Only the loop thread closes the connection. *)
OwnCloses == OtherCalls \cap {"shutdown", "forceClose", "forceCloseWithDelay"} = {}
OwnInv == "lateClose" \notin misuse /\ FinAfterDrain

(* Moreover, nobody calls startRead() or stopRead(), and the server outlives *)
(* the connection.                                                           *)
NoMisuse ==
  /\ OwnCloses
  /\ (OtherCalls \cup LoopCalls) \cap {"startRead", "stopRead"} = {}
  /\ ~ServerStops
NoMisuseInv == misuse = {} /\ server # "dead" /\ failed # "deadServer"

--------------------------------------------------------------------------------
(* What the operators do. *)

(* The units of a message. *)
LEMMA BytesOf ==
  ASSUME NEW m \in Messages
  PROVE  bytes(m) \in Seq(Units) /\ Len(bytes(m)) = MessageSize /\ bytes(m) # <<>>
PROOF
  <1>1. MessageSize \in Nat \ {0}
    BY SizesAssumption
  <1>2. bytes(m) \in [1 .. MessageSize -> Units]
    BY <1>1 DEF bytes, Units
  <1>3. bytes(m) \in Seq(Units)
    BY <1>1, <1>2, SeqDef
  <1>4. Len(bytes(m)) = MessageSize
    BY <1>1, <1>3, LenProperties DEF bytes
  <1> QED
    BY <1>1, <1>3, <1>4, EmptySeq

(* What a write takes of a sequence leaves the rest of it. *)
LEMMA WriteSplits ==
  ASSUME NEW data \in Seq(Units), NEW n \in WriteTakes(data)
  PROVE  /\ n \in 0 .. Len(data)
         /\ WriteFails => n = 0
         /\ SubSeq(data, 1, n) \in Seq(Units)
         /\ SubSeq(data, n + 1, Len(data)) \in Seq(Units)
         /\ Len(SubSeq(data, n + 1, Len(data))) = Len(data) - n
         /\ SubSeq(data, 1, n) \o SubSeq(data, n + 1, Len(data)) = data
PROOF
  <1>1. n \in 0 .. Len(data) /\ (WriteFails => n = 0) /\ Len(data) \in Nat
    BY DEF WriteTakes
  <1>2. /\ SubSeq(data, 1, n) \in Seq(Units) /\ SubSeq(data, n + 1, Len(data)) \in Seq(Units)
        /\ Len(SubSeq(data, n + 1, Len(data))) = Len(data) - n
    <2>1. \A i \in 1 .. Len(data) : data[i] \in Units
      BY ElementOfSeq
    <2>2. /\ n \in Int /\ n + 1 \in Int /\ Len(data) \in Int
          /\ \A i \in 1 .. n : data[i] \in Units
          /\ \A i \in n + 1 .. Len(data) : data[i] \in Units
      BY <1>1, <2>1
    <2>3. SubSeq(data, 1, n) \in Seq(Units)
      BY <2>2, SubSeqProperties
    <2>4. /\ SubSeq(data, n + 1, Len(data)) \in Seq(Units)
          /\ Len(SubSeq(data, n + 1, Len(data))) =
               IF n + 1 <= Len(data) THEN Len(data) - (n + 1) + 1 ELSE 0
      BY <2>2, SubSeqProperties
    <2> QED
      BY <1>1, <2>3, <2>4
  <1>3. SubSeq(data, 1, n) \o SubSeq(data, n + 1, Len(data)) = SubSeq(data, 1, Len(data))
    <2>1. 1 \in 1 .. Len(data) + 1 /\ n \in 1 - 1 .. Len(data) /\ Len(data) \in n .. Len(data)
      BY <1>1
    <2> QED
      BY <2>1, ConcatAdjacentSubSeq, Zenon
  <1>4. SubSeq(data, 1, Len(data)) = data
    BY SubSeqFull
  <1> QED
    BY <1>1, <1>2, <1>3, <1>4

(* Concatenations of callbacks. *)
LEMMA AtMostOneConcat ==
  ASSUME NEW x \in Seq(Callbacks), NEW y \in Seq(Callbacks)
  PROVE  /\ x \o y \in Seq(Callbacks)
         /\ HasNone(x) /\ HasNone(y) => HasNone(x \o y)
         /\ AtMostOne(x) /\ HasNone(y) => AtMostOne(x \o y)
         /\ HasNone(x) /\ AtMostOne(y) => AtMostOne(x \o y)
PROOF
  <1>1. /\ Len(x) \in Nat /\ Len(y) \in Nat
        /\ DOMAIN x = 1 .. Len(x) /\ DOMAIN y = 1 .. Len(y)
        /\ x \o y \in Seq(Callbacks) /\ DOMAIN (x \o y) = 1 .. Len(x) + Len(y)
    OBVIOUS
  <1>2. \A i \in 1 .. Len(x) + Len(y) :
          \/ i \in 1 .. Len(x) /\ (x \o y)[i] = x[i]
          \/ i - Len(x) \in 1 .. Len(y) /\ (x \o y)[i] = y[i - Len(x)]
    BY <1>1, ConcatProperties
  <1>3. HasNone(x) /\ HasNone(y) => HasNone(x \o y)
    BY <1>1, <1>2 DEF HasNone
  <1>4. AtMostOne(x) /\ HasNone(y) => AtMostOne(x \o y)
    BY <1>1, <1>2 DEF HasNone, AtMostOne
  <1>5. HasNone(x) /\ AtMostOne(y) => AtMostOne(x \o y)
    BY <1>1, <1>2 DEF HasNone, AtMostOne
  <1> QED
    BY <1>1, <1>3, <1>4, <1>5

(* Channel::handleEvent() makes at most one of them: the close callback is   *)
(* for HUP without IN.                                                       *)
LEMMA HandleEvent ==
  ASSUME NEW revents
  PROVE  handleEvent(revents) \in Seq(Callbacks) /\ AtMostOne(handleEvent(revents))
PROOF
  <1> DEFINE c == IF "HUP" \in revents /\ "IN" \notin revents THEN <<"close">> ELSE <<>>
             e == IF "ERR" \in revents THEN <<"error">> ELSE <<>>
             r == IF "IN" \in revents THEN <<"read">> ELSE <<>>
             w == IF "OUT" \in revents THEN <<"write">> ELSE <<>>
  <1>1. /\ c \in Seq(Callbacks) /\ e \in Seq(Callbacks) /\ r \in Seq(Callbacks)
        /\ w \in Seq(Callbacks)
    <2>1. /\ <<>> \in Seq(Callbacks) /\ <<"close">> \in Seq(Callbacks)
          /\ <<"error">> \in Seq(Callbacks) /\ <<"read">> \in Seq(Callbacks)
          /\ <<"write">> \in Seq(Callbacks)
      BY DEF Callbacks
    <2> QED
      BY <2>1
  <1>2. HasNone(e) /\ HasNone(w) /\ AtMostOne(c) /\ AtMostOne(r) /\ (HasNone(c) \/ HasNone(r))
    <2>1. AtMostOne(<<>>) /\ AtMostOne(<<"close">>) /\ AtMostOne(<<"read">>)
      BY DEF AtMostOne
    <2>2. HasNone(<<>>) /\ HasNone(<<"error">>) /\ HasNone(<<"write">>)
      BY DEF HasNone
    <2>3. c = <<>> \/ r = <<>>
      OBVIOUS
    <2> QED
      BY <2>1, <2>2, <2>3
  <1>3. handleEvent(revents) = ((c \o e) \o r) \o w
    BY DEF handleEvent
  <1> HIDE DEF c, e, r, w
  <1>4. /\ c \o e \in Seq(Callbacks) /\ AtMostOne(c \o e) /\ (HasNone(c) => HasNone(c \o e))
    BY <1>1, <1>2, AtMostOneConcat
  <1>5. (c \o e) \o r \in Seq(Callbacks) /\ AtMostOne((c \o e) \o r)
    BY <1>1, <1>2, <1>4, AtMostOneConcat
  <1> QED
    BY <1>1, <1>2, <1>3, <1>5, AtMostOneConcat

(* Concatenation of units is associative. *)
LEMMA Associative ==
  \A s, t, u \in Seq(Units) : (s \o t) \o u = s \o (t \o u)
PROOF
  <1> SUFFICES ASSUME NEW s \in Seq(Units), NEW t \in Seq(Units), NEW u \in Seq(Units)
               PROVE  (s \o t) \o u = s \o (t \o u)
    OBVIOUS
  <1> QED
    BY ConcatAssociative

(* A sequence is its own prefix. *)
LEMMA PrefixOfItself ==
  ASSUME NEW S, NEW s \in Seq(S)
  PROVE  IsPrefix(s, s)
PROOF
  <1>1. Len(s) \in Nat
    OBVIOUS
  <1> QED
    BY <1>1 DEF IsPrefix

(* A prefix stays one when the sequence grows. *)
LEMMA PrefixOfLonger ==
  ASSUME NEW S, NEW s \in Seq(S), NEW t \in Seq(S), NEW u \in Seq(S), IsPrefix(s, t)
  PROVE  IsPrefix(s, t \o u)
PROOF
  <1>1. /\ Len(s) \in Nat /\ Len(t) \in Nat /\ Len(u) \in Nat /\ Len(s) <= Len(t)
        /\ Len(t \o u) = Len(t) + Len(u) /\ SubSeq(s, 1, Len(s)) = SubSeq(t, 1, Len(s))
    BY DEF IsPrefix
  <1>2. SubSeq(t \o u, 1, Len(s)) = SubSeq(t, 1, Len(s))
    <2>1. CASE s = <<>>
      BY <2>1
    <2>2. CASE s # <<>>
      <3>1. 1 \in 1 .. Len(t) /\ Len(s) \in 1 .. Len(t)
        BY <1>1, <2>2
      <3> QED
        BY <3>1, SubSeqOfConcat1
    <2> QED
      BY <2>1, <2>2
  <1> QED
    BY <1>1, <1>2 DEF IsPrefix

(* sendInLoop(): the interest changes only to watch what it buffers. *)
LEMMA SendEffect ==
  ASSUME TypeOK, NEW m \in Messages, NEW fs \in Seq(Functor), sendInLoop(m, fs)
  PROVE  /\ queue' = fs \/ queue' = Append(fs, <<"callback">>)
         /\ outputBuffer_' \in Seq(Units) /\ wire' \in Seq(Units) /\ accepted' \in Seq(Units)
         /\ dropped' \in BOOLEAN
         /\ \/ UNCHANGED <<outputBuffer_, events_, index_>>
            \/ /\ state_ # "kDisconnected" /\ ~(WritesDirectly /\ WriteFails)
               /\ outputBuffer_' # <<>>
               /\ events_' = events_ \cup {kWriteEvent}
               /\ index_' = IF isWriting(events_) THEN index_ ELSE "kAdded"
PROOF
  <1>0. /\ outputBuffer_ \in Seq(Units) /\ wire \in Seq(Units) /\ accepted \in Seq(Units)
        /\ dropped \in BOOLEAN /\ events_ \subseteq Events
    BY DEF TypeOK
  <1>1. CASE state_ = "kDisconnected"
    <2>1. /\ queue' = fs
          /\ UNCHANGED <<outputBuffer_, events_, index_, wire, accepted, dropped>>
      BY <1>1 DEF sendInLoop
    <2> QED
      BY <1>0, <2>1
  <1>2. CASE state_ # "kDisconnected"
    <2> DEFINE b == bytes(m)  fault == WritesDirectly /\ WriteFails
               rest(n) == SubSeq(b, n + 1, MessageSize)
    <2>1. PICK n \in IF WritesDirectly THEN WriteTakes(b) ELSE {0} :
            /\ wire' = wire \o SubSeq(b, 1, n)
            /\ dropped' = (dropped \/ fault)
            /\ IF fault \/ rest(n) = <<>>
               THEN UNCHANGED <<outputBuffer_, events_, index_>>
               ELSE bufferRest(rest(n))
            /\ queue' = fs \/ queue' = Append(fs, <<"callback">>)
      BY <1>2, Zenon DEF sendInLoop
    <2>2. b \in Seq(Units) /\ Len(b) = MessageSize /\ 0 \in WriteTakes(b)
      BY BytesOf DEF WriteTakes
    <2> HIDE DEF b
    <2>3. n \in WriteTakes(b)
      BY <2>2
    <2>4. SubSeq(b, 1, n) \in Seq(Units) /\ rest(n) \in Seq(Units)
      BY <2>2, <2>3, WriteSplits
    <2>5. accepted' = accepted \o b
      BY <1>2 DEF sendInLoop, b
    <2> HIDE DEF rest
    <2>6. wire' \in Seq(Units) /\ accepted' \in Seq(Units)
      BY <1>0, <2>1, <2>2, <2>4, <2>5
    <2>7. dropped' \in BOOLEAN
      BY <1>0, <2>1, Zenon
    <2>8. CASE fault \/ rest(n) = <<>>
      BY <1>0, <2>1, <2>6, <2>7, <2>8
    <2>9. CASE ~fault /\ rest(n) # <<>>
      <3>1. bufferRest(rest(n))
        BY <2>1, <2>9
      <3>2. outputBuffer_' = outputBuffer_ \o rest(n)
        BY <3>1 DEF bufferRest
      <3>3. outputBuffer_' \in Seq(Units) /\ outputBuffer_' # <<>>
        BY <1>0, <2>4, <2>9, <3>2
      <3>4. /\ events_' = events_ \cup {kWriteEvent}
            /\ index_' = IF isWriting(events_) THEN index_ ELSE "kAdded"
        <4>1. CASE isWriting(events_)
          BY <3>1, <4>1 DEF bufferRest, isWriting
        <4>2. CASE ~isWriting(events_)
          BY <3>1, <4>2 DEF bufferRest, update, Interest, isNoneEvent, kNoneEvent
        <4> QED
          BY <4>1, <4>2
      <3> QED
        BY <1>2, <2>1, <2>6, <2>7, <2>9, <3>3, <3>4
    <2> QED
      BY <2>8, <2>9
  <1> QED
    BY <1>1, <1>2

(* ... and types are kept. *)
LEMMA SendTypes ==
  ASSUME TypeOK, NEW m \in Messages, NEW fs \in Seq(Functor), sendInLoop(m, fs)
  PROVE  /\ outputBuffer_' \in Seq(Units) /\ wire' \in Seq(Units) /\ accepted' \in Seq(Units)
         /\ queue' \in Seq(Functor)
         /\ events_' \subseteq Events /\ index_' \in {"kNew", "kAdded", "kDeleted"}
PROOF
  <1>1. <<"callback">> \in Functor /\ events_ \cup {kWriteEvent} \subseteq Events
    BY DEF Functor, Events, TypeOK
  <1>2. queue' = fs \/ queue' = Append(fs, <<"callback">>)
    BY SendEffect, Zenon
  <1>3. \/ UNCHANGED <<events_, index_>>
        \/ events_' = events_ \cup {kWriteEvent} /\ index_' \in {index_, "kAdded"}
    BY SendEffect
  <1>4. queue' \in Seq(Functor)
    BY <1>1, <1>2
  <1>5. events_' \subseteq Events /\ index_' \in {"kNew", "kAdded", "kDeleted"}
    BY <1>1, <1>3 DEF TypeOK
  <1> QED
    BY <1>4, <1>5, SendEffect, Zenon

(* sendInLoop(): the message follows what was accepted before it, on the     *)
(* wire and in the buffer, or is lost to a socket that takes nothing more.   *)
LEMMA SendKeepsStream ==
  ASSUME TypeOK, StreamInv, NEW m \in Messages, NEW fs, sendInLoop(m, fs),
         UNCHANGED <<fin, peer>>
  PROVE  StreamInv'
PROOF
  <1>0. /\ outputBuffer_ \in Seq(Units) /\ wire \in Seq(Units) /\ accepted \in Seq(Units)
        /\ dropped \in BOOLEAN
    BY DEF TypeOK
  <1>a. WriteFails' <=> WriteFails
    BY DEF WriteFails
  <1>1. CASE state_ = "kDisconnected"
    BY <1>1, <1>a DEF sendInLoop, StreamInv, StreamIntact
  <1>2. CASE state_ # "kDisconnected"
    <2> DEFINE b == bytes(m)  fault == WritesDirectly /\ WriteFails
               rest(n) == SubSeq(b, n + 1, MessageSize)
    <2>1. PICK n \in IF WritesDirectly THEN WriteTakes(b) ELSE {0} :
            /\ wire' = wire \o SubSeq(b, 1, n)
            /\ dropped' = (dropped \/ fault)
            /\ IF fault \/ rest(n) = <<>>
               THEN UNCHANGED <<outputBuffer_, events_, index_>>
               ELSE bufferRest(rest(n))
      BY <1>2, Zenon DEF sendInLoop
    <2>2. b \in Seq(Units) /\ Len(b) = MessageSize /\ 0 \in WriteTakes(b)
      BY BytesOf DEF WriteTakes
    <2>3. accepted' = accepted \o b
      BY <1>2 DEF sendInLoop
    <2> HIDE DEF b
    <2>4. n \in WriteTakes(b)
      BY <2>2
    <2>5. /\ SubSeq(b, 1, n) \in Seq(Units) /\ rest(n) \in Seq(Units)
          /\ SubSeq(b, 1, n) \o rest(n) = b /\ (WriteFails => n = 0)
      BY <2>2, <2>4, WriteSplits
    <2>6. n = 0 => SubSeq(b, 1, n) = <<>>
      BY SubSeqEmpty
    <2> HIDE DEF rest
    <2>7. CASE fault
      <3>1. /\ outputBuffer_' = outputBuffer_ /\ events_' = events_ /\ outputBuffer_ = <<>>
            /\ ~isWriting(events_) /\ WriteFails /\ dropped'
        BY <2>1, <2>7, Zenon DEF WritesDirectly
      <3>2. wire' = wire
        BY <1>0, <2>1, <2>5, <2>6, <3>1
      <3>3. IsPrefix(wire \o outputBuffer_, accepted')
        <4>1. wire \o outputBuffer_ \in Seq(Units) /\ IsPrefix(wire \o outputBuffer_, accepted)
          BY <1>0 DEF StreamInv, StreamIntact
        <4> QED
          BY <1>0, <2>2, <2>3, <4>1, PrefixOfLonger, Zenon
      <3> QED
        BY <1>a, <3>1, <3>2, <3>3 DEF StreamInv, StreamIntact
    <2>8. CASE ~fault
      <3>1. ~dropped
        BY <2>8 DEF StreamInv, WritesDirectly
      <3>2. ~dropped'
        BY <2>1, <2>8, <3>1, Zenon
      <3>3. outputBuffer_' = outputBuffer_ \o rest(n)
        <4>1. CASE rest(n) = <<>>
          BY <1>0, <2>1, <4>1, ConcatEmptySeq
        <4>2. CASE rest(n) # <<>>
          BY <2>1, <2>8, <4>2 DEF bufferRest
        <4> QED
          BY <4>1, <4>2
      <3>4. n = 0 \/ outputBuffer_ = <<>>
        BY DEF WritesDirectly
      <3>5. wire' \o outputBuffer_' = (wire \o outputBuffer_) \o b
        <4> DEFINE a == SubSeq(b, 1, n)  z == rest(n)
        <4> HIDE DEF a, z
        <4>0. a \in Seq(Units) /\ z \in Seq(Units) /\ a \o z = b
          BY <2>5 DEF a, z
        <4>1. CASE n = 0
          <5>1. a = <<>> /\ z = b /\ wire' = wire
            BY <1>0, <2>1, <2>6, <4>0, <4>1, ConcatEmptySeq DEF a
          <5> QED
            BY <1>0, <2>2, <3>3, <5>1, Associative, Zenon DEF z
        <4>2. CASE outputBuffer_ = <<>>
          <5>1. outputBuffer_' = z /\ wire \o outputBuffer_ = wire /\ wire' = wire \o a
            BY <1>0, <2>1, <3>3, <4>0, <4>2, ConcatEmptySeq DEF a, z
          <5>2. (wire \o a) \o z = wire \o (a \o z)
            BY <1>0, <4>0, Associative, Zenon
          <5> QED
            BY <4>0, <5>1, <5>2
        <4> QED
          BY <3>4, <4>1, <4>2
      <3>6. wire \o outputBuffer_ = accepted
        BY <3>1 DEF StreamInv, StreamIntact
      <3>7. IsPrefix(accepted', accepted')
        <4>1. accepted' \in Seq(Units)
          BY <1>0, <2>2, <2>3
        <4> QED
          BY <4>1, PrefixOfItself, Zenon
      <3> QED
        BY <2>3, <3>2, <3>5, <3>6, <3>7 DEF StreamInv, StreamIntact
    <2> QED
      BY <2>7, <2>8
  <1> QED
    BY <1>1, <1>2

(* handleWrite(): what leaves the buffer is on the wire, and the interest    *)
(* goes when the buffer has drained.                                         *)
LEMMA WriteEffect ==
  ASSUME TypeOK, handleWrite
  PROVE  /\ outputBuffer_' \in Seq(Units) /\ wire' \in Seq(Units) /\ fin' \in BOOLEAN
         /\ wire' \o outputBuffer_' = wire \o outputBuffer_
         /\ queue' = queue \/ queue' = Append(queue, <<"callback">>)
         /\ UNCHANGED <<state_, reading_, peer, inbox, sockErr>>
         /\ fin => fin'
         /\ \/ /\ UNCHANGED <<events_, index_, fin>>
               /\ outputBuffer_' = <<>> <=> outputBuffer_ = <<>>
            \/ /\ isWriting(events_)
               /\ outputBuffer_' = <<>>
               /\ events_' = events_ \ {kWriteEvent}
               /\ index_' = IF index_ = "kAdded" /\ events_' = {} THEN "kDeleted" ELSE "kAdded"
         /\ ~isWriting(events_) => UNCHANGED <<outputBuffer_, events_, index_, fin, wire>>
PROOF
  <1>0. outputBuffer_ \in Seq(Units) /\ wire \in Seq(Units) /\ fin \in BOOLEAN
    BY DEF TypeOK
  <1>1. CASE ~isWriting(events_)
    BY <1>0, <1>1 DEF handleWrite, conn, socket
  <1>2. CASE isWriting(events_)
    <2> DEFINE left(n) == SubSeq(outputBuffer_, n + 1, Len(outputBuffer_))
               drained(n) == n > 0 /\ left(n) = <<>>
    <2>1. PICK n \in WriteTakes(outputBuffer_) :
            /\ wire' = wire \o SubSeq(outputBuffer_, 1, n)
            /\ outputBuffer_' = left(n)
            /\ IF drained(n)
               THEN /\ update(Interest("disableWriting", events_))
                    /\ queue' = Append(queue, <<"callback">>)
                    /\ IF state_ = "kDisconnecting" THEN shutdownInLoop(events_') ELSE UNCHANGED fin
               ELSE UNCHANGED <<events_, index_, queue, fin>>
            /\ UNCHANGED <<state_, reading_, peer, inbox, sockErr>>
      BY <1>2, Zenon DEF handleWrite
    <2>2. /\ SubSeq(outputBuffer_, 1, n) \in Seq(Units) /\ left(n) \in Seq(Units)
          /\ SubSeq(outputBuffer_, 1, n) \o left(n) = outputBuffer_
          /\ n \in 0 .. Len(outputBuffer_) /\ Len(left(n)) = Len(outputBuffer_) - n
      BY <1>0, WriteSplits
    <2> HIDE DEF left
    <2>3. outputBuffer_' \in Seq(Units) /\ wire' \in Seq(Units)
      BY <1>0, <2>1, <2>2
    <2>4. wire' \o outputBuffer_' = wire \o outputBuffer_
      <3>1. (wire \o SubSeq(outputBuffer_, 1, n)) \o left(n) =
              wire \o (SubSeq(outputBuffer_, 1, n) \o left(n))
        BY <1>0, <2>2, Associative, Zenon
      <3> QED
        BY <2>1, <2>2, <3>1
    <2>5. CASE drained(n)
      <3>1. fin' \in BOOLEAN /\ (fin => fin')
        BY <1>0, <2>1, <2>5, Zenon DEF shutdownInLoop
      <3>2. /\ events_' = events_ \ {kWriteEvent}
            /\ index_' = IF index_ = "kAdded" /\ events_' = {} THEN "kDeleted" ELSE "kAdded"
            /\ queue' = Append(queue, <<"callback">>) /\ outputBuffer_' = <<>>
        BY <2>1, <2>5 DEF update, Interest, isNoneEvent, kNoneEvent
      <3> QED
        BY <1>2, <2>1, <2>3, <2>4, <3>1, <3>2
    <2>6. CASE ~drained(n)
      <3>1. outputBuffer_' = <<>> <=> outputBuffer_ = <<>>
        <4>1. CASE n = 0
          BY <1>0, <2>1, <2>2, <4>1
        <4>2. CASE n > 0
          BY <1>0, <2>1, <2>2, <2>6, <4>2
        <4> QED
          BY <2>2, <4>1, <4>2
      <3>2. fin' \in BOOLEAN /\ UNCHANGED <<events_, index_, fin, queue>>
        BY <1>0, <2>1, <2>6
      <3> QED
        BY <1>2, <2>1, <2>3, <2>4, <3>1, <3>2
    <2> QED
      BY <2>5, <2>6
  <1> QED
    BY <1>1, <1>2

(* ... and types are kept. *)
LEMMA WriteTypes ==
  ASSUME TypeOK, handleWrite
  PROVE  /\ outputBuffer_' \in Seq(Units) /\ wire' \in Seq(Units) /\ queue' \in Seq(Functor)
         /\ events_' \subseteq Events /\ index_' \in {"kNew", "kAdded", "kDeleted"}
         /\ state_' = state_ /\ peer' = peer /\ inbox' = inbox
PROOF
  <1>1. <<"callback">> \in Functor /\ events_ \ {kWriteEvent} \subseteq Events
    BY DEF Functor, TypeOK
  <1>2. queue' = queue \/ queue' = Append(queue, <<"callback">>)
    BY WriteEffect, Zenon
  <1>3. \/ UNCHANGED <<events_, index_>>
        \/ events_' = events_ \ {kWriteEvent} /\ (index_' = "kAdded" \/ index_' = "kDeleted")
    BY WriteEffect, Zenon
  <1>4. queue' \in Seq(Functor)
    <2>1. queue \in Seq(Functor)
      BY DEF TypeOK
    <2> QED
      BY <1>1, <1>2, <2>1
  <1>5. events_' \subseteq Events /\ index_' \in {"kNew", "kAdded", "kDeleted"}
    BY <1>1, <1>3 DEF TypeOK
  <1> QED
    BY <1>4, <1>5, WriteEffect, Zenon

--------------------------------------------------------------------------------
(* The steps of Next, one by one: each disjunct of the handlers, functors    *)
(* and calls by itself.                                                      *)

Handles(calls) ==
  /\ pc = "handling" /\ todo # <<>> /\ Head(todo) \in calls /\ todo' = Tail(todo)
  /\ UNCHANGED <<delayed, calling, owner, misuse>>

HandlingEnds ==
  /\ pc = "handling" /\ todo = <<>> /\ pc' = "idle"
  /\ UNCHANGED <<conn, queue, delayed, calling, todo, then, owner, socket, history, misuse, failed>>
HandlesClose == Handles({"close", "read"}) /\ handleClose /\ UNCHANGED <<queue, socket>>
HandlesData ==
  /\ Handles({"read"}) /\ inbox > 0 /\ inbox' = inbox - 1 /\ callUser("return")
  /\ UNCHANGED <<conn, queue, wire, fin, peer, sockErr, history, failed>>
HandlesError ==
  /\ Handles({"read", "error"}) /\ sockErr' = FALSE
  /\ UNCHANGED <<conn, queue, pc, then, wire, fin, peer, inbox, history, failed>>
HandlesWrite == Handles({"write"}) /\ handleWrite /\ UNCHANGED <<pc, then, history, failed>>
Dispatches == HandlingEnds \/ HandlesClose \/ HandlesData \/ HandlesError \/ HandlesWrite

Returns(next) ==
  /\ pc = "user" /\ then = next
  /\ pc' = IF todo = <<>> THEN "idle" ELSE "handling"
  /\ then' = "return"
  /\ UNCHANGED <<state_, reading_, outputBuffer_, events_, queue, delayed, calling, misuse, todo,
                 server, socket, history>>
ReturnsOnly == Returns("return") /\ UNCHANGED <<index_, removals, failed>>
ReturnsClose ==
  /\ Returns("close") /\ removals' = removals + 1
  /\ failed' = IF server = "dead" THEN "deadServer" ELSE failed
  /\ UNCHANGED index_
ReturnsRemove == Returns("remove") /\ removeChannel /\ UNCHANGED removals

SendKeeps == <<state_, reading_, delayed, calling, loop, owner, fin, peer, inbox, sockErr, closes,
               misuse, failed>>
Reads(f) ==
  /\ misuse' = misuse \cup MisusedBy(f)
  /\ (f = "startRead" /\ startReadInLoop) \/ (f = "stopRead" /\ stopReadInLoop)
  /\ UNCHANGED <<state_, outputBuffer_, delayed, calling, loop, owner, socket, history, failed>>

Runs(f) ==
  /\ pc = "idle" /\ queue # <<>> /\ Head(queue) = <<f>> /\ queue' = Tail(queue)
  /\ UNCHANGED <<delayed, calling, todo, owner>>
RunsSend ==
  /\ pc = "idle" /\ queue # <<>> /\ Head(queue)[1] = "send"
  /\ \E m \in Messages : sendInLoop(m, Tail(queue))
  /\ UNCHANGED SendKeeps
RunsEstablished == Runs("established") /\ connectEstablished /\ UNCHANGED misuse
RunsDestroyed ==
  /\ Runs("destroyed") /\ state_ # "kConnected" /\ removeChannel
  /\ UNCHANGED <<state_, reading_, outputBuffer_, pc, then, socket, history, misuse>>
RunsDestroyedLive ==
  /\ Runs("destroyed") /\ state_ = "kConnected" /\ state_' = "kDisconnected"
  /\ update(kNoneEvent) /\ callUser("remove")
  /\ UNCHANGED <<reading_, outputBuffer_, socket, history, misuse, failed>>
RunsForceClose == Runs("forceClose") /\ Live /\ handleClose /\ UNCHANGED <<socket, misuse>>
RunsNothing == Runs("forceClose") /\ UNCHANGED <<conn, pc, then, socket, history, misuse, failed>>
RunsCallback ==
  Runs("callback") /\ callUser("return") /\ UNCHANGED <<conn, socket, history, misuse, failed>>
RunsShutdown ==
  /\ Runs("shutdown") /\ shutdownInLoop(events_)
  /\ UNCHANGED <<conn, pc, then, wire, peer, inbox, sockErr, history, misuse, failed>>
RunsRead == \E f \in {"startRead", "stopRead"} : Runs(f) /\ Reads(f)
RunsFunctor == \/ RunsSend \/ RunsEstablished \/ RunsDestroyed \/ RunsDestroyedLive
               \/ RunsForceClose \/ RunsNothing \/ RunsCallback \/ RunsShutdown \/ RunsRead

InUser == pc = "user" /\ UNCHANGED <<calling, loop, owner, failed>>
CallsSend == InUser /\ (\E m \in Messages : sendInLoop(m, queue)) /\ UNCHANGED SendKeeps
CallsShutdown ==
  /\ InUser /\ state_ = "kConnected" /\ state_' = "kDisconnecting" /\ shutdownInLoop(events_)
  /\ UNCHANGED <<reading_, outputBuffer_, events_, index_, queue, delayed, wire, peer, inbox,
                 sockErr, history, misuse>>
CallsForceClose ==
  /\ InUser /\ Live /\ state_' = "kDisconnecting" /\ queue' = Append(queue, <<"forceClose">>)
  /\ UNCHANGED <<reading_, outputBuffer_, events_, index_, delayed, socket, history, misuse>>
CallsDelay ==
  /\ InUser /\ Live /\ state_' = "kDisconnecting" /\ delayed' = TRUE
  /\ UNCHANGED <<reading_, outputBuffer_, events_, index_, queue, socket, history, misuse>>
CallsRead ==
  /\ InUser /\ state_ # "kConnecting"
  /\ \E f \in {"startRead", "stopRead"} : f \in LoopCalls /\ Reads(f)
  /\ UNCHANGED queue
Calls == CallsSend \/ CallsShutdown \/ CallsForceClose \/ CallsDelay \/ CallsRead

Begins(t) ==
  /\ state_ # "kConnecting" /\ pc # "gone"
  /\ \E call \in OtherCalls : \E c \in CallOf(call) : calling' = [calling EXCEPT ![t] = c]
  /\ UNCHANGED <<conn, queue, delayed, loop, owner, socket, history, misuse, failed>>
Ends(t) ==
  /\ calling[t] # <<"none">>
  /\ calling' = [calling EXCEPT ![t] = <<"none">>]
  /\ state_' = IF calling[t][1] \in {"shutdown", "forceClose", "delay"}
               THEN "kDisconnecting" ELSE state_
  /\ misuse' = IF state_ = "kDisconnected" /\ state_' # state_
               THEN misuse \cup {"lateClose"} ELSE misuse
  /\ UNCHANGED <<reading_, outputBuffer_, events_, index_, loop, owner, socket, history, failed>>
EndsDelay(t) == Ends(t) /\ calling[t] = <<"delay">> /\ delayed' = TRUE /\ UNCHANGED queue
EndsCall(t) ==
  Ends(t) /\ calling[t] # <<"delay">> /\ queue' = Append(queue, calling[t]) /\ UNCHANGED delayed

Delay ==
  /\ pc = "idle" /\ delayed' = FALSE
  /\ UNCHANGED <<reading_, outputBuffer_, events_, index_, calling, loop, owner, socket, history,
                 misuse, failed>>
DelayCloses ==
  Delay /\ Live /\ state_' = "kDisconnecting" /\ queue' = Append(queue, <<"forceClose">>)
DelayLate == Delay /\ UNCHANGED <<state_, queue>>

(* What a functor is. *)
LEMMA Functors ==
  /\ \A m \in Messages : <<"send", m>> \in Functor
  /\ \A f \in {"shutdown", "forceClose", "startRead", "stopRead", "established", "destroyed",
               "callback"} : <<f>> \in Functor
  /\ \A f \in Functor : f[1] = "send" => f[2] \in Messages
  /\ \A f \in Functor :
       \/ f[1] = "send"
       \/ f[1] \in {"shutdown", "forceClose", "startRead", "stopRead", "established", "destroyed",
                    "callback"} /\ f = <<f[1]>>
PROOF
  BY DEF Functor

(* dispatch, step by step. *)
LEMMA DispatchSteps ==
  ASSUME TypeOK, dispatch
  PROVE  Dispatches
PROOF
  <1> USE DEF Dispatches, Handles, loop
  <1>1. CASE todo = <<>>
    BY <1>1, Zenon DEF dispatch, HandlingEnds
  <1>2. CASE todo # <<>> /\ Head(todo) = "close"
    BY <1>2, Zenon DEF dispatch, HandlesClose, owner
  <1>3. CASE todo # <<>> /\ Head(todo) = "read"
    <2>1. /\ handleRead /\ todo' = Tail(todo) /\ pc = "handling"
          /\ UNCHANGED <<delayed, calling, misuse>>
      BY <1>3, Zenon DEF dispatch
    <2>2. UNCHANGED owner
      BY <2>1, Zenon DEF handleRead
    <2> QED
      BY <1>3, <2>1, <2>2, Zenon DEF handleRead, HandlesClose, HandlesData, HandlesError
  <1>4. CASE todo # <<>> /\ Head(todo) = "write"
    BY <1>4, Zenon DEF dispatch, HandlesWrite
  <1>5. CASE todo # <<>> /\ Head(todo) = "error"
    BY <1>5, Zenon DEF dispatch, HandlesError
  <1> QED
    BY <1>1, <1>2, <1>3, <1>4, <1>5 DEF TypeOK

(* userReturns, step by step. *)
LEMMA ReturnSteps ==
  ASSUME TypeOK, userReturns
  PROVE  ReturnsOnly \/ ReturnsClose \/ ReturnsRemove
PROOF
  <1> USE DEF Returns, owner
  <1>1. CASE then = "return"
    BY <1>1, Zenon DEF userReturns, ReturnsOnly
  <1>2. CASE then = "close"
    BY <1>2, Zenon DEF userReturns, ReturnsClose
  <1>3. CASE then = "remove"
    BY <1>3, Zenon DEF userReturns, ReturnsRemove, removeChannel
  <1> QED
    BY <1>1, <1>2, <1>3 DEF TypeOK

(* runFunctor, step by step. *)
LEMMA FunctorSteps ==
  ASSUME TypeOK, runFunctor
  PROVE  RunsFunctor
PROOF
  <1> DEFINE f == Head(queue)
  <1>0. f \in Functor /\ queue # <<>> /\ pc = "idle" /\ UNCHANGED <<delayed, calling, todo, owner>>
    BY HeadTailProperties DEF TypeOK, runFunctor
  <1>1. CASE f[1] = "send"
    <2>1. misuse' = misuse
      BY <1>1 DEF runFunctor, MisusedBy
    <2> QED
      BY <1>0, <1>1, <2>1, Functors, Zenon DEF runFunctor, RunsFunctor, RunsSend, SendKeeps, loop
  <1> USE DEF RunsFunctor, Runs
  <1>2. CASE f = <<"established">>
    <2>1. f[1] = "established" /\ misuse' = misuse
      BY <1>2 DEF runFunctor, MisusedBy
    <2> QED
      BY <1>0, <1>2, <2>1, Zenon DEF runFunctor, RunsEstablished
  <1>3. CASE f = <<"destroyed">>
    <2>1. f[1] = "destroyed" /\ misuse' = misuse
      BY <1>3 DEF runFunctor, MisusedBy
    <2> QED
      BY <1>0, <1>3, <2>1, Zenon
      DEF runFunctor, connectDestroyed, RunsDestroyed, RunsDestroyedLive
  <1>4. CASE f = <<"forceClose">>
    <2>1. f[1] = "forceClose" /\ misuse' = misuse
      BY <1>4 DEF runFunctor, MisusedBy
    <2> QED
      BY <1>0, <1>4, <2>1, Zenon
      DEF runFunctor, forceCloseInLoop, RunsForceClose, RunsNothing, Live
  <1>5. CASE f = <<"callback">>
    <2>1. f[1] = "callback" /\ misuse' = misuse
      BY <1>5 DEF runFunctor, MisusedBy
    <2> QED
      BY <1>0, <1>5, <2>1, Zenon DEF runFunctor, RunsCallback
  <1>6. CASE f = <<"shutdown">>
    <2>1. f[1] = "shutdown" /\ misuse' = misuse
      BY <1>6 DEF runFunctor, MisusedBy
    <2> QED
      BY <1>0, <1>6, <2>1, Zenon DEF runFunctor, RunsShutdown
  <1>7. CASE f = <<"startRead">>
    <2>1. f[1] = "startRead"
      BY <1>7
    <2> QED
      BY <1>0, <1>7, <2>1, Zenon DEF runFunctor, RunsRead, Reads, loop
  <1>8. CASE f = <<"stopRead">>
    <2>1. f[1] = "stopRead"
      BY <1>8
    <2> QED
      BY <1>0, <1>8, <2>1, Zenon DEF runFunctor, RunsRead, Reads, loop
  <1> QED
    BY <1>0, <1>1, <1>2, <1>3, <1>4, <1>5, <1>6, <1>7, <1>8, Functors

(* loopCalls, step by step. *)
LEMMA CallSteps ==
  ASSUME TypeOK, loopCalls
  PROVE  Calls
PROOF
  <1>1. PICK call \in LoopCalls :
          /\ Permitted(call)
          /\ misuse' = misuse \cup MisusedBy(call)
          /\ loopCalls!3!(call)!3
    BY Zenon DEF loopCalls
  <1>2. InUser
    BY Zenon DEF loopCalls, InUser
  <1>3. call \notin {"startRead", "stopRead"} => misuse' = misuse
    BY <1>1 DEF MisusedBy
  <1> USE <1>1, <1>2, <1>3 DEF Calls, Permitted
  <1>4. CASE call = "send"
    BY <1>4, Zenon DEF CallsSend, SendKeeps, InUser
  <1>5. CASE call = "shutdown"
    BY <1>5, Zenon DEF CallsShutdown
  <1>6. CASE call = "forceClose"
    BY <1>6, Zenon DEF CallsForceClose, Live
  <1>7. CASE call = "forceCloseWithDelay"
    BY <1>7, Zenon DEF CallsDelay, Live
  <1>8. CASE call = "startRead"
    BY <1>8, Zenon DEF CallsRead, Reads, InUser
  <1>9. CASE call = "stopRead"
    BY <1>9, Zenon DEF CallsRead, Reads, InUser
  <1> QED
    BY <1>4, <1>5, <1>6, <1>7, <1>8, <1>9, CallsAssumption DEF ApiCalls

(* The calls of other threads and the timer, step by step. *)
LEMMA ThreadSteps ==
  ASSUME TypeOK
  PROVE  /\ \A t \in OtherThreads : callBegins(t) => Begins(t)
         /\ \A t \in OtherThreads : callEnds(t) => EndsDelay(t) \/ EndsCall(t)
         /\ delayEnds => DelayCloses \/ DelayLate
PROOF
  <1>1. ASSUME NEW t \in OtherThreads, callBegins(t)
        PROVE  Begins(t)
    <2>1. PICK call \in OtherCalls : Permitted(call) /\ callBegins(t)!4!(call)!2
      BY <1>1, Zenon DEF callBegins
    <2>2. call \in ApiCalls
      BY CallsAssumption
    <2>3. state_ # "kConnecting"
      BY <2>1, <2>2 DEF Permitted, ApiCalls
    <2>4. \E c \in CallOf(call) : calling' = [calling EXCEPT ![t] = c]
      BY <2>1, <2>2 DEF CallOf, ApiCalls
    <2> QED
      BY <1>1, <2>3, <2>4, Zenon DEF callBegins, Begins
  <1>2. ASSUME NEW t \in OtherThreads, callEnds(t)
        PROVE  EndsDelay(t) \/ EndsCall(t)
    BY <1>2, Zenon DEF callEnds, EndsDelay, EndsCall, Ends
  <1>3. ASSUME delayEnds
        PROVE  DelayCloses \/ DelayLate
    <2>1. Permitted("forceClose") <=> Live
      BY DEF Permitted, Live
    <2> QED
      BY <1>3, <2>1, Zenon DEF delayEnds, Delay, DelayCloses, DelayLate
  <1> QED
    BY <1>1, <1>2, <1>3

(* Next, step by step. *)
Steps ==
  \/ poll \/ Dispatches \/ ReturnsOnly \/ ReturnsClose \/ ReturnsRemove \/ RunsFunctor \/ Calls
  \/ \E t \in OtherThreads : Begins(t) \/ EndsDelay(t) \/ EndsCall(t)
  \/ DelayCloses \/ DelayLate \/ removeConnectionInLoop \/ stopServer \/ destructor
  \/ peerSends \/ peerCloses \/ peerResets

(* Each step of Next is one of them, and no assert has failed before it. *)
LEMMA NextSteps ==
  ASSUME TypeOK, Next
  PROVE  Steps /\ Running
PROOF
  <1>1. Steps
    BY DispatchSteps, ReturnSteps, FunctorSteps, CallSteps, ThreadSteps, Zenon
    DEF Next, Loop, User, Peer, Steps
  <1>2. Running
    BY Zenon
    DEF Next, Loop, User, Peer, poll, dispatch, userReturns, runFunctor, loopCalls, callBegins,
        callEnds, delayEnds, removeConnectionInLoop, stopServer, destructor, peerSends,
        peerCloses, peerResets
  <1> QED
    BY <1>1, <1>2

--------------------------------------------------------------------------------
(* Types. *)

(* The Boolean variables. *)
Flags ==
  /\ reading_ \in BOOLEAN /\ delayed \in BOOLEAN /\ fin \in BOOLEAN
  /\ sockErr \in BOOLEAN /\ dropped \in BOOLEAN

(* Every step keeps them Boolean. *)
LEMMA FlagsStep ==
  ASSUME TypeOK, Steps
  PROVE  Flags'
PROOF
  <1>0. Flags
    BY DEF TypeOK, Flags
  <1> USE <1>0 DEF Flags, conn, loop, socket, owner, history
  <1>1. CASE poll \/ HandlingEnds \/ HandlesData \/ HandlesError \/ ReturnsOnly \/ ReturnsClose
             \/ ReturnsRemove
    BY <1>1, Zenon
    DEF poll, HandlingEnds, HandlesData, Handles, HandlesError, ReturnsOnly, Returns,
        ReturnsClose, ReturnsRemove
  <1>2. CASE HandlesClose \/ RunsForceClose
    BY <1>2, Zenon DEF HandlesClose, Handles, RunsForceClose, Runs, handleClose
  <1>3. CASE HandlesWrite
    BY <1>3, WriteEffect, Zenon DEF HandlesWrite, Handles
  <1>4. CASE RunsSend
    <2>1. PICK m \in Messages : sendInLoop(m, Tail(queue))
      BY <1>4, Zenon DEF RunsSend
    <2>2. Tail(queue) \in Seq(Functor)
      BY <1>4, HeadTailProperties DEF RunsSend, TypeOK
    <2> QED
      BY <1>4, <2>1, <2>2, SendEffect, Zenon DEF RunsSend, SendKeeps
  <1>5. CASE RunsEstablished
    BY <1>5, Zenon DEF RunsEstablished, Runs, connectEstablished
  <1>6. CASE RunsDestroyed \/ RunsDestroyedLive \/ RunsNothing \/ RunsCallback
             \/ CallsForceClose \/ CallsDelay \/ DelayCloses
    BY <1>6, Zenon
    DEF RunsDestroyed, Runs, RunsDestroyedLive, RunsNothing, RunsCallback, CallsForceClose,
        InUser, CallsDelay, DelayCloses, Delay
  <1>7. CASE RunsShutdown \/ CallsShutdown
    BY <1>7, Zenon DEF RunsShutdown, Runs, CallsShutdown, InUser, shutdownInLoop
  <1>8. CASE RunsRead \/ CallsRead
    BY <1>8, Zenon DEF RunsRead, Runs, Reads, CallsRead, InUser, startReadInLoop, stopReadInLoop
  <1>9. CASE CallsSend
    <2>1. PICK m \in Messages : sendInLoop(m, queue)
      BY <1>9, Zenon DEF CallsSend
    <2>2. queue \in Seq(Functor)
      BY DEF TypeOK
    <2> QED
      BY <1>9, <2>1, <2>2, SendEffect, Zenon DEF CallsSend, InUser, SendKeeps
  <1>10. ASSUME NEW t \in OtherThreads, Begins(t) \/ EndsDelay(t) \/ EndsCall(t)
         PROVE  Flags'
    BY <1>10, Zenon DEF Begins, EndsDelay, Ends, EndsCall
  <1>11. CASE DelayLate \/ removeConnectionInLoop \/ stopServer \/ destructor \/ peerSends
              \/ peerCloses \/ peerResets
    BY <1>11, Zenon
    DEF DelayLate, Delay, removeConnectionInLoop, stopServer, destructor, peerSends, peerCloses,
        peerResets
  <1> QED
    BY <1>1, <1>2, <1>3, <1>4, <1>5, <1>6, <1>7, <1>8, <1>9, <1>10, <1>11, Zenon
    DEF Steps, Dispatches, RunsFunctor, Calls

(* The interest and the index that update() leaves. *)
LEMMA UpdateType ==
  ASSUME NEW e \in SUBSET Events, update(e)
  PROVE  events_' \subseteq Events /\ index_' \in {"kNew", "kAdded", "kDeleted"}
PROOF
  BY DEF update

(* startReadInLoop() and stopReadInLoop() leave the interest in OUT alone    *)
(* and put the channel into the poller, unless they take the last interest.  *)
LEMMA ReadEffect ==
  ASSUME TypeOK, NEW f \in {"startRead", "stopRead"}, Reads(f)
  PROVE  /\ events_' \subseteq Events /\ index_' \in {"kNew", "kAdded", "kDeleted"}
         /\ isWriting(events_') <=> isWriting(events_)
         /\ misuse' \subseteq {"stopRead", "lateRead", "lateClose"}
         /\ UNCHANGED <<events_, index_>> \/ index_' # "kNew"
         /\ f = "stopRead" => "stopRead" \in misuse'
         /\ f = "stopRead" /\ events_ = kNoneEvent => events_' = kNoneEvent
         /\ f = "startRead" /\ state_ = "kDisconnected" => "lateRead" \in misuse'
         /\ misuse \subseteq misuse' /\ ("lateClose" \in misuse' => "lateClose" \in misuse)
         /\ f = "startRead" /\ index_ = "kAdded" => index_' = "kAdded"
         /\ f = "startRead" => isReading(events_')
PROOF
  <1>0. events_ \subseteq Events /\ misuse \subseteq {"stopRead", "lateRead", "lateClose"}
        /\ index_ \in {"kNew", "kAdded", "kDeleted"}
    BY DEF TypeOK
  <1> USE <1>0 DEF Reads, MisusedBy, update, Interest, isNoneEvent, kNoneEvent, isReading,
                   isWriting, Events, kReadEvent, kWriteEvent
  <1>1. CASE f = "startRead"
    <2>1. /\ misuse' = IF state_ = "kDisconnected" THEN misuse \cup {"lateRead"} ELSE misuse
          /\ \/ events_' = events_ \cup {"read"} /\ index_' = "kAdded"
             \/ events_' = events_ /\ index_' = index_ /\ "read" \in events_
      BY <1>1 DEF startReadInLoop
    <2> QED
      BY <1>1, <2>1
  <1>2. CASE f = "stopRead"
    <2>1. /\ misuse' = misuse \cup {"stopRead"}
          /\ \/ events_' = events_ \ {"read"} /\ index_' \in {"kAdded", "kDeleted"}
             \/ events_' = events_ /\ index_' = index_
      BY <1>2 DEF stopReadInLoop
    <2> QED
      BY <1>2, <2>1
  <1> QED
    BY <1>1, <1>2

(* The other variables. *)
Rest ==
  /\ state_ \in States
  /\ outputBuffer_ \in Seq(Units)
  /\ events_ \subseteq Events
  /\ index_ \in {"kNew", "kAdded", "kDeleted"}
  /\ queue \in Seq(Functor)
  /\ calling \in [OtherThreads -> {<<"none">>} \cup Functor \cup {<<"delay">>}]
  /\ pc \in {"idle", "handling", "user", "gone"}
  /\ todo \in Seq(Callbacks)
  /\ then \in {"return", "close", "remove"}
  /\ server \in {"holds", "released", "dead"}
  /\ removals \in Nat
  /\ wire \in Seq(Units)
  /\ peer \in {"open", "fin", "reset"}
  /\ inbox \in 0 .. MaxInbox
  /\ accepted \in Seq(Units)
  /\ closes \in Nat
  /\ misuse \subseteq {"stopRead", "lateRead", "lateClose"}
  /\ failed \in {"none", "handleClose", "removeChannel", "removeConnection",
                 "destructor", "deadServer"}

(* Every step keeps their types. *)
LEMMA RestStep ==
  ASSUME TypeOK, Steps
  PROVE  Rest'
PROOF
  <1>0. Rest
    BY DEF TypeOK, Rest, Callbacks
  <1>a. kNoneEvent \in SUBSET Events /\ events_ \in SUBSET Events
    BY <1>0 DEF kNoneEvent, Rest
  <1>b. MaxInbox \in Nat
    BY SizesAssumption
  <1>c. Interest("enableReading", events_) \in SUBSET Events
    BY <1>a DEF Interest, Events
  <1> USE <1>0 DEF Rest, conn, loop, socket, owner, history
  <1>1. CASE poll
    BY <1>1, HandleEvent DEF poll
  <1>2. CASE HandlingEnds
    BY <1>2 DEF HandlingEnds
  <1>3. CASE HandlesClose
    <2>1. events_' \subseteq Events /\ index_' \in {"kNew", "kAdded", "kDeleted"}
      BY <1>3, <1>a, UpdateType DEF HandlesClose, handleClose
    <2> QED
      BY <1>3, <2>1 DEF HandlesClose, Handles, handleClose, callUser, States
  <1>4. CASE HandlesData
    BY <1>4, <1>b DEF HandlesData, Handles, callUser
  <1>5. CASE HandlesError
    BY <1>5 DEF HandlesError, Handles
  <1>6. CASE HandlesWrite
    <2>1. /\ outputBuffer_' \in Seq(Units) /\ wire' \in Seq(Units) /\ queue' \in Seq(Functor)
          /\ events_' \subseteq Events /\ index_' \in {"kNew", "kAdded", "kDeleted"}
          /\ UNCHANGED <<state_, peer, inbox>>
      BY <1>6, WriteTypes, Zenon DEF HandlesWrite
    <2> QED
      BY <1>6, <2>1 DEF HandlesWrite, Handles
  <1>7. CASE ReturnsOnly
    BY <1>7 DEF ReturnsOnly, Returns
  <1>8. CASE ReturnsClose
    BY <1>8 DEF ReturnsClose, Returns
  <1>9. CASE ReturnsRemove
    BY <1>9 DEF ReturnsRemove, Returns, removeChannel
  <1>10. CASE RunsSend
    <2>1. PICK m \in Messages : sendInLoop(m, Tail(queue))
      BY <1>10, Zenon DEF RunsSend
    <2>2. Tail(queue) \in Seq(Functor)
      BY <1>10, HeadTailProperties DEF RunsSend, TypeOK
    <2>3. /\ outputBuffer_' \in Seq(Units) /\ wire' \in Seq(Units) /\ accepted' \in Seq(Units)
          /\ queue' \in Seq(Functor)
          /\ events_' \subseteq Events /\ index_' \in {"kNew", "kAdded", "kDeleted"}
      BY <2>1, <2>2, SendTypes, Zenon
    <2> QED
      BY <1>10, <2>3 DEF RunsSend, SendKeeps
  <1>11. CASE RunsEstablished
    BY <1>11, <1>a, <1>c, UpdateType
    DEF RunsEstablished, Runs, connectEstablished, callUser, States
  <1>12. CASE RunsDestroyed
    BY <1>12 DEF RunsDestroyed, Runs, removeChannel
  <1>13. CASE RunsDestroyedLive
    BY <1>13, <1>a, UpdateType DEF RunsDestroyedLive, Runs, callUser, States
  <1>14. CASE RunsForceClose
    BY <1>14, <1>a, UpdateType DEF RunsForceClose, Runs, handleClose, callUser, States
  <1>15. CASE RunsNothing
    BY <1>15 DEF RunsNothing, Runs
  <1>16. CASE RunsCallback
    BY <1>16 DEF RunsCallback, Runs, callUser
  <1>17. CASE RunsShutdown
    BY <1>17 DEF RunsShutdown, Runs
  <1>18. CASE RunsRead
    <2>1. PICK f \in {"startRead", "stopRead"} : Runs(f) /\ Reads(f)
      BY <1>18, Zenon DEF RunsRead
    <2>2. UNCHANGED <<state_, outputBuffer_, calling, loop, owner, socket, history, failed>>
      BY <2>1, Zenon DEF Reads
    <2> QED
      BY <2>1, <2>2, ReadEffect DEF Runs
  <1>19. CASE CallsSend
    <2>1. PICK m \in Messages : sendInLoop(m, queue)
      BY <1>19, Zenon DEF CallsSend
    <2>2. queue \in Seq(Functor)
      BY DEF TypeOK
    <2>3. /\ outputBuffer_' \in Seq(Units) /\ wire' \in Seq(Units) /\ accepted' \in Seq(Units)
          /\ queue' \in Seq(Functor)
          /\ events_' \subseteq Events /\ index_' \in {"kNew", "kAdded", "kDeleted"}
      BY <2>1, <2>2, SendTypes, Zenon
    <2> QED
      BY <1>19, <2>3 DEF CallsSend, InUser, SendKeeps
  <1>20. CASE CallsShutdown
    BY <1>20 DEF CallsShutdown, InUser, States
  <1>21. CASE CallsForceClose
    BY <1>21, Functors DEF CallsForceClose, InUser, States
  <1>22. CASE CallsDelay
    BY <1>22 DEF CallsDelay, InUser, States
  <1>23. CASE CallsRead
    <2>1. PICK f \in {"startRead", "stopRead"} : Reads(f)
      BY <1>23, Zenon DEF CallsRead
    <2>2. /\ UNCHANGED <<state_, outputBuffer_, calling, loop, owner, socket, history, failed>>
          /\ queue' = queue
      BY <1>23, <2>1, Zenon DEF Reads, CallsRead
    <2> QED
      BY <2>1, <2>2, ReadEffect
  <1>24. ASSUME NEW t \in OtherThreads, Begins(t)
         PROVE  Rest'
    <2>1. calling' \in [OtherThreads -> {<<"none">>} \cup Functor \cup {<<"delay">>}]
      BY <1>24, CallsAssumption DEF Begins, CallOf, ApiCalls, Functor
    <2> QED
      BY <1>24, <2>1 DEF Begins
  <1>25. ASSUME NEW t \in OtherThreads, EndsDelay(t)
         PROVE  Rest'
    BY <1>25 DEF EndsDelay, Ends, States
  <1>26. ASSUME NEW t \in OtherThreads, EndsCall(t)
         PROVE  Rest'
    BY <1>26 DEF EndsCall, Ends, States
  <1>27. CASE DelayCloses
    BY <1>27, Functors DEF DelayCloses, Delay, States
  <1>28. CASE DelayLate
    BY <1>28 DEF DelayLate, Delay
  <1>29. CASE removeConnectionInLoop
    BY <1>29, Functors DEF removeConnectionInLoop
  <1>30. CASE stopServer
    BY <1>30, Functors DEF stopServer
  <1>31. CASE destructor \/ peerCloses
    BY <1>31 DEF destructor, peerCloses
  <1>32. CASE peerSends
    BY <1>32, <1>b DEF peerSends
  <1>33. CASE peerResets
    BY <1>33, <1>b DEF peerResets
  <1> QED
    BY <1>1, <1>2, <1>3, <1>4, <1>5, <1>6, <1>7, <1>8, <1>9, <1>10, <1>11, <1>12, <1>13, <1>14,
       <1>15, <1>16, <1>17, <1>18, <1>19, <1>20, <1>21, <1>22, <1>23, <1>24, <1>25, <1>26,
       <1>27, <1>28, <1>29, <1>30, <1>31, <1>32, <1>33, Zenon
    DEF Steps, Dispatches, RunsFunctor, Calls

(* A step keeps the types. *)
LEMMA TypeStep ==
  ASSUME TypeOK, Steps
  PROVE  TypeOK'
PROOF
  <1>1. Flags' /\ Rest'
    BY FlagsStep, RestStep
  <1> QED
    BY <1>1, Zenon DEF Flags, Rest, TypeOK, Callbacks

--------------------------------------------------------------------------------
(* The stream and the interest in OUT. *)

(* What does not touch the stream, keeps the socket failed and adds no       *)
(* interest in OUT.                                                          *)
LEMMA StreamKept ==
  ASSUME StreamInv, UNCHANGED <<wire, outputBuffer_, accepted, dropped>>,
         WriteFails => WriteFails', isWriting(events_') => isWriting(events_)
  PROVE  StreamInv'
PROOF
  BY Zenon DEF StreamInv, StreamIntact

(* update() with no interest, and with interest in reading. *)
LEMMA Interests ==
  /\ ~isWriting(kNoneEvent)
  /\ \A e : isWriting(Interest("enableReading", e)) <=> isWriting(e)
  /\ \A e : isReading(Interest("enableReading", e))
PROOF
  BY DEF isWriting, isReading, kNoneEvent, Interest, kReadEvent, kWriteEvent

(* Every step keeps the stream intact. *)
LEMMA StreamStep ==
  ASSUME TypeOK, StreamInv, Steps
  PROVE  StreamInv'
PROOF
  <1> USE DEF WriteFails, conn, loop, socket, owner, history
  <1>1. CASE poll \/ HandlingEnds \/ HandlesData \/ HandlesError \/ ReturnsOnly \/ ReturnsClose
             \/ RunsNothing
    <2>1. UNCHANGED <<wire, outputBuffer_, accepted, dropped, fin, peer, events_>>
      BY <1>1, Zenon
      DEF poll, HandlingEnds, HandlesData, Handles, HandlesError, ReturnsOnly, Returns,
          ReturnsClose, RunsNothing, Runs
    <2> QED
      BY <2>1, StreamKept, Zenon
  <1>2. CASE HandlesClose \/ RunsForceClose \/ RunsDestroyedLive
    <2>1. UNCHANGED <<wire, outputBuffer_, accepted, dropped, fin, peer>> /\ events_' = kNoneEvent
      BY <1>2, Zenon
      DEF HandlesClose, Handles, RunsForceClose, Runs, RunsDestroyedLive, handleClose, update
    <2> QED
      BY <2>1, StreamKept, Interests, Zenon
  <1>3. CASE HandlesWrite
    <2>1. handleWrite /\ UNCHANGED <<accepted, dropped>>
      BY <1>3, Zenon DEF HandlesWrite
    <2>2. /\ wire' \o outputBuffer_' = wire \o outputBuffer_
          /\ fin => fin'
          /\ peer' = peer
          /\ ~isWriting(events_) => UNCHANGED <<outputBuffer_, events_>>
      BY <2>1, WriteEffect, Zenon
    <2> QED
      BY <2>1, <2>2, Zenon DEF StreamInv, StreamIntact
  <1>4. CASE RunsDestroyed \/ ReturnsRemove
    <2>1. UNCHANGED <<wire, outputBuffer_, accepted, dropped, fin, peer, events_>>
      BY <1>4, Zenon DEF RunsDestroyed, Runs, ReturnsRemove, Returns, removeChannel
    <2> QED
      BY <2>1, StreamKept, Zenon
  <1>5. CASE RunsSend
    <2>1. PICK m \in Messages : sendInLoop(m, Tail(queue))
      BY <1>5, Zenon DEF RunsSend
    <2> QED
      BY <1>5, <2>1, SendKeepsStream, Zenon DEF RunsSend, SendKeeps
  <1>6. CASE RunsEstablished
    BY <1>6, StreamKept, Interests, Zenon DEF RunsEstablished, Runs, connectEstablished, update
  <1>7. CASE RunsCallback \/ CallsForceClose \/ CallsDelay \/ DelayCloses \/ DelayLate
             \/ removeConnectionInLoop \/ stopServer
    <2>1. UNCHANGED <<wire, outputBuffer_, accepted, dropped, fin, peer, events_>>
      BY <1>7, Zenon
      DEF RunsCallback, Runs, CallsForceClose, InUser, CallsDelay, DelayCloses, Delay, DelayLate,
          removeConnectionInLoop, stopServer
    <2> QED
      BY <2>1, StreamKept, Zenon
  <1>8. CASE RunsShutdown \/ CallsShutdown
    BY <1>8, StreamKept, Zenon DEF RunsShutdown, Runs, CallsShutdown, InUser, shutdownInLoop
  <1>9. CASE RunsRead \/ CallsRead
    <2>1. PICK f \in {"startRead", "stopRead"} : Reads(f)
      BY <1>9, Zenon DEF RunsRead, CallsRead
    <2>2. isWriting(events_') <=> isWriting(events_)
      BY <2>1, ReadEffect, Zenon
    <2> QED
      BY <2>1, <2>2, StreamKept, Zenon DEF Reads
  <1>10. CASE CallsSend
    <2>1. PICK m \in Messages : sendInLoop(m, queue)
      BY <1>10, Zenon DEF CallsSend
    <2> QED
      BY <1>10, <2>1, SendKeepsStream, Zenon DEF CallsSend, SendKeeps
  <1>11. ASSUME NEW t \in OtherThreads, Begins(t) \/ EndsDelay(t) \/ EndsCall(t)
         PROVE  StreamInv'
    <2>1. UNCHANGED <<wire, outputBuffer_, accepted, dropped, fin, peer, events_>>
      BY <1>11, Zenon DEF Begins, EndsDelay, Ends, EndsCall
    <2> QED
      BY <2>1, StreamKept, Zenon
  <1>12. CASE destructor \/ peerSends
    <2>1. UNCHANGED <<wire, outputBuffer_, accepted, dropped, fin, peer, events_>>
      BY <1>12, Zenon DEF destructor, peerSends
    <2> QED
      BY <2>1, StreamKept, Zenon
  <1>13. CASE peerCloses
    BY <1>13, StreamKept, Zenon DEF peerCloses
  <1>14. CASE peerResets
    BY <1>14, StreamKept, Zenon DEF peerResets
  <1> QED
    BY <1>1, <1>2, <1>3, <1>4, <1>5, <1>6, <1>7, <1>8, <1>9, <1>10, <1>11, <1>12, <1>13, <1>14,
       Zenon
    DEF Steps, Dispatches, RunsFunctor, Calls

(* sendInLoop(): what it buffers is watched. *)
LEMMA SendWatched ==
  ASSUME TypeOK, WatchInv, NEW m \in Messages, NEW fs \in Seq(Functor), sendInLoop(m, fs),
         UNCHANGED <<state_, misuse>>
  PROVE  WatchInv'
PROOF
  <1>1. \/ UNCHANGED <<outputBuffer_, events_, index_>>
        \/ /\ state_ # "kDisconnected" /\ outputBuffer_' # <<>>
           /\ events_' = events_ \cup {kWriteEvent}
    BY SendEffect, Zenon
  <1>2. \A e : isWriting(e \cup {kWriteEvent})
    BY DEF isWriting
  <1> QED
    BY <1>1, <1>2, Zenon DEF WatchInv, BufferedIsWatched

(* What is at the head of the queue is in it. *)
LEMMA HeadNotWithout ==
  ASSUME NEW S, NEW q \in Seq(S), q # <<>>
  PROVE  ~Without(q, Head(q))
PROOF
  BY DEF Without

(* Every step keeps buffered data watched. *)
LEMMA WatchStep ==
  ASSUME TypeOK, WatchInv, EstablishedInv, Steps
  PROVE  WatchInv'
PROOF
  <1>a. queue \in Seq(Functor)
    BY DEF TypeOK
  <1> USE DEF conn, loop, socket, owner, history
  <1>1. CASE poll \/ HandlingEnds \/ HandlesData \/ HandlesError \/ ReturnsOnly \/ ReturnsClose
             \/ RunsNothing
    BY <1>1, Zenon
    DEF poll, HandlingEnds, HandlesData, Handles, HandlesError, ReturnsOnly, Returns,
        ReturnsClose, RunsNothing, Runs, WatchInv, BufferedIsWatched
  <1>2. CASE HandlesClose \/ RunsForceClose \/ RunsDestroyedLive
    BY <1>2, Interests, Zenon
    DEF HandlesClose, Handles, RunsForceClose, Runs, RunsDestroyedLive, handleClose, update,
        WatchInv, BufferedIsWatched
  <1>3. CASE HandlesWrite
    <2>1. handleWrite /\ UNCHANGED misuse
      BY <1>3, Zenon DEF HandlesWrite, Handles
    <2>2. /\ state_' = state_
          /\ \/ UNCHANGED events_ /\ (outputBuffer_' = <<>> <=> outputBuffer_ = <<>>)
             \/ outputBuffer_' = <<>> /\ events_' = events_ \ {kWriteEvent}
      BY <2>1, WriteEffect, Zenon
    <2> QED
      BY <2>1, <2>2 DEF WatchInv, BufferedIsWatched, isWriting
  <1>4. CASE RunsDestroyed \/ ReturnsRemove
    BY <1>4, Zenon
    DEF RunsDestroyed, Runs, ReturnsRemove, Returns, removeChannel, WatchInv, BufferedIsWatched
  <1>5. CASE RunsSend
    <2>1. PICK m \in Messages : sendInLoop(m, Tail(queue))
      BY <1>5, Zenon DEF RunsSend
    <2>2. Tail(queue) \in Seq(Functor)
      BY <1>5, HeadTailProperties DEF RunsSend, TypeOK
    <2> QED
      BY <1>5, <2>1, <2>2, SendWatched, Zenon DEF RunsSend, SendKeeps
  <1>6. CASE RunsEstablished
    <2>1. state_ = "kConnecting"
      BY <1>6, <1>a, HeadNotWithout, Zenon DEF RunsEstablished, Runs, EstablishedInv
    <2>2. /\ state_' = "kConnected" /\ UNCHANGED <<misuse, outputBuffer_>>
          /\ events_' = Interest("enableReading", events_)
      BY <1>6, Zenon DEF RunsEstablished, connectEstablished, update
    <2> QED
      BY <2>1, <2>2, Interests DEF WatchInv, BufferedIsWatched
  <1>7. CASE RunsCallback \/ RunsShutdown \/ DelayLate \/ removeConnectionInLoop \/ stopServer
             \/ destructor \/ peerSends
    BY <1>7, Zenon
    DEF RunsCallback, Runs, RunsShutdown, DelayLate, Delay, removeConnectionInLoop, stopServer,
        destructor, peerSends, WatchInv, BufferedIsWatched
  <1>8. CASE RunsRead \/ CallsRead
    <2>1. PICK f \in {"startRead", "stopRead"} : Reads(f)
      BY <1>8, Zenon DEF RunsRead, CallsRead
    <2>2. /\ isWriting(events_') <=> isWriting(events_)
          /\ "lateClose" \in misuse => "lateClose" \in misuse'
      BY <2>1, ReadEffect
    <2> QED
      BY <2>1, <2>2, Zenon DEF Reads, WatchInv, BufferedIsWatched
  <1>9. CASE CallsSend
    <2>1. PICK m \in Messages : sendInLoop(m, queue)
      BY <1>9, Zenon DEF CallsSend
    <2>2. queue \in Seq(Functor)
      BY DEF TypeOK
    <2> QED
      BY <1>9, <2>1, <2>2, SendWatched, Zenon DEF CallsSend, SendKeeps
  <1>10. CASE CallsShutdown
    BY <1>10, Zenon DEF CallsShutdown, InUser, WatchInv, BufferedIsWatched
  <1>11. CASE CallsForceClose \/ CallsDelay \/ DelayCloses
    BY <1>11, Zenon
    DEF CallsForceClose, InUser, CallsDelay, DelayCloses, Delay, Live, WatchInv,
        BufferedIsWatched
  <1>12. ASSUME NEW t \in OtherThreads, Begins(t)
         PROVE  WatchInv'
    BY <1>12, Zenon DEF Begins, WatchInv, BufferedIsWatched
  <1>13. ASSUME NEW t \in OtherThreads, EndsDelay(t) \/ EndsCall(t)
         PROVE  WatchInv'
    <2>0. Ends(t)
      BY <1>13, Zenon DEF EndsDelay, EndsCall
    <2>1. \/ state_' = state_ /\ misuse' = misuse
          \/ state_' = "kDisconnecting" /\ "lateClose" \in misuse'
          \/ state_' = "kDisconnecting" /\ state_ # "kDisconnected" /\ misuse' = misuse
      BY <2>0 DEF Ends
    <2>2. UNCHANGED <<outputBuffer_, events_>>
      BY <1>13, Zenon DEF EndsDelay, EndsCall, Ends
    <2> QED
      BY <2>1, <2>2, Zenon DEF WatchInv, BufferedIsWatched
  <1>14. CASE peerCloses \/ peerResets
    BY <1>14, Zenon DEF peerCloses, peerResets, WatchInv, BufferedIsWatched
  <1> QED
    BY <1>1, <1>2, <1>3, <1>4, <1>5, <1>6, <1>7, <1>8, <1>9, <1>10, <1>11, <1>12, <1>13, <1>14,
       Zenon
    DEF Steps, Dispatches, RunsFunctor, Calls

--------------------------------------------------------------------------------
(* The queue. *)

(* Taking the oldest functor. *)
LEMMA QueueTail ==
  ASSUME NEW q \in Seq(Functor), q # <<>>, NEW f
  PROVE  /\ Tail(q) \in Seq(Functor)
         /\ Without(q, f) => Without(Tail(q), f)
         /\ AtMostOnce(q, f) => AtMostOnce(Tail(q), f)
         /\ AtMostOnce(q, f) /\ Head(q) = f => Without(Tail(q), f)
PROOF
  <1>1. /\ Tail(q) \in Seq(Functor) /\ Len(q) \in Nat /\ Len(q) >= 1
        /\ DOMAIN q = 1 .. Len(q) /\ DOMAIN Tail(q) = 1 .. Len(q) - 1
    OBVIOUS
  <1>2. \A i \in 1 .. Len(q) - 1 : i + 1 \in 1 .. Len(q) /\ Tail(q)[i] = q[i + 1]
    BY <1>1
  <1>3. Head(q) = q[1] /\ 1 \in 1 .. Len(q)
    BY <1>1
  <1>4. Without(q, f) => Without(Tail(q), f)
    BY <1>1, <1>2 DEF Without
  <1>5. AtMostOnce(q, f) => AtMostOnce(Tail(q), f)
    BY <1>1, <1>2 DEF AtMostOnce
  <1>6. AtMostOnce(q, f) /\ Head(q) = f => Without(Tail(q), f)
    BY <1>1, <1>2, <1>3 DEF AtMostOnce, Without
  <1> QED
    BY <1>1, <1>4, <1>5, <1>6

(* Queueing a functor. *)
LEMMA QueueAppend ==
  ASSUME NEW q \in Seq(Functor), NEW e \in Functor, NEW f
  PROVE  /\ Append(q, e) \in Seq(Functor)
         /\ Without(q, f) /\ e # f => Without(Append(q, e), f)
         /\ AtMostOnce(q, f) /\ e # f => AtMostOnce(Append(q, e), f)
         /\ Without(q, f) => AtMostOnce(Append(q, e), f)
PROOF
  <1>1. /\ Append(q, e) \in Seq(Functor) /\ Len(q) \in Nat
        /\ DOMAIN q = 1 .. Len(q) /\ DOMAIN Append(q, e) = 1 .. Len(q) + 1
        /\ Append(q, e)[Len(q) + 1] = e
    OBVIOUS
  <1>2. \A i \in 1 .. Len(q) + 1 : i # Len(q) + 1 => i \in 1 .. Len(q) /\ Append(q, e)[i] = q[i]
    BY <1>1
  <1>4. Without(q, f) /\ e # f => Without(Append(q, e), f)
    BY <1>1, <1>2 DEF Without
  <1>5. AtMostOnce(q, f) /\ e # f => AtMostOnce(Append(q, e), f)
    BY <1>1, <1>2 DEF AtMostOnce
  <1>6. Without(q, f) => AtMostOnce(Append(q, e), f)
    BY <1>1, <1>2 DEF AtMostOnce, Without
  <1> QED
    BY <1>1, <1>4, <1>5, <1>6

(* How a step changes the queue: the loop takes its head, and the others     *)
(* append.  Only the server, when it lets go of the connection, appends      *)
(* connectDestroyed().                                                       *)
Taken == /\ pc = "idle" /\ queue # <<>>
         /\ queue' = Tail(queue) \/ queue' = Append(Tail(queue), <<"callback">>)
Appended(e) ==
  /\ queue' = Append(queue, e) /\ e # <<"established">>
  /\ e \in OwnFunctors \/ \E t \in OtherThreads : e = calling[t]
  /\ e = <<"destroyed">> /\ Running' => server = "holds" /\ server' # "holds"

(* Every step does one of these, or leaves the queue alone. *)
LEMMA QueueStep ==
  ASSUME TypeOK, CallsInv, Steps, Running
  PROVE  queue' = queue \/ Taken \/ \E e \in Functor : Appended(e)
PROOF
  <1>a. queue \in Seq(Functor)
    BY DEF TypeOK
  <1>b. /\ <<"callback">> \in Functor /\ <<"forceClose">> \in Functor
        /\ <<"destroyed">> \in Functor
        /\ <<"callback">> \in OwnFunctors /\ <<"forceClose">> \in OwnFunctors
        /\ <<"destroyed">> \in OwnFunctors
    BY Functors DEF OwnFunctors
  <1>c. <<"callback">> # <<"established">> /\ <<"callback">> # <<"destroyed">>
    OBVIOUS
  <1>d. <<"forceClose">> # <<"established">> /\ <<"forceClose">> # <<"destroyed">>
    OBVIOUS
  <1>e. <<"destroyed">> # <<"established">>
    OBVIOUS
  <1> USE DEF conn, loop, socket, owner, history
  <1>1. CASE poll \/ HandlingEnds \/ HandlesData \/ HandlesError \/ ReturnsOnly \/ ReturnsClose
             \/ ReturnsRemove
    BY <1>1, Zenon
    DEF poll, HandlingEnds, HandlesData, Handles, HandlesError, ReturnsOnly, Returns,
        ReturnsClose, ReturnsRemove
  <1>2. CASE HandlesClose
    BY <1>2, Zenon DEF HandlesClose, Handles, handleClose
  <1>3. CASE HandlesWrite
    <2>1. queue' = queue \/ queue' = Append(queue, <<"callback">>)
      BY <1>3, WriteEffect, Zenon DEF HandlesWrite
    <2> QED
      BY <1>b, <1>c, <2>1, Zenon DEF Appended
  <1>4. CASE RunsSend
    <2>1. PICK m \in Messages : sendInLoop(m, Tail(queue))
      BY <1>4, Zenon DEF RunsSend
    <2>2. Tail(queue) \in Seq(Functor)
      BY <1>4, <1>a, QueueTail DEF RunsSend
    <2> QED
      BY <1>4, <2>1, <2>2, SendEffect, Zenon DEF RunsSend, Taken
  <1>5. CASE RunsEstablished \/ RunsDestroyed \/ RunsDestroyedLive \/ RunsForceClose
             \/ RunsNothing \/ RunsCallback \/ RunsShutdown \/ RunsRead
    BY <1>5, Zenon
    DEF RunsEstablished, Runs, RunsDestroyed, RunsDestroyedLive, RunsForceClose, RunsNothing,
        RunsCallback, RunsShutdown, RunsRead, Reads, Taken
  <1>6. CASE CallsSend
    <2>1. PICK m \in Messages : sendInLoop(m, queue)
      BY <1>6, Zenon DEF CallsSend
    <2>2. queue' = queue \/ queue' = Append(queue, <<"callback">>)
      BY <1>a, <2>1, SendEffect, Zenon
    <2> QED
      BY <1>b, <1>c, <2>2, Zenon DEF Appended
  <1>7. CASE CallsShutdown \/ CallsDelay \/ CallsRead \/ DelayLate \/ destructor \/ peerSends
             \/ peerCloses
    BY <1>7, Zenon
    DEF CallsShutdown, InUser, CallsDelay, CallsRead, Reads, DelayLate, Delay, destructor,
        peerSends, peerCloses
  <1>8. CASE CallsForceClose \/ DelayCloses
    BY <1>8, <1>b, <1>d, Zenon DEF CallsForceClose, InUser, DelayCloses, Delay, Appended
  <1>9. ASSUME NEW t \in OtherThreads, Begins(t) \/ EndsDelay(t)
        PROVE  queue' = queue \/ Taken \/ \E e \in Functor : Appended(e)
    BY <1>9, Zenon DEF Begins, EndsDelay, Ends
  <1>10. ASSUME NEW t \in OtherThreads, EndsCall(t)
         PROVE  queue' = queue \/ Taken \/ \E e \in Functor : Appended(e)
    <2>1. calling[t] \in Functor
      <3>1. calling[t] \in {<<"none">>} \cup Functor \cup {<<"delay">>}
        BY DEF TypeOK
      <3> QED
        BY <1>10, <3>1, Zenon DEF EndsCall, Ends
    <2>2. calling[t] # <<"established">> /\ calling[t] # <<"destroyed">>
      BY DEF CallsInv
    <2> QED
      BY <1>10, <2>1, <2>2, Zenon DEF EndsCall, Appended
  <1>11. CASE removeConnectionInLoop
    <2>1. server # "holds" => failed' # "none"
      BY <1>11 DEF removeConnectionInLoop, TypeOK
    <2>2. /\ server = "holds" => server' # "holds"
          /\ queue' = Append(queue, <<"destroyed">>)
      BY <1>11 DEF removeConnectionInLoop
    <2> QED
      BY <1>b, <1>e, <2>1, <2>2, Zenon DEF Appended, Running
  <1>12. CASE stopServer
    <2>1. CASE server = "holds"
      BY <1>12, <1>b, <1>e, <2>1 DEF stopServer, Appended
    <2>2. CASE server # "holds"
      BY <1>12, <2>2 DEF stopServer
    <2> QED
      BY <2>1, <2>2
  <1>13. CASE peerResets
    BY <1>13, Zenon DEF peerResets
  <1> QED
    BY <1>1, <1>2, <1>3, <1>4, <1>5, <1>6, <1>7, <1>8, <1>9, <1>10, <1>11, <1>12, <1>13, Zenon
    DEF Steps, Dispatches, RunsFunctor, Calls

(* The server does not take the connection back. *)
LEMMA ServerStep ==
  ASSUME TypeOK, Steps
  PROVE  server' = "holds" => server = "holds"
PROOF
  <1> USE DEF conn, loop, socket, owner, history
  <1>1. CASE poll \/ HandlingEnds \/ HandlesClose \/ HandlesData \/ HandlesError \/ HandlesWrite
             \/ ReturnsOnly
    BY <1>1, Zenon
    DEF poll, HandlingEnds, HandlesClose, Handles, HandlesData, HandlesError, HandlesWrite,
        ReturnsOnly, Returns
  <1>2. CASE ReturnsClose \/ ReturnsRemove \/ RunsEstablished \/ RunsDestroyed
             \/ RunsDestroyedLive \/ RunsForceClose \/ RunsNothing
    BY <1>2, Zenon
    DEF ReturnsClose, Returns, ReturnsRemove, RunsEstablished, Runs, RunsDestroyed,
        RunsDestroyedLive, RunsForceClose, RunsNothing
  <1>3. CASE RunsSend \/ CallsSend
    BY <1>3, Zenon DEF RunsSend, SendKeeps, CallsSend, InUser
  <1>4. CASE RunsCallback \/ RunsShutdown \/ CallsShutdown \/ CallsForceClose \/ CallsDelay
             \/ DelayCloses \/ DelayLate
    BY <1>4, Zenon
    DEF RunsCallback, Runs, RunsShutdown, CallsShutdown, InUser, CallsForceClose, CallsDelay,
        DelayCloses, Delay, DelayLate
  <1>5. CASE RunsRead \/ CallsRead
    BY <1>5, Zenon DEF RunsRead, Runs, Reads, CallsRead, InUser
  <1>6. ASSUME NEW t \in OtherThreads, Begins(t) \/ EndsDelay(t) \/ EndsCall(t)
        PROVE  server' = "holds" => server = "holds"
    BY <1>6, Zenon DEF Begins, EndsDelay, Ends, EndsCall
  <1>7. CASE removeConnectionInLoop \/ stopServer
    BY <1>7, Zenon DEF removeConnectionInLoop, stopServer
  <1>8. CASE destructor \/ peerSends \/ peerCloses \/ peerResets
    BY <1>8, Zenon DEF destructor, peerSends, peerCloses, peerResets
  <1> QED
    BY <1>1, <1>2, <1>3, <1>4, <1>5, <1>6, <1>7, <1>8, Zenon
    DEF Steps, Dispatches, RunsFunctor, Calls

(* A functor that is not queued stays away, unless it is appended. *)
LEMMA KeepsWithout ==
  ASSUME TypeOK, CallsInv, Steps, Running, NEW f \in {<<"established">>, <<"destroyed">>},
         Without(queue, f), f = <<"destroyed">> => server # "holds" /\ Running'
  PROVE  Without(queue', f)
PROOF
  <1>a. queue \in Seq(Functor) /\ <<"callback">> \in Functor
    BY Functors DEF TypeOK
  <1>b. <<"callback">> # f
    OBVIOUS
  <1>1. CASE queue' = queue
    BY <1>1, Zenon
  <1>2. CASE Taken
    <2>1. Tail(queue) \in Seq(Functor) /\ Without(Tail(queue), f)
      BY <1>2, <1>a, QueueTail, Zenon DEF Taken
    <2>2. Without(Append(Tail(queue), <<"callback">>), f)
      BY <1>a, <1>b, <2>1, QueueAppend, Zenon
    <2> QED
      BY <1>2, <2>1, <2>2, Zenon DEF Taken
  <1>3. ASSUME NEW e \in Functor, Appended(e)
        PROVE  Without(queue', f)
    <2>1. e # f
      BY <1>3, Zenon DEF Appended
    <2> QED
      BY <1>3, <1>a, <2>1, QueueAppend, Zenon DEF Appended
  <1> QED
    BY <1>1, <1>2, <1>3, QueueStep, Zenon

(* Every step keeps DestroyedInv. *)
LEMMA DestroyedStep ==
  ASSUME TypeOK, CallsInv, Steps, Running, DestroyedInv, Running'
  PROVE  DestroyedInv'
PROOF
  <1> DEFINE d == <<"destroyed">>
  <1>a. queue \in Seq(Functor) /\ <<"callback">> \in Functor
    BY Functors DEF TypeOK
  <1>b. <<"callback">> # d
    OBVIOUS
  <1>c. server' = "holds" => server = "holds"
    BY ServerStep
  <1> HIDE DEF d
  <1>d. (server = "holds" => Without(queue, d)) /\ AtMostOnce(queue, d)
    BY DEF DestroyedInv, d
  <1> SUFFICES (server' = "holds" => Without(queue', d)) /\ AtMostOnce(queue', d)
    BY DEF DestroyedInv, d
  <1>1. CASE queue' = queue
    BY <1>1, <1>c, <1>d, Zenon
  <1>2. CASE Taken
    <2>1. /\ Tail(queue) \in Seq(Functor) /\ AtMostOnce(Tail(queue), d)
          /\ server' = "holds" => Without(Tail(queue), d)
      BY <1>2, <1>a, <1>c, <1>d, QueueTail, Zenon DEF Taken
    <2>2. /\ AtMostOnce(Append(Tail(queue), <<"callback">>), d)
          /\ server' = "holds" => Without(Append(Tail(queue), <<"callback">>), d)
      BY <1>a, <1>b, <2>1, QueueAppend, Zenon
    <2> QED
      BY <1>2, <2>1, <2>2, Zenon DEF Taken
  <1>3. ASSUME NEW e \in Functor, Appended(e)
        PROVE  (server' = "holds" => Without(queue', d)) /\ AtMostOnce(queue', d)
    <2>1. CASE e = d
      <3>1. server = "holds" /\ server' # "holds" /\ queue' = Append(queue, d)
        BY <1>3, <2>1, Zenon DEF Appended, d
      <3> QED
        BY <1>a, <1>d, <2>1, <3>1, QueueAppend, Zenon
    <2>2. CASE e # d
      BY <1>3, <1>a, <1>c, <1>d, <2>2, QueueAppend, Zenon DEF Appended
    <2> QED
      BY <2>1, <2>2
  <1> QED
    BY <1>1, <1>2, <1>3, QueueStep, Zenon

(* Of the functors of the I/O loop and the server, no call leaves one. *)
LEMMA CallsMade ==
  ASSUME MadeInv
  PROVE  CallsInv
PROOF
  <1> SUFFICES ASSUME NEW t \in OtherThreads
               PROVE  calling[t][1] \notin {"established", "destroyed", "callback"}
    BY DEF CallsInv
  <1>1. CASE calling[t] = <<"none">>
    BY <1>1
  <1>2. CASE Made(calling[t])
    <2>1. PICK call \in OtherCalls : calling[t] \in CallOf(call)
      BY <1>2 DEF Made
    <2> QED
      BY <2>1, CallsAssumption DEF CallOf, ApiCalls
  <1> QED
    BY <1>1, <1>2 DEF MadeInv

(* Every step keeps MadeInv. *)
LEMMA MadeStep ==
  ASSUME TypeOK, CallsInv, MadeInv, Steps, Running
  PROVE  MadeInv'
PROOF
  <1> DEFINE ok(f) == f \in OwnFunctors \/ Made(f)
  <1>a. /\ queue \in Seq(Functor) /\ <<"callback">> \in Functor /\ ok(<<"callback">>)
        /\ calling \in [OtherThreads -> {<<"none">>} \cup Functor \cup {<<"delay">>}]
    BY Functors DEF TypeOK, OwnFunctors
  <1>b. /\ \A t \in OtherThreads : calling[t] = <<"none">> \/ Made(calling[t])
        /\ \A i \in DOMAIN queue : ok(queue[i])
    BY DEF MadeInv
  <1>c. \A q \in Seq(Functor) : \A e \in Functor :
          (\A i \in DOMAIN q : ok(q[i])) /\ ok(e) =>
            \A i \in DOMAIN Append(q, e) : ok(Append(q, e)[i])
    <2> HIDE DEF ok
    <2> QED
      OBVIOUS
  <1>d. queue # <<>> => /\ Tail(queue) \in Seq(Functor)
                        /\ \A i \in DOMAIN Tail(queue) : ok(Tail(queue)[i])
    <2> HIDE DEF ok
    <2> QED
      BY <1>a, <1>b
  <1> HIDE DEF ok
  <1>1. \A i \in DOMAIN queue' : ok(queue'[i])
    <2>1. CASE queue' = queue
      BY <1>b, <2>1, Zenon
    <2>2. CASE Taken
      BY <1>a, <1>c, <1>d, <2>2, Zenon DEF Taken
    <2>3. ASSUME NEW e \in Functor, Appended(e)
          PROVE  \A i \in DOMAIN queue' : ok(queue'[i])
      <3>1. e # <<"none">>
        BY DEF Functor
      <3>2. ok(e)
        BY <1>b, <2>3, <3>1, Zenon DEF Appended, ok
      <3> QED
        BY <1>a, <1>b, <1>c, <2>3, <3>2, Zenon DEF Appended
    <2> QED
      BY <2>1, <2>2, <2>3, QueueStep, Zenon
  <1>2. \A t \in OtherThreads : calling'[t] = <<"none">> \/ Made(calling'[t])
    <2> DEFINE Goal == \A t \in OtherThreads : calling'[t] = <<"none">> \/ Made(calling'[t])
    <2>1. UNCHANGED calling => Goal
      BY <1>b, Zenon
    <2>2. ASSUME NEW t \in OtherThreads, NEW c, c = <<"none">> \/ Made(c),
                 calling' = [calling EXCEPT ![t] = c]
          PROVE  Goal
      BY <1>a, <1>b, <2>2
    <2> SUFFICES Goal
      BY Zenon
    <2> HIDE DEF Goal
    <2>3. ASSUME NEW t \in OtherThreads, Begins(t)
          PROVE  Goal
      <3>1. PICK call \in OtherCalls : \E c \in CallOf(call) : calling' = [calling EXCEPT ![t] = c]
        BY <2>3, Zenon DEF Begins
      <3>2. PICK c \in CallOf(call) : calling' = [calling EXCEPT ![t] = c]
        BY <3>1
      <3>3. Made(c)
        BY Zenon DEF Made
      <3> QED
        BY <2>2, <3>2, <3>3, Zenon
    <2>4. ASSUME NEW t \in OtherThreads, EndsDelay(t) \/ EndsCall(t)
          PROVE  Goal
      BY <2>2, <2>4, Zenon DEF EndsDelay, EndsCall, Ends
    <2> USE DEF conn, loop, socket, owner, history
    <2>5. CASE poll \/ HandlingEnds \/ HandlesClose \/ HandlesData \/ HandlesError \/ HandlesWrite
               \/ ReturnsOnly
      BY <2>5, <2>1, Zenon
      DEF poll, HandlingEnds, HandlesClose, Handles, HandlesData, HandlesError, HandlesWrite,
          ReturnsOnly, Returns
    <2>6. CASE ReturnsClose \/ ReturnsRemove \/ RunsEstablished \/ RunsDestroyed
               \/ RunsDestroyedLive \/ RunsForceClose \/ RunsNothing
      BY <2>6, <2>1, Zenon
      DEF ReturnsClose, Returns, ReturnsRemove, RunsEstablished, Runs, RunsDestroyed,
          RunsDestroyedLive, RunsForceClose, RunsNothing
    <2>7. CASE RunsSend \/ CallsSend
      BY <2>7, <2>1, Zenon DEF RunsSend, SendKeeps, CallsSend, InUser
    <2>8. CASE RunsCallback \/ RunsShutdown \/ CallsShutdown \/ CallsForceClose \/ CallsDelay
               \/ DelayCloses \/ DelayLate
      BY <2>8, <2>1, Zenon
      DEF RunsCallback, Runs, RunsShutdown, CallsShutdown, InUser, CallsForceClose, CallsDelay,
          DelayCloses, Delay, DelayLate
    <2>9. CASE RunsRead \/ CallsRead
      BY <2>9, <2>1, Zenon DEF RunsRead, Runs, Reads, CallsRead, InUser
    <2>10. CASE removeConnectionInLoop \/ stopServer \/ destructor \/ peerSends \/ peerCloses
               \/ peerResets
      BY <2>10, <2>1, Zenon
      DEF removeConnectionInLoop, stopServer, destructor, peerSends, peerCloses, peerResets
    <2> QED
      BY <2>3, <2>4, <2>5, <2>6, <2>7, <2>8, <2>9, <2>10, Zenon
      DEF Steps, Dispatches, RunsFunctor, Calls
  <1> QED
    BY <1>1, <1>2, Zenon DEF MadeInv, ok

--------------------------------------------------------------------------------
(* The life of the connection. *)

(* Until the connection is established only its peer and its server act. *)
LEMMA ConnectingSteps ==
  ASSUME TypeOK, EstablishedInv, state_ = "kConnecting", Steps
  PROVE  RunsEstablished \/ DelayLate \/ stopServer \/ peerSends \/ peerCloses \/ peerResets
PROOF
  <1> DEFINE Goal == RunsEstablished \/ DelayLate \/ stopServer \/ peerSends \/ peerCloses \/ peerResets
  <1>a. /\ Head(queue) = <<"established">> /\ pc = "idle" /\ removals = 0 /\ index_ = "kNew"
        /\ \A t \in OtherThreads : calling[t] = <<"none">>
    BY DEF EstablishedInv
  <1>b. /\ <<"established">>[1] # "send" /\ <<"established">> # <<"destroyed">>
        /\ <<"established">> # <<"forceClose">> /\ <<"established">> # <<"callback">>
        /\ <<"established">> # <<"shutdown">> /\ <<"established">> # <<"startRead">>
        /\ <<"established">> # <<"stopRead">>
    OBVIOUS
  <1>c. ~Live /\ ~(removals > 0)
    BY <1>a DEF Live
  <1>1. CASE poll
    BY <1>1, <1>a, Zenon DEF poll
  <1>2. CASE HandlingEnds \/ HandlesClose \/ HandlesData \/ HandlesError \/ HandlesWrite
             \/ ReturnsOnly \/ ReturnsClose \/ ReturnsRemove
    BY <1>2, <1>a, Zenon
    DEF HandlingEnds, HandlesClose, Handles, HandlesData, HandlesError, HandlesWrite,
        ReturnsOnly, Returns, ReturnsClose, ReturnsRemove
  <1>3. CASE RunsSend \/ RunsDestroyed \/ RunsDestroyedLive \/ RunsForceClose \/ RunsNothing
             \/ RunsCallback \/ RunsShutdown
    BY <1>3, <1>a, <1>b, Zenon
    DEF RunsSend, SendKeeps, RunsDestroyed, Runs, RunsDestroyedLive, RunsForceClose,
        RunsNothing, RunsCallback, RunsShutdown
  <1>4. CASE RunsEstablished \/ DelayLate \/ stopServer \/ peerSends \/ peerCloses \/ peerResets
    BY <1>4, Zenon
  <1>5. CASE RunsRead
    BY <1>5, <1>a, <1>b, Zenon DEF RunsRead, Runs, Reads
  <1>6. CASE CallsSend \/ CallsShutdown \/ CallsForceClose \/ CallsDelay \/ CallsRead
    BY <1>6, <1>a, Zenon
    DEF CallsSend, InUser, SendKeeps, CallsShutdown, CallsForceClose, CallsDelay, CallsRead,
        Reads
  <1>7. ASSUME NEW t \in OtherThreads, Begins(t) \/ EndsDelay(t) \/ EndsCall(t)
        PROVE  Goal
    BY <1>7, <1>a, Zenon DEF Begins, EndsDelay, Ends, EndsCall
  <1>8. CASE DelayCloses \/ removeConnectionInLoop \/ destructor
    BY <1>8, <1>c, Zenon DEF DelayCloses, Delay, removeConnectionInLoop, destructor
  <1> QED
    BY <1>1, <1>2, <1>3, <1>4, <1>5, <1>6, <1>7, <1>8, Zenon
    DEF Steps, Dispatches, RunsFunctor, Calls

(* An established connection does not go back. *)
LEMMA StateStep ==
  ASSUME TypeOK, Steps, state_ # "kConnecting"
  PROVE  state_' # "kConnecting"
PROOF
  <1>a. "kConnecting" # "kConnected" /\ "kConnecting" # "kDisconnecting"
        /\ "kConnecting" # "kDisconnected"
    OBVIOUS
  <1> USE DEF conn, loop, socket, owner, history
  <1>1. CASE poll \/ HandlingEnds \/ HandlesData \/ HandlesError \/ ReturnsOnly \/ ReturnsClose
             \/ ReturnsRemove
    BY <1>1, Zenon
    DEF poll, HandlingEnds, HandlesData, Handles, HandlesError, ReturnsOnly, Returns,
        ReturnsClose, ReturnsRemove
  <1>2. CASE HandlesClose \/ RunsForceClose
    BY <1>2, <1>a, Zenon DEF HandlesClose, Handles, RunsForceClose, Runs, handleClose
  <1>3. CASE HandlesWrite
    BY <1>3, WriteEffect, Zenon DEF HandlesWrite, Handles
  <1>4. CASE RunsSend \/ CallsSend
    BY <1>4, Zenon DEF RunsSend, SendKeeps, CallsSend, InUser
  <1>5. CASE RunsEstablished
    BY <1>5, <1>a, Zenon DEF RunsEstablished, Runs, connectEstablished
  <1>6. CASE RunsDestroyed \/ RunsNothing \/ RunsCallback \/ RunsShutdown \/ DelayLate
             \/ removeConnectionInLoop \/ stopServer
    BY <1>6, Zenon
    DEF RunsDestroyed, Runs, RunsNothing, RunsCallback, RunsShutdown, DelayLate, Delay,
        removeConnectionInLoop, stopServer
  <1>7. CASE RunsDestroyedLive \/ CallsShutdown \/ CallsForceClose \/ CallsDelay \/ DelayCloses
    BY <1>7, <1>a, Zenon
    DEF RunsDestroyedLive, Runs, CallsShutdown, InUser, CallsForceClose, CallsDelay,
        DelayCloses, Delay
  <1>8. CASE RunsRead \/ CallsRead
    BY <1>8, Zenon DEF RunsRead, Runs, Reads, CallsRead, InUser
  <1>9. ASSUME NEW t \in OtherThreads, Begins(t)
        PROVE  state_' # "kConnecting"
    BY <1>9, Zenon DEF Begins
  <1>10. ASSUME NEW t \in OtherThreads, EndsDelay(t) \/ EndsCall(t)
         PROVE  state_' # "kConnecting"
    BY <1>10, <1>a, Zenon DEF EndsDelay, Ends, EndsCall
  <1>11. CASE destructor \/ peerSends \/ peerCloses \/ peerResets
    BY <1>11, Zenon DEF destructor, peerSends, peerCloses, peerResets
  <1> QED
    BY <1>1, <1>2, <1>3, <1>4, <1>5, <1>6, <1>7, <1>8, <1>9, <1>10, <1>11, Zenon
    DEF Steps, Dispatches, RunsFunctor, Calls

(* Every step keeps EstablishedInv. *)
LEMMA EstablishedStep ==
  ASSUME TypeOK, CallsInv, Steps, Running, EstablishedInv
  PROVE  EstablishedInv'
PROOF
  <1>1. CASE state_ # "kConnecting"
    <2>1. Without(queue, <<"established">>)
      BY <1>1 DEF EstablishedInv
    <2>2. Without(queue', <<"established">>)
      <3>1. <<"established">> # <<"destroyed">>
        OBVIOUS
      <3> QED
        BY <2>1, <3>1, KeepsWithout, Zenon
    <2>3. state_' # "kConnecting"
      BY <1>1, StateStep
    <2> QED
      BY <2>2, <2>3 DEF EstablishedInv
  <1>2. CASE state_ = "kConnecting"
    <2> USE DEF conn, loop, socket, owner, history
    <2>0. /\ queue # <<>> /\ Head(queue) = <<"established">>
          /\ Without(Tail(queue), <<"established">>)
          /\ pc = "idle" /\ removals = 0 /\ server # "released"
          /\ events_ = kNoneEvent /\ index_ = "kNew"
          /\ \A t \in OtherThreads : calling[t] = <<"none">>
      BY <1>2 DEF EstablishedInv
    <2>1. CASE RunsEstablished
      <3>1. state_' = "kConnected" /\ queue' = Tail(queue)
        BY <2>1, Zenon DEF RunsEstablished, Runs, connectEstablished
      <3> QED
        BY <2>0, <3>1 DEF EstablishedInv
    <2>2. CASE DelayLate \/ peerSends \/ peerCloses \/ peerResets
      <3>1. UNCHANGED <<state_, queue, pc, removals, server, events_, index_, calling>>
        BY <2>2, Zenon DEF DelayLate, Delay, peerSends, peerCloses, peerResets
      <3> QED
        BY <1>2, <3>1, Zenon DEF EstablishedInv
    <2>3. CASE stopServer
      <3> DEFINE d == <<"destroyed">>
      <3>1. /\ UNCHANGED <<state_, pc, removals, events_, index_, calling>> /\ server' = "dead"
            /\ queue' = queue \/ queue' = Append(queue, d)
        BY <2>3, Zenon DEF stopServer
      <3>2. queue \in Seq(Functor) /\ d \in Functor /\ d # <<"established">>
        BY Functors DEF TypeOK
      <3>3. /\ Head(Append(queue, d)) = Head(queue) /\ Append(queue, d) # <<>>
            /\ Tail(Append(queue, d)) = Append(Tail(queue), d)
        BY <2>0, <3>2, HeadTailAppend, AppendProperties
      <3>4. Tail(queue) \in Seq(Functor)
        BY <2>0, <3>2
      <3>5. Without(Append(Tail(queue), d), <<"established">>)
        BY <2>0, <3>2, <3>4, QueueAppend, Zenon
      <3>6. /\ queue' # <<>> /\ Head(queue') = <<"established">>
            /\ Without(Tail(queue'), <<"established">>)
        BY <2>0, <3>1, <3>3, <3>5, Zenon
      <3>7. server' # "released"
        BY <3>1
      <3> QED
        BY <1>2, <2>0, <3>1, <3>6, <3>7, Zenon DEF EstablishedInv
    <2> QED
      BY <1>2, <2>1, <2>2, <2>3, ConnectingSteps
  <1> QED
    BY <1>1, <1>2

(* The callbacks that remain after one. *)
LEMMA TodoTail ==
  ASSUME NEW s \in Seq(Callbacks), s # <<>>
  PROVE  /\ HasNone(s) => HasNone(Tail(s))
         /\ AtMostOne(s) => AtMostOne(Tail(s))
         /\ AtMostOne(s) /\ Head(s) \in {"close", "read"} => HasNone(Tail(s))
         /\ Head(s) \in {"close", "read"} => ~HasNone(s)
PROOF
  <1>1. /\ Tail(s) \in Seq(Callbacks) /\ Len(s) \in Nat /\ Len(s) >= 1
        /\ DOMAIN s = 1 .. Len(s) /\ DOMAIN Tail(s) = 1 .. Len(s) - 1
        /\ Head(s) = s[1] /\ 1 \in 1 .. Len(s)
    OBVIOUS
  <1>2. \A i \in 1 .. Len(s) - 1 : i + 1 \in 1 .. Len(s) /\ Tail(s)[i] = s[i + 1]
    BY <1>1
  <1>3. HasNone(s) => HasNone(Tail(s))
    BY <1>1, <1>2 DEF HasNone
  <1>4. AtMostOne(s) => AtMostOne(Tail(s))
    BY <1>1, <1>2 DEF AtMostOne
  <1>5. AtMostOne(s) /\ Head(s) \in {"close", "read"} => HasNone(Tail(s))
    BY <1>1, <1>2 DEF AtMostOne, HasNone
  <1>6. Head(s) \in {"close", "read"} => ~HasNone(s)
    BY <1>1 DEF HasNone
  <1> QED
    BY <1>3, <1>4, <1>5, <1>6

(* Every step keeps TodoInv. *)
LEMMA TodoStep ==
  ASSUME TypeOK, Steps, TodoInv
  PROVE  TodoInv'
PROOF
  <1>a. todo \in Seq(Callbacks)
    BY DEF TypeOK, Callbacks
  <1>b. HasNone(<<>>) /\ AtMostOne(<<>>)
    BY DEF HasNone, AtMostOne
  <1> USE DEF conn, loop, socket, owner, history
  <1>1. CASE poll
    <2>1. AtMostOne(todo') /\ pc' = "handling"
      BY <1>1, HandleEvent DEF poll
    <2> QED
      BY <2>1 DEF TodoInv
  <1>2. CASE HandlingEnds \/ RunsEstablished \/ RunsDestroyedLive \/ RunsForceClose
             \/ RunsCallback \/ destructor
    <2>1. todo = <<>> /\ todo' = <<>>
      BY <1>2, Zenon
      DEF HandlingEnds, RunsEstablished, Runs, RunsDestroyedLive, RunsForceClose, RunsCallback,
          destructor, TodoInv
    <2> QED
      BY <1>b, <2>1, Zenon DEF TodoInv
  <1>3. CASE HandlesClose \/ HandlesData
    <2>1. todo # <<>> /\ Head(todo) \in {"close", "read"} /\ todo' = Tail(todo) /\ pc' = "user"
      BY <1>3, Zenon DEF HandlesClose, Handles, HandlesData, handleClose, callUser
    <2>2. HasNone(todo') /\ AtMostOne(todo')
      BY <1>a, <2>1, TodoTail, Zenon DEF TodoInv
    <2> QED
      BY <2>1, <2>2 DEF TodoInv
  <1>4. CASE HandlesError \/ HandlesWrite
    <2>1. todo # <<>> /\ todo' = Tail(todo) /\ pc' = "handling"
      BY <1>4, Zenon DEF HandlesError, Handles, HandlesWrite
    <2>2. AtMostOne(todo')
      BY <1>a, <2>1, TodoTail, Zenon DEF TodoInv
    <2> QED
      BY <2>1, <2>2 DEF TodoInv
  <1>5. CASE ReturnsOnly \/ ReturnsClose \/ ReturnsRemove
    <2>1. /\ pc = "user" /\ todo' = todo
          /\ pc' = IF todo = <<>> THEN "idle" ELSE "handling"
      BY <1>5, Zenon DEF ReturnsOnly, Returns, ReturnsClose, ReturnsRemove
    <2> QED
      BY <2>1 DEF TodoInv
  <1>6. CASE RunsSend \/ RunsDestroyed \/ RunsNothing \/ RunsShutdown \/ CallsSend
             \/ CallsShutdown \/ CallsForceClose
    <2>1. UNCHANGED <<pc, todo>>
      BY <1>6, Zenon
      DEF RunsSend, SendKeeps, RunsDestroyed, Runs, RunsNothing, RunsShutdown, CallsSend, InUser,
          CallsShutdown, CallsForceClose
    <2> QED
      BY <2>1, Zenon DEF TodoInv
  <1>7. CASE RunsRead \/ CallsRead
    <2>1. UNCHANGED <<pc, todo>>
      BY <1>7, Zenon DEF RunsRead, Runs, Reads, CallsRead, InUser
    <2> QED
      BY <2>1, Zenon DEF TodoInv
  <1>8. CASE CallsDelay \/ DelayCloses \/ DelayLate \/ removeConnectionInLoop \/ stopServer
             \/ peerSends \/ peerCloses
    <2>1. UNCHANGED <<pc, todo>>
      BY <1>8, Zenon
      DEF CallsDelay, InUser, DelayCloses, Delay, DelayLate, removeConnectionInLoop, stopServer,
          peerSends, peerCloses
    <2> QED
      BY <2>1, Zenon DEF TodoInv
  <1>9. ASSUME NEW t \in OtherThreads, Begins(t) \/ EndsDelay(t) \/ EndsCall(t)
        PROVE  TodoInv'
    <2>1. UNCHANGED <<pc, todo>>
      BY <1>9, Zenon DEF Begins, EndsDelay, Ends, EndsCall
    <2> QED
      BY <2>1, Zenon DEF TodoInv
  <1>10. CASE peerResets
    <2>1. UNCHANGED <<pc, todo>>
      BY <1>10, Zenon DEF peerResets
    <2> QED
      BY <2>1, Zenon DEF TodoInv
  <1> QED
    BY <1>1, <1>2, <1>3, <1>4, <1>5, <1>6, <1>7, <1>8, <1>9, <1>10, Zenon
    DEF Steps, Dispatches, RunsFunctor, Calls

(* What leaves the server alone and does not close the connection. *)
LEMMA CloseKept ==
  ASSUME CloseInv, TypeOK, state_' = state_ \/ state_ # "kDisconnected",
         UNCHANGED <<removals, server>>, Closing' => Closing,
         "lateClose" \in misuse => "lateClose" \in misuse'
  PROVE  CloseInv'
PROOF
  <1>1. CASE "lateClose" \in misuse'
    BY <1>1 DEF CloseInv
  <1>2. CASE "lateClose" \notin misuse'
    <2>1. removals \in Nat
      BY DEF TypeOK
    <2>2. /\ Closing \/ removals > 0 \/ server = "released" => state_ = "kDisconnected"
          /\ removals <= 1
          /\ Closing => removals = 0 /\ server # "released"
          /\ removals > 0 => server # "released"
      BY <1>2 DEF CloseInv
    <2> QED
      BY <2>1, <2>2, Zenon DEF CloseInv
  <1> QED
    BY <1>1, <1>2

(* Every step keeps CloseInv, until an assert fails. *)
LEMMA CloseStep ==
  ASSUME TypeOK, Steps, Running, CloseInv, EstablishedInv, Running'
  PROVE  CloseInv'
PROOF
  <1>a. removals \in Nat
    BY DEF TypeOK
  <1>b. ("user" # "idle" /\ "user" # "handling") /\ ("close" # "return" /\ "close" # "remove")
        /\ (Live => state_ # "kDisconnected") /\ "kConnected" # "kDisconnected"
        /\ "kConnecting" # "kDisconnected"
    BY DEF Live
  <1> USE DEF conn, loop, socket, owner, history
  <1>1. CASE HandlingEnds \/ poll \/ destructor
    <2>1. UNCHANGED <<state_, removals, server, misuse>> /\ pc' # "user"
      BY <1>1 DEF HandlingEnds, poll, destructor
    <2> QED
      BY <2>1, CloseKept, Zenon DEF Closing
  <1>2. CASE HandlesClose \/ RunsForceClose
    <2>1. Live
      BY <1>2 DEF HandlesClose, RunsForceClose, handleClose, Live, Running
    <2>2. state_' = "kDisconnected" /\ UNCHANGED <<removals, server, misuse>>
      BY <1>2, Zenon DEF HandlesClose, Handles, RunsForceClose, Runs, handleClose
    <2> QED
      BY <1>a, <1>b, <2>1, <2>2 DEF CloseInv
  <1>3. CASE HandlesData \/ RunsCallback
    <2>1. UNCHANGED <<state_, removals, server, misuse>> /\ then' = "return"
      BY <1>3, Zenon DEF HandlesData, Handles, RunsCallback, Runs, callUser
    <2> QED
      BY <1>b, <2>1, CloseKept, Zenon DEF Closing
  <1>4. CASE HandlesError \/ RunsSend \/ RunsDestroyed \/ RunsNothing \/ RunsShutdown
             \/ CallsSend \/ DelayLate
    <2>1. UNCHANGED <<state_, removals, server, misuse>> /\ (Closing' => Closing)
      BY <1>4, Zenon
      DEF HandlesError, Handles, RunsSend, SendKeeps, RunsDestroyed, Runs, RunsNothing,
          RunsShutdown, CallsSend, InUser, DelayLate, Delay, Closing
    <2> QED
      BY <2>1, CloseKept, Zenon
  <1>5. CASE HandlesWrite
    <2>1. UNCHANGED <<state_, removals, server, misuse, pc, then>>
      BY <1>5, WriteEffect, Zenon DEF HandlesWrite, Handles
    <2> QED
      BY <2>1, CloseKept, Zenon DEF Closing
  <1>6. CASE ReturnsOnly \/ ReturnsRemove
    <2>1. UNCHANGED <<state_, removals, server, misuse>> /\ then' = "return"
      BY <1>6, Zenon DEF ReturnsOnly, Returns, ReturnsRemove
    <2> QED
      BY <1>b, <2>1, CloseKept, Zenon DEF Closing
  <1>7. CASE ReturnsClose
    <2>1. Closing /\ then' = "return" /\ removals' = removals + 1 /\ UNCHANGED <<state_, server, misuse>>
      BY <1>7, Zenon DEF ReturnsClose, Returns, Closing
    <2>2. ~Closing'
      BY <2>1 DEF Closing
    <2> QED
      BY <1>a, <2>1, <2>2 DEF CloseInv
  <1>8. CASE RunsEstablished
    <2>1. state_ = "kConnecting"
      <3>1. queue \in Seq(Functor)
        BY DEF TypeOK
      <3> QED
        BY <1>8, <3>1, HeadNotWithout, Zenon DEF RunsEstablished, Runs, EstablishedInv
    <2>2. then' = "return" /\ UNCHANGED <<removals, server, misuse>>
      BY <1>8, Zenon DEF RunsEstablished, Runs, connectEstablished, callUser
    <2> QED
      BY <1>b, <2>1, <2>2, CloseKept, Zenon DEF Closing
  <1>9. CASE RunsDestroyedLive
    <2>1. /\ state_ = "kConnected" /\ UNCHANGED <<removals, server, misuse>>
          /\ then' = "remove"
      BY <1>9, Zenon DEF RunsDestroyedLive, Runs, callUser
    <2> QED
      BY <1>b, <2>1, CloseKept, Zenon DEF Closing
  <1>10. CASE RunsRead \/ CallsRead
    <2>1. PICK f \in {"startRead", "stopRead"} : Reads(f)
      BY <1>10, Zenon DEF RunsRead, CallsRead
    <2>2. "lateClose" \in misuse => "lateClose" \in misuse'
      BY <2>1, ReadEffect
    <2> QED
      BY <2>1, <2>2, CloseKept, Zenon DEF Reads, Closing
  <1>11. CASE CallsShutdown \/ CallsForceClose \/ CallsDelay \/ DelayCloses
    <2>1. state_ # "kDisconnected" /\ UNCHANGED <<removals, server, misuse>> /\ (Closing' => Closing)
      BY <1>11, <1>b, Zenon
      DEF CallsShutdown, InUser, CallsForceClose, CallsDelay, DelayCloses, Delay, Closing
    <2> QED
      BY <2>1, CloseKept, Zenon
  <1>12. ASSUME NEW t \in OtherThreads, Begins(t)
         PROVE  CloseInv'
    <2>1. UNCHANGED <<state_, removals, server, misuse>> /\ (Closing' => Closing)
      BY <1>12, Zenon DEF Begins, Closing
    <2> QED
      BY <2>1, CloseKept, Zenon
  <1>13. ASSUME NEW t \in OtherThreads, EndsDelay(t) \/ EndsCall(t)
         PROVE  CloseInv'
    <2>0. Ends(t)
      BY <1>13, Zenon DEF EndsDelay, EndsCall
    <2>1. CASE "lateClose" \in misuse'
      BY <2>1 DEF CloseInv
    <2>2. CASE "lateClose" \notin misuse'
      <3>1. (state_' = state_ \/ state_ # "kDisconnected") /\ misuse' = misuse
        BY <2>0, <2>2 DEF Ends
      <3>2. UNCHANGED <<removals, server, pc, then>>
        BY <2>0, Zenon DEF Ends
      <3> QED
        BY <3>1, <3>2, CloseKept, Zenon DEF Closing
    <2> QED
      BY <2>1, <2>2
  <1>14. CASE removeConnectionInLoop
    <2>1. server = "holds"
      BY <1>14 DEF removeConnectionInLoop, Running, TypeOK
    <2>2. /\ removals > 0 /\ removals' = removals - 1 /\ server' = "released"
          /\ UNCHANGED <<state_, misuse, pc, then>>
      BY <1>14, <2>1 DEF removeConnectionInLoop
    <2> QED
      BY <1>a, <2>1, <2>2 DEF CloseInv, Closing
  <1>15. CASE stopServer
    <2>1. server' = "dead" /\ UNCHANGED <<state_, misuse, pc, then, removals>>
      BY <1>15, Zenon DEF stopServer
    <2> QED
      BY <1>a, <2>1 DEF CloseInv, Closing
  <1>16. CASE peerSends \/ peerCloses \/ peerResets
    <2>1. UNCHANGED <<state_, removals, server, misuse>> /\ (Closing' => Closing)
      BY <1>16, Zenon DEF peerSends, peerCloses, peerResets, Closing
    <2> QED
      BY <2>1, CloseKept, Zenon
  <1> QED
    BY <1>1, <1>2, <1>3, <1>4, <1>5, <1>6, <1>7, <1>8, <1>9, <1>10, <1>11, <1>12, <1>13, <1>14,
       <1>15, <1>16, Zenon
    DEF Steps, Dispatches, RunsFunctor, Calls

(* What leaves the channel, and whether the connection is live, alone. *)
LEMMA ChannelKept ==
  ASSUME ChannelInv, misuse' = {} => misuse = {}, UNCHANGED <<index_, events_>>,
         state_' = state_ \/ (Live /\ Live'), HasNone(todo) => HasNone(todo')
  PROVE  ChannelInv'
PROOF
  <1>1. CASE misuse' # {}
    BY <1>1 DEF ChannelInv
  <1>2. CASE misuse' = {}
    <2>1. /\ Live => index_ = "kAdded" /\ isReading(events_)
          /\ state_ = "kDisconnected" => index_ # "kAdded" /\ events_ = kNoneEvent
          /\ HasNone(todo) \/ Live
      BY <1>2 DEF ChannelInv
    <2>2. Live' => Live /\ UNCHANGED <<index_, events_>>
      BY DEF Live
    <2>3. (state_' = "kDisconnected" => state_ = "kDisconnected") /\ (Live => Live')
      BY DEF Live
    <2> QED
      BY <2>1, <2>2, <2>3, Zenon DEF ChannelInv
  <1> QED
    BY <1>1, <1>2

(* update() on a channel that is in the poller. *)
LEMMA UpdateAdded ==
  ASSUME NEW e, update(e), index_ = "kAdded"
  PROVE  /\ events_' = e
         /\ e = kNoneEvent => index_' = "kDeleted"
         /\ isReading(e) => index_' = "kAdded"
PROOF
  BY DEF update, isNoneEvent, kNoneEvent, isReading

(* sendInLoop() and the channel. *)
LEMMA SendChannel ==
  ASSUME TypeOK, ChannelInv, state_ # "kConnecting", NEW m \in Messages, NEW fs \in Seq(Functor),
         sendInLoop(m, fs), UNCHANGED <<state_, misuse, todo>>
  PROVE  ChannelInv'
PROOF
  <1>1. \/ UNCHANGED <<outputBuffer_, events_, index_>>
        \/ /\ state_ # "kDisconnected" /\ events_' = events_ \cup {kWriteEvent}
           /\ index_' = IF isWriting(events_) THEN index_ ELSE "kAdded"
    BY SendEffect, Zenon
  <1>2. CASE UNCHANGED <<outputBuffer_, events_, index_>>
    BY <1>2, ChannelKept, Zenon
  <1>3. CASE /\ state_ # "kDisconnected" /\ events_' = events_ \cup {kWriteEvent}
             /\ index_' = IF isWriting(events_) THEN index_ ELSE "kAdded"
    <2>1. isReading(events_) => isReading(events_')
      BY <1>3 DEF isReading
    <2>2. index_ = "kAdded" => index_' = "kAdded"
      BY <1>3
    <2> QED
      BY <1>3, <2>1, <2>2, Zenon DEF ChannelInv, Live
  <1> QED
    BY <1>1, <1>2, <1>3

(* startRead(), stopRead() and the channel. *)
LEMMA ReadChannel ==
  ASSUME TypeOK, ChannelInv, state_ # "kConnecting", NEW f \in {"startRead", "stopRead"}, Reads(f)
  PROVE  ChannelInv'
PROOF
  <1>1. CASE misuse' # {}
    BY <1>1 DEF ChannelInv
  <1>2. CASE misuse' = {}
    <2>1. UNCHANGED <<state_, todo>>
      BY Zenon DEF Reads, loop
    <2>2. /\ f = "startRead" /\ state_ # "kDisconnected" /\ misuse = {}
          /\ index_ = "kAdded" => index_' = "kAdded"
          /\ isReading(events_')
      BY <1>2, ReadEffect
    <2> QED
      BY <2>1, <2>2, Zenon DEF ChannelInv, Live
  <1> QED
    BY <1>1, <1>2

(* Every step keeps ChannelInv, until an assert fails. *)
LEMMA ChannelStep ==
  ASSUME TypeOK, Steps, Running, ChannelInv, EstablishedInv, TodoInv, Running'
  PROVE  ChannelInv'
PROOF
  <1>a. todo \in Seq(Callbacks) /\ queue \in Seq(Functor) /\ state_ \in States
    BY DEF TypeOK, Callbacks
  <1>b. HasNone(<<>>)
    BY DEF HasNone
  <1>c. state_ # "kConnecting" /\ state_ # "kDisconnected" => Live
    BY <1>a DEF Live, States
  <1> USE DEF conn, loop, socket, owner, history
  <1>1. CASE poll
    <2>1. index_ = "kAdded" /\ UNCHANGED <<state_, index_, events_, misuse>>
      BY <1>1, Zenon DEF poll
    <2>2. state_ # "kConnecting"
      BY <2>1 DEF EstablishedInv
    <2>3. misuse = {} => Live
      BY <1>c, <2>1, <2>2 DEF ChannelInv
    <2> QED
      BY <2>1, <2>3, Zenon DEF ChannelInv, Live
  <1>2. CASE HandlingEnds \/ ReturnsOnly \/ ReturnsClose \/ RunsNothing \/ RunsCallback
             \/ RunsShutdown \/ DelayLate
    <2>1. UNCHANGED <<state_, index_, events_, todo, misuse>>
      BY <1>2, Zenon
      DEF HandlingEnds, ReturnsOnly, Returns, ReturnsClose, RunsNothing, Runs, RunsCallback,
          RunsShutdown, DelayLate, Delay
    <2> QED
      BY <2>1, ChannelKept, Zenon
  <1>3. CASE HandlesClose
    <2>1. /\ todo # <<>> /\ Head(todo) \in {"close", "read"} /\ todo' = Tail(todo)
          /\ state_' = "kDisconnected" /\ update(kNoneEvent) /\ misuse' = misuse
      BY <1>3, Zenon DEF HandlesClose, Handles, handleClose
    <2>2. ~HasNone(todo) /\ HasNone(todo')
      BY <1>a, <2>1, TodoTail, Zenon DEF TodoInv
    <2>3. misuse = {} => index_ = "kAdded"
      BY <2>2 DEF ChannelInv
    <2>4. misuse = {} => events_' = kNoneEvent /\ index_' = "kDeleted"
      BY <2>1, <2>3, UpdateAdded, Zenon
    <2> QED
      BY <2>1, <2>2, <2>4 DEF ChannelInv, Live
  <1>4. CASE HandlesData \/ HandlesError
    <2>1. /\ todo # <<>> /\ todo' = Tail(todo)
          /\ UNCHANGED <<state_, index_, events_, misuse>>
      BY <1>4, Zenon DEF HandlesData, Handles, HandlesError
    <2>2. HasNone(todo) => HasNone(todo')
      BY <1>a, <2>1, TodoTail, Zenon
    <2> QED
      BY <2>1, <2>2, ChannelKept, Zenon
  <1>5. CASE HandlesWrite
    <2>1. handleWrite /\ todo # <<>> /\ todo' = Tail(todo) /\ misuse' = misuse
      BY <1>5, Zenon DEF HandlesWrite, Handles
    <2>2. HasNone(todo) => HasNone(todo')
      BY <1>a, <2>1, TodoTail, Zenon
    <2>3. /\ state_' = state_
          /\ \/ UNCHANGED <<events_, index_>>
             \/ /\ isWriting(events_) /\ events_' = events_ \ {kWriteEvent}
                /\ index_' = IF index_ = "kAdded" /\ events_' = {} THEN "kDeleted" ELSE "kAdded"
      BY <2>1, WriteEffect, Zenon
    <2>4. CASE UNCHANGED <<events_, index_>>
      BY <2>1, <2>2, <2>3, <2>4, ChannelKept, Zenon
    <2>5. CASE ~UNCHANGED <<events_, index_>>
      <3>1. /\ isWriting(events_) /\ events_' = events_ \ {kWriteEvent}
            /\ index_' = IF index_ = "kAdded" /\ events_' = {} THEN "kDeleted" ELSE "kAdded"
        BY <2>3, <2>5, Zenon
      <3>2. isReading(events_) => isReading(events_') /\ events_' # {}
        BY <3>1 DEF isReading, kReadEvent, kWriteEvent
      <3>3. isReading(events_) => index_' = "kAdded"
        BY <3>1, <3>2
      <3>4. events_ # kNoneEvent
        BY <3>1 DEF isWriting, kNoneEvent
      <3> QED
        BY <2>1, <2>2, <2>3, <3>2, <3>3, <3>4, Zenon DEF ChannelInv, Live
    <2> QED
      BY <2>4, <2>5
  <1>6. CASE ReturnsRemove
    <2>1. /\ index_' = "kNew" /\ UNCHANGED <<state_, events_, misuse, todo>>
      BY <1>6, Zenon DEF ReturnsRemove, Returns, removeChannel
    <2>2. isNoneEvent(events_)
      BY <1>6 DEF ReturnsRemove, removeChannel, Running
    <2>3. misuse = {} => ~Live
      BY <2>2 DEF ChannelInv, isNoneEvent, isReading, kNoneEvent
    <2> QED
      BY <2>1, <2>3 DEF ChannelInv, Live
  <1>7. CASE RunsSend
    <2>1. PICK m \in Messages : sendInLoop(m, Tail(queue))
      BY <1>7, Zenon DEF RunsSend
    <2>2. Tail(queue) \in Seq(Functor) /\ UNCHANGED <<state_, misuse, todo>>
      BY <1>7, <1>a, QueueTail DEF RunsSend, SendKeeps
    <2>3. state_ # "kConnecting"
      <3>1. Head(queue) # <<"established">>
        BY <1>7 DEF RunsSend
      <3> QED
        BY <3>1 DEF EstablishedInv
    <2> QED
      BY <2>1, <2>2, <2>3, SendChannel, Zenon
  <1>8. CASE RunsEstablished
    <2>1. state_ = "kConnecting"
      BY <1>8, <1>a, HeadNotWithout, Zenon DEF RunsEstablished, Runs, EstablishedInv
    <2>2. /\ state_' = "kConnected" /\ update(Interest("enableReading", events_)) /\ misuse' = misuse
          /\ index_ = "kNew"
      BY <1>8, <2>1, Zenon DEF RunsEstablished, connectEstablished, EstablishedInv
    <2>3. index_' = "kAdded" /\ isReading(events_')
      BY <2>2, Interests DEF update
    <2> QED
      BY <2>2, <2>3 DEF ChannelInv, Live
  <1>9. CASE RunsDestroyed
    <2>1. /\ index_' = "kNew" /\ UNCHANGED <<state_, events_, misuse, todo>>
      BY <1>9, Zenon DEF RunsDestroyed, Runs, removeChannel
    <2>2. isNoneEvent(events_)
      BY <1>9 DEF RunsDestroyed, removeChannel, Running
    <2>3. misuse = {} => ~Live
      BY <2>2 DEF ChannelInv, isNoneEvent, isReading, kNoneEvent
    <2> QED
      BY <2>1, <2>3 DEF ChannelInv, Live
  <1>10. CASE RunsForceClose \/ RunsDestroyedLive
    <2>1. /\ Live /\ state_' = "kDisconnected" /\ update(kNoneEvent) /\ misuse' = misuse
          /\ pc = "idle" /\ todo' = todo
      BY <1>10, Zenon DEF RunsForceClose, Runs, RunsDestroyedLive, handleClose, Live
    <2>2. HasNone(todo')
      BY <1>b, <2>1, Zenon DEF TodoInv
    <2>3. misuse = {} => index_ = "kAdded"
      BY <2>1 DEF ChannelInv
    <2>4. misuse = {} => events_' = kNoneEvent /\ index_' = "kDeleted"
      BY <2>1, <2>3, UpdateAdded, Zenon
    <2> QED
      BY <2>1, <2>2, <2>4 DEF ChannelInv, Live
  <1>11. CASE RunsRead
    <2>1. PICK f \in {"startRead", "stopRead"} : Runs(f) /\ Reads(f)
      BY <1>11, Zenon DEF RunsRead
    <2>2. state_ # "kConnecting"
      <3>1. Head(queue) # <<"established">>
        BY <2>1 DEF Runs
      <3> QED
        BY <3>1 DEF EstablishedInv
    <2> QED
      BY <2>1, <2>2, ReadChannel, Zenon
  <1>12. CASE CallsSend
    <2>1. PICK m \in Messages : sendInLoop(m, queue)
      BY <1>12, Zenon DEF CallsSend
    <2>2. UNCHANGED <<state_, misuse, todo>> /\ pc = "user"
      BY <1>12, Zenon DEF CallsSend, InUser, SendKeeps
    <2>3. state_ # "kConnecting"
      BY <2>2 DEF EstablishedInv
    <2> QED
      BY <1>a, <2>1, <2>2, <2>3, SendChannel, Zenon
  <1>13. CASE CallsShutdown \/ CallsForceClose \/ CallsDelay \/ DelayCloses
    <2>1. Live /\ state_' = "kDisconnecting" /\ UNCHANGED <<index_, events_, todo, misuse>>
      BY <1>13, Zenon
      DEF CallsShutdown, InUser, CallsForceClose, CallsDelay, DelayCloses, Delay, Live
    <2>2. Live'
      BY <2>1 DEF Live
    <2> QED
      BY <2>1, <2>2, ChannelKept, Zenon
  <1>14. CASE CallsRead
    <2>1. PICK f \in {"startRead", "stopRead"} : Reads(f)
      BY <1>14, Zenon DEF CallsRead
    <2> QED
      BY <1>14, <2>1, ReadChannel, Zenon DEF CallsRead
  <1>15. ASSUME NEW t \in OtherThreads, Begins(t)
         PROVE  ChannelInv'
    <2>1. UNCHANGED <<state_, index_, events_, todo, misuse>>
      BY <1>15, Zenon DEF Begins
    <2> QED
      BY <2>1, ChannelKept, Zenon
  <1>16. ASSUME NEW t \in OtherThreads, EndsDelay(t) \/ EndsCall(t)
         PROVE  ChannelInv'
    <2>0. Ends(t)
      BY <1>16, Zenon DEF EndsDelay, EndsCall
    <2>1. CASE misuse' # {}
      BY <2>1 DEF ChannelInv
    <2>2. CASE misuse' = {}
      <3>1. state_ # "kConnecting"
        BY <2>0 DEF Ends, EstablishedInv
      <3>2. (state_' = state_ \/ (Live /\ Live')) /\ misuse' = misuse
        BY <1>c, <2>0, <2>2, <3>1 DEF Ends, Live
      <3>3. UNCHANGED <<index_, events_, todo>>
        BY <2>0, Zenon DEF Ends
      <3> QED
        BY <3>2, <3>3, ChannelKept, Zenon
    <2> QED
      BY <2>1, <2>2
  <1>17. CASE removeConnectionInLoop \/ stopServer \/ destructor \/ peerSends \/ peerCloses
              \/ peerResets
    <2>1. UNCHANGED <<state_, index_, events_, todo, misuse>>
      BY <1>17, Zenon
      DEF removeConnectionInLoop, stopServer, destructor, peerSends, peerCloses, peerResets
    <2> QED
      BY <2>1, ChannelKept, Zenon
  <1> QED
    BY <1>1, <1>2, <1>3, <1>4, <1>5, <1>6, <1>7, <1>8, <1>9, <1>10, <1>11, <1>12, <1>13, <1>14,
       <1>15, <1>16, <1>17, Zenon
    DEF Steps, Dispatches, RunsFunctor, Calls

(* What leaves the channel of a closed connection alone. *)
LEMMA RemovalKept ==
  ASSUME RemovalInv, UNCHANGED <<index_, events_, server>>, misuse \subseteq misuse',
         state_' = state_ \/ (Live /\ Live'),
         ~(pc = "user" /\ then = "remove") => ~(pc' = "user" /\ then' = "remove"),
         server = "released" /\ Without(queue, <<"destroyed">>) => Without(queue', <<"destroyed">>)
  PROVE  RemovalInv'
PROOF
  <1> DEFINE late(m) == m \cap {"lateRead", "lateClose"} = {}
  <1>1. late(misuse') => late(misuse)
    OBVIOUS
  <1>2. /\ state_' = "kDisconnected" => state_ = "kDisconnected"
        /\ state_ = "kConnecting" => state_' = "kConnecting"
    BY DEF Live
  <1>3. late(misuse) /\ server # "dead" =>
          /\ state_ = "kDisconnected" => events_ = kNoneEvent
          /\ ~(pc = "user" /\ then = "remove")
          /\ index_ = "kNew" => \/ state_ = "kConnecting"
                                \/ server = "released" /\ Without(queue, <<"destroyed">>)
    BY DEF RemovalInv
  <1> SUFFICES ASSUME late(misuse'), server' # "dead"
               PROVE  /\ state_' = "kDisconnected" => events_' = kNoneEvent
                      /\ ~(pc' = "user" /\ then' = "remove")
                      /\ index_' = "kNew" => \/ state_' = "kConnecting"
                                             \/ server' = "released"
                                                /\ Without(queue', <<"destroyed">>)
    BY DEF RemovalInv
  <1> HIDE DEF late
  <1> QED
    BY <1>1, <1>2, <1>3, Zenon

(* Every step keeps RemovalInv, until an assert fails. *)
LEMMA RemovalStep ==
  ASSUME TypeOK, CallsInv, Steps, Running, LifeInv, Running'
  PROVE  RemovalInv'
PROOF
  <1>0. RemovalInv /\ CloseInv /\ DestroyedInv /\ EstablishedInv
    BY DEF LifeInv
  <1>a. queue \in Seq(Functor) /\ state_ \in States /\ server \in {"holds", "released", "dead"}
        /\ index_ \in {"kNew", "kAdded", "kDeleted"}
    BY DEF TypeOK
  <1>b. server = "released" /\ Without(queue, <<"destroyed">>) => Without(queue', <<"destroyed">>)
    BY KeepsWithout
  <1>c. "user" # "idle" /\ "user" # "handling" /\ "user" # "gone" /\ "remove" # "return"
        /\ "remove" # "close"
    OBVIOUS
  <1>d. Runs("destroyed") => server = "released" \/ server = "dead"
    <2>1. Runs("destroyed") => ~Without(queue, <<"destroyed">>)
      BY <1>a, HeadNotWithout, Zenon DEF Runs
    <2> QED
      BY <1>0, <1>a, <2>1 DEF DestroyedInv
  <1> USE DEF conn, loop, socket, owner, history
  <1>1. CASE HandlesError \/ RunsNothing \/ RunsShutdown \/ DelayLate \/ peerSends \/ peerCloses
             \/ peerResets
    <2>1. UNCHANGED <<state_, index_, events_, misuse, server, pc, then>>
      BY <1>1, Zenon
      DEF HandlesError, Handles, RunsNothing, Runs, RunsShutdown, DelayLate, Delay, peerSends,
          peerCloses, peerResets
    <2> QED
      BY <1>0, <1>b, <2>1, RemovalKept, Zenon
  <1>2. CASE poll \/ HandlingEnds \/ HandlesData \/ ReturnsOnly \/ ReturnsClose \/ RunsCallback
             \/ destructor
    <2>1. UNCHANGED <<state_, index_, events_, misuse, server>>
      BY <1>2, Zenon
      DEF poll, HandlingEnds, HandlesData, Handles, ReturnsOnly, Returns, ReturnsClose,
          RunsCallback, Runs, destructor
    <2>2. pc' \in {"handling", "idle", "gone"} \/ then' = "return"
      BY <1>2, Zenon
      DEF poll, HandlingEnds, HandlesData, ReturnsOnly, Returns, ReturnsClose, RunsCallback,
          callUser, destructor
    <2>3. ~(pc' = "user" /\ then' = "remove")
      BY <2>2
    <2> QED
      BY <1>0, <1>b, <2>1, <2>3, RemovalKept, Zenon
  <1>3. CASE HandlesClose \/ RunsForceClose
    <2>1. update(kNoneEvent) /\ then' = "close"
      BY <1>3, Zenon DEF HandlesClose, RunsForceClose, handleClose, callUser
    <2>2. events_' = kNoneEvent /\ index_' # "kNew"
      BY <2>1 DEF update
    <2> QED
      BY <1>c, <2>1, <2>2, Zenon DEF RemovalInv
  <1>4. CASE HandlesWrite
    <2>1. handleWrite /\ UNCHANGED <<misuse, server, pc, then>>
      BY <1>4, Zenon DEF HandlesWrite, Handles
    <2>2. /\ state_' = state_
          /\ \/ UNCHANGED <<events_, index_>>
             \/ /\ isWriting(events_) /\ events_' = events_ \ {kWriteEvent}
                /\ index_' = IF index_ = "kAdded" /\ events_' = {} THEN "kDeleted" ELSE "kAdded"
      BY <2>1, WriteEffect, Zenon
    <2>3. CASE UNCHANGED <<events_, index_>>
      BY <1>0, <1>b, <2>1, <2>2, <2>3, RemovalKept, Zenon
    <2>4. CASE ~UNCHANGED <<events_, index_>>
      <3>1. /\ isWriting(events_)
            /\ index_' = IF index_ = "kAdded" /\ events_' = {} THEN "kDeleted" ELSE "kAdded"
        BY <2>2, <2>4, Zenon
      <3>2. events_ # kNoneEvent /\ index_' # "kNew"
        BY <3>1 DEF isWriting, kNoneEvent
      <3> QED
        BY <1>0, <2>1, <2>2, <3>2, Zenon DEF RemovalInv
    <2> QED
      BY <2>3, <2>4
  <1>5. CASE ReturnsRemove
    BY <1>5, <1>0, Zenon DEF ReturnsRemove, Returns, RemovalInv
  <1>6. CASE RunsSend \/ CallsSend
    <2>2. UNCHANGED <<state_, misuse, server, pc, then>>
      BY <1>6, Zenon DEF RunsSend, CallsSend, SendKeeps
    <2>3. RunsSend => Tail(queue) \in Seq(Functor)
      BY <1>a, QueueTail DEF RunsSend
    <2>4. \/ UNCHANGED <<outputBuffer_, events_, index_>>
          \/ /\ state_ # "kDisconnected"
             /\ index_' = IF isWriting(events_) THEN index_ ELSE "kAdded"
      <3>1. CASE RunsSend
        <4>1. PICK n \in Messages : sendInLoop(n, Tail(queue))
          BY <3>1, Zenon DEF RunsSend
        <4> QED
          BY <2>3, <3>1, <4>1, SendEffect, Zenon
      <3>2. CASE CallsSend
        <4>1. PICK n \in Messages : sendInLoop(n, queue)
          BY <3>2, Zenon DEF CallsSend
        <4> QED
          BY <1>a, <4>1, SendEffect, Zenon
      <3> QED
        BY <1>6, <3>1, <3>2
    <2>5. CASE UNCHANGED <<outputBuffer_, events_, index_>>
      BY <1>0, <1>b, <2>2, <2>5, RemovalKept, Zenon
    <2>6. CASE /\ state_ # "kDisconnected"
               /\ index_' = IF isWriting(events_) THEN index_ ELSE "kAdded"
      <3>1. index_' = "kNew" => index_ = "kNew"
        BY <2>6
      <3> QED
        BY <1>0, <1>b, <2>2, <2>6, <3>1, Zenon DEF RemovalInv
    <2> QED
      BY <2>4, <2>5, <2>6
  <1>7. CASE RunsEstablished
    <2>1. /\ state_' = "kConnected" /\ update(Interest("enableReading", events_))
          /\ then' = "return"
      BY <1>7, Zenon DEF RunsEstablished, connectEstablished, callUser
    <2>2. index_' # "kNew" /\ state_' # "kDisconnected"
      BY <2>1 DEF update
    <2> QED
      BY <1>c, <2>1, <2>2, Zenon DEF RemovalInv
  <1>8. CASE RunsDestroyed
    <2>1. /\ Runs("destroyed") /\ UNCHANGED <<state_, events_, misuse, server, pc, then>>
          /\ queue # <<>> /\ Head(queue) = <<"destroyed">> /\ queue' = Tail(queue)
      BY <1>8, Zenon DEF RunsDestroyed, Runs, removeChannel
    <2>2. Without(queue', <<"destroyed">>)
      BY <1>0, <1>a, <2>1, QueueTail, Zenon DEF DestroyedInv
    <2> QED
      BY <1>0, <1>d, <2>1, <2>2, Zenon DEF RemovalInv
  <1>9. CASE RunsDestroyedLive
    <2>1. Runs("destroyed") /\ state_ = "kConnected" /\ UNCHANGED <<misuse, server>>
      BY <1>9, Zenon DEF RunsDestroyedLive, Runs
    <2>2. server = "dead" \/ "lateClose" \in misuse
      BY <1>0, <1>d, <2>1 DEF CloseInv
    <2> QED
      BY <2>1, <2>2 DEF RemovalInv
  <1>10. CASE RunsRead \/ CallsRead
    <2>1. PICK f \in {"startRead", "stopRead"} : Reads(f)
      BY <1>10, Zenon DEF RunsRead, CallsRead
    <2>2. /\ UNCHANGED <<events_, index_>> \/ index_' # "kNew"
          /\ f = "stopRead" /\ events_ = kNoneEvent => events_' = kNoneEvent
          /\ f = "startRead" /\ state_ = "kDisconnected" => "lateRead" \in misuse'
          /\ misuse \subseteq misuse'
      BY <2>1, ReadEffect
    <2>3. UNCHANGED <<state_, server, pc, then>>
      BY <2>1, Zenon DEF Reads
    <2>4. CASE UNCHANGED <<events_, index_>>
      BY <1>0, <1>b, <2>2, <2>3, <2>4, RemovalKept, Zenon
    <2>5. CASE index_' # "kNew"
      BY <1>0, <2>2, <2>3, <2>5 DEF RemovalInv
    <2> QED
      BY <2>2, <2>4, <2>5
  <1>11. CASE CallsShutdown \/ CallsForceClose \/ CallsDelay \/ DelayCloses
    <2>1. /\ Live /\ state_' = "kDisconnecting"
          /\ UNCHANGED <<index_, events_, misuse, server, pc, then>>
      BY <1>11, Zenon
      DEF CallsShutdown, InUser, CallsForceClose, CallsDelay, DelayCloses, Delay, Live
    <2>2. Live'
      BY <2>1 DEF Live
    <2> QED
      BY <1>0, <1>b, <2>1, <2>2, RemovalKept, Zenon
  <1>12. ASSUME NEW t \in OtherThreads, Begins(t)
         PROVE  RemovalInv'
    <2>1. UNCHANGED <<state_, index_, events_, misuse, server, pc, then>>
      BY <1>12, Zenon DEF Begins
    <2> QED
      BY <1>0, <1>b, <2>1, RemovalKept, Zenon
  <1>13. ASSUME NEW t \in OtherThreads, EndsDelay(t) \/ EndsCall(t)
         PROVE  RemovalInv'
    <2>0. Ends(t)
      BY <1>13, Zenon DEF EndsDelay, EndsCall
    <2>1. CASE "lateClose" \in misuse'
      BY <2>1 DEF RemovalInv
    <2>2. CASE "lateClose" \notin misuse'
      <3>1. state_ # "kConnecting"
        BY <1>0, <2>0 DEF Ends, EstablishedInv
      <3>2. (state_' = state_ \/ (Live /\ Live')) /\ misuse' = misuse
        BY <1>a, <2>0, <2>2, <3>1 DEF Ends, Live, States
      <3>3. UNCHANGED <<index_, events_, server, pc, then>>
        BY <2>0, Zenon DEF Ends
      <3> QED
        BY <1>0, <1>b, <3>2, <3>3, RemovalKept, Zenon
    <2> QED
      BY <2>1, <2>2
  <1>14. CASE removeConnectionInLoop
    <2>1. server = "holds"
      BY <1>14, <1>a DEF removeConnectionInLoop, Running
    <2>2. removals > 0 /\ UNCHANGED <<state_, index_, events_, misuse, pc, then>>
      BY <1>14, Zenon DEF removeConnectionInLoop
    <2>3. "lateClose" \notin misuse => state_ = "kDisconnected"
      BY <1>0, <2>2 DEF CloseInv
    <2> QED
      BY <1>0, <2>1, <2>2, <2>3 DEF RemovalInv
  <1>15. CASE stopServer
    <2>1. server' = "dead"
      BY <1>15, Zenon DEF stopServer
    <2> QED
      BY <2>1 DEF RemovalInv
  <1> QED
    BY <1>1, <1>2, <1>3, <1>4, <1>5, <1>6, <1>7, <1>8, <1>9, <1>10, <1>11, <1>12, <1>13, <1>14,
       <1>15, Zenon
    DEF Steps, Dispatches, RunsFunctor, Calls

(* The asserts fail only after what explains them. *)
LEMMA AssertsStep ==
  ASSUME TypeOK, Steps, Running, LifeInv
  PROVE  AssertsFailOnlyAfter'
PROOF
  <1>0. RemovalInv /\ CloseInv /\ DestroyedInv /\ EstablishedInv /\ TodoInv /\ ChannelInv
    BY DEF LifeInv
  <1>a. queue \in Seq(Functor) /\ todo \in Seq(Callbacks) /\ server \in {"holds", "released", "dead"}
    BY DEF TypeOK, Callbacks
  <1>b. failed' = failed => AssertsFailOnlyAfter'
    BY DEF Running, AssertsFailOnlyAfter
  <1> USE DEF conn, loop, socket, owner, history
  <1>1. CASE poll \/ HandlingEnds \/ HandlesData \/ HandlesError \/ HandlesWrite \/ ReturnsOnly
    BY <1>1, <1>b, Zenon
    DEF poll, HandlingEnds, HandlesData, HandlesError, HandlesWrite, ReturnsOnly
  <1>2. CASE HandlesClose
    <2>1. /\ todo # <<>> /\ Head(todo) \in {"close", "read"} /\ misuse' = misuse
          /\ Live \/ failed' = "handleClose"
          /\ Live => failed' = failed
      BY <1>2, Zenon DEF HandlesClose, Handles, handleClose, Live
    <2>2. ~HasNone(todo)
      BY <1>0, <1>a, <2>1, TodoTail, Zenon DEF TodoInv
    <2>3. CASE Live
      BY <1>b, <2>1, <2>3, Zenon
    <2>4. CASE ~Live
      BY <1>0, <2>1, <2>2, <2>4 DEF ChannelInv, AssertsFailOnlyAfter
    <2> QED
      BY <2>3, <2>4
  <1>3. CASE ReturnsClose
    <2>1. failed' = failed \/ failed' = "deadServer"
      BY <1>3, Zenon DEF ReturnsClose
    <2> QED
      BY <1>b, <2>1 DEF AssertsFailOnlyAfter
  <1>4. CASE ReturnsRemove
    <2>1. /\ pc = "user" /\ then = "remove" /\ UNCHANGED <<server, misuse>>
          /\ failed' = failed \/ failed' = "removeChannel"
      BY <1>4, Zenon DEF ReturnsRemove, Returns, removeChannel
    <2>2. misuse \cap {"lateRead", "lateClose"} # {} \/ server = "dead"
      BY <1>0, <2>1, Zenon DEF RemovalInv
    <2>3. CASE failed' = "removeChannel"
      BY <2>1, <2>2, <2>3 DEF AssertsFailOnlyAfter
    <2> QED
      BY <1>b, <2>1, <2>3
  <1>5. CASE RunsDestroyed
    <2>1. /\ queue # <<>> /\ Head(queue) = <<"destroyed">> /\ UNCHANGED <<server, misuse>>
          /\ \/ failed' = failed
             \/ failed' = "removeChannel" /\ (index_ = "kNew" \/ ~isNoneEvent(events_))
      BY <1>5, Zenon DEF RunsDestroyed, Runs, removeChannel
    <2>2. ~Without(queue, <<"destroyed">>)
      BY <1>a, <2>1, HeadNotWithout, Zenon
    <2>3. server = "released" \/ server = "dead"
      BY <1>0, <1>a, <2>2 DEF DestroyedInv
    <2>4. misuse \cap {"lateRead", "lateClose"} # {} \/ server = "dead"
          \/ (index_ # "kNew" /\ isNoneEvent(events_))
      <3>1. SUFFICES ASSUME misuse \cap {"lateRead", "lateClose"} = {}, server = "released"
                     PROVE  index_ # "kNew" /\ isNoneEvent(events_)
        BY <2>3
      <3>2. state_ = "kDisconnected"
        BY <1>0, <3>1 DEF CloseInv
      <3>3. events_ = kNoneEvent /\ index_ # "kNew"
        BY <1>0, <2>2, <3>1, <3>2 DEF RemovalInv
      <3> QED
        BY <3>3 DEF isNoneEvent, kNoneEvent
    <2>5. CASE failed' = failed
      BY <1>b, <2>5
    <2>6. CASE failed' # failed
      <3>1. failed' = "removeChannel" /\ ~(index_ # "kNew" /\ isNoneEvent(events_))
        BY <2>1, <2>6, Zenon
      <3>2. misuse \cap {"lateRead", "lateClose"} # {} \/ server = "dead"
        BY <2>4, <3>1, Zenon
      <3> QED
        BY <2>1, <3>1, <3>2 DEF AssertsFailOnlyAfter
    <2> QED
      BY <2>5, <2>6
  <1>6. CASE RunsSend \/ RunsEstablished \/ RunsDestroyedLive \/ RunsNothing \/ RunsCallback
             \/ RunsShutdown
    BY <1>6, <1>b, Zenon
    DEF RunsSend, SendKeeps, RunsEstablished, connectEstablished, RunsDestroyedLive, RunsNothing,
        RunsCallback, RunsShutdown
  <1>7. CASE RunsForceClose
    BY <1>7, <1>b, Zenon DEF RunsForceClose, handleClose, Live
  <1>8. CASE RunsRead \/ CallsSend \/ CallsShutdown \/ CallsForceClose \/ CallsDelay \/ CallsRead
             \/ DelayCloses \/ DelayLate
    BY <1>8, <1>b, Zenon
    DEF RunsRead, Reads, CallsSend, InUser, CallsShutdown, CallsForceClose, CallsDelay, CallsRead,
        DelayCloses, Delay, DelayLate
  <1>9. ASSUME NEW t \in OtherThreads, Begins(t) \/ EndsDelay(t) \/ EndsCall(t)
        PROVE  AssertsFailOnlyAfter'
    BY <1>9, <1>b, Zenon DEF Begins, EndsDelay, EndsCall, Ends
  <1>10. CASE removeConnectionInLoop
    <2>1. /\ removals > 0 /\ misuse' = misuse
          /\ failed' = CASE server = "holds" -> failed
                         [] server = "released" -> "removeConnection"
                         [] server = "dead" -> "deadServer"
      BY <1>10, Zenon DEF removeConnectionInLoop
    <2>2. failed' \in {failed, "deadServer"} \/ (failed' = "removeConnection" /\ server = "released")
      BY <1>a, <2>1
    <2>3. server = "released" => "lateClose" \in misuse
      BY <1>0, <2>1 DEF CloseInv
    <2> QED
      BY <1>b, <2>1, <2>2, <2>3 DEF AssertsFailOnlyAfter
  <1>11. CASE destructor
    <2>1. /\ server # "holds" /\ UNCHANGED <<server, misuse>>
          /\ failed' = IF state_ # "kDisconnected" THEN "destructor" ELSE failed
      BY <1>11, Zenon DEF destructor
    <2>2. state_ = "kDisconnected" \/ "lateClose" \in misuse \/ server = "dead"
      BY <1>0, <1>a, <2>1 DEF CloseInv
    <2> QED
      BY <1>b, <2>1, <2>2 DEF AssertsFailOnlyAfter
  <1>12. CASE stopServer \/ peerSends \/ peerCloses \/ peerResets
    BY <1>12, <1>b, Zenon DEF stopServer, peerSends, peerCloses, peerResets
  <1> QED
    BY <1>1, <1>2, <1>3, <1>4, <1>5, <1>6, <1>7, <1>8, <1>9, <1>10, <1>11, <1>12, Zenon
    DEF Steps, Dispatches, RunsFunctor, Calls

--------------------------------------------------------------------------------
(* The connection keeps its invariant. *)

(* The constructor establishes it, with connectEstablished() queued. *)
LEMMA InvInit ==
  ASSUME Init
  PROVE  Inv
PROOF
  <1> USE DEF Init
  <1>1. TypeOK
    <2>1. <<"established">> \in Functor
      BY Functors
    <2>2. queue \in Seq(Functor)
      BY <2>1
    <2>3. calling \in [OtherThreads -> {<<"none">>} \cup Functor \cup {<<"delay">>}]
      OBVIOUS
    <2>4. 0 \in 0 .. MaxInbox
      BY SizesAssumption
    <2>5. Flags
      BY Zenon DEF Flags
    <2>6. Rest
      BY <2>2, <2>3, <2>4 DEF Rest, States, kNoneEvent
    <2> QED
      BY <2>5, <2>6, Zenon DEF TypeOK, Flags, Rest, Callbacks
  <1>2. StreamInv
    <2>1. wire \o outputBuffer_ = accepted /\ accepted \in Seq(Units)
      OBVIOUS
    <2>2. IsPrefix(accepted, accepted)
      BY <2>1, PrefixOfItself
    <2> QED
      BY <2>1, <2>2 DEF StreamInv, StreamIntact
  <1>3. WatchInv
    BY DEF WatchInv, BufferedIsWatched, isWriting, kNoneEvent
  <1>4. MadeInv
    BY DEF MadeInv, OwnFunctors
  <1>5. AssertsFailOnlyAfter
    BY DEF AssertsFailOnlyAfter
  <1>6. LifeInv
    <2>1. EstablishedInv
      <3>1. Tail(queue) = <<>>
        OBVIOUS
      <3>2. Without(Tail(queue), <<"established">>)
        BY <3>1 DEF Without
      <3> QED
        BY <3>2 DEF EstablishedInv
    <2>2. DestroyedInv
      BY DEF DestroyedInv, Without, AtMostOnce
    <2>3. TodoInv
      BY DEF TodoInv, HasNone, AtMostOne
    <2>4. CloseInv
      BY DEF CloseInv, Closing
    <2>5. ChannelInv
      BY DEF ChannelInv, Live, HasNone
    <2>6. RemovalInv
      BY DEF RemovalInv
    <2> QED
      BY <2>1, <2>2, <2>3, <2>4, <2>5, <2>6 DEF LifeInv
  <1> QED
    BY <1>1, <1>2, <1>3, <1>4, <1>5, <1>6, Zenon DEF Inv

(* Every step keeps it. *)
LEMMA InvStep ==
  ASSUME Inv, [Next]_vars
  PROVE  Inv'
PROOF
  <1>0. /\ TypeOK /\ StreamInv /\ WatchInv /\ MadeInv /\ AssertsFailOnlyAfter /\ CallsInv
        /\ Running => LifeInv
    BY CallsMade DEF Inv
  <1>1. CASE Next
    <2>1. Steps /\ Running
      BY <1>0, <1>1, NextSteps, Zenon
    <2>2. LifeInv
      BY <1>0, <2>1, Zenon
    <2>3. EstablishedInv /\ DestroyedInv /\ TodoInv /\ CloseInv /\ ChannelInv /\ RemovalInv
      BY <2>2 DEF LifeInv
    <2>4. TypeOK'
      BY <1>0, <2>1, TypeStep, Zenon
    <2>5. StreamInv'
      BY <1>0, <2>1, <2>3, StreamStep, Zenon
    <2>6. WatchInv'
      BY <1>0, <2>1, <2>3, WatchStep, Zenon
    <2>7. MadeInv'
      BY <1>0, <2>1, MadeStep, Zenon
    <2>8. AssertsFailOnlyAfter'
      BY <1>0, <2>1, <2>2, AssertsStep, Zenon
    <2>9. Running' => LifeInv'
      <3> SUFFICES ASSUME Running'
                   PROVE  LifeInv'
        OBVIOUS
      <3>1. EstablishedInv'
        BY <1>0, <2>1, <2>3, EstablishedStep, Zenon
      <3>2. DestroyedInv'
        BY <1>0, <2>1, <2>3, DestroyedStep, Zenon
      <3>3. TodoInv'
        BY <1>0, <2>1, <2>3, TodoStep, Zenon
      <3>4. CloseInv'
        BY <1>0, <2>1, <2>3, CloseStep, Zenon
      <3>5. ChannelInv'
        BY <1>0, <2>1, <2>3, ChannelStep, Zenon
      <3>6. RemovalInv'
        BY <1>0, <2>1, <2>2, RemovalStep, Zenon
      <3> QED
        BY <3>1, <3>2, <3>3, <3>4, <3>5, <3>6, Zenon DEF LifeInv
    <2> QED
      BY <2>4, <2>5, <2>6, <2>7, <2>8, <2>9, Zenon DEF Inv
  <1>2. CASE UNCHANGED vars
    <2>1. /\ UNCHANGED <<state_, outputBuffer_, events_, index_, queue>>
          /\ UNCHANGED <<calling, pc, todo, then, server, removals, wire, peer, inbox>>
          /\ UNCHANGED <<accepted, closes, misuse, failed>>
      BY <1>2, Zenon DEF vars, conn, loop, owner, socket, history
    <2>2. UNCHANGED <<reading_, delayed, fin, sockErr, dropped>>
      BY <1>2, Zenon DEF vars, conn, loop, owner, socket, history
    <2>3. TypeOK'
      <3>1. Flags /\ Rest
        BY <1>0, Zenon DEF TypeOK, Flags, Rest, Callbacks
      <3>2. Flags'
        BY <2>2, <3>1, Zenon DEF Flags
      <3>3. Rest'
        BY <2>1, <3>1 DEF Rest
      <3> QED
        BY <3>2, <3>3, Zenon DEF TypeOK, Flags, Rest, Callbacks
    <2>4. StreamInv' /\ WatchInv' /\ MadeInv' /\ AssertsFailOnlyAfter'
      BY <1>0, <2>1, <2>2, Zenon
      DEF StreamInv, StreamIntact, WriteFails, WatchInv, BufferedIsWatched, MadeInv,
          AssertsFailOnlyAfter
    <2>5. Running' => LifeInv'
      BY <1>0, <2>1, Zenon
      DEF Running, LifeInv, EstablishedInv, DestroyedInv, TodoInv, CloseInv, Closing, ChannelInv,
          Live, RemovalInv
    <2> QED
      BY <2>3, <2>4, <2>5, Zenon DEF Inv
  <1> QED
    BY <1>1, <1>2

(* It holds in every state. *)
LEMMA Invariance == Spec => []Inv
PROOF
  BY InvInit, InvStep, PTL DEF Spec

(* Every variable keeps its type, whatever is called from wherever. *)
THEOREM ConnectionTypeCorrect == Spec => []TypeOK
PROOF
  <1>1. Inv => TypeOK
    BY DEF Inv
  <1> QED
    BY <1>1, Invariance, PTL

(* TcpConnection::sendInLoop and handleWrite: what goes out is what was      *)
(* accepted, in order, without gap or repetition, and all of it unless the   *)
(* socket failed.                                                            *)
THEOREM StreamStaysIntact == Spec => []StreamIntact
PROOF
  <1>1. Inv => StreamIntact
    BY DEF Inv, StreamInv
  <1> QED
    BY <1>1, Invariance, PTL

(* The asserts of TcpConnection, removeChannel and removeConnectionInLoop:   *)
(* each fails only after the misuse that explains it.                        *)
THEOREM AssertsExplained == Spec => []AssertsFailOnlyAfter
PROOF
  <1>1. Inv => AssertsFailOnlyAfter
    BY DEF Inv
  <1> QED
    BY <1>1, Invariance, PTL

--------------------------------------------------------------------------------
(* With fewer calls. *)

(* What the calls made say of the calls other threads make. *)
LEMMA MadeCalls ==
  ASSUME MadeInv, TypeOK
  PROVE  /\ OwnCloses => \A t \in OtherThreads :
                           calling[t][1] \notin {"shutdown", "forceClose", "delay"}
         /\ \A f \in {"shutdown", "startRead", "stopRead"} : Runs(f) => f \in OtherCalls
PROOF
  <1>1. ASSUME NEW c, Made(c)
        PROVE  /\ OwnCloses => c[1] \notin {"shutdown", "forceClose", "delay"}
               /\ \A f \in {"shutdown", "startRead", "stopRead"} : c = <<f>> => f \in OtherCalls
    <2>1. PICK call \in OtherCalls : c \in CallOf(call)
      BY <1>1 DEF Made
    <2>2. call \in ApiCalls
      BY CallsAssumption
    <2>3. CASE call = "send"
      BY <2>1, <2>3 DEF CallOf
    <2>4. CASE call = "forceCloseWithDelay"
      BY <2>1, <2>4 DEF CallOf, OwnCloses
    <2>5. CASE call \notin {"send", "forceCloseWithDelay"}
      BY <2>1, <2>2, <2>5 DEF CallOf, OwnCloses, ApiCalls
    <2> QED
      BY <2>3, <2>4, <2>5
  <1>2. ASSUME NEW f \in {"shutdown", "startRead", "stopRead"}, Runs(f)
        PROVE  f \in OtherCalls
    <2>1. queue \in Seq(Functor) /\ queue # <<>> /\ Head(queue) = <<f>>
      BY <1>2 DEF Runs, TypeOK
    <2>2. <<f>> \in OwnFunctors \/ Made(<<f>>)
      BY <2>1 DEF MadeInv
    <2>3. <<f>> \notin OwnFunctors
      BY DEF OwnFunctors
    <2> QED
      BY <1>1, <2>2, <2>3
  <1>3. ASSUME OwnCloses, NEW t \in OtherThreads
        PROVE  calling[t][1] \notin {"shutdown", "forceClose", "delay"}
    <2>1. calling[t] = <<"none">> \/ Made(calling[t])
      BY DEF MadeInv
    <2> QED
      BY <1>1, <1>3, <2>1
  <1> QED
    BY <1>2, <1>3

(* Without closes from other threads, only reads are misuse. *)
LEMMA MisuseStep ==
  ASSUME OwnCloses, TypeOK, MadeInv, Steps
  PROVE  misuse' = misuse \/ \E f \in {"startRead", "stopRead"} :
                               f \in OtherCalls \cup LoopCalls /\ Reads(f)
PROOF
  <1> USE DEF conn, loop, socket, owner, history
  <1>1. CASE poll \/ HandlingEnds \/ HandlesClose \/ HandlesData \/ HandlesError \/ HandlesWrite
             \/ ReturnsOnly
    BY <1>1, Zenon
    DEF poll, HandlingEnds, HandlesClose, Handles, HandlesData, HandlesError, HandlesWrite,
        ReturnsOnly, Returns
  <1>2. CASE ReturnsClose \/ ReturnsRemove \/ RunsEstablished \/ RunsDestroyed
             \/ RunsDestroyedLive \/ RunsForceClose \/ RunsNothing
    BY <1>2, Zenon
    DEF ReturnsClose, Returns, ReturnsRemove, RunsEstablished, Runs, RunsDestroyed,
        RunsDestroyedLive, RunsForceClose, RunsNothing
  <1>3. CASE RunsSend \/ CallsSend
    BY <1>3, Zenon DEF RunsSend, SendKeeps, CallsSend, InUser
  <1>4. CASE RunsCallback \/ RunsShutdown \/ CallsShutdown \/ CallsForceClose \/ CallsDelay
             \/ DelayCloses \/ DelayLate
    BY <1>4, Zenon
    DEF RunsCallback, Runs, RunsShutdown, CallsShutdown, InUser, CallsForceClose, CallsDelay,
        DelayCloses, Delay, DelayLate
  <1>5. CASE RunsRead
    <2>1. PICK f \in {"startRead", "stopRead"} : Runs(f) /\ Reads(f)
      BY <1>5 DEF RunsRead
    <2>2. f \in OtherCalls
      BY <2>1, MadeCalls
    <2> QED
      BY <2>1, <2>2
  <1>6. CASE CallsRead
    BY <1>6, Zenon DEF CallsRead
  <1>7. ASSUME NEW t \in OtherThreads, Begins(t)
        PROVE  misuse' = misuse
    BY <1>7, Zenon DEF Begins
  <1>8. ASSUME NEW t \in OtherThreads, EndsDelay(t) \/ EndsCall(t)
        PROVE  misuse' = misuse
    <2>1. calling[t][1] \notin {"shutdown", "forceClose", "delay"}
      BY MadeCalls
    <2>2. Ends(t)
      BY <1>8, Zenon DEF EndsDelay, EndsCall
    <2>3. state_' = state_
      BY <2>1, <2>2, Zenon DEF Ends
    <2> QED
      BY <2>2, <2>3, Zenon DEF Ends
  <1>9. CASE removeConnectionInLoop \/ stopServer \/ destructor \/ peerSends \/ peerCloses
             \/ peerResets
    BY <1>9, Zenon
    DEF removeConnectionInLoop, stopServer, destructor, peerSends, peerCloses, peerResets
  <1> QED
    BY <1>1, <1>2, <1>3, <1>4, <1>5, <1>6, <1>7, <1>8, <1>9, Zenon
    DEF Steps, Dispatches, RunsFunctor, Calls

(* sendInLoop() buffers nothing after the half-close. *)
LEMMA SendAfterFin ==
  ASSUME TypeOK, BufferedIsWatched, FinAfterDrain, NEW m \in Messages, NEW fs \in Seq(Functor),
         sendInLoop(m, fs), UNCHANGED fin
  PROVE  FinAfterDrain'
PROOF
  <1>1. \/ UNCHANGED <<outputBuffer_, events_, index_>>
        \/ state_ # "kDisconnected" /\ ~(WritesDirectly /\ WriteFails)
    BY SendEffect, Zenon
  <1>2. ASSUME fin, state_ # "kDisconnected"
        PROVE  WritesDirectly /\ WriteFails
    <2>1. outputBuffer_ = <<>>
      BY <1>2, Zenon DEF FinAfterDrain
    <2>2. ~isWriting(events_)
      BY <1>2, <2>1, Zenon DEF BufferedIsWatched
    <2> QED
      BY <1>2, <2>1, <2>2, Zenon DEF WritesDirectly, WriteFails
  <1> QED
    BY <1>1, <1>2, Zenon DEF FinAfterDrain

(* Without closes from other threads, the half-close waits for the buffer. *)
LEMMA FinStep ==
  ASSUME OwnCloses, TypeOK, MadeInv, BufferedIsWatched, FinAfterDrain, Steps
  PROVE  FinAfterDrain'
PROOF
  <1>a. queue \in Seq(Functor)
    BY DEF TypeOK
  <1> USE DEF conn, loop, socket, owner, history
  <1>1. CASE poll \/ HandlingEnds \/ HandlesData \/ HandlesError \/ ReturnsOnly \/ ReturnsClose
             \/ ReturnsRemove
    BY <1>1, Zenon
    DEF poll, HandlingEnds, HandlesData, HandlesError, ReturnsOnly, Returns, ReturnsClose,
        ReturnsRemove, FinAfterDrain
  <1>2. CASE HandlesClose \/ RunsForceClose
    BY <1>2, Zenon DEF HandlesClose, RunsForceClose, handleClose, FinAfterDrain
  <1>3. CASE HandlesWrite
    <2>1. \/ UNCHANGED fin /\ (outputBuffer_' = <<>> <=> outputBuffer_ = <<>>)
          \/ outputBuffer_' = <<>>
      BY <1>3, WriteEffect, Zenon DEF HandlesWrite
    <2> QED
      BY <2>1, Zenon DEF FinAfterDrain
  <1>4. CASE RunsSend
    <2>1. PICK m \in Messages : sendInLoop(m, Tail(queue))
      BY <1>4, Zenon DEF RunsSend
    <2>2. Tail(queue) \in Seq(Functor)
      BY <1>4, <1>a, QueueTail DEF RunsSend
    <2>3. UNCHANGED fin
      BY <1>4, Zenon DEF RunsSend, SendKeeps
    <2> QED
      BY <2>1, <2>2, <2>3, SendAfterFin, Zenon
  <1>5. CASE RunsEstablished \/ RunsDestroyed \/ RunsDestroyedLive \/ RunsNothing \/ RunsCallback
    BY <1>5, Zenon
    DEF RunsEstablished, connectEstablished, RunsDestroyed, RunsDestroyedLive, RunsNothing,
        RunsCallback, FinAfterDrain
  <1>6. CASE RunsShutdown
    <2>1. "shutdown" \in OtherCalls
      BY <1>6, MadeCalls DEF RunsShutdown
    <2> QED
      BY <2>1 DEF OwnCloses
  <1>7. CASE CallsSend
    <2>1. PICK m \in Messages : sendInLoop(m, queue)
      BY <1>7, Zenon DEF CallsSend
    <2>2. UNCHANGED fin
      BY <1>7, Zenon DEF CallsSend, SendKeeps
    <2> QED
      BY <1>a, <2>1, <2>2, SendAfterFin, Zenon
  <1>8. CASE CallsShutdown
    <2>1. /\ state_ = "kConnected" /\ fin' = (fin \/ ~isWriting(events_))
          /\ UNCHANGED outputBuffer_
      BY <1>8, Zenon DEF CallsShutdown, shutdownInLoop
    <2>2. ~isWriting(events_) => outputBuffer_ = <<>>
      BY <2>1 DEF BufferedIsWatched
    <2> QED
      BY <2>1, <2>2, Zenon DEF FinAfterDrain
  <1>9. CASE RunsRead \/ CallsRead
    BY <1>9, Zenon DEF RunsRead, CallsRead, Reads, FinAfterDrain
  <1>10. CASE CallsForceClose \/ CallsDelay \/ DelayCloses \/ DelayLate
    BY <1>10, Zenon DEF CallsForceClose, CallsDelay, DelayCloses, Delay, DelayLate, FinAfterDrain
  <1>11. ASSUME NEW t \in OtherThreads, Begins(t) \/ EndsDelay(t) \/ EndsCall(t)
         PROVE  FinAfterDrain'
    BY <1>11, Zenon DEF Begins, EndsDelay, EndsCall, Ends, FinAfterDrain
  <1>12. CASE removeConnectionInLoop \/ stopServer \/ destructor \/ peerSends \/ peerCloses
              \/ peerResets
    BY <1>12, Zenon
    DEF removeConnectionInLoop, stopServer, destructor, peerSends, peerCloses, peerResets,
        FinAfterDrain
  <1> QED
    BY <1>1, <1>2, <1>3, <1>4, <1>5, <1>6, <1>7, <1>8, <1>9, <1>10, <1>11, <1>12, Zenon
    DEF Steps, Dispatches, RunsFunctor, Calls

(* When only the loop thread closes the connection, OwnInv holds. *)
LEMMA OwnInvariance ==
  ASSUME OwnCloses
  PROVE  Spec => []OwnInv
PROOF
  <1>1. Init => OwnInv
    BY Zenon DEF Init, OwnInv, FinAfterDrain
  <1>2. ASSUME Inv, OwnInv, [Next]_vars
        PROVE  OwnInv'
    <2>0. /\ TypeOK /\ MadeInv /\ "lateClose" \notin misuse /\ FinAfterDrain
          /\ BufferedIsWatched
      BY <1>2, Zenon DEF Inv, OwnInv, WatchInv
    <2>1. CASE Next
      <3>1. Steps
        BY <2>0, <2>1, NextSteps, Zenon
      <3>2. FinAfterDrain'
        BY <2>0, <3>1, FinStep, Zenon
      <3>3. "lateClose" \notin misuse'
        <4>1. CASE misuse' = misuse
          BY <2>0, <4>1
        <4>2. ASSUME NEW f \in {"startRead", "stopRead"}, Reads(f)
              PROVE  "lateClose" \notin misuse'
          BY <2>0, <4>2, ReadEffect
        <4> QED
          BY <2>0, <3>1, <4>1, <4>2, MisuseStep, Zenon
      <3> QED
        BY <3>2, <3>3 DEF OwnInv
    <2>2. CASE UNCHANGED vars
      BY <2>0, <2>2, Zenon DEF vars, conn, socket, OwnInv, FinAfterDrain
    <2> QED
      BY <1>2, <2>1, <2>2
  <1> QED
    BY <1>1, <1>2, Invariance, PTL DEF Spec

(* Without misuse, NoMisuseInv holds. *)
LEMMA NoMisuseInvariance ==
  ASSUME NoMisuse
  PROVE  Spec => []NoMisuseInv
PROOF
  <1>1. Init => NoMisuseInv
    BY DEF Init, NoMisuseInv
  <1>2. ASSUME TypeOK, NoMisuseInv, Steps
        PROVE  server' # "dead" /\ failed' # "deadServer"
    <2>0. server # "dead" /\ failed # "deadServer"
      BY <1>2 DEF NoMisuseInv
    <2>a. "handleClose" # "deadServer" /\ "removeChannel" # "deadServer"
          /\ "destructor" # "deadServer"
      OBVIOUS
    <2> USE <2>0 DEF conn, loop, socket, owner, history
    <2>1. CASE poll \/ HandlingEnds \/ HandlesData \/ HandlesError \/ HandlesWrite \/ ReturnsOnly
      BY <2>1, Zenon
      DEF poll, HandlingEnds, Handles, HandlesData, HandlesError, HandlesWrite, ReturnsOnly,
          Returns
    <2>2. CASE HandlesClose \/ RunsForceClose
      BY <2>2, <2>a, Zenon DEF HandlesClose, Handles, RunsForceClose, Runs, handleClose
    <2>3. CASE ReturnsClose
      BY <2>3, Zenon DEF ReturnsClose, Returns
    <2>4. CASE ReturnsRemove \/ RunsDestroyed
      BY <2>4, <2>a, Zenon DEF ReturnsRemove, Returns, RunsDestroyed, Runs, removeChannel
    <2>5. CASE RunsSend \/ RunsEstablished \/ RunsDestroyedLive \/ RunsNothing \/ RunsCallback
               \/ RunsShutdown
      BY <2>5, Zenon
      DEF RunsSend, SendKeeps, RunsEstablished, Runs, connectEstablished, RunsDestroyedLive,
          RunsNothing, RunsCallback, RunsShutdown
    <2>6. CASE RunsRead \/ CallsSend \/ CallsShutdown \/ CallsForceClose \/ CallsDelay \/ CallsRead
      BY <2>6, Zenon
      DEF RunsRead, Reads, CallsSend, InUser, CallsShutdown, CallsForceClose, CallsDelay,
          CallsRead
    <2>7. ASSUME NEW t \in OtherThreads, Begins(t) \/ EndsDelay(t) \/ EndsCall(t)
          PROVE  server' # "dead" /\ failed' # "deadServer"
      BY <2>7, Zenon DEF Begins, EndsDelay, EndsCall, Ends
    <2>8. CASE removeConnectionInLoop
      <3>1. server \in {"holds", "released"}
        BY <1>2, <2>0 DEF TypeOK
      <3> QED
        BY <2>8, <3>1 DEF removeConnectionInLoop
    <2>9. CASE stopServer
      BY <2>9 DEF stopServer, NoMisuse
    <2>10. CASE destructor
      BY <2>10, <2>a, Zenon DEF destructor
    <2>11. CASE DelayCloses \/ DelayLate \/ peerSends \/ peerCloses \/ peerResets
      BY <2>11, Zenon DEF DelayCloses, Delay, DelayLate, peerSends, peerCloses, peerResets
    <2> QED
      BY <1>2, <2>1, <2>2, <2>3, <2>4, <2>5, <2>6, <2>7, <2>8, <2>9, <2>10, <2>11, Zenon
      DEF Steps, Dispatches, RunsFunctor, Calls
  <1>3. ASSUME Inv, NoMisuseInv, [Next]_vars
        PROVE  NoMisuseInv'
    <2>0. TypeOK /\ MadeInv /\ OwnCloses /\ misuse = {}
      BY <1>3, Zenon DEF Inv, NoMisuse, NoMisuseInv
    <2>1. CASE Next
      <3>1. Steps
        BY <2>0, <2>1, NextSteps, Zenon
      <3>2. misuse' = misuse
        <4>1. \A f \in {"startRead", "stopRead"} : f \notin OtherCalls \cup LoopCalls
          BY DEF NoMisuse
        <4> QED
          BY <2>0, <3>1, <4>1, MisuseStep, Zenon
      <3> QED
        BY <1>2, <1>3, <2>0, <3>1, <3>2, Zenon DEF NoMisuseInv
    <2>2. CASE UNCHANGED vars
      BY <1>3, <2>2, Zenon DEF vars, owner, NoMisuseInv
    <2> QED
      BY <1>3, <2>1, <2>2
  <1> QED
    BY <1>1, <1>3, Invariance, PTL DEF Spec

(* TcpConnection::sendInLoop, handleWrite: when only the loop thread closes  *)
(* the connection, buffered data never waits unwatched, and an open          *)
(* connection never asks for OUT with nothing to write.                      *)
THEOREM BufferStaysWatched ==
  ASSUME OwnCloses
  PROVE  Spec => []BufferedIsWatched
PROOF
  <1>1. Inv /\ OwnInv => BufferedIsWatched
    BY Zenon DEF Inv, OwnInv, WatchInv
  <1> QED
    BY <1>1, Invariance, OwnInvariance, PTL

(* TcpConnection::shutdownInLoop: when only the loop thread closes the       *)
(* connection, its half-close never cuts off accepted data.                  *)
THEOREM HalfCloseWaits ==
  ASSUME OwnCloses
  PROVE  Spec => []FinAfterDrain
PROOF
  <1>1. OwnInv => FinAfterDrain
    BY DEF OwnInv
  <1> QED
    BY <1>1, OwnInvariance, PTL

(* When other threads only send, reading is left on and the TcpServer is     *)
(* there to the end, no assert ever fails, whatever the callbacks send or    *)
(* close and the peer does.                                                  *)
THEOREM AssertsNeverFail ==
  ASSUME NoMisuse
  PROVE  Spec => []NoAssertFails
PROOF
  <1>1. Inv /\ NoMisuseInv => NoAssertFails
    BY DEF Inv, TypeOK, NoMisuseInv, AssertsFailOnlyAfter, NoAssertFails
  <1> QED
    BY <1>1, Invariance, NoMisuseInvariance, PTL

================================================================================
