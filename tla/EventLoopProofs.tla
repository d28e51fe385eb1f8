---------------------------- MODULE EventLoopProofs ----------------------------
(***************************************************************************)
(* Proofs about EventLoop for any number of functors, calling threads and   *)
(* channels and any capacity of the eventfd: type correctness, no lost      *)
(* wakeup, no quit slept through, and the implementation of TaskExecutor.    *)
(***************************************************************************)
EXTENDS EventLoop, SequenceTheorems, TLAPS

(* What the loop thread owes and what its flag says, by its place in loop(). *)
LoopThreadInv ==
  /\ callingPendingFunctors_ <=> pc \in {"functors", "functor"}
  /\ op[LoopThread] # "none" => pc = "functor" /\ op[LoopThread] = "queueing"

(* NoLostWakeup, carried around the loop: outside the handlers (which        *)
(* doPendingFunctors() always follows) a functor that is owed a wakeup has   *)
(* it, or the thread that queued it is about to write the eventfd.           *)
WakeupInv ==
  pc \notin {"events", "callback"} /\ Urgent # {} =>
    wakeupFd_ > 0 \/ \E t \in Threads : op[t] = "queueing"

(* The local batch of doPendingFunctors() is empty outside it. *)
BatchInv == pc \notin {"functors", "functor"} => functors = <<>>

Inv == /\ TypeOK
       /\ LoopThreadInv
       /\ WakeupInv
       /\ NoSleepThroughQuit
       /\ BatchInv

--------------------------------------------------------------------------------
(* Facts about sequences. *)

(* The first of a concatenation is the first of its first part. *)
LEMMA HeadOfConcat ==
  ASSUME NEW S, NEW s \in Seq(S), NEW t \in Seq(S), s # <<>>
  PROVE  /\ s \o t # <<>>
         /\ Head(s \o t) = Head(s)
         /\ Tail(s \o t) = Tail(s) \o t
<1>1. /\ s \o t \in Seq(S)
      /\ Len(s \o t) = Len(s) + Len(t)
      /\ \A i \in 1 .. Len(s) + Len(t) : (s \o t)[i] =
                     IF i <= Len(s) THEN s[i] ELSE t[i - Len(s)]
  BY ConcatProperties
<1>2. /\ Len(s) \in Nat \ {0}
      /\ Len(t) \in Nat
  BY EmptySeq, LenProperties
<1>3. s \o t # <<>>
  BY <1>1, <1>2, EmptySeq
<1>4. Head(s \o t) = Head(s)
  BY <1>1, <1>2, <1>3
<1>5. /\ Tail(s) \in Seq(S)
      /\ Len(Tail(s)) = Len(s) - 1
      /\ \A i \in 1 .. Len(Tail(s)) : Tail(s)[i] = s[i + 1]
  BY HeadTailProperties
<1>6. /\ Tail(s \o t) \in Seq(S)
      /\ Len(Tail(s \o t)) = Len(s) + Len(t) - 1
      /\ \A i \in 1 .. Len(Tail(s \o t)) : Tail(s \o t)[i] = (s \o t)[i + 1]
  BY <1>1, <1>3, HeadTailProperties
<1>7. /\ Tail(s) \o t \in Seq(S)
      /\ Len(Tail(s) \o t) = Len(s) - 1 + Len(t)
      /\ \A i \in 1 .. Len(s) - 1 + Len(t) : (Tail(s) \o t)[i] =
                     IF i <= Len(s) - 1 THEN Tail(s)[i] ELSE t[i - (Len(s) - 1)]
  BY <1>5, ConcatProperties
<1>8. Tail(s \o t) = Tail(s) \o t
  <2>1. \A i \in 1 .. Len(Tail(s \o t)) : Tail(s \o t)[i] = (Tail(s) \o t)[i]
    BY <1>1, <1>2, <1>5, <1>6, <1>7
  <2>2. Len(Tail(s \o t)) = Len(Tail(s) \o t)
    BY <1>2, <1>6, <1>7
  <2> QED
    BY <1>6, <1>7, <2>1, <2>2, SeqEqual
<1> QED
  BY <1>3, <1>4, <1>8

(* Appending to the second part appends to the concatenation. *)
LEMMA AppendToConcat ==
  ASSUME NEW S, NEW s \in Seq(S), NEW t \in Seq(S), NEW e \in S
  PROVE  s \o Append(t, e) = Append(s \o t, e)
<1>1. /\ Append(t, e) = t \o <<e>>
      /\ <<e>> \in Seq(S)
      /\ s \o t \in Seq(S)
  BY AppendIsConcat, ConcatProperties
<1>2. Append(s \o t, e) = (s \o t) \o <<e>>
  BY <1>1, AppendIsConcat
<1> QED
  BY <1>1, <1>2, ConcatAssociative

(* Appending adds one element to the range. *)
LEMMA RangeOfAppend ==
  ASSUME NEW S, NEW s \in Seq(S), NEW e \in S
  PROVE  Range(Append(s, e)) = Range(s) \cup {e}
<1>1. /\ Append(s, e) = s \o <<e>>
      /\ <<e>> \in Seq(S)
  BY AppendIsConcat
<1>2. Range(<<e>>) = {e}
  <2>1. DOMAIN <<e>> = {1} /\ <<e>>[1] = e
    OBVIOUS
  <2> QED
    BY <2>1 DEF Range
<1>3. Range(s \o <<e>>) = Range(s) \cup Range(<<e>>)
  BY <1>1, RangeConcatenation
<1> QED
  BY <1>1, <1>2, <1>3

--------------------------------------------------------------------------------
(* Every step keeps the types. *)
LEMMA TypeStep == TypeOK /\ [Next]_vars => TypeOK'
<1> SUFFICES ASSUME TypeOK, [Next]_vars
             PROVE  TypeOK'
  OBVIOUS
<1> USE EventfdMaxAssumption DEF TypeOK, PCs, Threads
<1>1. CASE loopBegin
  BY <1>1 DEF loopBegin
<1>2. CASE Loop
  <2>1. CASE loopTest BY <2>1 DEF loopTest
  <2>2. CASE poll BY <2>2 DEF poll
  <2>3. CASE pollTimeout BY <2>3 DEF pollTimeout
  <2>4. CASE handleRead BY <2>4 DEF handleRead
  <2>5. CASE handleEvent BY <2>5 DEF handleEvent
  <2>6. CASE callbackReturns BY <2>6 DEF callbackReturns
  <2>7. CASE doPendingFunctors BY <2>7 DEF doPendingFunctors
  <2>8. CASE runFunctor
    <3>1. /\ Head(functors) \in Functors
          /\ Tail(functors) \in Seq(Functors)
      BY <2>8, HeadTailProperties DEF runFunctor
    <3> QED
      BY <2>8, <3>1 DEF runFunctor
  <2>9. CASE functorReturns BY <2>9 DEF functorReturns
  <2>10. CASE functorsDone BY <2>10 DEF functorsDone
  <2> QED
    BY <1>2, <2>1, <2>2, <2>3, <2>4, <2>5, <2>6, <2>7, <2>8, <2>9, <2>10
    DEF Loop
<1>3. ASSUME NEW t \in Threads, Call(t)
      PROVE  TypeOK'
  <2>1. ASSUME NEW f \in Functors, queueInLoop(t, f)
        PROVE  TypeOK'
    BY <2>1 DEF queueInLoop
  <2>2. ASSUME NEW f \in Functors, runInLoop(t, f)
        PROVE  TypeOK'
    <3>1. CASE t # LoopThread /\ queueInLoop(t, f)
      BY <2>1, <3>1
    <3>2. CASE t = LoopThread
      <4>1. /\ ran' = Append(ran, f)
            /\ UNCHANGED <<pc, quit_, callingPendingFunctors_, pendingFunctors_,
                           functors, wakeupFd_, activeChannels_, op, early>>
        BY <2>2, <3>2 DEF runInLoop
      <4>2. ran' \in Seq(Functors)
        BY <4>1
      <4> QED
        BY <4>1, <4>2
    <3> QED
      BY <2>2, <3>1, <3>2 DEF runInLoop
  <2>3. CASE quit(t)
    BY <2>3 DEF quit
  <2>4. CASE finishCall(t)
    BY <2>4 DEF finishCall, wakeup
  <2> QED
    BY <1>3, <2>1, <2>2, <2>3, <2>4 DEF Call
<1>4. CASE UNCHANGED vars
  BY <1>4 DEF vars
<1> QED
  BY <1>1, <1>2, <1>3, <1>4 DEF Next

(* The initial state has the right types. *)
LEMMA TypeInit == Init => TypeOK
<1> SUFFICES ASSUME Init
             PROVE  TypeOK
  OBVIOUS
<1>1. wakeupFd_ \in 0 .. EventfdMax
  BY EventfdMaxAssumption DEF Init
<1>2. /\ pendingFunctors_ \in Seq(Functors)
      /\ functors \in Seq(Functors)
      /\ ran \in Seq(Functors)
  BY DEF Init
<1>3. op \in [Threads -> {"none", "queueing", "quitting"}]
  BY DEF Init
<1> QED
  BY <1>1, <1>2, <1>3 DEF Init, TypeOK, PCs

(* EventLoop's variables keep their types, whatever the constants. *)
THEOREM TypeCorrect == Spec => []TypeOK
  BY TypeInit, TypeStep, PTL DEF Spec

--------------------------------------------------------------------------------
(* The inductive step, without the types: an iteration of the loop, the      *)
(* batch and the wakeups that are owed.                                      *)
LEMMA LoopStep == Inv /\ (loopBegin \/ Loop) => Inv'
<1> SUFFICES ASSUME Inv, loopBegin \/ Loop
             PROVE  Inv'
  OBVIOUS
<1>1. TypeOK'
  BY TypeStep DEF Next, Inv
<1> USE <1>1 DEF Inv, LoopThreadInv, WakeupInv, NoSleepThroughQuit, BatchInv,
                 Urgent
<1>2. CASE loopBegin BY <1>2 DEF loopBegin
<1>3. CASE loopTest BY <1>3 DEF loopTest
<1>4. CASE poll BY <1>4 DEF poll
<1>5. CASE pollTimeout BY <1>5 DEF pollTimeout
<1>6. CASE handleRead BY <1>6 DEF handleRead
<1>7. CASE handleEvent BY <1>7 DEF handleEvent
<1>8. CASE callbackReturns BY <1>8 DEF callbackReturns
<1>9. CASE doPendingFunctors
  <2>1. Range(pendingFunctors_') = {}
    BY <1>9 DEF doPendingFunctors, Range
  <2> QED
    BY <1>9, <2>1 DEF doPendingFunctors
<1>10. CASE runFunctor BY <1>10 DEF runFunctor
<1>11. CASE functorReturns BY <1>11 DEF functorReturns
<1>12. CASE functorsDone BY <1>12 DEF functorsDone
<1> QED
  BY <1>2, <1>3, <1>4, <1>5, <1>6, <1>7, <1>8, <1>9, <1>10, <1>11, <1>12
  DEF Loop

(* The inductive step of the calls of the threads. *)
LEMMA CallStep ==
  ASSUME NEW t \in Threads, Inv, Call(t)
  PROVE  Inv'
<1>1. TypeOK'
  BY TypeStep DEF Next, Inv
<1>2. ASSUME NEW f \in Functors, queueInLoop(t, f)
      PROVE  Inv'
  <2>1. LoopThreadInv'
    BY <1>2 DEF Inv, TypeOK, LoopThreadInv, queueInLoop, InUserCode, NeedsWakeup,
                Threads
  <2>2. WakeupInv'
    <3>1. CASE NeedsWakeup(t)
      <4>1. op'[t] = "queueing"
        BY <1>2, <3>1 DEF Inv, TypeOK, queueInLoop
      <4> QED
        BY <4>1 DEF WakeupInv
    <3>2. CASE ~NeedsWakeup(t) /\ pc = "idle"
      <4>1. /\ Range(pendingFunctors_') = Range(pendingFunctors_) \cup {f}
            /\ early' = early \cup {f}
        BY <1>2, <3>2, RangeOfAppend DEF Inv, TypeOK, queueInLoop, NeedsWakeup
      <4>2. op' = op
        BY <1>2, <3>2 DEF Inv, TypeOK, queueInLoop, InUserCode
      <4>3. Urgent' = Urgent \ {f}
        BY <4>1 DEF Urgent
      <4> QED
        BY <1>2, <4>2, <4>3 DEF Inv, WakeupInv, queueInLoop
    <3>3. CASE ~NeedsWakeup(t) /\ pc = "callback"
      BY <1>2, <3>3 DEF queueInLoop, WakeupInv
    <3> QED
      BY <1>2, <3>1, <3>2, <3>3
      DEF Inv, LoopThreadInv, queueInLoop, InUserCode, NeedsWakeup
  <2>3. NoSleepThroughQuit'
    BY <1>2 DEF Inv, TypeOK, NoSleepThroughQuit, queueInLoop, InUserCode, Threads
  <2>4. BatchInv'
    BY <1>2 DEF Inv, BatchInv, queueInLoop
  <2> QED
    BY <1>1, <2>1, <2>2, <2>3, <2>4 DEF Inv
<1>3. ASSUME NEW f \in Functors, runInLoop(t, f)
      PROVE  Inv'
  <2>1. CASE t # LoopThread /\ queueInLoop(t, f)
    BY <1>2, <2>1
  <2>2. CASE t = LoopThread
    BY <1>1, <1>3, <2>2 DEF Inv, LoopThreadInv, WakeupInv, NoSleepThroughQuit,
                            BatchInv, Urgent, runInLoop
  <2> QED
    BY <1>3, <2>1, <2>2 DEF runInLoop
<1>4. CASE quit(t)
  <2>1. LoopThreadInv' /\ BatchInv'
    BY <1>4 DEF Inv, TypeOK, LoopThreadInv, BatchInv, quit, QuitNeedsWakeup,
                InUserCode, Threads
  <2>2. WakeupInv'
    BY <1>4 DEF Inv, TypeOK, WakeupInv, Urgent, quit, InUserCode, Threads
  <2>3. NoSleepThroughQuit'
    BY <1>4, LoopThreadAssumption
    DEF Inv, TypeOK, NoSleepThroughQuit, quit, QuitNeedsWakeup, InUserCode,
        Threads
  <2> QED
    BY <1>1, <2>1, <2>2, <2>3 DEF Inv
<1>5. CASE finishCall(t)
  <2>1. wakeupFd_' > 0
    BY <1>5, EventfdMaxAssumption DEF Inv, TypeOK, finishCall, wakeup
  <2>2. LoopThreadInv' /\ BatchInv'
    BY <1>5 DEF Inv, TypeOK, LoopThreadInv, BatchInv, finishCall, Threads
  <2> QED
    BY <1>1, <2>1, <2>2 DEF Inv, WakeupInv, NoSleepThroughQuit
<1> QED
  BY <1>2, <1>3, <1>4, <1>5 DEF Call

(* The initial state satisfies the invariant. *)
LEMMA InvInit == Init => Inv
<1>1. Init => TypeOK
  BY TypeInit
<1>2. Init => Urgent = {}
  BY DEF Init, Urgent, Range
<1>3. LoopThread \in Threads
  BY DEF Threads
<1> QED
  BY <1>1, <1>2, <1>3
  DEF Init, Inv, LoopThreadInv, WakeupInv, NoSleepThroughQuit, BatchInv

(* Every step keeps the invariant. *)
LEMMA InvStep == Inv /\ [Next]_vars => Inv'
<1>1. Inv /\ UNCHANGED vars => Inv'
  BY DEF Inv, TypeOK, LoopThreadInv, WakeupInv, NoSleepThroughQuit, BatchInv,
         Urgent, vars
<1> QED
  BY <1>1, LoopStep, CallStep DEF Next

(* Inv holds in every state of every run. *)
LEMMA Invariance == Spec => []Inv
  BY InvInit, InvStep, PTL DEF Spec

(* EventLoop::queueInLoop: the loop thread never sleeps in poll over a       *)
(* functor that is owed a wakeup, however many threads queue and whatever    *)
(* they interleave with.                                                     *)
THEOREM WakeupNeverLost == Spec => []NoLostWakeup
<1>1. Inv => NoLostWakeup
  BY DEF Inv, LoopThreadInv, WakeupInv, NoLostWakeup, Threads
<1> QED
  BY <1>1, Invariance, PTL

(* EventLoop::quit: the loop thread never sleeps in poll through a quit().   *)
THEOREM QuitNeverSleptThrough == Spec => []NoSleepThroughQuit
<1>1. Inv => NoSleepThroughQuit
  BY DEF Inv
<1> QED
  BY <1>1, Invariance, PTL

--------------------------------------------------------------------------------
(* A functor that is Fresh for the loop is new to the executor. *)
LEMMA FreshIsNew ==
  ASSUME TypeOK, NEW f \in Functors, Fresh(f)
  PROVE  f \in Functors \ TE!Accepted
<1>1. Range(functors \o pendingFunctors_)
        = Range(functors) \cup Range(pendingFunctors_)
  BY RangeConcatenation DEF TypeOK
<1>2. TE!Accepted = Range(functors \o pendingFunctors_) \cup Range(ran)
  BY DEF TE!Accepted, TE!Range, Range
<1> QED
  BY <1>1, <1>2 DEF Fresh

(* Every step of the loop is a step of the executor or changes nothing of it. *)
LEMMA RefinementStep == Inv /\ [Next]_vars => [TE!Next]_(TE!vars)
<1> SUFFICES ASSUME Inv, [Next]_vars
             PROVE  [TE!Next]_(TE!vars)
  OBVIOUS
<1> DEFINE queue == functors \o pendingFunctors_
<1>1. CASE loopBegin
  <2>1. TE!Switch
    BY <1>1 DEF loopBegin, TE!Switch
  <2> QED
    BY <2>1 DEF TE!Next
<1>2. CASE loopTest
  <2>1. CASE quit_
    <3>1. TE!Switch
      BY <1>2, <2>1 DEF loopTest, TE!Switch
    <3> QED
      BY <3>1 DEF TE!Next
  <2>2. CASE ~quit_
    BY <1>2, <2>2 DEF loopTest, TE!vars
  <2> QED
    BY <2>1, <2>2
<1>3. CASE \/ poll \/ pollTimeout \/ handleRead \/ handleEvent
           \/ callbackReturns \/ functorReturns \/ functorsDone
  BY <1>3 DEF poll, pollTimeout, handleRead, handleEvent, callbackReturns,
              functorReturns, functorsDone, TE!vars
<1>4. CASE doPendingFunctors
  <2>1. functors = <<>>
    BY <1>4 DEF Inv, BatchInv, doPendingFunctors
  <2>2. queue' = queue
    BY <1>4, <2>1, ConcatEmptySeq DEF doPendingFunctors, Inv, TypeOK
  <2> QED
    BY <1>4, <2>2 DEF doPendingFunctors, TE!vars
<1>5. CASE runFunctor
  <2>1. /\ queue # <<>>
        /\ Head(queue) = Head(functors)
        /\ Tail(queue) = Tail(functors) \o pendingFunctors_
    BY <1>5, HeadOfConcat DEF runFunctor, Inv, TypeOK
  <2>2. TE!RunNext
    BY <1>5, <2>1 DEF runFunctor, TE!RunNext
  <2> QED
    BY <2>2 DEF TE!Next
<1>6. ASSUME NEW t \in Threads, Call(t)
      PROVE  [TE!Next]_(TE!vars)
  <2>1. ASSUME NEW f \in Functors, queueInLoop(t, f)
        PROVE  TE!Post(f)
    <3>1. queue' = Append(queue, f)
      BY <2>1, AppendToConcat DEF queueInLoop, Inv, TypeOK
    <3>2. f \in Functors \ TE!Accepted
      BY <2>1, FreshIsNew DEF queueInLoop, Inv
    <3> QED
      BY <2>1, <3>1, <3>2 DEF queueInLoop, TE!Post
  <2>2. ASSUME NEW f \in Functors, runInLoop(t, f)
        PROVE  TE!Post(f) \/ TE!RunNow(f)
    <3>1. CASE t # LoopThread /\ queueInLoop(t, f)
      BY <2>1, <3>1
    <3>2. CASE t = LoopThread
      <4>1. f \in Functors \ TE!Accepted
        BY <2>2, <3>2, FreshIsNew DEF runInLoop, Inv
      <4> QED
        BY <2>2, <3>2, <4>1 DEF runInLoop, TE!RunNow
    <3> QED
      BY <2>2, <3>1, <3>2 DEF runInLoop
  <2>3. CASE quit(t) \/ finishCall(t)
    BY <2>3 DEF quit, finishCall, TE!vars
  <2> QED
    BY <1>6, <2>1, <2>2, <2>3 DEF Call, TE!Next
<1>7. CASE UNCHANGED vars
  BY <1>7 DEF vars, TE!vars
<1> QED
  BY <1>1, <1>2, <1>3, <1>4, <1>5, <1>6, <1>7 DEF Next, Loop

(* EventLoop::doPendingFunctors, queueInLoop, runInLoop: for any threads and *)
(* any functors, each functor runs at most once, in the order in which it    *)
(* was queued; the loop implements TaskExecutor.                              *)
THEOREM LoopImplementsTaskExecutor == Spec => ImplementsTaskExecutor
<1>1. Init => TE!Init
  BY ConcatEmptySeq, EmptySeq DEF Init, TE!Init
<1> QED
  BY <1>1, RefinementStep, Invariance, PTL
  DEF Spec, ImplementsTaskExecutor, TE!Spec

================================================================================
