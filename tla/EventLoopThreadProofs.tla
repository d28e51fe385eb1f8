------------------------- MODULE EventLoopThreadProofs -------------------------
(***************************************************************************)
(* Proofs about EventLoopThread for any functors, channels and capacity of   *)
(* the eventfd: startLoop() loses no notify and hands out a loop, the owner  *)
(* finds that loop alive until it quits it, and the loop keeps its own       *)
(* invariant until its thread destroys it.                                   *)
(***************************************************************************)
EXTENDS EventLoopThread, EventLoopProofs

(* loop_ is set exactly while threadFunc() is between publishing the loop    *)
(* and leaving it.                                                           *)
PublishedInv == loop_ <=> thread_ \in {"published", "looping"}

(* Until the destructor's quit() has stored quit_, nobody but the loop's own *)
(* code can have asked the loop to quit, so loop() is not left and loop_,    *)
(* once published, is not taken back.                                        *)
NotQuitYet == {"starting", "waiting", "returning", "started", "destroying", "calling"}

StartInv ==
  /\ owner = "new" => thread_ = "unstarted"
  /\ owner = "new" \/ owner \in NotQuitYet => selfQuit \/ ~quit_
  /\ owner \in NotQuitYet /\ ~selfQuit =>
       /\ thread_ \in {"callback", "published", "looping"}
       /\ thread_ = "looping" => pc # "idle"
  /\ owner \in NotQuitYet \ {"starting", "waiting"} /\ ~selfQuit => loop_

(* The EventLoop keeps its invariant while it exists. *)
LoopInv == thread_ # "exited" => Inv

ThreadInv == /\ TypeOKThread /\ NoLostNotify /\ OwnerFindsLoop
             /\ PublishedInv /\ StartInv /\ LoopInv

--------------------------------------------------------------------------------
(* The initial state satisfies the invariant. *)
LEMMA ThreadInit == InitThread => ThreadInv
PROOF
  <1> SUFFICES ASSUME InitThread PROVE ThreadInv
    OBVIOUS
  <1>1. Inv
    BY InvInit DEF InitThread
  <1>2. TypeOKThread
    <2>1. selfQuit \in BOOLEAN /\ loop_ \in BOOLEAN
      BY Zenon DEF InitThread
    <2> QED
      BY <1>1, <2>1 DEF InitThread, TypeOKThread, ThreadStates, OwnerStates, Inv
  <1>3. NoLostNotify /\ OwnerFindsLoop /\ PublishedInv /\ StartInv
    BY DEF InitThread, Init, NoLostNotify, OwnerFindsLoop, PublishedInv, StartInv,
           NotQuitYet
  <1> QED
    BY <1>1, <1>2, <1>3 DEF ThreadInv, LoopInv

(* The owner is a calling thread of the loop. *)
LEMMA OwnerCalls == Owner \in Threads /\ Owner # LoopThread /\ LoopThread \in Threads
  BY OwnerAssumption, LoopThreadAssumption DEF Threads

(* A step of the thread or its owner is a step of the EventLoop, leaves it   *)
(* alone, or touches what is left of it.                                     *)
LEMMA LoopOrDestroyed ==
  ASSUME TypeOK, [ThreadNext]_eltVars
  PROVE  \/ [Next]_vars
         \/ /\ thread_ = "exited" /\ UNCHANGED thread_
            /\ op' = [op EXCEPT ![Owner] = "none"]
            /\ UNCHANGED <<pc, quit_, callingPendingFunctors_, pendingFunctors_, functors,
                           wakeupFd_, activeChannels_, ran, early>>
PROOF
  <1> USE OwnerCalls DEF elVars
  <1>1. CASE startLoop \/ waitForLoop \/ returnLoop \/ destruct \/ destructRead
             \/ destructJoin \/ publish \/ leaveLoop \/ exitThread
    BY <1>1 DEF startLoop, waitForLoop, returnLoop, destruct, destructRead, destructJoin, publish,
                leaveLoop, exitThread
  <1>2. CASE ownerCalls
    BY <1>2 DEF ownerCalls, useDestroyed, Next, Call
  <1>3. CASE destructQuit
    BY <1>3 DEF destructQuit, useDestroyed, Next, Call
  <1>4. CASE destructWakeup
    BY <1>4 DEF destructWakeup, useDestroyed, Next, Call
  <1>5. CASE loopThreadCalls
    BY <1>5 DEF loopThreadCalls, Next, Call
  <1>6. CASE enterLoop \/ loopRuns
    BY <1>6 DEF enterLoop, loopRuns, Next
  <1>7. CASE UNCHANGED eltVars
    BY <1>7 DEF eltVars
  <1> QED
    BY <1>1, <1>2, <1>3, <1>4, <1>5, <1>6, <1>7 DEF ThreadNext

(* Every step keeps the types and, until the end, the EventLoop's invariant. *)
LEMMA ThreadKeepsLoop ==
  ASSUME TypeOK, LoopInv, [ThreadNext]_eltVars, thread_ = "exited" => owner # "new"
  PROVE  TypeOK' /\ LoopInv'
PROOF
  <1>1. ASSUME [Next]_vars
        PROVE  TypeOK' /\ (Inv => Inv')
    BY <1>1, TypeStep, InvStep
  <1>2. owner # "new" /\ thread_ = "exited" => thread_' = "exited"
    BY DEF ThreadNext, startLoop, waitForLoop, returnLoop, destruct, destructRead, destructJoin,
           publish, leaveLoop, exitThread, ownerCalls, destructQuit, destructWakeup, loopThreadCalls,
           enterLoop, loopRuns, eltVars
  <1>3. ASSUME thread_ = "exited", op' = [op EXCEPT ![Owner] = "none"],
               UNCHANGED <<pc, quit_, callingPendingFunctors_, pendingFunctors_, functors,
                           wakeupFd_, activeChannels_, ran, early>>
        PROVE  TypeOK'
    BY <1>3 DEF TypeOK
  <1> QED
    BY <1>1, <1>2, <1>3, LoopOrDestroyed DEF LoopInv

(* Every step keeps the invariant. *)
LEMMA ThreadStep == ThreadInv /\ [ThreadNext]_eltVars => ThreadInv'
PROOF
  <1> SUFFICES ASSUME ThreadInv, [ThreadNext]_eltVars PROVE ThreadInv'
    OBVIOUS
  <1>0. TypeOK' /\ LoopInv'
    BY ThreadKeepsLoop DEF ThreadInv, TypeOKThread, StartInv
  <1> USE <1>0 DEF ThreadInv, TypeOKThread, NoLostNotify, OwnerFindsLoop, PublishedInv, StartInv,
                   NotQuitYet, ThreadStates, OwnerStates, elVars, vars
  <1>1. CASE startLoop
    BY <1>1 DEF startLoop
  <1>2. CASE waitForLoop
    BY <1>2 DEF waitForLoop
  <1>3. CASE returnLoop
    BY <1>3 DEF returnLoop
  <1>4. CASE ownerCalls
    <2>1. UNCHANGED <<quit_, pc>>
      BY <1>4 DEF ownerCalls, useDestroyed, queueInLoop, runInLoop, finishCall
    <2> QED
      BY <1>4, <2>1 DEF ownerCalls, useDestroyed
  <1>5. CASE destruct
    BY <1>5 DEF destruct
  <1>6. CASE destructRead
    BY <1>6 DEF destructRead
  <1>7. CASE destructQuit
    BY <1>7 DEF destructQuit, useDestroyed
  <1>8. CASE destructWakeup
    BY <1>8 DEF destructWakeup, useDestroyed
  <1>9. CASE destructJoin
    BY <1>9 DEF destructJoin
  <1>10. CASE loopThreadCalls
    BY <1>10 DEF loopThreadCalls, queueInLoop, runInLoop, quit, finishCall
  <1>11. CASE publish
    BY <1>11 DEF publish
  <1>12. CASE enterLoop
    BY <1>12 DEF enterLoop, loopBegin
  <1>13. CASE loopRuns
    <2>1. UNCHANGED quit_
      BY <1>13 DEF loopRuns, Loop, loopTest, poll, pollTimeout, handleRead, handleEvent,
                   callbackReturns, doPendingFunctors, runFunctor, functorReturns, functorsDone
    <2>2. pc # "idle" /\ ~quit_ => pc' # "idle"
      BY <1>13 DEF loopRuns, Loop, loopTest, poll, pollTimeout, handleRead, handleEvent,
                   callbackReturns, doPendingFunctors, runFunctor, functorReturns, functorsDone
    <2> QED
      BY <1>13, <2>1, <2>2 DEF loopRuns
  <1>14. CASE leaveLoop
    BY <1>14 DEF leaveLoop
  <1>15. CASE exitThread
    BY <1>15 DEF exitThread
  <1>16. CASE UNCHANGED eltVars
    BY <1>16 DEF eltVars
  <1> QED
    BY <1>1, <1>2, <1>3, <1>4, <1>5, <1>6, <1>7, <1>8, <1>9, <1>10, <1>11, <1>12, <1>13,
       <1>14, <1>15, <1>16 DEF ThreadNext

(* The invariant holds in every state. *)
LEMMA ThreadInvariance == ThreadSpec => []ThreadInv
  BY ThreadInit, ThreadStep, PTL DEF ThreadSpec

--------------------------------------------------------------------------------
(* TypeOKThread: the states of threadFunc() and of its owner. *)
THEOREM ThreadTypeCorrect == ThreadSpec => []TypeOKThread
PROOF
  <1>1. ThreadInv => TypeOKThread
    BY DEF ThreadInv
  <1> QED
    BY <1>1, ThreadInvariance, PTL

(* startLoop() and threadFunc(): the owner never waits for a loop that was   *)
(* published, whoever came first to mutex_.                                  *)
THEOREM NotifyNeverLost == ThreadSpec => []NoLostNotify
PROOF
  <1>1. ThreadInv => NoLostNotify
    BY DEF ThreadInv
  <1> QED
    BY <1>1, ThreadInvariance, PTL

(* startLoop() reads loop_ after it has released mutex_ and the destructor   *)
(* reads it twice without it; even so, unless code in the loop thread calls  *)
(* quit(), startLoop() never returns NULL and the owner never calls into     *)
(* NULL or a destroyed EventLoop.                                            *)
THEOREM OwnerNeverMissesLoop == ThreadSpec => []OwnerFindsLoop
PROOF
  <1>1. ThreadInv => OwnerFindsLoop
    BY DEF ThreadInv
  <1> QED
    BY <1>1, ThreadInvariance, PTL

(* queueInLoop() and quit() of a loop that runs in an EventLoopThread: until *)
(* the thread destroys the loop, neither a functor nor a quit() is slept     *)
(* through, wherever the owner is in startLoop() and ~EventLoopThread().     *)
THEOREM ThreadKeepsWakeups ==
  ThreadSpec => [](thread_ # "exited" => NoLostWakeup /\ NoSleepThroughQuit)
PROOF
  <1>1. Inv => NoLostWakeup /\ NoSleepThroughQuit
    BY DEF Inv, LoopThreadInv, WakeupInv, NoLostWakeup, Threads
  <1>2. ThreadInv => (thread_ # "exited" => NoLostWakeup /\ NoSleepThroughQuit)
    BY <1>1 DEF ThreadInv, LoopInv
  <1> QED
    BY <1>2, ThreadInvariance, PTL

================================================================================
