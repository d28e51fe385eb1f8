---------------------------- MODULE EventLoopThread ----------------------------
(***************************************************************************)
(* EventLoopThread: an owner object whose thread runs one EventLoop.        *)
(* startLoop() starts the thread and waits for it to publish its loop;      *)
(* the destructor quits the loop and joins the thread.  Composes EventLoop: *)
(* the thread of threadFunc() is LoopThread, the owner is the only caller.  *)
(***************************************************************************)
EXTENDS EventLoop

CONSTANT Owner   \* the thread that creates, starts and destroys the object

ASSUME OwnerAssumption == Callers = {Owner}

VARIABLES
  loop_,    \* is EventLoopThread::loop_ non-NULL?
  thread_,  \* where threadFunc() is
  owner,    \* where the owner is in startLoop() and ~EventLoopThread()
  started,  \* what startLoop() returned
  selfQuit  \* does the program let code in the loop thread call quit()?

elVars == vars
eltVars == <<vars, loop_, thread_, owner, started, selfQuit>>

(* callback: the EventLoop exists and callback_ runs; published: loop_ is    *)
(* set, loop() not entered; looping: in loop(); left: loop_ is NULL again;   *)
(* exited: the stack EventLoop is destroyed and the thread over.             *)
ThreadStates == {"unstarted", "callback", "published", "looping", "left", "exited"}

(* starting: about to lock mutex_; waiting: in cond_.wait(); returning: past *)
(* the wait, loop_ not read yet; destroying: loop_ was seen non-NULL;        *)
(* calling: it was read again for the call, quit() has stored nothing yet;   *)
(* quitting: quit_ is set, wakeup() not called; joining: in join(); badCall: *)
(* a call through NULL or on a destroyed EventLoop; badWakeup: the EventLoop *)
(* was destroyed inside quit(), before its wakeup().                         *)
OwnerStates == {"new", "starting", "waiting", "returning", "started", "destroying",
                "calling", "quitting", "joining", "done", "badCall", "badWakeup"}

TypeOKThread ==
  /\ TypeOK
  /\ loop_ \in BOOLEAN
  /\ thread_ \in ThreadStates
  /\ owner \in OwnerStates
  /\ started \in {"none", "loop", "NULL"}
  /\ selfQuit \in BOOLEAN

InitThread ==
  /\ Init
  /\ loop_ = FALSE
  /\ thread_ = "unstarted"
  /\ owner = "new"
  /\ started = "none"
  /\ selfQuit \in BOOLEAN

--------------------------------------------------------------------------------
(* The owner. *)

(* startLoop(): thread_.start() *)
startLoop ==
  /\ owner = "new"
  /\ owner' = "starting"
  /\ thread_' = "callback"
  /\ UNCHANGED <<elVars, loop_, started, selfQuit>>

(* Mutant: `if (loop_ == NULL) cond_.wait()' instead of `while'. *)
Mutant_waitForLoop ==
  /\ \/ owner = "starting" /\ owner' = IF loop_ THEN "returning" ELSE "waiting"
     \/ owner = "waiting" /\ owner' = "returning"
  /\ UNCHANGED <<elVars, loop_, thread_, started, selfQuit>>

(* while (loop_ == NULL) cond_.wait(), under mutex_; a wait may also end     *)
(* without a notify, which only evaluates the condition again.               *)
waitForLoop ==
  /\ \/ owner = "starting" /\ owner' = IF loop_ THEN "returning" ELSE "waiting"
     \/ owner = "waiting" /\ owner' = "starting"
  /\ UNCHANGED <<elVars, loop_, thread_, started, selfQuit>>

(* return loop_, after mutex_ is released *)
returnLoop ==
  /\ owner = "returning"
  /\ owner' = "started"
  /\ started' = IF loop_ THEN "loop" ELSE "NULL"
  /\ UNCHANGED <<elVars, loop_, thread_, selfQuit>>

(* ~EventLoopThread() reads loop_ without a lock; it neither quits nor joins *)
(* when it is NULL.                                                          *)
destruct ==
  /\ owner \in {"new", "started"}
  /\ op[Owner] = "none"
  /\ owner' = IF loop_ THEN "destroying" ELSE "done"
  /\ UNCHANGED <<elVars, loop_, thread_, started, selfQuit>>

(* Touching an EventLoop that its thread has destroyed: nothing comes of it, *)
(* or anything does.                                                         *)
useDestroyed(next, bad) ==
  /\ thread_ = "exited"
  /\ owner' \in {next, bad}
  /\ op' = [op EXCEPT ![Owner] = "none"]
  /\ UNCHANGED <<pc, quit_, callingPendingFunctors_, pendingFunctors_, functors,
                 wakeupFd_, activeChannels_, ran, early>>

(* loop_->quit() reads loop_ again, still without a lock: threadFunc() may   *)
(* have set it to NULL since the test.  (A build that keeps the value of the *)
(* first read makes both reads at one moment.)                               *)
destructRead ==
  /\ owner = "destroying"
  /\ owner' = IF loop_ THEN "calling" ELSE "badCall"
  /\ UNCHANGED <<elVars, loop_, thread_, started, selfQuit>>

(* quit() itself, its store and then its wakeup() *)
destructQuit ==
  /\ owner = "calling"
  /\ \/ thread_ # "exited" /\ quit(Owner) /\ owner' = "quitting"
     \/ useDestroyed("joining", "badCall")
  /\ UNCHANGED <<loop_, thread_, started, selfQuit>>

destructWakeup ==
  /\ owner = "quitting"
  /\ \/ thread_ # "exited" /\ finishCall(Owner) /\ owner' = "joining"
     \/ useDestroyed("joining", "badWakeup")
  /\ UNCHANGED <<loop_, thread_, started, selfQuit>>

(* thread_.join() *)
destructJoin ==
  /\ owner = "joining"
  /\ thread_ = "exited"
  /\ owner' = "done"
  /\ UNCHANGED <<elVars, loop_, thread_, started, selfQuit>>

(* Between the two the owner gives work to the loop it was handed. *)
ownerCalls ==
  /\ owner = "started" /\ started = "loop"
  /\ \/ /\ thread_ # "exited"
        /\ \/ \E f \in Functors : queueInLoop(Owner, f) \/ runInLoop(Owner, f)
           \/ finishCall(Owner)
        /\ UNCHANGED owner
     \/ useDestroyed("started", "badCall")
  /\ UNCHANGED <<loop_, thread_, started, selfQuit>>

--------------------------------------------------------------------------------
(* The thread: threadFunc(). *)

(* User code in the loop thread: callback_ and, later, callbacks and         *)
(* functors of the loop.                                                     *)
loopThreadCalls ==
  /\ thread_ \in {"callback", "looping"}
  /\ thread_ = "looping" => pc # "idle"
  /\ \/ \E f \in Functors : queueInLoop(LoopThread, f) \/ runInLoop(LoopThread, f)
     \/ selfQuit /\ quit(LoopThread)
     \/ finishCall(LoopThread)
  /\ UNCHANGED <<loop_, thread_, owner, started, selfQuit>>

(* Mutant: the publication is not notified. *)
Mutant_publish ==
  /\ thread_ = "callback"
  /\ thread_' = "published"
  /\ loop_' = TRUE
  /\ UNCHANGED <<elVars, owner, started, selfQuit>>

(* loop_ = &loop; cond_.notify(), under mutex_ *)
publish ==
  /\ thread_ = "callback"
  /\ thread_' = "published"
  /\ loop_' = TRUE
  /\ owner' = IF owner = "waiting" THEN "starting" ELSE owner
  /\ UNCHANGED <<elVars, started, selfQuit>>

(* loop.loop() *)
enterLoop ==
  /\ thread_ = "published"
  /\ loopBegin
  /\ thread_' = "looping"
  /\ UNCHANGED <<loop_, owner, started, selfQuit>>

loopRuns ==
  /\ thread_ = "looping"
  /\ Loop
  /\ UNCHANGED <<loop_, thread_, owner, started, selfQuit>>

(* loop_ = NULL, without the lock and without a notify *)
leaveLoop ==
  /\ thread_ = "looping" /\ pc = "idle"
  /\ thread_' = "left"
  /\ loop_' = FALSE
  /\ UNCHANGED <<elVars, owner, started, selfQuit>>

(* the stack EventLoop is destroyed and the thread ends *)
exitThread ==
  /\ thread_ = "left"
  /\ thread_' = "exited"
  /\ UNCHANGED <<elVars, loop_, owner, started, selfQuit>>

--------------------------------------------------------------------------------
ThreadNext ==
  \/ startLoop \/ waitForLoop \/ returnLoop \/ ownerCalls
  \/ destruct \/ destructRead \/ destructQuit \/ destructWakeup \/ destructJoin
  \/ loopThreadCalls \/ publish \/ enterLoop \/ loopRuns \/ leaveLoop
  \/ exitThread

ThreadSpec == InitThread /\ [][ThreadNext]_eltVars

(* Both threads are scheduled, callback_ and the callbacks return, a blocked *)
(* wait ends only when notified, and poll returns when the eventfd is        *)
(* readable or its timeout passes.  The owner need not destroy the object.   *)
ThreadFairness ==
  /\ WF_eltVars(owner = "starting" /\ waitForLoop)
  /\ WF_eltVars(returnLoop)
  /\ WF_eltVars(destructRead \/ destructQuit \/ destructWakeup \/ destructJoin)
  /\ WF_eltVars(ownerCalls /\ op[Owner] # "none")
  /\ WF_eltVars(finishCall(LoopThread) /\ loopThreadCalls)
  /\ WF_eltVars(publish \/ enterLoop \/ leaveLoop \/ exitThread)
  /\ WF_eltVars(loopRuns)

FairThreadSpec == ThreadSpec /\ ThreadFairness

--------------------------------------------------------------------------------
(* Properties. *)

(* EventLoopThread::startLoop and threadFunc: the owner is never left in     *)
(* cond_.wait() after the loop was published, whoever came first to mutex_.  *)
NoLostNotify == owner = "waiting" => ~loop_

(* EventLoopThread::startLoop and ~EventLoopThread read loop_ without the    *)
(* mutex, the destructor twice.  Unless code in the loop thread calls        *)
(* quit(), startLoop() never returns NULL and no call of the owner, quit()   *)
(* of the destructor included, starts on NULL or on a destroyed EventLoop.   *)
OwnerFindsLoop == ~selfQuit => started # "NULL" /\ owner # "badCall"

(* EventLoopThread::startLoop returns, without a wakeup nobody sent.  (A     *)
(* loop that quits by itself can have set loop_ to NULL before the owner     *)
(* looks, and then startLoop() waits for ever.)                              *)
StartLoopReturns == (~selfQuit /\ owner = "starting") ~> (owner = "started")

(* ~EventLoopThread: the destructor of an object whose thread is inside      *)
(* loop() ends the loop and the thread and returns, unless code in the loop  *)
(* thread calls quit() too.  The one other outcome is the chance the comment *)
(* in EventLoop::quit admits: the loop sees quit_, leaves and is destroyed   *)
(* before quit() has called wakeup().                                        *)
DestructorJoinsRunningLoop ==
  (owner = "destroying" /\ thread_ = "looping" /\ ~selfQuit)
    ~> (thread_ = "exited" /\ owner \in {"done", "badWakeup"})

(* EventLoopThread.c++ on loop_->quit(): "通过析构对象的方式退出IO线程，实现了RAII"    *)
(* (destroying the object ends the IO thread), but for the use of a          *)
(* destroyed object that the comment above the call admits.  Not so when     *)
(* quit() comes before loop(), which clears quit_.                           *)
DestructorJoins ==
  (owner = "destroying") ~> (owner \in {"done", "badCall", "badWakeup"})

================================================================================
