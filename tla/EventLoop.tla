------------------------------- MODULE EventLoop -------------------------------
(***************************************************************************)
(* One muduo::net::EventLoop: the loop thread that alternates between poll, *)
(* the handlers of the active channels and the pending functors, and the    *)
(* threads that hand it work (runInLoop, queueInLoop) or stop it (quit).    *)
(*                                                                          *)
(* A step of the model is one access to what the threads share:             *)
(* pendingFunctors_ (under mutex_), quit_ (an atomic) and the counter of    *)
(* the eventfd wakeupFd_.  queueInLoop() and quit() of another thread are   *)
(* therefore two steps, the store and the write to the eventfd, and         *)
(* anything may happen in between.  callingPendingFunctors_ is read by the  *)
(* loop thread only.                                                        *)
(***************************************************************************)
EXTENDS Naturals, Sequences, Functions

CONSTANTS Functors,    \* tasks, each handed to the loop at most once
          Callers,     \* the threads other than the one that owns the loop
          LoopThread,  \* the thread whose id is threadId_
          Sources,     \* channels other than wakeupChannel_
          WakeupChannel,
          EventfdMax   \* the eventfd counter blocks beyond this (2^64 - 2)

Threads == Callers \cup {LoopThread}

ASSUME LoopThreadAssumption == LoopThread \notin Callers
ASSUME WakeupChannelAssumption == WakeupChannel \notin Sources
ASSUME EventfdMaxAssumption == EventfdMax \in Nat \ {0}

VARIABLES
  pc,                      \* where the loop thread is in loop()
  quit_,
  callingPendingFunctors_,
  pendingFunctors_,        \* guarded by mutex_
  functors,                \* the rest of doPendingFunctors()'s local batch
  wakeupFd_,               \* counter of the eventfd
  activeChannels_,         \* channels poll returned and not handled yet
  op,                      \* what each thread still owes: a wakeup() or nothing
  ran,                     \* history: functors started, in order
  early                    \* history: queued by LoopThread outside loop()

vars == <<pc, quit_, callingPendingFunctors_, pendingFunctors_, functors,
          wakeupFd_, activeChannels_, op, ran, early>>

(* idle: not in loop(); while: at the test of quit_; poll: inside poll();   *)
(* events: between handlers; callback: inside a channel's user callback;    *)
(* functors: between two functors; functor: inside one.                     *)
PCs == {"idle", "while", "poll", "events", "callback", "functors", "functor"}

TypeOK ==
  /\ pc \in PCs
  /\ quit_ \in BOOLEAN
  /\ callingPendingFunctors_ \in BOOLEAN
  /\ pendingFunctors_ \in Seq(Functors)
  /\ functors \in Seq(Functors)
  /\ wakeupFd_ \in 0 .. EventfdMax
  /\ activeChannels_ \subseteq Sources \cup {WakeupChannel}
  /\ op \in [Threads -> {"none", "queueing", "quitting"}]
  /\ ran \in Seq(Functors)
  /\ early \subseteq Functors

Init ==
  /\ pc = "idle"
  /\ quit_ = FALSE
  /\ callingPendingFunctors_ = FALSE
  /\ pendingFunctors_ = <<>>
  /\ functors = <<>>
  /\ wakeupFd_ = 0
  /\ activeChannels_ = {}
  /\ op = [t \in Threads |-> "none"]
  /\ ran = <<>>
  /\ early = {}

--------------------------------------------------------------------------------
(* Handing work to the loop. *)

(* Mutant: the counter grows past its capacity. *)
Mutant_wakeup(n) == n + 1

(* A non-blocking write to a full eventfd fails, is logged and forgotten:   *)
(* the counter saturates.                                                   *)
wakeup(n) == IF n < EventfdMax THEN n + 1 ELSE n

(* User code runs in every other thread at any time, and in the loop thread *)
(* when it is outside loop(), in a channel's callback or in a functor.      *)
InUserCode(t) ==
  /\ op[t] = "none"
  /\ t = LoopThread => pc \in {"idle", "callback", "functor"}

Fresh(f) == f \notin Range(pendingFunctors_) \cup Range(functors) \cup Range(ran)

(* Mutants of the condition: the flag is forgotten; other threads are. *)
Mutant_NeedsWakeup_noFlag(t) == t # LoopThread
Mutant_NeedsWakeup_flagOnly(t) == t = LoopThread /\ callingPendingFunctors_

(* !isInLoopThread() || callingPendingFunctors_ *)
NeedsWakeup(t) == t # LoopThread \/ callingPendingFunctors_

(* queueInLoop() up to the release of mutex_. *)
queueInLoop(t, f) ==
  /\ InUserCode(t)
  /\ Fresh(f)
  /\ pendingFunctors_' = Append(pendingFunctors_, f)
  /\ op' = [op EXCEPT ![t] = IF NeedsWakeup(t) THEN "queueing" ELSE "none"]
  /\ early' = IF t = LoopThread /\ pc = "idle" THEN early \cup {f} ELSE early
  /\ UNCHANGED <<pc, quit_, callingPendingFunctors_, functors, wakeupFd_,
                 activeChannels_, ran>>

(* runInLoop() of the loop thread calls the functor on the spot; any other  *)
(* thread's runInLoop() is queueInLoop().                                   *)
runInLoop(t, f) ==
  \/ /\ t = LoopThread
     /\ InUserCode(t)
     /\ Fresh(f)
     /\ ran' = Append(ran, f)
     /\ UNCHANGED <<pc, quit_, callingPendingFunctors_, pendingFunctors_,
                    functors, wakeupFd_, activeChannels_, op, early>>
  \/ t # LoopThread /\ queueInLoop(t, f)

(* Mutants: quit() wakes up the wrong threads' loop; quit() never wakes up. *)
Mutant_QuitNeedsWakeup_negated(t) == t = LoopThread
Mutant_QuitNeedsWakeup_never(t) == t # t

(* !isInLoopThread() *)
QuitNeedsWakeup(t) == t # LoopThread

(* Mutant: quit() of another thread wakes up the loop and sets nothing. *)
Mutant_quit(t) ==
  /\ InUserCode(t)
  /\ quit_' = (quit_ \/ t = LoopThread)
  /\ op' = [op EXCEPT ![t] = IF QuitNeedsWakeup(t) THEN "quitting" ELSE "none"]
  /\ UNCHANGED <<pc, callingPendingFunctors_, pendingFunctors_, functors,
                 wakeupFd_, activeChannels_, ran, early>>

(* quit() sets the flag and owes a wakeup() unless the loop thread calls it. *)
quit(t) ==
  /\ InUserCode(t)
  /\ quit_' = TRUE
  /\ op' = [op EXCEPT ![t] = IF QuitNeedsWakeup(t) THEN "quitting" ELSE "none"]
  /\ UNCHANGED <<pc, callingPendingFunctors_, pendingFunctors_, functors,
                 wakeupFd_, activeChannels_, ran, early>>

(* The write to the eventfd that ends queueInLoop() and quit(). *)
finishCall(t) ==
  /\ op[t] # "none"
  /\ wakeupFd_' = wakeup(wakeupFd_)
  /\ op' = [op EXCEPT ![t] = "none"]
  /\ UNCHANGED <<pc, quit_, callingPendingFunctors_, pendingFunctors_,
                 functors, activeChannels_, ran, early>>

--------------------------------------------------------------------------------
(* The loop thread inside loop(). *)

(* loop() begins by clearing quit_, whoever set it and when. *)
loopBegin ==
  /\ pc = "idle" /\ op[LoopThread] = "none"
  /\ pc' = "while"
  /\ quit_' = FALSE
  /\ UNCHANGED <<callingPendingFunctors_, pendingFunctors_, functors,
                 wakeupFd_, activeChannels_, op, ran, early>>

(* while (!quit_) *)
loopTest ==
  /\ pc = "while"
  /\ pc' = IF quit_ THEN "idle" ELSE "poll"
  /\ activeChannels_' = {}
  /\ UNCHANGED <<quit_, callingPendingFunctors_, pendingFunctors_, functors,
                 wakeupFd_, op, ran, early>>

(* The poll returns with channels that are ready.  wakeupChannel_ is ready  *)
(* exactly while the counter is positive, and a full batch of other events  *)
(* can leave it for the next poll.                                          *)
poll ==
  /\ pc = "poll"
  /\ \E ready \in SUBSET (Sources \cup {WakeupChannel}) :
       /\ ready # {}
       /\ WakeupChannel \in ready => wakeupFd_ > 0
       /\ activeChannels_' = ready
  /\ pc' = "events"
  /\ UNCHANGED <<quit_, callingPendingFunctors_, pendingFunctors_, functors,
                 wakeupFd_, op, ran, early>>

(* Mutant: an empty activeChannels_ skips the rest of the loop body. *)
Mutant_pollTimeout ==
  /\ pc = "poll"
  /\ wakeupFd_ = 0
  /\ pc' = "while"
  /\ UNCHANGED <<quit_, callingPendingFunctors_, pendingFunctors_, functors,
                 wakeupFd_, activeChannels_, op, ran, early>>

(* kPollTimeMs pass without an event. *)
pollTimeout ==
  /\ pc = "poll"
  /\ wakeupFd_ = 0
  /\ pc' = "events"
  /\ UNCHANGED <<quit_, callingPendingFunctors_, pendingFunctors_, functors,
                 wakeupFd_, activeChannels_, op, ran, early>>

(* wakeupChannel_'s handler reads the eventfd, which resets its counter. *)
handleRead ==
  /\ pc = "events"
  /\ WakeupChannel \in activeChannels_
  /\ wakeupFd_' = 0
  /\ activeChannels_' = activeChannels_ \ {WakeupChannel}
  /\ UNCHANGED <<pc, quit_, callingPendingFunctors_, pendingFunctors_,
                 functors, op, ran, early>>

(* Another channel's handleEvent() enters user code... *)
handleEvent ==
  /\ pc = "events"
  /\ \E c \in activeChannels_ \ {WakeupChannel} :
       activeChannels_' = activeChannels_ \ {c}
  /\ pc' = "callback"
  /\ UNCHANGED <<quit_, callingPendingFunctors_, pendingFunctors_, functors,
                 wakeupFd_, op, ran, early>>

(* ... and returns from it. *)
callbackReturns ==
  /\ pc = "callback" /\ op[LoopThread] = "none"
  /\ pc' = "events"
  /\ UNCHANGED <<quit_, callingPendingFunctors_, pendingFunctors_, functors,
                 wakeupFd_, activeChannels_, op, ran, early>>

(* Mutant: the batch is copied, not swapped out. *)
Mutant_doPendingFunctors ==
  /\ pc = "events" /\ activeChannels_ = {}
  /\ pc' = "functors"
  /\ callingPendingFunctors_' = TRUE
  /\ functors' = pendingFunctors_
  /\ UNCHANGED <<quit_, pendingFunctors_, wakeupFd_, activeChannels_, op, ran,
                 early>>

(* After the last handler doPendingFunctors() swaps the queue out. *)
doPendingFunctors ==
  /\ pc = "events" /\ activeChannels_ = {}
  /\ pc' = "functors"
  /\ callingPendingFunctors_' = TRUE
  /\ functors' = pendingFunctors_
  /\ pendingFunctors_' = <<>>
  /\ UNCHANGED <<quit_, wakeupFd_, activeChannels_, op, ran, early>>

runFunctor ==
  /\ pc = "functors" /\ functors # <<>>
  /\ pc' = "functor"
  /\ ran' = Append(ran, Head(functors))
  /\ functors' = Tail(functors)
  /\ UNCHANGED <<quit_, callingPendingFunctors_, pendingFunctors_, wakeupFd_,
                 activeChannels_, op, early>>

functorReturns ==
  /\ pc = "functor" /\ op[LoopThread] = "none"
  /\ pc' = "functors"
  /\ UNCHANGED <<quit_, callingPendingFunctors_, pendingFunctors_, functors,
                 wakeupFd_, activeChannels_, op, ran, early>>

(* The end of doPendingFunctors() and of the loop body. *)
functorsDone ==
  /\ pc = "functors" /\ functors = <<>>
  /\ pc' = "while"
  /\ callingPendingFunctors_' = FALSE
  /\ UNCHANGED <<quit_, pendingFunctors_, functors, wakeupFd_,
                 activeChannels_, op, ran, early>>

--------------------------------------------------------------------------------
Loop ==
  \/ loopTest \/ poll \/ pollTimeout \/ handleRead \/ handleEvent
  \/ callbackReturns \/ doPendingFunctors \/ runFunctor \/ functorReturns
  \/ functorsDone

Call(t) == \/ \E f \in Functors : queueInLoop(t, f) \/ runInLoop(t, f)
           \/ quit(t)
           \/ finishCall(t)

Next == loopBegin \/ Loop \/ \E t \in Threads : Call(t)

Spec == Init /\ [][Next]_vars

(* Threads are scheduled, user code returns, and a poll whose eventfd is    *)
(* readable returns.  Nothing is assumed of the other channels or of the    *)
(* poll's timeout, and nobody has to call loop().                           *)
Fairness ==
  /\ WF_vars(poll /\ wakeupFd_ > 0)
  /\ WF_vars(loopTest \/ handleRead \/ handleEvent \/ callbackReturns
               \/ doPendingFunctors \/ runFunctor \/ functorReturns
               \/ functorsDone)
  /\ \A t \in Threads : WF_vars(finishCall(t))

FairSpec == Spec /\ Fairness

--------------------------------------------------------------------------------
(* Properties. *)

(* The functors that are owed a wakeup: all that are queued but the ones    *)
(* the loop thread queued before calling loop().                            *)
Urgent == Range(pendingFunctors_) \ early

(* EventLoop::queueInLoop (the condition on wakeup()): the loop thread is   *)
(* never asleep in poll over a queued functor unless the eventfd is already *)
(* readable or the thread that queued is about to write it.                 *)
NoLostWakeup ==
  pc = "poll" /\ Urgent # {} =>
    wakeupFd_ > 0 \/ \E t \in Callers : op[t] = "queueing"

(* EventLoop::quit: the loop thread never sleeps through a quit(); either   *)
(* the eventfd is readable or the quitting thread is about to write it.     *)
NoSleepThroughQuit ==
  pc = "poll" /\ quit_ =>
    wakeupFd_ > 0 \/ \E t \in Callers : op[t] = "quitting"

(* EventLoop::doPendingFunctors: whatever the interleaving of queueing,     *)
(* swapping and running, functors run exactly once and in queue order: the  *)
(* loop implements TaskExecutor, whose queue is the batch being run followed *)
(* by pendingFunctors_.                                                     *)
TE == INSTANCE TaskExecutor WITH
        Tasks <- Functors,
        queue <- functors \o pendingFunctors_,
        done  <- ran,
        open  <- pc # "idle"

ImplementsTaskExecutor == TE!Spec

(* EventLoop::loop: if poll times out after kPollTimeMs, a loop that is not  *)
(* left keeps running what is queued, early functors included.              *)
TimeoutKeepsRunning == WF_vars(pollTimeout) => TE!KeepsRunning

(* EventLoop::queueInLoop: a functor that another thread or a callback      *)
(* queued runs, with no help from the timeout or from other channels,       *)
(* unless the loop is left (or was never entered): what is queued when       *)
(* quit() takes effect stays in pendingFunctors_.                            *)
QueuedRuns ==
  \A f \in Functors :
    (f \in Urgent) ~> (f \in Range(ran) \/ pc = "idle")

(* EventLoop::quit: once loop() is entered, quit() by any thread ends it.   *)
QuitEndsLoop == (quit_ /\ pc # "idle") ~> (pc = "idle")

================================================================================
