------------------------------ MODULE TimerQueue ------------------------------
(***************************************************************************)
(* The timers of one EventLoop: TimerQueue, Timer and the timerfd.          *)
(*                                                                          *)
(* addTimer() and cancel() go through EventLoop::runInLoop: at once in the  *)
(* loop thread, through the loop's FIFO queue (pending; see TaskExecutor)   *)
(* from any other thread.  Everything else runs in the loop thread, but the *)
(* clock moves between any two steps, so that a callback can take time.     *)
(* The wall clock of Timestamp and the monotonic clock of the timerfd       *)
(* advance together here.                                                   *)
(***************************************************************************)
EXTENDS Naturals, Sequences, Functions

CONSTANTS Timers,     \* timer objects, each added once
          Intervals,  \* intervals of runEvery; 0 is one below a microsecond
          MinDelay,   \* the 100 microseconds of howMuchTimeFromNow
          MaxWhen,    \* bound on the times given to runAt
          MaxTime     \* bound on the clock

ASSUME IntervalsAssumption == Intervals \subseteq Nat
ASSUME MinDelayAssumption == MinDelay \in Nat \ {0}
ASSUME BoundsAssumption == MaxWhen \in Nat /\ MaxTime \in Nat

VARIABLES
  now,                    \* the clock
  expiration_,            \* Timer::expiration_ of each timer
  interval_,              \* Timer::interval_
  repeat_,                \* Timer::repeat_
  created,                \* timers constructed by addTimer()
  timers_,                \* pairs <<expiration, timer>>, a std::set
  activeTimers_,
  callingExpiredTimers_,
  cancelingTimers_,
  armed,                  \* when the timerfd will expire; 0: disarmed
  readable,               \* has the timerfd expired since it was last read or set?
  timerActive,            \* is timerfdChannel_ in EventLoop::activeChannels_?
  pending,                \* addTimerInLoop and cancelInLoop calls in the loop's queue
  pc,                     \* where the loop thread is
  handlingNow,            \* handleRead()'s local now
  expired,                \* handleRead()'s local batch: pairs
  toRun,                  \* the part of it that has not run yet
  runs,                   \* history: how often each timer has run
  first,                  \* history: the expiration each timer was created with
  added,                  \* history: timers addTimerInLoop() was called for
  cancelDone,             \* history: timers cancelInLoop() was called for
  cancelled               \* history: ... after they had been added

fd == <<armed, readable>>
batch == <<handlingNow, expired, toRun>>
object == <<interval_, repeat_, created, first>>
vars == <<now, expiration_, interval_, repeat_, created, timers_, activeTimers_,
          callingExpiredTimers_, cancelingTimers_, armed, readable, timerActive,
          pending, pc, handlingNow, expired, toRun, runs, first, added,
          cancelDone, cancelled>>

Entries == Nat \X Timers
Calls == [call : {"add", "cancel"}, timer : Timers]

(* loop: between handlers or in user code that is not a timer's callback;    *)
(* reading: handleRead() has its now; expired: between two timers of the     *)
(* batch; callback: inside one; crashed: the process is gone.                *)
TypeOK ==
  /\ now \in Nat \ {0}
  /\ expiration_ \in [Timers -> Nat]
  /\ interval_ \in [Timers -> Nat]
  /\ repeat_ \in [Timers -> BOOLEAN]
  /\ created \subseteq Timers
  /\ timers_ \subseteq Entries
  /\ activeTimers_ \subseteq Timers
  /\ callingExpiredTimers_ \in BOOLEAN
  /\ cancelingTimers_ \subseteq Timers
  /\ armed \in Nat
  /\ readable \in BOOLEAN
  /\ timerActive \in BOOLEAN
  /\ pending \in Seq(Calls)
  /\ pc \in {"loop", "reading", "expired", "callback", "crashed"}
  /\ handlingNow \in Nat
  /\ expired \subseteq Entries
  /\ toRun \subseteq expired
  /\ runs \in [Timers -> Nat]
  /\ first \in [Timers -> Nat]
  /\ added \subseteq Timers
  /\ cancelDone \subseteq Timers
  /\ cancelled \subseteq Timers

Init ==
  /\ now = 1
  /\ expiration_ = [t \in Timers |-> 0]
  /\ interval_ = [t \in Timers |-> 0]
  /\ repeat_ = [t \in Timers |-> FALSE]
  /\ created = {}
  /\ timers_ = {}
  /\ activeTimers_ = {}
  /\ callingExpiredTimers_ = FALSE
  /\ cancelingTimers_ = {}
  /\ armed = 0
  /\ readable = FALSE
  /\ timerActive = FALSE
  /\ pending = <<>>
  /\ pc = "loop"
  /\ handlingNow = 0
  /\ expired = {}
  /\ toRun = {}
  /\ runs = [t \in Timers |-> 0]
  /\ first = [t \in Timers |-> 0]
  /\ added = {}
  /\ cancelDone = {}
  /\ cancelled = {}

--------------------------------------------------------------------------------
(* The timerfd. *)

Later(a, b) == IF a < b THEN b ELSE a

(* howMuchTimeFromNow: never less than MinDelay from now. *)
howMuchTimeFromNow(when) == Later(when, now + MinDelay)

(* timerfd_settime() arms the timerfd and forgets an unread expiration. *)
resetTimerfd(when) ==
  /\ armed' = howMuchTimeFromNow(when)
  /\ readable' = FALSE

(* The clock advances; the timerfd expires once, when its time comes. *)
tick ==
  /\ pc # "crashed" /\ now < MaxTime
  /\ now' = now + 1
  /\ IF armed # 0 /\ armed <= now + 1
     THEN readable' = TRUE /\ armed' = 0
     ELSE UNCHANGED fd
  /\ UNCHANGED <<object, batch, expiration_, timers_, activeTimers_,
                 callingExpiredTimers_, cancelingTimers_, timerActive, pending,
                 pc, runs, added, cancelDone, cancelled>>

--------------------------------------------------------------------------------
(* Adding and cancelling, in the loop thread. *)

(* Mutant: the first timer of an empty set does not arm the timerfd. *)
Mutant_earliestChanged(when) == timers_ # {} /\ \A e \in timers_ : when < e[1]

(* when < timers_.begin()->first, or timers_ is empty *)
earliestChanged(when) == \A e \in timers_ : when < e[1]

(* addTimerInLoop() with insert(), of a timer with this expiration. *)
addTimerInLoop(t, when) ==
  /\ timers_' = timers_ \cup {<<when, t>>}
  /\ activeTimers_' = activeTimers_ \cup {t}
  /\ IF earliestChanged(when) THEN resetTimerfd(when) ELSE UNCHANGED fd
  /\ added' = added \cup {t}
  /\ UNCHANGED <<cancelingTimers_, cancelDone, cancelled>>

(* Mutant: the cancelled timer leaves timers_ only. *)
Mutant_cancelInLoop(t) ==
  /\ IF t \in activeTimers_
     THEN timers_' = timers_ \ {<<expiration_[t], t>>} /\ UNCHANGED cancelingTimers_
     ELSE /\ cancelingTimers_' = IF callingExpiredTimers_
                                 THEN cancelingTimers_ \cup {t}
                                 ELSE cancelingTimers_
          /\ UNCHANGED timers_
  /\ cancelDone' = cancelDone \cup {t}
  /\ cancelled' = IF t \in added THEN cancelled \cup {t} ELSE cancelled
  /\ UNCHANGED <<fd, added, activeTimers_>>

(* cancelInLoop(): an active timer leaves both sets; one that is not active  *)
(* is remembered if a batch is running, because it may be part of it.        *)
cancelInLoop(t) ==
  /\ IF t \in activeTimers_
     THEN /\ timers_' = timers_ \ {<<expiration_[t], t>>}
          /\ activeTimers_' = activeTimers_ \ {t}
          /\ UNCHANGED cancelingTimers_
     ELSE /\ cancelingTimers_' = IF callingExpiredTimers_
                                 THEN cancelingTimers_ \cup {t}
                                 ELSE cancelingTimers_
          /\ UNCHANGED <<timers_, activeTimers_>>
  /\ cancelDone' = cancelDone \cup {t}
  /\ cancelled' = IF t \in added THEN cancelled \cup {t} ELSE cancelled
  /\ UNCHANGED <<fd, added>>

(* runInLoop of these: on the spot from user code of the loop thread, queued *)
(* from any other thread.                                                    *)
InUserCode == pc \in {"loop", "callback"}

(* addTimer(): the Timer is constructed by the caller.  runAt and runAfter   *)
(* give a one-shot timer any time, even one that is past or invalid; the     *)
(* first expiration of runEvery is an interval from now.                     *)
addTimer(t, when, repeat, interval) ==
  /\ pc # "crashed"
  /\ t \notin created
  /\ created' = created \cup {t}
  /\ expiration_' = [expiration_ EXCEPT ![t] = when]
  /\ interval_' = [interval_ EXCEPT ![t] = interval]
  /\ repeat_' = [repeat_ EXCEPT ![t] = repeat]
  /\ first' = [first EXCEPT ![t] = when]
  /\ \/ /\ InUserCode
        /\ addTimerInLoop(t, when)
        /\ UNCHANGED pending
     \/ /\ pending' = Append(pending, [call |-> "add", timer |-> t])
        /\ UNCHANGED <<fd, timers_, activeTimers_, cancelingTimers_, added,
                       cancelDone, cancelled>>
  /\ UNCHANGED <<batch, now, callingExpiredTimers_, timerActive, pc, runs>>

runAt(t, when) == addTimer(t, when, FALSE, 0)

(* What is left of the seconds below a microsecond is cut off. *)
addTime(timestamp, interval) == timestamp + interval

runEvery(t, interval) == addTimer(t, addTime(now, interval), TRUE, interval)

(* cancel() of a TimerId that addTimer() returned.  Of each timer one call   *)
(* at a time is in the queue, which bounds it.                               *)
cancel(t) ==
  /\ pc # "crashed"
  /\ t \in created
  /\ \/ /\ InUserCode
        /\ cancelInLoop(t)
        /\ UNCHANGED pending
     \/ /\ pending' = Append(pending, [call |-> "cancel", timer |-> t])
        /\ [call |-> "cancel", timer |-> t] \notin Range(pending)
        /\ UNCHANGED <<fd, timers_, activeTimers_, cancelingTimers_, added,
                       cancelDone, cancelled>>
  /\ UNCHANGED <<object, batch, now, expiration_, callingExpiredTimers_,
                 timerActive, pc, runs>>

(* The loop runs the oldest queued call. *)
runPending ==
  /\ pc = "loop"
  /\ pending # <<>>
  /\ LET c == Head(pending) IN
       \/ c.call = "add" /\ addTimerInLoop(c.timer, expiration_[c.timer])
       \/ c.call = "cancel" /\ cancelInLoop(c.timer)
  /\ pending' = Tail(pending)
  /\ UNCHANGED <<object, batch, now, expiration_, callingExpiredTimers_,
                 timerActive, pc, runs>>

--------------------------------------------------------------------------------
(* Expiry, in the loop thread. *)

(* The poll reports the timerfd; handlers of other channels may run first. *)
poll ==
  /\ pc = "loop"
  /\ readable /\ ~timerActive
  /\ timerActive' = TRUE
  /\ UNCHANGED <<object, batch, fd, now, expiration_, timers_, activeTimers_,
                 callingExpiredTimers_, cancelingTimers_, pending, pc, runs,
                 added, cancelDone, cancelled>>

(* handleRead(): Timestamp now(Timestamp::now()) *)
handleRead ==
  /\ pc = "loop" /\ timerActive
  /\ timerActive' = FALSE
  /\ handlingNow' = now
  /\ pc' = "reading"
  /\ UNCHANGED <<object, fd, now, expiration_, timers_, activeTimers_,
                 callingExpiredTimers_, cancelingTimers_, pending, expired,
                 toRun, runs, added, cancelDone, cancelled>>

(* Mutant: the sentry is one unit too late. *)
Mutant_Due == {e \in timers_ : e[1] <= handlingNow + 1}

(* The entries up to the sentry (handlingNow, UINTPTR_MAX). *)
Due == {e \in timers_ : e[1] <= handlingNow}

readTimerfd == readable' = FALSE

(* Mutant: the batch to run is the whole set. *)
Mutant_getExpired ==
  /\ pc = "reading"
  /\ readTimerfd
  /\ expired' = Due
  /\ toRun' = timers_
  /\ timers_' = timers_ \ Due
  /\ activeTimers_' = activeTimers_ \ {e[2] : e \in Due}
  /\ callingExpiredTimers_' = TRUE
  /\ cancelingTimers_' = {}
  /\ pc' \in {"expired", "crashed"}
  /\ UNCHANGED <<object, now, expiration_, armed, timerActive, pending,
                 handlingNow, runs, added, cancelDone, cancelled>>

(* readTimerfd(), getExpired(), and the start of the batch.  getExpired()    *)
(* ends by destroying a shared_ptr that owns the address UINTPTR_MAX, which  *)
(* is undefined: the process may die there.                                  *)
getExpired ==
  /\ pc = "reading"
  /\ readTimerfd
  /\ expired' = Due
  /\ toRun' = Due
  /\ timers_' = timers_ \ Due
  /\ activeTimers_' = activeTimers_ \ {e[2] : e \in Due}
  /\ callingExpiredTimers_' = TRUE
  /\ cancelingTimers_' = {}
  /\ pc' \in {"expired", "crashed"}
  /\ UNCHANGED <<object, now, expiration_, armed, timerActive, pending,
                 handlingNow, runs, added, cancelDone, cancelled>>

(* it->second->run(), in the order of the set: by time, then by address *)
runTimer(e) ==
  /\ pc = "expired"
  /\ e \in toRun
  /\ \A d \in toRun : e[1] <= d[1]
  /\ toRun' = toRun \ {e}
  /\ runs' = [runs EXCEPT ![e[2]] = @ + 1]
  /\ pc' = "callback"
  /\ UNCHANGED <<object, fd, now, expiration_, timers_, activeTimers_,
                 callingExpiredTimers_, cancelingTimers_, timerActive, pending,
                 handlingNow, expired, added, cancelDone, cancelled>>

timerReturns ==
  /\ pc = "callback"
  /\ pc' = "expired"
  /\ UNCHANGED <<object, fd, batch, now, expiration_, timers_, activeTimers_,
                 callingExpiredTimers_, cancelingTimers_, timerActive, pending,
                 runs, added, cancelDone, cancelled>>

(* Mutant: cancelingTimers_ is not consulted. *)
Mutant_Restarted == {t \in Timers : repeat_[t] /\ \E e \in expired : e[2] = t}

(* The timers of the batch that reset() restarts. *)
Restarted == {t \in Timers : /\ repeat_[t]
                             /\ t \notin cancelingTimers_
                             /\ \E e \in expired : e[2] = t}

(* Timer::restart(), of a timer that repeats *)
restart(t) == addTime(handlingNow, interval_[t])

(* The end of handleRead(): reset(), with restart() and insert().  Every     *)
(* restarted timer expires an interval after handleRead() began; the timerfd *)
(* is set for the earliest timer if that time is valid.                      *)
reset ==
  /\ pc = "expired" /\ toRun = {}
  /\ expiration_' = [t \in Timers |-> IF t \in Restarted
                                      THEN restart(t)
                                      ELSE expiration_[t]]
  /\ timers_' = timers_ \cup {<<expiration_'[t], t>> : t \in Restarted}
  /\ activeTimers_' = activeTimers_ \cup Restarted
  /\ \/ /\ \E e \in timers_' : /\ \A d \in timers_' : e[1] <= d[1]
                               /\ e[1] > 0
                               /\ resetTimerfd(e[1])
     \/ /\ timers_' = {} \/ \E e \in timers_' : e[1] = 0
        /\ UNCHANGED fd
  /\ callingExpiredTimers_' = FALSE
  /\ expired' = {}
  /\ pc' = "loop"
  /\ UNCHANGED <<object, now, cancelingTimers_, timerActive, pending,
                 handlingNow, toRun, runs, added, cancelDone, cancelled>>

--------------------------------------------------------------------------------
Next ==
  \/ tick \/ runPending \/ poll \/ handleRead \/ getExpired \/ timerReturns
  \/ reset
  \/ \E e \in toRun : runTimer(e)
  \/ \E t \in Timers :
       \/ \E when \in 0 .. MaxWhen : runAt(t, when)
       \/ \E interval \in Intervals : runEvery(t, interval)
       \/ cancel(t)

Spec == Init /\ [][Next]_vars

--------------------------------------------------------------------------------
(* Properties. *)

(* TimerQueue::insert, cancelInLoop, getExpired and reset keep the two sets  *)
(* in step: each active timer has exactly its current expiration in timers_, *)
(* which is what the asserts on the sizes and the erase by                   *)
(* Entry(expiration(), timer) rest on.                                       *)
SetsAgree ==
  pc # "crashed" => timers_ = {<<expiration_[t], t>> : t \in activeTimers_}

(* TimerQueue::addTimerInLoop and reset: no timer is forgotten.  Whenever    *)
(* the loop is about to poll, the timerfd is readable, or armed for no later *)
(* than every timer's expiration (or MinDelay from now, if that is later).   *)
NoLostTimer ==
  pc = "loop" =>
    \A e \in timers_ :
      readable \/ timerActive \/ (armed # 0 /\ armed <= Later(e[1], now + MinDelay))

(* TimerQueue::cancelInLoop and reset: a timer that is cancelled after it    *)
(* was added, be it from its own callback or from one of the same batch, is  *)
(* gone once the batch is over.                                              *)
CancelledStaysCancelled == pc = "loop" => cancelled \cap activeTimers_ = {}

(* TimerQueue::getExpired and Timer::restart: a timer never runs ahead of    *)
(* its schedule, and a one-shot timer never runs twice.                      *)
NeverAheadOfSchedule ==
  \A t \in Timers : runs[t] > 0 =>
    /\ first[t] + (runs[t] - 1) * interval_[t] <= now
    /\ repeat_[t] \/ runs[t] = 1

(* EventLoop.h on cancel: "Cancels the timer.  Safe to call from other       *)
(* threads."  Not so when cancel() in the loop thread overtakes addTimer()   *)
(* of another thread: the timer is added afterwards and will run.            *)
CancelCancels == pc = "loop" => cancelDone \cap activeTimers_ = {}

================================================================================
