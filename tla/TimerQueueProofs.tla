---------------------------- MODULE TimerQueueProofs ----------------------------
(***************************************************************************)
(* Proofs about TimerQueue for any set of timers, any intervals and any      *)
(* bounds of the clock: the two sets agree, no timer is lost, revived after  *)
(* its cancellation or run ahead of its schedule.                            *)
(***************************************************************************)
EXTENDS TimerQueue, SequenceTheorems, TLAPS

InBatch == {e[2] : e \in expired}
StillToRun == {e[2] : e \in toRun}

(* A timer is constructed, added once, and then is active, in the batch that *)
(* runs, or over.                                                            *)
LifeInv ==
  /\ added \subseteq created
  /\ activeTimers_ \subseteq added
  /\ InBatch \subseteq added \ activeTimers_
  /\ cancelled \subseteq added

(* Calls in the loop's queue are about timers that exist; each is added by   *)
(* one call, which has not run yet.                                          *)
PendingInv ==
  /\ \A i \in DOMAIN pending : pending[i].timer \in created
  /\ \A i \in DOMAIN pending : pending[i].call = "add" => pending[i].timer \notin added
  /\ \A i, j \in DOMAIN pending :
       pending[i].call = "add" /\ pending[j].call = "add" /\ i # j =>
         pending[i].timer # pending[j].timer

(* The batch holds the entries that were due when handleRead() began; their  *)
(* timers keep that expiration until reset().                                *)
BatchInv ==
  /\ pc \in {"loop", "reading"} => expired = {}
  /\ pc \in {"expired", "callback"} => callingExpiredTimers_
  /\ pc \in {"reading", "expired", "callback"} => handlingNow > 0
  /\ handlingNow <= now
  /\ \A e \in expired : e[1] = expiration_[e[2]] /\ e[1] <= handlingNow

SetsInv == timers_ = {<<expiration_[t], t>> : t \in activeTimers_}

(* A cancelled timer is not active; if it is in the batch, reset() will find *)
(* it in cancelingTimers_.                                                   *)
CancelInv ==
  /\ cancelled \cap activeTimers_ = {}
  /\ cancelled \cap InBatch \subseteq cancelingTimers_

(* During a batch nothing is said of the timerfd, because reset() will set   *)
(* it, unless the earliest time is 0: for that addTimerInLoop() has set it.  *)
TimerfdInv ==
  /\ NoLostTimer
  /\ pc \in {"expired", "callback"} =>
       \A e \in timers_ : e[1] = 0 => readable \/ (armed # 0 /\ armed <= now + MinDelay)

(* The schedule of t: its run n + 1 is n intervals after the first. *)
Slot(t, n) == first[t] + n * interval_[t]

(* When t may run next, and what it has run: an expiration is never ahead of *)
(* the schedule, and reset() may restart what has run in the batch.          *)
Scheduled(t) ==
  /\ runs[t] > 0 => Slot(t, runs[t] - 1) <= now /\ (repeat_[t] \/ runs[t] = 1)
  /\ t \notin added => runs[t] = 0
  /\ t \in created \ added => expiration_[t] = first[t]
  /\ t \in activeTimers_ \cup StillToRun =>
       Slot(t, runs[t]) <= expiration_[t] /\ (repeat_[t] \/ runs[t] = 0)
  /\ t \in InBatch \ StillToRun =>
       runs[t] > 0 /\ Slot(t, runs[t] - 1) <= handlingNow

ScheduleInv == \A t \in Timers : Scheduled(t)

Inv == /\ TypeOK /\ LifeInv /\ PendingInv /\ BatchInv /\ SetsInv /\ CancelInv
       /\ TimerfdInv /\ ScheduleInv

--------------------------------------------------------------------------------
(* The initial state satisfies the invariant. *)
LEMMA InitInv == Init => Inv
PROOF
  <1> SUFFICES ASSUME Init PROVE Inv
    OBVIOUS
  <1> USE MinDelayAssumption DEF Init
  <1>1. TypeOK
    <2>1. repeat_ \in [Timers -> BOOLEAN]
      BY Zenon
    <2>2. /\ expiration_ \in [Timers -> Nat] /\ interval_ \in [Timers -> Nat]
          /\ runs \in [Timers -> Nat] /\ first \in [Timers -> Nat]
      OBVIOUS
    <2>3. pending \in Seq(Calls)
      OBVIOUS
    <2>4. now \in Nat \ {0} /\ armed \in Nat /\ handlingNow \in Nat
      OBVIOUS
    <2> QED
      BY <2>1, <2>2, <2>3, <2>4, Zenon DEF TypeOK
  <1>2. LifeInv /\ PendingInv /\ BatchInv
    BY DEF LifeInv, PendingInv, BatchInv, InBatch
  <1>3. SetsInv /\ CancelInv
    BY DEF SetsInv, CancelInv, InBatch
  <1>4. TimerfdInv
    BY DEF TimerfdInv, NoLostTimer
  <1>5. ScheduleInv
    BY DEF ScheduleInv, Scheduled, StillToRun, InBatch
  <1> QED
    BY <1>1, <1>2, <1>3, <1>4, <1>5 DEF Inv

(* The steps of Next, with runAt() and runEvery() as calls of addTimer(). *)
LEMMA NextCases ==
  ASSUME TypeOK, Next
  PROVE  \/ tick \/ runPending \/ poll \/ handleRead \/ getExpired \/ timerReturns
         \/ reset
         \/ \E e \in toRun : runTimer(e)
         \/ \E t \in Timers, when \in Nat, interval \in Nat, repeat \in BOOLEAN :
              addTimer(t, when, repeat, interval)
         \/ \E t \in Timers : cancel(t)
PROOF
  <1>1. ASSUME NEW t \in Timers, NEW when \in 0 .. MaxWhen, runAt(t, when)
        PROVE  \E w \in Nat, i \in Nat, r \in BOOLEAN : addTimer(t, w, r, i)
    <2>1. when \in Nat /\ 0 \in Nat /\ FALSE \in BOOLEAN
      BY BoundsAssumption
    <2> QED
      BY <1>1, <2>1, Zenon DEF runAt
  <1>2. ASSUME NEW t \in Timers, NEW interval \in Intervals, runEvery(t, interval)
        PROVE  \E w \in Nat, i \in Nat, r \in BOOLEAN : addTimer(t, w, r, i)
    <2>1. interval \in Nat /\ addTime(now, interval) \in Nat
      BY IntervalsAssumption DEF addTime, TypeOK
    <2> QED
      BY <1>2, <2>1 DEF runEvery
  <1> QED
    BY <1>1, <1>2 DEF Next

(* What addTimerInLoop() and cancelInLoop() leave of the types. *)
LEMMA InLoopTypes ==
  ASSUME TypeOK, NEW t \in Timers,
         \/ \E when \in Nat : addTimerInLoop(t, when)
         \/ cancelInLoop(t)
  PROVE  /\ timers_' \subseteq Entries /\ activeTimers_' \subseteq Timers
         /\ cancelingTimers_' \subseteq Timers
         /\ armed' \in Nat /\ readable' \in BOOLEAN
         /\ added' \subseteq Timers /\ cancelDone' \subseteq Timers /\ cancelled' \subseteq Timers
PROOF
  <1>1. CASE cancelInLoop(t)
    BY <1>1 DEF TypeOK, cancelInLoop, fd
  <1>2. ASSUME NEW when \in Nat, addTimerInLoop(t, when)
        PROVE  /\ timers_' \subseteq Entries /\ activeTimers_' \subseteq Timers
               /\ cancelingTimers_' \subseteq Timers
               /\ added' \subseteq Timers /\ cancelDone' \subseteq Timers /\ cancelled' \subseteq Timers
    BY <1>2 DEF TypeOK, addTimerInLoop, Entries
  <1>3. ASSUME NEW when \in Nat, addTimerInLoop(t, when)
        PROVE  armed' \in Nat /\ readable' \in BOOLEAN
    <2>1. armed' \in Nat
      BY <1>3, MinDelayAssumption
         DEF TypeOK, addTimerInLoop, fd, resetTimerfd, howMuchTimeFromNow, Later
    <2>2. readable' \in BOOLEAN
      BY <1>3, Zenon DEF TypeOK, addTimerInLoop, fd, resetTimerfd
    <2> QED
      BY <2>1, <2>2
  <1> QED
    BY <1>1, <1>2, <1>3

(* Every step keeps the types. *)
LEMMA NextKeepsTypes == TypeOK /\ [Next]_vars => TypeOK'
PROOF
  <1> SUFFICES ASSUME TypeOK, [Next]_vars PROVE TypeOK'
    OBVIOUS
  <1> USE MinDelayAssumption
  <1>1. CASE tick
    <2>1. now' \in Nat \ {0}
      BY <1>1 DEF tick, TypeOK
    <2>2. armed' \in Nat
      BY <1>1 DEF tick, TypeOK, fd
    <2>3. readable' \in BOOLEAN
      BY <1>1, Zenon DEF tick, TypeOK, fd
    <2> QED
      BY <1>1, <2>1, <2>2, <2>3 DEF TypeOK, tick, object, batch
  <1>2. CASE runPending
    <2>1. Head(pending) \in Calls /\ Tail(pending) \in Seq(Calls)
      BY <1>2 DEF runPending, TypeOK
    <2>2. Head(pending).timer \in Timers
      BY <2>1 DEF Calls
    <2>3. expiration_[Head(pending).timer] \in Nat
      BY <2>2 DEF TypeOK
    <2>4. \/ \E when \in Nat : addTimerInLoop(Head(pending).timer, when)
          \/ cancelInLoop(Head(pending).timer)
      BY <1>2, <2>3 DEF runPending
    <2> QED
      BY <1>2, <2>1, <2>2, <2>4, InLoopTypes DEF runPending, TypeOK, object, batch
  <1>3. CASE poll
    BY <1>3 DEF TypeOK, poll, fd, object, batch
  <1>4. CASE handleRead
    BY <1>4 DEF TypeOK, handleRead, fd, object
  <1>5. CASE getExpired
    BY <1>5 DEF TypeOK, getExpired, readTimerfd, object, Due
  <1>6. CASE timerReturns
    BY <1>6 DEF TypeOK, timerReturns, fd, object, batch
  <1>7. CASE reset
    <2>1. Restarted \subseteq Timers
      BY DEF Restarted
    <2>2. expiration_' \in [Timers -> Nat]
      BY <1>7 DEF reset, TypeOK, restart, addTime
    <2>3. timers_' \subseteq Entries
      BY <1>7, <2>1, <2>2 DEF reset, TypeOK, Entries
    <2>4. armed' \in Nat
      <3>1. ASSUME NEW e \in timers_', resetTimerfd(e[1])
            PROVE  armed' \in Nat
        <4>1. e[1] \in Nat
          BY <2>3 DEF Entries
        <4> QED
          BY <3>1, <4>1 DEF TypeOK, resetTimerfd, howMuchTimeFromNow, Later
      <3>2. (\E e \in timers_' : resetTimerfd(e[1])) \/ UNCHANGED fd
        BY <1>7 DEF reset
      <3> QED
        BY <3>1, <3>2 DEF TypeOK, fd
    <2>5. readable' \in BOOLEAN
      BY <1>7, Zenon DEF reset, TypeOK, fd, resetTimerfd
    <2> QED
      BY <1>7, <2>1, <2>2, <2>3, <2>4, <2>5 DEF reset, TypeOK, object
  <1>8. ASSUME NEW e \in toRun, runTimer(e)
        PROVE  TypeOK'
    <2>1. e[2] \in Timers
      BY DEF TypeOK, Entries
    <2> QED
      BY <1>8, <2>1 DEF TypeOK, runTimer, fd, object
  <1>9. ASSUME NEW t \in Timers, NEW when \in Nat, NEW interval \in Nat, NEW repeat \in BOOLEAN,
               addTimer(t, when, repeat, interval)
        PROVE  TypeOK'
    <2>1. [call |-> "add", timer |-> t] \in Calls
      BY DEF Calls
    <2>2. CASE addTimerInLoop(t, when) /\ UNCHANGED pending
      BY <1>9, <2>2, InLoopTypes DEF addTimer, TypeOK, batch
    <2>3. CASE pending' = Append(pending, [call |-> "add", timer |-> t])
               /\ UNCHANGED <<fd, timers_, activeTimers_, cancelingTimers_, added,
                             cancelDone, cancelled>>
      BY <1>9, <2>1, <2>3 DEF addTimer, TypeOK, batch, fd
    <2> QED
      BY <1>9, <2>2, <2>3 DEF addTimer
  <1>10. ASSUME NEW t \in Timers, cancel(t)
         PROVE  TypeOK'
    <2>1. [call |-> "cancel", timer |-> t] \in Calls
      BY DEF Calls
    <2>2. CASE cancelInLoop(t) /\ UNCHANGED pending
      BY <1>10, <2>2, InLoopTypes DEF cancel, TypeOK, batch, object
    <2>3. CASE pending' = Append(pending, [call |-> "cancel", timer |-> t])
               /\ UNCHANGED <<fd, timers_, activeTimers_, cancelingTimers_, added,
                             cancelDone, cancelled>>
      BY <1>10, <2>1, <2>3 DEF cancel, TypeOK, batch, fd, object
    <2> QED
      BY <1>10, <2>2, <2>3 DEF cancel
  <1>11. CASE UNCHANGED vars
    BY <1>11 DEF vars, TypeOK
  <1> QED
    BY <1>1, <1>2, <1>3, <1>4, <1>5, <1>6, <1>7, <1>8, <1>9, <1>10, <1>11, NextCases

--------------------------------------------------------------------------------
(* What is known of the first queued call and of the rest. *)
LEMMA FirstPending ==
  ASSUME TypeOK, LifeInv, PendingInv, runPending
  PROVE  /\ Head(pending).timer \in created /\ Head(pending).timer \in Timers
         /\ Head(pending).call = "add" => Head(pending).timer \notin added
         /\ \A i \in DOMAIN pending' :
              /\ i + 1 \in DOMAIN pending /\ pending'[i] = pending[i + 1]
              /\ Head(pending).call = "add" /\ pending'[i].call = "add" =>
                   pending'[i].timer # Head(pending).timer
PROOF
  <1>1. pending \in Seq(Calls) /\ pending # <<>> /\ pending' = Tail(pending)
    BY DEF runPending, TypeOK
  <1>2. Head(pending) = pending[1] /\ 1 \in DOMAIN pending
    BY <1>1
  <1>3. /\ Len(pending') = Len(pending) - 1
        /\ \A i \in DOMAIN pending' : i + 1 \in DOMAIN pending /\ pending'[i] = pending[i + 1]
    BY <1>1, HeadTailProperties
  <1>4. \A i \in DOMAIN pending' : i + 1 # 1
    BY <1>1
  <1>5. Head(pending).timer \in created /\ Head(pending).timer \in Timers
    BY <1>2 DEF PendingInv, TypeOK
  <1>6. Head(pending).call = "add" => Head(pending).timer \notin added
    BY <1>2 DEF PendingInv
  <1> QED
    BY <1>2, <1>3, <1>4, <1>5, <1>6 DEF PendingInv

(* Every step keeps LifeInv. *)
LEMMA NextKeepsLife == Inv /\ [Next]_vars => LifeInv'
PROOF
  <1> SUFFICES ASSUME Inv, [Next]_vars PROVE LifeInv'
    OBVIOUS
  <1> USE DEF Inv
  <1>1. CASE tick \/ poll \/ handleRead \/ timerReturns
    BY <1>1 DEF tick, poll, handleRead, timerReturns, object, batch, LifeInv, InBatch
  <1>2. CASE runPending
    BY <1>2, FirstPending
       DEF runPending, addTimerInLoop, cancelInLoop, object, batch, LifeInv, InBatch
  <1>5. CASE getExpired
    <2>1. {e[2] : e \in Due} \subseteq activeTimers_
      BY DEF Due, SetsInv
    <2> QED
      BY <1>5, <2>1 DEF getExpired, object, LifeInv, InBatch
  <1>7. CASE reset
    <2>1. Restarted \subseteq InBatch
      BY DEF Restarted, InBatch
    <2> QED
      BY <1>7, <2>1 DEF reset, object, LifeInv, InBatch
  <1>8. ASSUME NEW e \in toRun, runTimer(e)
        PROVE  LifeInv'
    BY <1>8 DEF runTimer, object, LifeInv, InBatch
  <1>9. ASSUME NEW t \in Timers, NEW when \in Nat, NEW interval \in Nat, NEW repeat \in BOOLEAN,
               addTimer(t, when, repeat, interval)
        PROVE  LifeInv'
    BY <1>9 DEF addTimer, addTimerInLoop, batch, LifeInv, InBatch
  <1>10. ASSUME NEW t \in Timers, cancel(t)
         PROVE  LifeInv'
    BY <1>10 DEF cancel, cancelInLoop, object, batch, LifeInv, InBatch
  <1>11. CASE UNCHANGED vars
    BY <1>11 DEF vars, LifeInv, InBatch
  <1> QED
    BY <1>1, <1>2, <1>5, <1>7, <1>8, <1>9, <1>10, <1>11, NextCases

(* Every step keeps PendingInv. *)
LEMMA NextKeepsPending == Inv /\ [Next]_vars => PendingInv'
PROOF
  <1> SUFFICES ASSUME Inv, [Next]_vars PROVE PendingInv'
    OBVIOUS
  <1> USE DEF Inv
  <1>1. CASE tick \/ poll \/ handleRead \/ timerReturns \/ getExpired \/ reset
    BY <1>1 DEF tick, poll, handleRead, timerReturns, getExpired, reset, object, PendingInv
  <1>2. CASE runPending
    <2>1. created' = created /\ added' \subseteq added \cup {Head(pending).timer}
      BY <1>2 DEF runPending, addTimerInLoop, cancelInLoop, object
    <2>2. Head(pending).call # "add" => added' = added
      BY <1>2 DEF runPending, addTimerInLoop, cancelInLoop
    <2>3. \A i, j \in DOMAIN pending' : i # j => i + 1 # j + 1
      BY <1>2 DEF runPending, TypeOK
    <2> QED
      BY <1>2, <2>1, <2>2, <2>3, FirstPending DEF PendingInv
  <1>8. ASSUME NEW e \in toRun, runTimer(e)
        PROVE  PendingInv'
    BY <1>8 DEF runTimer, object, PendingInv
  <1>9. ASSUME NEW t \in Timers, NEW when \in Nat, NEW interval \in Nat, NEW repeat \in BOOLEAN,
               addTimer(t, when, repeat, interval)
        PROVE  PendingInv'
    <2>1. t \notin created /\ created' = created \cup {t}
      BY <1>9 DEF addTimer
    <2>2. CASE addTimerInLoop(t, when) /\ UNCHANGED pending
      BY <2>1, <2>2 DEF addTimerInLoop, PendingInv, LifeInv
    <2>3. CASE pending' = Append(pending, [call |-> "add", timer |-> t]) /\ UNCHANGED added
      <3>1. \A i \in DOMAIN pending' :
              \/ i \in DOMAIN pending /\ pending'[i] = pending[i]
              \/ i = Len(pending) + 1 /\ pending'[i] = [call |-> "add", timer |-> t]
        BY <2>3 DEF TypeOK
      <3> QED
        BY <2>1, <2>3, <3>1 DEF PendingInv, LifeInv
    <2> QED
      BY <1>9, <2>2, <2>3 DEF addTimer
  <1>10. ASSUME NEW t \in Timers, cancel(t)
         PROVE  PendingInv'
    <2>1. t \in created /\ created' = created /\ added' = added
      BY <1>10 DEF cancel, cancelInLoop, object
    <2>2. CASE UNCHANGED pending
      BY <2>1, <2>2 DEF PendingInv
    <2>3. CASE pending' = Append(pending, [call |-> "cancel", timer |-> t])
      <3>1. \A i \in DOMAIN pending' :
              \/ i \in DOMAIN pending /\ pending'[i] = pending[i]
              \/ i = Len(pending) + 1 /\ pending'[i] = [call |-> "cancel", timer |-> t]
        BY <2>3 DEF TypeOK
      <3> QED
        BY <2>1, <3>1 DEF PendingInv
    <2> QED
      BY <1>10, <2>2, <2>3 DEF cancel
  <1>11. CASE UNCHANGED vars
    BY <1>11 DEF vars, PendingInv
  <1> QED
    BY <1>1, <1>2, <1>8, <1>9, <1>10, <1>11, NextCases

(* Every step keeps BatchInv. *)
LEMMA NextKeepsBatch == Inv /\ [Next]_vars => BatchInv'
PROOF
  <1> SUFFICES ASSUME Inv, [Next]_vars PROVE BatchInv'
    OBVIOUS
  <1> USE DEF Inv
  <1>1. CASE tick \/ poll \/ timerReturns
    BY <1>1 DEF tick, poll, timerReturns, batch, BatchInv, TypeOK
  <1>2. CASE runPending
    BY <1>2 DEF runPending, batch, BatchInv
  <1>4. CASE handleRead
    BY <1>4 DEF handleRead, BatchInv, TypeOK
  <1>5. CASE getExpired
    <2>1. \A e \in Due : e[1] = expiration_[e[2]] /\ e[1] <= handlingNow
      BY DEF Due, SetsInv
    <2> QED
      BY <1>5, <2>1 DEF getExpired, BatchInv
  <1>7. CASE reset
    BY <1>7 DEF reset, BatchInv
  <1>8. ASSUME NEW e \in toRun, runTimer(e)
        PROVE  BatchInv'
    BY <1>8 DEF runTimer, BatchInv
  <1>9. ASSUME NEW t \in Timers, NEW when \in Nat, NEW interval \in Nat, NEW repeat \in BOOLEAN,
               addTimer(t, when, repeat, interval)
        PROVE  BatchInv'
    <2>1. \A e \in expired : e[2] # t /\ e[2] \in Timers
      BY <1>9 DEF addTimer, LifeInv, InBatch, TypeOK
    <2> QED
      BY <1>9, <2>1 DEF addTimer, batch, BatchInv, TypeOK
  <1>10. ASSUME NEW t \in Timers, cancel(t)
         PROVE  BatchInv'
    BY <1>10 DEF cancel, batch, BatchInv
  <1>11. CASE UNCHANGED vars
    BY <1>11 DEF vars, BatchInv
  <1> QED
    BY <1>1, <1>2, <1>4, <1>5, <1>7, <1>8, <1>9, <1>10, <1>11, NextCases

--------------------------------------------------------------------------------
(* Every step keeps SetsInv: a timer that is added is not active yet, and    *)
(* those that reset() restarts are not.                                      *)
LEMMA NextKeepsSets == Inv /\ [Next]_vars => SetsInv'
PROOF
  <1> SUFFICES ASSUME Inv, [Next]_vars PROVE SetsInv'
    OBVIOUS
  <1> USE DEF Inv
  <1>1. CASE tick \/ poll \/ handleRead \/ timerReturns
    BY <1>1 DEF tick, poll, handleRead, timerReturns, SetsInv
  <1>0. ASSUME NEW t \in Timers, cancelInLoop(t), UNCHANGED expiration_
        PROVE  SetsInv'
    <2>1. CASE t \in activeTimers_
      <3>1. timers_' = {<<expiration_[u], u>> : u \in activeTimers_} \ {<<expiration_[t], t>>}
        BY <1>0, <2>1 DEF cancelInLoop, SetsInv
      <3>2. activeTimers_' = activeTimers_ \ {t}
        BY <1>0, <2>1 DEF cancelInLoop
      <3> QED
        BY <1>0, <3>1, <3>2 DEF SetsInv
    <2>2. CASE t \notin activeTimers_
      BY <1>0, <2>2 DEF cancelInLoop, SetsInv
    <2> QED
      BY <2>1, <2>2
  <1>2. CASE runPending
    <2> DEFINE t == Head(pending).timer
    <2>1. t \in Timers /\ UNCHANGED expiration_
      BY <1>2, FirstPending DEF runPending
    <2>2. CASE addTimerInLoop(t, expiration_[t])
      BY <2>1, <2>2 DEF addTimerInLoop, SetsInv
    <2> QED
      BY <1>0, <1>2, <2>1, <2>2 DEF runPending
  <1>5. CASE getExpired
    <2>1. \A u \in activeTimers_ :
            u \in {e[2] : e \in Due} <=> <<expiration_[u], u>> \in Due
      BY DEF Due, SetsInv
    <2> QED
      BY <1>5, <2>1 DEF getExpired, SetsInv
  <1>7. CASE reset
    <2>1. \A u \in activeTimers_ : u \in Timers /\ u \notin Restarted
      BY DEF Restarted, LifeInv, InBatch, TypeOK
    <2>2. \A u \in activeTimers_ : expiration_'[u] = expiration_[u]
      BY <1>7, <2>1 DEF reset
    <2>3. /\ timers_' = timers_ \cup {<<expiration_'[t], t>> : t \in Restarted}
          /\ activeTimers_' = activeTimers_ \cup Restarted
      BY <1>7 DEF reset
    <2> QED
      BY <2>2, <2>3 DEF SetsInv
  <1>8. ASSUME NEW e \in toRun, runTimer(e)
        PROVE  SetsInv'
    BY <1>8 DEF runTimer, SetsInv
  <1>9. ASSUME NEW t \in Timers, NEW when \in Nat, NEW interval \in Nat, NEW repeat \in BOOLEAN,
               addTimer(t, when, repeat, interval)
        PROVE  SetsInv'
    <2>1. \A u \in activeTimers_ : u \in Timers /\ u # t
      BY <1>9 DEF addTimer, LifeInv, TypeOK
    <2>2. expiration_'[t] = when /\ \A u \in activeTimers_ : expiration_'[u] = expiration_[u]
      BY <1>9, <2>1 DEF addTimer, TypeOK
    <2>3. CASE addTimerInLoop(t, when)
      BY <2>2, <2>3 DEF addTimerInLoop, SetsInv
    <2>4. CASE UNCHANGED <<timers_, activeTimers_>>
      BY <2>2, <2>4 DEF SetsInv
    <2> QED
      BY <1>9, <2>3, <2>4 DEF addTimer
  <1>10. ASSUME NEW t \in Timers, cancel(t)
         PROVE  SetsInv'
    BY <1>0, <1>10 DEF cancel, SetsInv
  <1>11. CASE UNCHANGED vars
    BY <1>11 DEF vars, SetsInv
  <1> QED
    BY <1>1, <1>2, <1>5, <1>7, <1>8, <1>9, <1>10, <1>11, NextCases

(* Every step keeps CancelInv. *)
LEMMA NextKeepsCancel == Inv /\ [Next]_vars => CancelInv'
PROOF
  <1> SUFFICES ASSUME Inv, [Next]_vars PROVE CancelInv'
    OBVIOUS
  <1> USE DEF Inv
  <1>1. CASE tick \/ poll \/ handleRead \/ timerReturns
    BY <1>1 DEF tick, poll, handleRead, timerReturns, batch, CancelInv, InBatch
  <1>0. ASSUME NEW t \in Timers, cancelInLoop(t), UNCHANGED expired,
               pc \in {"loop", "callback"}
        PROVE  CancelInv'
    <2>1. t \in InBatch => callingExpiredTimers_ /\ t \notin activeTimers_
      BY <1>0 DEF BatchInv, InBatch, LifeInv
    <2>2. InBatch' = InBatch
      BY <1>0 DEF InBatch
    <2> QED
      BY <1>0, <2>1, <2>2 DEF cancelInLoop, CancelInv
  <1>2. CASE runPending
    <2> DEFINE t == Head(pending).timer
    <2>1. t \in Timers /\ UNCHANGED expired /\ pc = "loop"
      BY <1>2, FirstPending DEF runPending, batch
    <2>2. CASE addTimerInLoop(t, expiration_[t]) /\ Head(pending).call = "add"
      BY <1>2, <2>1, <2>2, FirstPending DEF addTimerInLoop, CancelInv, InBatch, LifeInv
    <2> QED
      BY <1>0, <1>2, <2>1, <2>2 DEF runPending
  <1>5. CASE getExpired
    <2>1. {e[2] : e \in Due} \subseteq activeTimers_
      BY DEF Due, SetsInv
    <2> QED
      BY <1>5, <2>1 DEF getExpired, CancelInv, InBatch
  <1>7. CASE reset
    <2>1. Restarted \cap cancelled = {}
      BY DEF Restarted, InBatch, CancelInv
    <2> QED
      BY <1>7, <2>1 DEF reset, CancelInv, InBatch
  <1>8. ASSUME NEW e \in toRun, runTimer(e)
        PROVE  CancelInv'
    BY <1>8 DEF runTimer, CancelInv, InBatch
  <1>9. ASSUME NEW t \in Timers, NEW when \in Nat, NEW interval \in Nat, NEW repeat \in BOOLEAN,
               addTimer(t, when, repeat, interval)
        PROVE  CancelInv'
    BY <1>9 DEF addTimer, addTimerInLoop, batch, CancelInv, InBatch, LifeInv
  <1>10. ASSUME NEW t \in Timers, cancel(t)
         PROVE  CancelInv'
    <2>1. CASE InUserCode /\ cancelInLoop(t)
      BY <1>0, <1>10, <2>1 DEF cancel, batch, InUserCode
    <2>2. CASE UNCHANGED <<activeTimers_, cancelingTimers_, cancelled>>
      BY <1>10, <2>2 DEF cancel, batch, CancelInv, InBatch
    <2> QED
      BY <1>10, <2>1, <2>2 DEF cancel
  <1>11. CASE UNCHANGED vars
    BY <1>11 DEF vars, CancelInv, InBatch
  <1> QED
    BY <1>1, <1>2, <1>5, <1>7, <1>8, <1>9, <1>10, <1>11, NextCases

--------------------------------------------------------------------------------
(* The entry e needs nothing more of the timerfd. *)
Covers(e) == armed # 0 /\ armed <= Later(e[1], now + MinDelay)

(* resetTimerfd() for a time covers every entry that is not earlier. *)
LEMMA ResetCovers ==
  ASSUME TypeOK, NEW when \in Nat, resetTimerfd(when), UNCHANGED now,
         NEW e \in Entries, when <= e[1]
  PROVE  Covers(e)'
  BY MinDelayAssumption
     DEF Covers, resetTimerfd, howMuchTimeFromNow, Later, TypeOK, Entries

(* addTimerInLoop() leaves every timer covered that was, and the new one if  *)
(* one before it was.                                                        *)
LEMMA AddCovers ==
  ASSUME TypeOK, NEW t \in Timers, NEW when \in Nat, addTimerInLoop(t, when), UNCHANGED now
  PROVE  \/ \A e \in timers_' : Covers(e)'
         \/ /\ UNCHANGED fd
            /\ \A e \in timers_' : e \in timers_ \/ \E d \in timers_ : d[1] <= e[1]
PROOF
  <1>1. \A e \in timers_ : e \in Entries /\ e[1] \in Nat
    BY DEF TypeOK, Entries
  <1>2. <<when, t>> \in Entries
    BY DEF Entries
  <1>3. timers_' = timers_ \cup {<<when, t>>}
    BY DEF addTimerInLoop
  <1>4. CASE earliestChanged(when)
    <2>1. resetTimerfd(when)
      BY <1>4 DEF addTimerInLoop
    <2>2. \A e \in timers_' : e \in Entries /\ when <= e[1]
      BY <1>1, <1>2, <1>3, <1>4 DEF earliestChanged
    <2> QED
      BY <2>1, <2>2, ResetCovers
  <1>5. CASE ~earliestChanged(when)
    <2>1. PICK d \in timers_ : ~(when < d[1])
      BY <1>5 DEF earliestChanged
    <2>2. d[1] <= when
      BY <1>1, <2>1
    <2> QED
      BY <1>3, <1>5, <2>2 DEF addTimerInLoop
  <1> QED
    BY <1>4, <1>5

(* Every step keeps TimerfdInv. *)
LEMMA NextKeepsTimerfd == Inv /\ [Next]_vars => TimerfdInv'
PROOF
  <1> SUFFICES ASSUME Inv, [Next]_vars PROVE TimerfdInv'
    OBVIOUS
  <1> USE MinDelayAssumption DEF Inv
  <1>a. \A e \in timers_ : e \in Entries /\ e[1] \in Nat
    BY DEF TypeOK, Entries
  <1>b. /\ now \in Nat \ {0} /\ armed \in Nat
        /\ pc = "loop" => \A e \in timers_ : readable \/ timerActive \/ Covers(e)
        /\ pc \in {"expired", "callback"} =>
             \A e \in timers_ : e[1] = 0 => readable \/ Covers(e)
    BY <1>a DEF TypeOK, TimerfdInv, NoLostTimer, Covers, Later
  <1>c. ASSUME /\ pc' = "loop" =>
                    \A e \in timers_' : readable' \/ timerActive' \/ Covers(e)'
               /\ pc' \in {"expired", "callback"} =>
                    \A e \in timers_' : e[1] = 0 => readable' \/ Covers(e)'
        PROVE  TimerfdInv'
    <2>1. \A e \in timers_' : e[1] \in Nat
      BY NextKeepsTypes DEF TypeOK, Entries
    <2>2. now' \in Nat /\ armed' \in Nat
      BY NextKeepsTypes DEF TypeOK
    <2>3. NoLostTimer'
      BY <1>c DEF NoLostTimer, Covers
    <2>4. \A e \in timers_' : e[1] = 0 /\ Covers(e)' => armed' # 0 /\ armed' <= now' + MinDelay
      <3>1. \A n \in Nat : Later(0, n + MinDelay) = n + MinDelay
        BY DEF Later
      <3>2. \A e : Covers(e)' <=> armed' # 0 /\ armed' <= Later(e[1], now' + MinDelay)
        BY DEF Covers, Later
      <3> QED
        BY <2>2, <3>1, <3>2
    <2> QED
      BY <1>c, <2>3, <2>4 DEF TimerfdInv
  <1>d. ASSUME UNCHANGED <<fd, now, timerActive, pc>>, timers_' \subseteq timers_
        PROVE  TimerfdInv'
    <2>1. \A e : Covers(e)' <=> Covers(e)
      BY <1>d DEF Covers, Later, fd
    <2> QED
      BY <1>b, <1>c, <1>d, <2>1 DEF fd
  <1>e. ASSUME NEW t \in Timers, NEW when \in Nat, addTimerInLoop(t, when),
               UNCHANGED <<now, timerActive, pc>>, InUserCode
        PROVE  TimerfdInv'
    <2>1. CASE \A e \in timers_' : Covers(e)'
      BY <1>c, <2>1
    <2>2. CASE /\ UNCHANGED fd
               /\ \A e \in timers_' : e \in timers_ \/ \E d \in timers_ : d[1] <= e[1]
      <3>1. \A e \in timers_' : e[1] \in Nat
        BY <1>e, <1>a DEF addTimerInLoop
      <3>2. \A e \in timers_' : Covers(e)' <=> Covers(e)
        BY <1>e, <2>2 DEF Covers, Later, fd
      <3>3. \A e \in timers_', d \in timers_ : d[1] <= e[1] /\ Covers(d) => Covers(e)
        BY <1>a, <1>b, <3>1 DEF Covers, Later
      <3>4. \A e \in timers_', d \in timers_ : d[1] <= e[1] /\ e[1] = 0 => d[1] = 0
        BY <1>a
      <3> QED
        BY <1>b, <1>c, <1>e, <2>2, <3>2, <3>3, <3>4 DEF fd
    <2> QED
      BY <1>e, <2>1, <2>2, AddCovers
  <1>1. CASE tick
    <2>1. \A e \in timers_ : Covers(e) => readable' \/ Covers(e)'
      BY <1>1, <1>a, <1>b DEF tick, Covers, Later, fd
    <2>2. readable => readable'
      BY <1>1 DEF tick, fd
    <2> QED
      BY <1>1, <1>b, <1>c, <2>1, <2>2 DEF tick
  <1>2. CASE runPending
    <2> DEFINE t == Head(pending).timer
    <2>1. t \in Timers /\ UNCHANGED <<now, timerActive, pc>> /\ pc = "loop"
      BY <1>2, FirstPending DEF runPending
    <2>2. expiration_[t] \in Nat
      BY <2>1 DEF TypeOK
    <2>3. CASE cancelInLoop(t)
      BY <1>d, <2>1, <2>3 DEF cancelInLoop
    <2>4. CASE addTimerInLoop(t, expiration_[t])
      BY <1>e, <2>1, <2>2, <2>4 DEF InUserCode
    <2> QED
      BY <1>2, <2>3, <2>4 DEF runPending
  <1>3. CASE poll
    BY <1>3, <1>c DEF poll
  <1>4. CASE handleRead
    BY <1>4, <1>c DEF handleRead
  <1>5. CASE getExpired
    <2>1. \A e \in timers_' : e[1] # 0
      BY <1>5, <1>a DEF getExpired, Due, TypeOK
    <2> QED
      BY <1>5, <1>c, <2>1 DEF getExpired
  <1>6. CASE timerReturns
    <2>1. \A e \in timers_ : Covers(e)' <=> Covers(e)
      BY <1>6 DEF timerReturns, Covers, Later, fd
    <2> QED
      BY <1>6, <1>b, <1>c, <2>1 DEF timerReturns, fd
  <1>7. CASE reset
    <2>1. \A e \in timers_' : e \in Entries /\ e[1] \in Nat
      BY NextKeepsTypes DEF TypeOK, Entries
    <2>2. ASSUME NEW e \in timers_', \A d \in timers_' : e[1] <= d[1], resetTimerfd(e[1])
          PROVE  TimerfdInv'
      <3>1. UNCHANGED now
        BY <1>7 DEF reset
      <3>2. \A d \in timers_' : Covers(d)'
        BY <2>1, <2>2, <3>1, ResetCovers
      <3> QED
        BY <1>c, <3>2
    <2>3. ASSUME NEW z \in timers_', z[1] = 0, UNCHANGED fd
          PROVE  TimerfdInv'
      <3>1. \A t \in Restarted : expiration_'[t] > 0
        BY <1>7 DEF reset, Restarted, restart, addTime, BatchInv, TypeOK
      <3>2. timers_' = timers_ \cup {<<expiration_'[t], t>> : t \in Restarted}
        BY <1>7 DEF reset
      <3>0. z \in timers_
        BY <2>3, <3>1, <3>2
      <3>3. readable \/ (armed # 0 /\ armed <= now + MinDelay)
        BY <1>7, <2>3, <3>0 DEF reset, TimerfdInv
      <3>4. \A e \in timers_' : readable' \/ Covers(e)'
        BY <1>7, <1>b, <2>1, <2>3, <3>3 DEF reset, Covers, Later, fd
      <3> QED
        BY <1>c, <3>4
    <2>4. CASE timers_' = {}
      BY <1>c, <2>4
    <2> QED
      BY <1>7, <2>2, <2>3, <2>4 DEF reset
  <1>8. ASSUME NEW e \in toRun, runTimer(e)
        PROVE  TimerfdInv'
    <2>1. \A d \in timers_ : Covers(d)' <=> Covers(d)
      BY <1>8 DEF runTimer, Covers, Later, fd
    <2> QED
      BY <1>8, <1>b, <1>c, <2>1 DEF runTimer, fd
  <1>9. ASSUME NEW t \in Timers, NEW when \in Nat, NEW interval \in Nat, NEW repeat \in BOOLEAN,
               addTimer(t, when, repeat, interval)
        PROVE  TimerfdInv'
    <2>1. UNCHANGED <<now, timerActive, pc>>
      BY <1>9 DEF addTimer
    <2> QED
      BY <1>9, <1>d, <1>e, <2>1 DEF addTimer
  <1>10. ASSUME NEW t \in Timers, cancel(t)
         PROVE  TimerfdInv'
    <2>1. UNCHANGED <<fd, now, timerActive, pc>> /\ timers_' \subseteq timers_
      BY <1>10 DEF cancel, cancelInLoop
    <2> QED
      BY <1>d, <2>1
  <1>11. CASE UNCHANGED vars
    <2>1. UNCHANGED <<fd, now, timerActive, pc>> /\ timers_' \subseteq timers_
      BY <1>11 DEF vars, fd
    <2> QED
      BY <1>d, <2>1
  <1> QED
    BY <1>1, <1>2, <1>3, <1>4, <1>5, <1>6, <1>7, <1>8, <1>9, <1>10, <1>11, NextCases

--------------------------------------------------------------------------------
(* The schedule is in natural numbers, starts at first and goes on by        *)
(* intervals.                                                                *)
LEMMA SlotFacts ==
  ASSUME TypeOK, NEW t \in Timers
  PROVE  /\ \A n \in Nat : Slot(t, n) \in Nat
         /\ Slot(t, 0) = first[t]
         /\ \A n \in Nat \ {0} : Slot(t, n) = Slot(t, n - 1) + interval_[t]
PROOF
  <1>1. first[t] \in Nat /\ interval_[t] \in Nat
    BY DEF TypeOK
  <1>2. \A n \in Nat, i \in Nat : n * i \in Nat /\ (n > 0 => (n - 1) * i + i = n * i)
    OBVIOUS
  <1>3. \A n \in Nat \ {0} : (n - 1) * interval_[t] \in Nat
    BY <1>1, <1>2
  <1> QED
    BY <1>1, <1>2, <1>3 DEF Slot

(* A step that leaves a timer and its schedule alone, and does not put it    *)
(* where it was not.                                                         *)
LEMMA StaysScheduled ==
  ASSUME TypeOK, TypeOK', NEW t \in Timers, Scheduled(t),
         UNCHANGED <<runs[t], first[t], interval_[t], repeat_[t], expiration_[t]>>,
         now <= now', UNCHANGED handlingNow \/ t \notin InBatch',
         t \in added <=> t \in added', t \in created <=> t \in created',
         t \in (activeTimers_ \cup StillToRun)' => t \in activeTimers_ \cup StillToRun,
         t \in (InBatch \ StillToRun)' => t \in InBatch \ StillToRun
  PROVE  Scheduled(t)'
PROOF
  <1>1. \A n : Slot(t, n)' = Slot(t, n)
    BY DEF Slot
  <1>2. runs[t] \in Nat /\ \A n \in Nat : Slot(t, n) \in Nat
    BY SlotFacts DEF TypeOK
  <1>3. now \in Nat /\ now' \in Nat
    BY DEF TypeOK
  <1>4. runs'[t] > 0 => Slot(t, runs[t] - 1)' <= now' /\ (repeat_'[t] \/ runs'[t] = 1)
    BY <1>1, <1>2, <1>3 DEF Scheduled
  <1> QED
    BY <1>1, <1>4 DEF Scheduled

(* Every step keeps ScheduleInv. *)
LEMMA NextKeepsSchedule == Inv /\ [Next]_vars => ScheduleInv'
PROOF
  <1> SUFFICES ASSUME Inv, [Next]_vars, NEW u \in Timers PROVE Scheduled(u)'
    BY DEF ScheduleInv
  <1> USE DEF Inv
  <1>a. Scheduled(u) /\ TypeOK'
    BY NextKeepsTypes DEF ScheduleInv
  <1>b. now \in Nat /\ handlingNow \in Nat /\ runs[u] \in Nat /\ interval_[u] \in Nat
    BY DEF TypeOK
  <1>c. u \in activeTimers_ \/ u \in InBatch => u \in added
    BY DEF LifeInv
  <1>d. u \in InBatch => u \notin activeTimers_
    BY DEF LifeInv
  <1>e. u \in StillToRun => u \in InBatch
    BY DEF StillToRun, InBatch, TypeOK
  <1>1. CASE tick \/ poll \/ timerReturns \/ UNCHANGED vars
    <2>1. /\ UNCHANGED <<runs, first, interval_, repeat_, expiration_, handlingNow,
                         added, created, activeTimers_, expired, toRun>>
          /\ now <= now'
      BY <1>1, <1>b DEF tick, poll, timerReturns, vars, object, batch
    <2> QED
      BY <1>a, <2>1, StaysScheduled DEF InBatch, StillToRun
  <1>2. CASE handleRead
    <2>1. /\ UNCHANGED <<runs, first, interval_, repeat_, expiration_,
                         added, created, activeTimers_, expired, toRun>>
          /\ now <= now' /\ expired = {}
      BY <1>2, <1>b DEF handleRead, object, BatchInv
    <2> QED
      BY <1>a, <2>1, StaysScheduled DEF InBatch, StillToRun
  <1>3. CASE runPending
    <2> DEFINE t == Head(pending).timer
    <2>1. /\ UNCHANGED <<runs, first, interval_, repeat_, expiration_, handlingNow,
                         created, expired, toRun>>
          /\ now <= now'
      BY <1>3, <1>b DEF runPending, object, batch
    <2>2. CASE cancelInLoop(t)
      <3>1. added' = added /\ activeTimers_' \subseteq activeTimers_
        BY <2>2 DEF cancelInLoop
      <3> QED
        BY <1>a, <2>1, <3>1, StaysScheduled DEF InBatch, StillToRun
    <2>3. CASE Head(pending).call = "add" /\ addTimerInLoop(t, expiration_[t])
      <3>1. added' = added \cup {t} /\ activeTimers_' = activeTimers_ \cup {t}
        BY <2>3 DEF addTimerInLoop
      <3>2. t \in created /\ t \notin added
        BY <1>3, <2>3, FirstPending DEF runPending
      <3>3. CASE u # t
        BY <1>a, <2>1, <3>1, <3>3, StaysScheduled DEF InBatch, StillToRun
      <3>4. CASE u = t
        <4>1. runs'[u] = 0 /\ expiration_'[u] = first'[u] /\ u \notin InBatch'
          BY <1>a, <1>c, <2>1, <3>2, <3>4 DEF Scheduled, InBatch
        <4>2. Slot(u, 0)' = first'[u] /\ first'[u] \in Nat
          BY <1>a DEF Slot, TypeOK
        <4> QED
          BY <3>1, <3>4, <4>1, <4>2 DEF Scheduled
      <3> QED
        BY <3>3, <3>4
    <2> QED
      BY <1>3, <2>2, <2>3 DEF runPending
  <1>5. CASE getExpired
    <2>1. /\ UNCHANGED <<runs, first, interval_, repeat_, expiration_, handlingNow,
                         created, added>>
          /\ now <= now'
      BY <1>5, <1>b DEF getExpired, object
    <2>2. {e[2] : e \in Due} \subseteq activeTimers_
      BY DEF Due, SetsInv
    <2>3. InBatch' = {e[2] : e \in Due} /\ StillToRun' = {e[2] : e \in Due}
      BY <1>5 DEF getExpired, InBatch, StillToRun
    <2>4. activeTimers_' \subseteq activeTimers_
      BY <1>5 DEF getExpired
    <2> QED
      BY <1>a, <2>1, <2>2, <2>3, <2>4, StaysScheduled
  <1>7. CASE reset
    <2>1. /\ UNCHANGED <<runs, first, interval_, repeat_, handlingNow, created, added, now>>
          /\ activeTimers_' = activeTimers_ \cup Restarted
          /\ InBatch' = {} /\ StillToRun = {} /\ StillToRun' = {}
      BY <1>7 DEF reset, object, InBatch, StillToRun
    <2>2. expiration_'[u] = IF u \in Restarted THEN restart(u) ELSE expiration_[u]
      BY <1>7 DEF reset
    <2>3. CASE u \notin Restarted
      BY <1>a, <1>b, <2>1, <2>2, <2>3, StaysScheduled
    <2>4. CASE u \in Restarted
      <3>1. u \in InBatch /\ repeat_[u]
        BY <2>4 DEF Restarted, InBatch
      <3>2. runs[u] > 0 /\ Slot(u, runs[u] - 1) <= handlingNow
        BY <1>a, <2>1, <3>1 DEF Scheduled
      <3>3. expiration_'[u] = handlingNow + interval_[u]
        BY <2>2, <2>4 DEF restart, addTime
      <3>4. /\ Slot(u, runs[u]) = Slot(u, runs[u] - 1) + interval_[u]
            /\ Slot(u, runs[u] - 1) \in Nat
        BY <1>b, <3>2, SlotFacts
      <3>5. Slot(u, runs[u]) <= expiration_'[u]
        BY <1>b, <3>2, <3>3, <3>4
      <3>6. \A n : Slot(u, n)' = Slot(u, n)
        BY <2>1 DEF Slot
      <3> QED
        BY <1>a, <1>c, <2>1, <3>1, <3>2, <3>5, <3>6 DEF Scheduled
    <2> QED
      BY <2>3, <2>4
  <1>8. ASSUME NEW e \in toRun, runTimer(e)
        PROVE  Scheduled(u)'
    <2>1. /\ UNCHANGED <<first, interval_, repeat_, expiration_, handlingNow, created,
                         added, now, activeTimers_, expired>>
          /\ toRun' = toRun \ {e}
          /\ runs' = [runs EXCEPT ![e[2]] = @ + 1]
      BY <1>8 DEF runTimer, object
    <2>2. InBatch' = InBatch /\ StillToRun' \subseteq StillToRun
      BY <2>1 DEF InBatch, StillToRun
    <2>3. CASE u # e[2]
      <3>1. u \in StillToRun => u \in StillToRun'
        BY <2>1, <2>3 DEF StillToRun
      <3>2. runs'[u] = runs[u]
        BY <2>1, <2>3 DEF TypeOK
      <3> QED
        BY <1>a, <1>b, <2>1, <2>2, <3>1, <3>2, StaysScheduled
    <2>4. CASE u = e[2]
      <3>1. e \in expired /\ e[1] = expiration_[u] /\ e[1] <= handlingNow /\ handlingNow <= now
        BY <2>4 DEF TypeOK, BatchInv
      <3>2. u \in InBatch /\ u \in StillToRun
        BY <2>4, <3>1 DEF InBatch, StillToRun
      <3>3. \A d \in toRun : d[2] = u => d = e
        BY <2>4, <3>1 DEF TypeOK, BatchInv, Entries
      <3>4. u \notin StillToRun'
        BY <2>1, <3>3 DEF StillToRun
      <3>0. runs \in [Timers -> Nat]
        BY DEF TypeOK
      <3>5. runs'[u] = runs[u] + 1 /\ runs'[u] > 0 /\ runs'[u] - 1 = runs[u]
        BY <1>b, <2>1, <2>4, <3>0
      <3>6. Slot(u, runs[u]) <= expiration_[u] /\ (repeat_[u] \/ runs[u] = 0)
        BY <1>a, <3>2 DEF Scheduled
      <3>7. Slot(u, runs[u]) \in Nat /\ expiration_[u] \in Nat
        BY <1>b, SlotFacts DEF TypeOK
      <3>8. Slot(u, runs[u]) <= handlingNow /\ Slot(u, runs[u]) <= now
        BY <1>b, <3>1, <3>6, <3>7
      <3>9. \A n : Slot(u, n)' = Slot(u, n)
        BY <2>1 DEF Slot
      <3> QED
        BY <1>c, <1>d, <2>1, <2>2, <3>2, <3>4, <3>5, <3>6, <3>8, <3>9 DEF Scheduled
    <2> QED
      BY <2>3, <2>4
  <1>9. ASSUME NEW t \in Timers, NEW when \in Nat, NEW interval \in Nat, NEW repeat \in BOOLEAN,
               addTimer(t, when, repeat, interval)
        PROVE  Scheduled(u)'
    <2>1. /\ UNCHANGED <<runs, handlingNow, now, expired, toRun>>
          /\ t \notin created /\ created' = created \cup {t}
          /\ expiration_' = [expiration_ EXCEPT ![t] = when]
          /\ interval_' = [interval_ EXCEPT ![t] = interval]
          /\ repeat_' = [repeat_ EXCEPT ![t] = repeat]
          /\ first' = [first EXCEPT ![t] = when]
      BY <1>9 DEF addTimer, batch
    <2>2. /\ activeTimers_' = activeTimers_ \/ activeTimers_' = activeTimers_ \cup {t}
          /\ added' = added \/ added' = added \cup {t}
      BY <1>9 DEF addTimer, addTimerInLoop
    <2>3. InBatch' = InBatch /\ StillToRun' = StillToRun
      BY <2>1 DEF InBatch, StillToRun
    <2>4. CASE u # t
      <3>1. /\ runs'[u] = runs[u] /\ expiration_'[u] = expiration_[u]
            /\ interval_'[u] = interval_[u] /\ first'[u] = first[u]
        BY <2>1, <2>4 DEF TypeOK
      <3>2. repeat_'[u] = repeat_[u]
        BY <2>1, <2>4, Zenon DEF TypeOK
      <3> QED
        BY <1>a, <1>b, <2>1, <2>2, <2>3, <2>4, <3>1, <3>2, StaysScheduled
    <2>5. CASE u = t
      <3>1. u \notin added /\ u \notin InBatch /\ runs'[u] = 0 /\ u \notin StillToRun
        BY <1>a, <1>c, <1>e, <2>1, <2>5 DEF Scheduled, LifeInv
      <3>2. expiration_'[u] = when /\ first'[u] = when
        BY <2>1, <2>5 DEF TypeOK
      <3>3. Slot(u, 0)' = first'[u]
        BY <1>a DEF Slot, TypeOK
      <3> QED
        BY <2>3, <3>1, <3>2, <3>3 DEF Scheduled
    <2> QED
      BY <2>4, <2>5
  <1>10. ASSUME NEW t \in Timers, cancel(t)
         PROVE  Scheduled(u)'
    <2>1. /\ UNCHANGED <<runs, first, interval_, repeat_, expiration_, handlingNow,
                         created, added, expired, toRun>>
          /\ now <= now' /\ activeTimers_' \subseteq activeTimers_
      BY <1>10, <1>b DEF cancel, cancelInLoop, object, batch
    <2> QED
      BY <1>a, <2>1, StaysScheduled DEF InBatch, StillToRun
  <1> QED
    BY <1>1, <1>2, <1>3, <1>5, <1>7, <1>8, <1>9, <1>10, NextCases

--------------------------------------------------------------------------------
(* Every step keeps the invariant. *)
LEMMA NextKeepsInv == Inv /\ [Next]_vars => Inv'
  BY NextKeepsTypes, NextKeepsLife, NextKeepsPending, NextKeepsBatch, NextKeepsSets,
     NextKeepsCancel, NextKeepsTimerfd, NextKeepsSchedule DEF Inv

(* The invariant holds in every state. *)
LEMMA InvHolds == Spec => []Inv
  BY InitInv, NextKeepsInv, PTL DEF Spec

(* TypeOK: the types of TimerQueue's state. *)
THEOREM TimerTypeCorrect == Spec => []TypeOK
PROOF
  <1>1. Inv => TypeOK
    BY DEF Inv
  <1> QED
    BY <1>1, InvHolds, PTL

(* insert, cancelInLoop, getExpired and reset keep timers_ and activeTimers_ *)
(* in step, whatever callbacks add and cancel meanwhile.                     *)
THEOREM SetsStayInStep == Spec => []SetsAgree
PROOF
  <1>1. Inv => SetsAgree
    BY DEF Inv, SetsInv, SetsAgree
  <1> QED
    BY <1>1, InvHolds, PTL

(* addTimerInLoop and reset: no timer waits for a timerfd that nothing will  *)
(* set, whatever the order of the additions, the expiries and the clock.     *)
THEOREM TimerNeverLost == Spec => []NoLostTimer
PROOF
  <1>1. Inv => NoLostTimer
    BY DEF Inv, TimerfdInv
  <1> QED
    BY <1>1, InvHolds, PTL

(* cancelInLoop and reset: a timer cancelled after it was added is never     *)
(* active again.                                                             *)
THEOREM CancelledNeverRevived == Spec => []CancelledStaysCancelled
PROOF
  <1>1. Inv => CancelledStaysCancelled
    BY DEF Inv, CancelInv, CancelledStaysCancelled
  <1> QED
    BY <1>1, InvHolds, PTL

(* getExpired and restart: a timer never runs ahead of its schedule, and a   *)
(* one-shot timer runs once.                                                 *)
THEOREM NeverEarly == Spec => []NeverAheadOfSchedule
PROOF
  <1>1. Inv => NeverAheadOfSchedule
    BY DEF Inv, ScheduleInv, Scheduled, Slot, NeverAheadOfSchedule
  <1> QED
    BY <1>1, InvHolds, PTL

================================================================================
