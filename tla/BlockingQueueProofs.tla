--------------------------- MODULE BlockingQueueProofs ---------------------------
(***************************************************************************)
(* The queues keep their types, holder_ tells the truth and no signal is    *)
(* lost, for any number of threads and any capacity.                         *)
(***************************************************************************)
EXTENDS BlockingQueue, FiniteSetTheorems, TLAPS

Holding == {"locked", "inside", "waiting", "leaving", "unlocking"}

(* The mutex is owned by the thread whose place says so, and by no other. *)
OwnerInv == \A t \in Threads : owner = t <=> at[t] \in Holding

(* holder_ is set exactly between assignHolder() and unassignHolder(). *)
HolderInv == \A t \in Threads : holder_ = t <=> at[t] \in {"inside", "leaving"}

(* Whom a signal finds is asleep. *)
SleepInv == \A c \in Conditions : \A t \in sleeping[c] : at[t] = "asleep"

Inv == TypeOK /\ OwnerInv /\ HolderInv /\ SleepInv

(* The threads that notify() may wake up are asleep. *)
LEMMA NotifiedAreAsleep ==
  ASSUME Inv, NEW c \in Conditions, NEW woken \in notify(c)
  PROVE  /\ woken \subseteq Threads
         /\ \A t \in woken : at[t] = "asleep"
  BY DEF Inv, TypeOK, MutexTypeOK, SleepInv, notify

(* The body of a method ends: the mutex is still held, holder_ still set. *)
LEMMA LeaveKeepsInv ==
  ASSUME Inv, NEW t \in Threads, at[t] = "inside",
         NEW woken \in SUBSET Threads, \A u \in woken : at[u] = "asleep",
         leave(t, woken)
  PROVE  MutexTypeOK' /\ OwnerInv' /\ HolderInv' /\ SleepInv'
PROOF
  <1>1. MutexTypeOK'
    BY DEF Inv, TypeOK, MutexTypeOK, leave, Places
  <1>2. \A u \in Threads : at[u] \in Holding <=> at'[u] \in Holding
    BY DEF Inv, TypeOK, MutexTypeOK, leave, Holding
  <1>3. \A u \in Threads : at[u] \in {"inside", "leaving"} <=> at'[u] \in {"inside", "leaving"}
    BY DEF Inv, TypeOK, MutexTypeOK, leave
  <1>4. OwnerInv' /\ HolderInv'
    BY <1>2, <1>3 DEF Inv, OwnerInv, HolderInv, leave
  <1>5. SleepInv'
    BY DEF Inv, TypeOK, MutexTypeOK, SleepInv, leave
  <1> QED
    BY <1>1, <1>4, <1>5

(* The steps of the mutex and its conditions. *)
LEMMA GuardKeepsInv ==
  ASSUME Inv, NEW t \in Threads, guard(t)
  PROVE  Inv'
PROOF
  <1> USE NoThreadAssumption
  <1>0. TypeOK' <=> MutexTypeOK'
    BY DEF Inv, TypeOK, guard
  <1>c. condition(t) \in Conditions
    BY QueueAssumption DEF condition
  <1>1. CASE lock(t)
    BY <1>0, <1>1 DEF Inv, TypeOK, MutexTypeOK, OwnerInv, HolderInv, SleepInv, Holding, Places, lock
  <1>2. CASE assignHolder(t)
    BY <1>0, <1>2 DEF Inv, TypeOK, MutexTypeOK, OwnerInv, HolderInv, SleepInv, Holding, Places, assignHolder
  <1>3. CASE sleep(t, condition(t))
    BY <1>0, <1>c, <1>3 DEF Inv, TypeOK, MutexTypeOK, OwnerInv, HolderInv, SleepInv, Holding, Places, sleep
  <1>4. CASE wakesUp(t)
    BY <1>0, <1>4 DEF Inv, TypeOK, MutexTypeOK, OwnerInv, HolderInv, SleepInv, Holding, Places, wakesUp
  <1>5. CASE unassignHolder(t)
    BY <1>0, <1>5 DEF Inv, TypeOK, MutexTypeOK, OwnerInv, HolderInv, SleepInv, Holding, Places, unassignHolder
  <1>6. CASE unlock(t)
    BY <1>0, <1>6 DEF Inv, TypeOK, MutexTypeOK, OwnerInv, HolderInv, SleepInv, Holding, Places, unlock
  <1> QED
    BY <1>1, <1>2, <1>3, <1>4, <1>5, <1>6 DEF guard

(* Every step keeps the invariant. *)
LEMMA NextKeepsInv == Inv /\ [Next]_vars => Inv'
PROOF
  <1> SUFFICES ASSUME Inv, [Next]_vars PROVE Inv'
    OBVIOUS
  <1> USE NoThreadAssumption
  <1>1. ASSUME NEW t \in Threads, NEW method \in {"put", "take", "look"}, begin(t, method)
        PROVE  Inv'
    BY <1>1 DEF Inv, TypeOK, MutexTypeOK, OwnerInv, HolderInv, SleepInv, Holding, Places, begin
  <1>2. ASSUME NEW t \in Threads, guard(t)
        PROVE  Inv'
    BY <1>2, GuardKeepsInv
  <1>3. ASSUME NEW t \in Threads, waitInLoop(t)
        PROVE  Inv'
    BY <1>3 DEF Inv, TypeOK, MutexTypeOK, OwnerInv, HolderInv, SleepInv, Holding, Places, waitInLoop, wait
  <1>4. ASSUME NEW t \in Threads, put(t)
        PROVE  Inv'
    <2>1. PICK woken \in notify("notEmpty_") : leave(t, woken)
      BY <1>4 DEF put
    <2>2. MutexTypeOK' /\ OwnerInv' /\ HolderInv' /\ SleepInv'
      BY <1>4, <2>1, QueueAssumption, NotifiedAreAsleep, LeaveKeepsInv DEF put
    <2>3. queue_' \in Nat
      BY <1>4 DEF put, Inv, TypeOK
    <2> QED
      BY <1>4, <2>2, <2>3 DEF put, Inv, TypeOK
  <1>5. ASSUME NEW t \in Threads, take(t)
        PROVE  Inv'
    <2>1. PICK woken \in notify("notFull_") : leave(t, woken)
      BY <1>5 DEF take
    <2>2. MutexTypeOK' /\ OwnerInv' /\ HolderInv' /\ SleepInv'
      BY <1>5, <2>1, QueueAssumption, NotifiedAreAsleep, LeaveKeepsInv DEF take
    <2>3. queue_' \in Nat
      BY <1>5 DEF take, Inv, TypeOK, empty
    <2> QED
      BY <1>5, <2>2, <2>3 DEF take, Inv, TypeOK
  <1>6. ASSUME NEW t \in Threads, look(t)
        PROVE  Inv'
    <2>1. MutexTypeOK' /\ OwnerInv' /\ HolderInv' /\ SleepInv'
      BY <1>6, LeaveKeepsInv DEF look
    <2> QED
      BY <1>6, <2>1 DEF look, Inv, TypeOK
  <1>7. CASE UNCHANGED vars
    BY <1>7 DEF vars, mutexVars, Inv, TypeOK, MutexTypeOK, OwnerInv, HolderInv, SleepInv
  <1> QED
    BY <1>1, <1>2, <1>3, <1>4, <1>5, <1>6, <1>7 DEF Next

(* The invariant holds in every reachable state. *)
LEMMA InvHolds == Spec => []Inv
PROOF
  <1>1. Init => Inv
    BY NoThreadAssumption
    DEF Init, MutexInit, Inv, TypeOK, MutexTypeOK, OwnerInv, HolderInv, SleepInv, Holding, Places
  <1> QED
    BY <1>1, NextKeepsInv, PTL DEF Spec

(* BlockingQueue.h, BoundedBlockingQueue.h: both queues keep their types,    *)
(* for any number of threads and any capacities; take() never finds less     *)
(* than nothing.                                                             *)
THEOREM QueueTypeCorrect == Spec => []TypeOK
PROOF
  <1>1. Inv => TypeOK
    BY DEF Inv
  <1> QED
    BY <1>1, InvHolds, PTL

(* Mutex.h, Condition.h: for any number of threads, holder_ names the thread *)
(* inside and nobody else, through every wait and wakeup.                    *)
THEOREM HolderTellsTruth == Spec => []HolderIsOwner
PROOF
  <1>1. Inv => HolderIsOwner
    BY DEF Inv, TypeOK, MutexTypeOK, OwnerInv, HolderInv, Holding, HolderIsOwner, isLockedByThisThread
  <1> QED
    BY <1>1, InvHolds, PTL

--------------------------------------------------------------------------------
(* No signal is lost. *)

(* Sleepers wait for what their method needs; a thread that is about to wait *)
(* holds the mutex, so that what it saw is still so.                         *)
WaitInv ==
  /\ \A t \in sleeping["notEmpty_"] : call[t] = "take"
  /\ \A t \in sleeping["notFull_"] : call[t] = "put"
  /\ \A t \in Threads : at[t] = "waiting" => mustWait(t)

SignalInv == Inv /\ WaitInv /\ NoLostSignal

(* awake() is a finite set, before and after a step. *)
LEMMA AwakeIsFinite ==
  ASSUME NEW method
  PROVE  /\ IsFiniteSet(awake(method)) /\ Cardinality(awake(method)) \in Nat
         /\ IsFiniteSet(awake(method)') /\ Cardinality(awake(method)') \in Nat
PROOF
  <1>1. awake(method) \subseteq Threads /\ awake(method)' \subseteq Threads
    BY DEF awake
  <1> QED
    BY <1>1, QueueAssumption, FS_Subset, FS_CardinalityType

(* More threads that are awake, and none that sleeps anew, do no harm. *)
LEMMA MoreAwake ==
  ASSUME Inv, NoLostSignal,
         awake("take") \subseteq awake("take")', awake("put") \subseteq awake("put")',
         \A c \in Conditions : sleeping'[c] \subseteq sleeping[c],
         UNCHANGED <<queue_, maxSize>>
  PROVE  NoLostSignal'
PROOF
  <1>1. /\ Cardinality(awake("take")) <= Cardinality(awake("take")')
        /\ Cardinality(awake("put")) <= Cardinality(awake("put")')
    BY AwakeIsFinite, FS_Subset
  <1>2. queue_ \in Nat /\ maxSize \in Nat
    BY QueueAssumption DEF Inv, TypeOK
  <1>3. /\ sleeping'["notEmpty_"] \subseteq sleeping["notEmpty_"]
        /\ sleeping'["notFull_"] \subseteq sleeping["notFull_"]
    BY QueueAssumption
  <1>4. /\ Cardinality(awake("take")) \in Nat /\ Cardinality(awake("take")') \in Nat
        /\ Cardinality(awake("put")) \in Nat /\ Cardinality(awake("put")') \in Nat
    BY AwakeIsFinite
  <1> QED
    BY <1>1, <1>2, <1>3, <1>4 DEF NoLostSignal

(* Every step keeps WaitInv. *)
LEMMA NextKeepsWaitInv == Inv /\ WaitInv /\ [Next]_vars => WaitInv'
PROOF
  <1> SUFFICES ASSUME Inv, WaitInv, [Next]_vars PROVE WaitInv'
    OBVIOUS
  <1> USE QueueAssumption
  <1>t. /\ call \in [Threads -> {"put", "take", "look"}]
        /\ at \in [Threads -> Places]
        /\ sleeping \in [Conditions -> SUBSET Threads]
    BY DEF Inv, TypeOK, MutexTypeOK
  <1>a. \A c \in Conditions : \A t \in sleeping[c] : at[t] = "asleep"
    BY DEF Inv, SleepInv
  <1>w. \A t, u \in Threads : at[t] \in {"inside", "waiting"} /\ at[u] \in {"inside", "waiting"} => t = u
    BY DEF Inv, OwnerInv, Holding
  <1>1. ASSUME NEW t \in Threads, NEW method \in {"put", "take", "look"}, begin(t, method)
        PROVE  WaitInv'
    <2>1. \A u \in Threads : at'[u] = "waiting" => at[u] = "waiting" /\ u # t
      BY <1>t, <1>1 DEF begin
    <2>2. \A u \in Threads \ {t} : call'[u] = call[u]
      BY <1>t, <1>1 DEF begin
    <2>3. \A c \in Conditions : t \notin sleeping[c]
      BY <1>a, <1>1 DEF begin
    <2> QED
      BY <1>t, <1>1, <2>1, <2>2, <2>3 DEF begin, WaitInv, mustWait, full, empty
  <1>2. ASSUME NEW t \in Threads, guard(t)
        PROVE  WaitInv'
    <2>1. \A u \in Threads : at'[u] = "waiting" => at[u] = "waiting"
      BY <1>t, <1>2 DEF guard, lock, assignHolder, sleep, wakesUp, unassignHolder, unlock
    <2>2. \A u \in Threads : mustWait(u)' <=> mustWait(u)
      BY <1>2 DEF guard, mustWait, full, empty
    <2>3. CASE sleep(t, condition(t))
      <3>1. mustWait(t)
        BY <2>3 DEF sleep, WaitInv
      <3>2. /\ condition(t) \in Conditions
            /\ sleeping' = [sleeping EXCEPT ![condition(t)] = @ \cup {t}]
        BY <2>3 DEF sleep, condition
      <3> QED
        BY <1>t, <1>2, <2>1, <2>2, <3>1, <3>2 DEF guard, WaitInv, mustWait, condition
    <2>4. CASE ~sleep(t, condition(t))
      <3>1. \A c \in Conditions : sleeping'[c] \subseteq sleeping[c]
        BY <1>t, <1>2, <2>4 DEF guard, lock, assignHolder, wakesUp, unassignHolder, unlock
      <3> QED
        BY <1>2, <2>1, <2>2, <3>1 DEF guard, WaitInv
    <2> QED
      BY <2>3, <2>4
  <1>3. ASSUME NEW t \in Threads, waitInLoop(t)
        PROVE  WaitInv'
    BY <1>t, <1>3 DEF waitInLoop, wait, WaitInv, mustWait, full, empty
  <1>4. ASSUME NEW t \in Threads, at[t] = "inside", NEW woken, leave(t, woken), UNCHANGED call
        PROVE  WaitInv'
    <2>1. \A u \in Threads : at'[u] # "waiting"
      BY <1>t, <1>w, <1>4 DEF leave
    <2>2. \A c \in Conditions : sleeping'[c] \subseteq sleeping[c]
      BY <1>4 DEF leave
    <2> QED
      BY <1>4, <2>1, <2>2 DEF WaitInv
  <1>5. CASE UNCHANGED vars
    BY <1>5 DEF vars, mutexVars, WaitInv, mustWait, full, empty
  <1> QED
    BY <1>1, <1>2, <1>3, <1>4, <1>5 DEF Next, put, take, look

(* A method that used what it was awake for, and woke up one that needs what *)
(* it leaves behind, if any sleeps: one awake less, and one more.            *)
LEMMA OneForOne ==
  ASSUME Inv, WaitInv, NEW t \in Threads, at[t] = "inside",
         NEW mine \in {"put", "take"}, call[t] = mine,
         NEW other \in {"put", "take"}, other # mine,
         NEW c \in Conditions, c = (IF mine = "put" THEN "notEmpty_" ELSE "notFull_"),
         NEW woken \in notify(c), leave(t, woken), UNCHANGED call
  PROVE  /\ Cardinality(awake(mine)') = Cardinality(awake(mine)) - 1
         /\ sleeping[c] # {} => Cardinality(awake(other)') = Cardinality(awake(other)) + 1
         /\ sleeping[c] = {} => sleeping'[c] = {}
         /\ \A d \in Conditions : sleeping'[d] \subseteq sleeping[d]
PROOF
  <1>t. /\ call \in [Threads -> {"put", "take", "look"}]
        /\ at \in [Threads -> Places]
        /\ sleeping \in [Conditions -> SUBSET Threads]
    BY DEF Inv, TypeOK, MutexTypeOK
  <1>w. /\ woken \subseteq Threads
        /\ \A u \in woken : at[u] = "asleep"
    BY NotifiedAreAsleep
  <1>o. \A u \in woken : call[u] = other
    BY <1>t DEF notify, WaitInv
  <1>1. awake(mine)' = awake(mine) \ {t} /\ t \in awake(mine)
    BY <1>t, <1>w, <1>o DEF awake, leave
  <1>2. Cardinality(awake(mine)') = Cardinality(awake(mine)) - 1
    BY <1>1, AwakeIsFinite, FS_RemoveElement
  <1>3. ASSUME sleeping[c] # {}
        PROVE  Cardinality(awake(other)') = Cardinality(awake(other)) + 1
    <2>1. PICK u \in Threads : woken = {u}
      BY <1>t, <1>3 DEF notify
    <2>2. awake(other)' = awake(other) \cup {u} /\ u \notin awake(other)
      BY <1>t, <1>w, <1>o, <2>1 DEF awake, leave
    <2> QED
      BY <2>2, AwakeIsFinite, FS_AddElement
  <1>4. \A d \in Conditions : sleeping'[d] \subseteq sleeping[d]
    BY DEF leave
  <1> QED
    BY <1>2, <1>3, <1>4

(* Every step keeps NoLostSignal. *)
LEMMA NextKeepsSignal == SignalInv /\ [Next]_vars => NoLostSignal'
PROOF
  <1> SUFFICES ASSUME Inv, WaitInv, NoLostSignal, [Next]_vars PROVE NoLostSignal'
    BY DEF SignalInv
  <1> USE QueueAssumption
  <1>t. /\ call \in [Threads -> {"put", "take", "look"}]
        /\ at \in [Threads -> Places]
        /\ sleeping \in [Conditions -> SUBSET Threads]
    BY DEF Inv, TypeOK, MutexTypeOK
  <1>n. queue_ \in Nat /\ maxSize \in Nat
    BY DEF Inv, TypeOK
  <1>f. \A method \in {"put", "take"} : /\ Cardinality(awake(method)) \in Nat
                                       /\ Cardinality(awake(method)') \in Nat
    BY AwakeIsFinite
  <1>1. ASSUME NEW t \in Threads, NEW method \in {"put", "take", "look"}, begin(t, method)
        PROVE  NoLostSignal'
    <2>1. \A m \in {"put", "take"} : awake(m) \subseteq awake(m)'
      BY <1>t, <1>1 DEF begin, awake
    <2> QED
      BY <1>1, <2>1, MoreAwake DEF begin
  <1>2. ASSUME NEW t \in Threads, guard(t)
        PROVE  NoLostSignal'
    <2>1. \A m \in {"put", "take"} : awake(m) \subseteq awake(m)'
      BY <1>t, <1>2 DEF guard, awake, lock, assignHolder, sleep, wakesUp, unassignHolder, unlock
    <2>2. CASE sleep(t, condition(t))
      <3>1. mustWait(t)
        BY <2>2 DEF sleep, WaitInv
      <3>2. awake("put")' = awake("put") /\ awake("take")' = awake("take")
        BY <1>t, <1>2, <2>2 DEF guard, awake, sleep
      <3>3. CASE call[t] = "take"
        <4>1. queue_ = 0 /\ sleeping'["notFull_"] = sleeping["notFull_"]
          BY <1>t, <2>2, <3>1, <3>3 DEF mustWait, empty, sleep, condition
        <4> QED
          BY <1>2, <1>n, <1>f, <3>2, <4>1 DEF guard, NoLostSignal
      <3>4. CASE call[t] = "put"
        <4>1. queue_ = maxSize /\ sleeping'["notEmpty_"] = sleeping["notEmpty_"]
          BY <1>t, <2>2, <3>1, <3>4 DEF mustWait, full, sleep, condition
        <4> QED
          BY <1>2, <1>n, <1>f, <3>2, <4>1 DEF guard, NoLostSignal
      <3> QED
        BY <3>1, <3>3, <3>4 DEF mustWait
    <2>3. CASE ~sleep(t, condition(t))
      <3>1. \A c \in Conditions : sleeping'[c] \subseteq sleeping[c]
        BY <1>t, <1>2, <2>3 DEF guard, lock, assignHolder, wakesUp, unassignHolder, unlock
      <3> QED
        BY <1>2, <2>1, <3>1, MoreAwake DEF guard
    <2> QED
      BY <2>2, <2>3
  <1>3. ASSUME NEW t \in Threads, waitInLoop(t)
        PROVE  NoLostSignal'
    <2>1. CASE call[t] = "take"
      <3>1. queue_ = 0 /\ awake("put")' = awake("put")
        BY <1>t, <1>3, <2>1 DEF waitInLoop, wait, mustWait, empty, awake
      <3> QED
        BY <1>3, <1>n, <1>f, <3>1 DEF waitInLoop, wait, NoLostSignal
    <2>2. CASE call[t] = "put"
      <3>1. queue_ = maxSize /\ awake("take")' = awake("take")
        BY <1>t, <1>3, <2>2 DEF waitInLoop, wait, mustWait, full, awake
      <3> QED
        BY <1>3, <1>n, <1>f, <3>1 DEF waitInLoop, wait, NoLostSignal
    <2> QED
      BY <1>3, <2>1, <2>2 DEF waitInLoop, mustWait
  <1>4. ASSUME NEW t \in Threads, put(t)
        PROVE  NoLostSignal'
    <2>1. PICK woken \in notify("notEmpty_") : leave(t, woken)
      BY <1>4 DEF put
    <2>2. /\ Cardinality(awake("put")') = Cardinality(awake("put")) - 1
          /\ sleeping["notEmpty_"] # {} =>
               Cardinality(awake("take")') = Cardinality(awake("take")) + 1
          /\ sleeping["notEmpty_"] = {} => sleeping'["notEmpty_"] = {}
          /\ sleeping'["notFull_"] \subseteq sleeping["notFull_"]
      BY <1>4, <2>1, OneForOne DEF put
    <2> QED
      BY <1>4, <1>n, <1>f, <2>2 DEF put, NoLostSignal
  <1>5. ASSUME NEW t \in Threads, take(t)
        PROVE  NoLostSignal'
    <2>1. PICK woken \in notify("notFull_") : leave(t, woken)
      BY <1>5 DEF take
    <2>2. /\ Cardinality(awake("take")') = Cardinality(awake("take")) - 1
          /\ sleeping["notFull_"] # {} =>
               Cardinality(awake("put")') = Cardinality(awake("put")) + 1
          /\ sleeping["notFull_"] = {} => sleeping'["notFull_"] = {}
          /\ sleeping'["notEmpty_"] \subseteq sleeping["notEmpty_"]
      BY <1>5, <2>1, OneForOne DEF take
    <2> QED
      BY <1>5, <1>n, <1>f, <2>2 DEF take, empty, NoLostSignal
  <1>6. ASSUME NEW t \in Threads, look(t)
        PROVE  NoLostSignal'
    <2>1. \A m \in {"put", "take"} : awake(m) \subseteq awake(m)'
      BY <1>t, <1>6 DEF look, leave, awake
    <2> QED
      BY <1>6, <2>1, MoreAwake DEF look, leave
  <1>7. CASE UNCHANGED vars
    BY <1>7 DEF vars, mutexVars, NoLostSignal, awake
  <1> QED
    BY <1>1, <1>2, <1>3, <1>4, <1>5, <1>6, <1>7 DEF Next

(* BlockingQueue.h, BoundedBlockingQueue.h: for any number of threads and    *)
(* any capacity, no signal of put() or take() is lost, although each wakes   *)
(* up one thread only.                                                       *)
THEOREM SignalNeverLost == Spec => []NoLostSignal
PROOF
  <1>1. Init => WaitInv /\ NoLostSignal
    BY QueueAssumption DEF Init, MutexInit, WaitInv, NoLostSignal
  <1>2. WaitInv /\ NoLostSignal /\ Inv /\ [Next]_vars => (WaitInv /\ NoLostSignal)'
    BY NextKeepsWaitInv, NextKeepsSignal DEF SignalInv
  <1> QED
    BY <1>1, <1>2, InvHolds, PTL DEF Spec

================================================================================
