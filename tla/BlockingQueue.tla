------------------------------ MODULE BlockingQueue ------------------------------
(***************************************************************************)
(* BlockingQueue, and BoundedBlockingQueue with capacity maxSize: monitors   *)
(* over MutexLock with the conditions notEmpty_ and, when bounded, notFull_. *)
(* What the elements are does not matter, so queue_ is its length.  Any      *)
(* thread may call any method.                                               *)
(***************************************************************************)
EXTENDS MutexLock, FiniteSets

CONSTANTS MaxSizes,  \* capacities of a BoundedBlockingQueue
          MaxLength  \* bound on put() to a BlockingQueue of that length

ASSUME QueueAssumption ==
  /\ IsFiniteSet(Threads)
  /\ Conditions = {"notEmpty_", "notFull_"}
  /\ MaxSizes \subseteq Nat
  /\ MaxLength \in Nat

VARIABLES
  bounded,  \* is it a BoundedBlockingQueue?
  maxSize,  \* its capacity
  queue_,   \* how many elements are in it
  call      \* the method each thread is in: "put", "take", or "look"

vars == <<mutexVars, bounded, maxSize, queue_, call>>

TypeOK ==
  /\ MutexTypeOK
  /\ bounded \in BOOLEAN
  /\ maxSize \in MaxSizes
  /\ queue_ \in Nat
  /\ call \in [Threads -> {"put", "take", "look"}]

Init ==
  /\ MutexInit
  /\ bounded \in BOOLEAN
  /\ maxSize \in MaxSizes
  /\ queue_ = 0
  /\ call = [t \in Threads |-> "look"]

(* A method is called; "look" are size(), empty(), full() and capacity(). *)
begin(t, method) ==
  /\ at[t] = "outside"
  /\ method = "put" /\ ~bounded => queue_ < MaxLength
  /\ call' = [call EXCEPT ![t] = method]
  /\ at' = [at EXCEPT ![t] = "locking"]
  /\ UNCHANGED <<owner, holder_, sleeping, bounded, maxSize, queue_>>

full == bounded /\ queue_ = maxSize
empty == queue_ = 0

(* The tests of the while loops, and what each waits for. *)
mustWait(t) == (call[t] = "put" /\ full) \/ (call[t] = "take" /\ empty)
condition(t) == IF call[t] = "put" THEN "notFull_" ELSE "notEmpty_"

waitInLoop(t) ==
  /\ at[t] = "inside" /\ mustWait(t)
  /\ wait(t)
  /\ UNCHANGED <<bounded, maxSize, queue_, call>>

(* Mutant: notify() only when the queue was empty. *)
Mutant_put(t) ==
  /\ at[t] = "inside" /\ call[t] = "put" /\ ~full
  /\ queue_' = queue_ + 1
  /\ \E woken \in notify("notEmpty_") : leave(t, IF empty THEN woken ELSE {})
  /\ UNCHANGED <<bounded, maxSize, call>>

put(t) ==
  /\ at[t] = "inside" /\ call[t] = "put" /\ ~full
  /\ queue_' = queue_ + 1
  /\ \E woken \in notify("notEmpty_") : leave(t, woken)
  /\ UNCHANGED <<bounded, maxSize, call>>

(* Nobody sleeps on notFull_ of a queue that is not bounded. *)
take(t) ==
  /\ at[t] = "inside" /\ call[t] = "take" /\ ~empty
  /\ queue_' = queue_ - 1
  /\ \E woken \in notify("notFull_") : leave(t, woken)
  /\ UNCHANGED <<bounded, maxSize, call>>

look(t) ==
  /\ at[t] = "inside" /\ call[t] = "look"
  /\ leave(t, {})
  /\ UNCHANGED <<bounded, maxSize, queue_, call>>

guard(t) ==
  /\ \/ lock(t) \/ assignHolder(t)
     \/ sleep(t, condition(t)) \/ wakesUp(t)
     \/ unassignHolder(t) \/ unlock(t)
  /\ UNCHANGED <<bounded, maxSize, queue_, call>>

Next == \E t \in Threads :
          \/ \E method \in {"put", "take", "look"} : begin(t, method)
          \/ guard(t) \/ waitInLoop(t) \/ put(t) \/ take(t) \/ look(t)

Spec == Init /\ [][Next]_vars

--------------------------------------------------------------------------------
(* Properties. *)

(* Mutex.h: holder_ tells the truth through every wait and wakeup.  It names *)
(* the thread inside and nobody else, so assertLocked() holds there, and is  *)
(* 0 whenever the mutex is free, as the assert of ~MutexLock() wants it.     *)
HolderIsOwner ==
  /\ holder_ \in {owner, NoThread}
  /\ \A t \in Threads : at[t] \in {"inside", "leaving"} => isLockedByThisThread(t)

(* The threads on their way to the body of a method *)
awake(method) == {t \in Threads : /\ call[t] = method
                                  /\ at[t] \in {"locking", "locked", "inside"}}

(* put() and take() signal one thread each, and no signal is lost, although  *)
(* woken threads meet new ones and spurious wakeups on their way back in.    *)
(* While threads sleep on a condition, at least as many others are awake to  *)
(* use the elements, or the room, that are there.                            *)
NoLostSignal ==
  /\ sleeping["notEmpty_"] # {} => queue_ <= Cardinality(awake("take"))
  /\ sleeping["notFull_"] # {} => maxSize - queue_ <= Cardinality(awake("put"))

================================================================================
