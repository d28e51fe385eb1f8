-------------------------------- MODULE MutexLock --------------------------------
(***************************************************************************)
(* MutexLock and Condition of the base headers: a pthread mutex with a note *)
(* of the thread that holds it, and condition variables on it.  A thread    *)
(* gets "inside" by lock(), where it may wait(), and leaves by unlock().    *)
(* holder_ is written next to the calls of pthreads, in a step of its own.  *)
(***************************************************************************)
EXTENDS Naturals

CONSTANTS Threads,     \* the threads that use the mutex
          NoThread,    \* the holder_ 0
          Conditions   \* the condition variables

ASSUME NoThreadAssumption == NoThread \notin Threads

VARIABLES
  owner,    \* the thread that has the pthread mutex, or NoThread
  holder_,  \* MutexLock::holder_
  at,       \* where each thread is
  sleeping  \* the threads in pthread_cond_wait() of each condition

mutexVars == <<owner, holder_, at, sleeping>>

Places == {"outside", "locking", "locked", "inside", "waiting", "asleep",
           "leaving", "unlocking"}

MutexTypeOK ==
  /\ owner \in Threads \cup {NoThread}
  /\ holder_ \in Threads \cup {NoThread}
  /\ at \in [Threads -> Places]
  /\ sleeping \in [Conditions -> SUBSET Threads]

MutexInit ==
  /\ owner = NoThread
  /\ holder_ = NoThread
  /\ at = [t \in Threads |-> "outside"]
  /\ sleeping = [c \in Conditions |-> {}]

(* lock() of a MutexLockGuard gets the pthread mutex; so does the end of     *)
(* pthread_cond_wait() in a thread that was woken up.                        *)
lock(t) ==
  /\ at[t] = "locking" /\ owner = NoThread
  /\ owner' = t
  /\ at' = [at EXCEPT ![t] = "locked"]
  /\ UNCHANGED <<holder_, sleeping>>

(* assignHolder(), in lock() or in ~UnassignGuard() *)
assignHolder(t) ==
  /\ at[t] = "locked"
  /\ holder_' = t
  /\ at' = [at EXCEPT ![t] = "inside"]
  /\ UNCHANGED <<owner, sleeping>>

(* Mutant: wait() without an UnassignGuard. *)
Mutant_wait(t) ==
  /\ at' = [at EXCEPT ![t] = "waiting"]
  /\ UNCHANGED <<owner, holder_, sleeping>>

(* Condition::wait(): the UnassignGuard ... *)
wait(t) ==
  /\ holder_' = NoThread
  /\ at' = [at EXCEPT ![t] = "waiting"]
  /\ UNCHANGED <<owner, sleeping>>

(* ... and pthread_cond_wait(), which lets go of the mutex and falls asleep  *)
(* in one step                                                               *)
sleep(t, c) ==
  /\ at[t] = "waiting"
  /\ owner' = NoThread
  /\ at' = [at EXCEPT ![t] = "asleep"]
  /\ sleeping' = [sleeping EXCEPT ![c] = @ \cup {t}]
  /\ UNCHANGED holder_

(* pthread_cond_wait() may end without a signal. *)
wakesUp(t) ==
  /\ at[t] = "asleep"
  /\ at' = [at EXCEPT ![t] = "locking"]
  /\ sleeping' = [c \in Conditions |-> sleeping[c] \ {t}]
  /\ UNCHANGED <<owner, holder_>>

(* Whom notify() may wake up: one of the threads asleep, if there are any. *)
notify(c) == IF sleeping[c] = {} THEN {{}} ELSE {{t} : t \in sleeping[c]}

(* The body of the critical section ends, having woken up some threads. *)
leave(t, woken) ==
  /\ at' = [u \in Threads |->
              IF u = t THEN "leaving" ELSE IF u \in woken THEN "locking" ELSE at[u]]
  /\ sleeping' = [c \in Conditions |-> sleeping[c] \ woken]
  /\ UNCHANGED <<owner, holder_>>

(* unlock() of ~MutexLockGuard(): unassignHolder() and the pthread mutex *)
unassignHolder(t) ==
  /\ at[t] = "leaving"
  /\ holder_' = NoThread
  /\ at' = [at EXCEPT ![t] = "unlocking"]
  /\ UNCHANGED <<owner, sleeping>>

unlock(t) ==
  /\ at[t] = "unlocking"
  /\ owner' = NoThread
  /\ at' = [at EXCEPT ![t] = "outside"]
  /\ UNCHANGED <<holder_, sleeping>>

(* MutexLock::isLockedByThisThread *)
isLockedByThisThread(t) == holder_ = t

================================================================================
