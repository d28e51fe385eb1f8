----------------------------- MODULE TaskExecutor -----------------------------
(***************************************************************************)
(* What EventLoop promises to the callers of runInLoop() and queueInLoop(), *)
(* without its threads, its lock, its eventfd and its batches: a queue of   *)
(* tasks that one thread runs in the order in which they were queued, each   *)
(* exactly once.  A task handed over by that thread itself may also run on   *)
(* the spot.  Tasks run only while the executor is open.                     *)
(***************************************************************************)
EXTENDS Sequences, Functions

CONSTANT Tasks

VARIABLES queue,   \* tasks accepted and not started yet, oldest first
          done,    \* tasks started, in the order in which they started
          open     \* does the executor run tasks at the moment?

vars == <<queue, done, open>>

Accepted == Range(queue) \cup Range(done)

Init == /\ queue = <<>>
        /\ done = <<>>
        /\ open = FALSE

(* A new task joins the queue; open or not, the executor accepts it. *)
Post(f) == /\ f \in Tasks \ Accepted
           /\ queue' = Append(queue, f)
           /\ UNCHANGED <<done, open>>

(* A new task runs at once, ahead of the queue. *)
RunNow(f) == /\ f \in Tasks \ Accepted
             /\ done' = Append(done, f)
             /\ UNCHANGED <<queue, open>>

(* The oldest queued task starts. *)
RunNext == /\ open
           /\ queue # <<>>
           /\ done' = Append(done, Head(queue))
           /\ queue' = Tail(queue)
           /\ UNCHANGED open

(* The executor opens or closes; the queue survives. *)
Switch == /\ open' = ~open
          /\ UNCHANGED <<queue, done>>

Next == \/ \E f \in Tasks : Post(f) \/ RunNow(f)
        \/ RunNext
        \/ Switch

Spec == Init /\ [][Next]_vars

(* An executor that stays open keeps running what is queued. *)
KeepsRunning == WF_vars(RunNext)
================================================================================
