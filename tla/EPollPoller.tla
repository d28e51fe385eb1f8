------------------------------ MODULE EPollPoller ------------------------------
(***************************************************************************)
(* EPollPoller: the map channels_, the index that says of each Channel what *)
(* epoll knows of it, the interest list of the epoll instance, and the list *)
(* that ::epoll_wait() fills.  LoopChannels has the channels and the steps. *)
(***************************************************************************)
EXTENDS Channel, Integers, SequencesExt

CONSTANTS Channels,
          fd,                  \* Channel::fd(), of each channel
          kInitEventListSize   \* 64 in the code

VARIABLES
  events_,       \* Channel::events_
  index_,        \* Channel::index_
  channels_,     \* Poller::channels_, from descriptors to channels
  epoll,         \* the kernel's interest list, from descriptors to entries
  eventListSize  \* EPollPoller::events_.size()

kNew == -1
kAdded == 1
kDeleted == 2

Fds == {fd[c] : c \in Channels}
Entry == [events : SUBSET Events, ptr : Channels]
Absent == [events |-> {}, ptr |-> "NULL"]

TypeOK ==
  /\ index_ \in [Channels -> {kNew, kAdded, kDeleted}]
  /\ epoll \in [Fds -> Entry \cup {Absent}]
  /\ eventListSize \in Nat /\ eventListSize >= kInitEventListSize
  /\ eventListSize = kInitEventListSize \/ eventListSize <= 2 * Cardinality(Channels)

Init ==
  /\ epoll = [f \in Fds |-> Absent]
  /\ eventListSize = kInitEventListSize

--------------------------------------------------------------------------------
(* epoll_ctl() fails, and update() ends the process, when ADD finds the      *)
(* descriptor or MOD and DEL do not.                                         *)
ctlFails(operation, f) == (operation = "ADD") # (epoll[f] = Absent)

(* What the epoll_ctl() of update() makes of the descriptor's entry. *)
ctl(operation, c, events) ==
  epoll' = [epoll EXCEPT ![fd[c]] =
    IF operation = "DEL" THEN Absent ELSE [events |-> events, ptr |-> c]]

(* Mutant: the test of isNoneEvent() is negated. *)
Mutant_operationFor(c, events) ==
  CASE index_[c] # kAdded -> "ADD"
    [] index_[c] = kAdded /\ isNoneEvent(events) -> "MOD"
    [] index_[c] = kAdded /\ ~isNoneEvent(events) -> "DEL"

(* The operation of updateChannel(). *)
operationFor(c, events) ==
  CASE index_[c] # kAdded -> "ADD"
    [] index_[c] = kAdded /\ isNoneEvent(events) -> "DEL"
    [] index_[c] = kAdded /\ ~isNoneEvent(events) -> "MOD"

(* Mutant: a channel that is dropped from epoll keeps kAdded. *)
Mutant_indexAfter(operation) == kAdded

indexAfter(operation) == IF operation = "DEL" THEN kDeleted ELSE kAdded

(* updateChannel(), with the channel's new interest.  Its asserts end the    *)
(* process when channels_ disagrees with the index, as a failing epoll_ctl() *)
(* does.                                                                     *)
updateFails(c, events) ==
  \/ channels_[fd[c]] # IF index_[c] = kNew THEN "NULL" ELSE c
  \/ ctlFails(operationFor(c, events), fd[c])

updateChannel(c, events) ==
  LET operation == operationFor(c, events) IN
  /\ channels_' = [channels_ EXCEPT ![fd[c]] = c]
  /\ index_' = [index_ EXCEPT ![c] = indexAfter(operation)]
  /\ ctl(operation, c, events)
  /\ UNCHANGED eventListSize

(* removeChannel(), which asserts that channels_ has this channel, that it   *)
(* has no interest, and that it is kAdded or kDeleted.                       *)
removeFails(c) ==
  \/ channels_[fd[c]] # c
  \/ ~isNoneEvent(events_[c])
  \/ index_[c] = kNew
  \/ index_[c] = kAdded /\ ctlFails("DEL", fd[c])

removeChannel(c) ==
  /\ channels_' = [channels_ EXCEPT ![fd[c]] = "NULL"]
  /\ index_' = [index_ EXCEPT ![c] = kNew]
  /\ IF index_[c] = kAdded THEN ctl("DEL", c, {}) ELSE UNCHANGED epoll
  /\ UNCHANGED eventListSize

--------------------------------------------------------------------------------
(* The descriptors of ready that ::epoll_wait() reports, in any order: all   *)
(* of them, or as many as the list has room for.                             *)
waitResults(ready) ==
  UNION {SetToSeqs(hits) : hits \in
    {s \in SUBSET ready : Cardinality(s) = Min({eventListSize, Cardinality(ready)})}}

(* fillActiveChannels(): the channels are the pointers epoll kept. *)
fillActiveChannels(hits) == [i \in DOMAIN hits |-> epoll[hits[i]].ptr]

(* Mutant: the list stays as it is when it was full. *)
Mutant_resized(numEvents) == eventListSize

(* a list that was full is doubled for the next poll *)
resized(numEvents) ==
  IF numEvents = eventListSize THEN 2 * eventListSize ELSE eventListSize

(* poll(): any of the watched descriptors are ready; one that is watched for *)
(* nothing may have hung up, which is always reported.  With no event, on a  *)
(* timeout or an error, nothing is active.                                   *)
poll(active, missed) ==
  \E ready \in SUBSET {f \in Fds : epoll[f] # Absent} :
  \E hits \in waitResults(ready) :
    /\ active = fillActiveChannels(hits)
    /\ missed = {epoll[f].ptr : f \in ready} \ ToSet(fillActiveChannels(hits))
    /\ eventListSize' = resized(Len(hits))
    /\ UNCHANGED <<events_, index_, channels_, epoll>>

(* what the kernel watches a channel for *)
watched(c) == IF epoll[fd[c]].ptr = c THEN epoll[fd[c]].events ELSE {}

================================================================================
