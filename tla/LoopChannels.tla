----------------------------- MODULE LoopChannels -----------------------------
(***************************************************************************)
(* The channels of one EventLoop over either poller: loop() polls, gives    *)
(* each active channel its turn and runs the functors; handlers and         *)
(* functors open channels, change the interest of any of them and remove    *)
(* them.  A descriptor is closed when its owner has removed its Channel, and *)
(* is reused by a later one.  The queue and the wakeups are EventLoop's.     *)
(***************************************************************************)
EXTENDS Channel, Integers, SequencesExt

CONSTANTS Channels,
          fd,                  \* Channel::fd(), of each channel
          kInitEventListSize

ASSUME channelsAssumption == IsFiniteSet(Channels) /\ "NULL" \notin Channels
ASSUME fdAssumption == fd \in [Channels -> Nat]
ASSUME sizeAssumption == kInitEventListSize \in Nat \ {0}

VARIABLES
  usePoll,         \* was MUDUO_USE_POLL set when the loop was made?
  events_,         \* Channel::events_
  index_,          \* Channel::index_
  channels_,       \* Poller::channels_, from descriptors to channels
  epoll,           \* EPollPoller: the kernel's interest list
  eventListSize,   \* EPollPoller: events_.size()
  pollfds_,        \* PollPoller
  life,            \* is the channel's descriptor not open yet, open, or closed?
  missed,          \* channels the last epoll_wait() had no room to report
  pc,              \* where loop() is: "poll", "handler" or "functors"
  activeChannels_, \* what the last poll reported
  turn,            \* the place in it of currentActiveChannel_
  aborted          \* "no", or the part whose assert ended the process

pollerVars == <<index_, channels_, epoll, eventListSize, pollfds_>>
vars == <<usePoll, events_, pollerVars, life, missed, pc, activeChannels_, turn, aborted>>

EP == INSTANCE EPollPoller
PP == INSTANCE PollPoller

Fds == {fd[c] : c \in Channels}

TypeOK ==
  /\ usePoll \in BOOLEAN
  /\ events_ \in [Channels -> SUBSET Events]
  /\ channels_ \in [Fds -> Channels \cup {"NULL"}]
  /\ IF usePoll THEN PP!TypeOK ELSE EP!TypeOK
  /\ life \in [Channels -> {"unborn", "open", "closed"}]
  /\ missed \subseteq Channels
  /\ pc \in {"poll", "handler", "functors"}
  /\ activeChannels_ \in Seq(Channels)
  /\ turn \in Nat /\ (pc = "handler" <=> turn \in DOMAIN activeChannels_)
  /\ aborted \in {"no", "poller", "loop"}

(* newDefaultPoller() and the constructors; loop() has not polled yet. *)
Init ==
  /\ usePoll \in BOOLEAN
  /\ events_ = [c \in Channels |-> kNoneEvent]
  /\ index_ = [c \in Channels |-> -1]
  /\ channels_ = [f \in Fds |-> "NULL"]
  /\ EP!Init
  /\ PP!Init
  /\ life = [c \in Channels |-> "unborn"]
  /\ missed = {}
  /\ pc = "functors"
  /\ activeChannels_ = <<>>
  /\ turn = 0
  /\ aborted = "no"

--------------------------------------------------------------------------------
(* What handlers and functors do with channels, in the loop thread. *)

inUserCode == aborted = "no" /\ pc # "poll"

(* A descriptor is opened and a Channel constructed for it. *)
open(c) ==
  /\ inUserCode
  /\ life[c] = "unborn"
  /\ \A d \in Channels : life[d] = "open" => fd[d] # fd[c]
  /\ life' = [life EXCEPT ![c] = "open"]
  /\ UNCHANGED <<usePoll, events_, pollerVars, missed, pc, activeChannels_, turn, aborted>>

(* poller_->updateChannel() *)
updateChannel(c, events) ==
  IF usePoll
  THEN PP!updateChannel(c, events) /\ UNCHANGED <<epoll, eventListSize>>
  ELSE EP!updateChannel(c, events) /\ UNCHANGED pollfds_

(* enableReading() and its kin: the interest changes, then update(). *)
update(c) ==
  /\ inUserCode
  /\ life[c] = "open"
  /\ \E call \in Updates :
       LET events == Interest(call, events_[c]) IN
       /\ events_' = [events_ EXCEPT ![c] = events]
       /\ aborted' = IF ~usePoll /\ EP!updateFails(c, events) THEN "poller" ELSE "no"
       /\ updateChannel(c, events)
  /\ UNCHANGED <<usePoll, life, missed, pc, activeChannels_, turn>>

(* Mutant: the assert is gone. *)
Mutant_removesOther(c) == FALSE

(* The assert of removeChannel(): the channel is active in this iteration,   *)
(* and not the one whose turn it is.                                         *)
removesOther(c) ==
  /\ pc = "handler"
  /\ activeChannels_[turn] # c
  /\ \E i \in DOMAIN activeChannels_ : activeChannels_[i] = c

(* poller_->removeChannel() *)
removeChannel(c) ==
  IF usePoll
  THEN PP!removeChannel(c) /\ UNCHANGED <<epoll, eventListSize>>
  ELSE EP!removeChannel(c) /\ UNCHANGED pollfds_

(* Channel::remove(), of a channel that was updated and has no interest      *)
(* left, as owners call it; they close the descriptor next.                  *)
remove(c) ==
  /\ inUserCode
  /\ life[c] = "open"
  /\ channels_[fd[c]] = c
  /\ isNoneEvent(events_[c])
  /\ \/ /\ removesOther(c)
        /\ aborted' = "loop"
        /\ UNCHANGED <<pollerVars, life>>
     \/ /\ ~removesOther(c)
        /\ aborted' = IF ~usePoll /\ EP!removeFails(c) THEN "poller" ELSE "no"
        /\ removeChannel(c)
        /\ life' = [life EXCEPT ![c] = "closed"]
  /\ UNCHANGED <<usePoll, events_, missed, pc, activeChannels_, turn>>

--------------------------------------------------------------------------------
(* loop() *)

(* The iteration polls; the first active channel gets its turn. *)
poll ==
  /\ aborted = "no"
  /\ pc = "poll"
  /\ IF usePoll
     THEN PP!poll(activeChannels_') /\ missed' = {} /\ UNCHANGED <<epoll, eventListSize>>
     ELSE EP!poll(activeChannels_', missed') /\ UNCHANGED pollfds_
  /\ IF activeChannels_' = <<>>
     THEN pc' = "functors" /\ turn' = 0
     ELSE pc' = "handler" /\ turn' = 1
  /\ UNCHANGED <<usePoll, life, aborted>>

(* handleEvent() returns: it is the next channel's turn, or the functors'.   *)
(* activeChannels_, which the next iteration clears, is not read again.      *)
handled ==
  /\ aborted = "no"
  /\ pc = "handler"
  /\ IF turn < Len(activeChannels_)
     THEN turn' = turn + 1 /\ UNCHANGED <<pc, activeChannels_>>
     ELSE turn' = 0 /\ pc' = "functors" /\ activeChannels_' = <<>>
  /\ UNCHANGED <<usePoll, events_, pollerVars, life, missed, aborted>>

(* doPendingFunctors() returns, and the loop goes round. *)
functorsDone ==
  /\ aborted = "no"
  /\ pc = "functors"
  /\ pc' = "poll"
  /\ UNCHANGED <<usePoll, events_, pollerVars, life, missed, activeChannels_, turn, aborted>>

Loop == poll \/ handled \/ functorsDone

Next == \/ Loop
        \/ \E c \in Channels : open(c) \/ update(c) \/ remove(c)

(* The loop goes on as long as handlers and functors return. *)
Spec == Init /\ [][Next]_vars /\ WF_vars(Loop)

--------------------------------------------------------------------------------
(* Properties. *)

Registered == {c \in Channels : channels_[fd[c]] = c}

(* EPollPoller::updateChannel, removeChannel and update: no order of         *)
(* interest changes, removals and reuse of descriptors, in handlers or       *)
(* functors, trips an assert of the poller or a failing epoll_ctl().         *)
PollerNeverAborts == aborted # "poller"

(* EventLoop::loop, removeChannel: the raw pointers in activeChannels_ are   *)
(* good until their turn, whatever earlier handlers of the iteration did,    *)
(* and so is the pointer that epoll keeps: the channel is open, and the      *)
(* owner of its descriptor in channels_.                                     *)
NoDanglingPointer ==
  aborted = "no" =>
    /\ pc = "handler" =>
         \A i \in turn + 1 .. Len(activeChannels_) :
           activeChannels_[i] \in Registered /\ life[activeChannels_[i]] = "open"
    /\ \A f \in Fds : epoll[f] # EP!Absent =>
         channels_[f] = epoll[f].ptr /\ life[epoll[f].ptr] = "open"

(* PollPoller::removeChannel, fillActiveChannels: after any sequence of      *)
(* updates and removals the index of each registered channel is the place of *)
(* its descriptor, so that the next update or removal touches no other       *)
(* channel's place; and the array has no place of a channel that is gone,    *)
(* whose descriptor channels_.find() would not find.                         *)
IndexFindsOwnPlace ==
  usePoll =>
    /\ \A c \in Registered :
         /\ index_[c] \in 0 .. Len(pollfds_) - 1
         /\ pollfds_[PP!At(index_[c])].fd \in {fd[c], PP!ignored(fd[c])}
    /\ Len(pollfds_) = Cardinality(Registered)

(* Both pollers, with EventLoop::removeChannel's assert, implement Poller:   *)
(* through kNew, kAdded and kDeleted, swapped and ignored places and reuse   *)
(* of descriptors the kernel watches each channel for exactly its interest,  *)
(* and what is reported is registered until its turn.                        *)
P == INSTANCE Poller WITH
       registered <- Registered,
       watched <- [c \in Channels |-> IF usePoll THEN PP!watched(c) ELSE EP!watched(c)],
       reported <- IF pc = "handler"
                   THEN {activeChannels_[i] : i \in turn + 1 .. Len(activeChannels_)}
                   ELSE {}

ImplementsPoller == P!Spec

(* EPollPoller::poll: a channel that is ready whenever the loop polls is     *)
(* reported in the end, even if more channels are ready than the list of     *)
(* ::epoll_wait() has room for and the kernel never picks it: a full list is *)
(* doubled.                                                                  *)
NoChannelStarves == \A c \in Channels : []<>(c \notin missed \/ aborted # "no")

================================================================================
