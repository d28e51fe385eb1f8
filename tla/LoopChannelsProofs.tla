--------------------------- MODULE LoopChannelsProofs ---------------------------
(***************************************************************************)
(* Proofs about LoopChannels for any number of channels and descriptors and *)
(* either poller: no assert of a poller fails, no pointer dangles, the      *)
(* index of a channel finds its place, and both pollers implement Poller.   *)
(***************************************************************************)
EXTENDS LoopChannels, FiniteSetTheorems, SequenceTheorems, TLAPS

(* A descriptor's entry in channels_ is its open channel; a channel without  *)
(* an entry has no interest, and its index says so until it is closed.       *)
OwnerInv ==
  /\ \A f \in Fds : channels_[f] # "NULL" => fd[channels_[f]] = f /\ life[channels_[f]] = "open"
  /\ \A c, d \in Channels : life[c] = "open" /\ life[d] = "open" /\ fd[c] = fd[d] => c = d
  /\ \A c \in Channels : channels_[fd[c]] # c => events_[c] = kNoneEvent
  /\ \A c \in Channels : life[c] # "closed" => (index_[c] = -1 <=> channels_[fd[c]] # c)

(* epoll has an entry for exactly the channels that are kAdded, with their   *)
(* interest; the others have none.                                           *)
EpollInv ==
  /\ \A f \in Fds : epoll[f] # EP!Absent =>
       /\ ~usePoll
       /\ epoll[f].ptr \in Channels /\ channels_[f] = epoll[f].ptr
       /\ index_[epoll[f].ptr] = EP!kAdded
       /\ epoll[f].events = events_[epoll[f].ptr]
  /\ ~usePoll => \A c \in Channels :
       /\ index_[c] = EP!kAdded => epoll[fd[c]].ptr = c
       /\ index_[c] = EP!kDeleted => events_[c] = kNoneEvent

(* The array has a place for each registered channel, where its index says,  *)
(* with its interest, and no other; only a channel without interest is       *)
(* ignored.                                                                  *)
PlaceOf(place, c) ==
  /\ place.events = events_[c]
  /\ place.fd = fd[c] \/ (place.fd = PP!ignored(fd[c]) /\ events_[c] = kNoneEvent)
PollInv ==
  usePoll =>
    /\ \A c \in Registered : /\ index_[c] \in 0 .. Len(pollfds_) - 1
                             /\ PlaceOf(pollfds_[PP!At(index_[c])], c)
    /\ \A i \in DOMAIN pollfds_ : \E c \in Registered : PP!At(index_[c]) = i

(* The channels whose turn is to come are registered, and each is active once. *)
ActiveInv ==
  /\ pc # "handler" => turn = 0
  /\ pc = "handler" => \A i \in turn + 1 .. Len(activeChannels_) : activeChannels_[i] \in Registered
  /\ \A i, j \in DOMAIN activeChannels_ : activeChannels_[i] = activeChannels_[j] => i = j

Inv == TypeOK /\ OwnerInv /\ EpollInv /\ PollInv /\ ActiveInv /\ PollerNeverAborts

--------------------------------------------------------------------------------
(* What the operators do. *)

(* Descriptors are counted. *)
LEMMA FdFacts ==
  /\ Fds = EP!Fds /\ Fds = PP!Fds
  /\ \A c \in Channels : fd[c] \in Fds /\ fd[c] \in Nat
  /\ \A f \in Fds : f \in Nat
  /\ fd \in [Channels -> Fds]
  /\ IsFiniteSet(Fds) /\ Cardinality(Fds) \in Nat /\ Cardinality(Fds) <= Cardinality(Channels)
  /\ Cardinality(Channels) \in Nat
PROOF
  <1>1. Fds = EP!Fds /\ Fds = PP!Fds
    BY DEF Fds, EP!Fds, PP!Fds
  <1>2. \A c \in Channels : fd[c] \in Fds /\ fd[c] \in Nat
    BY fdAssumption DEF Fds
  <1>3. \A f \in Fds : f \in Nat
    BY fdAssumption DEF Fds
  <1>4. fd \in [Channels -> Fds]
    BY fdAssumption DEF Fds
  <1>5. fd \in Surjection(Channels, Fds)
    BY <1>4 DEF Surjection, Fds
  <1>6. IsFiniteSet(Fds) /\ Cardinality(Fds) <= Cardinality(Channels)
    BY <1>5, channelsAssumption, FS_Surjection
  <1>7. Cardinality(Fds) \in Nat /\ Cardinality(Channels) \in Nat
    BY <1>6, channelsAssumption, FS_CardinalityType
  <1> QED
    BY <1>1, <1>2, <1>3, <1>4, <1>6, <1>7

(* What Interest() leaves is an interest. *)
LEMMA InterestType ==
  ASSUME NEW call \in Updates, NEW e \in SUBSET Events
  PROVE  Interest(call, e) \in SUBSET Events
PROOF
  BY DEF Updates, Interest, Events, kNoneEvent

(* The descriptor of an open channel is its own, or nobody's. *)
LEMMA OpenOwner ==
  ASSUME TypeOK, OwnerInv, NEW c \in Channels, life[c] = "open"
  PROVE  /\ channels_[fd[c]] \in {"NULL", c}
         /\ index_[c] = -1 <=> channels_[fd[c]] = "NULL"
         /\ index_[c] = -1 <=> channels_[fd[c]] # c
         /\ \A d \in Channels : d # c /\ fd[d] = fd[c] => channels_[fd[d]] # d
PROOF
  <1>1. fd[c] \in Fds /\ channels_[fd[c]] \in Channels \cup {"NULL"} /\ "NULL" \notin Channels
    BY FdFacts, channelsAssumption DEF TypeOK
  <1>2. channels_[fd[c]] \in {"NULL", c}
    BY <1>1 DEF OwnerInv
  <1>3. index_[c] = -1 <=> channels_[fd[c]] # c
    BY DEF OwnerInv
  <1> QED
    BY <1>1, <1>2, <1>3

(* An open channel that is not in epoll finds its descriptor free there. *)
LEMMA EpollEntry ==
  ASSUME TypeOK, OwnerInv, EpollInv, NEW c \in Channels, life[c] = "open", ~usePoll
  PROVE  epoll[fd[c]] = EP!Absent <=> index_[c] # EP!kAdded
PROOF
  <1>1. fd[c] \in Fds /\ "NULL" \notin Channels /\ channels_[fd[c]] \in {"NULL", c}
    BY FdFacts, OpenOwner, channelsAssumption
  <1>2. ASSUME index_[c] = EP!kAdded
        PROVE  epoll[fd[c]] # EP!Absent
    <2>1. epoll[fd[c]].ptr = c
      BY <1>2 DEF EpollInv
    <2>2. EP!Absent.ptr = "NULL"
      BY DEF EP!Absent
    <2> QED
      BY <1>1, <2>1, <2>2
  <1>3. ASSUME epoll[fd[c]] # EP!Absent
        PROVE  index_[c] = EP!kAdded
    <2>1. /\ epoll[fd[c]].ptr \in Channels /\ channels_[fd[c]] = epoll[fd[c]].ptr
          /\ index_[epoll[fd[c]].ptr] = EP!kAdded
      BY <1>1, <1>3 DEF EpollInv
    <2> QED
      BY <1>1, <2>1
  <1> QED
    BY <1>2, <1>3

(* EPollPoller::updateChannel: neither its asserts nor epoll_ctl() fail. *)
LEMMA UpdateSucceeds ==
  ASSUME TypeOK, OwnerInv, EpollInv, NEW c \in Channels, life[c] = "open", ~usePoll, NEW events
  PROVE  ~EP!updateFails(c, events)
PROOF
  <1>1. channels_[fd[c]] = IF index_[c] = EP!kNew THEN "NULL" ELSE c
    BY OpenOwner DEF EP!kNew
  <1>2. (EP!operationFor(c, events) = "ADD") <=> (index_[c] # EP!kAdded)
    BY DEF EP!operationFor
  <1>3. ~EP!ctlFails(EP!operationFor(c, events), fd[c])
    BY <1>2, EpollEntry, Zenon DEF EP!ctlFails
  <1> QED
    BY <1>1, <1>3, Zenon DEF EP!updateFails

(* EPollPoller::removeChannel: neither do its. *)
LEMMA RemoveSucceeds ==
  ASSUME TypeOK, OwnerInv, EpollInv, NEW c \in Channels, life[c] = "open", ~usePoll,
         channels_[fd[c]] = c, isNoneEvent(events_[c])
  PROVE  ~EP!removeFails(c)
PROOF
  <1>1. index_[c] # EP!kNew
    BY OpenOwner DEF EP!kNew
  <1>2. index_[c] = EP!kAdded => ~EP!ctlFails("DEL", fd[c])
    <2>1. "DEL" # "ADD"
      OBVIOUS
    <2> QED
      BY <2>1, EpollEntry, Zenon DEF EP!ctlFails
  <1> QED
    BY <1>1, <1>2, Zenon
    DEF EP!removeFails, isNoneEvent, kNoneEvent, EP!isNoneEvent, EP!kNoneEvent

(* A channel's interest changes: it is registered, and no other is touched. *)
LEMMA UpdateEffect ==
  ASSUME TypeOK, OwnerInv, EpollInv, NEW c \in Channels, update(c)
  PROVE  /\ life[c] = "open" /\ pc # "poll"
         /\ UNCHANGED <<usePoll, life, missed, pc, activeChannels_, turn>>
         /\ aborted' = "no"
         /\ channels_' = [channels_ EXCEPT ![fd[c]] = c]
         /\ \E call \in Updates :
              /\ events_' = [events_ EXCEPT ![c] = Interest(call, events_[c])]
              /\ updateChannel(c, Interest(call, events_[c]))
PROOF
  <1>1. /\ life[c] = "open" /\ pc # "poll"
        /\ UNCHANGED <<usePoll, life, missed, pc, activeChannels_, turn>>
    BY Zenon DEF update, inUserCode
  <1>2. PICK call \in Updates :
          LET events == Interest(call, events_[c]) IN
          /\ events_' = [events_ EXCEPT ![c] = events]
          /\ aborted' = IF ~usePoll /\ EP!updateFails(c, events) THEN "poller" ELSE "no"
          /\ updateChannel(c, events)
    BY Zenon DEF update
  <1> DEFINE e == Interest(call, events_[c])
  <1>3. events_' = [events_ EXCEPT ![c] = e] /\ updateChannel(c, e)
    BY <1>2
  <1>4. aborted' = "no"
    <2>1. ~(~usePoll /\ EP!updateFails(c, e))
      BY <1>1, UpdateSucceeds
    <2> HIDE DEF e
    <2>2. aborted' = IF ~usePoll /\ EP!updateFails(c, e) THEN "poller" ELSE "no"
      BY <1>2 DEF e
    <2> QED
      BY <2>1, <2>2, Zenon
  <1> HIDE DEF e
  <1>5. channels_' = [channels_ EXCEPT ![fd[c]] = c]
    <2>1. CASE ~usePoll
      BY <1>3, <2>1 DEF updateChannel, EP!updateChannel
    <2>2. CASE usePoll
      <3>0. PP!updateChannel(c, e)
        BY <1>3, <2>2 DEF updateChannel
      <3>a. index_[c] \in Int
        BY <2>2 DEF TypeOK, PP!TypeOK
      <3>1. CASE index_[c] < 0
        BY <3>0, <3>a, <3>1 DEF PP!updateChannel
      <3>2. CASE ~(index_[c] < 0)
        <4>1. channels_' = channels_
          BY <3>0, <3>2 DEF PP!updateChannel
        <4>2. channels_[fd[c]] = c
          BY <1>1, <3>2, OpenOwner
        <4>3. channels_ \in [Fds -> Channels \cup {"NULL"}]
          BY DEF TypeOK
        <4> QED
          BY <4>1, <4>2, <4>3
      <3> QED
        BY <3>1, <3>2
    <2> QED
      BY <2>1, <2>2
  <1> QED
    BY <1>1, <1>3, <1>4, <1>5 DEF e

(* A channel is removed: it is not registered any more, and no other is      *)
(* touched; or the assert of EventLoop::removeChannel fails.                 *)
LEMMA RemoveEffect ==
  ASSUME TypeOK, OwnerInv, EpollInv, NEW c \in Channels, remove(c)
  PROVE  /\ life[c] = "open" /\ channels_[fd[c]] = c /\ events_[c] = kNoneEvent /\ pc # "poll"
         /\ UNCHANGED <<usePoll, events_, missed, pc, activeChannels_, turn>>
         /\ \/ aborted' = "loop" /\ UNCHANGED <<pollerVars, life>>
            \/ /\ ~removesOther(c) /\ aborted' = "no"
               /\ channels_' = [channels_ EXCEPT ![fd[c]] = "NULL"]
               /\ life' = [life EXCEPT ![c] = "closed"]
               /\ removeChannel(c)
PROOF
  <1>1. /\ life[c] = "open" /\ channels_[fd[c]] = c /\ isNoneEvent(events_[c]) /\ pc # "poll"
        /\ UNCHANGED <<usePoll, events_, missed, pc, activeChannels_, turn>>
    BY Zenon DEF remove, inUserCode
  <1>2. CASE removesOther(c)
    BY <1>1, <1>2, Zenon DEF remove, isNoneEvent
  <1>3. CASE ~removesOther(c)
    <2>1. /\ aborted' = IF ~usePoll /\ EP!removeFails(c) THEN "poller" ELSE "no"
          /\ removeChannel(c) /\ life' = [life EXCEPT ![c] = "closed"]
      BY <1>3, Zenon DEF remove
    <2>2. ~(~usePoll /\ EP!removeFails(c))
      BY <1>1, RemoveSucceeds
    <2>3. aborted' = "no"
      BY <2>1, <2>2, Zenon
    <2>4. channels_' = [channels_ EXCEPT ![fd[c]] = "NULL"]
      BY <2>1, Zenon DEF removeChannel, EP!removeChannel, PP!removeChannel
    <2> QED
      BY <1>1, <1>3, <2>1, <2>3, <2>4 DEF isNoneEvent
  <1> QED
    BY <1>2, <1>3

--------------------------------------------------------------------------------
(* The places of the array. *)

(* Both pollers count alike. *)
LEMMA SameCardinality ==
  \A S : EP!Cardinality(S) = Cardinality(S) /\ PP!Cardinality(S) = Cardinality(S)
PROOF
  BY DEF EP!Cardinality, PP!Cardinality, Cardinality

(* The types of the array and of what finds places in it. *)
LEMMA PollTypes ==
  ASSUME TypeOK, usePoll
  PROVE  /\ pollfds_ \in Seq(PP!Pollfd) /\ Len(pollfds_) \in Nat
         /\ DOMAIN pollfds_ = 1 .. Len(pollfds_)
         /\ index_ \in [Channels -> Int]
         /\ \A c \in Channels : index_[c] \in Int
         /\ \A c \in Channels : index_[c] \in -1 .. Cardinality(Fds) - 1
PROOF
  <1>1. /\ index_ \in [Channels -> -1 .. Cardinality(PP!Fds) - 1]
        /\ pollfds_ \in Seq(PP!Pollfd)
    <2>1. PP!TypeOK
      BY Zenon DEF TypeOK
    <2> QED
      BY <2>1, SameCardinality DEF PP!TypeOK
  <1>2. Cardinality(PP!Fds) = Cardinality(Fds)
    BY FdFacts
  <1>3. \A c \in Channels : index_[c] \in -1 .. Cardinality(Fds) - 1
    BY <1>1, <1>2
  <1>4. \A c \in Channels : index_[c] \in Int
    BY <1>3, FdFacts
  <1>5. index_ \in [Channels -> Int]
    BY <1>1, <1>4
  <1> QED
    BY <1>1, <1>3, <1>4, <1>5, LenProperties

(* The descriptor that a place tells, ignored or not, is its channel's. *)
LEMMA PlaceFd ==
  ASSUME NEW c \in Channels, NEW place, PlaceOf(place, c)
  PROVE  (IF place.fd < 0 THEN PP!ignored(place.fd) ELSE place.fd) = fd[c]
PROOF
  <1>1. fd[c] \in Nat
    BY FdFacts
  <1>2. place.fd = fd[c] \/ place.fd = -fd[c] - 1
    BY DEF PlaceOf, PP!ignored
  <1> QED
    BY <1>1, <1>2 DEF PP!ignored

(* No two registered channels have the same place. *)
LEMMA OwnPlace ==
  ASSUME PollInv, usePoll, NEW c \in Registered, NEW d \in Registered, index_[c] = index_[d]
  PROVE  c = d
PROOF
  <1>1. PlaceOf(pollfds_[PP!At(index_[c])], c) /\ PlaceOf(pollfds_[PP!At(index_[c])], d)
    BY DEF PollInv
  <1>2. c \in Channels /\ d \in Channels /\ channels_[fd[c]] = c /\ channels_[fd[d]] = d
    BY DEF Registered
  <1>3. fd[c] = fd[d]
    BY <1>1, <1>2, PlaceFd, Zenon
  <1> QED
    BY <1>2, <1>3

(* PollPoller::updateChannel of a new channel: a place at the end. *)
LEMMA AppendEffect ==
  ASSUME TypeOK, usePoll, NEW c \in Channels, NEW e \in SUBSET Events, PP!updateChannel(c, e),
         index_[c] = -1
  PROVE  /\ index_' = [index_ EXCEPT ![c] = Len(pollfds_)]
         /\ pollfds_' \in Seq(PP!Pollfd) /\ Len(pollfds_') = Len(pollfds_) + 1
         /\ \A i \in 1 .. Len(pollfds_) : pollfds_'[i] = pollfds_[i]
         /\ pollfds_'[Len(pollfds_) + 1].fd = fd[c]
         /\ pollfds_'[Len(pollfds_) + 1].events = e
PROOF
  <1> DEFINE place == [fd |-> fd[c], events |-> e]
  <1>1. index_' = [index_ EXCEPT ![c] = Len(pollfds_)] /\ pollfds_' = Append(pollfds_, place)
    BY DEF PP!updateChannel
  <1>2. place \in PP!Pollfd
    <2>1. fd[c] \in PP!Fds /\ e \in SUBSET PP!Events
      BY FdFacts DEF Events, PP!Events, kReadEvent, kWriteEvent, PP!kReadEvent, PP!kWriteEvent
    <2> QED
      BY <2>1 DEF PP!Pollfd
  <1>3. place.fd = fd[c] /\ place.events = e
    OBVIOUS
  <1>4. pollfds_ \in Seq(PP!Pollfd) /\ Len(pollfds_) \in Nat
    BY PollTypes
  <1> HIDE DEF place
  <1>5. /\ pollfds_' \in Seq(PP!Pollfd) /\ Len(pollfds_') = Len(pollfds_) + 1
        /\ \A i \in 1 .. Len(pollfds_) : pollfds_'[i] = pollfds_[i]
        /\ pollfds_'[Len(pollfds_) + 1] = place
    BY <1>1, <1>2, <1>4, AppendProperties
  <1> QED
    BY <1>1, <1>3, <1>5

(* PollPoller::updateChannel of a registered channel: its own place. *)
LEMMA InPlaceEffect ==
  ASSUME TypeOK, usePoll, NEW c \in Channels, NEW e \in SUBSET Events, PP!updateChannel(c, e),
         index_[c] \in 0 .. Len(pollfds_) - 1
  PROVE  /\ UNCHANGED index_
         /\ pollfds_' \in Seq(PP!Pollfd) /\ Len(pollfds_') = Len(pollfds_)
         /\ \A i \in 1 .. Len(pollfds_) : i # index_[c] + 1 => pollfds_'[i] = pollfds_[i]
         /\ pollfds_'[index_[c] + 1].events = e
         /\ pollfds_'[index_[c] + 1].fd = IF e = kNoneEvent THEN PP!ignored(fd[c]) ELSE fd[c]
PROOF
  <1> DEFINE f == IF e = kNoneEvent THEN PP!ignored(fd[c]) ELSE fd[c]
             place == [fd |-> f, events |-> e]
  <1>0. pollfds_ \in Seq(PP!Pollfd) /\ Len(pollfds_) \in Nat /\ index_[c] + 1 \in 1 .. Len(pollfds_)
    BY PollTypes
  <1>1. UNCHANGED index_ /\ pollfds_' = [pollfds_ EXCEPT ![index_[c] + 1] = place]
    BY DEF PP!updateChannel, PP!At, PP!isNoneEvent, PP!kNoneEvent, kNoneEvent
  <1>2. place \in PP!Pollfd
    <2>1. fd[c] \in PP!Fds /\ e \in SUBSET PP!Events
      BY FdFacts DEF Events, PP!Events, kReadEvent, kWriteEvent, PP!kReadEvent, PP!kWriteEvent
    <2>2. f \in PP!Fds \cup {-g - 1 : g \in PP!Fds}
      BY <2>1 DEF PP!ignored
    <2> HIDE DEF f
    <2> QED
      BY <2>1, <2>2 DEF PP!Pollfd
  <1> HIDE DEF f
  <1>3. place.fd = f /\ place.events = e
    OBVIOUS
  <1> HIDE DEF place
  <1>4. /\ pollfds_' \in Seq(PP!Pollfd) /\ Len(pollfds_') = Len(pollfds_)
        /\ pollfds_'[index_[c] + 1] = place
        /\ \A i \in 1 .. Len(pollfds_) : i # index_[c] + 1 => pollfds_'[i] = pollfds_[i]
    BY <1>0, <1>1, <1>2, ExceptSeq
  <1> QED
    BY <1>1, <1>3, <1>4 DEF f

(* A sequence without its last element. *)
LEMMA FrontOf ==
  ASSUME NEW S, NEW q \in Seq(S), q # <<>>
  PROVE  /\ Front(q) \in Seq(S) /\ Len(Front(q)) = Len(q) - 1
         /\ \A i \in 1 .. Len(q) - 1 : Front(q)[i] = q[i]
PROOF
  <1>1. Len(q) \in Nat /\ Len(q) >= 1 /\ \A i \in 1 .. Len(q) : q[i] \in S
    BY ElementOfSeq
  <1>2. Len(q) - 1 \in Int /\ \A i \in 1 .. Len(q) - 1 : q[i] \in S
    BY <1>1
  <1> DEFINE r == SubSeq(q, 1, Len(q) - 1)
  <1>3. /\ r \in Seq(S)
        /\ Len(r) = IF 1 <= Len(q) - 1 THEN Len(q) - 1 - 1 + 1 ELSE 0
        /\ \A i \in 1 .. Len(q) - 1 - 1 + 1 : r[i] = q[1 + i - 1]
    BY <1>2, SubSeqProperties
  <1>4. Front(q) = r
    BY DEF Front
  <1> HIDE DEF r
  <1>5. Len(r) = Len(q) - 1
    <2>1. \A n \in Nat : n >= 1 => (IF 1 <= n - 1 THEN n - 1 - 1 + 1 ELSE 0) = n - 1
      OBVIOUS
    <2> QED
      BY <1>1, <1>3, <2>1, Zenon
  <1>6. \A i \in 1 .. Len(q) - 1 : r[i] = q[i]
    <2> SUFFICES ASSUME NEW i \in 1 .. Len(q) - 1
                 PROVE  r[i] = q[i]
      OBVIOUS
    <2>1. i \in 1 .. Len(q) - 1 - 1 + 1 /\ 1 + i - 1 = i
      BY <1>1
    <2>2. r[i] = q[1 + i - 1]
      BY <1>3, <2>1, Zenon
    <2> QED
      BY <2>1, <2>2
  <1> QED
    BY <1>3, <1>4, <1>5, <1>6

(* PollPoller::removeChannel: the channel at the end, which may be the one   *)
(* that goes, gets its place.                                                *)
LEMMA FillGap ==
  ASSUME TypeOK, OwnerInv, PollInv, usePoll, NEW c \in Registered, PP!removeChannel(c)
  PROVE  \E m \in Registered :
           /\ index_[m] = Len(pollfds_) - 1
           /\ index_' = [index_ EXCEPT ![m] = index_[c]]
           /\ pollfds_' \in Seq(PP!Pollfd) /\ Len(pollfds_') = Len(pollfds_) - 1
           /\ \A i \in 1 .. Len(pollfds_) - 1 :
                pollfds_'[i] = pollfds_[IF i = index_[c] + 1 THEN Len(pollfds_) ELSE i]
PROOF
  <1>0. /\ pollfds_ \in Seq(PP!Pollfd) /\ Len(pollfds_) \in Nat
        /\ DOMAIN pollfds_ = 1 .. Len(pollfds_) /\ index_ \in [Channels -> Int]
    BY PollTypes
  <1>1. c \in Channels /\ index_[c] \in 0 .. Len(pollfds_) - 1 /\ index_[c] \in Int
    BY <1>0 DEF PollInv, Registered
  <1>2. CASE index_[c] = Len(pollfds_) - 1
    <2>1. pollfds_' = Front(pollfds_) /\ UNCHANGED index_
      BY <1>2 DEF PP!removeChannel, Front, PP!Front
    <2>2. index_ = [index_ EXCEPT ![c] = index_[c]]
      BY <1>0
    <2>3. /\ pollfds_' \in Seq(PP!Pollfd) /\ Len(pollfds_') = Len(pollfds_) - 1
          /\ \A i \in 1 .. Len(pollfds_) - 1 : pollfds_'[i] = pollfds_[i]
      <3>1. pollfds_ # <<>>
        BY <1>0, <1>1
      <3> QED
        BY <1>0, <2>1, <3>1, FrontOf
    <2>4. \A i \in 1 .. Len(pollfds_) - 1 :
            pollfds_'[i] = pollfds_[IF i = index_[c] + 1 THEN Len(pollfds_) ELSE i]
      <3>1. \A i \in 1 .. Len(pollfds_) - 1 : i # index_[c] + 1
        <4>1. index_[c] + 1 = Len(pollfds_)
          BY <1>0, <1>1, <1>2
        <4>2. \A n \in Nat : \A i \in 1 .. n - 1 : i # n
          OBVIOUS
        <4> QED
          BY <1>0, <4>1, <4>2, Zenon
      <3> QED
        BY <2>3, <3>1, Zenon
    <2> QED
      BY <1>2, <2>1, <2>2, <2>3, <2>4, Zenon
  <1>3. CASE index_[c] # Len(pollfds_) - 1
    <2>0. Len(pollfds_) \in DOMAIN pollfds_ /\ pollfds_ # <<>>
      BY <1>0, <1>1
    <2>1. PICK m \in Registered : PP!At(index_[m]) = Len(pollfds_)
      BY <2>0 DEF PollInv
    <2>2. m \in Channels /\ channels_[fd[m]] = m /\ index_[m] \in Int
      BY <1>0 DEF Registered
    <2>3. index_[m] = Len(pollfds_) - 1
      BY <1>0, <2>1, <2>2 DEF PP!At
    <2>4. PlaceOf(pollfds_[Len(pollfds_)], m)
      BY <2>1 DEF PollInv
    <2> DEFINE last == pollfds_[Len(pollfds_)]
               q == [pollfds_ EXCEPT ![index_[c] + 1] = last]
    <2>5. (IF last.fd < 0 THEN PP!ignored(last.fd) ELSE last.fd) = fd[m]
      BY <2>2, <2>4, PlaceFd
    <2>6. index_' = PP!movedTo(last.fd, index_[c]) /\ pollfds_' = Front(q)
      BY <1>3 DEF PP!removeChannel, Front, PP!Front, Last, PP!Last, PP!At
    <2>7. PP!movedTo(last.fd, index_[c]) = [index_ EXCEPT ![m] = index_[c]]
      BY <2>2, <2>5 DEF PP!movedTo
    <2>8. /\ q \in Seq(PP!Pollfd) /\ Len(q) = Len(pollfds_)
          /\ \A i \in 1 .. Len(pollfds_) :
               q[i] = pollfds_[IF i = index_[c] + 1 THEN Len(pollfds_) ELSE i]
      <3>1. last \in PP!Pollfd
        BY <1>0, <2>0, ElementOfSeq
      <3>2. index_[c] + 1 \in 1 .. Len(pollfds_)
        BY <1>0, <1>1
      <3> QED
        BY <1>0, <3>1, <3>2, ExceptSeq
    <2> HIDE DEF q
    <2>9. /\ pollfds_' \in Seq(PP!Pollfd) /\ Len(pollfds_') = Len(pollfds_) - 1
          /\ \A i \in 1 .. Len(pollfds_) - 1 : pollfds_'[i] = q[i]
      <3>1. q # <<>>
        BY <1>0, <1>1, <2>8
      <3> QED
        BY <1>0, <2>6, <2>8, <3>1, FrontOf
    <2>10. \A i \in 1 .. Len(pollfds_) - 1 :
             pollfds_'[i] = pollfds_[IF i = index_[c] + 1 THEN Len(pollfds_) ELSE i]
      BY <1>0, <2>8, <2>9
    <2>11. index_' = [index_ EXCEPT ![m] = index_[c]]
      BY <2>6, <2>7, Zenon
    <2> QED
      BY <2>3, <2>9, <2>10, <2>11, Zenon
  <1> QED
    BY <1>2, <1>3

--------------------------------------------------------------------------------
(* The owners of descriptors. *)

(* Channel::update(): the channel is registered from now on. *)
LEMMA UpdateRegisters ==
  ASSUME TypeOK, OwnerInv, EpollInv, NEW c \in Channels, update(c)
  PROVE  /\ Registered' = Registered \cup {c}
         /\ \A d \in Channels : (channels_[fd[d]])' = d <=> (d = c \/ channels_[fd[d]] = d)
PROOF
  <1>1. life[c] = "open" /\ channels_' = [channels_ EXCEPT ![fd[c]] = c]
    BY UpdateEffect, Zenon
  <1>2. channels_ \in [Fds -> Channels \cup {"NULL"}]
    BY DEF TypeOK
  <1>3. \A d \in Channels : d # c /\ fd[d] = fd[c] => channels_[fd[d]] # d
    BY <1>1, OpenOwner
  <1>4. \A d \in Channels : fd[d] \in Fds
    BY FdFacts
  <1>5. \A d \in Channels : channels_'[fd[d]] = d <=> (d = c \/ channels_[fd[d]] = d)
    BY <1>1, <1>2, <1>3, <1>4
  <1> QED
    BY <1>5 DEF Registered

(* Channel::remove(): the channel is not registered any more. *)
LEMMA RemoveUnregisters ==
  ASSUME TypeOK, OwnerInv, NEW c \in Channels, life[c] = "open",
         channels_' = [channels_ EXCEPT ![fd[c]] = "NULL"]
  PROVE  /\ Registered' = Registered \ {c}
         /\ \A d \in Channels : (channels_[fd[d]])' = d <=> (d # c /\ channels_[fd[d]] = d)
PROOF
  <1>2. channels_ \in [Fds -> Channels \cup {"NULL"}] /\ "NULL" \notin Channels
    BY channelsAssumption DEF TypeOK
  <1>3. \A d \in Channels : d # c /\ fd[d] = fd[c] => channels_[fd[d]] # d
    BY OpenOwner
  <1>4. \A d \in Channels : fd[d] \in Fds
    BY FdFacts
  <1>5. \A d \in Channels : channels_'[fd[d]] = d <=> (d # c /\ channels_[fd[d]] = d)
    BY <1>2, <1>3, <1>4
  <1> QED
    BY <1>5 DEF Registered

(* What channels know of themselves in the pollers' types. *)
LEMMA IndexType ==
  ASSUME TypeOK
  PROVE  index_ \in [Channels -> Int]
PROOF
  <1>1. CASE usePoll
    BY <1>1, PollTypes
  <1>2. CASE ~usePoll
    <2>1. EP!TypeOK
      BY <1>2, Zenon DEF TypeOK
    <2> QED
      BY <2>1 DEF EP!TypeOK, EP!kNew, EP!kAdded, EP!kDeleted
  <1> QED
    BY <1>1, <1>2

(* The index of the other channels is left alone by an update. *)
LEMMA UpdateIndex ==
  ASSUME TypeOK, OwnerInv, EpollInv, PollInv, NEW c \in Channels, update(c)
  PROVE  index_'[c] # -1 /\ \A d \in Channels : d # c => index_'[d] = index_[d]
PROOF
  <1>1. life[c] = "open" /\ UNCHANGED usePoll
    BY UpdateEffect, Zenon
  <1>2. \E call \in Updates : updateChannel(c, Interest(call, events_[c]))
    BY UpdateEffect, Zenon
  <1>3. PICK call \in Updates : updateChannel(c, Interest(call, events_[c]))
    BY <1>2, Zenon
  <1> DEFINE e == Interest(call, events_[c])
  <1>4. e \in SUBSET Events
    BY InterestType DEF TypeOK
  <1>5. updateChannel(c, e)
    BY <1>3
  <1> HIDE DEF e
  <1>6. index_ \in [Channels -> Int]
    BY IndexType
  <1>7. CASE usePoll
    <2>1. PP!updateChannel(c, e)
      BY <1>5, <1>7, Zenon DEF updateChannel
    <2>2. CASE index_[c] = -1
      <3>1. index_' = [index_ EXCEPT ![c] = Len(pollfds_)] /\ Len(pollfds_) \in Nat
        BY <1>4, <1>7, <2>1, <2>2, AppendEffect, PollTypes
      <3> QED
        BY <1>6, <3>1
    <2>3. CASE index_[c] # -1
      <3>1. c \in Registered
        BY <1>1, <2>3, OpenOwner DEF Registered
      <3>2. index_[c] \in 0 .. Len(pollfds_) - 1
        BY <1>7, <3>1, Zenon DEF PollInv
      <3>3. UNCHANGED index_
        BY <1>4, <1>7, <2>1, <3>2, InPlaceEffect
      <3> QED
        BY <2>3, <3>3
    <2> QED
      BY <2>2, <2>3
  <1>8. CASE ~usePoll
    <2>1. EP!updateChannel(c, e)
      BY <1>5, <1>8, Zenon DEF updateChannel
    <2>2. index_' = [index_ EXCEPT ![c] = EP!indexAfter(EP!operationFor(c, e))]
      BY <2>1 DEF EP!updateChannel
    <2>3. EP!indexAfter(EP!operationFor(c, e)) \in {1, 2}
      BY DEF EP!indexAfter, EP!kDeleted, EP!kAdded
    <2> QED
      BY <1>6, <2>2, <2>3
  <1> QED
    BY <1>7, <1>8

(* A removal never changes whether another channel has an index. *)
LEMMA RemoveIndex ==
  ASSUME TypeOK, OwnerInv, PollInv, NEW c \in Registered, removeChannel(c)
  PROVE  \A d \in Channels : d # c => (index_'[d] = -1 <=> index_[d] = -1)
PROOF
  <1>0. index_ \in [Channels -> Int] /\ c \in Channels
    BY IndexType DEF Registered
  <1>1. CASE usePoll
    <2>1. PP!removeChannel(c)
      BY <1>1, Zenon DEF removeChannel
    <2>2. PICK m \in Registered :
            index_[m] = Len(pollfds_) - 1 /\ index_' = [index_ EXCEPT ![m] = index_[c]]
      BY <1>1, <2>1, FillGap
    <2>3. index_[m] \in 0 .. Len(pollfds_) - 1 /\ index_[c] \in 0 .. Len(pollfds_) - 1
      BY <1>1 DEF PollInv
    <2>4. index_[m] # -1 /\ index_[c] # -1 /\ m \in Channels
      <3>1. \A n \in Int : \A i \in 0 .. n : i # -1
        OBVIOUS
      <3>2. Len(pollfds_) - 1 \in Int
        BY <1>1, PollTypes
      <3> QED
        BY <2>3, <3>1, <3>2 DEF Registered
    <2> QED
      BY <1>0, <2>2, <2>4
  <1>2. CASE ~usePoll
    <2>1. EP!removeChannel(c)
      BY <1>2, Zenon DEF removeChannel
    <2> QED
      BY <1>0, <2>1 DEF EP!removeChannel
  <1> QED
    BY <1>1, <1>2

(* OwnerInv holds on when a channel is opened, *)
LEMMA OwnerOpen ==
  ASSUME TypeOK, OwnerInv, NEW c \in Channels, open(c)
  PROVE  OwnerInv'
PROOF
  <1>1. /\ life[c] = "unborn" /\ \A d \in Channels : life[d] = "open" => fd[d] # fd[c]
        /\ life' = [life EXCEPT ![c] = "open"]
        /\ UNCHANGED <<events_, index_, channels_>>
    BY Zenon DEF open, pollerVars
  <1>2. life \in [Channels -> {"unborn", "open", "closed"}]
    BY DEF TypeOK
  <1>3. channels_ \in [Fds -> Channels \cup {"NULL"}]
    BY DEF TypeOK
  <1>4. \A f \in Fds : channels_'[f] # "NULL" =>
          fd[channels_'[f]] = f /\ life'[channels_'[f]] = "open"
    BY <1>1, <1>2, <1>3 DEF OwnerInv
  <1>5. \A a, d \in Channels : life'[a] = "open" /\ life'[d] = "open" /\ fd[a] = fd[d] => a = d
    BY <1>1, <1>2 DEF OwnerInv
  <1>6. \A d \in Channels : (channels_[fd[d]])' # d => events_'[d] = kNoneEvent
    BY <1>1 DEF OwnerInv
  <1>7. \A d \in Channels : life'[d] # "closed" => (index_'[d] = -1 <=> channels_'[fd[d]] # d)
    BY <1>1, <1>2 DEF OwnerInv
  <1> QED
    BY <1>4, <1>5, <1>6, <1>7 DEF OwnerInv, Fds

(* ... when the interest of a channel changes, *)
LEMMA OwnerUpdate ==
  ASSUME TypeOK, OwnerInv, EpollInv, PollInv, NEW c \in Channels, update(c)
  PROVE  OwnerInv'
PROOF
  <1>1. /\ life[c] = "open" /\ UNCHANGED life /\ channels_' = [channels_ EXCEPT ![fd[c]] = c]
        /\ \E call \in Updates : events_' = [events_ EXCEPT ![c] = Interest(call, events_[c])]
    BY UpdateEffect, Zenon
  <1>2. \A d \in Channels : channels_'[fd[d]] = d <=> (d = c \/ channels_[fd[d]] = d)
    BY UpdateRegisters
  <1>3. index_'[c] # -1 /\ \A d \in Channels : d # c => index_'[d] = index_[d]
    BY UpdateIndex
  <1>4. \A d \in Channels : d # c => events_'[d] = events_[d]
    BY <1>1 DEF TypeOK
  <1>5. channels_ \in [Fds -> Channels \cup {"NULL"}]
    BY DEF TypeOK
  <1>6. \A f \in Fds : channels_'[f] # "NULL" =>
          fd[channels_'[f]] = f /\ life'[channels_'[f]] = "open"
    BY <1>1, <1>5 DEF OwnerInv
  <1>7. \A d \in Channels : channels_'[fd[d]] # d => events_'[d] = kNoneEvent
    BY <1>2, <1>4 DEF OwnerInv
  <1>8. \A d \in Channels : life'[d] # "closed" => (index_'[d] = -1 <=> channels_'[fd[d]] # d)
    BY <1>1, <1>2, <1>3 DEF OwnerInv
  <1>9. \A a, d \in Channels : life'[a] = "open" /\ life'[d] = "open" /\ fd[a] = fd[d] => a = d
    BY <1>1 DEF OwnerInv
  <1> QED
    BY <1>6, <1>7, <1>8, <1>9 DEF OwnerInv, Fds

(* ... and when a channel is removed. *)
LEMMA OwnerRemove ==
  ASSUME TypeOK, OwnerInv, EpollInv, PollInv, NEW c \in Channels, remove(c)
  PROVE  OwnerInv'
PROOF
  <1>1. life[c] = "open" /\ channels_[fd[c]] = c /\ events_[c] = kNoneEvent /\ UNCHANGED events_
    BY RemoveEffect, Zenon
  <1>2. CASE UNCHANGED <<pollerVars, life>>
    <2>1. UNCHANGED <<events_, index_, channels_, life>>
      BY <1>1, <1>2 DEF pollerVars
    <2> QED
      BY <2>1 DEF OwnerInv, Fds
  <1>3. CASE ~UNCHANGED <<pollerVars, life>>
    <2>1. /\ channels_' = [channels_ EXCEPT ![fd[c]] = "NULL"]
          /\ life' = [life EXCEPT ![c] = "closed"]
          /\ removeChannel(c)
      BY <1>3, RemoveEffect, Zenon
    <2>2. \A d \in Channels : channels_'[fd[d]] = d <=> (d # c /\ channels_[fd[d]] = d)
      BY <1>1, <2>1, RemoveUnregisters
    <2>3. c \in Registered
      BY <1>1 DEF Registered
    <2>4. \A d \in Channels : d # c => (index_'[d] = -1 <=> index_[d] = -1)
      BY <2>1, <2>3, RemoveIndex
    <2>5. channels_ \in [Fds -> Channels \cup {"NULL"}]
      BY DEF TypeOK
    <2>6. life \in [Channels -> {"unborn", "open", "closed"}]
      BY DEF TypeOK
    <2>7. \A f \in Fds : channels_'[f] # "NULL" =>
            fd[channels_'[f]] = f /\ life'[channels_'[f]] = "open"
      BY <2>1, <2>5, <2>6 DEF OwnerInv
    <2>8. \A d \in Channels : channels_'[fd[d]] # d => events_'[d] = kNoneEvent
      BY <1>1, <2>2 DEF OwnerInv
    <2>9. \A d \in Channels : life'[d] # "closed" => (index_'[d] = -1 <=> channels_'[fd[d]] # d)
      BY <2>1, <2>2, <2>4, <2>6 DEF OwnerInv
    <2>10. \A a, d \in Channels :
             life'[a] = "open" /\ life'[d] = "open" /\ fd[a] = fd[d] => a = d
      BY <2>1, <2>6 DEF OwnerInv
    <2> QED
      BY <2>7, <2>8, <2>9, <2>10 DEF OwnerInv, Fds
  <1> QED
    BY <1>2, <1>3

--------------------------------------------------------------------------------
(* The entries of epoll. *)

(* The types of what EPollPoller keeps. *)
LEMMA EpollTypes ==
  ASSUME TypeOK, ~usePoll
  PROVE  /\ index_ \in [Channels -> {EP!kNew, EP!kAdded, EP!kDeleted}]
         /\ epoll \in [Fds -> EP!Entry \cup {EP!Absent}]
         /\ EP!kNew = -1 /\ EP!kAdded = 1 /\ EP!kDeleted = 2
PROOF
  <1>1. EP!TypeOK
    BY Zenon DEF TypeOK
  <1> QED
    BY <1>1, FdFacts DEF EP!TypeOK, EP!kNew, EP!kAdded, EP!kDeleted

(* EPollPoller::updateChannel: the channel's entry gets its interest, or the *)
(* channel without interest leaves epoll.                                    *)
LEMMA UpdateEpoll ==
  ASSUME TypeOK, OwnerInv, EpollInv, NEW c \in Channels, update(c), ~usePoll
  PROVE  \/ /\ epoll' = [epoll EXCEPT ![fd[c]] = [events |-> events_'[c], ptr |-> c]]
            /\ index_' = [index_ EXCEPT ![c] = EP!kAdded]
         \/ /\ epoll' = [epoll EXCEPT ![fd[c]] = EP!Absent]
            /\ index_' = [index_ EXCEPT ![c] = EP!kDeleted]
            /\ events_'[c] = kNoneEvent
PROOF
  <1>1. PICK call \in Updates :
          /\ events_' = [events_ EXCEPT ![c] = Interest(call, events_[c])]
          /\ updateChannel(c, Interest(call, events_[c]))
    BY UpdateEffect, Zenon
  <1> DEFINE e == Interest(call, events_[c])
             op == EP!operationFor(c, e)
  <1>2. events_'[c] = e
    BY <1>1 DEF TypeOK
  <1>3. EP!updateChannel(c, e)
    BY <1>1, Zenon DEF updateChannel
  <1> HIDE DEF e
  <1>4. index_' = [index_ EXCEPT ![c] = EP!indexAfter(op)] /\ EP!ctl(op, c, e)
    BY <1>3 DEF EP!updateChannel
  <1>5. op = "DEL" => e = kNoneEvent
    BY DEF EP!operationFor, EP!isNoneEvent, EP!kNoneEvent, kNoneEvent
  <1> HIDE DEF op
  <1>6. CASE op = "DEL"
    BY <1>2, <1>4, <1>5, <1>6 DEF EP!indexAfter, EP!ctl
  <1>7. CASE op # "DEL"
    BY <1>2, <1>4, <1>7 DEF EP!indexAfter, EP!ctl
  <1> QED
    BY <1>6, <1>7

(* EPollPoller::removeChannel: nothing of the channel is left in epoll. *)
LEMMA RemoveEpoll ==
  ASSUME TypeOK, OwnerInv, EpollInv, NEW c \in Channels, life[c] = "open", ~usePoll,
         removeChannel(c)
  PROVE  /\ epoll' = [epoll EXCEPT ![fd[c]] = EP!Absent]
         /\ index_' = [index_ EXCEPT ![c] = EP!kNew]
PROOF
  <1>1. EP!removeChannel(c)
    BY Zenon DEF removeChannel
  <1>2. CASE index_[c] = EP!kAdded
    BY <1>1, <1>2 DEF EP!removeChannel, EP!ctl
  <1>3. CASE index_[c] # EP!kAdded
    <2>1. epoll[fd[c]] = EP!Absent
      BY <1>3, EpollEntry
    <2>2. epoll' = epoll
      BY <1>1, <1>3 DEF EP!removeChannel
    <2>3. epoll = [epoll EXCEPT ![fd[c]] = epoll[fd[c]]]
      BY EpollTypes
    <2> QED
      BY <1>1, <2>1, <2>2, <2>3 DEF EP!removeChannel
  <1> QED
    BY <1>2, <1>3

(* An entry is its channel's own. *)
LEMMA EntryOwner ==
  ASSUME TypeOK, OwnerInv, EpollInv, NEW c \in Channels, life[c] = "open"
  PROVE  /\ \A f \in Fds : epoll[f] # EP!Absent /\ f # fd[c] => epoll[f].ptr # c
         /\ \A d \in Channels : d # c /\ epoll[fd[d]].ptr = d => fd[d] # fd[c]
PROOF
  <1>1. "NULL" \notin Channels /\ EP!Absent.ptr = "NULL"
    BY channelsAssumption DEF EP!Absent
  <1>2. ASSUME NEW f \in Fds, epoll[f] # EP!Absent, f # fd[c]
        PROVE  epoll[f].ptr # c
    <2>1. epoll[f].ptr \in Channels /\ channels_[f] = epoll[f].ptr
      BY <1>2 DEF EpollInv
    <2>2. fd[channels_[f]] = f
      BY <1>1, <2>1 DEF OwnerInv
    <2> QED
      BY <1>2, <2>1, <2>2
  <1>3. ASSUME NEW d \in Channels, d # c, epoll[fd[d]].ptr = d, fd[d] = fd[c]
        PROVE  FALSE
    <2>1. epoll[fd[d]] # EP!Absent /\ fd[d] \in Fds
      BY <1>1, <1>3, FdFacts
    <2>2. channels_[fd[d]] = d
      BY <1>3, <2>1 DEF EpollInv
    <2> QED
      BY <1>3, <2>2, OpenOwner
  <1> QED
    BY <1>2, <1>3

(* epoll does not matter to a loop that uses ::poll(). *)
LEMMA EpollIdle ==
  ASSUME EpollInv, usePoll, UNCHANGED <<usePoll, epoll>>
  PROVE  EpollInv'
PROOF
  <1>1. \A f \in Fds : epoll'[f] = EP!Absent
    BY Zenon DEF EpollInv
  <1> QED
    BY <1>1 DEF EpollInv, Fds, EP!Absent

(* EpollInv holds on when the interest of a channel changes, *)
LEMMA EpollUpdate ==
  ASSUME TypeOK, OwnerInv, EpollInv, NEW c \in Channels, update(c)
  PROVE  EpollInv'
PROOF
  <1>1. /\ life[c] = "open" /\ UNCHANGED usePoll /\ channels_' = [channels_ EXCEPT ![fd[c]] = c]
        /\ \E call \in Updates : /\ events_' = [events_ EXCEPT ![c] = Interest(call, events_[c])]
                                 /\ updateChannel(c, Interest(call, events_[c]))
    BY UpdateEffect, Zenon
  <1>2. CASE usePoll
    <2>1. UNCHANGED <<usePoll, epoll>>
      BY <1>1, <1>2 DEF updateChannel
    <2> QED
      BY <1>2, <2>1, EpollIdle
  <1>3. CASE ~usePoll
    <2>1. \A d \in Channels : d # c => events_'[d] = events_[d]
      BY <1>1 DEF TypeOK
    <2>2. /\ index_ \in [Channels -> {EP!kNew, EP!kAdded, EP!kDeleted}]
          /\ epoll \in [Fds -> EP!Entry \cup {EP!Absent}]
          /\ EP!kNew = -1 /\ EP!kAdded = 1 /\ EP!kDeleted = 2
      BY <1>3, EpollTypes
    <2>3. channels_ \in [Fds -> Channels \cup {"NULL"}] /\ fd[c] \in Fds
      BY FdFacts DEF TypeOK
    <2>4. /\ \A f \in Fds : epoll[f] # EP!Absent /\ f # fd[c] => epoll[f].ptr # c
          /\ \A d \in Channels : d # c /\ epoll[fd[d]].ptr = d => fd[d] # fd[c]
      BY <1>1, EntryOwner
    <2> DEFINE entry == epoll'[fd[c]]
    <2>5. \A f \in Fds : f # fd[c] => epoll'[f] = epoll[f] /\ channels_'[f] = channels_[f]
      BY <1>1, <1>3, <2>2, <2>3, UpdateEpoll
    <2>6. \A d \in Channels : d # c => index_'[d] = index_[d]
      BY <1>3, <2>2, UpdateEpoll
    <2>7. \/ entry = [events |-> events_'[c], ptr |-> c] /\ index_'[c] = EP!kAdded
          \/ entry = EP!Absent /\ index_'[c] = EP!kDeleted /\ events_'[c] = kNoneEvent
      BY <1>3, <2>2, <2>3, UpdateEpoll
    <2>8. channels_'[fd[c]] = c
      BY <1>1, <2>3
    <2> HIDE DEF entry
    <2>9. ASSUME NEW f \in Fds, epoll'[f] # EP!Absent
          PROVE  /\ epoll'[f].ptr \in Channels /\ channels_'[f] = epoll'[f].ptr
                 /\ index_'[epoll'[f].ptr] = EP!kAdded
                 /\ epoll'[f].events = events_'[epoll'[f].ptr]
      <3>1. CASE f = fd[c]
        BY <2>7, <2>8, <2>9, <3>1 DEF entry
      <3>2. CASE f # fd[c]
        <4>1. epoll'[f] = epoll[f] /\ channels_'[f] = channels_[f] /\ epoll[f] # EP!Absent
          BY <2>5, <2>9, <3>2
        <4>2. /\ epoll[f].ptr \in Channels /\ channels_[f] = epoll[f].ptr
              /\ index_[epoll[f].ptr] = EP!kAdded /\ epoll[f].events = events_[epoll[f].ptr]
          BY <4>1 DEF EpollInv
        <4>3. epoll[f].ptr # c
          BY <2>4, <3>2, <4>1
        <4> QED
          BY <2>1, <2>6, <4>1, <4>2, <4>3
      <3> QED
        BY <3>1, <3>2
    <2>10. ASSUME NEW d \in Channels
           PROVE  /\ index_'[d] = EP!kAdded => epoll'[fd[d]].ptr = d
                  /\ index_'[d] = EP!kDeleted => events_'[d] = kNoneEvent
      <3>1. CASE d = c
        BY <2>2, <2>7, <3>1 DEF entry
      <3>2. CASE d # c
        <4>1. index_'[d] = index_[d] /\ events_'[d] = events_[d] /\ fd[d] \in Fds
          BY <2>1, <2>6, <3>2, FdFacts
        <4>2. /\ index_[d] = EP!kAdded => epoll[fd[d]].ptr = d
              /\ index_[d] = EP!kDeleted => events_[d] = kNoneEvent
          BY <1>3 DEF EpollInv
        <4>3. epoll[fd[d]].ptr = d => epoll'[fd[d]] = epoll[fd[d]]
          BY <2>4, <2>5, <3>2, <4>1
        <4> QED
          BY <4>1, <4>2, <4>3
      <3> QED
        BY <3>1, <3>2
    <2>11. /\ ~usePoll' /\ Fds' = Fds /\ EP!Absent' = EP!Absent
           /\ EP!kAdded' = EP!kAdded /\ EP!kDeleted' = EP!kDeleted
      BY <1>1, <1>3 DEF Fds, EP!Absent
    <2> QED
      BY <2>9, <2>10, <2>11 DEF EpollInv
  <1> QED
    BY <1>2, <1>3

(* ... and when a channel is removed. *)
LEMMA EpollRemove ==
  ASSUME TypeOK, OwnerInv, EpollInv, NEW c \in Channels, remove(c)
  PROVE  EpollInv'
PROOF
  <1>1. life[c] = "open" /\ events_[c] = kNoneEvent /\ UNCHANGED <<usePoll, events_>>
    BY RemoveEffect, Zenon
  <1>2. CASE UNCHANGED <<pollerVars, life>>
    <2>1. UNCHANGED <<usePoll, events_, index_, channels_, epoll>>
      BY <1>1, <1>2 DEF pollerVars
    <2> QED
      BY <2>1 DEF EpollInv, Fds, EP!Absent
  <1>3. CASE ~UNCHANGED <<pollerVars, life>>
    <2>1. channels_' = [channels_ EXCEPT ![fd[c]] = "NULL"] /\ removeChannel(c)
      BY <1>3, RemoveEffect, Zenon
    <2>2. CASE usePoll
      <3>1. UNCHANGED <<usePoll, epoll>>
        BY <1>1, <2>1, <2>2 DEF removeChannel
      <3> QED
        BY <2>2, <3>1, EpollIdle
    <2>3. CASE ~usePoll
      <3>1. /\ index_ \in [Channels -> {EP!kNew, EP!kAdded, EP!kDeleted}]
            /\ epoll \in [Fds -> EP!Entry \cup {EP!Absent}]
            /\ EP!kNew = -1 /\ EP!kAdded = 1 /\ EP!kDeleted = 2
        BY <2>3, EpollTypes
      <3>2. channels_ \in [Fds -> Channels \cup {"NULL"}] /\ fd[c] \in Fds
        BY FdFacts DEF TypeOK
      <3>3. /\ \A f \in Fds : epoll[f] # EP!Absent /\ f # fd[c] => epoll[f].ptr # c
            /\ \A d \in Channels : d # c /\ epoll[fd[d]].ptr = d => fd[d] # fd[c]
        BY <1>1, EntryOwner
      <3>4. /\ epoll' = [epoll EXCEPT ![fd[c]] = EP!Absent]
            /\ index_' = [index_ EXCEPT ![c] = EP!kNew]
        BY <1>1, <2>1, <2>3, RemoveEpoll
      <3>5. ASSUME NEW f \in Fds, epoll'[f] # EP!Absent
            PROVE  /\ epoll'[f].ptr \in Channels /\ channels_'[f] = epoll'[f].ptr
                   /\ index_'[epoll'[f].ptr] = EP!kAdded
                   /\ epoll'[f].events = events_'[epoll'[f].ptr]
        <4>1. f # fd[c] /\ epoll'[f] = epoll[f]
          BY <3>1, <3>4, <3>5
        <4>2. /\ epoll[f].ptr \in Channels /\ channels_[f] = epoll[f].ptr
              /\ index_[epoll[f].ptr] = EP!kAdded /\ epoll[f].events = events_[epoll[f].ptr]
          BY <3>5, <4>1 DEF EpollInv
        <4>3. epoll[f].ptr # c
          BY <3>3, <3>5, <4>1
        <4>4. channels_'[f] = channels_[f] /\ index_'[epoll[f].ptr] = index_[epoll[f].ptr]
          BY <2>1, <3>1, <3>2, <3>4, <4>1, <4>2, <4>3
        <4> QED
          BY <1>1, <4>1, <4>2, <4>4
      <3>6. ASSUME NEW d \in Channels
            PROVE  /\ index_'[d] = EP!kAdded => epoll'[fd[d]].ptr = d
                   /\ index_'[d] = EP!kDeleted => events_'[d] = kNoneEvent
        <4>1. CASE d = c
          BY <3>1, <3>4, <4>1
        <4>2. CASE d # c
          <5>1. index_'[d] = index_[d] /\ events_'[d] = events_[d] /\ fd[d] \in Fds
            BY <1>1, <3>1, <3>4, <4>2, FdFacts
          <5>2. /\ index_[d] = EP!kAdded => epoll[fd[d]].ptr = d
                /\ index_[d] = EP!kDeleted => events_[d] = kNoneEvent
            BY <2>3 DEF EpollInv
          <5>3. epoll[fd[d]].ptr = d => epoll'[fd[d]] = epoll[fd[d]]
            BY <3>1, <3>3, <3>4, <4>2, <5>1
          <5> QED
            BY <5>1, <5>2, <5>3
        <4> QED
          BY <4>1, <4>2
      <3>7. /\ ~usePoll' /\ Fds' = Fds /\ EP!Absent' = EP!Absent
            /\ EP!kAdded' = EP!kAdded /\ EP!kDeleted' = EP!kDeleted
        BY <1>1, <2>3 DEF Fds, EP!Absent
      <3> QED
        BY <3>5, <3>6, <3>7 DEF EpollInv
    <2> QED
      BY <2>2, <2>3
  <1> QED
    BY <1>2, <1>3

--------------------------------------------------------------------------------
(* The array of ::poll(). *)

(* What PollInv says of a registered channel. *)
LEMMA PlaceFacts ==
  ASSUME TypeOK, PollInv, usePoll, NEW c \in Registered
  PROVE  /\ c \in Channels /\ index_[c] \in Int /\ 0 <= index_[c] /\ index_[c] < Len(pollfds_)
         /\ index_[c] + 1 \in 1 .. Len(pollfds_)
         /\ pollfds_[index_[c] + 1].events = events_[c]
         /\ \/ pollfds_[index_[c] + 1].fd = fd[c]
            \/ pollfds_[index_[c] + 1].fd = PP!ignored(fd[c]) /\ events_[c] = kNoneEvent
PROOF
  <1>1. c \in Channels
    BY DEF Registered
  <1>2. index_[c] \in Int /\ Len(pollfds_) \in Nat
    BY <1>1, PollTypes
  <1>3. index_[c] \in 0 .. Len(pollfds_) - 1 /\ PlaceOf(pollfds_[index_[c] + 1], c)
    BY DEF PollInv, PP!At
  <1>4. /\ 0 <= index_[c] /\ index_[c] < Len(pollfds_)
        /\ index_[c] + 1 \in 1 .. Len(pollfds_)
    BY <1>2, <1>3
  <1> QED
    BY <1>1, <1>2, <1>3, <1>4 DEF PlaceOf

(* PollInv, from what it says of the next state. *)
LEMMA PollInvNext ==
  ASSUME UNCHANGED usePoll, usePoll, Len(pollfds_') \in Nat, DOMAIN pollfds_' = 1 .. Len(pollfds_'),
         \A d \in Registered' :
           /\ index_'[d] \in Int /\ 0 <= index_'[d] /\ index_'[d] < Len(pollfds_')
           /\ pollfds_'[index_'[d] + 1].events = events_'[d]
           /\ \/ pollfds_'[index_'[d] + 1].fd = fd[d]
              \/ pollfds_'[index_'[d] + 1].fd = PP!ignored(fd[d]) /\ events_'[d] = kNoneEvent,
         \A i \in 1 .. Len(pollfds_') : \E d \in Registered' : index_'[d] + 1 = i
  PROVE  PollInv'
PROOF
  <1>1. ASSUME NEW d \in Registered'
        PROVE  index_'[d] \in 0 .. Len(pollfds_') - 1
    <2>1. /\ index_'[d] \in Int /\ 0 <= index_'[d] /\ index_'[d] < Len(pollfds_')
          /\ Len(pollfds_') \in Nat
      BY <1>1
    <2> QED
      BY <2>1
  <1>2. \A d \in Registered' : PlaceOf(pollfds_[PP!At(index_[d])], d)'
    BY DEF PlaceOf, PP!At, PP!ignored
  <1>3. \A i \in DOMAIN pollfds_' : \E d \in Registered' : (PP!At(index_[d]))' = i
    BY DEF PP!At
  <1> QED
    BY <1>1, <1>2, <1>3 DEF PollInv

(* PollInv holds on when the interest of a channel changes, *)
LEMMA PollUpdate ==
  ASSUME TypeOK, OwnerInv, EpollInv, PollInv, NEW c \in Channels, update(c)
  PROVE  PollInv'
PROOF
  <1>1. /\ life[c] = "open" /\ UNCHANGED usePoll
        /\ \E call \in Updates : /\ events_' = [events_ EXCEPT ![c] = Interest(call, events_[c])]
                                 /\ updateChannel(c, Interest(call, events_[c]))
    BY UpdateEffect, Zenon
  <1>2. CASE ~usePoll
    BY <1>1, <1>2, Zenon DEF PollInv
  <1>3. CASE usePoll
    <2>1. PICK call \in Updates : /\ events_' = [events_ EXCEPT ![c] = Interest(call, events_[c])]
                                  /\ updateChannel(c, Interest(call, events_[c]))
      BY <1>1, Zenon
    <2> DEFINE e == Interest(call, events_[c])
               n == Len(pollfds_)
    <2>2. e \in SUBSET Events
      BY InterestType DEF TypeOK
    <2>3. PP!updateChannel(c, e)
      BY <1>3, <2>1, Zenon DEF updateChannel
    <2>4. events_'[c] = e /\ \A d \in Channels : d # c => events_'[d] = events_[d]
      BY <2>1 DEF TypeOK
    <2> HIDE DEF e
    <2>5. Registered' = Registered \cup {c}
      BY UpdateRegisters
    <2>6. \A d \in Registered :
            /\ d \in Channels /\ index_[d] \in Int /\ 0 <= index_[d] /\ index_[d] < n
            /\ index_[d] + 1 \in 1 .. n
            /\ pollfds_[index_[d] + 1].events = events_[d]
            /\ \/ pollfds_[index_[d] + 1].fd = fd[d]
               \/ pollfds_[index_[d] + 1].fd = PP!ignored(fd[d]) /\ events_[d] = kNoneEvent
      BY <1>3, PlaceFacts
    <2>7. n \in Nat /\ index_ \in [Channels -> Int] /\ DOMAIN pollfds_ = 1 .. n
      BY <1>3, PollTypes
    <2>8. \A i \in 1 .. n : \E d \in Registered : index_[d] + 1 = i
      BY <1>3, <2>7 DEF PollInv, PP!At
    <2>9. CASE index_[c] = -1
      <3>1. /\ index_' = [index_ EXCEPT ![c] = n]
            /\ pollfds_' \in Seq(PP!Pollfd) /\ Len(pollfds_') = n + 1
            /\ \A i \in 1 .. n : pollfds_'[i] = pollfds_[i]
            /\ pollfds_'[n + 1].fd = fd[c] /\ pollfds_'[n + 1].events = e
        BY <1>3, <2>2, <2>3, <2>9, AppendEffect
      <3>2. c \notin Registered
        BY <1>1, <2>9, OpenOwner DEF Registered
      <3>3. Len(pollfds_') \in Nat /\ DOMAIN pollfds_' = 1 .. Len(pollfds_')
        BY <3>1, LenProperties
      <3> HIDE DEF n
      <3>4. /\ index_'[c] = n
            /\ \A d \in Registered : index_'[d] = index_[d] /\ events_'[d] = events_[d]
        BY <2>4, <2>6, <2>7, <3>1, <3>2
      <3>5. ASSUME NEW d \in Registered'
            PROVE  /\ index_'[d] \in Int /\ 0 <= index_'[d] /\ index_'[d] < Len(pollfds_')
                   /\ pollfds_'[index_'[d] + 1].events = events_'[d]
                   /\ \/ pollfds_'[index_'[d] + 1].fd = fd[d]
                      \/ pollfds_'[index_'[d] + 1].fd = PP!ignored(fd[d]) /\ events_'[d] = kNoneEvent
        <4>1. CASE d = c
          BY <2>4, <2>7, <3>1, <3>4, <4>1
        <4>2. CASE d # c
          <5>1. d \in Registered
            BY <2>5, <4>2
          <5>2. index_[d] \in Int /\ 0 <= index_[d] /\ index_[d] < n /\ index_[d] + 1 \in 1 .. n
            BY <2>6, <5>1
          <5>3. index_[d] < Len(pollfds_')
            BY <2>7, <3>1, <5>2
          <5>4. pollfds_'[index_[d] + 1] = pollfds_[index_[d] + 1]
            BY <3>1, <5>2
          <5> QED
            BY <2>6, <3>4, <5>1, <5>2, <5>3, <5>4
        <4> QED
          BY <4>1, <4>2
      <3>6. ASSUME NEW i \in 1 .. Len(pollfds_')
            PROVE  \E d \in Registered' : index_'[d] + 1 = i
        <4>1. CASE i = n + 1
          BY <2>5, <3>4, <4>1
        <4>2. CASE i # n + 1
          <5>1. i \in 1 .. n
            BY <2>7, <3>1, <4>2
          <5> QED
            BY <2>5, <2>8, <3>4, <5>1
        <4> QED
          BY <4>1, <4>2
      <3> QED
        BY <1>1, <1>3, <3>3, <3>5, <3>6, PollInvNext
    <2>10. CASE index_[c] # -1
      <3>1. c \in Registered
        BY <1>1, <2>10, OpenOwner DEF Registered
      <3>2. index_[c] \in 0 .. Len(pollfds_) - 1
        BY <1>3, <3>1, Zenon DEF PollInv
      <3>3. /\ UNCHANGED index_
            /\ pollfds_' \in Seq(PP!Pollfd) /\ Len(pollfds_') = n
            /\ \A i \in 1 .. n : i # index_[c] + 1 => pollfds_'[i] = pollfds_[i]
            /\ pollfds_'[index_[c] + 1].events = e
            /\ pollfds_'[index_[c] + 1].fd = IF e = kNoneEvent THEN PP!ignored(fd[c]) ELSE fd[c]
        BY <1>3, <2>2, <2>3, <3>2, InPlaceEffect
      <3>4. Len(pollfds_') \in Nat /\ DOMAIN pollfds_' = 1 .. Len(pollfds_')
        BY <3>3, LenProperties
      <3>5. Registered' = Registered
        BY <2>5, <3>1
      <3> HIDE DEF n
      <3>6. ASSUME NEW d \in Registered'
            PROVE  /\ index_'[d] \in Int /\ 0 <= index_'[d] /\ index_'[d] < Len(pollfds_')
                   /\ pollfds_'[index_'[d] + 1].events = events_'[d]
                   /\ \/ pollfds_'[index_'[d] + 1].fd = fd[d]
                      \/ pollfds_'[index_'[d] + 1].fd = PP!ignored(fd[d]) /\ events_'[d] = kNoneEvent
        <4>0. d \in Registered
          BY <3>5
        <4>1. CASE d = c
          BY <2>4, <2>6, <3>3, <4>0, <4>1
        <4>2. CASE d # c
          <5>1. index_[d] # index_[c]
            BY <1>3, <3>1, <4>0, <4>2, OwnPlace
          <5>2. index_[d] \in Int /\ index_[c] \in Int /\ index_[d] + 1 \in 1 .. n
            BY <2>6, <3>1, <4>0
          <5>3. index_[d] + 1 # index_[c] + 1
            BY <5>1, <5>2
          <5>4. pollfds_'[index_[d] + 1] = pollfds_[index_[d] + 1]
            BY <3>3, <5>2, <5>3
          <5> QED
            BY <2>4, <2>6, <3>3, <4>0, <4>2, <5>4
        <4> QED
          BY <4>1, <4>2
      <3>7. \A i \in 1 .. Len(pollfds_') : \E d \in Registered' : index_'[d] + 1 = i
        BY <2>8, <3>3, <3>5
      <3> QED
        BY <1>1, <1>3, <3>4, <3>6, <3>7, PollInvNext
    <2> QED
      BY <2>9, <2>10
  <1> QED
    BY <1>2, <1>3

(* ... and when a channel is removed. *)
LEMMA PollRemove ==
  ASSUME TypeOK, OwnerInv, EpollInv, PollInv, NEW c \in Channels, remove(c)
  PROVE  PollInv'
PROOF
  <1>1. life[c] = "open" /\ channels_[fd[c]] = c /\ UNCHANGED <<usePoll, events_>>
    BY RemoveEffect, Zenon
  <1>2. CASE UNCHANGED <<pollerVars, life>>
    <2>1. UNCHANGED <<usePoll, events_, index_, channels_, pollfds_>>
      BY <1>1, <1>2 DEF pollerVars
    <2> QED
      BY <2>1 DEF PollInv, PlaceOf, Registered, PP!At, PP!ignored
  <1>3. CASE ~UNCHANGED <<pollerVars, life>>
    <2>1. channels_' = [channels_ EXCEPT ![fd[c]] = "NULL"] /\ removeChannel(c)
      BY <1>3, RemoveEffect, Zenon
    <2>2. CASE ~usePoll
      BY <1>1, <2>2, Zenon DEF PollInv
    <2>3. CASE usePoll
      <3> DEFINE n == Len(pollfds_)
      <3>0. c \in Registered
        BY <1>1 DEF Registered
      <3>1. PP!removeChannel(c)
        BY <2>1, <2>3, Zenon DEF removeChannel
      <3>2. PICK m \in Registered :
              /\ index_[m] = n - 1
              /\ index_' = [index_ EXCEPT ![m] = index_[c]]
              /\ pollfds_' \in Seq(PP!Pollfd) /\ Len(pollfds_') = n - 1
              /\ \A i \in 1 .. n - 1 : pollfds_'[i] = pollfds_[IF i = index_[c] + 1 THEN n ELSE i]
        BY <2>3, <3>0, <3>1, FillGap
      <3>3. Registered' = Registered \ {c}
        BY <1>1, <2>1, RemoveUnregisters
      <3>4. \A d \in Registered :
              /\ d \in Channels /\ index_[d] \in Int /\ 0 <= index_[d] /\ index_[d] < n
              /\ index_[d] + 1 \in 1 .. n
              /\ pollfds_[index_[d] + 1].events = events_[d]
              /\ \/ pollfds_[index_[d] + 1].fd = fd[d]
                 \/ pollfds_[index_[d] + 1].fd = PP!ignored(fd[d]) /\ events_[d] = kNoneEvent
        BY <2>3, PlaceFacts
      <3>5. n \in Nat /\ index_ \in [Channels -> Int] /\ DOMAIN pollfds_ = 1 .. n
        BY <2>3, PollTypes
      <3>6. \A i \in 1 .. n : \E d \in Registered : index_[d] + 1 = i
        BY <2>3, <3>5 DEF PollInv, PP!At
      <3>7. Len(pollfds_') \in Nat /\ DOMAIN pollfds_' = 1 .. Len(pollfds_')
        BY <3>2, LenProperties
      <3> HIDE DEF n
      <3>8. /\ m \in Channels /\ index_'[m] = index_[c]
            /\ \A d \in Channels : d # m => index_'[d] = index_[d]
        BY <3>2, <3>4, <3>5
      <3>9. ASSUME NEW d \in Registered'
            PROVE  /\ index_'[d] \in Int /\ 0 <= index_'[d] /\ index_'[d] < Len(pollfds_')
                   /\ pollfds_'[index_'[d] + 1].events = events_'[d]
                   /\ \/ pollfds_'[index_'[d] + 1].fd = fd[d]
                      \/ pollfds_'[index_'[d] + 1].fd = PP!ignored(fd[d]) /\ events_'[d] = kNoneEvent
        <4>0. d \in Registered /\ d # c
          BY <3>3
        <4>1. index_[d] # index_[c]
          BY <2>3, <3>0, <4>0, OwnPlace
        <4>2. /\ index_[d] \in Int /\ 0 <= index_[d] /\ index_[d] < n
              /\ index_[c] \in Int /\ 0 <= index_[c] /\ index_[c] < n
          BY <3>0, <3>4, <4>0
        <4>3. CASE d = m
          <5>1. index_[c] < n - 1 /\ index_[c] + 1 \in 1 .. n - 1
            BY <3>2, <3>5, <4>1, <4>2, <4>3
          <5>2. pollfds_'[index_[c] + 1] = pollfds_[n] /\ index_[d] + 1 = n
            BY <3>2, <3>5, <4>3, <5>1
          <5>3. index_'[d] = index_[c]
            BY <3>8, <4>3
          <5>4. /\ pollfds_[n].events = events_[d]
                /\ \/ pollfds_[n].fd = fd[d]
                   \/ pollfds_[n].fd = PP!ignored(fd[d]) /\ events_[d] = kNoneEvent
            BY <3>4, <4>0, <5>2
          <5> QED
            BY <1>1, <3>2, <4>2, <5>1, <5>2, <5>3, <5>4
        <4>4. CASE d # m
          <5>1. index_[d] # n - 1
            BY <2>3, <3>2, <4>0, <4>4, OwnPlace
          <5>2. index_[d] < n - 1 /\ index_[d] + 1 \in 1 .. n - 1 /\ index_[d] + 1 # index_[c] + 1
            BY <3>5, <4>1, <4>2, <5>1
          <5>3. pollfds_'[index_[d] + 1] = pollfds_[index_[d] + 1]
            BY <3>2, <5>2
          <5>4. index_'[d] = index_[d]
            BY <3>4, <3>8, <4>0, <4>4
          <5>5. /\ pollfds_[index_[d] + 1].events = events_[d]
                /\ \/ pollfds_[index_[d] + 1].fd = fd[d]
                   \/ pollfds_[index_[d] + 1].fd = PP!ignored(fd[d]) /\ events_[d] = kNoneEvent
            BY <3>4, <4>0
          <5> QED
            BY <1>1, <3>2, <4>2, <5>2, <5>3, <5>4, <5>5
        <4> QED
          BY <4>3, <4>4
      <3>10. ASSUME NEW i \in 1 .. Len(pollfds_')
             PROVE  \E d \in Registered' : index_'[d] + 1 = i
        <4>0. i \in 1 .. n /\ i # n /\ i \in Int
          BY <3>2, <3>5
        <4>1. index_[c] \in Int
          BY <3>0, <3>4
        <4>2. CASE i = index_[c] + 1
          <5>1. m # c
            BY <3>2, <3>5, <4>0, <4>1, <4>2
          <5> QED
            BY <3>3, <3>8, <4>2, <5>1
        <4>3. CASE i # index_[c] + 1
          <5>1. PICK d \in Registered : index_[d] + 1 = i
            BY <3>6, <4>0
          <5>2. d # c
            BY <4>3, <5>1
          <5>3. d # m
            <6>1. index_[m] + 1 = n
              BY <3>2, <3>5
            <6> QED
              BY <4>0, <5>1, <6>1
          <5>4. d \in Channels /\ index_'[d] = index_[d]
            BY <3>4, <3>8, <5>3
          <5> QED
            BY <3>3, <5>1, <5>2, <5>4
        <4> QED
          BY <4>2, <4>3
      <3> QED
        BY <1>1, <2>3, <3>7, <3>9, <3>10, PollInvNext
    <2> QED
      BY <2>2, <2>3
  <1> QED
    BY <1>2, <1>3

--------------------------------------------------------------------------------
(* What a poll reports. *)

(* A function on an interval is a sequence. *)
LEMMA FunctionIsSeq ==
  ASSUME NEW n \in Nat, NEW S, NEW g \in [1 .. n -> S]
  PROVE  g \in Seq(S) /\ Len(g) = n /\ DOMAIN g = 1 .. n
PROOF
  <1>1. g \in Seq(S)
    BY SeqDef
  <1>2. Len(g) \in Nat /\ DOMAIN g = 1 .. Len(g)
    BY <1>1, LenProperties
  <1>3. 1 .. Len(g) = 1 .. n
    BY <1>2
  <1>4. Len(g) = n
    BY <1>2, <1>3
  <1> QED
    BY <1>1, <1>2, <1>4

(* ::epoll_wait(): as many of the ready descriptors, each once, as there is  *)
(* room for.                                                                 *)
LEMMA WaitResults ==
  ASSUME NEW ready, IsFiniteSet(ready), NEW hits \in EP!waitResults(ready), eventListSize \in Nat
  PROVE  /\ hits \in Seq(ready) /\ Len(hits) \in Nat /\ DOMAIN hits = 1 .. Len(hits)
         /\ Len(hits) <= Cardinality(ready)
         /\ \A i, j \in DOMAIN hits : hits[i] = hits[j] => i = j
PROOF
  <1>1. PICK t \in SUBSET ready : hits \in EP!SetToSeqs(t)
    BY DEF EP!waitResults
  <1>2. IsFiniteSet(t) /\ Cardinality(t) \in Nat /\ Cardinality(t) <= Cardinality(ready)
    BY FS_Subset, FS_CardinalityType
  <1>3. /\ hits \in [1 .. Cardinality(t) -> t]
        /\ \A i, j \in 1 .. Cardinality(t) : i # j => hits[i] # hits[j]
    BY <1>1, SameCardinality DEF EP!SetToSeqs
  <1>4. hits \in [1 .. Cardinality(t) -> ready]
    BY <1>3
  <1>5. hits \in Seq(ready) /\ Len(hits) = Cardinality(t) /\ DOMAIN hits = 1 .. Cardinality(t)
    BY <1>2, <1>4, FunctionIsSeq
  <1> QED
    BY <1>2, <1>3, <1>5

(* EPollPoller::fillActiveChannels: the pointers are registered channels,    *)
(* and each is there once.                                                   *)
LEMMA EpollReports ==
  ASSUME TypeOK, OwnerInv, EpollInv, ~usePoll, poll
  PROVE  /\ activeChannels_' \in Seq(Registered)
         /\ \A i, j \in DOMAIN activeChannels_' : activeChannels_'[i] = activeChannels_'[j] => i = j
         /\ missed' \in SUBSET Channels
         /\ UNCHANGED <<events_, index_, channels_, epoll, pollfds_>>
         /\ eventListSize' \in Nat /\ eventListSize' >= kInitEventListSize
         /\ eventListSize' = kInitEventListSize \/ eventListSize' <= 2 * Cardinality(Channels)
PROOF
  <1>1. EP!poll(activeChannels_', missed') /\ UNCHANGED pollfds_
    BY Zenon DEF poll
  <1> DEFINE present == {f \in EP!Fds : epoll[f] # EP!Absent}
  <1>2. PICK ready \in SUBSET present : \E hits \in EP!waitResults(ready) :
          /\ activeChannels_' = EP!fillActiveChannels(hits)
          /\ missed' = {epoll[f].ptr : f \in ready} \ EP!ToSet(EP!fillActiveChannels(hits))
          /\ eventListSize' = EP!resized(Len(hits))
          /\ UNCHANGED <<events_, index_, channels_, epoll>>
    BY <1>1, Zenon DEF EP!poll
  <1>3. PICK hits \in EP!waitResults(ready) :
          /\ activeChannels_' = EP!fillActiveChannels(hits)
          /\ missed' = {epoll[f].ptr : f \in ready} \ EP!ToSet(EP!fillActiveChannels(hits))
          /\ eventListSize' = EP!resized(Len(hits))
          /\ UNCHANGED <<events_, index_, channels_, epoll>>
    BY <1>2, Zenon
  <1>4. \A f \in ready : f \in Fds /\ epoll[f] # EP!Absent
    BY <1>2, FdFacts
  <1>5. \A f \in ready : /\ epoll[f].ptr \in Channels /\ channels_[f] = epoll[f].ptr
                         /\ fd[epoll[f].ptr] = f /\ epoll[f].ptr \in Registered
    <2> SUFFICES ASSUME NEW f \in ready
                 PROVE  /\ epoll[f].ptr \in Channels /\ channels_[f] = epoll[f].ptr
                        /\ fd[epoll[f].ptr] = f /\ epoll[f].ptr \in Registered
      OBVIOUS
    <2>1. f \in Fds /\ epoll[f].ptr \in Channels /\ channels_[f] = epoll[f].ptr
      BY <1>4 DEF EpollInv
    <2>2. fd[epoll[f].ptr] = f
      BY <2>1, channelsAssumption DEF OwnerInv
    <2> QED
      BY <2>1, <2>2 DEF Registered
  <1>6. /\ eventListSize \in Nat /\ eventListSize >= kInitEventListSize
        /\ eventListSize = kInitEventListSize \/ eventListSize <= 2 * Cardinality(Channels)
    <2>1. EP!TypeOK
      BY Zenon DEF TypeOK
    <2> QED
      BY <2>1, SameCardinality DEF EP!TypeOK
  <1>7. IsFiniteSet(ready) /\ Cardinality(ready) \in Nat /\ Cardinality(ready) <= Cardinality(Channels)
    <2>1. ready \in SUBSET Fds
      BY <1>4
    <2>2. IsFiniteSet(Fds) /\ Cardinality(Fds) \in Nat /\ Cardinality(Channels) \in Nat
          /\ Cardinality(Fds) <= Cardinality(Channels)
      BY FdFacts
    <2>3. IsFiniteSet(ready) /\ Cardinality(ready) <= Cardinality(Fds)
      BY <2>1, <2>2, FS_Subset
    <2>4. Cardinality(ready) \in Nat
      BY <2>3, FS_CardinalityType
    <2> QED
      BY <2>2, <2>3, <2>4
  <1>8. /\ hits \in Seq(ready) /\ Len(hits) \in Nat /\ DOMAIN hits = 1 .. Len(hits)
        /\ Len(hits) <= Cardinality(ready)
        /\ \A i, j \in DOMAIN hits : hits[i] = hits[j] => i = j
    BY <1>3, <1>6, <1>7, WaitResults
  <1>9. \A i \in DOMAIN hits : hits[i] \in ready
    BY <1>8, ElementOfSeq
  <1>10. activeChannels_' = [i \in 1 .. Len(hits) |-> epoll[hits[i]].ptr]
    BY <1>3, <1>8 DEF EP!fillActiveChannels
  <1>11. activeChannels_' \in [1 .. Len(hits) -> Registered]
    BY <1>5, <1>8, <1>9, <1>10
  <1>12. activeChannels_' \in Seq(Registered) /\ DOMAIN activeChannels_' = 1 .. Len(hits)
    BY <1>8, <1>11, FunctionIsSeq
  <1>13. \A i, j \in DOMAIN activeChannels_' : activeChannels_'[i] = activeChannels_'[j] => i = j
    <2> SUFFICES ASSUME NEW i \in 1 .. Len(hits), NEW j \in 1 .. Len(hits),
                        epoll[hits[i]].ptr = epoll[hits[j]].ptr
                 PROVE  i = j
      BY <1>10, <1>12
    <2>1. hits[i] \in ready /\ hits[j] \in ready
      BY <1>8, <1>9
    <2>2. hits[i] = hits[j]
      BY <1>5, <2>1
    <2> QED
      BY <1>8, <2>2
  <1>14. missed' \in SUBSET Channels
    BY <1>3, <1>5
  <1>15. /\ eventListSize' \in Nat /\ eventListSize' >= kInitEventListSize
         /\ eventListSize' = kInitEventListSize \/ eventListSize' <= 2 * Cardinality(Channels)
    <2>1. kInitEventListSize \in Nat /\ Cardinality(Channels) \in Nat
      BY sizeAssumption, FdFacts
    <2>2. CASE Len(hits) = eventListSize
      <3>1. eventListSize' = 2 * eventListSize
        BY <1>3, <2>2 DEF EP!resized
      <3>2. eventListSize <= Cardinality(Channels)
        BY <1>6, <1>7, <1>8, <2>1, <2>2
      <3> QED
        BY <1>6, <2>1, <3>1, <3>2
    <2>3. CASE Len(hits) # eventListSize
      <3>1. eventListSize' = eventListSize
        BY <1>3, <2>3 DEF EP!resized
      <3> QED
        BY <1>6, <3>1
    <2> QED
      BY <2>2, <2>3
  <1>16. UNCHANGED <<events_, index_, channels_, epoll, pollfds_>>
    BY <1>1, <1>3
  <1> QED
    BY <1>12, <1>13, <1>14, <1>15, <1>16

(* PollPoller::fillActiveChannels: find() finds the registered channel of    *)
(* each place with revents, and each channel once.                           *)
LEMMA PollReports ==
  ASSUME TypeOK, PollInv, usePoll, poll
  PROVE  /\ activeChannels_' \in Seq(Registered)
         /\ \A i, j \in DOMAIN activeChannels_' : activeChannels_'[i] = activeChannels_'[j] => i = j
         /\ missed' = {}
         /\ UNCHANGED <<events_, index_, channels_, epoll, pollfds_, eventListSize>>
PROOF
  <1>1. PP!poll(activeChannels_') /\ missed' = {} /\ UNCHANGED <<epoll, eventListSize>>
    BY Zenon DEF poll
  <1>2. UNCHANGED <<events_, index_, channels_, pollfds_>>
    BY <1>1 DEF PP!poll
  <1> DEFINE heard == {i \in DOMAIN pollfds_ : pollfds_[i].fd >= 0}
  <1>3. PICK places \in SUBSET heard : \E hits \in PP!inOrder(places) :
          activeChannels_' = PP!fillActiveChannels(hits)
    BY <1>1, Zenon DEF PP!poll
  <1>4. PICK hits \in PP!inOrder(places) : activeChannels_' = PP!fillActiveChannels(hits)
    BY <1>3, Zenon
  <1>5. Len(pollfds_) \in Nat /\ DOMAIN pollfds_ = 1 .. Len(pollfds_)
    BY PollTypes
  <1>6. ASSUME NEW i \in places
        PROVE  /\ channels_[pollfds_[i].fd] \in Registered
               /\ index_[channels_[pollfds_[i].fd]] + 1 = i
    <2>1. i \in DOMAIN pollfds_ /\ pollfds_[i].fd >= 0
      BY <1>3, <1>6
    <2>2. PICK d \in Registered : index_[d] + 1 = i
      BY <2>1 DEF PollInv, PP!At
    <2>3. d \in Channels /\ channels_[fd[d]] = d
      BY DEF Registered
    <2>4. pollfds_[i].fd = fd[d] \/ pollfds_[i].fd = PP!ignored(fd[d])
      BY <2>2, PlaceFacts
    <2>5. ~(PP!ignored(fd[d]) >= 0)
      <3>1. fd[d] \in Nat
        BY <2>3, FdFacts
      <3> QED
        BY <3>1 DEF PP!ignored
    <2>6. pollfds_[i].fd = fd[d]
      BY <2>1, <2>4, <2>5
    <2> QED
      BY <2>2, <2>3, <2>6
  <1>7. IsFiniteSet(places) /\ Cardinality(places) \in Nat
    <2>1. places \in SUBSET (1 .. Len(pollfds_))
      BY <1>3, <1>5
    <2>2. IsFiniteSet(1 .. Len(pollfds_))
      BY <1>5, FS_Interval
    <2> QED
      BY <2>1, <2>2, FS_Subset, FS_CardinalityType
  <1>8. places \in SUBSET Int
    BY <1>3, <1>5
  <1>9. /\ hits \in [1 .. Cardinality(places) -> places]
        /\ \A i, j \in 1 .. Cardinality(places) : i < j => hits[i] < hits[j]
    BY <1>4, SameCardinality DEF PP!inOrder
  <1> DEFINE n == Cardinality(places)
  <1>10. n \in Nat
    BY <1>7
  <1> HIDE DEF n
  <1>11. hits \in [1 .. n -> places] /\ \A i, j \in 1 .. n : i < j => hits[i] < hits[j]
    BY <1>9 DEF n
  <1>12. \A i, j \in 1 .. n : hits[i] = hits[j] => i = j
    <2> SUFFICES ASSUME NEW i \in 1 .. n, NEW j \in 1 .. n, hits[i] = hits[j], i # j
                 PROVE  FALSE
      OBVIOUS
    <2>1. i < j \/ j < i
      BY <1>10
    <2>2. hits[i] \in Int /\ hits[j] \in Int
      BY <1>8, <1>11
    <2>3. hits[i] < hits[j] \/ hits[j] < hits[i]
      BY <1>11, <2>1
    <2> QED
      BY <2>2, <2>3
  <1>13. activeChannels_' = [i \in 1 .. n |-> channels_[pollfds_[hits[i]].fd]]
    BY <1>4, <1>11 DEF PP!fillActiveChannels
  <1>14. activeChannels_' \in [1 .. n -> Registered]
    BY <1>6, <1>11, <1>13
  <1>15. activeChannels_' \in Seq(Registered) /\ DOMAIN activeChannels_' = 1 .. n
    BY <1>10, <1>14, FunctionIsSeq
  <1>16. \A i, j \in DOMAIN activeChannels_' : activeChannels_'[i] = activeChannels_'[j] => i = j
    <2> SUFFICES ASSUME NEW i \in 1 .. n, NEW j \in 1 .. n,
                        channels_[pollfds_[hits[i]].fd] = channels_[pollfds_[hits[j]].fd]
                 PROVE  i = j
      BY <1>13, <1>15
    <2>1. hits[i] \in places /\ hits[j] \in places
      BY <1>11
    <2>2. hits[i] = hits[j]
      BY <1>6, <2>1
    <2> QED
      BY <1>12, <2>2
  <1> QED
    BY <1>1, <1>2, <1>15, <1>16

--------------------------------------------------------------------------------
(* Types. *)

(* The places of an array are as many as its length. *)
LEMMA CountedPlaces ==
  ASSUME NEW n \in Nat
  PROVE  IsFiniteSet(1 .. n) /\ Cardinality(1 .. n) = n
PROOF
  <1>1. IsFiniteSet(1 .. n) /\ Cardinality(1 .. n) = IF 1 > n THEN 0 ELSE n - 1 + 1
    BY FS_Interval
  <1>2. (IF 1 > n THEN 0 ELSE n - 1 + 1) = n
    OBVIOUS
  <1> QED
    BY <1>1, <1>2

(* Each place has its channel. *)
LEMMA PlaceOwners ==
  ASSUME TypeOK, PollInv, usePoll
  PROVE  \E h \in [1 .. Len(pollfds_) -> Registered] :
           \A i \in 1 .. Len(pollfds_) : index_[h[i]] + 1 = i
PROOF
  <1>1. \A i \in 1 .. Len(pollfds_) : \E d \in Registered : index_[d] + 1 = i
    BY PollTypes DEF PollInv, PP!At
  <1> DEFINE h == [i \in 1 .. Len(pollfds_) |-> CHOOSE d \in Registered : index_[d] + 1 = i]
  <1>2. \A i \in 1 .. Len(pollfds_) : h[i] \in Registered /\ index_[h[i]] + 1 = i
    BY <1>1
  <1>3. h \in [1 .. Len(pollfds_) -> Registered]
    BY <1>2
  <1> HIDE DEF h
  <1> QED
    BY <1>2, <1>3

(* PollPoller::updateChannel: there are no more places than descriptors, and *)
(* the descriptor of a new channel has none yet.                             *)
LEMMA NewPlaceFits ==
  ASSUME TypeOK, OwnerInv, PollInv, usePoll,
         NEW c \in Channels, life[c] = "open", index_[c] = -1
  PROVE  Len(pollfds_) < Cardinality(Fds)
PROOF
  <1> DEFINE n == Len(pollfds_)
             others == Fds \ {fd[c]}
  <1>1. n \in Nat
    BY PollTypes
  <1>2. PICK h \in [1 .. n -> Registered] : \A i \in 1 .. n : index_[h[i]] + 1 = i
    BY PlaceOwners
  <1> DEFINE g == [i \in 1 .. n |-> fd[h[i]]]
  <1>3. channels_[fd[c]] = "NULL" /\ fd[c] \in Fds
    BY OpenOwner, FdFacts
  <1>4. \A d \in Registered : d \in Channels /\ channels_[fd[d]] = d /\ fd[d] \in others
    BY <1>3, channelsAssumption, FdFacts DEF Registered
  <1>5. g \in [1 .. n -> others]
    BY <1>2, <1>4
  <1>6. \A i, j \in 1 .. n : g[i] = g[j] => i = j
    <2> SUFFICES ASSUME NEW i \in 1 .. n, NEW j \in 1 .. n, fd[h[i]] = fd[h[j]]
                 PROVE  i = j
      OBVIOUS
    <2>1. h[i] = h[j]
      BY <1>2, <1>4
    <2> QED
      BY <1>2, <2>1
  <1>7. g \in Injection(1 .. n, others)
    BY <1>5, <1>6 DEF Injection, IsInjective
  <1> HIDE DEF g
  <1>8. IsFiniteSet(others) /\ Cardinality(others) = Cardinality(Fds) - 1
    BY <1>3, FdFacts, FS_RemoveElement
  <1>9. Cardinality(1 .. n) <= Cardinality(others)
    BY <1>7, <1>8, FS_Injection
  <1>10. Cardinality(1 .. n) = n
    BY <1>1, CountedPlaces
  <1>11. Cardinality(Fds) \in Nat
    BY FdFacts
  <1>12. n <= Cardinality(Fds) - 1
    BY <1>8, <1>9, <1>10
  <1> HIDE DEF n
  <1>13. n < Cardinality(Fds)
    BY <1>1, <1>11, <1>12
  <1> QED
    BY <1>13 DEF n

(* The conjuncts of the pollers' types, in a step that keeps the poller. *)
LEMMA PollTypeNext ==
  ASSUME UNCHANGED usePoll, usePoll, pollfds_' \in Seq(PP!Pollfd),
         index_' \in [Channels -> -1 .. Cardinality(Fds) - 1]
  PROVE  (IF usePoll THEN PP!TypeOK ELSE EP!TypeOK)'
PROOF
  <1>1. Cardinality(PP!Fds) = Cardinality(Fds)
    BY FdFacts
  <1>2. PP!TypeOK'
    BY <1>1, SameCardinality
    DEF PP!TypeOK, PP!Pollfd, PP!Fds, PP!Events, PP!kReadEvent, PP!kWriteEvent
  <1> QED
    BY <1>2, Zenon

(* ... and the same of EPollPoller's. *)
LEMMA EpollTypeNext ==
  ASSUME UNCHANGED usePoll, ~usePoll, epoll' \in [Fds -> EP!Entry \cup {EP!Absent}],
         index_' \in [Channels -> {EP!kNew, EP!kAdded, EP!kDeleted}],
         eventListSize' \in Nat, eventListSize' >= kInitEventListSize,
         eventListSize' = kInitEventListSize \/ eventListSize' <= 2 * Cardinality(Channels)
  PROVE  (IF usePoll THEN PP!TypeOK ELSE EP!TypeOK)'
PROOF
  <1>1. EP!TypeOK'
    BY FdFacts, SameCardinality
    DEF EP!TypeOK, EP!Entry, EP!Absent, EP!Fds, EP!Events, EP!kReadEvent, EP!kWriteEvent, EP!kNew,
        EP!kAdded, EP!kDeleted
  <1> QED
    BY <1>1, Zenon

(* Either poller keeps its types when the interest of a channel changes, *)
LEMMA PollerTypeUpdate ==
  ASSUME TypeOK, OwnerInv, EpollInv, PollInv, NEW c \in Channels, update(c)
  PROVE  (IF usePoll THEN PP!TypeOK ELSE EP!TypeOK)' /\ events_' \in [Channels -> SUBSET Events]
PROOF
  <1>1. PICK call \in Updates :
          /\ events_' = [events_ EXCEPT ![c] = Interest(call, events_[c])]
          /\ updateChannel(c, Interest(call, events_[c]))
    BY UpdateEffect, Zenon
  <1> DEFINE e == Interest(call, events_[c])
  <1>2. e \in SUBSET Events
    BY InterestType DEF TypeOK
  <1>3. updateChannel(c, e) /\ events_' = [events_ EXCEPT ![c] = e]
    BY <1>1
  <1> HIDE DEF e
  <1>4. events_' \in [Channels -> SUBSET Events] /\ events_'[c] = e
    BY <1>2, <1>3 DEF TypeOK
  <1>5. life[c] = "open" /\ UNCHANGED usePoll
    BY UpdateEffect, Zenon
  <1>6. CASE usePoll
    <2>0. PP!updateChannel(c, e)
      BY <1>3, <1>6, Zenon DEF updateChannel
    <2>1. /\ index_ \in [Channels -> Int] /\ Len(pollfds_) \in Nat
          /\ \A d \in Channels : index_[d] \in -1 .. Cardinality(Fds) - 1
      BY <1>6, PollTypes
    <2>2. CASE index_[c] = -1
      <3>1. index_' = [index_ EXCEPT ![c] = Len(pollfds_)] /\ pollfds_' \in Seq(PP!Pollfd)
        BY <1>2, <1>6, <2>0, <2>2, AppendEffect
      <3>2. Len(pollfds_) < Cardinality(Fds) /\ Cardinality(Fds) \in Nat
        BY <1>5, <1>6, <2>2, NewPlaceFits, FdFacts
      <3>3. Len(pollfds_) \in -1 .. Cardinality(Fds) - 1
        BY <2>1, <3>2
      <3>4. index_' \in [Channels -> -1 .. Cardinality(Fds) - 1]
        BY <2>1, <3>1, <3>3
      <3> QED
        BY <1>4, <1>5, <1>6, <3>1, <3>4, PollTypeNext
    <2>3. CASE index_[c] # -1
      <3>1. c \in Registered
        BY <1>5, <2>3, OpenOwner DEF Registered
      <3>2. index_[c] \in 0 .. Len(pollfds_) - 1
        BY <1>6, <3>1, Zenon DEF PollInv
      <3>3. UNCHANGED index_ /\ pollfds_' \in Seq(PP!Pollfd)
        BY <1>2, <1>6, <2>0, <3>2, InPlaceEffect
      <3>4. index_' \in [Channels -> -1 .. Cardinality(Fds) - 1]
        BY <2>1, <3>3
      <3> QED
        BY <1>4, <1>5, <1>6, <3>3, <3>4, PollTypeNext
    <2> QED
      BY <2>2, <2>3
  <1>7. CASE ~usePoll
    <2>1. /\ index_ \in [Channels -> {EP!kNew, EP!kAdded, EP!kDeleted}]
          /\ epoll \in [Fds -> EP!Entry \cup {EP!Absent}]
      BY <1>7, EpollTypes
    <2>2. [events |-> events_'[c], ptr |-> c] \in EP!Entry
      <3>1. events_'[c] \in SUBSET EP!Events
        BY <1>2, <1>4 DEF Events, EP!Events, kReadEvent, kWriteEvent, EP!kReadEvent, EP!kWriteEvent
      <3> QED
        BY <3>1 DEF EP!Entry
    <2>3. index_' \in [Channels -> {EP!kNew, EP!kAdded, EP!kDeleted}]
      BY <1>7, <2>1, UpdateEpoll
    <2>4. epoll' \in [Fds -> EP!Entry \cup {EP!Absent}]
      BY <1>7, <2>1, <2>2, UpdateEpoll
    <2>5. EP!TypeOK /\ UNCHANGED eventListSize
      BY <1>3, <1>7, Zenon DEF TypeOK, updateChannel, EP!updateChannel
    <2>6. /\ eventListSize' \in Nat /\ eventListSize' >= kInitEventListSize
          /\ eventListSize' = kInitEventListSize \/ eventListSize' <= 2 * Cardinality(Channels)
      BY <2>5, SameCardinality DEF EP!TypeOK
    <2> QED
      BY <1>4, <1>5, <1>7, <2>3, <2>4, <2>6, EpollTypeNext
  <1> QED
    BY <1>6, <1>7

(* ... and when one is removed. *)
LEMMA PollerTypeRemove ==
  ASSUME TypeOK, OwnerInv, EpollInv, PollInv, UNCHANGED usePoll,
         NEW c \in Registered, life[c] = "open", removeChannel(c)
  PROVE  (IF usePoll THEN PP!TypeOK ELSE EP!TypeOK)'
PROOF
  <1>0. c \in Channels
    BY DEF Registered
  <1>1. CASE usePoll
    <2>1. PP!removeChannel(c)
      BY <1>1, Zenon DEF removeChannel
    <2>2. PICK m \in Registered :
            index_' = [index_ EXCEPT ![m] = index_[c]] /\ pollfds_' \in Seq(PP!Pollfd)
      BY <1>1, <2>1, FillGap
    <2>3. /\ index_ \in [Channels -> Int]
          /\ \A d \in Channels : index_[d] \in -1 .. Cardinality(Fds) - 1
      BY <1>1, PollTypes
    <2>4. index_' \in [Channels -> -1 .. Cardinality(Fds) - 1]
      BY <1>0, <2>2, <2>3
    <2> QED
      BY <1>1, <2>2, <2>4, PollTypeNext
  <1>2. CASE ~usePoll
    <2>1. /\ index_ \in [Channels -> {EP!kNew, EP!kAdded, EP!kDeleted}]
          /\ epoll \in [Fds -> EP!Entry \cup {EP!Absent}]
      BY <1>2, EpollTypes
    <2>2. /\ epoll' = [epoll EXCEPT ![fd[c]] = EP!Absent]
          /\ index_' = [index_ EXCEPT ![c] = EP!kNew]
      BY <1>0, <1>2, RemoveEpoll
    <2>3. index_' \in [Channels -> {EP!kNew, EP!kAdded, EP!kDeleted}]
      BY <2>1, <2>2
    <2>4. epoll' \in [Fds -> EP!Entry \cup {EP!Absent}]
      BY <2>1, <2>2
    <2>5. EP!TypeOK /\ UNCHANGED eventListSize
      BY <1>2, Zenon DEF TypeOK, removeChannel, EP!removeChannel
    <2>6. /\ eventListSize' \in Nat /\ eventListSize' >= kInitEventListSize
          /\ eventListSize' = kInitEventListSize \/ eventListSize' <= 2 * Cardinality(Channels)
      BY <2>5, SameCardinality DEF EP!TypeOK
    <2> QED
      BY <1>2, <2>3, <2>4, <2>6, EpollTypeNext
  <1> QED
    BY <1>1, <1>2

(* ... and when nothing of it changes. *)
LEMMA PollerTypeSame ==
  ASSUME TypeOK, UNCHANGED <<usePoll, index_, epoll, eventListSize, pollfds_>>
  PROVE  (IF usePoll THEN PP!TypeOK ELSE EP!TypeOK)'
PROOF
  <1>1. CASE usePoll
    <2>1. PP!TypeOK
      BY <1>1, Zenon DEF TypeOK
    <2>2. PP!TypeOK'
      BY <2>1 DEF PP!TypeOK, PP!Pollfd, PP!Fds, PP!Events, PP!kReadEvent, PP!kWriteEvent
    <2> QED
      BY <1>1, <2>2, Zenon
  <1>2. CASE ~usePoll
    <2>1. EP!TypeOK
      BY <1>2, Zenon DEF TypeOK
    <2>2. EP!TypeOK'
      BY <2>1
      DEF EP!TypeOK, EP!Entry, EP!Absent, EP!Fds, EP!Events, EP!kReadEvent, EP!kWriteEvent,
          EP!kNew, EP!kAdded, EP!kDeleted
    <2> QED
      BY <1>2, <2>2, Zenon
  <1> QED
    BY <1>1, <1>2

--------------------------------------------------------------------------------
(* The steps. *)

(* A new channel disturbs nobody. *)
LEMMA OpenStep ==
  ASSUME Inv, NEW c \in Channels, open(c)
  PROVE  Inv'
PROOF
  <1>1. TypeOK /\ OwnerInv /\ EpollInv /\ PollInv /\ ActiveInv /\ PollerNeverAborts
    BY Zenon DEF Inv
  <1>2. /\ life' = [life EXCEPT ![c] = "open"]
        /\ UNCHANGED <<usePoll, events_, index_, channels_, epoll, eventListSize, pollfds_,
                       missed, pc, activeChannels_, turn, aborted>>
    BY Zenon DEF open, pollerVars
  <1>3. TypeOK'
    <2>1. (IF usePoll THEN PP!TypeOK ELSE EP!TypeOK)'
      BY <1>1, <1>2, PollerTypeSame
    <2>2. life' \in [Channels -> {"unborn", "open", "closed"}]
      BY <1>1, <1>2 DEF TypeOK
    <2>3. usePoll' \in BOOLEAN
      BY <1>1, <1>2, Zenon DEF TypeOK
    <2>4. /\ events_' \in [Channels -> SUBSET Events]
          /\ channels_' \in [Fds -> Channels \cup {"NULL"}]
          /\ missed' \in SUBSET Channels
      BY <1>1, <1>2 DEF TypeOK
    <2>5. /\ pc' \in {"poll", "handler", "functors"}
          /\ activeChannels_' \in Seq(Channels)
          /\ turn' \in Nat /\ (pc' = "handler" <=> turn' \in DOMAIN activeChannels_')
          /\ aborted' \in {"no", "poller", "loop"}
      BY <1>1, <1>2 DEF TypeOK
    <2> QED
      BY <2>1, <2>2, <2>3, <2>4, <2>5 DEF TypeOK, Fds, Events, kReadEvent, kWriteEvent
  <1>4. OwnerInv'
    BY <1>1, OwnerOpen
  <1>5. EpollInv'
    BY <1>1, <1>2 DEF EpollInv, Fds, EP!Absent
  <1>6. PollInv'
    BY <1>1, <1>2 DEF PollInv, PlaceOf, Registered, PP!At, PP!ignored
  <1>7. ActiveInv'
    BY <1>1, <1>2 DEF ActiveInv, Registered
  <1>8. PollerNeverAborts'
    BY <1>1, <1>2 DEF PollerNeverAborts
  <1> QED
    BY <1>3, <1>4, <1>5, <1>6, <1>7, <1>8, Zenon DEF Inv

(* A change of interest keeps all of Inv. *)
LEMMA UpdateStep ==
  ASSUME Inv, NEW c \in Channels, update(c)
  PROVE  Inv'
PROOF
  <1>1. TypeOK /\ OwnerInv /\ EpollInv /\ PollInv /\ ActiveInv
    BY Zenon DEF Inv
  <1>2. /\ UNCHANGED <<usePoll, life, missed, pc, activeChannels_, turn>>
        /\ aborted' = "no" /\ channels_' = [channels_ EXCEPT ![fd[c]] = c]
    BY <1>1, UpdateEffect, Zenon
  <1>3. TypeOK'
    <2>1. (IF usePoll THEN PP!TypeOK ELSE EP!TypeOK)' /\ events_' \in [Channels -> SUBSET Events]
      BY <1>1, PollerTypeUpdate
    <2>2. channels_' \in [Fds -> Channels \cup {"NULL"}]
      BY <1>1, <1>2 DEF TypeOK
    <2>3. usePoll' \in BOOLEAN
      BY <1>1, <1>2, Zenon DEF TypeOK
    <2>4. /\ life' \in [Channels -> {"unborn", "open", "closed"}]
          /\ missed' \in SUBSET Channels
      BY <1>1, <1>2 DEF TypeOK
    <2>5. /\ pc' \in {"poll", "handler", "functors"}
          /\ activeChannels_' \in Seq(Channels)
          /\ turn' \in Nat /\ (pc' = "handler" <=> turn' \in DOMAIN activeChannels_')
          /\ aborted' \in {"no", "poller", "loop"}
      BY <1>1, <1>2 DEF TypeOK
    <2> QED
      BY <2>1, <2>2, <2>3, <2>4, <2>5 DEF TypeOK, Fds, Events, kReadEvent, kWriteEvent
  <1>4. OwnerInv'
    BY <1>1, OwnerUpdate
  <1>5. EpollInv'
    BY <1>1, EpollUpdate
  <1>6. PollInv'
    BY <1>1, PollUpdate
  <1>7. ActiveInv'
    <2>1. Registered' = Registered \cup {c}
      BY <1>1, UpdateRegisters
    <2> QED
      BY <1>1, <1>2, <2>1 DEF ActiveInv
  <1>8. PollerNeverAborts'
    BY <1>2 DEF PollerNeverAborts
  <1> QED
    BY <1>3, <1>4, <1>5, <1>6, <1>7, <1>8, Zenon DEF Inv

(* The assert of EventLoop::removeChannel: no channel whose turn is to come  *)
(* is removed.                                                               *)
LEMMA RemovesNoPending ==
  ASSUME TypeOK, ActiveInv, NEW c \in Channels, ~removesOther(c), pc = "handler",
         NEW i \in turn + 1 .. Len(activeChannels_)
  PROVE  activeChannels_[i] # c
PROOF
  <1>1. activeChannels_ \in Seq(Channels) /\ turn \in Nat /\ turn \in DOMAIN activeChannels_
    BY DEF TypeOK
  <1>2. DOMAIN activeChannels_ = 1 .. Len(activeChannels_) /\ Len(activeChannels_) \in Nat
    BY <1>1, LenProperties
  <1>3. i \in DOMAIN activeChannels_ /\ i # turn
    BY <1>1, <1>2
  <1>4. activeChannels_[i] # activeChannels_[turn]
    BY <1>1, <1>3 DEF ActiveInv
  <1>5. SUFFICES ASSUME activeChannels_[i] = c
                 PROVE  FALSE
    OBVIOUS
  <1>6. removesOther(c)
    BY <1>3, <1>4, <1>5 DEF removesOther
  <1> QED
    BY <1>6

(* A removal keeps all of Inv. *)
LEMMA RemoveStep ==
  ASSUME Inv, NEW c \in Channels, remove(c)
  PROVE  Inv'
PROOF
  <1>1. TypeOK /\ OwnerInv /\ EpollInv /\ PollInv /\ ActiveInv
    BY Zenon DEF Inv
  <1>2. /\ life[c] = "open" /\ channels_[fd[c]] = c
        /\ UNCHANGED <<usePoll, events_, missed, pc, activeChannels_, turn>>
    BY <1>1, RemoveEffect, Zenon
  <1>3. OwnerInv'
    BY <1>1, OwnerRemove
  <1>4. EpollInv'
    BY <1>1, EpollRemove
  <1>5. PollInv'
    BY <1>1, PollRemove
  <1>6. c \in Registered
    BY <1>2 DEF Registered
  <1>7. /\ aborted' \in {"no", "loop"}
        /\ channels_' \in [Fds -> Channels \cup {"NULL"}]
        /\ life' \in [Channels -> {"unborn", "open", "closed"}]
        /\ (IF usePoll THEN PP!TypeOK ELSE EP!TypeOK)'
        /\ ActiveInv'
    <2>1. CASE aborted' = "loop" /\ UNCHANGED <<pollerVars, life>>
      <3>1. UNCHANGED <<usePoll, index_, channels_, epoll, eventListSize, pollfds_, life>>
        BY <1>2, <2>1 DEF pollerVars
      <3>2. (IF usePoll THEN PP!TypeOK ELSE EP!TypeOK)'
        BY <1>1, <3>1, PollerTypeSame
      <3>3. ActiveInv'
        BY <1>1, <1>2, <3>1 DEF ActiveInv, Registered
      <3>4. /\ channels_' \in [Fds -> Channels \cup {"NULL"}]
            /\ life' \in [Channels -> {"unborn", "open", "closed"}]
        BY <1>1, <3>1 DEF TypeOK
      <3> QED
        BY <2>1, <3>2, <3>3, <3>4
    <2>2. CASE ~(aborted' = "loop" /\ UNCHANGED <<pollerVars, life>>)
      <3>1. /\ ~removesOther(c) /\ aborted' = "no"
            /\ channels_' = [channels_ EXCEPT ![fd[c]] = "NULL"]
            /\ life' = [life EXCEPT ![c] = "closed"]
            /\ removeChannel(c)
        BY <1>1, <2>2, RemoveEffect, Zenon
      <3>2. (IF usePoll THEN PP!TypeOK ELSE EP!TypeOK)'
        BY <1>1, <1>2, <1>6, <3>1, PollerTypeRemove
      <3>3. Registered' = Registered \ {c}
        BY <1>1, <1>2, <3>1, RemoveUnregisters
      <3>4. pc = "handler" => \A i \in turn + 1 .. Len(activeChannels_) : activeChannels_[i] # c
        BY <1>1, <3>1, RemovesNoPending
      <3>5. ActiveInv'
        BY <1>1, <1>2, <3>3, <3>4 DEF ActiveInv
      <3>6. /\ channels_' \in [Fds -> Channels \cup {"NULL"}]
            /\ life' \in [Channels -> {"unborn", "open", "closed"}]
        BY <1>1, <3>1 DEF TypeOK
      <3> QED
        BY <3>1, <3>2, <3>5, <3>6
    <2> QED
      BY <2>1, <2>2
  <1>8. TypeOK'
    <2>1. usePoll' \in BOOLEAN
      BY <1>1, <1>2, Zenon DEF TypeOK
    <2>2. events_' \in [Channels -> SUBSET Events] /\ missed' \in SUBSET Channels
      BY <1>1, <1>2 DEF TypeOK
    <2>3. /\ pc' \in {"poll", "handler", "functors"}
          /\ activeChannels_' \in Seq(Channels)
          /\ turn' \in Nat /\ (pc' = "handler" <=> turn' \in DOMAIN activeChannels_')
      BY <1>1, <1>2 DEF TypeOK
    <2> QED
      BY <1>7, <2>1, <2>2, <2>3 DEF TypeOK, Fds, Events, kReadEvent, kWriteEvent
  <1>9. PollerNeverAborts'
    BY <1>7 DEF PollerNeverAborts
  <1> QED
    BY <1>3, <1>4, <1>5, <1>7, <1>8, <1>9, Zenon DEF Inv

(* What the pollers and the channels keep is the same after a step that      *)
(* touches neither.                                                          *)
LEMMA SamePollers ==
  ASSUME OwnerInv, EpollInv, PollInv,
         UNCHANGED <<usePoll, events_, index_, channels_, epoll, pollfds_, life>>
  PROVE  OwnerInv' /\ EpollInv' /\ PollInv'
PROOF
  <1>1. OwnerInv'
    BY DEF OwnerInv, Fds
  <1>2. EpollInv'
    BY DEF EpollInv, Fds, EP!Absent
  <1>3. PollInv'
    BY DEF PollInv, PlaceOf, Registered, PP!At, PP!ignored
  <1> QED
    BY <1>1, <1>2, <1>3

(* The poll reports registered channels, each once, and leaves the rest. *)
LEMMA PollStep ==
  ASSUME Inv, poll
  PROVE  Inv'
PROOF
  <1>1. TypeOK /\ OwnerInv /\ EpollInv /\ PollInv /\ ActiveInv /\ PollerNeverAborts
    BY Zenon DEF Inv
  <1>2. UNCHANGED <<usePoll, life, aborted>>
    BY Zenon DEF poll
  <1>3. /\ activeChannels_' \in Seq(Registered)
        /\ \A i, j \in DOMAIN activeChannels_' : activeChannels_'[i] = activeChannels_'[j] => i = j
        /\ missed' \in SUBSET Channels
        /\ UNCHANGED <<events_, index_, channels_, epoll, pollfds_>>
    <2>1. CASE usePoll
      BY <1>1, <2>1, PollReports
    <2>2. CASE ~usePoll
      BY <1>1, <2>2, EpollReports
    <2> QED
      BY <2>1, <2>2
  <1>4. OwnerInv' /\ EpollInv' /\ PollInv'
    BY <1>1, <1>2, <1>3, SamePollers
  <1>5. (IF usePoll THEN PP!TypeOK ELSE EP!TypeOK)'
    <2>1. CASE usePoll
      <3>1. UNCHANGED <<usePoll, index_, epoll, eventListSize, pollfds_>>
        BY <1>1, <1>2, <1>3, <2>1, PollReports
      <3> QED
        BY <1>1, <3>1, PollerTypeSame
    <2>2. CASE ~usePoll
      <3>1. /\ index_ \in [Channels -> {EP!kNew, EP!kAdded, EP!kDeleted}]
            /\ epoll \in [Fds -> EP!Entry \cup {EP!Absent}]
        BY <1>1, <2>2, EpollTypes
      <3>2. /\ index_' \in [Channels -> {EP!kNew, EP!kAdded, EP!kDeleted}]
            /\ epoll' \in [Fds -> EP!Entry \cup {EP!Absent}]
        BY <1>3, <3>1
      <3>3. /\ eventListSize' \in Nat /\ eventListSize' >= kInitEventListSize
            /\ eventListSize' = kInitEventListSize \/ eventListSize' <= 2 * Cardinality(Channels)
        BY <1>1, <2>2, EpollReports
      <3> QED
        BY <1>2, <2>2, <3>2, <3>3, EpollTypeNext
    <2> QED
      BY <2>1, <2>2
  <1>6. Registered' = Registered /\ Registered \in SUBSET Channels
    BY <1>3 DEF Registered
  <1>7. activeChannels_' \in Seq(Channels)
    BY <1>3, <1>6, SeqMonotonic
  <1>8. Len(activeChannels_') \in Nat /\ DOMAIN activeChannels_' = 1 .. Len(activeChannels_')
    BY <1>3, LenProperties
  <1>9. \A i \in DOMAIN activeChannels_' : activeChannels_'[i] \in Registered
    BY <1>3, <1>8, ElementOfSeq
  <1>10. /\ pc' \in {"poll", "handler", "functors"} /\ turn' \in Nat
         /\ pc' = "handler" <=> turn' \in DOMAIN activeChannels_'
         /\ pc' # "handler" => turn' = 0
         /\ pc' = "handler" => turn' = 1
    <2>1. CASE activeChannels_' = <<>>
      <3>1. pc' = "functors" /\ turn' = 0
        BY <2>1, Zenon DEF poll
      <3>2. turn' \notin DOMAIN activeChannels_'
        BY <1>8, <3>1
      <3> QED
        BY <3>1, <3>2
    <2>2. CASE activeChannels_' # <<>>
      <3>1. pc' = "handler" /\ turn' = 1
        BY <2>2, Zenon DEF poll
      <3>2. Len(activeChannels_') >= 1
        BY <1>3, <1>8, <2>2, EmptySeq
      <3>3. 1 \in DOMAIN activeChannels_'
        BY <1>8, <3>2
      <3> QED
        BY <3>1, <3>3
    <2> QED
      BY <2>1, <2>2
  <1>11. ActiveInv'
    <2>1. ASSUME pc' = "handler", NEW i \in turn' + 1 .. Len(activeChannels_')
          PROVE  activeChannels_'[i] \in Registered'
      <3>1. i \in DOMAIN activeChannels_'
        BY <1>8, <1>10, <2>1
      <3> QED
        BY <1>6, <1>9, <3>1
    <2> QED
      BY <1>3, <1>10, <2>1 DEF ActiveInv
  <1>12. TypeOK'
    <2>1. usePoll' \in BOOLEAN
      BY <1>1, <1>2, Zenon DEF TypeOK
    <2>2. /\ events_' \in [Channels -> SUBSET Events]
          /\ channels_' \in [Fds -> Channels \cup {"NULL"}]
          /\ life' \in [Channels -> {"unborn", "open", "closed"}]
          /\ aborted' \in {"no", "poller", "loop"}
      BY <1>1, <1>2, <1>3 DEF TypeOK
    <2> QED
      BY <1>3, <1>5, <1>7, <1>10, <2>1, <2>2 DEF TypeOK, Fds, Events, kReadEvent, kWriteEvent
  <1>13. PollerNeverAborts'
    BY <1>1, <1>2 DEF PollerNeverAborts
  <1> QED
    BY <1>4, <1>11, <1>12, <1>13, Zenon DEF Inv

(* The next turn, or the functors', or the next iteration. *)
LEMMA TurnStep ==
  ASSUME Inv, handled \/ functorsDone
  PROVE  Inv'
PROOF
  <1>1. TypeOK /\ OwnerInv /\ EpollInv /\ PollInv /\ ActiveInv /\ PollerNeverAborts
    BY Zenon DEF Inv
  <1>2. UNCHANGED <<usePoll, events_, index_, channels_, epoll, eventListSize, pollfds_, life,
                    missed, aborted>>
    BY Zenon DEF handled, functorsDone, pollerVars
  <1>3. OwnerInv' /\ EpollInv' /\ PollInv'
    BY <1>1, <1>2, SamePollers
  <1>4. (IF usePoll THEN PP!TypeOK ELSE EP!TypeOK)'
    BY <1>1, <1>2, PollerTypeSame
  <1>5. /\ activeChannels_ \in Seq(Channels) /\ turn \in Nat
        /\ pc = "handler" <=> turn \in DOMAIN activeChannels_
        /\ Len(activeChannels_) \in Nat /\ DOMAIN activeChannels_ = 1 .. Len(activeChannels_)
    BY <1>1, LenProperties DEF TypeOK
  <1>6. Registered' = Registered
    BY <1>2 DEF Registered
  <1>7. /\ pc' \in {"poll", "handler", "functors"} /\ turn' \in Nat
        /\ activeChannels_' \in Seq(Channels)
        /\ pc' = "handler" <=> turn' \in DOMAIN activeChannels_'
        /\ ActiveInv'
    <2>1. CASE handled /\ turn < Len(activeChannels_)
      <3>1. pc = "handler" /\ turn' = turn + 1 /\ UNCHANGED <<pc, activeChannels_>>
        BY <2>1, Zenon DEF handled
      <3>2. turn + 1 \in DOMAIN activeChannels_ /\ turn + 1 \in Nat
        BY <1>5, <2>1
      <3>3. \A i \in turn + 1 + 1 .. Len(activeChannels_) : i \in turn + 1 .. Len(activeChannels_)
        BY <1>5
      <3>4. ActiveInv'
        BY <1>1, <1>6, <3>1, <3>3 DEF ActiveInv
      <3> QED
        BY <1>5, <3>1, <3>2, <3>4
    <2>2. CASE handled /\ ~(turn < Len(activeChannels_))
      <3>1. turn' = 0 /\ pc' = "functors" /\ activeChannels_' = <<>>
        BY <2>2, Zenon DEF handled
      <3>2. <<>> \in Seq(Channels) /\ DOMAIN <<>> = {}
        BY EmptySeq
      <3> QED
        BY <3>1, <3>2 DEF ActiveInv
    <2>3. CASE functorsDone
      <3>1. pc = "functors" /\ pc' = "poll" /\ UNCHANGED <<activeChannels_, turn>>
        BY <2>3, Zenon DEF functorsDone
      <3>2. ActiveInv'
        BY <1>1, <3>1 DEF ActiveInv
      <3> QED
        BY <1>5, <3>1, <3>2
    <2> QED
      BY <2>1, <2>2, <2>3
  <1>8. TypeOK'
    <2>1. usePoll' \in BOOLEAN
      BY <1>1, <1>2, Zenon DEF TypeOK
    <2>2. /\ events_' \in [Channels -> SUBSET Events]
          /\ channels_' \in [Fds -> Channels \cup {"NULL"}]
          /\ life' \in [Channels -> {"unborn", "open", "closed"}]
          /\ missed' \in SUBSET Channels /\ aborted' \in {"no", "poller", "loop"}
      BY <1>1, <1>2 DEF TypeOK
    <2> QED
      BY <1>4, <1>7, <2>1, <2>2 DEF TypeOK, Fds, Events, kReadEvent, kWriteEvent
  <1>9. PollerNeverAborts'
    BY <1>1, <1>2 DEF PollerNeverAborts
  <1> QED
    BY <1>3, <1>7, <1>8, <1>9, Zenon DEF Inv

--------------------------------------------------------------------------------
(* The theorems. *)

(* Nothing is registered at first. *)
LEMMA InvInit == Init => Inv
PROOF
  <1> SUFFICES ASSUME Init
               PROVE  Inv
    OBVIOUS
  <1>1. /\ events_ = [c \in Channels |-> kNoneEvent] /\ index_ = [c \in Channels |-> -1]
        /\ channels_ = [f \in Fds |-> "NULL"] /\ life = [c \in Channels |-> "unborn"]
        /\ missed = {} /\ pc = "functors" /\ activeChannels_ = <<>> /\ turn = 0 /\ aborted = "no"
    BY Zenon DEF Init
  <1>2. epoll = [f \in Fds |-> EP!Absent] /\ eventListSize = kInitEventListSize /\ pollfds_ = <<>>
    BY FdFacts DEF Init, EP!Init, PP!Init
  <1>3. usePoll \in BOOLEAN
    BY Zenon DEF Init
  <1>4. <<>> \in Seq(Channels) /\ <<>> \in Seq(PP!Pollfd) /\ Len(<<>>) = 0 /\ DOMAIN <<>> = {}
    BY EmptySeq
  <1>5. \A c \in Channels : channels_[fd[c]] = "NULL" /\ channels_[fd[c]] # c
    BY <1>1, FdFacts, channelsAssumption
  <1>6. PP!TypeOK
    <2>1. index_ \in [Channels -> -1 .. Cardinality(PP!Fds) - 1]
      <3>1. -1 \in -1 .. Cardinality(Fds) - 1 /\ PP!Fds = Fds
        BY FdFacts
      <3> QED
        BY <1>1, <3>1
    <2> QED
      BY <1>2, <1>4, <2>1, SameCardinality DEF PP!TypeOK
  <1>7. EP!TypeOK
    <2>1. index_ \in [Channels -> {EP!kNew, EP!kAdded, EP!kDeleted}]
      BY <1>1 DEF EP!kNew
    <2>2. epoll \in [EP!Fds -> EP!Entry \cup {EP!Absent}]
      BY <1>2, FdFacts
    <2>3. eventListSize \in Nat /\ eventListSize >= kInitEventListSize
      BY <1>2, sizeAssumption
    <2> QED
      BY <1>2, <2>1, <2>2, <2>3 DEF EP!TypeOK
  <1>8. IF usePoll THEN PP!TypeOK ELSE EP!TypeOK
    BY <1>6, <1>7, Zenon
  <1>9. TypeOK
    <2>1. events_ \in [Channels -> SUBSET Events] /\ channels_ \in [Fds -> Channels \cup {"NULL"}]
      BY <1>1 DEF kNoneEvent
    <2>2. life \in [Channels -> {"unborn", "open", "closed"}] /\ missed \subseteq Channels
      BY <1>1
    <2>3. /\ pc \in {"poll", "handler", "functors"}
          /\ activeChannels_ \in Seq(Channels)
          /\ turn \in Nat /\ (pc = "handler" <=> turn \in DOMAIN activeChannels_)
          /\ aborted \in {"no", "poller", "loop"}
      BY <1>1, <1>4
    <2> QED
      BY <1>3, <1>8, <2>1, <2>2, <2>3 DEF TypeOK
  <1>10. OwnerInv
    BY <1>1, <1>5 DEF OwnerInv
  <1>11. EpollInv
    <2>1. \A f \in Fds : epoll[f] = EP!Absent
      BY <1>2
    <2>2. \A c \in Channels : index_[c] # EP!kAdded /\ index_[c] # EP!kDeleted
      BY <1>1 DEF EP!kAdded, EP!kDeleted
    <2> QED
      BY <2>1, <2>2 DEF EpollInv
  <1>12. PollInv
    <2>1. Registered = {}
      BY <1>5 DEF Registered
    <2>2. DOMAIN pollfds_ = {}
      BY <1>2, <1>4
    <2> QED
      BY <2>1, <2>2 DEF PollInv
  <1>13. ActiveInv
    BY <1>1, <1>4 DEF ActiveInv
  <1>14. PollerNeverAborts
    BY <1>1 DEF PollerNeverAborts
  <1> QED
    BY <1>9, <1>10, <1>11, <1>12, <1>13, <1>14, Zenon DEF Inv

(* Every step keeps Inv. *)
LEMMA InvStep == Inv /\ [Next]_vars => Inv'
PROOF
  <1> SUFFICES ASSUME Inv, [Next]_vars
               PROVE  Inv'
    OBVIOUS
  <1>1. ASSUME NEW c \in Channels, open(c)
        PROVE  Inv'
    BY <1>1, OpenStep
  <1>2. ASSUME NEW c \in Channels, update(c)
        PROVE  Inv'
    BY <1>2, UpdateStep
  <1>3. ASSUME NEW c \in Channels, remove(c)
        PROVE  Inv'
    BY <1>3, RemoveStep
  <1>4. CASE poll
    BY <1>4, PollStep
  <1>5. CASE handled \/ functorsDone
    BY <1>5, TurnStep
  <1>6. CASE UNCHANGED vars
    <2>0. TypeOK /\ OwnerInv /\ EpollInv /\ PollInv /\ ActiveInv /\ PollerNeverAborts
      BY Zenon DEF Inv
    <2>1. UNCHANGED <<usePoll, events_, index_, channels_, epoll, eventListSize, pollfds_, life,
                      missed, pc, activeChannels_, turn, aborted>>
      BY <1>6 DEF vars, pollerVars
    <2>2. OwnerInv' /\ EpollInv' /\ PollInv'
      BY <2>0, <2>1, SamePollers
    <2>3. (IF usePoll THEN PP!TypeOK ELSE EP!TypeOK)'
      BY <2>0, <2>1, PollerTypeSame
    <2>4. usePoll' \in BOOLEAN
      BY <2>0, <2>1, Zenon DEF TypeOK
    <2>5. TypeOK'
      <3>1. /\ events_' \in [Channels -> SUBSET Events]
            /\ channels_' \in [Fds -> Channels \cup {"NULL"}]
            /\ life' \in [Channels -> {"unborn", "open", "closed"}]
            /\ missed' \in SUBSET Channels
        BY <2>0, <2>1 DEF TypeOK
      <3>2. /\ pc' \in {"poll", "handler", "functors"}
            /\ activeChannels_' \in Seq(Channels)
            /\ turn' \in Nat /\ (pc' = "handler" <=> turn' \in DOMAIN activeChannels_')
            /\ aborted' \in {"no", "poller", "loop"}
        BY <2>0, <2>1 DEF TypeOK
      <3> QED
        BY <2>3, <2>4, <3>1, <3>2 DEF TypeOK, Fds, Events, kReadEvent, kWriteEvent
    <2>6. ActiveInv' /\ PollerNeverAborts'
      BY <2>0, <2>1 DEF ActiveInv, Registered, PollerNeverAborts
    <2> QED
      BY <2>2, <2>5, <2>6, Zenon DEF Inv
  <1> QED
    BY <1>1, <1>2, <1>3, <1>4, <1>5, <1>6, Zenon DEF Next, Loop

(* Inv is an invariant, whatever handlers and functors do. *)
LEMMA Invariance == Spec => []Inv
PROOF
  <1>1. Init => Inv
    BY InvInit
  <1>2. Inv /\ [Next]_vars => Inv'
    BY InvStep
  <1> QED
    BY <1>1, <1>2, PTL DEF Spec

(* The state of the loop, its channels and either poller keeps its types;    *)
(* with them the bounds on PollPoller's index and on EPollPoller's list of   *)
(* events, which EPollPoller::poll doubles.                                  *)
THEOREM ChannelsTypeCorrect == Spec => []TypeOK
PROOF
  <1>1. Inv => TypeOK
    BY Zenon DEF Inv
  <1> QED
    BY <1>1, Invariance, PTL

(* EPollPoller::updateChannel, removeChannel, update: with any number of     *)
(* channels and any reuse of descriptors neither an assert of the poller nor *)
(* an epoll_ctl() fails.                                                     *)
THEOREM PollersNeverAbort == Spec => []PollerNeverAborts
PROOF
  <1>1. Inv => PollerNeverAborts
    BY Zenon DEF Inv
  <1> QED
    BY <1>1, Invariance, PTL

(* EventLoop::loop, removeChannel: what activeChannels_ and epoll point to   *)
(* is registered and open.                                                   *)
THEOREM PointersStayGood == Spec => []NoDanglingPointer
PROOF
  <1>1. ASSUME Inv
        PROVE  NoDanglingPointer
    <2>0. TypeOK /\ OwnerInv /\ EpollInv /\ ActiveInv /\ "NULL" \notin Channels
      BY <1>1, channelsAssumption, Zenon DEF Inv
    <2>1. \A c \in Registered : life[c] = "open"
      <3> SUFFICES ASSUME NEW c \in Registered
                   PROVE  life[c] = "open"
        OBVIOUS
      <3>1. c \in Channels /\ channels_[fd[c]] = c /\ fd[c] \in Fds
        BY FdFacts DEF Registered
      <3> QED
        BY <2>0, <3>1 DEF OwnerInv
    <2>2. pc = "handler" =>
            \A i \in turn + 1 .. Len(activeChannels_) :
              activeChannels_[i] \in Registered /\ life[activeChannels_[i]] = "open"
      BY <2>0, <2>1 DEF ActiveInv
    <2>3. \A f \in Fds : epoll[f] # EP!Absent =>
            channels_[f] = epoll[f].ptr /\ life[epoll[f].ptr] = "open"
      BY <2>0 DEF EpollInv, OwnerInv
    <2> QED
      BY <2>2, <2>3 DEF NoDanglingPointer
  <1> QED
    BY <1>1, Invariance, PTL

(* PollPoller::removeChannel, fillActiveChannels: the index of a registered  *)
(* channel is its own place, and the array has no place more.                *)
THEOREM IndexStaysRight == Spec => []IndexFindsOwnPlace
PROOF
  <1>1. ASSUME Inv
        PROVE  IndexFindsOwnPlace
    <2> SUFFICES ASSUME usePoll
                 PROVE  /\ \A c \in Registered :
                             /\ index_[c] \in 0 .. Len(pollfds_) - 1
                             /\ pollfds_[PP!At(index_[c])].fd \in {fd[c], PP!ignored(fd[c])}
                        /\ Len(pollfds_) = Cardinality(Registered)
      BY Zenon DEF IndexFindsOwnPlace
    <2>0. TypeOK /\ OwnerInv /\ PollInv
      BY <1>1, Zenon DEF Inv
    <2>1. \A c \in Registered :
            /\ index_[c] \in 0 .. Len(pollfds_) - 1
            /\ pollfds_[PP!At(index_[c])].fd \in {fd[c], PP!ignored(fd[c])}
      BY <2>0 DEF PollInv, PlaceOf
    <2>2. Len(pollfds_) = Cardinality(Registered)
      <3> DEFINE n == Len(pollfds_)
      <3>1. n \in Nat
        BY <2>0, PollTypes
      <3>2. PICK h \in [1 .. n -> Registered] : \A i \in 1 .. n : index_[h[i]] + 1 = i
        BY <2>0, PlaceOwners
      <3>3. \A c \in Registered : index_[c] \in Int /\ index_[c] + 1 \in 1 .. n
        BY <2>0, PlaceFacts
      <3> HIDE DEF n
      <3>4. \A i, j \in 1 .. n : h[i] = h[j] => i = j
        BY <3>2
      <3>5. \A c \in Registered : \E i \in 1 .. n : h[i] = c
        <4> SUFFICES ASSUME NEW c \in Registered
                     PROVE  h[index_[c] + 1] = c
          BY <3>3
        <4> DEFINE i == index_[c] + 1
        <4>1. i \in 1 .. n /\ index_[c] \in Int
          BY <3>3
        <4>2. h[i] \in Registered /\ index_[h[i]] + 1 = i /\ index_[h[i]] \in Int
          BY <3>2, <3>3, <4>1
        <4>3. index_[h[i]] = index_[c]
          BY <4>1, <4>2
        <4> HIDE DEF i
        <4>4. h[i] = c
          BY <2>0, <4>2, <4>3, OwnPlace
        <4> QED
          BY <4>4 DEF i
      <3>6. h \in Bijection(1 .. n, Registered)
        BY <3>2, <3>4, <3>5 DEF Bijection, Injection, Surjection, IsInjective
      <3>7. ExistsBijection(1 .. n, Registered)
        BY <3>6 DEF ExistsBijection
      <3>8. IsFiniteSet(1 .. n) /\ Cardinality(1 .. n) = n
        BY <3>1, CountedPlaces
      <3>9. Cardinality(Registered) = Cardinality(1 .. n)
        BY <3>7, <3>8, FS_Bijection
      <3> QED
        BY <3>8, <3>9 DEF n
    <2> QED
      BY <2>1, <2>2
  <1> QED
    BY <1>1, Invariance, PTL

--------------------------------------------------------------------------------
(* Both pollers implement Poller. *)

(* What the kernel watches the channels for: the mapping of Poller's watched. *)
Watched == [c \in Channels |-> IF usePoll THEN PP!watched(c) ELSE EP!watched(c)]

(* The channels whose turn is to come: the mapping of Poller's reported. *)
Pending == IF pc = "handler"
           THEN {activeChannels_[i] : i \in turn + 1 .. Len(activeChannels_)}
           ELSE {}

(* The kernel watches each channel for exactly its interest. *)
WatchInv == Watched = events_

(* Inv says so. *)
LEMMA WatchesInterest == Inv => WatchInv
PROOF
  <1> SUFFICES ASSUME Inv
               PROVE  WatchInv
    OBVIOUS
  <1>0. TypeOK /\ OwnerInv /\ EpollInv /\ PollInv
    BY Zenon DEF Inv
  <1>1. \A c \in Channels : c \notin Registered => events_[c] = {}
    BY <1>0 DEF OwnerInv, Registered, kNoneEvent
  <1>2. ASSUME usePoll, NEW c \in Channels
        PROVE  PP!watched(c) = events_[c]
    <2> DEFINE places == {j \in DOMAIN pollfds_ : channels_[fd[c]] = c /\ pollfds_[j].fd = fd[c]}
    <2>0. PP!watched(c) = UNION {pollfds_[i].events : i \in places}
      BY DEF PP!watched
    <2>1. CASE c \notin Registered
      <3>1. places = {}
        BY <2>1 DEF Registered
      <3> HIDE DEF places
      <3>2. UNION {pollfds_[i].events : i \in places} = {}
        BY <3>1
      <3> QED
        BY <1>1, <2>0, <2>1, <3>2
    <2>2. CASE c \in Registered
      <3>1. /\ index_[c] + 1 \in DOMAIN pollfds_
            /\ pollfds_[index_[c] + 1].events = events_[c]
            /\ pollfds_[index_[c] + 1].fd = fd[c] \/ events_[c] = {}
        <4>1. DOMAIN pollfds_ = 1 .. Len(pollfds_)
          BY <1>0, <1>2, PollTypes
        <4> QED
          BY <1>0, <1>2, <2>2, <4>1, PlaceFacts DEF kNoneEvent
      <3>2. ASSUME NEW j \in places
            PROVE  pollfds_[j].events = events_[c]
        <4>1. j \in DOMAIN pollfds_ /\ pollfds_[j].fd = fd[c]
          OBVIOUS
        <4>2. PICK d \in Registered : index_[d] + 1 = j
          BY <1>0, <1>2, <4>1 DEF PollInv, PP!At
        <4>3. /\ pollfds_[j].events = events_[d]
              /\ pollfds_[j].fd = fd[d] \/ pollfds_[j].fd = PP!ignored(fd[d])
          BY <1>0, <1>2, <4>2, PlaceFacts
        <4>4. d \in Channels /\ channels_[fd[d]] = d /\ channels_[fd[c]] = c
          BY <2>2 DEF Registered
        <4>5. PP!ignored(fd[d]) # fd[c]
          <5>1. fd[d] \in Nat /\ fd[c] \in Nat
            BY <4>4, FdFacts
          <5> QED
            BY <5>1 DEF PP!ignored
        <4>6. d = c
          BY <4>1, <4>3, <4>4, <4>5
        <4> QED
          BY <4>3, <4>6
      <3>3. pollfds_[index_[c] + 1].fd = fd[c] => index_[c] + 1 \in places
        BY <2>2, <3>1 DEF Registered
      <3> HIDE DEF places
      <3>4. UNION {pollfds_[i].events : i \in places} = events_[c]
        BY <3>1, <3>2, <3>3
      <3> QED
        BY <2>0, <3>4
    <2> QED
      BY <2>1, <2>2
  <1>3. ASSUME ~usePoll, NEW c \in Channels
        PROVE  EP!watched(c) = events_[c]
    <2>1. fd[c] \in Fds /\ "NULL" \notin Channels /\ EP!Absent.ptr = "NULL"
      BY FdFacts, channelsAssumption DEF EP!Absent
    <2>2. CASE epoll[fd[c]].ptr = c
      <3>1. epoll[fd[c]] # EP!Absent
        BY <2>1, <2>2
      <3>2. epoll[fd[c]].events = events_[c]
        BY <1>0, <2>1, <2>2, <3>1 DEF EpollInv
      <3> QED
        BY <2>2, <3>2 DEF EP!watched
    <2>3. CASE epoll[fd[c]].ptr # c
      <3>1. index_[c] # EP!kAdded
        BY <1>0, <1>3, <2>3 DEF EpollInv
      <3>2. index_[c] = EP!kDeleted => events_[c] = {}
        BY <1>0, <1>3 DEF EpollInv, kNoneEvent
      <3>3. index_[c] = EP!kNew \/ index_[c] = EP!kDeleted
        BY <1>0, <1>3, <3>1, EpollTypes
      <3>4. ASSUME index_[c] = EP!kNew
            PROVE  c \notin Registered
        <4> SUFFICES ASSUME channels_[fd[c]] = c
                     PROVE  FALSE
          BY DEF Registered
        <4>1. life[c] = "open"
          BY <1>0, <2>1 DEF OwnerInv
        <4>2. index_[c] = -1
          BY <3>4 DEF EP!kNew
        <4> QED
          BY <1>0, <4>1, <4>2, OpenOwner
      <3>5. events_[c] = {}
        BY <1>1, <3>2, <3>3, <3>4
      <3> QED
        BY <2>3, <3>5 DEF EP!watched
    <2> QED
      BY <2>2, <2>3
  <1>4. \A c \in Channels : (IF usePoll THEN PP!watched(c) ELSE EP!watched(c)) = events_[c]
    BY <1>2, <1>3, Zenon
  <1>5. events_ = [c \in Channels |-> events_[c]]
    BY <1>0 DEF TypeOK
  <1> QED
    BY <1>4, <1>5 DEF WatchInv, Watched

(* ... and so it does after the step. *)
LEMMA WatchesInterestNext == Inv' => WatchInv'
PROOF
  BY WatchesInterest, PTL

(* Poller's interest is the channels'. *)
LEMMA SameInterest ==
  /\ P!Updates = Updates /\ P!kNoneEvent = kNoneEvent
  /\ \A call, e : P!Interest(call, e) = Interest(call, e)
  /\ \A e : P!isNoneEvent(e) <=> e = kNoneEvent
PROOF
  <1>1. P!Updates = Updates /\ P!kNoneEvent = kNoneEvent
    BY DEF P!Updates, Updates, P!kNoneEvent, kNoneEvent
  <1>2. \A call, e : P!Interest(call, e) = Interest(call, e)
    BY <1>1, Zenon
    DEF P!Interest, Interest, P!kReadEvent, kReadEvent, P!kWriteEvent, kWriteEvent
  <1>3. \A e : P!isNoneEvent(e) <=> e = kNoneEvent
    BY <1>1, Zenon DEF P!isNoneEvent
  <1> QED
    BY <1>1, <1>2, <1>3

(* A change of interest is one of Poller's. *)
LEMMA RefinesUpdate ==
  ASSUME Inv, Inv', NEW c \in Channels, update(c)
  PROVE  P!update(c)
PROOF
  <1>0. TypeOK /\ OwnerInv /\ EpollInv
    BY Zenon DEF Inv
  <1>1. Watched = events_ /\ Watched' = events_'
    BY WatchesInterest, WatchesInterestNext DEF WatchInv
  <1>2. PICK call \in Updates : events_' = [events_ EXCEPT ![c] = Interest(call, events_[c])]
    BY <1>0, UpdateEffect, Zenon
  <1>3. Registered' = Registered \cup {c}
    BY <1>0, UpdateRegisters
  <1>4. UNCHANGED Pending
    <2>1. UNCHANGED <<pc, activeChannels_, turn>>
      BY <1>0, UpdateEffect, Zenon
    <2> QED
      BY <2>1 DEF Pending
  <1>5. Interest(call, events_[c]) = P!Interest(call, events_[c]) /\ call \in P!Updates
    BY <1>2, SameInterest
  <1>6. events_' = [events_ EXCEPT ![c] = P!Interest(call, events_[c])]
    BY <1>2, <1>5
  <1>7. events_' = [events_ EXCEPT ![c] = P!Interest(call, @)]
    BY <1>6
  <1>8. Watched' = [Watched EXCEPT ![c] = P!Interest(call, events_[c])]
    BY <1>1, <1>6
  <1> QED
    BY <1>3, <1>4, <1>5, <1>7, <1>8, Zenon DEF P!update, Watched, Pending

(* A removal is one of Poller's: the channel's turn is not to come. *)
LEMMA RefinesRemove ==
  ASSUME Inv, Inv', NEW c \in Channels, remove(c)
  PROVE  P!remove(c) \/ UNCHANGED P!vars
PROOF
  <1>0. TypeOK /\ OwnerInv /\ EpollInv /\ ActiveInv
    BY Zenon DEF Inv
  <1>1. Watched = events_ /\ Watched' = events_'
    BY WatchesInterest, WatchesInterestNext DEF WatchInv
  <1>2. /\ life[c] = "open" /\ channels_[fd[c]] = c /\ events_[c] = kNoneEvent
        /\ UNCHANGED <<events_, pc, activeChannels_, turn>>
    BY <1>0, RemoveEffect, Zenon
  <1>3. UNCHANGED <<events_, Watched, Pending>>
    BY <1>1, <1>2 DEF Pending
  <1>4. CASE UNCHANGED <<pollerVars, life>>
    <2>1. UNCHANGED Registered
      BY <1>4 DEF pollerVars, Registered
    <2>2. UNCHANGED <<events_, Registered, Watched, Pending>>
      BY <1>3, <2>1
    <2> QED
      BY <2>2, Zenon DEF P!vars, Watched, Pending
  <1>5. CASE ~UNCHANGED <<pollerVars, life>>
    <2>1. ~removesOther(c) /\ channels_' = [channels_ EXCEPT ![fd[c]] = "NULL"]
      BY <1>0, <1>5, RemoveEffect, Zenon
    <2>2. Registered' = Registered \ {c}
      BY <1>0, <1>2, <2>1, RemoveUnregisters
    <2>3. c \in Registered
      BY <1>2 DEF Registered
    <2>4. c \notin Pending
      <3>1. pc = "handler" => \A i \in turn + 1 .. Len(activeChannels_) : activeChannels_[i] # c
        BY <1>0, <2>1, RemovesNoPending
      <3> QED
        BY <3>1 DEF Pending
    <2>5. c \in Registered \ Pending /\ P!isNoneEvent(events_[c])
      BY <1>2, <2>3, <2>4, SameInterest
    <2> QED
      BY <1>3, <2>2, <2>5, Zenon DEF P!remove, Watched, Pending
  <1> QED
    BY <1>4, <1>5

(* A poll is one of Poller's. *)
LEMMA RefinesPoll ==
  ASSUME Inv, Inv', poll
  PROVE  P!poll
PROOF
  <1>0. TypeOK /\ OwnerInv /\ EpollInv /\ PollInv /\ ActiveInv'
    BY Zenon DEF Inv
  <1>1. Watched = events_ /\ Watched' = events_'
    BY WatchesInterest, WatchesInterestNext DEF WatchInv
  <1>2. UNCHANGED <<events_, channels_>>
    <2>1. CASE usePoll
      BY <1>0, <2>1, PollReports
    <2>2. CASE ~usePoll
      BY <1>0, <2>2, EpollReports
    <2> QED
      BY <2>1, <2>2
  <1>3. UNCHANGED <<events_, Registered, Watched>>
    BY <1>1, <1>2 DEF Registered
  <1>4. Pending = {}
    <2>1. pc = "poll"
      BY Zenon DEF poll
    <2> QED
      BY <2>1 DEF Pending
  <1>5. Pending' \in SUBSET Registered
    BY <1>0, <1>3 DEF Pending, ActiveInv
  <1> QED
    BY <1>3, <1>4, <1>5, Zenon DEF P!poll, Watched, Pending

(* The next turn is that of one of the reported channels. *)
LEMMA RefinesHandled ==
  ASSUME Inv, Inv', handled
  PROVE  (\E c \in Channels : P!turn(c)) \/ UNCHANGED P!vars
PROOF
  <1>0. TypeOK /\ ActiveInv
    BY Zenon DEF Inv
  <1>1. Watched = events_ /\ Watched' = events_'
    BY WatchesInterest, WatchesInterestNext DEF WatchInv
  <1>2. pc = "handler" /\ UNCHANGED <<events_, channels_>>
    BY Zenon DEF handled, pollerVars
  <1>3. UNCHANGED <<events_, Registered, Watched>>
    BY <1>1, <1>2 DEF Registered
  <1>4. /\ activeChannels_ \in Seq(Channels) /\ turn \in Nat
        /\ Len(activeChannels_) \in Nat /\ DOMAIN activeChannels_ = 1 .. Len(activeChannels_)
    BY <1>0, LenProperties DEF TypeOK
  <1>5. CASE turn < Len(activeChannels_)
    <2> DEFINE c == activeChannels_[turn + 1]
    <2>1. turn' = turn + 1 /\ UNCHANGED <<pc, activeChannels_>>
      BY <1>5, Zenon DEF handled
    <2>2. turn + 1 \in DOMAIN activeChannels_ /\ turn + 1 \in turn + 1 .. Len(activeChannels_)
      BY <1>4, <1>5
    <2>3. c \in Channels
      BY <1>4, <2>2, ElementOfSeq
    <2>4. c \in Pending
      BY <1>2, <2>2 DEF Pending
    <2>5. Pending' = Pending \ {c}
      <3>1. \A i \in turn + 1 .. Len(activeChannels_) :
              /\ i \in DOMAIN activeChannels_
              /\ i = turn + 1 \/ i \in turn + 1 + 1 .. Len(activeChannels_)
        BY <1>4
      <3>2. \A i \in turn + 1 + 1 .. Len(activeChannels_) :
              i \in turn + 1 .. Len(activeChannels_) /\ i # turn + 1
        BY <1>4
      <3>3. Pending = {activeChannels_[i] : i \in turn + 1 .. Len(activeChannels_)}
        BY <1>2 DEF Pending
      <3>4. Pending' = {activeChannels_[i] : i \in turn + 1 + 1 .. Len(activeChannels_)}
        BY <1>2, <2>1 DEF Pending
      <3>5. \A i, j \in DOMAIN activeChannels_ : activeChannels_[i] = activeChannels_[j] => i = j
        BY <1>0 DEF ActiveInv
      <3> QED
        BY <2>2, <3>1, <3>2, <3>3, <3>4, <3>5
    <2> HIDE DEF c
    <2>6. PICK d \in Channels : d = c
      BY <2>3
    <2>7. d \in Pending /\ Pending' = Pending \ {d}
      BY <2>4, <2>5, <2>6
    <2>8. P!turn(d)
      BY <1>3, <2>7, Zenon DEF P!turn, Watched, Pending
    <2> QED
      BY <2>8, Zenon
  <1>6. CASE ~(turn < Len(activeChannels_))
    <2>1. turn' = 0 /\ pc' = "functors" /\ activeChannels_' = <<>>
      BY <1>6, Zenon DEF handled
    <2>2. turn + 1 .. Len(activeChannels_) = {}
      BY <1>4, <1>6
    <2>3. Pending = {}
      BY <2>2 DEF Pending
    <2>4. Pending' = {}
      BY <2>1 DEF Pending
    <2>5. UNCHANGED <<events_, Registered, Watched, Pending>>
      BY <1>3, <2>3, <2>4
    <2> QED
      BY <2>5, Zenon DEF P!vars, Watched, Pending
  <1> QED
    BY <1>5, <1>6

(* The other steps change nothing that Poller speaks of. *)
LEMMA RefinesOther ==
  ASSUME Inv, Inv', UNCHANGED <<events_, channels_, activeChannels_, turn>>,
         pc' = pc \/ (pc # "handler" /\ pc' # "handler")
  PROVE  UNCHANGED P!vars
PROOF
  <1>1. Watched = events_ /\ Watched' = events_'
    BY WatchesInterest, WatchesInterestNext DEF WatchInv
  <1>2. UNCHANGED Pending
    BY DEF Pending
  <1>3. UNCHANGED <<events_, Registered, Watched, Pending>>
    BY <1>1, <1>2 DEF Registered
  <1> QED
    BY <1>3, Zenon DEF P!vars, Watched, Pending

(* EPollPoller and PollPoller, with EventLoop::removeChannel's assert, do    *)
(* what Poller promises: the kernel watches each channel for its interest,   *)
(* whatever was added, dropped, ignored, swapped and reused before, and what *)
(* is reported stays registered until its turn.                              *)
THEOREM PollersImplementPoller == Spec => ImplementsPoller
PROOF
  <1>1. Init => P!Init
    <2> SUFFICES ASSUME Init
                 PROVE  P!Init
      OBVIOUS
    <2>1. Inv
      BY InvInit
    <2>2. Watched = events_
      BY <2>1, WatchesInterest DEF WatchInv
    <2>3. /\ events_ = [c \in Channels |-> kNoneEvent] /\ channels_ = [f \in Fds |-> "NULL"]
          /\ pc = "functors"
      BY Zenon DEF Init
    <2>4. events_ = [c \in Channels |-> P!kNoneEvent]
      BY <2>3, SameInterest
    <2>5. Watched = [c \in Channels |-> {}]
      BY <2>2, <2>3 DEF kNoneEvent
    <2>6. Registered = {}
      BY <2>3, FdFacts, channelsAssumption DEF Registered
    <2>7. Pending = {}
      BY <2>3 DEF Pending
    <2> QED
      BY <2>4, <2>5, <2>6, <2>7, Zenon DEF P!Init, Watched, Pending
  <1>2. Inv /\ Inv' /\ [Next]_vars => [P!Next]_(P!vars)
    <2> SUFFICES ASSUME Inv, Inv', [Next]_vars
                 PROVE  P!Next \/ UNCHANGED P!vars
      BY Zenon
    <2>1. ASSUME NEW c \in Channels, open(c)
          PROVE  UNCHANGED P!vars
      <3>1. UNCHANGED <<events_, channels_, activeChannels_, turn>> /\ pc' = pc
        BY <2>1, Zenon DEF open, pollerVars
      <3> QED
        BY <3>1, RefinesOther
    <2>2. ASSUME NEW c \in Channels, update(c)
          PROVE  P!Next
      BY <2>2, RefinesUpdate, Zenon DEF P!Next
    <2>3. ASSUME NEW c \in Channels, remove(c)
          PROVE  P!Next \/ UNCHANGED P!vars
      BY <2>3, RefinesRemove, Zenon DEF P!Next
    <2>4. CASE poll
      BY <2>4, RefinesPoll, Zenon DEF P!Next
    <2>5. CASE handled
      BY <2>5, RefinesHandled, Zenon DEF P!Next
    <2>6. CASE functorsDone
      <3>1. /\ UNCHANGED <<events_, channels_, activeChannels_, turn>>
            /\ pc = "functors" /\ pc' = "poll"
        BY <2>6, Zenon DEF functorsDone, pollerVars
      <3>2. pc # "handler" /\ pc' # "handler"
        BY <3>1
      <3> QED
        BY <3>1, <3>2, RefinesOther
    <2>7. CASE UNCHANGED vars
      <3>1. UNCHANGED <<events_, channels_, activeChannels_, turn>> /\ pc' = pc
        BY <2>7, Zenon DEF vars, pollerVars
      <3> QED
        BY <3>1, RefinesOther
    <2> QED
      BY <2>1, <2>2, <2>3, <2>4, <2>5, <2>6, <2>7, Zenon DEF Next, Loop
  <1> QED
    BY <1>1, <1>2, Invariance, PTL DEF Spec, ImplementsPoller, P!Spec

================================================================================
