------------------------------- MODULE PollPoller -------------------------------
(***************************************************************************)
(* PollPoller: the array pollfds_ handed to ::poll(), the map channels_ and *)
(* the index by which a Channel finds its place in the array.  Removing a   *)
(* Channel moves the last place into the gap.                               *)
(***************************************************************************)
EXTENDS Channel, Integers, SequencesExt

CONSTANTS Channels,
          fd         \* Channel::fd(), of each channel

VARIABLES
  events_,   \* Channel::events_
  index_,    \* Channel::index_; never reset by removeChannel()
  channels_, \* Poller::channels_, from descriptors to channels
  pollfds_   \* sequence of [fd, events]; a negative fd is ignored by ::poll()

Fds == {fd[c] : c \in Channels}
Pollfd == [fd : Fds \cup {-f - 1 : f \in Fds}, events : SUBSET Events]

TypeOK ==
  /\ index_ \in [Channels -> -1 .. Cardinality(Fds) - 1]
  /\ pollfds_ \in Seq(Pollfd)

Init == pollfds_ = <<>>

--------------------------------------------------------------------------------
(* Places of the array are counted from 0 in the code. *)
At(idx) == idx + 1

(* How a place of the array is told to ignore its descriptor, and back. *)
ignored(f) == -f - 1

(* Mutant: the index of a new place is one too large. *)
Mutant_updateChannel(c, events) ==
  \/ /\ index_[c] < 0
     /\ pollfds_' = Append(pollfds_, [fd |-> fd[c], events |-> events])
     /\ index_' = [index_ EXCEPT ![c] = Len(pollfds_) + 1]
     /\ channels_' = [channels_ EXCEPT ![fd[c]] = c]
  \/ /\ index_[c] >= 0
     /\ UNCHANGED <<pollfds_, index_, channels_>>

(* updateChannel(), with the channel's new interest *)
updateChannel(c, events) ==
  \/ /\ index_[c] < 0
     /\ pollfds_' = Append(pollfds_, [fd |-> fd[c], events |-> events])
     /\ index_' = [index_ EXCEPT ![c] = Len(pollfds_)]
     /\ channels_' = [channels_ EXCEPT ![fd[c]] = c]
  \/ /\ index_[c] >= 0
     /\ pollfds_' = [pollfds_ EXCEPT ![At(index_[c])] =
          [fd |-> IF isNoneEvent(events) THEN ignored(fd[c]) ELSE fd[c],
           events |-> events]]
     /\ UNCHANGED <<index_, channels_>>

(* Mutant: the channel whose place moved is not told. *)
Mutant_movedTo(f, idx) == index_

(* channels_[channelAtEnd]->set_index(idx), channelAtEnd being the           *)
(* descriptor of the last place, ignored or not                              *)
movedTo(f, idx) ==
  LET channelAtEnd == IF f < 0 THEN ignored(f) ELSE f
  IN  [index_ EXCEPT ![channels_[channelAtEnd]] = idx]

(* removeChannel(): the last place fills the gap. *)
removeChannel(c) ==
  /\ channels_' = [channels_ EXCEPT ![fd[c]] = "NULL"]
  /\ IF index_[c] = Len(pollfds_) - 1
     THEN /\ pollfds_' = Front(pollfds_)
          /\ UNCHANGED index_
     ELSE /\ index_' = movedTo(Last(pollfds_).fd, index_[c])
          /\ pollfds_' = Front([pollfds_ EXCEPT ![At(index_[c])] = Last(pollfds_)])

--------------------------------------------------------------------------------
(* A set of places as a sequence, in the order of the array. *)
inOrder(places) ==
  {s \in [1 .. Cardinality(places) -> places] : \A i, j \in DOMAIN s : i < j => s[i] < s[j]}

(* fillActiveChannels(), from the places with revents.  find() of a          *)
(* descriptor that channels_ lacks is undefined ("NULL").                    *)
fillActiveChannels(hits) == [i \in DOMAIN hits |-> channels_[pollfds_[hits[i]].fd]]

(* poll(): any of the places that are not ignored have revents; one that is  *)
(* watched for nothing may have hung up.  With no event, on a timeout or an  *)
(* error, nothing is active.                                                 *)
poll(active) ==
  /\ \E withRevents \in SUBSET {i \in DOMAIN pollfds_ : pollfds_[i].fd >= 0} :
     \E hits \in inOrder(withRevents) : active = fillActiveChannels(hits)
  /\ UNCHANGED <<events_, index_, channels_, pollfds_>>

(* what ::poll() watches a channel for *)
watched(c) ==
  UNION {pollfds_[i].events : i \in {j \in DOMAIN pollfds_ :
           channels_[fd[c]] = c /\ pollfds_[j].fd = fd[c]}}

================================================================================
