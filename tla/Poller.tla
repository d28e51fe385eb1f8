--------------------------------- MODULE Poller ---------------------------------
(***************************************************************************)
(* What a loop's Poller promises to the Channels, whatever the system call  *)
(* behind it: the kernel watches each registered channel for exactly the    *)
(* events it asks for, a poll reports registered channels only, and a       *)
(* channel that was reported is registered until its turn comes.            *)
(***************************************************************************)
EXTENDS Channel

CONSTANTS Channels

VARIABLES events_,      \* Channel::events_
          registered,   \* hasChannel()
          watched,      \* what ::poll() or ::epoll_wait() would report
          reported      \* active channels whose turn is still to come

vars == <<events_, registered, watched, reported>>

Init == /\ events_ = [c \in Channels |-> kNoneEvent]
        /\ registered = {}
        /\ watched = [c \in Channels |-> {}]
        /\ reported = {}

(* updateChannel(), from any call of the channel that changes its interest *)
update(c) ==
  \E call \in Updates :
    /\ events_' = [events_ EXCEPT ![c] = Interest(call, @)]
    /\ registered' = registered \cup {c}
    /\ watched' = [watched EXCEPT ![c] = Interest(call, events_[c])]
    /\ UNCHANGED reported

(* removeChannel() of a channel that has given up its interest *)
remove(c) == /\ c \in registered \ reported
             /\ isNoneEvent(events_[c])
             /\ registered' = registered \ {c}
             /\ UNCHANGED <<events_, watched, reported>>

(* poll(), and the first of the channels it reports gets its turn *)
poll == /\ reported = {}
        /\ reported' \in SUBSET registered
        /\ UNCHANGED <<events_, registered, watched>>

(* the turn of a reported channel *)
turn(c) == /\ c \in reported
           /\ reported' = reported \ {c}
           /\ UNCHANGED <<events_, registered, watched>>

Next == \/ poll
        \/ \E c \in Channels : update(c) \/ remove(c) \/ turn(c)

Spec == Init /\ [][Next]_vars
================================================================================
