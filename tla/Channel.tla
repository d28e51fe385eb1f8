-------------------------------- MODULE Channel --------------------------------
(***************************************************************************)
(* A Channel's interest set events_, the calls that change it, and the      *)
(* callbacks that handleEvent() makes of the conditions a poller reports.   *)
(***************************************************************************)
EXTENDS Sequences

kReadEvent == "read"     \* EPOLLIN | EPOLLPRI
kWriteEvent == "write"   \* EPOLLOUT
Events == {kReadEvent, kWriteEvent}
kNoneEvent == {}

(* The calls that end in update(). *)
Updates == {"enableReading", "disableReading", "enableWriting",
            "disableWriting", "disableAll"}

(* What each of them leaves of the interest set. *)
Interest(call, events) ==
  CASE call = "enableReading"  -> events \cup {kReadEvent}
    [] call = "disableReading" -> events \ {kReadEvent}
    [] call = "enableWriting"  -> events \cup {kWriteEvent}
    [] call = "disableWriting" -> events \ {kWriteEvent}
    [] call = "disableAll"     -> kNoneEvent

isNoneEvent(events) == events = kNoneEvent
isWriting(events) == kWriteEvent \in events
isReading(events) == kReadEvent \in events

(* What the kernel can report; HUP and ERR need no interest. *)
Conditions == {"IN", "OUT", "HUP", "ERR"}

(* The callbacks of handleEvent(), in the order of its tests. *)
handleEvent(revents) ==
  (IF "HUP" \in revents /\ "IN" \notin revents THEN <<"close">> ELSE <<>>)
  \o (IF "ERR" \in revents THEN <<"error">> ELSE <<>>)
  \o (IF "IN" \in revents THEN <<"read">> ELSE <<>>)
  \o (IF "OUT" \in revents THEN <<"write">> ELSE <<>>)

================================================================================
