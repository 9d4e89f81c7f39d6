------------------------------ MODULE EventFeed ------------------------------
(***************************************************************************)
(* The feed of the events of the game's client (lcu_ws): a thread reads    *)
(* them from a WebSocket into a buffer the panel shows. A feed the user    *)
(* has closed may still be reading when the next is opened.                *)
(***************************************************************************)
EXTENDS Integers, Sequences

CONSTANTS
  MaxFeeds,     \* feeds opened
  MaxEvents,    \* MAX_EVENTS
  MaxFrames     \* events the client sends

Feeds == 1..MaxFeeds

ASSUME FeedConstants == MaxFeeds \in Nat /\ MaxEvents \in Nat /\ MaxFrames \in Nat

VARIABLES
  feed,         \* App.lcu_ws: the feed shown, or 0
  opened,
  reader,       \* the thread of each: "none", "connecting", "reading", "ended"
  halt,         \* its stop flag
  says,         \* its status
  buffer,       \* its events
  cleared,      \* the last event there was when the user cleared it
  frame         \* events the client has sent

efVars == <<feed, opened, reader, halt, says, buffer, cleared, frame>>

Reader(w, to) == reader' = [reader EXCEPT ![w] = to]
Says(w, what) == says' = [says EXCEPT ![w] = what]

OpenFeed ==
  /\ feed = 0 /\ opened < MaxFeeds
  /\ opened' = opened + 1 /\ feed' = opened'
  /\ Reader(opened', "connecting") /\ Says(opened', "connecting")
  /\ UNCHANGED <<halt, buffer, cleared, frame>>

\* Dropping the handle only sets the flag.
CloseFeed ==
  /\ feed # 0
  /\ halt' = [halt EXCEPT ![feed] = TRUE] /\ feed' = 0
  /\ UNCHANGED <<opened, reader, says, buffer, cleared, frame>>

ClearFeed ==
  /\ feed # 0
  /\ buffer' = [buffer EXCEPT ![feed] = <<>>]
  /\ cleared' = [cleared EXCEPT ![feed] = frame]
  /\ UNCHANGED <<feed, opened, reader, halt, says, frame>>

\* The connection and the subscription succeed, or one of them fails.
ConnectFeed(w) ==
  /\ reader[w] = "connecting"
  /\ \/ Reader(w, "reading") /\ Says(w, "connected")
     \/ Reader(w, "ended") /\ Says(w, "error")
  /\ UNCHANGED <<feed, opened, halt, buffer, cleared, frame>>

\* The flag is read at least every 250 ms, whether or not events come.
SeesHalt(w) ==
  /\ reader[w] = "reading" /\ halt[w]
  /\ Reader(w, "ended") /\ Says(w, "disconnected")
  /\ UNCHANGED <<feed, opened, halt, buffer, cleared, frame>>

\* The client closes the stream, or a read fails.
StreamEnds(w) ==
  /\ reader[w] = "reading"
  /\ Reader(w, "ended")
  /\ Says(w, "disconnected") \/ Says(w, "error")
  /\ UNCHANGED <<feed, opened, halt, buffer, cleared, frame>>

\* A plausible bug: one event more than the limit is kept.
KeepOneMore(events) ==
  IF Len(events) > MaxEvents + 1 THEN SubSeq(events, 2, Len(events)) ELSE events

\* The events beyond the limit go, the oldest first.
Keep(events) ==
  SubSeq(events, 1 + (IF Len(events) > MaxEvents THEN Len(events) - MaxEvents ELSE 0), Len(events))

\* The flag may have been set since it was read.
ReadEvent(w) ==
  /\ reader[w] = "reading" /\ frame < MaxFrames
  /\ frame' = frame + 1
  /\ buffer' = [buffer EXCEPT ![w] = Keep(Append(@, frame'))]
  /\ UNCHANGED <<feed, opened, reader, halt, says, cleared>>

\* Cutting the data of an event inside a character ends the thread and leaves the
\* status as it was.
ReadPanics(w) ==
  /\ reader[w] = "reading" /\ frame < MaxFrames
  /\ frame' = frame + 1
  /\ Reader(w, "ended")
  /\ UNCHANGED <<feed, opened, halt, says, buffer, cleared>>

EfInit ==
  /\ feed = 0 /\ opened = 0 /\ frame = 0
  /\ reader = [w \in Feeds |-> "none"] /\ says = [w \in Feeds |-> "none"]
  /\ halt = [w \in Feeds |-> FALSE] /\ buffer = [w \in Feeds |-> <<>>]
  /\ cleared = [w \in Feeds |-> 0]

EfNext ==
  \/ OpenFeed \/ CloseFeed \/ ClearFeed
  \/ \E w \in Feeds : ConnectFeed(w) \/ SeesHalt(w) \/ StreamEnds(w) \/ ReadEvent(w) \/ ReadPanics(w)

-----------------------------------------------------------------------------
(* Properties.                                                             *)

EfTypeOK ==
  /\ feed \in 0..MaxFeeds /\ opened \in 0..MaxFeeds /\ frame \in 0..MaxFrames
  /\ \A w \in Feeds :
       /\ reader[w] \in {"none", "connecting", "reading", "ended"}
       /\ says[w] \in {"none", "connecting", "connected", "disconnected", "error"}
       /\ halt[w] \in BOOLEAN /\ cleared[w] \in 0..MaxFrames
       /\ Len(buffer[w]) <= MaxEvents
       /\ \A j \in DOMAIN buffer[w] : buffer[w][j] \in cleared[w] + 1..frame

\* A feed that is connected and dropped ends, though the client may be silent.
\* (The flag is never taken back.)
DroppedFeedEnds == []<>(\A w \in Feeds : halt[w] => reader[w] # "reading")
=============================================================================
