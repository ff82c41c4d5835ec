----------------------------- MODULE LiveStream -----------------------------
(***************************************************************************)
(* The server-sent events of the dashboard: connections that pass the gate, *)
(* subscribe to the bus of stored entries and keep a heartbeat, and the     *)
(* close of the socket that undoes both.                                   *)
(***************************************************************************)
EXTENDS Integers, Sequences, FiniteSets

CONSTANTS Connection,   \* connections, each opened once
          MaxPublished  \* bound: entries published

ASSUME LiveStreamAssumption == MaxPublished \in Nat

VARIABLES socket,     \* connection -> none, open or closed
          handler,    \* connection -> none, gate (awaited), streaming or refused
          subscribers,
          beating,    \* connections with a heartbeat timer
          onClose,    \* connections whose close handlers are registered
          streamed,   \* connection -> entries written to it
          joinedAt,   \* history: connection -> entries published before it subscribed
          late,       \* history: connections that were closed when they subscribed
          publishedCount

streamVars == <<socket, handler, subscribers, beating, onClose, streamed, joinedAt,
                late, publishedCount>>

StreamInit ==
  /\ socket = [c \in Connection |-> "none"] /\ handler = [c \in Connection |-> "none"]
  /\ subscribers = {} /\ beating = {} /\ onClose = {}
  /\ streamed = [c \in Connection |-> 0] /\ joinedAt = [c \in Connection |-> 0]
  /\ late = {} /\ publishedCount = 0

\* A request for the stream; the handler awaits the guard.
Connect(c) ==
  /\ socket[c] = "none"
  /\ socket' = [socket EXCEPT ![c] = "open"]
  /\ handler' = [handler EXCEPT ![c] = "gate"]
  /\ UNCHANGED <<subscribers, beating, onClose, streamed, joinedAt, late, publishedCount>>

GateRefuses(c) ==
  /\ handler[c] = "gate"
  /\ handler' = [handler EXCEPT ![c] = "refused"]
  /\ UNCHANGED <<socket, subscribers, beating, onClose, streamed, joinedAt, late, publishedCount>>

\* streamEntries(), in one turn: subscribe, arm the heartbeat, register for the close.
StreamEntries(c) ==
  /\ handler[c] = "gate"
  /\ handler' = [handler EXCEPT ![c] = "streaming"]
  /\ subscribers' = subscribers \cup {c}
  /\ beating' = beating \cup {c}
  /\ onClose' = onClose \cup {c}
  /\ joinedAt' = [joinedAt EXCEPT ![c] = publishedCount]
  /\ late' = IF socket[c] = "closed" THEN late \cup {c} ELSE late
  /\ UNCHANGED <<socket, streamed, publishedCount>>

\* publish(): every subscriber, one after the other, in one turn.
Publish1 ==
  /\ publishedCount < MaxPublished
  /\ publishedCount' = publishedCount + 1
  /\ streamed' = [c \in Connection |-> streamed[c] + IF c \in subscribers THEN 1 ELSE 0]
  /\ UNCHANGED <<socket, handler, subscribers, beating, onClose, joinedAt, late>>

\* Mutant: closing stops the entries and forgets the heartbeat.
CloseLeavingHeartbeat(c) ==
  /\ subscribers' = subscribers \ {c}
  /\ UNCHANGED beating

\* close(), once.
CloseSession(c) ==
  /\ subscribers' = subscribers \ {c}
  /\ beating' = beating \ {c}

\* The socket closes and runs the handlers that are registered by now.
Disconnect(c) ==
  /\ socket[c] = "open"
  /\ socket' = [socket EXCEPT ![c] = "closed"]
  /\ IF c \in onClose THEN CloseSession(c) ELSE UNCHANGED <<subscribers, beating>>
  /\ UNCHANGED <<handler, onClose, streamed, joinedAt, late, publishedCount>>

\* clear(), when the provider shuts down.
ClearBus ==
  /\ subscribers # {} /\ subscribers' = {}
  /\ UNCHANGED <<socket, handler, beating, onClose, streamed, joinedAt, late, publishedCount>>

StreamNext ==
  \/ \E c \in Connection :
       \/ Connect(c) \/ GateRefuses(c) \/ StreamEntries(c) \/ Disconnect(c)
  \/ Publish1 \/ ClearBus

-----------------------------------------------------------------------------
(* Properties                                                              *)

\* Heartbeats are those of open connections, and of the ones that had closed while their handler
\* awaited the guard: their close handler is registered after the event, so nothing ever stops
\* them, though streamEntries() "cleans up when the client disconnects" (stream_handler.ts).
\* Whoever is subscribed has a heartbeat and misses no entry.
StreamsAreCleaned ==
  /\ beating = {c \in Connection : handler[c] = "streaming" /\ (socket[c] = "open" \/ c \in late)}
  /\ \A c \in subscribers : /\ c \in beating
                            /\ streamed[c] = publishedCount - joinedAt[c]
=============================================================================
