------------------------------ MODULE Channels ------------------------------
(***************************************************************************)
(* The diagnostics watcher: the process-wide registry of channels that the *)
(* libraries announce, the listener that follows it, one subscription per   *)
(* channel, and the claims by which a library takes an event for a watcher  *)
(* of its own.                                                             *)
(***************************************************************************)
EXTENDS Integers, FiniteSets

CONSTANTS Channel,  \* agora:<lib>:<event>
          Excluded, \* diagnostics.exclude
          RecordClaimed

ASSUME ChannelsAssumption == Excluded \subseteq Channel /\ RecordClaimed \in BOOLEAN

VARIABLES registry,   \* @agora/diagnostics is loaded
          announced,  \* registry.channels
          claims,     \* channel -> active claims
          started, listening, subscriptions,
          deaf,       \* history: started when there was no registry
          heardAt     \* the last event: its channel and the entries it left

channelVars == <<registry, announced, claims, started, listening, subscriptions, deaf, heardAt>>

ChannelsInit ==
  /\ registry \in BOOLEAN /\ announced = {} /\ claims = [c \in Channel |-> 0]
  /\ started = FALSE /\ listening = FALSE /\ subscriptions = {} /\ deaf = FALSE
  /\ heardAt = <<>>

LoadsRegistry ==
  /\ ~ registry /\ registry' = TRUE /\ heardAt' = <<>>
  /\ UNCHANGED <<announced, claims, started, listening, subscriptions, deaf>>

\* start(): without a registry it counts as started, and follows nothing.
StartChannels ==
  /\ ~ started /\ started' = TRUE
  /\ deaf' = ~ registry
  /\ listening' = registry
  /\ subscriptions' = IF registry THEN announced ELSE {}
  /\ heardAt' = <<>> /\ UNCHANGED <<registry, announced, claims>>

StopChannels ==
  /\ started /\ started' = FALSE
  /\ listening' = FALSE /\ subscriptions' = {} /\ deaf' = FALSE
  /\ heardAt' = <<>> /\ UNCHANGED <<registry, announced, claims>>

\* Mutant: a channel that is claimed when it appears is not followed.
AnnouncesUnclaimed(c) ==
  /\ registry /\ c \notin announced
  /\ announced' = announced \cup {c}
  /\ subscriptions' = IF listening /\ claims[c] = 0 THEN subscriptions \cup {c} ELSE subscriptions
  /\ heardAt' = <<>> /\ UNCHANGED <<registry, claims, started, listening, deaf>>

\* The first emit of a library: the registry tells its listeners, then the event is published.
Announces(c) ==
  /\ registry /\ c \notin announced
  /\ announced' = announced \cup {c}
  /\ subscriptions' = IF listening THEN subscriptions \cup {c} ELSE subscriptions
  /\ heardAt' = <<>> /\ UNCHANGED <<registry, claims, started, listening, deaf>>

\* claimDiagnostics() and its release; a key is in the map while its count is above zero.
Claims(c) ==
  /\ claims[c] < 2 /\ claims' = [claims EXCEPT ![c] = @ + 1] /\ heardAt' = <<>>
  /\ UNCHANGED <<registry, announced, started, listening, subscriptions, deaf>>

Releases(c) ==
  /\ claims[c] > 0 /\ claims' = [claims EXCEPT ![c] = @ - 1] /\ heardAt' = <<>>
  /\ UNCHANGED <<registry, announced, started, listening, subscriptions, deaf>>

\* safeRecord(): not an event, excluded, claimed now, or recorded.
Kept(c, wellFormed) ==
  /\ wellFormed
  /\ c \notin Excluded
  /\ RecordClaimed \/ claims[c] = 0

Emits(c, wellFormed) ==
  /\ c \in announced
  /\ heardAt' = <<c, wellFormed, c \in subscriptions /\ Kept(c, wellFormed)>>
  /\ UNCHANGED <<registry, announced, claims, started, listening, subscriptions, deaf>>

ChannelsNext ==
  \/ LoadsRegistry \/ StartChannels \/ StopChannels
  \/ \E c \in Channel : \/ Announces(c) \/ Claims(c) \/ Releases(c)
                        \/ \E wellFormed \in BOOLEAN : Emits(c, wellFormed)

-----------------------------------------------------------------------------
(* Properties                                                              *)

\* A started watcher that found the registry follows every channel there is, announced before
\* or after it started, and an event it follows is recorded when no claim is active at that
\* moment, whatever was claimed before (DiagnosticsWatcher.start, isDiagnosticClaimed).
EveryChannelIsFollowed ==
  /\ started /\ ~ deaf => subscriptions = announced
  /\ heardAt # <<>> /\ started /\ ~ deaf /\ heardAt[2]
       /\ heardAt[1] \notin Excluded /\ (RecordClaimed \/ claims[heardAt[1]] = 0) => heardAt[3]

\* A stopped watcher leaves neither a subscription nor a listener.
ChannelsAreLeft == ~ started => subscriptions = {} /\ ~ listening
=============================================================================
