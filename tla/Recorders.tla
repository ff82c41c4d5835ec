------------------------------ MODULE Recorders ------------------------------
(***************************************************************************)
(* What stands between the host and the store: the taps of the watchers,    *)
(* the channels of the diagnostics watcher, the builders of entries with    *)
(* sampling and export, the entry of a request, and what extensions and     *)
(* queue libraries contribute.  A behaviour exercises one of them           *)
(* (`subject`), the taps one surface at a time.                            *)
(***************************************************************************)
EXTENDS Taps, Channels, Entries, RequestEntries, Contributions

VARIABLE subject

Surfaces == {"log", "redis", "work"}

recorderVars == <<tapVars, channelVars, entryVars, requestVars, contributionVars>>

\* The parts that a behaviour does not exercise rest in one state.
Resting ==
  /\ subject \in Surfaces \/ TapsInit
  /\ subject = "channels" \/ (ChannelsInit /\ ~ registry)
  /\ subject = "entries" \/ (operation = Blank /\ entry = {} /\ fate = "none" /\ export = {})
  /\ subject = "requests" \/ (request = RequestWith(SomeShape, SomeBody, SomeSources, SomeStatus, <<>>)
                                /\ told = <<>>)
  /\ subject = "contributions" \/ (extensions = <<>> /\ registered = <<>> /\ answer = <<>>
                                     /\ service = [shape |-> "absent", has |-> {}])

RecordersInit ==
  /\ subject \in Surfaces \cup {"channels", "entries", "requests", "contributions"}
  /\ Resting
  /\ \/ subject \in Surfaces /\ TapsInit
     \/ subject = "channels" /\ ChannelsInit
     \/ subject = "entries" /\ EntriesInit
     \/ subject = "requests" /\ RequestInit
     \/ subject = "contributions" /\ ContributionsInit

Tapping ==
  /\ subject \in Surfaces /\ TapsNext(subject)
  /\ UNCHANGED <<subject, channelVars, entryVars, requestVars, contributionVars>>

Following ==
  /\ subject = "channels" /\ ChannelsNext
  /\ UNCHANGED <<subject, tapVars, entryVars, requestVars, contributionVars>>

Building ==
  /\ subject = "entries" /\ EntriesNext
  /\ UNCHANGED <<subject, tapVars, channelVars, requestVars, contributionVars>>

Telling ==
  /\ subject = "requests" /\ RecordRequest
  /\ UNCHANGED <<subject, tapVars, channelVars, entryVars, contributionVars>>

Contributing ==
  /\ subject = "contributions" /\ ContributionsNext
  /\ UNCHANGED <<subject, tapVars, channelVars, entryVars, requestVars>>

RecordersNext == Tapping \/ Following \/ Building \/ Telling \/ Contributing

RecordersSpec == RecordersInit /\ [][RecordersNext]_<<subject, recorderVars>>

\* For TLC: the tee of the core provider takes every level, that of the watchers provider not
\* the lowest.
Levels == [a \in App |-> IF a = "own" THEN 1 ELSE 0]

-----------------------------------------------------------------------------
(* Properties                                                              *)

\* A watcher that stopped is gone from the host: methods, listeners, subscriptions and the
\* default slot (the stop() of each watcher).
TapsAreUndone ==
  /\ subject \in Surfaces => NothingIsLeft
  /\ subject = "channels" => ChannelsAreLeft

\* What the host does is recorded once by a tap, a cache event twice, and every event of a
\* followed channel that no one claims is recorded (the marks of the taps, DiagnosticsWatcher).
RecordedOnce ==
  /\ subject \in Surfaces => OncePerOperation
  /\ subject = "channels" => EveryChannelIsFollowed

\* Stopping one set of watchers takes nothing from another, where no third party wrapped over a
\* tap (HttpClientWatcher.stop, LogsWatcher.stop, RedisWatcher.stop).
StopsOnlyItself == [][\A a \in App : TakesOnlyItsOwn(a)]_tapVars

\* What is kept and exported says what happened: slow work survives sampling, and failures but
\* those of requests and exceptions; spans are of their own time, and bodies and tags of requests
\* keep their bounds (sampling.ts, mapper.ts, request_watcher.ts).
EntriesAreTrue ==
  /\ subject = "entries" => FailuresAreKept /\ ExportsAgree
  /\ subject = "requests" => RequestsAreBounded

\* What is contributed has one owner and what is offered works (ExtensionRegistry,
\* QueueManagerDriver).
ContributionsHold == subject = "contributions" => ContributionsAreOwned /\ OfferedIsSupported
=============================================================================
