-------------------------------- MODULE Taps --------------------------------
(***************************************************************************)
(* What the watchers put into the host and take out again.  Two sets of     *)
(* watchers share one application (the two providers, or two copies of the  *)
(* package): both listen to its emitter, tee its logger, patch its redis    *)
(* client and compete for the process-wide default slot, while a third      *)
(* party wraps the same methods.  A wrapped method is the sequence of its   *)
(* wrappers, innermost first: a closure over the method below is the        *)
(* sequence that ends just under it.                                        *)
(***************************************************************************)
EXTENDS Integers, Sequences, FiniteSets, SequencesExt

CONSTANTS App,       \* the sets of watchers
          MaxLayers, \* bound: wrappers on one method
          MinLevel,  \* minLevel of each tee, as an index
          FloodAt    \* floodWarnPerMinute, 0: never

ASSUME TapsAssumption ==
  /\ "other" \notin App /\ "none" \notin App /\ IsFiniteSet(App)
  /\ MinLevel \in [App -> Nat] /\ FloodAt \in Nat

VARIABLES boot,     \* set -> off, logger, redis, queue, up, idle or down
          heard,    \* <<set, source>>: a listener of that set on that source
          log,      \* wrappers of the logger's level methods
          teed,     \* sets whose this.logger is set
          client,   \* there is a redis connection
          sender,   \* wrappers of its sendCommand
          saved,    \* __telescopeOriginalSendCommand__, <<>> when undefined; PATCHED with it
          wrapped,  \* sets that have the client in `wrapped`
          armed,    \* sets subscribed to the manager's connections, in order
          slot,     \* the default watcher
          manager,  \* runtime.queueManager
          kept,     \* surface -> <<>>, or <<what the third party wrapped>>
          meddled,  \* history: a third party wrapped over a tap
          flight,   \* wrappers a pending command went through, <<>> when none pends
          flood,    \* set -> count of the window, the minute is over, warned
          work,     \* a profile session: the set it is of, settled, entries recorded
          rec       \* what the last operation of the host recorded

tapVars == <<boot, heard, log, teed, client, sender, saved, wrapped, armed, slot, manager,
             kept, meddled, flight, flood, work, rec>>

NoWork == [by |-> "none", settled |-> FALSE, n |-> 0]
Nothing == [of |-> "none", n |-> 0]

TapsInit ==
  /\ boot = [a \in App |-> "off"]
  /\ heard = {} /\ log = <<>> /\ teed = {}
  /\ client = FALSE /\ sender = <<>> /\ saved = <<>> /\ wrapped = {} /\ armed = <<>>
  /\ slot = "none" /\ manager = "none"
  /\ kept = [s \in {"log", "redis"} |-> <<>>] /\ meddled = FALSE
  /\ flight = <<>>
  /\ flood = [a \in App |-> [count |-> 0, over |-> FALSE, warned |-> FALSE]]
  /\ work = NoWork /\ rec = Nothing

Teed(layers) == \E i \in DOMAIN layers : layers[i] \in App
OnTop(layers) == layers # <<>> /\ layers[Len(layers)] \in App
Below(layers) == SubSeq(layers, 1, Len(layers) - 1)

-----------------------------------------------------------------------------
(* Boot: three awaits, other tasks run in between                          *)

\* The emitter is missing, or the configuration disables the provider: nothing starts.
BootIdle(a) ==
  /\ boot[a] \in {"off", "down"} /\ boot' = [boot EXCEPT ![a] = "idle"] /\ rec' = Nothing
  /\ UNCHANGED <<heard, log, teed, client, sender, saved, wrapped, armed, slot, manager,
                 kept, meddled, flight, flood, work>>

\* Query, mail and cache watchers listen; the logger is awaited.
BootBegins(a) ==
  /\ boot[a] \in {"off", "down"} /\ boot' = [boot EXCEPT ![a] = "logger"]
  /\ heard' = heard \cup {<<a, s>> : s \in {"query", "mail", "cache"}}
  /\ rec' = Nothing
  /\ UNCHANGED <<log, teed, client, sender, saved, wrapped, armed, slot, manager,
                 kept, meddled, flight, flood, work>>

\* Mutant: the mark of a tee is not looked at.
TeeAgain(a) == IF a \in teed THEN UNCHANGED <<log, teed>>
               ELSE log' = Append(log, a) /\ teed' = teed \cup {a}

\* LogsWatcher.start: a method that carries the mark of a tee is left alone.
Tee(a) ==
  IF a \in teed \/ OnTop(log) THEN UNCHANGED <<log, teed>>
  ELSE log' = Append(log, a) /\ teed' = teed \cup {a}

\* The logger is there or not; the queue and event watchers listen; redis is awaited.
BootLogger(a) ==
  /\ boot[a] = "logger" /\ boot' = [boot EXCEPT ![a] = "redis"]
  /\ Len(log) < MaxLayers
  /\ Tee(a) \/ UNCHANGED <<log, teed>>
  /\ heard' = heard \cup {<<a, "jobs">>, <<a, "any">>}
  /\ rec' = Nothing
  /\ UNCHANGED <<client, sender, saved, wrapped, armed, slot, manager,
                 kept, meddled, flight, flood, work>>

\* RedisWatcher.wrap.
Wrap(a) ==
  IF saved # <<>> THEN UNCHANGED <<sender, saved, wrapped>>
  ELSE /\ saved' = <<sender>> /\ sender' = Append(sender, a)
       /\ wrapped' = wrapped \cup {a}

\* RedisWatcher.start on a manager, then the profiling and schedule watchers; or there is no
\* redis.  The queue service is awaited.
BootRedis(a) ==
  /\ boot[a] = "redis" /\ boot' = [boot EXCEPT ![a] = "queue"]
  /\ Len(sender) < MaxLayers
  /\ \/ /\ armed' = Append(armed, a)
        /\ IF client THEN Wrap(a) ELSE UNCHANGED <<sender, saved, wrapped>>
     \/ UNCHANGED <<armed, sender, saved, wrapped>>
  /\ slot' = a /\ rec' = Nothing
  /\ UNCHANGED <<heard, log, teed, client, manager, kept, meddled, flight, flood, work>>

BootQueue(a) ==
  /\ boot[a] = "queue" /\ boot' = [boot EXCEPT ![a] = "up"]
  /\ manager' = a /\ rec' = Nothing
  /\ UNCHANGED <<heard, log, teed, client, sender, saved, wrapped, armed, slot,
                 kept, meddled, flight, flood, work>>

-----------------------------------------------------------------------------
(* Shutdown                                                                *)

\* LogsWatcher.stop: a set that holds no tap restores nothing; one that does takes off what is
\* on top, if it is a tee.
Untee(a) ==
  /\ teed' = teed \ {a}
  /\ log' = IF a \in teed /\ OnTop(log) THEN Below(log) ELSE log

\* The manager forgets the listener of a set.
Disarm(a) == armed' = IF \E i \in DOMAIN armed : armed[i] = a
                      THEN RemoveAt(armed, CHOOSE i \in DOMAIN armed : armed[i] = a) ELSE armed

\* Mutant: the manager is left, the clients keep the patch.
LeaveManager(a) == /\ Disarm(a) /\ wrapped' = wrapped \ {a}
                   /\ UNCHANGED <<sender, saved>>

\* RedisWatcher.stop: the original comes back, over whatever wrapped the patch.
Unwrap(a) ==
  /\ wrapped' = wrapped \ {a} /\ Disarm(a)
  /\ IF a \in wrapped /\ saved # <<>>
     THEN sender' = saved[1] /\ saved' = <<>>
     ELSE UNCHANGED <<sender, saved>>

\* Mutant: the slot is cleared whoever holds it.
EmptySlot(a) == slot' = "none"

\* A watcher clears the slot only when it holds it.
LeaveSlot(a) == slot' = IF slot = a THEN "none" ELSE slot

\* Every watcher that started stops, and the queue manager is cleared whoever set it.
Shutdown(a) ==
  /\ boot[a] \in {"up", "idle"} /\ boot' = [boot EXCEPT ![a] = "down"]
  /\ heard' = {h \in heard : h[1] # a}
  /\ Untee(a) /\ Unwrap(a) /\ LeaveSlot(a)
  /\ manager' = "none" /\ rec' = Nothing
  /\ flood' = [flood EXCEPT ![a] = [count |-> 0, over |-> FALSE, warned |-> FALSE]]
  /\ UNCHANGED <<client, kept, meddled, flight, work>>

-----------------------------------------------------------------------------
(* The host                                                                *)

\* A connection: the manager tells its listeners in the order they subscribed.
RedisConnects ==
  /\ ~ client /\ client' = TRUE
  /\ IF armed # <<>> THEN Wrap(Head(armed)) ELSE UNCHANGED <<sender, saved, wrapped>>
  /\ rec' = Nothing
  /\ UNCHANGED <<boot, heard, log, teed, armed, slot, manager, kept, meddled, flight,
                 flood, work>>

Layers(s) == IF s = "log" THEN log ELSE sender

\* Something else wraps the method too, and later puts back what it found.
OtherWraps(s) ==
  /\ kept[s] = <<>> /\ Len(Layers(s)) < MaxLayers /\ (s = "redis" => client)
  /\ kept' = [kept EXCEPT ![s] = <<Layers(s)>>]
  /\ meddled' = (meddled \/ Teed(Layers(s)))
  /\ IF s = "log" THEN log' = Append(log, "other") /\ UNCHANGED sender
     ELSE sender' = Append(sender, "other") /\ UNCHANGED log
  /\ rec' = Nothing
  /\ UNCHANGED <<boot, heard, teed, client, saved, wrapped, armed, slot, manager, flight,
                 flood, work>>

OtherUnwraps(s) ==
  /\ kept[s] # <<>>
  /\ kept' = [kept EXCEPT ![s] = <<>>]
  /\ meddled' = (meddled \/ Teed(Layers(s)))
  /\ IF s = "log" THEN log' = kept[s][1] /\ UNCHANGED sender
     ELSE sender' = kept[s][1] /\ UNCHANGED log
  /\ rec' = Nothing
  /\ UNCHANGED <<boot, heard, teed, client, saved, wrapped, armed, slot, manager, flight,
                 flood, work>>

Recorders(layers) == {i \in DOMAIN layers : layers[i] \in App}

\* A line of the logger: each tee calls what is below before it raises the flag, so a tee
\* below records as well.  A level the logger drops is dropped here too.
LogLine(level, enabled) ==
  /\ rec' = [of |-> "line",
             n |-> Cardinality({i \in Recorders(log) : enabled /\ level >= MinLevel[log[i]]})]
  /\ UNCHANGED <<boot, heard, log, teed, client, sender, saved, wrapped, armed, slot,
                 manager, kept, meddled, flight, flood, work>>

\* accountForFlood: a minute that is over starts a window; one warning for the process.
Counted(f) ==
  IF FloodAt = 0 \/ f.warned THEN f
  ELSE LET n == (IF f.over THEN 0 ELSE f.count) + 1
       IN [count |-> n, over |-> FALSE, warned |-> n >= FloodAt]

\* Entries of a command that went through these wrappers, and the windows they count in.
CommandRecorded(layers) ==
  LET by == {layers[i] : i \in Recorders(layers)}
  IN /\ rec' = [of |-> "command", n |-> Cardinality(Recorders(layers))]
     /\ flood' = [a \in App |-> IF a \in by THEN Counted(flood[a]) ELSE flood[a]]

\* A command: ignored (connection, command name, key or the draw), answered at once, or
\* pending, to be recorded by the wrappers it passed when it settles.
Command(ends) ==
  /\ client /\ flight = <<>>
  /\ CASE ends = "ignored" -> rec' = [of |-> "command", n |-> 0] /\ UNCHANGED <<flood, flight>>
       [] ends = "at once" -> CommandRecorded(sender) /\ UNCHANGED flight
       [] ends = "pending" -> flight' = sender /\ rec' = Nothing /\ UNCHANGED flood
  /\ UNCHANGED <<boot, heard, log, teed, client, sender, saved, wrapped, armed, slot,
                 manager, kept, meddled, work>>

CommandSettles ==
  /\ flight # <<>> /\ flight' = <<>>
  /\ CommandRecorded(flight)
  /\ UNCHANGED <<boot, heard, log, teed, client, sender, saved, wrapped, armed, slot,
                 manager, kept, meddled, work>>

MinutePasses(a) ==
  /\ flood[a].count > 0 /\ ~ flood[a].over /\ ~ flood[a].warned
  /\ flood' = [flood EXCEPT ![a].over = TRUE]
  /\ rec' = Nothing
  /\ UNCHANGED <<boot, heard, log, teed, client, sender, saved, wrapped, armed, slot,
                 manager, kept, meddled, flight, work>>

\* startProfile(): a session of the watcher in the slot, or one that does nothing.
WorkBegins ==
  /\ work = NoWork /\ slot # "none"
  /\ work' = [NoWork EXCEPT !.by = slot] /\ rec' = Nothing
  /\ UNCHANGED <<boot, heard, log, teed, client, sender, saved, wrapped, armed, slot,
                 manager, kept, meddled, flight, flood>>

\* Mutant: a settled session settles again.
WorkSettlesAgain(quick) ==
  /\ work # NoWork
  /\ work' = [work EXCEPT !.settled = TRUE, !.n = (@ + IF quick THEN 0 ELSE 1) % 3]
  /\ rec' = [of |-> "work", n |-> work'.n]
  /\ UNCHANGED <<boot, heard, log, teed, client, sender, saved, wrapped, armed, slot,
                 manager, kept, meddled, flight, flood>>

\* end() or fail(), by the caller and again by the wrapper: the first settles, and records
\* unless it was too quick (minDurationMs).
WorkSettles(quick) ==
  /\ work # NoWork
  /\ work' = IF work.settled THEN work
             ELSE [work EXCEPT !.settled = TRUE, !.n = @ + IF quick THEN 0 ELSE 1]
  /\ rec' = [of |-> "work", n |-> work'.n]
  /\ UNCHANGED <<boot, heard, log, teed, client, sender, saved, wrapped, armed, slot,
                 manager, kept, meddled, flight, flood>>

WorkForgotten ==
  /\ work.settled /\ work' = NoWork /\ rec' = Nothing
  /\ UNCHANGED <<boot, heard, log, teed, client, sender, saved, wrapped, armed, slot,
                 manager, kept, meddled, flight, flood>>

Hearing(source) == Cardinality({a \in App : <<a, source>> \in heard})

Recorded(kind, n) ==
  /\ rec' = [of |-> kind, n |-> n]
  /\ UNCHANGED <<boot, heard, log, teed, client, sender, saved, wrapped, armed, slot,
                 manager, kept, meddled, flight, flood, work>>

\* db:query: not the shape of one, of an ignored connection, or an entry.  The event watcher
\* leaves db:query and mail:sent to the watchers of their own.
QueryRan(ignored) == Recorded("query", IF ignored THEN 0 ELSE Hearing("query"))
MailSent == Recorded("mail", Hearing("mail"))

\* A cache event is an entry of the cache watcher and one of the event watcher.
CacheUsed == Recorded("cache", Hearing("cache") + Hearing("any"))
AnyEvent == Recorded("event", Hearing("any"))

\* A job ended: published on the channel of the process.
JobEnded == Recorded("job", Hearing("jobs"))

LogTraffic ==
  \/ OtherWraps("log") \/ OtherUnwraps("log")
  \/ \E level \in 0..2, enabled \in BOOLEAN : LogLine(level, enabled)

RedisTraffic ==
  \/ RedisConnects \/ OtherWraps("redis") \/ OtherUnwraps("redis")
  \/ \E ends \in {"ignored", "at once", "pending"} : Command(ends)
  \/ CommandSettles \/ \E a \in App : MinutePasses(a)

Work ==
  \/ WorkBegins \/ (\E quick \in BOOLEAN : WorkSettles(quick)) \/ WorkForgotten
  \/ (\E ignored \in BOOLEAN : QueryRan(ignored)) \/ MailSent \/ CacheUsed \/ AnyEvent \/ JobEnded

Providers ==
  \E a \in App : BootIdle(a) \/ BootBegins(a) \/ BootLogger(a) \/ BootRedis(a)
                \/ BootQueue(a) \/ Shutdown(a)

\* The host uses one surface in a behaviour; the providers always act on all of them.
TapsNext(surface) ==
  \/ Providers
  \/ surface = "log" /\ LogTraffic
  \/ surface = "redis" /\ RedisTraffic
  \/ surface = "work" /\ Work

-----------------------------------------------------------------------------
(* Properties                                                              *)

\* When no set of watchers is up, the host has back every listener, slot and method it lent,
\* unless a third party wrapped a method over the tap (LogsWatcher.stop, RedisWatcher.stop).
NothingIsLeft ==
  (\A a \in App : boot[a] \in {"off", "idle", "down"}) =>
    /\ heard = {} /\ armed = <<>> /\ slot = "none" /\ manager = "none"
    /\ ~ meddled => ~ Teed(log) /\ ~ Teed(sender) /\ saved = <<>>

\* The sets that are coming up or up.
Running == {a \in App : boot[a] \notin {"off", "idle", "down"}}

\* A line, a command or a profiled piece of work is one entry at most, however many sets of
\* watchers there are and whatever stopped while it was under way; an event
\* is one entry at most of each set that is up, and a cache event two: DEFAULT_IGNORED_EVENTS
\* names no cache event, although the surfaces with a watcher of their own are ignored because
\* "capturing them here would double-record" (events_watcher.ts:94-99).  A set warns of a flood
\* only with a full window (the TEED and PATCHED marks, `settled`, `floodWarned`).
OncePerOperation ==
  /\ ~ meddled /\ rec.of \in {"line", "command"} => rec.n <= 1
  /\ rec.of = "work" => rec.n <= 1
  /\ rec.of \in {"query", "mail", "event", "job"} =>
       rec.n <= Cardinality(Running)
  /\ rec.of = "cache" => rec.n <= 2 * Cardinality(Running)
  /\ \A a \in App : flood[a].warned <=> FloodAt > 0 /\ flood[a].count >= FloodAt

\* A set that shuts down takes nothing from another: its listeners, its place in the slot and,
\* when no third party meddled, its tee and its patch stay.
TakesOnlyItsOwn(a) ==
  boot[a] \in {"up", "idle"} /\ boot'[a] = "down" =>
    \A b \in App \ {a} :
      /\ \A h \in heard : h[1] = b => h \in heard'
      /\ slot = b => slot' = b
      /\ ~ meddled /\ (\E i \in DOMAIN log : log[i] = b) => \E i \in DOMAIN log' : log'[i] = b
      /\ ~ meddled /\ (\E i \in DOMAIN sender : sender[i] = b)
           => \E i \in DOMAIN sender' : sender'[i] = b
=============================================================================
