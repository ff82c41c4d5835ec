------------------------------- MODULE Entries -------------------------------
(***************************************************************************)
(* From something the host did to what is kept and exported of it: the      *)
(* builder of each watcher, the tail sampling that looks for errors and     *)
(* slow work, and the mapping of a stored entry to a span or a log record   *)
(* of OpenTelemetry.                                                       *)
(*                                                                         *)
(* An optional number is the set of it, {} when absent.  Text is left out:  *)
(* of a label only what a rule looks for is kept.                          *)
(***************************************************************************)
EXTENDS Integers, FiniteSets

CONSTANTS SlowMs,     \* slowMs of the watchers
          KeepSlowMs, \* keepSlowMs of the sampling rule
          MaxMs       \* bound: durations

ASSUME EntriesAssumption == SlowMs \in Nat /\ KeepSlowMs \in Nat /\ MaxMs \in Nat

VARIABLES operation, \* what the host did
          entry,     \* the entry built of it, {} before
          fate,      \* built, dropped or stored
          export     \* what was handed to the exporter, {} when nothing

entryVars == <<operation, entry, fate, export>>

\* Measured durations: a clock that was set back gives a negative one.
Measured == -1..MaxMs
Clamp(ms) == {IF n < 0 THEN 0 ELSE n : n \in ms}
Optional(S) == {{}} \cup {{x} : x \in S}

Blank == [kind |-> "none", outcome |-> "completed", ms |-> {}, status |-> {}, level |-> {},
          error |-> FALSE, named |-> FALSE, ts |-> 0]

\* What each watcher is told: a job that ended, a task or profiled work, an outgoing call (no
\* status: no answer), a request it served and what was thrown in it or reported by a browser,
\* a query or a command, a line of the logger, another event, a diagnostic.
JobOf(outcome, ms) == [Blank EXCEPT !.kind = "job", !.outcome = outcome, !.ms = ms]
RunOf(kind, outcome, ms) == [Blank EXCEPT !.kind = kind, !.outcome = outcome, !.ms = {ms}]
CallOf(status, ms) == [Blank EXCEPT !.kind = "fetch", !.status = status, !.ms = {ms},
                         !.outcome = IF status = {} THEN "failed" ELSE "completed"]
RequestOf(status, ms) == [Blank EXCEPT !.kind = "request", !.status = status, !.ms = {ms}]
ThrownOf(kind) == [Blank EXCEPT !.kind = kind, !.outcome = "failed"]
TimedOf(kind, ms) == [Blank EXCEPT !.kind = kind, !.ms = ms]
LineOf(level) == [Blank EXCEPT !.kind = "log", !.level = {level}]
EventOf(kind) == [Blank EXCEPT !.kind = kind]
DiagnosticOf(ms, level, error, named, ts) ==
  [Blank EXCEPT !.kind = "diagnostic", !.ms = ms, !.level = level, !.error = error,
     !.named = named, !.ts = ts]

Operations ==
  {JobOf(o, m) : o \in {"completed", "failed", "retrying"}, m \in Optional(Measured)}
  \cup {RunOf(k, o, m) : k \in {"task", "profile"}, o \in {"completed", "failed"}, m \in Measured}
  \cup {CallOf(s, m) : s \in Optional({200, 404, 499, 500, 503}), m \in Measured}
  \cup {RequestOf(s, m) : s \in Optional({200, 404, 500}), m \in Measured}
  \cup {ThrownOf(k) : k \in {"exception", "client_exception"}}
  \cup {TimedOf(k, m) : k \in {"query", "command"}, m \in Optional(Measured)}
  \cup {LineOf(l) : l \in {"debug", "info", "warn", "error", "fatal"}}
  \cup {EventOf(k) : k \in {"mail", "cache", "event"}}
  \cup {DiagnosticOf(m, l, e, d, t) :
          m \in Optional(Measured), l \in Optional({"info", "warn", "fatal"}),
          e \in BOOLEAN, d \in BOOLEAN, t \in 2..3}

EntriesInit ==
  /\ operation \in Operations
  /\ entry = {} /\ fate = "none" /\ export = {}

-----------------------------------------------------------------------------
(* The builders                                                            *)

\* Mutant: a job that will be retried, a call that had no answer are not failed.
FinallyFailed(o) ==
  \/ o.kind \in {"job", "task", "profile"} /\ o.outcome = "failed"
  \/ o.kind = "fetch" /\ \E s \in o.status : s >= 500

\* The tag `failed`: a job that failed or will be retried, a call that had no answer or a
\* server error, a task or a profile that failed.
FailedTag(o) ==
  \/ o.kind = "job" /\ o.outcome \in {"failed", "retrying"}
  \/ o.kind = "fetch" /\ (o.status = {} \/ \E s \in o.status : s >= 500)
  \/ o.kind \in {"task", "profile"} /\ o.outcome = "failed"

\* hrtimeToMs and the numbers of a diagnostic are taken as they come, the others clamped.
DurationOf(o) == IF o.kind \in {"query", "diagnostic"} THEN o.ms ELSE Clamp(o.ms)

\* The tag `slow`; commands, mails and diagnostics have none.
SlowTag(o) ==
  o.kind \in {"job", "task", "profile", "fetch", "query"} /\ \E d \in DurationOf(o) : d >= SlowMs

\* What the rules look at of an entry: its tags and duration, the status code of an outgoing
\* call, the level of a log line; a diagnostic keeps its level inside the payload.  A request
\* says `status`, not `statusCode`, and neither it nor an exception has the tag `failed`
\* (unless the host's own enrichment adds it, which is left out).
EntryOf(o) ==
  [kind |-> o.kind,
   tags |-> {t \in {"failed", "slow"} : (t = "failed" /\ FailedTag(o)) \/ (t = "slow" /\ SlowTag(o))},
   duration |-> DurationOf(o),
   statusCode |-> IF o.kind = "fetch" THEN o.status ELSE {},
   level |-> IF o.kind = "log" THEN o.level ELSE {}]

Build ==
  /\ fate = "none" /\ fate' = "built"
  /\ entry' = {EntryOf(operation)}
  /\ UNCHANGED <<operation, export>>

-----------------------------------------------------------------------------
(* Tail sampling                                                           *)

IsErrorEntry(e) ==
  \/ "failed" \in e.tags
  \/ \E s \in e.statusCode : s >= 500
  \/ \E l \in e.level : l \in {"warn", "error", "fatal"}

\* passesSampling with keepErrors and keepSlowMs; the draw decides about the rest.
AlwaysPasses(e) == IsErrorEntry(e) \/ \E d \in e.duration : d >= KeepSlowMs

SampleEntry ==
  /\ fate = "built"
  /\ \E e \in entry : fate' \in {"stored"} \cup (IF AlwaysPasses(e) THEN {} ELSE {"dropped"})
  /\ UNCHANGED <<operation, entry, export>>

-----------------------------------------------------------------------------
(* OpenTelemetry                                                           *)

\* looksLikeError(): as for sampling, or an error in the payload, or an event named so.
LooksFailed(e, o) == IsErrorEntry(e) \/ o.error \/ o.named

\* explicitSeverity() of the payload's level.
Severity(o, failed) ==
  CASE \E l \in o.level : l = "warn"              -> "WARN"
    [] \E l \in o.level : l \in {"error", "fatal"} -> "ERROR"
    [] \E l \in o.level : l \in {"info", "debug"}  -> "INFO"
    [] OTHER -> IF failed THEN "ERROR" ELSE "INFO"

\* resolveDurationMs(): a negative duration does not count (an older emitter has it in the payload).
SpanLength(e) == {d \in e.duration : d >= 0}

\* mapEntryToOtel(): only what has a lib and an event; a span when there is a duration.
Mapped(e, o) ==
  IF e.kind # "diagnostic" THEN {}
  ELSE {IF SpanLength(e) # {}
        THEN [as |-> "span", from |-> o.ts - (CHOOSE d \in SpanLength(e) : TRUE), to |-> o.ts,
              status |-> IF LooksFailed(e, o) THEN "ERROR" ELSE "OK"]
        ELSE [as |-> "log", from |-> o.ts, to |-> o.ts,
              status |-> Severity(o, LooksFailed(e, o))]}

Export ==
  /\ fate = "stored" /\ fate' = "exported"
  /\ \E e \in entry : export' = Mapped(e, operation)
  /\ UNCHANGED <<operation, entry>>

EntriesNext == Build \/ SampleEntry \/ Export

-----------------------------------------------------------------------------
(* Properties                                                              *)

\* What keepErrors cannot see: "never dropping the entries that matter" (sampling.ts:6-7) does
\* not hold of the requests that failed, nor of the exceptions themselves.
Unmarked == {"request", "exception", "client_exception"}

\* What was dropped was quick; of what the host saw fail only a request or an exception is
\* ever dropped, because isErrorEntry takes none of them for an error; and of an outgoing call
\* a plain failure of the peer (a 404) is none (isErrorEntry against the builders).
Failed(o) ==
  \/ o.outcome \in {"failed", "retrying"}
  \/ o.status \cap (500..599) # {}
  \/ o.kind = "log" /\ o.level \cap {"error", "fatal"} # {}

FailuresAreKept ==
  /\ fate = "dropped" =>
       /\ Failed(operation) => operation.kind \in Unmarked
       /\ \A d \in operation.ms : d < KeepSlowMs
  /\ \A e \in entry : operation.kind \in Unmarked => ~ IsErrorEntry(e)
  /\ \A e \in entry : operation.kind = "fetch" =>
       (IsErrorEntry(e) <=> (operation.status = {} \/ operation.status \cap (500..599) # {}))

\* What is exported is of the time it happened: it ends at the event's own time, began before
\* it, and a diagnostic that carries an error is never a span that says OK (mapEntryToOtel).
ExportsAgree ==
  \A x \in export :
    /\ x.to = operation.ts /\ x.from <= x.to
    /\ x.as = "span" => (x.status = "OK" => ~ operation.error)
    /\ x.as = "span" <=> \E d \in operation.ms : d >= 0
=============================================================================
