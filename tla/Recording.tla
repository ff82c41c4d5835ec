------------------------------ MODULE Recording ------------------------------
(***************************************************************************)
(* One host process between what it observes and the store: the provider  *)
(* that boots and shuts down, the overload guard and the pause flag it     *)
(* shares with the operator, the five entry points with the gates each of  *)
(* them has, the decorators around the store (streaming, OpenTelemetry     *)
(* export, sampling, redaction, outermost first) and the folding of failed *)
(* writes into log lines.                                                  *)
(*                                                                         *)
(* An entry is a pair <<e, part>>: a request that throws leaves two, the   *)
(* exception and then the request itself.                                  *)
(***************************************************************************)
EXTENDS Integers, FiniteSets

CONSTANTS Event,       \* things the process observes
          EntryPoint,  \* the entry points in use
          OtelType,    \* types of entries that are exported (otel.entryTypes)
          Grace,       \* windows of the startup grace
          MaxTracked   \* MAX_TRACKED failure keys

ASSUME RecordingAssumption ==
  /\ EntryPoint \subseteq {"request", "safe", "diagnostic", "exception", "client"}
  /\ OtelType \subseteq EntryPoint
  /\ Grace \in Nat /\ MaxTracked \in Nat

VARIABLES phase,     \* the provider: booting, wiring, up, closing, closed
          installed, \* runtime.store is set
          paused,    \* runtime.paused
          held,      \* history: the operator paused and has not resumed
          warmup,    \* warmupSamplesRemaining
          load,      \* the event loop now
          peak,      \* the worst of it since the histogram was reset
          source,    \* event -> the entry point that saw it, or "none"
          shape,     \* event -> plain, failed or slow
          stage,     \* entry -> how far it got
          published, \* history: <<entry, content>> handed to the live stream
          exported,  \* history: <<entry, content>> handed to OpenTelemetry
          folded,    \* tracked failure keys -> repeats not yet printed
          failures,  \* history: failure key -> failures reported
          printed    \* history: failure key -> failures that are in the log

hostVars == <<phase, installed, paused, held, warmup>>
loadVars == <<load, peak>>
eventVars == <<source, shape>>
leavingVars == <<published, exported>>
reportVars == <<folded, failures, printed>>
vars == <<hostVars, loadVars, eventVars, stage, leavingVars, reportVars>>

Entry == Event \X {"main", "exception"}
Main(e) == <<e, "main">>
Thrown(e) == <<e, "exception">>
FailKey == EntryPoint \ {"exception"}

\* One type of entry per entry point; a thrown exception has that of recordException.
TypeOf(x) == IF x[2] = "exception" THEN "exception" ELSE source'[x[1]]

Init ==
  /\ phase = "booting" /\ installed = FALSE
  /\ paused = FALSE /\ held = FALSE
  /\ warmup = Grace
  /\ load = "high" /\ peak = "high"
  /\ source = [e \in Event |-> "none"] /\ shape = [e \in Event |-> "plain"]
  /\ stage = [x \in Entry |-> "none"]
  /\ published = {} /\ exported = {}
  /\ folded = [k \in {} |-> 0]
  /\ failures = [k \in FailKey |-> 0] /\ printed = [k \in FailKey |-> 0]

-----------------------------------------------------------------------------
(* The provider                                                             *)

\* boot(), up to its next await: the store is published and the watchers listen.
Publish ==
  /\ phase = "booting"
  /\ phase' = "wiring" /\ installed' = TRUE
  /\ UNCHANGED <<paused, held, warmup, loadVars, eventVars, stage, leavingVars, reportVars>>

\* The rest of boot(): the guard's timer is armed, with a monitor that starts empty.
Armed ==
  /\ phase = "wiring"
  /\ phase' = "up"
  /\ peak' = load
  /\ UNCHANGED <<installed, paused, held, warmup, load, eventVars, stage, leavingVars,
                 reportVars>>

\* shutdown(), up to the flush of the exporters: the guard stops as it stands.
Closing ==
  /\ phase = "up"
  /\ phase' = "closing"
  /\ UNCHANGED <<installed, paused, held, warmup, loadVars, eventVars, stage, leavingVars,
                 reportVars>>

\* resetTelescopeRuntime().
Reset ==
  /\ phase = "closing"
  /\ phase' = "closed" /\ installed' = FALSE
  /\ paused' = FALSE /\ held' = FALSE
  /\ UNCHANGED <<warmup, loadVars, eventVars, stage, leavingVars, reportVars>>

-----------------------------------------------------------------------------
(* The overload guard                                                       *)

LoadChanges ==
  /\ phase # "closed"
  /\ load' \in {"low", "high"} \ {load}
  /\ peak' = IF load' = "high" THEN "high" ELSE peak
  /\ UNCHANGED <<hostVars, eventVars, stage, leavingVars, reportVars>>

\* Mutant: the histogram is never reset, and a spike stays in it.
SampleWithoutReset ==
  /\ phase = "up"
  /\ IF warmup > 0
       THEN warmup' = warmup - 1 /\ UNCHANGED paused
       ELSE paused' = (peak = "high") /\ UNCHANGED warmup
  /\ UNCHANGED <<phase, installed, held, loadVars, eventVars, stage, leavingVars, reportVars>>

\* sample(): the 99th percentile lies between the load now and the worst of the window.
Sample ==
  /\ phase = "up"
  /\ \E p99 \in {load, peak} :
       IF warmup > 0
         THEN warmup' = warmup - 1 /\ UNCHANGED paused
         ELSE paused' = (p99 = "high") /\ UNCHANGED warmup
  /\ peak' = load
  /\ UNCHANGED <<phase, installed, held, load, eventVars, stage, leavingVars, reportVars>>

\* setTelescopePaused(), called by the operator: at any time, also before boot() and after
\* the runtime was reset.
Hold ==
  /\ paused' = TRUE /\ held' = TRUE
  /\ UNCHANGED <<phase, installed, warmup, loadVars, eventVars, stage, leavingVars,
                 reportVars>>

Release ==
  /\ paused' = FALSE /\ held' = FALSE
  /\ UNCHANGED <<phase, installed, warmup, loadVars, eventVars, stage, leavingVars,
                 reportVars>>

-----------------------------------------------------------------------------
(* The decorators                                                           *)

\* What record() resolves to: sampling's placeholder, which redaction never saw, or
\* the entry of the store.
Placeholder == [sequence |-> -1, content |-> "raw"]
Written == [sequence |-> 0, content |-> "masked"]

\* Mutant: any entry that comes back counts.
AnythingLeaves(answer) == answer.sequence >= -1

MayLeave(answer) == answer.sequence >= 0

\* The answer passes the exporter, which looks at the pause flag, and the live stream.
Leave(X, answer) ==
  LET out == {<<x, answer.content>> : x \in {y \in X : MayLeave(answer)}}
  IN  /\ exported' = exported \cup
           {o \in out : TypeOf(o[1]) \in OtelType /\ ~ paused}
      /\ published' = published \cup out

\* isErrorEntry: the entries of requests, exceptions and diagnostics have no `failed` tag,
\* no statusCode and no level; a browser's is always tagged.
LooksLikeError(x) ==
  TypeOf(x) = "client" \/ (TypeOf(x) = "safe" /\ shape'[x[1]] = "failed")

\* Only these carry a durationMs.
IsSlow(x) == TypeOf(x) \in {"request", "safe", "diagnostic"} /\ shape'[x[1]] = "slow"

\* keepErrors and keepSlowMs; the rest is up to the random number.
AlwaysKept(x) == LooksLikeError(x) \/ IsSlow(x)

\* Entries enter the chain: sampled away, or handed to the store.
Take(X) ==
  \E kept \in SUBSET X :
    /\ \A x \in X : AlwaysKept(x) => x \in kept
    /\ stage' = [x \in Entry |-> CASE x \in kept -> "writing"
                                   [] x \in X \ kept -> "sampledOut"
                                   [] OTHER -> stage[x]]
    /\ Leave(X \ kept, Placeholder)

Refuse == UNCHANGED <<stage, leavingVars>>

-----------------------------------------------------------------------------
(* The entry points                                                         *)

\* What can be told apart about what was seen.
ShapesOf(point) ==
  CASE point \in {"request", "safe"} -> {"plain", "failed", "slow"}
    [] point = "diagnostic"          -> {"plain", "slow"}
    [] OTHER                         -> {"plain"}

Seen(e, point) ==
  /\ point \in EntryPoint
  /\ source[e] = "none"
  /\ source' = [source EXCEPT ![e] = point]
  /\ \E s \in ShapesOf(point) : shape' = [shape EXCEPT ![e] = s]
  /\ UNCHANGED <<hostVars, loadVars, reportVars>>

\* The middleware's gate, once, when the request arrives.  A request of the dashboard
\* itself is turned away like one that finds the watcher off.
RequestArrives(e) ==
  /\ Seen(e, "request")
  /\ \/ installed /\ ~ paused /\ stage' = [stage EXCEPT ![Main(e)] = "open"]
     \/ UNCHANGED stage
  /\ UNCHANGED leavingVars

\* Its answer: the exception, when one was thrown, and the request, into the store the
\* middleware held on to.
RequestAnswered(e) ==
  /\ stage[Main(e)] = "open"
  /\ UNCHANGED <<hostVars, loadVars, eventVars, reportVars>>
  /\ Take({Main(e)} \cup IF shape[e] = "failed" THEN {Thrown(e)} ELSE {})

\* safeRecord(): heartbeats and telescope's own work are turned away with the paused.
SafeRecord(e) ==
  /\ Seen(e, "safe")
  /\ \/ installed /\ ~ paused /\ Take({Main(e)})
     \/ Refuse

\* DiagnosticsWatcher.safeRecord(): its own copy, with gates for muted and claimed keys.
Diagnostic(e) ==
  /\ Seen(e, "diagnostic")
  /\ \/ phase \in {"wiring", "up"} /\ Take({Main(e)})
     \/ Refuse

\* recordException(), called by the application.
RecordException(e) ==
  /\ Seen(e, "exception")
  /\ IF installed THEN Take({Main(e)}) ELSE Refuse

\* The client error endpoint: refused, shed with a 204, or recorded; its route and its
\* store outlive the runtime.
ClientError(e) ==
  /\ phase \notin {"booting", "wiring"}
  /\ Seen(e, "client")
  /\ \/ ~ paused /\ Take({Main(e)})
     \/ Refuse

-----------------------------------------------------------------------------
(* The store answers                                                        *)

\* The entry was stored, or dropped by a full write buffer with an answer all the same.
StoreAnswers(x) ==
  /\ stage[x] = "writing"
  /\ stage' = [stage EXCEPT ![x] = "answered"]
  /\ UNCHANGED <<hostVars, loadVars, eventVars, reportVars>>
  /\ Leave({x}, Written)

Tracked(k) == k \in DOMAIN folded
Untrack(k) == folded' = [j \in DOMAIN folded \ {k} |-> folded[j]]
Track(k, n) == folded' = [j \in DOMAIN folded \cup {k} |-> IF j = k THEN n ELSE folded[j]]

\* Mutant: a repeat that finds its key tracked is printed and counted.
ReportTwice(k) ==
  /\ failures' = [failures EXCEPT ![k] = @ + 1]
  /\ printed' = [printed EXCEPT ![k] = @ + 1]
  /\ Track(k, IF Tracked(k) THEN folded[k] + 1 ELSE 0)

\* reportFailure(): a repeat is counted, a new failure printed and, room permitting, tracked.
ReportFailure(k) ==
  /\ failures' = [failures EXCEPT ![k] = @ + 1]
  /\ IF Tracked(k)
       THEN Track(k, folded[k] + 1) /\ UNCHANGED printed
       ELSE /\ printed' = [printed EXCEPT ![k] = @ + 1]
            /\ IF Cardinality(DOMAIN folded) < MaxTracked THEN Track(k, 0) ELSE UNCHANGED folded

\* The store fails; recordException() prints by itself, everybody else reports.
StoreRejects(x) ==
  /\ stage[x] = "writing"
  /\ stage' = [stage EXCEPT ![x] = "failed"]
  /\ IF source[x[1]] = "exception"
       THEN UNCHANGED reportVars
       ELSE ReportFailure(source[x[1]])
  /\ UNCHANGED <<hostVars, loadVars, eventVars, leavingVars>>

\* Mutant: the key is forgotten with the repeats it counted.
CloseWindowForgetting(k) ==
  /\ Tracked(k)
  /\ Untrack(k)
  /\ UNCHANGED <<hostVars, loadVars, eventVars, stage, leavingVars, failures, printed>>

\* Mutant: a window with a single repeat is left open for another.
CloseWindowWaiting(k) ==
  /\ Tracked(k) /\ folded[k] # 1
  /\ IF folded[k] = 0
       THEN Untrack(k) /\ UNCHANGED printed
       ELSE /\ printed' = [printed EXCEPT ![k] = @ + folded[k]]
            /\ Track(k, 0)
  /\ UNCHANGED <<hostVars, loadVars, eventVars, stage, leavingVars, failures>>

\* closeWindow(): a window with repeats prints them and is followed by another one.
CloseWindow(k) ==
  /\ Tracked(k)
  /\ IF folded[k] = 0
       THEN Untrack(k) /\ UNCHANGED printed
       ELSE /\ printed' = [printed EXCEPT ![k] = @ + folded[k]]
            /\ Track(k, 0)
  /\ UNCHANGED <<hostVars, loadVars, eventVars, stage, leavingVars, failures>>

-----------------------------------------------------------------------------
Next ==
  \/ Publish \/ Armed \/ Closing \/ Reset
  \/ LoadChanges \/ Sample \/ Hold \/ Release
  \/ \E e \in Event :
       \/ RequestArrives(e) \/ RequestAnswered(e)
       \/ SafeRecord(e) \/ Diagnostic(e) \/ RecordException(e) \/ ClientError(e)
  \/ \E x \in Entry : StoreAnswers(x) \/ StoreRejects(x)
  \/ \E k \in FailKey : CloseWindow(k)

\* The guard's interval keeps firing, windows close, boot and shutdown end once they began.
Fairness ==
  /\ WF_vars(Armed) /\ WF_vars(Sample) /\ WF_vars(Reset)
  /\ \A k \in FailKey : WF_vars(CloseWindow(k))

Spec == Init /\ [][Next]_vars /\ Fairness

-----------------------------------------------------------------------------
(* Properties                                                               *)

\* The types.
TypeOK ==
  /\ phase \in {"booting", "wiring", "up", "closing", "closed"}
  /\ installed \in BOOLEAN /\ paused \in BOOLEAN /\ held \in BOOLEAN
  /\ warmup \in 0 .. Grace
  /\ load \in {"low", "high"} /\ peak \in {"low", "high"}
  /\ source \in [Event -> EntryPoint \cup {"none"}]
  /\ shape \in [Event -> {"plain", "failed", "slow"}]
  /\ stage \in [Entry -> {"none", "open", "writing", "sampledOut", "answered", "failed"}]
  /\ published \cup exported \subseteq Entry \X {"raw", "masked"}
  /\ DOMAIN folded \subseteq FailKey /\ Cardinality(DOMAIN folded) <= MaxTracked
  /\ \A k \in DOMAIN folded : folded[k] \in Nat
  /\ failures \in [FailKey -> Nat] /\ printed \in [FailKey -> Nat]

\* What leaves the process was masked and was not sampled away, although the placeholder
\* of an entry sampled away carries its raw content up through the exporter and the live
\* stream (otel_exporting_store.ts, streaming_store.ts).
OnlyScrubbedLeaves ==
  /\ exported \subseteq published
  /\ \A p \in published : p[2] = "masked" /\ stage[p[1]] = "answered"

\* No failure is lost between a line that was printed and the repeats still counted:
\* "every distinct failure is still reported, with its count" (report_failure.ts).
FailuresAccounted ==
  \A k \in FailKey :
    failures[k] = printed[k] + IF Tracked(k) THEN folded[k] ELSE 0

\* Repeats that were counted are printed while the process lives (closeWindow).
RepeatsArePrinted ==
  \A k \in FailKey : (Tracked(k) /\ folded[k] > 0) ~> (Tracked(k) => folded[k] = 0)

\* What the guard paused it resumes: once the load stays low and the operator pauses no more,
\* capture is not paused for good, whether the guard still runs, was stopped while the flag
\* was set, or found it set by an operator who went away (overload_guard.ts,
\* resetTelescopeRuntime).
CaptureResumes == <>[](load = "low" /\ ~ held) => []<>(~ paused)

\* "The flag is process-global and nothing else will turn it back on" (protection.mdx): a pause
\* of the operator lasts until the operator, or the end of the runtime, ends it.
HoldLasts == held => paused
=============================================================================
