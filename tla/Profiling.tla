------------------------------ MODULE Profiling ------------------------------
(***************************************************************************)
(* CPU profiling of requests: the manual arms and the sampling that select *)
(* one, the concurrency cap, and the inspector session of each capture     *)
(* from the middleware's begin() to the end() that gives its slot back.    *)
(***************************************************************************)
EXTENDS Integers, Sequences, SequencesExt, FiniteSets

CONSTANTS Profiled,      \* requests, each arrives once
          Label,         \* route labels
          AnyLabel,      \* an arm without a label
          MaxConcurrent, \* maxConcurrent
          SampleRate,    \* "none", "some" or "all" requests are sampled
          MaxArms        \* bound: captures armed

ASSUME ProfilingAssumption ==
  /\ AnyLabel \notin Label /\ MaxConcurrent \in Nat /\ MaxArms \in Nat
  /\ SampleRate \in {"none", "some", "all"}

VARIABLES arms,     \* this.manual: [count, label]
          armed,    \* history: captures asked for by hand
          active,   \* this.active
          capture,  \* request -> none, refused, open, ending, dropped, ended
          route,    \* request -> its label, once it arrived
          reason,   \* request -> manual or sampled
          session,  \* request -> none, connected, failed, running, stopping, disconnected
          starting, \* requests whose start() has not settled
          service,  \* runtime.cpuProfiler is set
          kept      \* history: requests whose profile was recorded

profVars == <<arms, armed, active, capture, route, reason, session, starting, service, kept>>

ProfInit ==
  /\ arms = <<>> /\ armed = 0 /\ active = 0
  /\ capture = [r \in Profiled |-> "none"]
  /\ route = [r \in Profiled |-> AnyLabel]
  /\ reason = [r \in Profiled |-> "sampled"]
  /\ session = [r \in Profiled |-> "none"]
  /\ starting = {} /\ service = TRUE /\ kept = {}

\* arm(): a count below one is one.
Arm ==
  \E n \in 1 .. MaxArms, l \in Label \cup {AnyLabel} :
    /\ armed + n <= MaxArms
    /\ arms' = Append(arms, [count |-> n, label |-> l])
    /\ armed' = armed + n
    /\ UNCHANGED <<active, capture, route, reason, session, starting, service, kept>>

\* matchingArm(): the first that has no label or this one, as a set of positions.
MatchingArm(l) ==
  LET Fits(i) == arms[i].label \in {AnyLabel, l}
  IN  {i \in DOMAIN arms : Fits(i) /\ \A j \in 1 .. i - 1 : ~ Fits(j)}

\* The random number of shouldProfile() and the second one of begin().
Sampled == SampleRate # "none"
MayBeSkipped == SampleRate # "all"

\* The arm's count, spent; an empty arm leaves.
Spend(i) ==
  IF arms[i].count = 1 THEN arms' = RemoveAt(arms, i)
  ELSE arms' = [arms EXCEPT ![i].count = @ - 1]

\* Mutant: a capture that is refused at the cap takes a slot all the same.
RefuseSpending(r) ==
  /\ capture' = [capture EXCEPT ![r] = "refused"]
  /\ arms' = IF MatchingArm(route'[r]) = {} THEN arms ELSE Tail(arms)
  /\ UNCHANGED <<armed, active, reason, session, starting, service, kept>>

Refused(r) ==
  /\ capture' = [capture EXCEPT ![r] = "refused"]
  /\ UNCHANGED <<arms, armed, active, reason, session, starting, service, kept>>

\* sessionFactory() and connect() run at once inside start(); either may throw.
Connects(r) ==
  \/ session' = [session EXCEPT ![r] = "connected"]
  \/ UNCHANGED session

\* begin(): the cap before the budget, then the slot, then the start that nobody awaits.
Opened(r) ==
  /\ active < MaxConcurrent
  /\ LET arm == MatchingArm(route'[r])
     IN  /\ IF arm = {} THEN UNCHANGED arms ELSE \A i \in arm : Spend(i)
         /\ reason' = [reason EXCEPT ![r] = IF arm = {} THEN "sampled" ELSE "manual"]
  /\ capture' = [capture EXCEPT ![r] = "open"]
  /\ active' = active + 1
  /\ starting' = starting \cup {r}
  /\ Connects(r)
  /\ UNCHANGED <<armed, service, kept>>

\* A request arrives: shouldProfile() and begin() in one turn of the middleware.
ProfiledArrives(r) ==
  /\ capture[r] = "none"
  /\ \E l \in Label : route' = [route EXCEPT ![r] = l]
  /\ LET arm == MatchingArm(route'[r])
     IN  \/ /\ service /\ (arm # {} \/ Sampled)
            /\ Opened(r)
         \/ /\ ~ service \/ (arm = {} /\ MayBeSkipped) \/ active >= MaxConcurrent
            /\ Refused(r)

\* start() settles: the three posts to the inspector went through, or one failed and the
\* session stays connected.
StartSettles(r) ==
  /\ r \in starting
  /\ starting' = starting \ {r}
  /\ IF session[r] = "none" THEN UNCHANGED session
     ELSE \E state \in {"running", "failed"} : session' = [session EXCEPT ![r] = state]
  /\ UNCHANGED <<arms, armed, active, capture, route, reason, service, kept>>

\* The request is over: the middleware calls end(), unless the service is gone by now.
RequestEnds(r) ==
  /\ capture[r] = "open"
  /\ capture' = [capture EXCEPT ![r] = IF service THEN "ending" ELSE "dropped"]
  /\ UNCHANGED <<arms, armed, active, route, reason, session, starting, service, kept>>

\* end() goes on once the start settled: stop() asks a running profiler for its profile.
StopAsked(r) ==
  /\ capture[r] = "ending" /\ r \notin starting /\ session[r] = "running"
  /\ session' = [session EXCEPT ![r] = "stopping"]
  /\ UNCHANGED <<arms, armed, active, capture, route, reason, starting, service, kept>>

\* Mutant: the slot is given back only for a profile that was recorded.
GiveBackIfKept(recorded) == active' = IF recorded THEN active - 1 ELSE active

\* finally: whatever happened, the slot is free.
GiveBack(recorded) == active' = IF active > 0 THEN active - 1 ELSE 0

\* stop() found nothing running and returned null, without disconnecting.
EndsWithoutProfile(r) ==
  /\ capture[r] = "ending" /\ r \notin starting /\ session[r] \in {"none", "failed"}
  /\ capture' = [capture EXCEPT ![r] = "ended"]
  /\ GiveBack(FALSE)
  /\ UNCHANGED <<arms, armed, route, reason, session, starting, service, kept>>

\* The profile arrived, or its post failed: disconnected either way, and recorded unless it
\* failed or was shorter than minDurationMs.
ProfileArrives(r) ==
  /\ session[r] = "stopping"
  /\ session' = [session EXCEPT ![r] = "disconnected"]
  /\ capture' = [capture EXCEPT ![r] = "ended"]
  /\ \E recorded \in BOOLEAN :
       /\ kept' = IF recorded THEN kept \cup {r} ELSE kept
       /\ GiveBack(recorded)
  /\ UNCHANGED <<arms, armed, route, reason, starting, service>>

\* shutdown() of the provider takes the service out of the runtime.
ProfilerLeaves ==
  /\ service /\ service' = FALSE
  /\ UNCHANGED <<arms, armed, active, capture, route, reason, session, starting, kept>>

ProfNext ==
  \/ Arm \/ ProfilerLeaves
  \/ \E r \in Profiled :
       \/ ProfiledArrives(r) \/ StartSettles(r) \/ RequestEnds(r)
       \/ StopAsked(r) \/ EndsWithoutProfile(r) \/ ProfileArrives(r)

-----------------------------------------------------------------------------
(* Properties                                                              *)

Holding == {r \in Profiled : capture[r] \in {"open", "ending", "dropped"}}

\* Slots taken by begin() are those of captures whose end() is not over, and never more
\* than the cap; end() is left out only by requests that the service did not live to see end.
\* When a capture is over its session is disconnected, if there was one and it had begun to
\* run: one whose start failed after connect() stays connected for good, though stop() "always
\* disconnects the session, even on error" (cpu-profiler.ts).
SlotsAreGivenBack ==
  /\ active = Cardinality(Holding) /\ active <= MaxConcurrent
  /\ \A r \in Profiled :
       /\ capture[r] = "ended" => session[r] \in {"none", "failed", "disconnected"}
       /\ capture[r] = "dropped" => ~ service
  /\ kept \subseteq {r \in Profiled : session[r] = "disconnected" /\ capture[r] = "ended"}

\* What is left of the counts of the arms, one element for each capture.
Unspent == {u \in (DOMAIN arms) \X (1 .. MaxArms) : u[2] <= arms[u[1]].count}

\* A capture armed by hand is neither lost to a request refused at the cap nor spent twice:
\* what was armed is what is pending and what was captured.
ArmedIsCaptured ==
  armed = Cardinality({r \in Profiled : reason[r] = "manual"}) + Cardinality(Unspent)
=============================================================================
