----------------------------- MODULE MCReaders -----------------------------
(***************************************************************************)
(* The two parts that read what was stored, for model checking: a behaviour *)
(* is about the dashboard or about what is computed over data, and the     *)
(* other part stays in one of its initial states.                          *)
(***************************************************************************)
EXTENDS Console, Analytics

VARIABLE part

Open == [hook |-> "default", token |-> FALSE, basic |-> FALSE, production |-> FALSE,
         session |-> FALSE, denied |-> "none", enabled |-> {}, adapter |-> {}, parts |-> {}]

analyticsVars == <<subject, memoryVars, readVars, agentVars, flameVars, redactionVars>>
readersVars == <<part, visit, consoleVars, analyticsVars>>

ReadersInit ==
  /\ \/ part = "console" /\ subject = "agents"
     \/ part = "analytics" /\ visit = "mcp" /\ setup = Open /\ born = 0
  /\ ConsoleInit /\ AnalyticsInit

ReadersNext ==
  \/ part = "console" /\ ConsoleNext /\ UNCHANGED <<part, analyticsVars>>
  \/ part = "analytics" /\ AnalyticsNext /\ UNCHANGED <<part, visit, consoleVars>>

ReadersSpec == ReadersInit /\ [][ReadersNext]_readersVars

-----------------------------------------------------------------------------
(* Configurations of the dashboard and its rows                            *)

Locked == [hook |-> "default", token |-> TRUE, basic |-> TRUE, production |-> TRUE,
           session |-> TRUE, denied |-> "none", enabled |-> {"replay", "arm", "queues"},
           adapter |-> {"retry"},
           parts |-> {"prometheus", "pulse", "stream", "registry", "profiler", "manager", "diagnosis"}]
Hosted == [hook |-> "custom", token |-> FALSE, basic |-> FALSE, production |-> TRUE,
           session |-> FALSE, denied |-> "renderer", enabled |-> {"replay", "arm", "queues"},
           adapter |-> {"retry", "enqueue"},
           parts |-> {"metrics", "prometheus", "pulse", "stream", "registry", "profiler",
                      "profiling", "manager", "diagnosis"}]
Guarded == [Hosted EXCEPT !.hook = "default", !.token = TRUE, !.enabled = {}]
MCSetups == {Open, Locked, Hosted, Guarded}

MCTypeOf == <<"request", "exception", "cpu_profile">>
MCTraceOf == <<"t1", "t1", "none">>
MCFitting == [all |-> 1..3, some |-> {1, 2}]
MCSeen == [all |-> 1..3, some |-> {1}]
MCTools == {"list_entries", "get_entry", "get_trace", "diagnose_exception"}

-----------------------------------------------------------------------------
(* Entries, payloads and contents that are recorded                         *)

Entry0 == [type |-> Query, family |-> 1, duration |-> None, trace |-> 1, outcome |-> "none",
           full |-> TRUE]

MCInputs ==
  [reads |-> {[Entry0 EXCEPT !.duration = 7],
              [Entry0 EXCEPT !.type = Request, !.family = 2, !.trace = 2, !.outcome = "5xx", !.duration = 3],
              [Entry0 EXCEPT !.type = ExceptionType, !.trace = 0]},
   spans |-> {[Entry0 EXCEPT !.family = f, !.duration = d] : f \in {1, 2}, d \in {0, 1, 3}}
               \cup {[Entry0 EXCEPT !.type = Request, !.duration = 20000]}]

Payload(c, s, f, a, r) == [cost |-> c, source |-> s, feature |-> f, actor |-> a, requests |-> r]
MCPayloads ==
  {Payload(-1, "estimate", "chat", "u", 2), Payload(3, "estimate", "chat", "@platform", 1),
   Payload(2, "unstated", "chat", "u", -1), Payload(1, "provider", "search", "u", 1)}

\* Contents up to three deep: texts that fit and do not, bytes, lists longer than the bound, a
\* secret under a masked key and one under a masked path.
Leaves == {Leaf("scalar", 0), Leaf("text", 1), Leaf("text", 3), Leaf("binary", 0)}
Paths == {<<"a", "b">>}
Secret == Leaf("secret", 0)
Keyed(t) == {Branch("map", <<Child("a", t)>>),
             Branch("map", <<Child("a", t), Child("password", Secret)>>),
             Branch("map", <<Child("password", Secret), Child("a", t)>>)}
Lists(S) == {Branch("list", <<>>)}
  \cup {Branch("list", <<Child("0", t), Child("1", u)>>) : t \in S, u \in S}
  \cup {Branch("list", <<Child("0", t), Child("1", u), Child("2", t)>>) : t \in S, u \in S}
Small == Leaves \cup Lists(Leaves) \cup UNION {Keyed(t) : t \in Leaves}
Pathed(t) == {Branch("map", <<Child("a", Branch("map", <<Child("b", Secret), Child("c", t)>>))>>),
              Branch("map", <<Child("c", t), Child("a", Branch("map", <<Child("b", Secret)>>))>>)}
Trees == Small \cup UNION {Keyed(t) \cup Pathed(t) : t \in Small}
  \cup Lists(UNION {Keyed(t) : t \in Leaves}) \cup UNION {Keyed(u) : u \in UNION {Keyed(t) : t \in Small}}
=============================================================================
