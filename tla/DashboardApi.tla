---------------------------- MODULE DashboardApi ----------------------------
(***************************************************************************)
(* The routes of the dashboard, one request at a time: the gate, then the   *)
(* handler up to each await, while the store it reads changes.  The other   *)
(* requests of the process are what `rows`, the clock and the deployment do *)
(* in between.                                                             *)
(***************************************************************************)
EXTENDS Access

CONSTANTS TypeOf,      \* row -> its entry type; rows are numbered by age
          RowsPerPage, \* size of a page of the entries table
          MaxWalkPage  \* bound: pages a walk asks for

ASSUME DashboardApiAssumption == RowsPerPage \in Nat \ {0} /\ MaxWalkPage \in Nat

VARIABLES born,   \* rows recorded so far
          rows,   \* what the store answers, newest first
          req,    \* the request in flight, or the last one answered
          walk    \* the browser's walk through the pages of the table

apiVars == <<born, rows, req, walk>>

Row == DOMAIN TypeOf
Parts == {"metrics", "prometheus", "pulse", "stream", "registry", "profiler", "profiling",
          "manager", "diagnosis"}
Has(part) == part \in setup.parts
NoReply == Reply(0, "none")
NoReq == [route |-> "none", cred |-> "none", own |-> "allow", cookie |-> NoCookie, arg |-> "ok",
          id |-> 0, step |-> "done", verdict |-> "none", at |-> 0, key |-> 0, found |-> <<>>,
          did |-> 0, reply |-> NoReply]
NoWalk == [page |-> 0, seen |-> <<>>, first |-> {}, quiet |-> TRUE]

ApiInit ==
  /\ born \in 0..Cardinality(Row) /\ rows = [i \in 1..born |-> born + 1 - i]
  /\ req = NoReq /\ walk = NoWalk

-----------------------------------------------------------------------------
(* The routes                                                              *)

SignInRoutes == {"login_page", "login_submit", "logout"}
PageRoutes == {"index", "asset"}
ProfileRoutes == {"profiles_status", "profiles", "profile", "profiles_arm"}
QueueRoutes == {"queues_live", "queues_live_job", "queues_live_retry", "queues_live_enqueue"}
WindowRoutes == {"metrics_timeseries", "metrics_ai", "metrics_pulse"}
ReadRoutes == {"entry", "trace", "stats", "metrics_stats", "metrics_traces", "metrics_screens",
               "metrics_waterfall", "metrics_n_plus_one", "schedules_live", "ext_data"}
EntryRoutes == {"entry", "profile", "replay", "diagnose"}
TurnRoutes == {"retention", "meta", "prometheus", "stream"}
ActRoutes == {"replay", "diagnose", "queues_live_retry", "queues_live_enqueue", "profiles_arm"}
ApiRoutes == {"entries"} \cup ReadRoutes \cup WindowRoutes \cup TurnRoutes \cup ActRoutes
               \cup ProfileRoutes \cup QueueRoutes

\* boot(): what is registered depends on the configuration and on what the core provider built.
Registered(route) ==
  /\ route \in SignInRoutes => setup.session
  /\ route = "prometheus" => Has("prometheus")
  /\ route = "metrics_pulse" => Has("pulse")
  /\ route = "stream" => Has("stream")
  /\ route = "ext_data" => Has("registry")

\* The refusals of a handler before its first await, in the order of the code; an id with an
\* argument "odd" is a missing or malformed one.
Refusals(q) ==
  << [when |-> q.route = "replay" /\ "replay" \notin setup.enabled, status |-> 403],
     [when |-> q.route = "profiles_arm" /\ "arm" \notin setup.enabled, status |-> 403],
     [when |-> /\ q.route \in {"queues_live_retry", "queues_live_enqueue"}
               /\ "queues" \notin setup.enabled, status |-> 403],
     [when |-> q.route = "diagnose" /\ ~Has("diagnosis"), status |-> 404],
     [when |-> q.route \in ProfileRoutes /\ ~Has("profiler"), status |-> 404],
     [when |-> q.route = "profiles_arm" /\ ~Has("profiling"), status |-> 400],
     [when |-> q.route \in QueueRoutes /\ ~Has("manager"), status |-> 404],
     [when |-> q.route = "queues_live_retry" /\ "retry" \notin setup.adapter, status |-> 501],
     [when |-> q.route = "queues_live_enqueue" /\ "enqueue" \notin setup.adapter, status |-> 501],
     [when |-> q.route = "prometheus" /\ ~Has("metrics"), status |-> 404],
     [when |-> q.route = "ext_data" /\ q.arg = "odd", status |-> 404],
     [when |-> /\ q.route \in {"profiles_arm", "queues_live_enqueue", "metrics_stats", "metrics_screens"}
               /\ q.arg = "odd", status |-> 400] >>

RefusesBy(q) == {i \in DOMAIN Refusals(q) : Refusals(q)[i].when}
Refusal(q) == Refusals(q)[CHOOSE i \in RefusesBy(q) : \A j \in RefusesBy(q) : i <= j].status

-----------------------------------------------------------------------------
(* A request and its gate                                                  *)

Answered(status, body) == [req EXCEPT !.step = "done", !.reply = Reply(status, body)]
AnsweredTo(status, body, place) == [req EXCEPT !.step = "done", !.reply = ReplyTo(status, body, place)]

\* A request arrives, with the cookie the browser holds now.
Arrives(route, cred, own, arg, id) ==
  /\ req.step = "done" /\ Registered(route)
  /\ req' = [NoReq EXCEPT !.route = route, !.cred = cred, !.own = own, !.cookie = jar,
                          !.arg = arg, !.id = id,
                          !.step = IF route \in SignInRoutes THEN "handle" ELSE "guard"]
  /\ UNCHANGED <<accessVars, born, rows, walk>>

\* gate(), and the gate of the pages: the hook, and then the session.
Gate ==
  /\ req.step = "guard"
  /\ LET mode == IF req.route \in PageRoutes THEN "page" ELSE "api"
         verdict == Authorize(req.cred, req.own)
         judged == [req EXCEPT !.verdict = verdict, !.at = time, !.key = key] IN
     req' = IF RunGuard(verdict) # 200
            THEN [judged EXCEPT !.step = "done",
                    !.reply = IF mode = "page" THEN PageGuardReply(verdict, req.arg)
                              ELSE GuardReply(verdict)]
            ELSE IF DecideDashboardAuth(req.cookie, mode) # "allow"
            THEN [judged EXCEPT !.step = "done", !.reply = AuthReply(mode, req.arg)]
            ELSE [judged EXCEPT !.step = "handle"]
  /\ UNCHANGED <<accessVars, born, rows, walk>>

-----------------------------------------------------------------------------
(* Handlers                                                                *)

Refuses ==
  /\ req.step = "handle" /\ RefusesBy(req) # {}
  /\ req' = Answered(Refusal(req), "error")
  /\ UNCHANGED <<accessVars, born, rows, walk>>

Passes(routes) == req.step = "handle" /\ req.route \in routes /\ RefusesBy(req) = {}

\* Handlers that answer in one turn; arming a capture is the one that changes something.
AnswersAtOnce ==
  /\ Passes(TurnRoutes \cup {"profiles_status", "profiles_arm"})
  /\ req' = [Answered(200, "data") EXCEPT !.did = IF req.route = "profiles_arm" THEN 1 ELSE 0]
  /\ UNCHANGED <<accessVars, born, rows, walk>>

\* safeAssetSegments(), sendAsset() and sendIndex(): an unknown asset is answered with the page.
SendsPage ==
  /\ Passes(PageRoutes)
  /\ req' = IF req.arg = "odd" THEN Answered(400, "error")
            ELSE Answered(200, IF req.route = "index" \/ req.arg = "unknown" THEN "page" ELSE "asset")
  /\ UNCHANGED <<accessVars, born, rows, walk>>

\* show() of entries and of profiles: an entry that is gone is a 404.
ShowsEntry ==
  /\ Passes({"entry", "profile"})
  /\ req' = IF \E i \in DOMAIN rows : rows[i] = req.id
                 /\ (req.route = "profile" => TypeOf[rows[i]] = "cpu_profile")
            THEN [Answered(200, "data") EXCEPT !.found = <<req.id>>]
            ELSE Answered(404, "error")
  /\ UNCHANGED <<accessVars, born, rows, walk>>

\* The handlers with one await: whatever fails is a 400 where the handler catches it, as it does
\* for a window out of range, and the framework's 500 elsewhere; an unknown trace or job is a 404.
Reads(outcome) ==
  /\ Passes(((ReadRoutes \cup WindowRoutes) \ {"entry"}) \cup {"profiles", "queues_live", "queues_live_job"})
  /\ req' =
       IF outcome = "fails"
       THEN Answered(IF req.route \in WindowRoutes \cup {"metrics_stats"} THEN 400 ELSE 500, "error")
       ELSE IF outcome = "missing" /\ req.route \in {"metrics_waterfall", "queues_live_job"}
       THEN Answered(404, "error")
       ELSE [Answered(200, "data") EXCEPT !.found = rows]
  /\ UNCHANGED <<accessVars, born, rows, walk>>

\* The other handlers do not catch a read of the store that fails.
StoreFails ==
  /\ Passes({"entry", "profile", "replay", "diagnose", "entries"}) \/ req.step = "probing"
  /\ req' = Answered(500, "error")
  /\ UNCHANGED <<accessVars, born, rows, walk>>

\* retry() and enqueue(): the adapter does it, or throws, and may have done it all the same.
ActsOnQueue(outcome) ==
  /\ Passes({"queues_live_retry", "queues_live_enqueue"})
  /\ req' = [(IF outcome = "works" THEN Answered(200, "data") ELSE Answered(400, "error"))
               EXCEPT !.did = IF outcome = "fails" THEN 0 ELSE 1]
  /\ UNCHANGED <<accessVars, born, rows, walk>>

Replayable == {"request"}
Diagnosable == {"exception", "client_exception"}

\* Mutant: the type of the entry is not looked at.
FindsAny(route) == {i \in DOMAIN rows : rows[i] = req.id}

\* The entry that replayRequest() and diagnose() are about.
Finds(route) ==
  {i \in DOMAIN rows : rows[i] = req.id
     /\ TypeOf[req.id] \in (IF route = "replay" THEN Replayable ELSE Diagnosable)}

\* replayRequest() and diagnose(), up to the await of what they ask for.
FindsSubject ==
  /\ Passes({"replay", "diagnose"})
  /\ req' = IF Finds(req.route) = {} THEN Answered(404, "error")
            ELSE [req EXCEPT !.step = "acting", !.found = <<req.id>>, !.did = 1]
  /\ UNCHANGED <<accessVars, born, rows, walk>>

\* The transport answered, failed or was aborted: all of it is the body of a 200; a diagnosis
\* that failed or timed out is a 502.
ActionAnswers(outcome) ==
  /\ req.step = "acting"
  /\ req' = IF req.route = "diagnose" /\ outcome = "fails" THEN Answered(502, "error")
            ELSE Answered(200, "data")
  /\ UNCHANGED <<accessVars, born, rows, walk>>

-----------------------------------------------------------------------------
(* The table of entries                                                    *)

RowsAt(page, size) == IF (page - 1) * size >= Len(rows) THEN <<>>
                      ELSE SubSeq(rows, (page - 1) * size + 1,
                                  IF page * size <= Len(rows) THEN page * size ELSE Len(rows))

\* list(), up to the first await: a short page has no successor and is answered.
ListsEntries ==
  /\ Passes({"entries"})
  /\ LET page == RowsAt(req.id, RowsPerPage) IN
     IF Len(page) = RowsPerPage
     THEN req' = [req EXCEPT !.step = "probing", !.found = page] /\ UNCHANGED walk
     ELSE /\ req' = [Answered(200, "last") EXCEPT !.found = page]
          /\ walk' = [walk EXCEPT !.page = -1, !.seen = @ \o page]
  /\ UNCHANGED <<accessVars, born, rows>>

\* Mutant: the probe asks for the last row of the page.
ProbesOwnPage == RowsAt(req.id * RowsPerPage, 1) # <<>>

\* The row after this page.
HasMore == RowsAt(req.id * RowsPerPage + 1, 1) # <<>>

\* The probe answers, and the browser goes on to the next page or stops.
ProbesEntries ==
  /\ req.step = "probing"
  /\ req' = Answered(200, IF HasMore THEN "more" ELSE "last")
  /\ walk' = [walk EXCEPT !.page = IF HasMore THEN @ + 1 ELSE -1, !.seen = @ \o req.found]
  /\ UNCHANGED <<accessVars, born, rows>>

\* The browser opens the table.
WalkBegins ==
  /\ walk.page = 0
  /\ walk' = [NoWalk EXCEPT !.page = 1, !.first = {rows[i] : i \in DOMAIN rows}]
  /\ UNCHANGED <<accessVars, born, rows, req>>

\* Entries are recorded at the front and pruned, evicted or cleared at the end.
StoreMoves ==
  /\ \/ /\ born < Cardinality(Row) /\ born' = born + 1
        /\ rows' = <<born + 1>> \o rows
     \/ rows # <<>> /\ rows' = SubSeq(rows, 1, Len(rows) - 1) /\ UNCHANGED born
  /\ walk' = [walk EXCEPT !.quiet = FALSE]
  /\ UNCHANGED <<accessVars, req>>

-----------------------------------------------------------------------------
(* Signing in and out                                                      *)

SignsOut ==
  /\ req.step = "handle" /\ req.route = "logout"
  /\ jar' = NoCookie /\ req' = AnsweredTo(302, "login", "base")
  /\ UNCHANGED <<setup, key, time, warned, signIns, born, rows, walk>>

ShowsLogin ==
  /\ req.step = "handle" /\ req.route = "login_page"
  /\ req' = AnsweredTo(200, "form", SanitizeReturnTo(req.arg))
  /\ UNCHANGED <<accessVars, born, rows, walk>>

\* performLogin() and its answer, for the script of the page (JSON) and for a plain form.
SignsIn(outcome, form) ==
  /\ req.step = "handle" /\ req.route = "login_submit"
  /\ LET denied(status) == IF form THEN AnsweredTo(302, "login", SanitizeReturnTo(req.arg))
                           ELSE Answered(status, "error") IN
     \/ outcome = "malformed" /\ req' = denied(400) /\ UNCHANGED <<jar, signIns, warned>>
     \/ outcome = "refused" /\ req' = denied(401) /\ UNCHANGED <<jar, signIns, warned>>
     \/ outcome = "throws" /\ req' = denied(401) /\ warned' = TRUE /\ UNCHANGED <<jar, signIns>>
     \/ /\ outcome = "accepted"
        /\ jar' = SignSessionCookie /\ signIns' = [signIns EXCEPT ![key] = time]
        /\ req' = AnsweredTo(IF form THEN 302 ELSE 200, "signed_in", SanitizeReturnTo(req.arg))
        /\ UNCHANGED warned
  /\ UNCHANGED <<setup, key, time, born, rows, walk>>
=============================================================================
