------------------------------ MODULE Console ------------------------------
(***************************************************************************)
(* The dashboard as a whole: the gate, the session, the routes and the MCP  *)
(* endpoint over one store.  A behaviour looks at the life of sessions, at  *)
(* the routes, at the pages of the table, at the section that shows them or *)
(* at the MCP endpoint; what moves around it is what that part reads.      *)
(***************************************************************************)
EXTENDS McpServer, EntriesTable

VARIABLE visit  \* what this behaviour exercises

consoleVars == <<accessVars, apiVars, call, tableVars>>

ConsoleInit ==
  /\ visit \in {"sessions", "routes", "table", "section", "mcp"}
  /\ AccessInit /\ ApiInit /\ McpInit /\ TableInit
  /\ visit = "sessions" => setup.session /\ born = 0
  /\ visit \in {"table", "section"} => ~setup.session
  /\ visit = "section" => ~setup.production

Arg(route) ==
  IF route \in PageRoutes THEN {"base", "page", "unknown", "odd"}
  ELSE IF route = "logout" THEN {"base"}
  ELSE IF route \in SignInRoutes THEN Place ELSE {"ok", "odd"}

\* A browser signs in and out, opens pages and reads; the clock and the deployment move on.
Sessions ==
  /\ visit = "sessions"
  /\ \/ AccessMoves /\ UNCHANGED apiVars
     \/ \E route \in SignInRoutes \cup PageRoutes \cup {"meta"} : \E arg \in Arg(route) :
          Arrives(route, "token", "allow", arg, 1)
     \/ SignsOut \/ ShowsLogin
     \/ \E outcome \in {"malformed", "refused", "throws", "accepted"}, form \in BOOLEAN :
          SignsIn(outcome, form)
     \/ Gate \/ SendsPage \/ AnswersAtOnce
  /\ UNCHANGED <<visit, call, tableVars>>

\* One request, on any route, with any credential or any verdict of a hook: a route keeps
\* nothing for the next request, but in the store.
Visits ==
  /\ visit = "routes"
  /\ \/ \E route \in ApiRoutes \cup PageRoutes, cred \in Credential, own \in Verdict :
          \E arg \in Arg(route), id \in IF route \in EntryRoutes THEN Row ELSE {1} :
            /\ req.route = "none"
            /\ setup.hook = "custom" => cred = "none"
            /\ setup.hook = "default" => own = "allow"
            /\ route # "entries" /\ Arrives(route, cred, own, arg, id)
     \/ Gate \/ Refuses \/ AnswersAtOnce \/ SendsPage \/ ShowsEntry \/ FindsSubject \/ StoreFails
     \/ \E outcome \in {"works", "fails"} : ActionAnswers(outcome)
     \/ \E outcome \in {"works", "missing", "fails"} : Reads(outcome)
     \/ \E outcome \in {"works", "throws_after", "fails"} : ActsOnQueue(outcome)
     \/ req.step \in {"guard", "acting"} /\ req.route \in EntryRoutes /\ StoreMoves
  /\ UNCHANGED <<visit, call, tableVars>>

\* The browser walks through the pages while entries come and go.
Browses ==
  /\ visit = "table"
  /\ \/ WalkBegins
     \/ walk.page \in 1..MaxWalkPage /\ Arrives("entries", "token", "allow", "ok", walk.page)
     \/ Gate \/ ListsEntries \/ ProbesEntries \/ StoreFails
     \/ walk.page >= 0 /\ StoreMoves
  /\ UNCHANGED <<visit, call, tableVars>>

Asks ==
  /\ visit = "mcp"
  /\ \/ McpNext /\ (call.status = 0 \/ call.step # "done")
     \/ call.step \in {"reading", "siblings"} /\ StoreMoves /\ UNCHANGED call
  /\ UNCHANGED <<visit, tableVars>>

\* The section that shows the entries, over a store that moves.
Looks ==
  /\ visit = "section"
  /\ \/ TableNext /\ UNCHANGED apiVars
     \/ section.open /\ StoreFeeds
  /\ UNCHANGED <<visit, call, accessVars>>

ConsoleNext == Sessions \/ Visits \/ Browses \/ Looks \/ Asks

ConsoleSpec == ConsoleInit /\ [][ConsoleNext]_<<visit, consoleVars>>

-----------------------------------------------------------------------------
(* Properties                                                              *)

\* Who is let in.  A guarded route answers with something of the application only when the
\* hook allowed it and, with `dashboardAuth`, the browser had signed in with the deployment
\* that judged the request, not longer ago than a session and its grace.  A browser that signed
\* in is sent to what it had asked for or to the base path, "never a protocol-relative ... or
\* absolute" target (auth.ts:101-105); more than that is not checked.  A message of the MCP
\* endpoint that was denied reads nothing and asks nothing.
OnlySignedInSee ==
  /\ req.step = "done" /\ req.route \notin SignInRoutes
       /\ (req.did > 0 \/ req.found # <<>> \/ req.reply.body \in {"data", "page", "asset", "more", "last"}) =>
       /\ req.verdict = "allow"
       /\ setup.session => /\ signIns[req.key] >= 0
                             /\ req.at - signIns[req.key] <= Ttl + Grace
  /\ req.step = "done" /\ req.reply.body \in {"form", "signed_in"} =>
       req.reply.place \in {"base", req.arg} \ {"two_slashes", "absolute"}
  /\ call.step = "done" /\ ~call.allowed =>
       call.seen = {} /\ ~call.asked /\ call.answer.kind # "result"

\* How a request that did something may be answered.
DoneStatus(route) ==
  IF route = "diagnose" THEN {200, 502}
  ELSE IF route \in {"queues_live_retry", "queues_live_enqueue"} THEN {200, 400} ELSE {200}

\* What a request changes.  Nothing is replayed, diagnosed, retried, put on a queue or armed
\* but by a request whose switch is on and whose entry is of the kind it needs; it is done at
\* most once, and a success is answered only when it was done.  What was done is answered with an
\* error in two cases: a diagnosis that failed, and a queue adapter that threw after it had
\* retried or enqueued the job, where the user is told 400 and cannot tell.  A tool that is not
\* enabled does nothing, and a message is answered unless it has no id or its method, once let
\* in, is a notification by its name.
ChangesAreAnswered ==
  /\ req.step = "done" =>
       /\ req.did <= 1
       /\ req.did = 1 =>
            /\ req.route \in ActRoutes
            /\ req.reply.status \in DoneStatus(req.route)
            /\ req.route = "replay" => "replay" \in setup.enabled /\ TypeOf[req.id] \in Replayable
            /\ req.route = "diagnose" => TypeOf[req.id] \in Diagnosable
            /\ req.route = "profiles_arm" => "arm" \in setup.enabled /\ Has("profiling")
            /\ req.route \in QueueRoutes => "queues" \in setup.enabled
       /\ req.route \in ActRoutes /\ req.reply.status = 200 /\ req.reply.body = "data" => req.did = 1
  /\ call.step = "done" =>
       /\ call.asked => "diagnose_exception" \in Tools /\ Has("diagnosis")
                          /\ TypeOf[call.row] \in Diagnosable
       /\ call.method = "tools/call" /\ call.answer.kind = "result" => call.tool \in Tools
       /\ call.status = 200 <=> call.answer # Silence
       /\ call.answer = Silence /\ call.id /\ call.status # 0 =>
            call.allowed /\ call.method = "initialized"

\* The pages of the table.  Whoever goes through them until one says there is no more has seen
\* every entry that was there when they began and still is, whatever was recorded at the front
\* or pruned at the end in between; if nothing moved they saw each once, newest first, and no
\* page but the first was empty.
PagesMissNothing ==
  walk.page = -1 =>
    LET shown == {walk.seen[i] : i \in DOMAIN walk.seen} IN
    /\ walk.first \cap {rows[i] : i \in DOMAIN rows} \subseteq shown
    /\ walk.quiet => walk.seen = rows /\ (req.id > 1 => req.found # <<>>)
=============================================================================
