---------------------------- MODULE ConsoleProofs ----------------------------
(***************************************************************************)
(* Proofs about the dashboard and its MCP endpoint, for any configurations, *)
(* lifetimes of a session, keys, rows and page size: who is let in, what a  *)
(* request changes, that a walk through the pages misses nothing and that   *)
(* the section shows what its filter finds.                                *)
(***************************************************************************)
EXTENDS Console, SequenceLemmas

-----------------------------------------------------------------------------
(* Types                                                                   *)

Cookie == [key : 0 .. MaxKey, iat : Int, exp : Int]
RowId == Row \cup Nat
Route == {"none"} \cup SignInRoutes \cup PageRoutes \cup ApiRoutes
Argument == Place \cup {"ok", "odd", "unknown"}
Step == {"guard", "handle", "acting", "probing", "done"}
Body == {"none", "host", "error", "denied_page", "login", "form", "signed_in",
         "data", "page", "asset", "more", "last"}
Answering == [status : Nat, body : Body, place : Argument \cup {"none"}]
Request == [route : Route, cred : Credential, own : Verdict, cookie : Cookie, arg : Argument,
            id : RowId, step : Step, verdict : Verdict \cup {"none"}, at : Nat,
            key : 0 .. MaxKey, found : Seq(RowId), did : {0, 1}, reply : Answering]
Walk == [page : Int, seen : Seq(RowId), first : SUBSET RowId, quiet : BOOLEAN]

AccessShape ==
  /\ setup \in Setups /\ key \in 1 .. MaxKey /\ time \in Nat /\ jar \in Cookie
  /\ signIns \in [1 .. MaxKey -> Nat \cup {-1}]
ApiShape ==
  /\ born \in Nat /\ rows \in Seq(RowId) /\ req \in Request /\ walk \in Walk
  /\ req.route = "entries" => req.id \in Nat \ {0}

LEMMA NoCookieIsOne == NoCookie \in Cookie
  BY AccessAssumption DEF NoCookie, Cookie

LEMMA NoReqIsOne == NoReq \in Request
  <1>1. NoCookie \in Cookie /\ 0 \in RowId /\ 0 \in 0 .. MaxKey
    BY NoCookieIsOne, AccessAssumption DEF RowId
  <1>2. <<>> \in Seq(RowId)
    BY EmptySeq
  <1>3. NoReply \in Answering
    BY DEF NoReply, Reply, Answering, Body
  <1>4. "none" \in Route /\ "none" \in Credential /\ "allow" \in Verdict /\ "ok" \in Argument
        /\ "done" \in Step
    BY DEF Route, Credential, Verdict, Argument, Step
  <1>. QED
    BY <1>1, <1>2, <1>3, <1>4 DEF NoReq, Request

\* A hook's answer is a verdict, and only one of them lets in.
LEMMA Verdicts ==
  ASSUME NEW cred \in Credential, NEW own \in Verdict
  PROVE  /\ Authorize(cred, own) \in Verdict
         /\ RunGuard(Authorize(cred, own)) = 200 => Authorize(cred, own) = "allow"
  BY DEF Authorize, RunGuard, Verdict

\* A request that is answered keeps everything but its step and its reply.
LEMMA AnswerKeeps ==
  ASSUME NEW status \in Nat, NEW body \in Body, NEW place \in Argument \cup {"none"},
         req \in Request
  PROVE  /\ AnsweredTo(status, body, place) \in Request
         /\ AnsweredTo(status, body, place)
              = [req EXCEPT !.step = "done",
                            !.reply = [status |-> status, body |-> body, place |-> place]]
         /\ Answered(status, body) = AnsweredTo(status, body, "none")
  BY DEF AnsweredTo, Answered, ReplyTo, Reply, Request, Answering, Step

-----------------------------------------------------------------------------
(* The refusals of a handler                                               *)

\* The table of refusals, row by row.
LEMMA RefusalRows ==
  ASSUME NEW q
  PROVE  /\ DOMAIN Refusals(q) = 1 .. 12
         /\ \A i \in 1 .. 12 : Refusals(q)[i].status \in {400, 403, 404, 501}
         /\ Refusals(q)[1].when <=> q.route = "replay" /\ "replay" \notin setup.enabled
         /\ Refusals(q)[2].when <=> q.route = "profiles_arm" /\ "arm" \notin setup.enabled
         /\ Refusals(q)[3].when <=> /\ q.route \in {"queues_live_retry", "queues_live_enqueue"}
                                    /\ "queues" \notin setup.enabled
         /\ Refusals(q)[6].when <=> q.route = "profiles_arm" /\ ~ Has("profiling")
  <1>1. DOMAIN Refusals(q) = 1 .. 12
    BY DEF Refusals
  <1>2. \A i \in 1 .. 12 : Refusals(q)[i].status \in {400, 403, 404, 501}
    <2>1. /\ Refusals(q)[1].status = 403 /\ Refusals(q)[2].status = 403
          /\ Refusals(q)[3].status = 403 /\ Refusals(q)[4].status = 404
          /\ Refusals(q)[5].status = 404 /\ Refusals(q)[6].status = 400
          /\ Refusals(q)[7].status = 404 /\ Refusals(q)[8].status = 501
          /\ Refusals(q)[9].status = 501 /\ Refusals(q)[10].status = 404
          /\ Refusals(q)[11].status = 404 /\ Refusals(q)[12].status = 400
      BY DEF Refusals
    <2>2. \A i \in 1 .. 12 : \/ i = 1 \/ i = 2 \/ i = 3 \/ i = 4 \/ i = 5 \/ i = 6
                               \/ i = 7 \/ i = 8 \/ i = 9 \/ i = 10 \/ i = 11 \/ i = 12
      OBVIOUS
    <2>. QED
      BY <2>1, <2>2
  <1>3. Refusals(q)[1].when <=> q.route = "replay" /\ "replay" \notin setup.enabled
    BY DEF Refusals
  <1>4. Refusals(q)[2].when <=> q.route = "profiles_arm" /\ "arm" \notin setup.enabled
    BY DEF Refusals
  <1>5. Refusals(q)[3].when <=> /\ q.route \in {"queues_live_retry", "queues_live_enqueue"}
                                /\ "queues" \notin setup.enabled
    BY DEF Refusals
  <1>6. Refusals(q)[6].when <=> q.route = "profiles_arm" /\ ~ Has("profiling")
    BY DEF Refusals
  <1>. QED
    BY <1>1, <1>2, <1>3, <1>4, <1>5, <1>6

\* What a handler that was not refused may count on.
LEMMA NotRefused ==
  ASSUME NEW q, RefusesBy(q) = {}
  PROVE  /\ q.route = "replay" => "replay" \in setup.enabled
         /\ q.route = "profiles_arm" => "arm" \in setup.enabled /\ Has("profiling")
         /\ q.route \in {"queues_live_retry", "queues_live_enqueue"} => "queues" \in setup.enabled
  <1>1. \A i \in DOMAIN Refusals(q) : ~ Refusals(q)[i].when
    BY DEF RefusesBy
  <1>2. DOMAIN Refusals(q) = 1 .. 12
    BY RefusalRows
  <1>3. ~ Refusals(q)[1].when /\ ~ Refusals(q)[2].when /\ ~ Refusals(q)[3].when /\ ~ Refusals(q)[6].when
    BY <1>1, <1>2
  <1>. QED
    BY <1>3, RefusalRows, ZenonT(60)

LEMMA RefusalIsAnError ==
  ASSUME NEW q, RefusesBy(q) # {}
  PROVE  Refusal(q) \in {400, 403, 404, 501}
  <1>1. RefusesBy(q) \subseteq 1 .. 12
    BY RefusalRows DEF RefusesBy
  <1>2. \E i \in RefusesBy(q) : \A j \in RefusesBy(q) : i <= j
    BY <1>1, NaturalsHaveMin
  <1>3. PICK i \in RefusesBy(q) : Refusal(q) = Refusals(q)[i].status
    BY <1>2 DEF Refusal
  <1>4. \A j \in 1 .. 12 : Refusals(q)[j].status \in {400, 403, 404, 501}
    BY RefusalRows, ZenonT(60)
  <1>. QED
    BY <1>1, <1>3, <1>4

-----------------------------------------------------------------------------
(* The kinds of steps                                                      *)

\* A request arrives; a route that signs in or out is reached with a place to go back to, and
\* the entries with a page.
Comes ==
  \E route \in Route, cred \in Credential, own \in Verdict, arg \in Argument, id \in RowId :
    /\ route \in SignInRoutes => arg \in Place
    /\ route = "entries" => id \in Nat \ {0}
    /\ Arrives(route, cred, own, arg, id)

\* A handler takes a request on, behind the gate.
Handles ==
  \/ Refuses \/ AnswersAtOnce \/ SendsPage \/ ShowsEntry \/ FindsSubject \/ StoreFails
  \/ \E outcome \in {"works", "fails"} : ActionAnswers(outcome)
  \/ \E outcome \in {"works", "missing", "fails"} : Reads(outcome)
  \/ \E outcome \in {"works", "throws_after", "fails"} : ActsOnQueue(outcome)
  \/ ListsEntries \/ ProbesEntries

Signs ==
  \/ SignsOut \/ ShowsLogin
  \/ \E outcome \in {"malformed", "refused", "throws", "accepted"}, form \in BOOLEAN :
       SignsIn(outcome, form)

\* What happens between two steps of a request.
Passing ==
  /\ UNCHANGED req
  /\ \/ AccessMoves /\ UNCHANGED apiVars
     \/ UNCHANGED accessVars /\ (WalkBegins \/ StoreMoves \/ UNCHANGED apiVars)

LEMMA SessionsAreKinds == Sessions => Comes \/ Gate \/ Handles \/ Signs \/ Passing
  <1>. SUFFICES ASSUME Sessions PROVE Comes \/ Gate \/ Handles \/ Signs \/ Passing
    OBVIOUS
  <1>1. CASE AccessMoves /\ UNCHANGED apiVars
    BY <1>1 DEF Passing, apiVars
  <1>2. ASSUME NEW route \in SignInRoutes \cup PageRoutes \cup {"meta"}, NEW arg \in Arg(route),
               Arrives(route, "token", "allow", arg, 1)
        PROVE  Comes
    <2>1. route \in Route /\ route # "entries"
      BY DEF Route, ApiRoutes, TurnRoutes, SignInRoutes, PageRoutes
    <2>2. arg \in Argument /\ (route \in SignInRoutes => arg \in Place)
      BY DEF Arg, Argument, Place, SignInRoutes, PageRoutes
    <2>3. "token" \in Credential /\ "allow" \in Verdict /\ 1 \in RowId
      BY DEF Credential, Verdict, RowId
    <2>. QED
      BY <1>2, <2>1, <2>2, <2>3 DEF Comes
  <1>. QED
    BY <1>1, <1>2 DEF Sessions, Signs, Handles

LEMMA VisitsAreKinds == Visits => Comes \/ Gate \/ Handles \/ Passing
  <1>. SUFFICES ASSUME Visits PROVE Comes \/ Gate \/ Handles \/ Passing
    OBVIOUS
  <1>1. ASSUME NEW route \in ApiRoutes \cup PageRoutes, NEW cred \in Credential, NEW own \in Verdict,
               NEW arg \in Arg(route), NEW id \in IF route \in EntryRoutes THEN Row ELSE {1},
               route # "entries", Arrives(route, cred, own, arg, id)
        PROVE  Comes
    <2>1. route \in Route
      BY DEF Route
    <2>2. arg \in Argument /\ (route \in SignInRoutes => arg \in Place)
      BY DEF Arg, Argument, Place, SignInRoutes, PageRoutes
    <2>3. id \in RowId
      BY DEF RowId
    <2>. QED
      BY <1>1, <2>1, <2>2, <2>3 DEF Comes
  <1>2. CASE StoreMoves
    BY <1>2 DEF StoreMoves, Passing
  <1>. QED
    BY <1>1, <1>2 DEF Visits, Handles

LEMMA BrowsesAreKinds == Browses => Comes \/ Gate \/ Handles \/ Passing
  <1>. SUFFICES ASSUME Browses PROVE Comes \/ Gate \/ Handles \/ Passing
    OBVIOUS
  <1>1. CASE walk.page \in 1 .. MaxWalkPage /\ Arrives("entries", "token", "allow", "ok", walk.page)
    <2>1. "entries" \in Route /\ "token" \in Credential /\ "allow" \in Verdict /\ "ok" \in Argument
      BY DEF Route, ApiRoutes, Credential, Verdict, Argument
    <2>2. walk.page \in RowId /\ "entries" \notin SignInRoutes
      BY <1>1 DEF RowId, SignInRoutes
    <2>. QED
      BY <1>1, <2>1, <2>2 DEF Comes
  <1>2. CASE WalkBegins
    BY <1>2 DEF WalkBegins, Passing
  <1>3. CASE StoreMoves
    BY <1>3 DEF StoreMoves, Passing
  <1>. QED
    BY <1>1, <1>2, <1>3 DEF Browses, Handles

LEMMA LooksArePassing == Looks => Passing
  <1>. SUFFICES ASSUME Looks PROVE Passing
    OBVIOUS
  <1>1. CASE TableNext /\ UNCHANGED apiVars
    BY <1>1 DEF Looks, Passing, apiVars
  <1>2. CASE StoreFeeds
    BY <1>2 DEF StoreFeeds, StoreMoves, Passing
  <1>. QED
    BY <1>1, <1>2 DEF Looks

\* A message of the endpoint leaves the dashboard and its store alone.
LEMMA McpKeepsStore == McpNext => UNCHANGED <<accessVars, apiVars>>
  <1>1. ASSUME NEW id, NEW args, NEW method, NEW cred, NEW tool, NEW row,
               McpArrives(id, method, tool, args, row, cred, "deny")
        PROVE  UNCHANGED <<accessVars, apiVars>>
    BY <1>1 DEF McpArrives
  <1>2. McpHandles => UNCHANGED <<accessVars, apiVars>>
    BY DEF McpHandles
  <1>3. ASSUME NEW outcome, McpReads(outcome) \/ McpSiblings(outcome) \/ McpSettles(outcome)
        PROVE  UNCHANGED <<accessVars, apiVars>>
    BY <1>3 DEF McpReads, McpSiblings, McpSettles
  <1>. QED
    BY <1>1, <1>2, <1>3 DEF McpNext

LEMMA AsksArePassing == Asks => Passing
  BY McpKeepsStore DEF Asks, StoreMoves, Passing, apiVars

\* Every step is of one kind.
LEMMA StepKinds ==
  [ConsoleNext]_<<visit, consoleVars>> => Comes \/ Gate \/ Handles \/ Signs \/ Passing
  <1>1. UNCHANGED <<visit, consoleVars>> => Passing
    BY DEF consoleVars, apiVars, Passing
  <1>. QED
    BY <1>1, SessionsAreKinds, VisitsAreKinds, BrowsesAreKinds, LooksArePassing, AsksArePassing
    DEF ConsoleNext

-----------------------------------------------------------------------------
(* What a step does to the request                                         *)

\* The bodies of a handler behind the gate.
Answers == {"error", "data", "page", "asset", "more", "last"}

\* A request that its handler took on: who asked, what and how it was judged stay.
Onward(q) ==
  /\ q \in Request /\ q.step \in {"acting", "probing", "done"}
  /\ q.route = req.route /\ q.id = req.id /\ q.arg = req.arg /\ q.cookie = req.cookie
  /\ q.verdict = req.verdict /\ q.at = req.at /\ q.key = req.key
  /\ q.step = "done" => q.reply.body \in Answers

LEMMA AnsweredIsOnward ==
  ASSUME req \in Request, NEW status \in Nat, NEW body \in Answers
  PROVE  /\ Onward(Answered(status, body))
         /\ Answered(status, body) \in Request
         /\ Answered(status, body).step = "done" /\ Answered(status, body).did = req.did
         /\ Answered(status, body).found = req.found
         /\ Answered(status, body).reply.status = status
         /\ Answered(status, body).reply.body = body
  <1>1. body \in Body /\ "none" \in Argument \cup {"none"}
    BY DEF Body, Answers
  <1>2. /\ Answered(status, body) \in Request
        /\ Answered(status, body)
             = [req EXCEPT !.step = "done",
                           !.reply = [status |-> status, body |-> body, place |-> "none"]]
    BY <1>1 DEF Answered, Reply, Request, Answering, Step
  <1>. QED
    BY <1>2 DEF Onward, Request

LEMMA DoesIsOnward ==
  ASSUME NEW q \in Request, Onward(q), NEW n \in {0, 1}
  PROVE  /\ Onward([q EXCEPT !.did = n]) /\ [q EXCEPT !.did = n].did = n
         /\ [q EXCEPT !.did = n].found = q.found /\ [q EXCEPT !.did = n].reply = q.reply
         /\ [q EXCEPT !.did = n].step = q.step
  BY DEF Onward, Request

LEMMA FindsIsOnward ==
  ASSUME NEW q \in Request, Onward(q), NEW s \in Seq(RowId)
  PROVE  /\ Onward([q EXCEPT !.found = s]) /\ [q EXCEPT !.found = s].found = s
         /\ [q EXCEPT !.found = s].did = q.did /\ [q EXCEPT !.found = s].reply = q.reply
         /\ [q EXCEPT !.found = s].step = q.step
  BY DEF Onward, Request

\* A page is rows of the store.
LEMMA PageIsRows ==
  ASSUME rows \in Seq(RowId), NEW page \in Nat \ {0}, NEW size \in Nat \ {0}
  PROVE  RowsAt(page, size) \in Seq(RowId)
  <1>1. PICK a \in Nat : a = (page - 1) * size
    OBVIOUS
  <1>2. PICK b \in Nat : b = page * size
    OBVIOUS
  <1>3. PICK n \in Nat : n = Len(rows)
    BY LenProperties
  <1>4. PICK c \in Nat : c = IF b <= n THEN b ELSE n
    OBVIOUS
  <1>5. RowsAt(page, size) = IF a >= n THEN <<>> ELSE SubSeq(rows, a + 1, c)
    BY <1>1, <1>2, <1>3, <1>4 DEF RowsAt
  <1>6. SubSeq(rows, a + 1, c) \in Seq(RowId)
    <2>1. \A i \in a + 1 .. c : rows[i] \in RowId
      <3>1. \A i \in 1 .. n : rows[i] \in RowId
        BY <1>3, LenProperties
      <3>2. \A i \in a + 1 .. c : i \in 1 .. n
        BY <1>4
      <3>. QED
        BY <3>1, <3>2
    <2>2. a + 1 \in Int /\ c \in Int
      OBVIOUS
    <2>. QED
      BY <2>1, <2>2, SubSeqProperties
  <1>. QED
    BY <1>5, <1>6, EmptySeq

\* What a request that does something was allowed to do.
Allowed ==
  /\ req.route \in ActRoutes
  /\ req.route = "replay" => "replay" \in setup.enabled /\ TypeOf[req.id] \in Replayable
  /\ req.route = "diagnose" => TypeOf[req.id] \in Diagnosable
  /\ req.route = "profiles_arm" => "arm" \in setup.enabled /\ Has("profiling")
  /\ req.route \in QueueRoutes => "queues" \in setup.enabled

\* What a request did so far, by how far it is.
ActInv ==
  /\ req.step \in {"guard", "handle", "probing"} => req.did = 0
  /\ req.step = "probing" => req.route = "entries"
  /\ req.step = "acting" => req.did = 1 /\ req.route \in {"replay", "diagnose"}
  /\ req.did = 1 => Allowed
  /\ req.step = "done" /\ req.did = 1 => req.reply.status \in DoneStatus(req.route)
  /\ req.step = "done" /\ req.route \in ActRoutes /\ req.reply.status = 200 /\ req.reply.body = "data" =>
       req.did = 1

Quietly == setup' = setup /\ UNCHANGED <<accessVars, born, rows>>

\* A handler that answers and has changed nothing.
LEMMA AnswersActNot ==
  ASSUME ApiShape, ActInv, setup' = setup, Onward(req'), req'.did = 0, req'.step = "done",
         \/ req.route \notin ActRoutes
         \/ req'.reply.status # 200
         \/ req'.reply.body # "data"
  PROVE  ActInv'
  BY DEF ActInv, Onward

LEMMA RefusesActs ==
  ASSUME ApiShape, ActInv, Refuses
  PROVE  Onward(req') /\ ActInv' /\ Quietly /\ walk' \in Walk
  <1>1. PICK status \in {400, 403, 404, 501} : status = Refusal(req)
    BY RefusalIsAnError DEF Refuses
  <1>2. /\ req \in Request /\ req' = Answered(status, "error") /\ req.step = "handle"
        /\ Quietly /\ walk' = walk /\ walk \in Walk
    BY <1>1 DEF Refuses, ApiShape, Quietly, accessVars
  <1>3. Onward(req') /\ req'.did = req.did /\ req'.step = "done" /\ req'.reply.status = status
    <2>1. status \in Nat /\ "error" \in Answers
      BY DEF Answers
    <2>2. Onward(Answered(status, "error")) /\ Answered(status, "error").did = req.did
          /\ Answered(status, "error").step = "done" /\ Answered(status, "error").reply.status = status
      BY <1>2, <2>1, AnsweredIsOnward
    <2>. QED
      BY <1>2, <2>2
  <1>4. req.did = 0
    BY <1>2 DEF ActInv
  <1>. QED
    BY <1>2, <1>3, <1>4, AnswersActNot DEF Quietly

\* A handler whose answer comes at once or after a read.
LEMMA ReadersActNot ==
  ASSUME ApiShape, ActInv, Quietly, walk' = walk, req.step = "handle", NEW status \in Nat,
         NEW body \in Answers, NEW s \in Seq(RowId),
         \/ req' = Answered(status, body)
         \/ req' = [Answered(status, body) EXCEPT !.found = s],
         \/ req.route \notin ActRoutes
         \/ status # 200
  PROVE  Onward(req') /\ ActInv' /\ walk' \in Walk
  <1>1. req \in Request /\ walk \in Walk
    BY DEF ApiShape
  <1>2. /\ Onward(Answered(status, body)) /\ Answered(status, body) \in Request
        /\ Answered(status, body).did = req.did /\ Answered(status, body).step = "done"
        /\ Answered(status, body).reply.status = status
    BY <1>1, AnsweredIsOnward
  <1>3. Onward(req') /\ req'.did = req.did /\ req'.step = "done" /\ req'.reply.status = status
    <2>1. PICK q \in Request : q = Answered(status, body)
      BY <1>2
    <2>2. /\ Onward([q EXCEPT !.found = s]) /\ [q EXCEPT !.found = s].did = q.did
          /\ [q EXCEPT !.found = s].reply = q.reply /\ [q EXCEPT !.found = s].step = q.step
      BY <1>2, <2>1, FindsIsOnward
    <2>3. req' = q \/ req' = [q EXCEPT !.found = s]
      BY <2>1
    <2>. QED
      BY <1>2, <2>1, <2>2, <2>3, ZenonT(60)
  <1>4. req.did = 0
    BY DEF ActInv
  <1>. QED
    BY <1>1, <1>3, <1>4, AnswersActNot DEF Quietly

LEMMA SendsPageActs ==
  ASSUME ApiShape, ActInv, SendsPage
  PROVE  Onward(req') /\ ActInv' /\ Quietly /\ walk' \in Walk
  <1>1. /\ Quietly /\ walk' = walk /\ req.step = "handle" /\ req.route \notin ActRoutes
        /\ req \in Request
    BY DEF SendsPage, Passes, Quietly, accessVars, PageRoutes, ActRoutes, ApiShape
  <1>2. PICK status \in Nat, body \in Answers : req' = Answered(status, body)
    BY DEF SendsPage, Answers
  <1>3. <<>> \in Seq(RowId)
    BY EmptySeq
  <1>. QED
    BY <1>1, <1>2, <1>3, ReadersActNot

LEMMA ShowsEntryActs ==
  ASSUME ApiShape, ActInv, ShowsEntry
  PROVE  Onward(req') /\ ActInv' /\ Quietly /\ walk' \in Walk
  <1>1. /\ Quietly /\ walk' = walk /\ req.step = "handle" /\ req.route \notin ActRoutes
        /\ req \in Request
    BY DEF ShowsEntry, Passes, Quietly, accessVars, ActRoutes, ApiShape
  <1>2. <<req.id>> \in Seq(RowId)
    BY <1>1 DEF Request
  <1>3. /\ "error" \in Answers /\ "data" \in Answers
        /\ \/ req' = Answered(404, "error")
           \/ req' = [Answered(200, "data") EXCEPT !.found = <<req.id>>]
    BY DEF ShowsEntry, Answers
  <1>4. PICK status \in Nat, body \in Answers :
          req' = Answered(status, body) \/ req' = [Answered(status, body) EXCEPT !.found = <<req.id>>]
    BY <1>3
  <1>. QED
    BY <1>1, <1>2, <1>4, ReadersActNot

LEMMA ReadsAct ==
  ASSUME ApiShape, ActInv, NEW outcome, Reads(outcome)
  PROVE  Onward(req') /\ ActInv' /\ Quietly /\ walk' \in Walk
  <1>1. /\ Quietly /\ walk' = walk /\ req.step = "handle" /\ req.route \notin ActRoutes
        /\ rows \in Seq(RowId)
    BY DEF Reads, Passes, Quietly, accessVars, ActRoutes, ReadRoutes, WindowRoutes, ApiShape
  <1>2. /\ "error" \in Answers /\ "data" \in Answers
        /\ \/ \E status \in {400, 404, 500} : req' = Answered(status, "error")
           \/ req' = [Answered(200, "data") EXCEPT !.found = rows]
    BY DEF Reads, Answers
  <1>3. PICK status \in Nat, body \in Answers :
          req' = Answered(status, body) \/ req' = [Answered(status, body) EXCEPT !.found = rows]
    <2>1. CASE \E status \in {400, 404, 500} : req' = Answered(status, "error")
      BY <1>2, <2>1
    <2>2. CASE req' = [Answered(200, "data") EXCEPT !.found = rows]
      <3>1. 200 \in Nat /\ "data" \in Answers
        BY <1>2
      <3>. QED
        BY <2>2, <3>1
    <2>. QED
      BY <1>2, <2>1, <2>2
  <1>. QED
    BY <1>1, <1>3, ReadersActNot

\* Something is done, in the one turn of the request that answers it.
LEMMA DoesAct ==
  ASSUME ApiShape, ActInv, Quietly, walk' = walk, req.step = "handle",
         req.route \in {"profiles_arm", "queues_live_retry", "queues_live_enqueue"},
         RefusesBy(req) = {}, NEW status \in Nat, status \in DoneStatus(req.route),
         NEW body \in Answers, req' = [Answered(status, body) EXCEPT !.did = 1]
  PROVE  Onward(req') /\ ActInv' /\ walk' \in Walk
  <1>1. req \in Request /\ walk \in Walk
    BY DEF ApiShape
  <1>2. PICK q \in Request : /\ q = Answered(status, body) /\ Onward(q) /\ q.step = "done"
                             /\ q.reply.status = status
    BY <1>1, AnsweredIsOnward
  <1>3. Onward(req') /\ req'.did = 1 /\ req'.step = "done" /\ req'.reply.status = status
    BY <1>2, DoesIsOnward, ZenonT(60)
  <1>4. Allowed
    BY NotRefused DEF Allowed, ActRoutes, QueueRoutes
  <1>5. Allowed'
    BY <1>3, <1>4 DEF Allowed, Onward, Quietly, Has
  <1>. QED
    BY <1>1, <1>3, <1>5 DEF ActInv, Onward

LEMMA AnswersAtOnceActs ==
  ASSUME ApiShape, ActInv, AnswersAtOnce
  PROVE  Onward(req') /\ ActInv' /\ Quietly /\ walk' \in Walk
  <1>1. /\ Quietly /\ walk' = walk /\ req.step = "handle" /\ RefusesBy(req) = {}
        /\ req \in Request /\ walk \in Walk
    BY DEF AnswersAtOnce, Passes, Quietly, accessVars, ApiShape
  <1>2. CASE req.route = "profiles_arm"
    <2>1. 200 \in Nat /\ 200 \in DoneStatus(req.route) /\ "data" \in Answers
      BY <1>2 DEF DoneStatus, Answers
    <2>2. req' = [Answered(200, "data") EXCEPT !.did = 1]
      BY <1>2 DEF AnswersAtOnce
    <2>. QED
      BY <1>1, <1>2, <2>1, <2>2, DoesAct
  <1>3. CASE req.route # "profiles_arm"
    <2>1. req.route \notin ActRoutes /\ "data" \in Answers
      BY <1>3 DEF AnswersAtOnce, Passes, TurnRoutes, ActRoutes, Answers
    <2>2. PICK q \in Request : /\ q = Answered(200, "data") /\ Onward(q) /\ q.step = "done"
                               /\ q.reply.status = 200
      BY <1>1, <2>1, AnsweredIsOnward
    <2>3. req' = [q EXCEPT !.did = 0]
      BY <1>3, <2>2 DEF AnswersAtOnce
    <2>4. Onward(req') /\ req'.did = 0 /\ req'.step = "done"
      BY <2>2, <2>3, DoesIsOnward, ZenonT(60)
    <2>. QED
      BY <1>1, <2>1, <2>4, AnswersActNot DEF Quietly
  <1>. QED
    BY <1>2, <1>3

LEMMA ActsOnQueueActs ==
  ASSUME ApiShape, ActInv, NEW outcome, ActsOnQueue(outcome)
  PROVE  Onward(req') /\ ActInv' /\ Quietly /\ walk' \in Walk
  <1>1. /\ Quietly /\ walk' = walk /\ req.step = "handle" /\ RefusesBy(req) = {}
        /\ req.route \in {"queues_live_retry", "queues_live_enqueue"}
    BY DEF ActsOnQueue, Passes, Quietly, accessVars
  <1>2. /\ "data" \in Answers /\ "error" \in Answers /\ req \in Request /\ walk \in Walk
        /\ 200 \in DoneStatus(req.route) /\ 400 \in DoneStatus(req.route)
    BY <1>1 DEF Answers, DoneStatus, ApiShape
  <1>3. CASE outcome = "fails"
    <2>1. req' = [Answered(400, "error") EXCEPT !.did = 0]
      BY <1>3 DEF ActsOnQueue
    <2>2. PICK q \in Request : /\ q = Answered(400, "error") /\ Onward(q) /\ q.step = "done"
                               /\ q.reply.status = 400
      <3>1. PICK status \in Nat : status = 400
        OBVIOUS
      <3>2. PICK body \in Answers : body = "error"
        BY <1>2
      <3>. QED
        BY <1>2, <3>1, <3>2, AnsweredIsOnward
    <2>3. Onward(req') /\ req'.did = 0 /\ req'.step = "done" /\ req'.reply.status = 400
      BY <2>1, <2>2, DoesIsOnward, ZenonT(60)
    <2>. QED
      BY <1>1, <1>2, <2>3, AnswersActNot DEF Quietly
  <1>4. CASE outcome # "fails"
    <2>1. PICK status \in Nat, body \in Answers :
            /\ status \in DoneStatus(req.route)
            /\ req' = [Answered(status, body) EXCEPT !.did = 1]
      BY <1>2, <1>4 DEF ActsOnQueue
    <2>. QED
      BY <1>1, <2>1, DoesAct
  <1>. QED
    BY <1>3, <1>4

LEMMA FindsSubjectActs ==
  ASSUME ApiShape, ActInv, FindsSubject
  PROVE  Onward(req') /\ ActInv' /\ Quietly /\ walk' \in Walk
  <1>1. /\ Quietly /\ walk' = walk /\ req.step = "handle" /\ RefusesBy(req) = {}
        /\ req.route \in {"replay", "diagnose"} /\ req \in Request /\ walk \in Walk
    BY DEF FindsSubject, Passes, Quietly, accessVars, ApiShape
  <1>2. CASE Finds(req.route) = {}
    <2>1. PICK status \in Nat, body \in Answers : req' = Answered(status, body) /\ status # 200
      BY <1>2 DEF FindsSubject, Answers
    <2>2. <<>> \in Seq(RowId)
      BY EmptySeq
    <2>. QED
      BY <1>1, <2>1, <2>2, ReadersActNot
  <1>3. CASE Finds(req.route) # {}
    <2>1. req' = [req EXCEPT !.step = "acting", !.found = <<req.id>>, !.did = 1]
      BY <1>3 DEF FindsSubject
    <2>2. <<req.id>> \in Seq(RowId)
      BY <1>1 DEF Request
    <2>3. Onward(req') /\ req'.did = 1 /\ req'.step = "acting"
      BY <1>1, <2>1, <2>2 DEF Onward, Request, Step
    <2>4. TypeOf[req.id] \in IF req.route = "replay" THEN Replayable ELSE Diagnosable
      BY <1>3 DEF Finds
    <2>5. Allowed
      BY <1>1, <2>4, NotRefused DEF Allowed, ActRoutes, QueueRoutes
    <2>6. Allowed'
      BY <1>1, <2>3, <2>5 DEF Allowed, Onward, Quietly, Has
    <2>. QED
      BY <1>1, <2>3, <2>6 DEF ActInv, Onward
  <1>. QED
    BY <1>2, <1>3

LEMMA ActionAnswersActs ==
  ASSUME ApiShape, ActInv, NEW outcome, ActionAnswers(outcome)
  PROVE  Onward(req') /\ ActInv' /\ Quietly /\ walk' \in Walk
  <1>1. /\ Quietly /\ walk' = walk /\ req.step = "acting" /\ req \in Request /\ walk \in Walk
    BY DEF ActionAnswers, Quietly, accessVars, ApiShape
  <1>2. req.did = 1 /\ Allowed /\ req.route \in {"replay", "diagnose"}
    BY <1>1 DEF ActInv
  <1>3. PICK status \in Nat, body \in Answers :
          /\ req' = Answered(status, body)
          /\ status \in DoneStatus(req.route)
    BY <1>2 DEF ActionAnswers, Answers, DoneStatus
  <1>4. /\ Onward(req') /\ req'.did = 1 /\ req'.step = "done" /\ req'.reply.status = status
    BY <1>1, <1>2, <1>3, AnsweredIsOnward, ZenonT(60)
  <1>5. Allowed'
    BY <1>1, <1>2, <1>4 DEF Allowed, Onward, Quietly, Has
  <1>. QED
    BY <1>1, <1>3, <1>4, <1>5 DEF ActInv, Onward

LEMMA StoreFailsActs ==
  ASSUME ApiShape, ActInv, StoreFails
  PROVE  Onward(req') /\ ActInv' /\ Quietly /\ walk' \in Walk
  <1>1. /\ Quietly /\ req \in Request /\ walk' = walk /\ walk \in Walk /\ req.did = 0
        /\ req' = Answered(500, "error") /\ "error" \in Answers
    BY DEF StoreFails, Passes, Quietly, accessVars, ApiShape, ActInv, Answers
  <1>2. Onward(req') /\ req'.did = 0 /\ req'.step = "done" /\ req'.reply.status = 500
    BY <1>1, AnsweredIsOnward
  <1>. QED
    BY <1>1, <1>2, AnswersActNot DEF Quietly

LEMMA ListsEntriesActs ==
  ASSUME ApiShape, ActInv, ListsEntries
  PROVE  Onward(req') /\ ActInv' /\ Quietly /\ walk' \in Walk
  <1>1. /\ Quietly /\ req.step = "handle" /\ req.route = "entries" /\ req \in Request
        /\ walk \in Walk /\ req.route \notin ActRoutes /\ "data" # "last"
    BY DEF ListsEntries, Passes, Quietly, accessVars, ApiShape, ActRoutes
  <1>2. PICK page : page = RowsAt(req.id, RowsPerPage) /\ page \in Seq(RowId)
    BY <1>1, PageIsRows, DashboardApiAssumption DEF ApiShape
  <1>3. CASE Len(page) = RowsPerPage
    <2>1. req' = [req EXCEPT !.step = "probing", !.found = page] /\ walk' = walk
      BY <1>2, <1>3 DEF ListsEntries
    <2>2. Onward(req') /\ req'.did = req.did /\ req'.step = "probing"
      BY <1>1, <1>2, <2>1 DEF Onward, Request, Step
    <2>. QED
      BY <1>1, <2>1, <2>2 DEF ActInv, Onward
  <1>4. CASE Len(page) # RowsPerPage
    <2>1. /\ req' = [Answered(200, "last") EXCEPT !.found = page]
          /\ walk' = [walk EXCEPT !.page = -1, !.seen = @ \o page]
      BY <1>2, <1>4 DEF ListsEntries
    <2>2. PICK q \in Request : /\ q = Answered(200, "last") /\ Onward(q) /\ q.step = "done"
                               /\ q.did = req.did
      <3>1. "last" \in Answers
        BY DEF Answers
      <3>. QED
        BY <1>1, <3>1, AnsweredIsOnward
    <2>3. Onward(req') /\ req'.did = req.did /\ req'.step = "done"
      BY <1>2, <2>1, <2>2, FindsIsOnward
    <2>4. PICK s \in Seq(RowId) : s = walk.seen \o page
      BY <1>1, <1>2, ConcatProperties DEF Walk
    <2>5. walk' \in Walk
      <3>1. PICK n \in Int : n = -1
        OBVIOUS
      <3>2. walk' = [walk EXCEPT !.page = n, !.seen = s]
        BY <1>1, <2>1, <2>4, <3>1 DEF Walk
      <3>. QED
        BY <1>1, <2>4, <3>2 DEF Walk
    <2>6. req.did = 0
      BY <1>1 DEF ActInv
    <2>. QED
      BY <1>1, <2>3, <2>5, <2>6, AnswersActNot DEF Quietly
  <1>. QED
    BY <1>3, <1>4

LEMMA ProbesEntriesActs ==
  ASSUME ApiShape, ActInv, ProbesEntries
  PROVE  Onward(req') /\ ActInv' /\ Quietly /\ walk' \in Walk
  <1>1. /\ Quietly /\ req.step = "probing" /\ req.route = "entries" /\ req \in Request
        /\ walk \in Walk /\ req.route \notin ActRoutes /\ req.did = 0
    BY DEF ProbesEntries, Quietly, accessVars, ApiShape, ActRoutes, ActInv
  <1>2. PICK status \in Nat, body \in Answers : req' = Answered(status, body)
    BY DEF ProbesEntries, Answers
  <1>3. Onward(req') /\ req'.did = 0 /\ req'.step = "done"
    BY <1>1, <1>2, AnsweredIsOnward
  <1>4. walk.seen \o req.found \in Seq(RowId)
    BY <1>1, ConcatProperties DEF Walk, Request
  <1>5. walk' \in Walk
    <2>1. PICK n \in Int : n = IF HasMore THEN walk.page + 1 ELSE -1
      BY <1>1 DEF Walk
    <2>2. walk' = [walk EXCEPT !.page = n, !.seen = walk.seen \o req.found]
      BY <1>1, <2>1 DEF ProbesEntries, Walk
    <2>. QED
      BY <1>1, <1>4, <2>2 DEF Walk
  <1>. QED
    BY <1>1, <1>3, <1>5, AnswersActNot DEF Quietly

LEMMA HandlesActs ==
  ASSUME ApiShape, ActInv, Handles
  PROVE  Onward(req') /\ ActInv' /\ Quietly /\ walk' \in Walk
  BY RefusesActs, AnswersAtOnceActs, SendsPageActs, ShowsEntryActs, FindsSubjectActs, ReadsAct,
     ActsOnQueueActs, ActionAnswersActs, StoreFailsActs, ListsEntriesActs, ProbesEntriesActs DEF Handles

-----------------------------------------------------------------------------
(* The steps before a handler and beside it                                *)

LEMMA ComesFresh ==
  ASSUME AccessShape, ApiShape, Comes
  PROVE  /\ UNCHANGED <<accessVars, born, rows, walk>> /\ req' \in Request
         /\ req'.step = IF req'.route \in SignInRoutes THEN "handle" ELSE "guard"
         /\ req'.did = 0 /\ req'.found = <<>> /\ req'.cookie = jar
         /\ req'.route \in SignInRoutes => req'.arg \in Place
         /\ req'.route = "entries" => req'.id \in Nat \ {0}
  <1>1. PICK route \in Route, cred \in Credential, own \in Verdict, arg \in Argument, id \in RowId :
          /\ route \in SignInRoutes => arg \in Place
          /\ route = "entries" => id \in Nat \ {0}
          /\ Arrives(route, cred, own, arg, id)
    BY DEF Comes
  <1>2. PICK step \in Step : step = IF route \in SignInRoutes THEN "handle" ELSE "guard"
    BY DEF Step
  <1>3. req' = [NoReq EXCEPT !.route = route, !.cred = cred, !.own = own, !.cookie = jar,
                             !.arg = arg, !.id = id, !.step = step]
    BY <1>1, <1>2 DEF Arrives
  <1>4. PICK q \in Request : q = NoReq /\ q.did = 0 /\ q.found = <<>>
    BY NoReqIsOne DEF NoReq
  <1>5. /\ req' \in Request /\ req'.route = route /\ req'.arg = arg /\ req'.id = id
        /\ req'.step = step /\ req'.cookie = jar /\ req'.did = 0 /\ req'.found = <<>>
    BY <1>3, <1>4, ZenonT(60) DEF Request, AccessShape
  <1>. QED
    BY <1>1, <1>2, <1>5 DEF Arrives, accessVars

\* The bodies of a request the gate turned away.
Turned == {"host", "error", "denied_page", "login"}

LEMMA GateReplies ==
  ASSUME NEW verdict \in Verdict, NEW arg \in Argument
  PROVE  /\ GuardReply(verdict) \in Answering /\ GuardReply(verdict).body \in Turned
         /\ PageGuardReply(verdict, arg) \in Answering /\ PageGuardReply(verdict, arg).body \in Turned
  BY DEF GuardReply, PageGuardReply, Reply, RunGuard, Answering, Turned, Body

\* The gate turns a request away, or lets it in by the verdict of the hook and, if sessions are
\* asked for, by a cookie that was signed with the key of this deployment and is not over.
LEMMA GateJudges ==
  ASSUME AccessShape, ApiShape, req.arg \in Argument, Gate
  PROVE  /\ UNCHANGED <<accessVars, born, rows, walk>> /\ req.step = "guard"
         /\ req' \in Request /\ req'.route = req.route /\ req'.id = req.id /\ req'.arg = req.arg
         /\ req'.cookie = req.cookie /\ req'.did = req.did /\ req'.found = req.found
         /\ req'.at = time /\ req'.key = key
         /\ \/ req'.step = "done" /\ req'.reply.body \in Turned
            \/ /\ req'.step = "handle" /\ req'.verdict = "allow"
               /\ setup.session => VerifySessionCookie(req.cookie)
  <1>1. PICK verdict \in Verdict : /\ verdict = Authorize(req.cred, req.own)
                                   /\ RunGuard(verdict) = 200 => verdict = "allow"
    BY Verdicts DEF ApiShape, Request
  <1>2. PICK mode : mode = IF req.route \in PageRoutes THEN "page" ELSE "api"
    OBVIOUS
  <1>3. PICK judged : judged = [req EXCEPT !.verdict = verdict, !.at = time, !.key = key]
    OBVIOUS
  <1>4. /\ judged \in Request /\ judged.route = req.route /\ judged.id = req.id /\ judged.arg = req.arg
        /\ judged.cookie = req.cookie /\ judged.did = req.did /\ judged.found = req.found
        /\ judged.at = time /\ judged.key = key /\ judged.verdict = verdict
    <2>1. req \in Request /\ time \in Nat /\ key \in 0 .. MaxKey /\ verdict \in Verdict \cup {"none"}
      BY DEF ApiShape, AccessShape
    <2>. QED
      BY <1>3, <2>1 DEF Request
  <1>5. UNCHANGED <<accessVars, born, rows, walk>> /\ req.step = "guard"
    BY DEF Gate
  <1>6. CASE RunGuard(verdict) # 200
    <2>1. PICK reply \in Answering : /\ reply.body \in Turned
                                     /\ req' = [judged EXCEPT !.step = "done", !.reply = reply]
      <3>1. req' = [judged EXCEPT !.step = "done",
                      !.reply = IF mode = "page" THEN PageGuardReply(verdict, req.arg)
                                ELSE GuardReply(verdict)]
        BY <1>1, <1>2, <1>3, <1>6 DEF Gate
      <3>. QED
        BY <3>1, GateReplies
    <2>. QED
      BY <1>4, <1>5, <2>1 DEF Request, Step
  <1>7. CASE RunGuard(verdict) = 200 /\ DecideDashboardAuth(req.cookie, mode) # "allow"
    <2>1. PICK reply \in Answering : /\ reply.body \in Turned
                                     /\ req' = [judged EXCEPT !.step = "done", !.reply = reply]
      <3>1. req' = [judged EXCEPT !.step = "done", !.reply = AuthReply(mode, req.arg)]
        BY <1>1, <1>2, <1>3, <1>7 DEF Gate
      <3>2. AuthReply(mode, req.arg) \in Answering /\ AuthReply(mode, req.arg).body \in Turned
        BY DEF AuthReply, ReplyTo, Reply, Answering, Turned, Body
      <3>. QED
        BY <3>1, <3>2
    <2>. QED
      BY <1>4, <1>5, <2>1 DEF Request, Step
  <1>8. CASE RunGuard(verdict) = 200 /\ DecideDashboardAuth(req.cookie, mode) = "allow"
    <2>1. req' = [judged EXCEPT !.step = "handle"]
      BY <1>1, <1>2, <1>3, <1>8 DEF Gate
    <2>2. setup.session => VerifySessionCookie(req.cookie)
      BY <1>2, <1>8 DEF DecideDashboardAuth
    <2>3. verdict = "allow"
      BY <1>1, <1>8
    <2>4. req' \in Request /\ req'.step = "handle" /\ req'.verdict = verdict
      BY <1>4, <2>1 DEF Request, Step
    <2>. QED
      BY <1>4, <1>5, <2>1, <2>2, <2>3, <2>4 DEF Request
  <1>. QED
    BY <1>6, <1>7, <1>8

\* Where a sign-in may send the browser.
Target(place, asked) == place \in {"base", asked} \ {"two_slashes", "absolute"}

\* Signing in and out ends the request, with a place to go to; only a
\* sign-in the hook accepted sets the cookie, with the key and the clock of now.
LEMMA SignsAnswer ==
  ASSUME AccessShape, ApiShape, Signs, req.arg \in Place
  PROVE  /\ UNCHANGED <<setup, key, time, born, rows, walk>>
         /\ req.step = "handle" /\ req.route \in SignInRoutes
         /\ req' \in Request /\ req'.step = "done" /\ req'.route = req.route /\ req'.did = req.did
         /\ req'.found = req.found /\ req'.cookie = req.cookie /\ req'.id = req.id
         /\ req'.reply.body \in {"form", "signed_in", "login", "error"}
         /\ req'.arg = req.arg
         /\ req'.reply.body \in {"form", "signed_in"} => Target(req'.reply.place, req.arg)
         /\ \/ jar' = jar /\ signIns' = signIns
            \/ jar' = NoCookie /\ signIns' = signIns
            \/ jar' = SignSessionCookie /\ signIns' = [signIns EXCEPT ![key] = time]
  <1>1. Target(SanitizeReturnTo(req.arg), req.arg) /\ SanitizeReturnTo(req.arg) \in Place
    BY DEF SanitizeReturnTo, Place, Target, StartsWithSlash, StartsWithTwo, HoldsScheme
  <1>2. ASSUME NEW status \in Nat, NEW body \in {"form", "signed_in", "login", "error"},
               NEW place \in Place \cup {"none"}, req' = AnsweredTo(status, body, place)
        PROVE  /\ req' \in Request /\ req'.step = "done" /\ req'.route = req.route
               /\ req'.did = req.did /\ req'.found = req.found /\ req'.cookie = req.cookie
               /\ req'.id = req.id /\ req'.arg = req.arg
               /\ req'.reply.body = body /\ req'.reply.place = place
    <2>1. body \in Body /\ place \in Argument \cup {"none"}
      BY DEF Body, Argument, Place
    <2>2. PICK r : r = ReplyTo(status, body, place)
      OBVIOUS
    <2>3. r \in Answering /\ r.body = body /\ r.place = place
      BY <2>1, <2>2 DEF ReplyTo, Answering
    <2>4. req' = [req EXCEPT !.step = "done", !.reply = r] /\ req \in Request
      BY <1>2, <2>2 DEF AnsweredTo, ApiShape
    <2>. QED
      BY <2>3, <2>4 DEF Request, Step
  <1>3. req.step = "handle" /\ req.route \in SignInRoutes /\ UNCHANGED <<setup, key, time, born, rows, walk>>
    BY DEF Signs, SignsOut, ShowsLogin, SignsIn, SignInRoutes, accessVars
  <1>4. \A status : Answered(status, "error") = AnsweredTo(status, "error", "none")
    BY DEF Answered, AnsweredTo, Reply, ReplyTo
  <1>5. PICK status \in Nat, body \in {"form", "signed_in", "login", "error"},
             place \in Place \cup {"none"} :
          /\ req' = AnsweredTo(status, body, place)
          /\ body \in {"form", "signed_in"} => Target(place, req.arg)
    <2>1. CASE SignsOut
      BY <2>1 DEF SignsOut, Place
    <2>2. CASE ShowsLogin
      BY <1>1, <2>2 DEF ShowsLogin
    <2>3. ASSUME NEW outcome, NEW form \in BOOLEAN, SignsIn(outcome, form)
          PROVE  \E status \in Nat, body \in {"form", "signed_in", "login", "error"},
                    place \in Place \cup {"none"} :
                   /\ req' = AnsweredTo(status, body, place)
                   /\ body \in {"form", "signed_in"} => Target(place, req.arg)
      BY <1>1, <1>4, <2>3 DEF SignsIn
    <2>. QED
      BY <2>1, <2>2, <2>3 DEF Signs
  <1>6. \/ jar' = jar /\ signIns' = signIns
        \/ jar' = NoCookie /\ signIns' = signIns
        \/ jar' = SignSessionCookie /\ signIns' = [signIns EXCEPT ![key] = time]
    BY DEF Signs, SignsOut, ShowsLogin, SignsIn, accessVars
  <1>. QED
    BY <1>2, <1>3, <1>5, <1>6

-----------------------------------------------------------------------------
(* Who is let in                                                           *)

\* What the gate let in was judged so, and came from a browser that had signed in with the key
\* of the deployment that judged it.
LetIn ==
  /\ req.verdict = "allow"
  /\ setup.session => /\ signIns[req.key] >= 0
                      /\ req.at - signIns[req.key] <= Ttl + Grace

\* A cookie that carries a key was set when the hook last accepted a sign-in, or before.
Minted(cookie) ==
  cookie.key # 0 => signIns[cookie.key] >= 0 /\ cookie.exp <= signIns[cookie.key] + Ttl

\* The parts of OnlySignedInSee that are about the routes.
AnsweredInside ==
  req.step = "done" /\ req.route \notin SignInRoutes
    /\ (req.did > 0 \/ req.found # <<>> \/ req.reply.body \in {"data", "page", "asset", "more", "last"}) =>
  LetIn
SentBack ==
  req.step = "done" /\ req.reply.body \in {"form", "signed_in"} => Target(req.reply.place, req.arg)

GateInv ==
  /\ \A k \in 1 .. MaxKey : signIns[k] <= time
  /\ Minted(jar) /\ Minted(req.cookie)
  /\ req.step = "guard" => req.found = <<>> /\ req.route \notin SignInRoutes
  /\ req.step = "handle" /\ req.route \in SignInRoutes => req.arg \in Place
  /\ req.step \in {"handle", "acting", "probing"} /\ req.route \notin SignInRoutes => LetIn
  /\ AnsweredInside /\ SentBack

ApiInv == AccessShape /\ ApiShape /\ ActInv /\ GateInv

LEMMA ApiBegins == ConsoleInit => ApiInv
  <1>. SUFFICES ASSUME ConsoleInit PROVE ApiInv
    OBVIOUS
  <1>1. /\ setup \in Setups /\ key = 1 /\ time = 0 /\ jar = NoCookie
        /\ signIns = [k \in 1 .. MaxKey |-> -1]
        /\ born \in 0 .. Cardinality(Row) /\ rows = [i \in 1 .. born |-> born + 1 - i]
        /\ req = NoReq /\ walk = NoWalk
    BY DEF ConsoleInit, AccessInit, ApiInit
  <1>2. AccessShape
    BY <1>1, NoCookieIsOne, AccessAssumption DEF AccessShape
  <1>3. born \in Nat /\ rows \in Seq(RowId)
    <2>1. born \in Nat
      BY <1>1
    <2>2. \A i \in 1 .. born : born + 1 - i \in RowId
      BY <2>1 DEF RowId
    <2>. QED
      BY <1>1, <2>1, <2>2
  <1>4. walk \in Walk
    <2>1. <<>> \in Seq(RowId)
      BY EmptySeq
    <2>. QED
      BY <1>1, <2>1 DEF NoWalk, Walk
  <1>5. /\ req \in Request /\ req.step = "done" /\ req.route = "none" /\ req.did = 0
        /\ req.cookie = NoCookie /\ req.found = <<>> /\ req.reply.body = "none"
        /\ req.reply.status = 0
    BY <1>1, NoReqIsOne DEF NoReq, NoReply, Reply
  <1>6. ActInv
    BY <1>5 DEF ActInv
  <1>7. GateInv
    BY <1>1, <1>5 DEF GateInv, Minted, NoCookie, AnsweredInside, SentBack
  <1>. QED
    BY <1>2, <1>3, <1>4, <1>5, <1>6, <1>7 DEF ApiInv, ApiShape

LEMMA ComesKeeps == ASSUME ApiInv, Comes PROVE ApiInv'
  <1>1. AccessShape /\ ApiShape /\ GateInv
    BY DEF ApiInv
  <1>2. /\ UNCHANGED <<accessVars, born, rows, walk>> /\ req' \in Request
        /\ req'.step = IF req'.route \in SignInRoutes THEN "handle" ELSE "guard"
        /\ req'.did = 0 /\ req'.found = <<>> /\ req'.cookie = jar
        /\ req'.route \in SignInRoutes => req'.arg \in Place
        /\ req'.route = "entries" => req'.id \in Nat \ {0}
    BY <1>1, ComesFresh
  <1>3. AccessShape' /\ ApiShape'
    BY <1>1, <1>2 DEF AccessShape, ApiShape, accessVars
  <1>4. ActInv'
    BY <1>2 DEF ActInv
  <1>5. GateInv'
    BY <1>1, <1>2 DEF GateInv, Minted, AnsweredInside, SentBack, accessVars
  <1>. QED
    BY <1>3, <1>4, <1>5 DEF ApiInv

LEMMA GateKeeps == ASSUME ApiInv, Gate PROVE ApiInv'
  <1>1. AccessShape /\ ApiShape /\ GateInv /\ ActInv /\ req \in Request
    BY DEF ApiInv, ApiShape
  <1>2. /\ UNCHANGED <<accessVars, born, rows, walk>> /\ req.step = "guard"
        /\ req' \in Request /\ req'.route = req.route /\ req'.id = req.id /\ req'.arg = req.arg
        /\ req'.cookie = req.cookie /\ req'.did = req.did /\ req'.found = req.found
        /\ req'.at = time /\ req'.key = key
        /\ \/ req'.step = "done" /\ req'.reply.body \in Turned
           \/ /\ req'.step = "handle" /\ req'.verdict = "allow"
              /\ setup.session => VerifySessionCookie(req.cookie)
    BY <1>1, GateJudges DEF Request
  <1>3. AccessShape' /\ ApiShape'
    BY <1>1, <1>2 DEF AccessShape, ApiShape, accessVars
  <1>4. req'.did = 0 /\ req'.found = <<>>
    BY <1>1, <1>2 DEF ActInv, GateInv
  <1>5. ActInv'
    BY <1>2, <1>4 DEF ActInv, Turned
  <1>6. req'.step = "handle" => LetIn'
    <2>1. SUFFICES ASSUME req'.step = "handle" PROVE LetIn'
      OBVIOUS
    <2>2. req'.verdict = "allow" /\ (setup.session => VerifySessionCookie(req.cookie))
      BY <1>2, <2>1
    <2>3. ASSUME setup.session PROVE signIns[key] >= 0 /\ time - signIns[key] <= Ttl + Grace
      <3>1. req.cookie.key = key /\ time <= req.cookie.exp + Grace
        BY <2>2, <2>3 DEF VerifySessionCookie
      <3>2. /\ key \in 1 .. MaxKey /\ time \in Nat /\ req.cookie.exp \in Int
            /\ signIns[key] \in Nat \cup {-1}
        BY <1>1 DEF AccessShape, Request, Cookie
      <3>3. signIns[key] >= 0 /\ req.cookie.exp <= signIns[key] + Ttl
        BY <1>1, <3>1, <3>2 DEF GateInv, Minted
      <3>. QED
        BY <3>1, <3>2, <3>3, AccessAssumption
    <2>. QED
      BY <1>2, <2>2, <2>3 DEF LetIn, accessVars
  <1>7. GateInv'
    <2>1. (\A k \in 1 .. MaxKey : signIns[k] <= time)' /\ Minted(jar)' /\ Minted(req.cookie)'
      BY <1>1, <1>2 DEF GateInv, Minted, accessVars
    <2>2. req'.step # "guard" /\ req'.step \notin {"acting", "probing"}
      BY <1>2
    <2>3. req'.route \notin SignInRoutes
      BY <1>1, <1>2 DEF GateInv
    <2>4. AnsweredInside' /\ SentBack'
      BY <1>2, <1>4 DEF AnsweredInside, SentBack, Turned
    <2>. QED
      BY <1>6, <2>1, <2>2, <2>3, <2>4 DEF GateInv
  <1>. QED
    BY <1>3, <1>5, <1>7 DEF ApiInv

LEMMA HandlesKeeps == ASSUME ApiInv, Handles PROVE ApiInv'
  <1>1. AccessShape /\ ApiShape /\ GateInv /\ ActInv
    BY DEF ApiInv
  <1>2. Onward(req') /\ ActInv' /\ Quietly /\ walk' \in Walk
    BY <1>1, HandlesActs
  <1>3. AccessShape' /\ ApiShape'
    BY <1>1, <1>2 DEF AccessShape, ApiShape, Quietly, accessVars, Onward
  <1>4. req.step \in {"handle", "acting", "probing"}
    BY DEF Handles, Refuses, AnswersAtOnce, SendsPage, ShowsEntry, FindsSubject, Reads, ActsOnQueue,
           ActionAnswers, StoreFails, ListsEntries, ProbesEntries, Passes
  <1>5. req.route \notin SignInRoutes => LetIn
    BY <1>1, <1>4 DEF GateInv
  <1>6. req'.route = req.route /\ (req'.route \notin SignInRoutes => LetIn')
    BY <1>2, <1>5 DEF LetIn, Onward, Quietly, accessVars
  <1>7. GateInv'
    BY <1>1, <1>2, <1>6 DEF GateInv, Minted, AnsweredInside, SentBack, Onward, Quietly, accessVars, Answers
  <1>. QED
    BY <1>2, <1>3, <1>7 DEF ApiInv

LEMMA SignsKeeps == ASSUME ApiInv, Signs PROVE ApiInv'
  <1>1. AccessShape /\ ApiShape /\ GateInv /\ ActInv
    BY DEF ApiInv
  <1>2. req.step = "handle" /\ req.route \in SignInRoutes /\ req.arg \in Place
    BY <1>1 DEF GateInv, Signs, SignsOut, ShowsLogin, SignsIn, SignInRoutes
  <1>3. /\ UNCHANGED <<setup, key, time, born, rows, walk>>
        /\ req' \in Request /\ req'.step = "done" /\ req'.route = req.route /\ req'.did = req.did
        /\ req'.found = req.found /\ req'.cookie = req.cookie /\ req'.id = req.id
        /\ req'.reply.body \in {"form", "signed_in", "login", "error"}
        /\ req'.arg = req.arg
        /\ req'.reply.body \in {"form", "signed_in"} => Target(req'.reply.place, req.arg)
        /\ \/ jar' = jar /\ signIns' = signIns
           \/ jar' = NoCookie /\ signIns' = signIns
           \/ jar' = SignSessionCookie /\ signIns' = [signIns EXCEPT ![key] = time]
    BY <1>1, <1>2, SignsAnswer
  <1>4. req.did = 0
    BY <1>1, <1>2 DEF ActInv
  <1>5. ActInv'
    BY <1>3, <1>4 DEF ActInv
  <1>6. /\ key \in 1 .. MaxKey /\ time \in Nat /\ jar \in Cookie /\ req.cookie \in Cookie
        /\ signIns \in [1 .. MaxKey -> Nat \cup {-1}] /\ Ttl \in Nat
        /\ \A k \in 1 .. MaxKey : signIns[k] <= time
    BY <1>1, AccessAssumption DEF AccessShape, ApiShape, Request, GateInv
  <1>7. /\ jar' \in Cookie /\ signIns' \in [1 .. MaxKey -> Nat \cup {-1}]
        /\ \A k \in 1 .. MaxKey : signIns'[k] <= time /\ (signIns[k] >= 0 => signIns'[k] >= signIns[k])
    <2>1. CASE jar' = SignSessionCookie /\ signIns' = [signIns EXCEPT ![key] = time]
      <3>1. jar' \in Cookie
        BY <1>6, <2>1 DEF SignSessionCookie, Cookie
      <3>2. signIns' \in [1 .. MaxKey -> Nat \cup {-1}]
        BY <1>6, <2>1
      <3>3. \A k \in 1 .. MaxKey : signIns'[k] = IF k = key THEN time ELSE signIns[k]
        BY <1>6, <2>1
      <3>. QED
        BY <1>6, <3>1, <3>2, <3>3
    <2>2. CASE (jar' = jar \/ jar' = NoCookie) /\ signIns' = signIns
      BY <1>6, <2>2, NoCookieIsOne
    <2>. QED
      BY <1>3, <2>1, <2>2
  <1>8. AccessShape' /\ ApiShape'
    BY <1>1, <1>3, <1>7 DEF AccessShape, ApiShape
  <1>9. Minted(req.cookie)'
    <2>1. Minted(req.cookie) /\ req'.cookie = req.cookie
      BY <1>1, <1>3 DEF GateInv
    <2>2. PICK k \in 0 .. MaxKey : k = req.cookie.key
      BY <1>6 DEF Cookie
    <2>3. PICK exp \in Int : exp = req.cookie.exp
      BY <1>6 DEF Cookie
    <2>4. ASSUME k # 0 PROVE signIns'[k] >= 0 /\ exp <= signIns'[k] + Ttl
      <3>1. k \in 1 .. MaxKey
        BY <2>4
      <3>2. signIns[k] \in Int /\ signIns'[k] \in Int /\ signIns[k] >= 0 /\ exp <= signIns[k] + Ttl
            /\ signIns'[k] >= signIns[k]
        BY <1>6, <1>7, <2>1, <2>2, <2>3, <2>4, <3>1 DEF Minted
      <3>. QED
        BY <1>6, <3>2
    <2>. QED
      BY <2>1, <2>2, <2>3, <2>4 DEF Minted
  <1>10. Minted(jar)'
    <2>1. CASE jar' = jar /\ signIns' = signIns
      BY <1>1, <2>1 DEF GateInv, Minted
    <2>2. CASE jar' = NoCookie
      BY <2>2 DEF Minted, NoCookie
    <2>3. CASE jar' = SignSessionCookie /\ signIns' = [signIns EXCEPT ![key] = time]
      BY <1>6, <2>3 DEF Minted, SignSessionCookie
    <2>. QED
      BY <1>3, <2>1, <2>2, <2>3
  <1>11. GateInv'
    BY <1>2, <1>3, <1>7, <1>9, <1>10 DEF GateInv, AnsweredInside, SentBack
  <1>. QED
    BY <1>5, <1>8, <1>11 DEF ApiInv

\* The store stays a list of rows.
LEMMA StoreMovesKeepRows ==
  ASSUME ApiShape, StoreMoves
  PROVE  rows' \in Seq(RowId) /\ born' \in Nat
  <1>1. rows \in Seq(RowId) /\ born \in Nat
    BY DEF ApiShape
  <1>2. CASE born' = born + 1 /\ rows' = <<born + 1>> \o rows
    <2>1. born + 1 \in Nat /\ <<born + 1>> \in Seq(RowId)
      BY <1>1 DEF RowId
    <2>. QED
      BY <1>1, <1>2, <2>1, ConcatProperties
  <1>3. CASE rows # <<>> /\ rows' = SubSeq(rows, 1, Len(rows) - 1) /\ born' = born
    <2>1. PICK n \in Nat : n = Len(rows) - 1 /\ n <= Len(rows)
      BY <1>1, <1>3, LenProperties, EmptySeq
    <2>. QED
      BY <1>1, <1>3, <2>1, CutParts
  <1>. QED
    BY <1>2, <1>3 DEF StoreMoves

LEMMA PassingKeeps == ASSUME ApiInv, Passing PROVE ApiInv'
  <1>1. AccessShape /\ ApiShape /\ GateInv /\ ActInv /\ req' = req
    BY DEF ApiInv, Passing
  <1>2. CASE AccessMoves /\ UNCHANGED apiVars
    <2>1. /\ UNCHANGED <<setup, signIns, born, rows, walk>> /\ time' \in Nat /\ time <= time'
          /\ key' \in 1 .. MaxKey /\ jar' \in Cookie /\ (jar' = jar \/ jar'.key = 0)
      <3>1. CASE Tick
        BY <1>1, <1>2, <3>1 DEF Tick, apiVars, AccessShape
      <3>2. CASE Redeploy
        BY <1>1, <1>2, <3>2, AccessAssumption DEF Redeploy, apiVars, AccessShape
      <3>3. CASE JarChanges
        <4>1. CASE jar' = NoCookie /\ UNCHANGED <<setup, key, time, warned, signIns>>
          BY <1>1, <1>2, <4>1, NoCookieIsOne DEF apiVars, AccessShape, NoCookie
        <4>2. CASE /\ jar' = [key |-> 0, iat |-> time, exp |-> time + Ttl]
                   /\ UNCHANGED <<setup, key, time, warned, signIns>>
          BY <1>1, <1>2, <4>2, AccessAssumption DEF apiVars, AccessShape, Cookie
        <4>. QED
          BY <3>3, <4>1, <4>2 DEF JarChanges
      <3>. QED
        BY <1>2, <3>1, <3>2, <3>3 DEF AccessMoves
    <2>2. AccessShape' /\ ApiShape'
      BY <1>1, <2>1 DEF AccessShape, ApiShape
    <2>3. ActInv'
      BY <1>1, <2>1 DEF ActInv, Allowed, Has
    <2>4. (\A k \in 1 .. MaxKey : signIns[k] <= time)'
      BY <1>1, <2>1 DEF AccessShape, GateInv
    <2>5. GateInv'
      BY <1>1, <2>1, <2>4 DEF GateInv, Minted, AnsweredInside, SentBack, LetIn
    <2>. QED
      BY <2>2, <2>3, <2>5 DEF ApiInv
  <1>3. CASE UNCHANGED accessVars /\ (WalkBegins \/ StoreMoves \/ UNCHANGED apiVars)
    <2>1. born' \in Nat /\ rows' \in Seq(RowId) /\ walk' \in Walk
      <3>1. CASE WalkBegins
        <4>1. <<>> \in Seq(RowId) /\ {rows[i] : i \in DOMAIN rows} \in SUBSET RowId
          BY <1>1, EmptySeq, LenProperties DEF ApiShape
        <4>2. PICK there \in SUBSET RowId : there = {rows[i] : i \in DOMAIN rows}
          BY <4>1
        <4>3. walk' = [page |-> 1, seen |-> <<>>, first |-> there, quiet |-> TRUE]
          BY <3>1, <4>2 DEF WalkBegins, NoWalk
        <4>4. walk' \in Walk
          BY <4>1, <4>3 DEF Walk
        <4>. QED
          BY <1>1, <3>1, <4>4 DEF WalkBegins, ApiShape
      <3>2. CASE StoreMoves
        <4>1. walk' \in Walk
          BY <1>1, <3>2 DEF StoreMoves, ApiShape, Walk
        <4>. QED
          BY <1>1, <4>1, <3>2, StoreMovesKeepRows
      <3>3. CASE UNCHANGED apiVars
        BY <1>1, <3>3 DEF ApiShape, apiVars
      <3>. QED
        BY <1>3, <3>1, <3>2, <3>3
    <2>2. AccessShape' /\ ApiShape'
      BY <1>1, <1>3, <2>1 DEF AccessShape, ApiShape, accessVars
    <2>3. ActInv' /\ GateInv'
      BY <1>1, <1>3 DEF ActInv, Allowed, Has, GateInv, Minted, AnsweredInside, SentBack, LetIn, accessVars
    <2>. QED
      BY <2>2, <2>3 DEF ApiInv
  <1>. QED
    BY <1>2, <1>3 DEF Passing

LEMMA ApiStep == ApiInv /\ [ConsoleNext]_<<visit, consoleVars>> => ApiInv'
  BY StepKinds, ComesKeeps, GateKeeps, HandlesKeeps, SignsKeeps, PassingKeeps

-----------------------------------------------------------------------------
(* The MCP endpoint                                                        *)

\* What a message may have done, by how far it is.
CallInv ==
  /\ call = [id |-> call.id, method |-> call.method, tool |-> call.tool, args |-> call.args,
             row |-> call.row, step |-> call.step, allowed |-> call.allowed, seen |-> call.seen,
             asked |-> call.asked, status |-> call.status, answer |-> call.answer]
  /\ call.step \in {"handle", "reading", "siblings", "settling", "done"}
  /\ call.method \in Methods /\ call.tool \in AllTools \cup {"none"} /\ call.asked \in BOOLEAN
  /\ call.step = "handle" => call.seen = {}
  /\ call.step \in {"handle", "reading", "siblings", "settling"} => ~ call.asked
  /\ call.step \in {"reading", "siblings", "settling"} =>
       /\ call.allowed /\ call.method = "tools/call" /\ call.tool \in Tools \ {"none"}
       /\ call.tool = "diagnose_exception" => Has("diagnosis")
  /\ call.step \in {"siblings", "settling"} =>
       /\ call.tool \in {"get_entry", "diagnose_exception"}
       /\ call.tool = "diagnose_exception" => TypeOf[call.row] \in Diagnosable
  /\ call.step = "done" =>
       /\ ~ call.allowed => call.seen = {} /\ ~ call.asked /\ call.answer.kind # "result"
       /\ call.asked => "diagnose_exception" \in Tools /\ Has("diagnosis")
                          /\ TypeOf[call.row] \in Diagnosable
       /\ call.method = "tools/call" /\ call.answer.kind = "result" => call.tool \in Tools
       /\ call.status = 200 <=> call.answer # Silence
       /\ call.answer = Silence /\ call.id /\ call.status # 0 =>
            call.allowed /\ call.method = "initialized"

\* The three answers there are.
LEMMA AnswersDiffer ==
  /\ Silence.kind = "silence"
  /\ \A v : Result(v).kind = "result" /\ Result(v) # Silence
  /\ \A c : Failure(c).kind = "error" /\ Failure(c) # Silence
  <1>1. /\ Silence.kind = "silence" /\ \A v : Result(v).kind = "result"
        /\ \A c : Failure(c).kind = "error"
    BY DEF Silence, Result, Failure
  <1>. QED
    BY <1>1

\* A message that is answered keeps everything but its step, its status and its answer.
LEMMA RpcKeeps ==
  ASSUME CallInv, NEW answer, answer # Silence
  PROVE  LET q == RpcDone(answer)
         IN  /\ q = [id |-> q.id, method |-> q.method, tool |-> q.tool, args |-> q.args,
                     row |-> q.row, step |-> q.step, allowed |-> q.allowed, seen |-> q.seen,
                     asked |-> q.asked, status |-> q.status, answer |-> q.answer]
             /\ q.step = "done" /\ q.method = call.method /\ q.tool = call.tool /\ q.row = call.row
             /\ q.allowed = call.allowed /\ q.seen = call.seen /\ q.asked = call.asked
             /\ q.answer = answer \/ q.answer = Silence
             /\ q.status = 200 <=> q.answer # Silence
             /\ q.id = call.id /\ (q.answer = Silence => ~ q.id)
  <1>1. PICK s, a : /\ s = IF call.id THEN 200 ELSE 202
                    /\ a = IF call.id THEN answer ELSE Silence
    OBVIOUS
  <1>2. (a = answer \/ a = Silence) /\ (s = 200 <=> a # Silence) /\ (a = Silence => ~ call.id)
    BY <1>1
  <1>3. RpcDone(answer) = [call EXCEPT !.step = "done", !.status = s, !.answer = a]
    BY <1>1 DEF RpcDone
  <1>4. RpcDone(answer)
          = [id |-> call.id, method |-> call.method, tool |-> call.tool, args |-> call.args,
             row |-> call.row, step |-> "done", allowed |-> call.allowed, seen |-> call.seen,
             asked |-> call.asked, status |-> s, answer |-> a]
    <2>1. call = [id |-> call.id, method |-> call.method, tool |-> call.tool, args |-> call.args,
                  row |-> call.row, step |-> call.step, allowed |-> call.allowed, seen |-> call.seen,
                  asked |-> call.asked, status |-> call.status, answer |-> call.answer]
      BY DEF CallInv
    <2>. QED
      BY <1>3, <2>1
  <1>. QED
    BY <1>2, <1>4

LEMMA CallBegins == ConsoleInit => CallInv
  <1>. SUFFICES ASSUME ConsoleInit PROVE CallInv
    OBVIOUS
  <1>1. call = NoCall /\ Silence.kind = "silence"
    BY AnswersDiffer DEF ConsoleInit, McpInit
  <1>. QED
    BY <1>1 DEF CallInv, NoCall, Methods

LEMMA McpArrivesKeeps ==
  ASSUME CallInv, NEW id, NEW method \in Methods, NEW tool \in AllTools \cup {"none"}, NEW args, NEW row,
         NEW cred, NEW own, McpArrives(id, method, tool, args, row, cred, own)
  PROVE  CallInv'
  <1>1. PICK ok : ok = (RunGuard(Authorize(cred, own)) = 200)
    OBVIOUS
  <1>2. call' = [id |-> id, method |-> method, tool |-> tool, args |-> args, row |-> row,
                 step |-> "handle", allowed |-> ok, seen |-> {}, asked |-> FALSE,
                 status |-> 0, answer |-> Silence]
    BY <1>1 DEF McpArrives, NoCall
  <1>. QED
    BY <1>2 DEF CallInv

\* A message that is answered while nothing was asked for.
LEMMA RpcAnswers ==
  ASSUME CallInv, setup' = setup, NEW answer, answer # Silence, call' = RpcDone(answer),
         ~ call.asked, call.step # "done",
         ~ call.allowed => call.seen = {} /\ answer.kind # "result",
         call.method = "tools/call" /\ answer.kind = "result" => call.tool \in Tools
  PROVE  CallInv'
  <1>1. /\ call' = [id |-> call'.id, method |-> call'.method, tool |-> call'.tool,
                    args |-> call'.args, row |-> call'.row, step |-> call'.step,
                    allowed |-> call'.allowed, seen |-> call'.seen, asked |-> call'.asked,
                    status |-> call'.status, answer |-> call'.answer]
        /\ call'.step = "done" /\ call'.method = call.method /\ call'.tool = call.tool
        /\ call'.row = call.row /\ call'.allowed = call.allowed /\ call'.seen = call.seen
        /\ call'.asked = call.asked /\ (call'.answer = answer \/ call'.answer = Silence)
        /\ call'.status = 200 <=> call'.answer # Silence
        /\ call'.answer = Silence => ~ call'.id
    BY RpcKeeps
  <1>2. Silence.kind = "silence"
    BY AnswersDiffer
  <1>. QED
    BY <1>1, <1>2 DEF CallInv

LEMMA McpHandlesKeeps == ASSUME CallInv, McpHandles PROVE CallInv'
  <1>1. setup' = setup /\ call.step = "handle" /\ ~ call.asked /\ call.seen = {}
    BY DEF McpHandles, accessVars, CallInv
  <1>2. ASSUME NEW code, call' = RpcDone(Failure(code)) PROVE CallInv'
    <2>1. PICK answer : answer = Failure(code) /\ answer # Silence /\ answer.kind = "error"
      BY AnswersDiffer
    <2>. QED
      BY <1>1, <1>2, <2>1, RpcAnswers
  <1>3. ASSUME NEW value, call' = RpcDone(Result(value)), call.allowed,
               call.method = "tools/call" => call.tool \in Tools
        PROVE  CallInv'
    <2>1. PICK answer : answer = Result(value) /\ answer # Silence
      BY AnswersDiffer
    <2>. QED
      BY <1>1, <1>3, <2>1, RpcAnswers
  <1>4. CASE call' = Ignored /\ call.allowed /\ call.method = "initialized"
    <2>1. call' = [id |-> call.id, method |-> call.method, tool |-> call.tool, args |-> call.args,
                   row |-> call.row, step |-> "done", allowed |-> call.allowed, seen |-> call.seen,
                   asked |-> call.asked, status |-> 202, answer |-> Silence]
      BY <1>4, ZenonT(60) DEF Ignored, CallInv
    <2>2. Silence.kind = "silence"
      BY AnswersDiffer
    <2>. QED
      BY <1>1, <1>4, <2>1, <2>2 DEF CallInv
  <1>5. CASE /\ call' = [call EXCEPT !.step = "reading"]
             /\ call.allowed /\ call.method = "tools/call" /\ call.tool \in Tools \ {"none"}
             /\ call.tool = "diagnose_exception" => Has("diagnosis")
    <2>1. call' = [id |-> call.id, method |-> call.method, tool |-> call.tool, args |-> call.args,
                   row |-> call.row, step |-> "reading", allowed |-> call.allowed, seen |-> call.seen,
                   asked |-> call.asked, status |-> call.status, answer |-> call.answer]
      BY <1>5 DEF CallInv
    <2>. QED
      BY <1>1, <1>5, <2>1 DEF CallInv, Has
  <1>6. \/ \E code : call' = RpcDone(Failure(code))
        \/ /\ call.allowed /\ (call.method = "tools/call" => call.tool \in Tools)
           /\ \E value : call' = RpcDone(Result(value))
        \/ call' = Ignored /\ call.allowed /\ call.method = "initialized"
        \/ /\ call' = [call EXCEPT !.step = "reading"]
           /\ call.allowed /\ call.method = "tools/call" /\ call.tool \in Tools \ {"none"}
           /\ call.tool = "diagnose_exception" => Has("diagnosis")
    <2>1. CASE ~ call.allowed
      BY <1>1, <2>1 DEF McpHandles
    <2>2. CASE call.allowed /\ call.method = "initialized"
      BY <1>1, <2>2 DEF McpHandles
    <2>3. CASE call.allowed /\ call.method \in {"tools/list", "initialize", "ping"}
      BY <1>1, <2>3 DEF McpHandles
    <2>4. CASE call.allowed /\ call.method = "other"
      BY <1>1, <2>4 DEF McpHandles
    <2>5. CASE call.allowed /\ call.method = "tools/call"
      <3>1. \/ call' = RpcDone(Failure(-32603))
            \/ /\ call.tool \in Callable /\ call.tool # "none"
               /\ call' = RpcDone(Result("not_configured"))
            \/ /\ call.tool \in Callable /\ call.tool # "none"
               /\ call.tool = "diagnose_exception" => Has("diagnosis")
               /\ call' = [call EXCEPT !.step = "reading"]
        BY <1>1, <2>5 DEF McpHandles
      <3>. QED
        BY <2>5, <3>1 DEF Callable
    <2>6. call.method \in {"initialize", "initialized", "ping", "tools/list", "tools/call", "other"}
      BY DEF CallInv, Methods
    <2>. QED
      BY <2>1, <2>2, <2>3, <2>4, <2>5, <2>6
  <1>. QED
    BY <1>2, <1>3, <1>4, <1>5, <1>6

LEMMA McpReadsKeeps == ASSUME CallInv, NEW fails \in BOOLEAN, McpReads(fails) PROVE CallInv'
  <1>1. /\ setup' = setup /\ call.step = "reading" /\ ~ call.asked /\ call.allowed
        /\ call.method = "tools/call" /\ call.tool \in Tools \ {"none"}
        /\ call.tool = "diagnose_exception" => Has("diagnosis")
    BY DEF McpReads, accessVars, CallInv
  <1>2. ASSUME NEW answer, answer # Silence, call' = RpcDone(answer) PROVE CallInv'
    BY <1>1, <1>2, RpcAnswers
  <1>3. CASE \E answer : answer # Silence /\ call' = RpcDone(answer)
    BY <1>2, <1>3
  <1>4. ASSUME NEW step \in {"settling", "siblings"}, call' = [call EXCEPT !.step = step],
               call.tool \in {"get_entry", "diagnose_exception"},
               call.tool = "diagnose_exception" => TypeOf[call.row] \in Diagnosable
        PROVE  CallInv'
    <2>1. call = [id |-> call.id, method |-> call.method, tool |-> call.tool, args |-> call.args,
                  row |-> call.row, step |-> call.step, allowed |-> call.allowed, seen |-> call.seen,
                  asked |-> call.asked, status |-> call.status, answer |-> call.answer]
      BY DEF CallInv
    <2>2. call' = [id |-> call.id, method |-> call.method, tool |-> call.tool, args |-> call.args,
                   row |-> call.row, step |-> step, allowed |-> call.allowed, seen |-> call.seen,
                   asked |-> call.asked, status |-> call.status, answer |-> call.answer]
      BY <1>4, <2>1
    <2>. QED
      BY <1>1, <1>4, <2>2 DEF CallInv, Has
  <1>5. \/ \E answer : answer # Silence /\ call' = RpcDone(answer)
        \/ /\ call' = [call EXCEPT !.step = IF TraceOf[call.row] = "none" THEN "settling" ELSE "siblings"]
           /\ call.tool \in {"get_entry", "diagnose_exception"}
           /\ call.tool = "diagnose_exception" => TypeOf[call.row] \in Diagnosable
    <2>1. /\ \A v : Result(v) # Silence
          /\ \A c : Failure(c) # Silence
      BY AnswersDiffer
    <2>2. CASE \/ \E v : call' = RpcDone(Result(v))
               \/ \E c : call' = RpcDone(Failure(c))
      BY <2>1, <2>2
    <2>3. CASE /\ ~ fails /\ call.tool \notin {"list_entries", "get_health"} /\ Here(call.row)
               /\ call.tool \notin {"get_trace", "get_waterfall"}
               /\ call.tool # "diagnose_exception" \/ TypeOf[call.row] \in Diagnosable
      <3>1. call.tool \in {"get_entry", "diagnose_exception", "none"} /\ call.tool # "none"
        BY <1>1, <2>3 DEF CallInv, AllTools
      <3>. QED
        BY <2>3, <3>1 DEF McpReads
    <2>4. \/ \E v : call' = RpcDone(Result(v))
          \/ \E c : call' = RpcDone(Failure(c))
          \/ /\ ~ fails /\ call.tool \notin {"list_entries", "get_health"} /\ Here(call.row)
             /\ call.tool \notin {"get_trace", "get_waterfall"}
             /\ call.tool # "diagnose_exception" \/ TypeOf[call.row] \in Diagnosable
      BY DEF McpReads
    <2>. QED
      BY <2>2, <2>3, <2>4
  <1>6. PICK step \in {"settling", "siblings"} :
          step = IF TraceOf[call.row] = "none" THEN "settling" ELSE "siblings"
    OBVIOUS
  <1>. QED
    BY <1>3, <1>4, <1>5, <1>6

LEMMA McpSiblingsKeeps == ASSUME CallInv, NEW fails \in BOOLEAN, McpSiblings(fails) PROVE CallInv'
  <1>1. setup' = setup /\ call.step = "siblings" /\ ~ call.asked /\ call.allowed
    BY DEF McpSiblings, accessVars, CallInv
  <1>2. CASE fails
    <2>1. PICK answer : answer = Failure(-32603) /\ answer # Silence /\ answer.kind = "error"
      BY AnswersDiffer
    <2>2. call' = RpcDone(answer)
      BY <1>2, <2>1 DEF McpSiblings
    <2>. QED
      BY <1>1, <2>1, <2>2, RpcAnswers
  <1>3. CASE ~ fails
    <2>1. PICK some : call' = [call EXCEPT !.step = "settling", !.seen = some]
      <3>1. call' = [call EXCEPT !.step = "settling", !.seen = InTrace(TraceOf[call.row]) \ {call.row}]
        BY <1>3 DEF McpSiblings
      <3>2. PICK rest : rest = InTrace(TraceOf[call.row]) \ {call.row}
        OBVIOUS
      <3>. QED
        BY <3>1, <3>2
    <2>2. call' = [id |-> call.id, method |-> call.method, tool |-> call.tool, args |-> call.args,
                   row |-> call.row, step |-> "settling", allowed |-> call.allowed, seen |-> some,
                   asked |-> call.asked, status |-> call.status, answer |-> call.answer]
      BY <2>1 DEF CallInv
    <2>. QED
      BY <1>1, <2>2 DEF CallInv, Has
  <1>. QED
    BY <1>2, <1>3

LEMMA McpSettlesKeeps == ASSUME CallInv, NEW outcome, McpSettles(outcome) PROVE CallInv'
  <1>1. /\ setup' = setup /\ call.step = "settling" /\ ~ call.asked /\ call.allowed
        /\ call.method = "tools/call" /\ call.tool \in Tools \ {"none"}
        /\ call.tool \in {"get_entry", "diagnose_exception"}
        /\ call.tool = "diagnose_exception" =>
             Has("diagnosis") /\ TypeOf[call.row] \in Diagnosable
    BY DEF McpSettles, accessVars, CallInv
  <1>2. CASE call.tool = "get_entry"
    <2>1. PICK answer : answer = Result("data") /\ answer # Silence
      BY AnswersDiffer
    <2>2. call' = RpcDone(answer)
      BY <1>2, <2>1 DEF McpSettles
    <2>. QED
      BY <1>1, <2>1, <2>2, RpcAnswers
  <1>3. CASE call.tool # "get_entry"
    <2>1. PICK answer : /\ answer = Result(IF outcome = "fails" THEN "no_result" ELSE "data")
                        /\ answer # Silence
      BY AnswersDiffer
    <2>2. PICK q : q = RpcDone(answer)
      OBVIOUS
    <2>3. call' = [q EXCEPT !.asked = TRUE]
      BY <1>3, <2>1, <2>2 DEF McpSettles
    <2>4. /\ q = [id |-> q.id, method |-> q.method, tool |-> q.tool, args |-> q.args,
                  row |-> q.row, step |-> q.step, allowed |-> q.allowed, seen |-> q.seen,
                  asked |-> q.asked, status |-> q.status, answer |-> q.answer]
          /\ q.step = "done" /\ q.method = call.method /\ q.tool = call.tool /\ q.row = call.row
          /\ q.allowed = call.allowed /\ (q.status = 200 <=> q.answer # Silence)
          /\ q.answer = Silence => ~ q.id
      BY <2>1, <2>2, RpcKeeps
    <2>5. call' = [id |-> q.id, method |-> q.method, tool |-> q.tool, args |-> q.args,
                   row |-> q.row, step |-> "done", allowed |-> q.allowed, seen |-> q.seen,
                   asked |-> TRUE, status |-> q.status, answer |-> q.answer]
      BY <2>3, <2>4
    <2>6. call.method \in Methods /\ call.tool \in AllTools \cup {"none"}
      BY DEF CallInv
    <2>. QED
      BY <1>1, <1>3, <2>4, <2>5, <2>6 DEF CallInv, Has
  <1>. QED
    BY <1>2, <1>3

\* A step of the endpoint, or one that does not touch it and leaves the configuration.
LEMMA CallStep == CallInv /\ [ConsoleNext]_<<visit, consoleVars>> => CallInv'
  <1>. SUFFICES ASSUME CallInv, [ConsoleNext]_<<visit, consoleVars>> PROVE CallInv'
    OBVIOUS
  <1>1. CASE McpNext
    <2>1. ASSUME NEW id \in BOOLEAN, NEW args \in BOOLEAN, NEW method \in Methods, NEW cred \in Credential,
                 NEW tool \in IF method = "tools/call" THEN AllTools \cup {"none"} ELSE {"none"},
                 NEW row, McpArrives(id, method, tool, args, row, cred, "deny")
          PROVE  CallInv'
      <3>1. tool \in AllTools \cup {"none"}
        OBVIOUS
      <3>. QED
        BY <2>1, <3>1, McpArrivesKeeps
    <2>. QED
      BY <1>1, <2>1, McpHandlesKeeps, McpReadsKeeps, McpSiblingsKeeps, McpSettlesKeeps DEF McpNext
  <1>2. CASE UNCHANGED call
    <2>1. setup' = setup
      <3>1. CASE Comes
        BY <3>1 DEF Comes, Arrives, accessVars
      <3>2. CASE Gate
        BY <3>2 DEF Gate, accessVars
      <3>3. CASE Handles
        BY <3>3 DEF Handles, Refuses, AnswersAtOnce, SendsPage, ShowsEntry, FindsSubject, Reads,
                    ActsOnQueue, ActionAnswers, StoreFails, ListsEntries, ProbesEntries, accessVars
      <3>4. CASE Signs
        BY <3>4 DEF Signs, SignsOut, ShowsLogin, SignsIn, accessVars
      <3>5. CASE Passing
        BY <3>5 DEF Passing, AccessMoves, Tick, Redeploy, JarChanges, accessVars
      <3>. QED
        BY <3>1, <3>2, <3>3, <3>4, <3>5, StepKinds
    <2>. QED
      BY <1>2, <2>1 DEF CallInv, Has
  <1>3. McpNext \/ UNCHANGED call
    BY DEF ConsoleNext, Sessions, Visits, Browses, Looks, Asks, consoleVars
  <1>. QED
    BY <1>1, <1>2, <1>3

-----------------------------------------------------------------------------
(* The walk through the pages                                              *)

\* What was seen reaches to position n of the store r: nothing of the start is missing up to
\* there, and if nothing moved it is what stands there.
ReachedIn(n, s, r, first, quiet) ==
  /\ \A i \in 1 .. Len(r) : i <= n /\ r[i] \in first => \E j \in DOMAIN s : s[j] = r[i]
  /\ quiet => n <= Len(r) /\ Len(s) = n /\ \A i \in 1 .. n : s[i] = r[i]

Reached(n, s) == ReachedIn(n, s, rows, walk.first, walk.quiet)

\* A page of a size holds what stands behind a position.
Follows(page, a, size) ==
  /\ page \in Seq(RowId)
  /\ Len(page) = IF a >= Len(rows) THEN 0 ELSE IF a + size <= Len(rows) THEN size ELSE Len(rows) - a
  /\ \A i \in 1 .. Len(page) : page[i] = rows[a + i]

\* Rows are numbered by age, and none is younger than the last.
RowsBelow == \A i \in 1 .. Len(rows) : rows[i] \in 0 .. born

\* How far the walk has come: the pages before the one it is on, and that one once it is read.
WalkInv ==
  /\ req.step # "done" => req.route = "entries" /\ req.id = walk.page /\ walk.page >= 1
  /\ walk.page \in Nat \cup {-1} /\ walk.first \subseteq 0 .. born
  /\ walk.page >= 1 => Reached((walk.page - 1) * RowsPerPage, walk.seen)
  /\ walk.page > 1 /\ walk.quiet => (walk.page - 1) * RowsPerPage < Len(rows)
  /\ req.step = "probing" =>
       req.found # <<>> /\ Reached(walk.page * RowsPerPage, walk.seen \o req.found)
  /\ PagesMissNothing

TableInv == RowsBelow /\ IF visit = "table" THEN WalkInv ELSE walk.page = 0

\* A page holds what stands at its place.
LEMMA PageParts ==
  ASSUME rows \in Seq(RowId), NEW page \in Nat \ {0}, NEW size \in Nat \ {0}
  PROVE  Follows(RowsAt(page, size), (page - 1) * size, size)
  <1>a. PICK a \in Nat : a = (page - 1) * size
    OBVIOUS
  <1>n. PICK n \in Nat : n = Len(rows)
    BY LenProperties
  <1>. SUFFICES
         /\ RowsAt(page, size) \in Seq(RowId)
         /\ Len(RowsAt(page, size)) = IF a >= n THEN 0 ELSE IF a + size <= n THEN size ELSE n - a
         /\ \A i \in 1 .. Len(RowsAt(page, size)) : RowsAt(page, size)[i] = rows[a + i]
    BY <1>a, <1>n DEF Follows
  <1>1. PICK b \in Nat : b = page * size /\ b = a + size
    BY <1>a
  <1>2. PICK c \in Nat : c = IF b <= n THEN b ELSE n
    OBVIOUS
  <1>3. RowsAt(page, size) = IF a >= n THEN <<>> ELSE SubSeq(rows, a + 1, c)
    BY <1>a, <1>n, <1>1, <1>2 DEF RowsAt
  <1>4. CASE a >= n
    <2>1. RowsAt(page, size) = <<>>
      BY <1>3, <1>4
    <2>. QED
      BY <1>4, <2>1, EmptySeq
  <1>5. CASE a < n
    <2>1. PICK p : p = RowsAt(page, size) /\ p = SubSeq(rows, a + 1, c)
      BY <1>3, <1>5
    <2>2. \A i \in a + 1 .. c : rows[i] \in RowId
      <3>1. \A i \in 1 .. n : rows[i] \in RowId
        BY <1>n, LenProperties
      <3>2. \A i \in a + 1 .. c : i \in 1 .. n
        BY <1>2
      <3>. QED
        BY <3>1, <3>2
    <2>3. PICK x \in Int : x = a + 1 /\ c \in Int
      OBVIOUS
    <2>4. /\ SubSeq(rows, x, c) \in Seq(RowId)
          /\ Len(SubSeq(rows, x, c)) = (IF x <= c THEN c - x + 1 ELSE 0)
          /\ \A i \in 1 .. c - x + 1 : SubSeq(rows, x, c)[i] = rows[x + i - 1]
      BY <2>2, <2>3, SubSeqProperties
    <2>5. /\ p \in Seq(RowId) /\ Len(p) = (IF x <= c THEN c - x + 1 ELSE 0)
          /\ \A i \in 1 .. c - x + 1 : p[i] = rows[x + i - 1]
      BY <2>1, <2>3, <2>4
    <2>6. PICK m \in Nat : m = c - a /\ a < c
      <3>1. a < c
        BY <1>1, <1>2, <1>5
      <3>. QED
        BY <3>1
    <2>7. /\ x <= c /\ c - x + 1 = m /\ \A i \in 1 .. m : x + i - 1 = a + i
          /\ m = IF a + size <= n THEN size ELSE n - a
      <3>1. x <= c /\ c - x + 1 = m /\ \A i \in 1 .. m : x + i - 1 = a + i
        BY <2>3, <2>6
      <3>2. a + size <= n => m = size
        BY <1>1, <1>2, <2>6
      <3>3. ~ (a + size <= n) => m = n - a
        BY <1>1, <1>2, <2>6
      <3>. QED
        BY <3>1, <3>2, <3>3
    <2>8. Len(p) = m /\ \A i \in 1 .. m : p[i] = rows[a + i]
      BY <2>5, <2>7
    <2>9. ~ (a >= n)
      BY <1>5
    <2>. QED
      BY <2>1, <2>5, <2>7, <2>8, <2>9
  <1>. QED
    BY <1>4, <1>5

\* Reading on from where the walk has come.
LEMMA ReachedGrows ==
  ASSUME NEW s \in Seq(RowId), NEW page \in Seq(RowId), NEW a \in Nat, NEW m \in Nat, NEW n \in Nat,
         rows \in Seq(RowId), walk.quiet \in BOOLEAN, n = Len(rows), m = Len(page), Reached(a, s),
         m = 0 \/ a + m <= n, \A i \in 1 .. m : page[i] = rows[a + i]
  PROVE  Reached(a + m, s \o page)
  <1>1. PICK k \in Nat : k = Len(s) /\ DOMAIN s = 1 .. k
    BY LenProperties
  <1>2. PICK t : t = s \o page
    OBVIOUS
  <1>3. /\ t \in Seq(RowId) /\ Len(t) = k + m /\ DOMAIN t = 1 .. k + m
        /\ \A i \in 1 .. k : t[i] = s[i]
        /\ \A i \in 1 .. m : t[k + i] = page[i]
    <2>1. /\ t \in Seq(RowId) /\ Len(t) = k + m
          /\ \A i \in 1 .. k + m : t[i] = IF i <= k THEN s[i] ELSE page[i - k]
      BY <1>1, <1>2, ConcatProperties
    <2>2. DOMAIN t = 1 .. k + m
      BY <2>1, LenProperties
    <2>3. \A i \in 1 .. k : i \in 1 .. k + m /\ i <= k
      OBVIOUS
    <2>4. \A i \in 1 .. m : k + i \in 1 .. k + m /\ ~ (k + i <= k) /\ k + i - k = i
      OBVIOUS
    <2>. QED
      BY <2>1, <2>2, <2>3, <2>4
  <1>4. ASSUME NEW i \in 1 .. n, i <= a + m, rows[i] \in walk.first
        PROVE  \E j \in DOMAIN t : t[j] = rows[i]
    <2>1. CASE i <= a
      <3>1. PICK j \in 1 .. k : s[j] = rows[i]
        BY <1>1, <1>4, <2>1 DEF Reached, ReachedIn
      <3>2. j \in DOMAIN t
        BY <1>3
      <3>. QED
        BY <1>3, <3>1, <3>2
    <2>2. CASE a < i
      <3>1. PICK d \in 1 .. m : d = i - a /\ a + d = i
        BY <1>4, <2>2
      <3>2. k + d \in DOMAIN t /\ t[k + d] = page[d] /\ page[d] = rows[a + d]
        BY <1>3
      <3>. QED
        BY <3>1, <3>2
    <2>. QED
      BY <2>1, <2>2
  <1>5. ASSUME walk.quiet
        PROVE  a + m <= n /\ Len(t) = a + m /\ \A i \in 1 .. a + m : t[i] = rows[i]
    <2>1. a <= n /\ k = a /\ \A i \in 1 .. a : s[i] = rows[i]
      BY <1>1, <1>5 DEF Reached, ReachedIn
    <2>2. a + m <= n
      BY <2>1
    <2>3. ASSUME NEW i \in 1 .. a + m PROVE t[i] = rows[i]
      <3>1. CASE i <= a
        BY <1>3, <2>1, <3>1
      <3>2. CASE a < i
        <4>1. PICK d \in 1 .. m : d = i - a /\ k + d = i /\ a + d = i
          BY <2>1, <3>2
        <4>2. t[k + d] = page[d] /\ page[d] = rows[a + d]
          BY <1>3
        <4>. QED
          BY <4>1, <4>2
      <3>. QED
        BY <3>1, <3>2
    <2>. QED
      BY <1>3, <2>1, <2>2, <2>3
  <1>6. Reached(a + m, t)
    BY <1>4, <1>5 DEF Reached, ReachedIn
  <1>. QED
    BY <1>2, <1>6

LEMMA ReachedStays ==
  ASSUME NEW n, NEW s, Reached(n, s), rows' = rows, walk'.first = walk.first, walk'.quiet = walk.quiet
  PROVE  Reached(n, s)'
  BY DEF Reached

\* Once everything was reached, all of the start that is still there was seen.
LEMMA WalkEnds ==
  ASSUME NEW r \in Seq(RowId), NEW s \in Seq(RowId), NEW first, NEW quiet \in BOOLEAN,
         NEW n \in Nat, Len(r) <= n, ReachedIn(n, s, r, first, quiet)
  PROVE  /\ first \cap {r[i] : i \in DOMAIN r} \subseteq {s[i] : i \in DOMAIN s}
         /\ quiet => s = r
  <1>1. PICK m \in Nat : m = Len(r) /\ DOMAIN r = 1 .. m
    BY LenProperties
  <1>2. first \cap {r[i] : i \in DOMAIN r} \subseteq {s[i] : i \in DOMAIN s}
    <2>1. \A i \in 1 .. m : i <= n
      BY <1>1
    <2>2. \A i \in 1 .. m : r[i] \in first => \E j \in DOMAIN s : s[j] = r[i]
      BY <1>1, <2>1 DEF ReachedIn
    <2>. QED
      BY <1>1, <2>2
  <1>3. ASSUME quiet PROVE s = r
    <2>1. n = m
      BY <1>1, <1>3 DEF ReachedIn
    <2>2. Len(s) = Len(r) /\ \A i \in 1 .. Len(s) : s[i] = r[i]
      BY <1>1, <1>3, <2>1 DEF ReachedIn
    <2>. QED
      BY <2>2, SeqEqual
  <1>. QED
    BY <1>2, <1>3

LEMMA ListsEntriesReaches ==
  ASSUME ApiShape, RowsBelow, WalkInv, ListsEntries
  PROVE  WalkInv'
  <1>1. /\ rows \in Seq(RowId) /\ req \in Request /\ walk \in Walk
        /\ req.step = "handle" /\ req.route = "entries" /\ req.id = walk.page /\ walk.page >= 1
        /\ rows' = rows /\ born' = born
    BY DEF ListsEntries, Passes, ApiShape, WalkInv
  <1>2. PICK p \in Nat \ {0} : p = walk.page /\ p = req.id
    BY <1>1 DEF Walk
  <1>3. PICK a \in Nat : a = (p - 1) * RowsPerPage /\ a + RowsPerPage = p * RowsPerPage
    BY <1>2, DashboardApiAssumption
  <1>4. PICK n \in Nat : n = Len(rows)
    BY <1>1, LenProperties
  <1>5. PICK page : page = RowsAt(p, RowsPerPage)
    OBVIOUS
  <1>6. /\ page \in Seq(RowId)
        /\ Len(page) = IF a >= n THEN 0 ELSE IF a + RowsPerPage <= n THEN RowsPerPage ELSE n - a
        /\ \A i \in 1 .. Len(page) : page[i] = rows[a + i]
    <2>1. Follows(RowsAt(p, RowsPerPage), (p - 1) * RowsPerPage, RowsPerPage)
      BY <1>1, PageParts, DashboardApiAssumption
    <2>2. Follows(page, a, RowsPerPage)
      BY <1>3, <1>5, <2>1
    <2>. QED
      BY <1>4, <2>2 DEF Follows
  <1>7. PICK m \in Nat : m = Len(page)
    BY <1>6, LenProperties
  <1>8. PICK size \in Nat \ {0} : size = RowsPerPage
    BY DashboardApiAssumption
  <1>9. (m = 0 \/ a + m <= n) /\ (m # size => n <= a + m) /\ (m = size => a + m <= n)
        /\ (a < n => m # 0)
    BY <1>6, <1>7, <1>8
  <1>10. PICK s \in Seq(RowId) : s = walk.seen
    BY <1>1 DEF Walk
  <1>11. Reached(a, s) /\ walk.quiet \in BOOLEAN
    BY <1>1, <1>2, <1>3, <1>10 DEF WalkInv, Walk
  <1>12. Reached(a + m, s \o page)
    BY <1>1, <1>4, <1>6, <1>7, <1>9, <1>11, ReachedGrows
  <1>13. walk.quiet => (p > 1 => page # <<>>)
    <2>1. SUFFICES ASSUME walk.quiet, p > 1 PROVE page # <<>>
      OBVIOUS
    <2>2. a < n
      BY <1>2, <1>3, <1>4, <2>1 DEF WalkInv
    <2>. QED
      BY <1>7, <1>9, <2>2, EmptySeq
  <1>14. walk.first \subseteq 0 .. born
    BY DEF WalkInv
  <1>15. CASE m = size
    <2>1. /\ walk' = walk /\ req'.step = "probing" /\ req'.found = page /\ req'.id = req.id
          /\ req'.route = req.route
      BY <1>1, <1>2, <1>5, <1>7, <1>8, <1>15 DEF ListsEntries, Request
    <2>2. page # <<>>
      BY <1>7, <1>8, <1>15, EmptySeq
    <2>3. PICK t : t = s \o page /\ Reached(a + size, t)
      BY <1>12, <1>15
    <2>4. Reached(walk.page * RowsPerPage, walk.seen \o req.found)'
      <3>1. walk'.page * RowsPerPage = a + size /\ walk'.seen \o req'.found = t
        BY <1>2, <1>3, <1>8, <1>10, <2>1, <2>3
      <3>2. Reached(a + size, t)'
        BY <1>1, <2>1, <2>3, ReachedStays
      <3>. QED
        BY <3>1, <3>2 DEF Reached
    <2>5. Reached((walk.page - 1) * RowsPerPage, walk.seen)'
      <3>1. Reached(a, s)'
        BY <1>1, <1>11, <2>1, ReachedStays
      <3>2. (walk'.page - 1) * RowsPerPage = a /\ walk'.seen = s
        BY <1>2, <1>3, <1>10, <2>1
      <3>. QED
        BY <3>1, <3>2 DEF Reached
    <2>6. PagesMissNothing'
      BY <1>1, <2>1 DEF PagesMissNothing
    <2>. QED
      BY <1>1, <1>14, <2>1, <2>2, <2>4, <2>5, <2>6 DEF WalkInv
  <1>16. CASE m # size
    <2>1. /\ walk' = [walk EXCEPT !.page = -1, !.seen = @ \o page]
          /\ req' = [Answered(200, "last") EXCEPT !.found = page]
      BY <1>2, <1>5, <1>7, <1>8, <1>16 DEF ListsEntries
    <2>2. /\ walk'.page = -1 /\ walk'.seen = s \o page /\ walk'.first = walk.first
          /\ walk'.quiet = walk.quiet
      BY <1>1, <1>10, <2>1 DEF Walk
    <2>3. req'.step = "done" /\ req'.found = page /\ req'.id = req.id
      BY <1>1, <2>1 DEF Answered, Request
    <2>4. PICK t : t = s \o page /\ Reached(a + m, t)
      BY <1>12
    <2>5. Reached(a + m, t)'
      BY <1>1, <2>2, <2>4, ReachedStays
    <2>6. PagesMissNothing'
      <3>1. /\ rows' \in Seq(RowId) /\ t \in Seq(RowId) /\ t = walk'.seen
            /\ Len(rows') <= a + m /\ walk'.quiet \in BOOLEAN
            /\ walk'.quiet => (req'.id > 1 => req'.found # <<>>)
        <4>1. t \in Seq(RowId)
          BY <1>6, <1>10, <2>4, ConcatProperties
        <4>2. Len(rows') <= a + m
          BY <1>1, <1>4, <1>8, <1>9, <1>16
        <4>. QED
          BY <1>1, <1>2, <1>11, <1>13, <2>2, <2>3, <2>4, <4>1, <4>2
      <3>2. PICK k \in Nat : k = a + m /\ Reached(k, t)'
        BY <2>5
      <3>3. ReachedIn(k, t, rows', walk'.first, walk'.quiet) /\ Len(rows') <= k
        BY <3>1, <3>2 DEF Reached
      <3>4. /\ walk'.first \cap {rows'[i] : i \in DOMAIN rows'} \subseteq {t[i] : i \in DOMAIN t}
            /\ walk'.quiet => t = rows'
        BY <3>1, <3>3, WalkEnds
      <3>. QED
        BY <3>1, <3>4 DEF PagesMissNothing
    <2>. QED
      BY <1>1, <1>14, <2>2, <2>3, <2>6 DEF WalkInv
  <1>. QED
    BY <1>15, <1>16

\* The row after a page is there if the store is longer.
LEMMA MoreIsThere ==
  ASSUME rows \in Seq(RowId), NEW b \in Nat, b = req.id * RowsPerPage
  PROVE  HasMore <=> b < Len(rows)
  <1>1. PICK n \in Nat : n = Len(rows)
    BY LenProperties
  <1>2. PICK next \in Nat \ {0} : next = b + 1
    OBVIOUS
  <1>3. PICK page : page = RowsAt(next, 1) /\ Follows(page, (next - 1) * 1, 1)
    BY <1>2, PageParts
  <1>4. (next - 1) * 1 = b
    BY <1>2
  <1>5. page \in Seq(RowId) /\ Len(page) = IF b >= n THEN 0 ELSE IF b + 1 <= n THEN 1 ELSE n - b
    BY <1>1, <1>3, <1>4 DEF Follows
  <1>6. page # <<>> <=> b < n
    <2>1. CASE b >= n
      BY <1>5, <2>1, EmptySeq
    <2>2. CASE b < n
      <3>1. Len(page) = 1
        BY <1>5, <2>2
      <3>2. page = <<>> => Len(page) = 0
        BY <1>5, EmptySeq
      <3>3. page # <<>>
        BY <3>1, <3>2
      <3>. QED
        BY <2>2, <3>3
    <2>. QED
      BY <2>1, <2>2
  <1>. QED
    BY <1>1, <1>2, <1>3, <1>6 DEF HasMore

LEMMA ProbesEntriesReaches ==
  ASSUME ApiShape, WalkInv, ProbesEntries
  PROVE  WalkInv'
  <1>1. /\ rows \in Seq(RowId) /\ req \in Request /\ walk \in Walk
        /\ req.step = "probing" /\ req.id = walk.page /\ walk.page >= 1
        /\ rows' = rows /\ born' = born
    BY DEF ProbesEntries, ApiShape, WalkInv
  <1>2. PICK p \in Nat \ {0} : p = walk.page /\ p = req.id
    BY <1>1 DEF Walk
  <1>3. PICK b \in Nat : b = p * RowsPerPage
    BY <1>2, DashboardApiAssumption
  <1>4. PICK t \in Seq(RowId) : t = walk.seen \o req.found
    BY <1>1, ConcatProperties DEF Walk, Request
  <1>5. Reached(b, t) /\ req.found # <<>> /\ walk.quiet \in BOOLEAN /\ walk.first \subseteq 0 .. born
    BY <1>1, <1>2, <1>3, <1>4 DEF WalkInv, Walk
  <1>6. HasMore <=> b < Len(rows)
    BY <1>1, <1>2, <1>3, MoreIsThere
  <1>7. PICK page \in Int : page = IF HasMore THEN p + 1 ELSE -1
    OBVIOUS
  <1>8. /\ walk'.page = page /\ walk'.seen = t /\ walk'.first = walk.first /\ walk'.quiet = walk.quiet
    <2>1. walk' = [walk EXCEPT !.page = page, !.seen = t]
      BY <1>1, <1>2, <1>4, <1>7 DEF ProbesEntries, Walk
    <2>. QED
      BY <1>1, <2>1 DEF Walk
  <1>9. req'.step = "done" /\ req'.found = req.found /\ req'.id = req.id
    BY <1>1 DEF ProbesEntries, Answered, Request
  <1>10. Reached(b, t)'
    BY <1>1, <1>5, <1>8, ReachedStays DEF Reached
  <1>11. CASE HasMore
    <2>1. walk'.page = p + 1 /\ (walk'.page - 1) * RowsPerPage = b /\ b < Len(rows')
      BY <1>1, <1>3, <1>6, <1>7, <1>8, <1>11
    <2>2. Reached((walk.page - 1) * RowsPerPage, walk.seen)'
      BY <1>8, <1>10, <2>1 DEF Reached
    <2>3. PagesMissNothing'
      BY <2>1 DEF PagesMissNothing
    <2>4. walk'.page \in Nat \cup {-1} /\ walk'.first \subseteq 0 .. born'
      BY <1>1, <1>5, <1>8, <2>1
    <2>. QED
      BY <1>9, <2>1, <2>2, <2>3, <2>4 DEF WalkInv
  <1>12. CASE ~ HasMore
    <2>1. walk'.page = -1 /\ Len(rows') <= b
      <3>1. Len(rows) \in Nat
        BY <1>1, LenProperties
      <3>. QED
        BY <1>1, <1>6, <1>7, <1>8, <1>12, <3>1
    <2>2. /\ walk'.first \cap {rows'[i] : i \in DOMAIN rows'} \subseteq {t[i] : i \in DOMAIN t}
          /\ walk'.quiet => t = rows'
      <3>1. ReachedIn(b, t, rows', walk'.first, walk'.quiet) /\ walk'.quiet \in BOOLEAN
            /\ rows' \in Seq(RowId) /\ t \in Seq(RowId) /\ b \in Nat /\ Len(rows') <= b
        BY <1>1, <1>5, <1>8, <1>10, <2>1 DEF Reached
      <3>. QED
        BY <3>1, WalkEnds
    <2>3. PagesMissNothing'
      BY <1>5, <1>8, <1>9, <2>2 DEF PagesMissNothing
    <2>. QED
      BY <1>1, <1>5, <1>8, <1>9, <2>1, <2>3 DEF WalkInv
  <1>. QED
    BY <1>11, <1>12

\* The store moves: what was there moves away from the front, and what comes was not there.
LEMMA StoreMovesParts ==
  ASSUME ApiShape, RowsBelow, StoreMoves
  PROVE  /\ RowsBelow' /\ born \in Nat /\ born' \in Nat /\ born <= born'
         /\ \A i \in 1 .. Len(rows') :
              \/ rows'[i] = born + 1
              \/ \E j \in 1 .. Len(rows) : j <= i /\ rows'[i] = rows[j]
  <1>1. rows \in Seq(RowId) /\ born \in Nat
    BY DEF ApiShape
  <1>2. PICK n \in Nat : n = Len(rows)
    BY <1>1, LenProperties
  <1>3. CASE born' = born + 1 /\ rows' = <<born + 1>> \o rows
    <2>0. PICK x \in RowId : x = born + 1
      BY <1>1 DEF RowId
    <2>1. PICK one : one = <<x>> /\ one \in Seq(RowId) /\ Len(one) = 1 /\ one[1] = born + 1
      <3>1. <<x>> \in Seq(RowId) /\ Len(<<x>>) = 1 /\ <<x>>[1] = x
        OBVIOUS
      <3>. QED
        BY <2>0, <3>1
    <2>2. /\ one \o rows \in Seq(RowId) /\ Len(one \o rows) = 1 + n
          /\ \A i \in 1 .. 1 + n : (one \o rows)[i] = IF i <= 1 THEN one[i] ELSE rows[i - 1]
      BY <1>1, <1>2, <2>1, ConcatProperties
    <2>3. Len(rows') = 1 + n /\ \A i \in 1 .. 1 + n : rows'[i] = IF i <= 1 THEN one[i] ELSE rows[i - 1]
      BY <1>3, <2>0, <2>1, <2>2
    <2>4. ASSUME NEW i \in 1 .. 1 + n
          PROVE  \/ rows'[i] = born + 1
                 \/ \E j \in 1 .. n : j <= i /\ rows'[i] = rows[j]
      <3>1. CASE i = 1
        BY <2>1, <2>3, <3>1
      <3>2. CASE i # 1
        <4>1. i - 1 \in 1 .. n /\ i - 1 <= i /\ ~ (i <= 1)
          BY <3>2
        <4>. QED
          BY <2>3, <4>1
      <3>. QED
        BY <3>1, <3>2
    <2>5. \A i \in 1 .. 1 + n : rows'[i] \in 0 .. born + 1
      <3>1. \A j \in 1 .. n : rows[j] \in 0 .. born + 1
        BY <1>1, <1>2 DEF RowsBelow
      <3>. QED
        BY <1>1, <2>4, <3>1
    <2>6. Len(rows') = 1 + n /\ born' = born + 1 /\ Len(rows) = n
      BY <1>2, <1>3, <2>3
    <2>7. RowsBelow'
      BY <2>5, <2>6 DEF RowsBelow
    <2>. QED
      BY <1>1, <2>4, <2>6, <2>7
  <1>4. CASE rows # <<>> /\ rows' = SubSeq(rows, 1, Len(rows) - 1) /\ born' = born
    <2>1. PICK m \in Nat : m = Len(rows) - 1 /\ m <= Len(rows) /\ m < n
      BY <1>1, <1>2, <1>4, EmptySeq
    <2>2. Len(rows') = m /\ \A i \in 1 .. m : rows'[i] = rows[i] /\ i \in 1 .. n
      BY <1>1, <1>4, <2>1, CutParts
    <2>. QED
      BY <1>1, <1>2, <1>4, <2>2 DEF RowsBelow
  <1>. QED
    BY <1>3, <1>4 DEF StoreMoves

LEMMA StoreMovesReaches ==
  ASSUME ApiShape, RowsBelow, WalkInv, StoreMoves
  PROVE  WalkInv'
  <1>1. /\ walk \in Walk /\ req' = req /\ walk' = [walk EXCEPT !.quiet = FALSE]
        /\ rows \in Seq(RowId)
    BY DEF ApiShape, StoreMoves
  <1>2. /\ walk'.page = walk.page /\ walk'.seen = walk.seen /\ walk'.first = walk.first
        /\ ~ walk'.quiet
    BY <1>1 DEF Walk
  <1>3. /\ born \in Nat /\ born' \in Nat /\ born <= born'
        /\ \A i \in 1 .. Len(rows') :
             \/ rows'[i] = born + 1
             \/ \E j \in 1 .. Len(rows) : j <= i /\ rows'[i] = rows[j]
    BY StoreMovesParts
  <1>4. walk.first \subseteq 0 .. born
    BY DEF WalkInv
  <1>5. born + 1 \notin walk.first
    BY <1>3, <1>4
  <1>6. \A i \in 1 .. Len(rows') : rows'[i] \in walk.first =>
          \E j \in 1 .. Len(rows) : j <= i /\ rows'[i] = rows[j]
    BY <1>3, <1>5
  <1>7. ASSUME NEW n \in Int, NEW s, Reached(n, s) PROVE Reached(n, s)'
    <2>1. ASSUME NEW i \in 1 .. Len(rows'), i <= n, rows'[i] \in walk.first
          PROVE  \E j \in DOMAIN s : s[j] = rows'[i]
      <3>1. PICK j \in 1 .. Len(rows) : j <= i /\ rows'[i] = rows[j]
        BY <1>6, <2>1
      <3>2. j <= n /\ rows[j] \in walk.first
        BY <2>1, <3>1
      <3>3. \E k \in DOMAIN s : s[k] = rows[j]
        BY <1>7, <3>2 DEF Reached, ReachedIn
      <3>. QED
        BY <3>1, <3>3
    <2>. QED
      BY <1>2, <2>1 DEF Reached, ReachedIn
  <1>8. PICK a \in Int : a = (walk.page - 1) * RowsPerPage
    BY <1>1, DashboardApiAssumption DEF Walk
  <1>9. PICK b \in Int : b = walk.page * RowsPerPage
    BY <1>1, DashboardApiAssumption DEF Walk
  <1>10. walk'.page >= 1 => Reached((walk.page - 1) * RowsPerPage, walk.seen)'
    <2>1. SUFFICES ASSUME walk.page >= 1 PROVE Reached((walk.page - 1) * RowsPerPage, walk.seen)'
      BY <1>2
    <2>2. PICK s : s = walk.seen /\ Reached(a, s)
      BY <1>8, <2>1 DEF WalkInv
    <2>3. Reached(a, s)'
      BY <1>7, <2>2
    <2>. QED
      BY <1>2, <1>8, <2>2, <2>3 DEF Reached
  <1>11. req'.step = "probing" =>
           req'.found # <<>> /\ Reached(walk.page * RowsPerPage, walk.seen \o req.found)'
    <2>1. SUFFICES ASSUME req.step = "probing"
                   PROVE  req.found # <<>> /\ Reached(walk.page * RowsPerPage, walk.seen \o req.found)'
      BY <1>1
    <2>2. PICK s : s = walk.seen \o req.found /\ Reached(b, s) /\ req.found # <<>>
      BY <1>9, <2>1 DEF WalkInv
    <2>3. Reached(b, s)'
      BY <1>7, <2>2
    <2>. QED
      BY <1>1, <1>2, <1>9, <2>2, <2>3 DEF Reached
  <1>12. PagesMissNothing'
    <2>1. SUFFICES ASSUME walk.page = -1
                   PROVE  walk.first \cap {rows'[i] : i \in DOMAIN rows'}
                            \subseteq {walk.seen[i] : i \in DOMAIN walk.seen}
      BY <1>2 DEF PagesMissNothing
    <2>2. walk.first \cap {rows[i] : i \in DOMAIN rows} \subseteq {walk.seen[i] : i \in DOMAIN walk.seen}
      BY <2>1 DEF WalkInv, PagesMissNothing
    <2>3. DOMAIN rows = 1 .. Len(rows) /\ DOMAIN rows' = 1 .. Len(rows')
      <3>1. rows' \in Seq(RowId)
        BY StoreMovesKeepRows
      <3>. QED
        BY <1>1, <3>1, LenProperties
    <2>4. \A i \in DOMAIN rows' : rows'[i] \in walk.first => \E j \in DOMAIN rows : rows'[i] = rows[j]
      BY <1>6, <2>3
    <2>. QED
      BY <2>2, <2>4
  <1>13. walk'.first \subseteq 0 .. born'
    BY <1>2, <1>3, <1>4
  <1>. QED
    BY <1>1, <1>2, <1>10, <1>11, <1>12, <1>13 DEF WalkInv

LEMMA WalkBeginsReaches ==
  ASSUME ApiShape, RowsBelow, WalkInv, WalkBegins
  PROVE  WalkInv'
  <1>1. /\ rows \in Seq(RowId) /\ born \in Nat /\ rows' = rows /\ born' = born /\ req' = req
        /\ walk.page = 0
    BY DEF ApiShape, WalkBegins
  <1>2. req.step = "done"
    BY <1>1 DEF WalkInv, ApiShape, Request, Step
  <1>3. PICK there : there = {rows[i] : i \in DOMAIN rows}
    OBVIOUS
  <1>4. there \subseteq 0 .. born
    <2>1. \A i \in DOMAIN rows : rows[i] \in 0 .. born
      BY <1>1, LenProperties DEF RowsBelow
    <2>. QED
      BY <1>3, <2>1
  <1>5. walk'.page = 1 /\ walk'.seen = <<>> /\ walk'.first = there /\ walk'.quiet = TRUE
    BY <1>3 DEF WalkBegins, NoWalk
  <1>6. Reached(0, <<>>)'
    <2>1. Len(rows') \in Nat
      BY <1>1, LenProperties
    <2>2. Len(<<>>) = 0
      OBVIOUS
    <2>. QED
      BY <2>1, <2>2 DEF Reached, ReachedIn
  <1>7. (walk'.page - 1) * RowsPerPage = 0
    BY <1>5, DashboardApiAssumption
  <1>8. Reached((walk.page - 1) * RowsPerPage, walk.seen)'
    BY <1>5, <1>6, <1>7 DEF Reached
  <1>9. PagesMissNothing'
    BY <1>5 DEF PagesMissNothing
  <1>10. walk'.page \in Nat \cup {-1} /\ ~ (walk'.page > 1)
    BY <1>5
  <1>. QED
    BY <1>1, <1>2, <1>4, <1>5, <1>8, <1>9, <1>10 DEF WalkInv

\* A request that comes, or that the gate judges, leaves the walk where it is.
LEMMA RequestReaches ==
  ASSUME WalkInv, UNCHANGED <<born, rows, walk>>, walk.page >= 1, req'.step # "probing",
         req'.step # "done" => req'.route = "entries" /\ req'.id = walk.page
  PROVE  WalkInv'
  <1>1. PICK s : s = walk.seen /\ Reached((walk.page - 1) * RowsPerPage, s)
    BY DEF WalkInv
  <1>2. PICK a : a = (walk.page - 1) * RowsPerPage
    OBVIOUS
  <1>3. Reached(a, s)'
    BY <1>1, <1>2, ReachedStays
  <1>4. Reached((walk.page - 1) * RowsPerPage, walk.seen)'
    BY <1>1, <1>2, <1>3 DEF Reached
  <1>5. walk.page # -1
    OBVIOUS
  <1>6. PagesMissNothing'
    BY <1>5 DEF PagesMissNothing
  <1>. QED
    BY <1>4, <1>6 DEF WalkInv

LEMMA RestReaches ==
  ASSUME WalkInv, UNCHANGED apiVars
  PROVE  WalkInv'
  BY DEF WalkInv, Reached, PagesMissNothing, apiVars

LEMMA GateReaches ==
  ASSUME AccessShape, ApiShape, WalkInv, Gate
  PROVE  WalkInv'
  <1>1. req \in Request
    BY DEF ApiShape
  <1>2. /\ UNCHANGED <<accessVars, born, rows, walk>> /\ req.step = "guard"
        /\ req'.route = req.route /\ req'.id = req.id /\ req'.step \in {"done", "handle"}
    BY <1>1, GateJudges DEF Request
  <1>3. req.route = "entries" /\ req.id = walk.page /\ walk.page >= 1
    BY <1>2 DEF WalkInv
  <1>. QED
    BY <1>2, <1>3, RequestReaches

LEMMA StoreFailsReaches ==
  ASSUME ApiShape, WalkInv, StoreFails
  PROVE  WalkInv'
  <1>1. req \in Request /\ req.step # "done" /\ UNCHANGED <<born, rows, walk>>
    BY DEF ApiShape, StoreFails, Passes
  <1>2. req'.step = "done"
    BY <1>1 DEF StoreFails, Answered, Request
  <1>3. walk.page >= 1
    BY <1>1 DEF WalkInv
  <1>. QED
    BY <1>1, <1>2, <1>3, RequestReaches

LEMMA ArrivesReaches ==
  ASSUME ApiShape, WalkInv, walk.page \in 1 .. MaxWalkPage,
         Arrives("entries", "token", "allow", "ok", walk.page)
  PROVE  WalkInv'
  <1>1. PICK q \in Request : q = NoReq
    BY NoReqIsOne
  <1>2. req' = [NoReq EXCEPT !.route = "entries", !.cred = "token", !.own = "allow", !.cookie = jar,
                             !.arg = "ok", !.id = walk.page, !.step = "guard"]
    BY DEF Arrives, SignInRoutes
  <1>3. req'.route = "entries" /\ req'.id = walk.page /\ req'.step = "guard"
    BY <1>1, <1>2 DEF Request
  <1>4. UNCHANGED <<born, rows, walk>> /\ walk.page >= 1
    BY DashboardApiAssumption DEF Arrives
  <1>. QED
    BY <1>3, <1>4, RequestReaches

\* The walk, and the store it goes through, keep what was reached.
LEMMA BrowsesReaches ==
  ASSUME AccessShape, ApiShape, RowsBelow, WalkInv, Browses
  PROVE  RowsBelow' /\ WalkInv'
  <1>1. CASE WalkBegins
    BY <1>1, WalkBeginsReaches DEF WalkBegins, RowsBelow
  <1>2. CASE walk.page \in 1 .. MaxWalkPage /\ Arrives("entries", "token", "allow", "ok", walk.page)
    BY <1>2, ArrivesReaches DEF Arrives, RowsBelow
  <1>3. CASE Gate
    BY <1>3, GateReaches DEF Gate, RowsBelow
  <1>4. CASE ListsEntries
    BY <1>4, ListsEntriesReaches DEF ListsEntries, RowsBelow
  <1>5. CASE ProbesEntries
    BY <1>5, ProbesEntriesReaches DEF ProbesEntries, RowsBelow
  <1>6. CASE StoreMoves
    BY <1>6, StoreMovesReaches, StoreMovesParts
  <1>7. CASE StoreFails
    BY <1>7, StoreFailsReaches DEF StoreFails, RowsBelow
  <1>. QED
    BY <1>1, <1>2, <1>3, <1>4, <1>5, <1>6, <1>7 DEF Browses

\* The other parts of the dashboard do not walk.
LEMMA OthersStay ==
  ASSUME ApiShape, RowsBelow, walk.page = 0, Sessions \/ Visits \/ Looks \/ Asks
  PROVE  RowsBelow' /\ walk'.page = 0
  <1>1. CASE StoreMoves
    <2>1. walk' = [walk EXCEPT !.quiet = FALSE] /\ walk \in Walk
      BY <1>1 DEF StoreMoves, ApiShape
    <2>2. walk'.page = walk.page
      BY <2>1 DEF Walk
    <2>. QED
      BY <1>1, <2>2, StoreMovesParts
  <1>2. CASE UNCHANGED <<born, rows, walk>>
    BY <1>2 DEF RowsBelow
  <1>3. Sessions => UNCHANGED <<born, rows, walk>>
    BY DEF Sessions, apiVars, Arrives, SignsOut, ShowsLogin, SignsIn, Gate, SendsPage, AnswersAtOnce
  <1>4. Visits => StoreMoves \/ UNCHANGED <<born, rows, walk>>
    <2>1. ASSUME NEW route, NEW cred, NEW own, NEW arg, NEW id, Arrives(route, cred, own, arg, id)
          PROVE  UNCHANGED <<born, rows, walk>>
      BY <2>1 DEF Arrives
    <2>2. Gate \/ Refuses \/ AnswersAtOnce \/ SendsPage \/ ShowsEntry \/ FindsSubject \/ StoreFails =>
            UNCHANGED <<born, rows, walk>>
      BY DEF Gate, Refuses, AnswersAtOnce, SendsPage, ShowsEntry, FindsSubject, StoreFails
    <2>3. ASSUME NEW outcome, Reads(outcome) \/ ActsOnQueue(outcome) \/ ActionAnswers(outcome)
          PROVE  UNCHANGED <<born, rows, walk>>
      BY <2>3 DEF Reads, ActsOnQueue, ActionAnswers
    <2>. QED
      BY <2>1, <2>2, <2>3 DEF Visits
  <1>5. Looks => StoreMoves \/ UNCHANGED <<born, rows, walk>>
    BY DEF Looks, apiVars, StoreFeeds
  <1>6. Asks => StoreMoves \/ UNCHANGED <<born, rows, walk>>
    BY McpKeepsStore DEF Asks, apiVars
  <1>. QED
    BY <1>1, <1>2, <1>3, <1>4, <1>5, <1>6

LEMMA TableBegins == ConsoleInit => TableInv
  <1>. SUFFICES ASSUME ConsoleInit PROVE TableInv
    OBVIOUS
  <1>1. /\ born \in 0 .. Cardinality(Row) /\ rows = [i \in 1 .. born |-> born + 1 - i]
        /\ req = NoReq /\ walk = NoWalk
    BY DEF ConsoleInit, ApiInit
  <1>2. born \in Nat
    BY <1>1
  <1>3. Len(rows) = born /\ \A i \in 1 .. born : rows[i] = born + 1 - i
    BY <1>1, <1>2
  <1>4. RowsBelow
    BY <1>2, <1>3 DEF RowsBelow
  <1>5. walk.page = 0 /\ walk.first = {} /\ req.step = "done"
    BY <1>1 DEF NoWalk, NoReq
  <1>6. WalkInv
    BY <1>2, <1>5 DEF WalkInv, PagesMissNothing
  <1>. QED
    BY <1>4, <1>5, <1>6 DEF TableInv

LEMMA TableStep == ApiInv /\ TableInv /\ [ConsoleNext]_<<visit, consoleVars>> => TableInv'
  <1>. SUFFICES ASSUME ApiInv, TableInv, [ConsoleNext]_<<visit, consoleVars>> PROVE TableInv'
    OBVIOUS
  <1>1. AccessShape /\ ApiShape /\ RowsBelow
    BY DEF ApiInv, TableInv
  <1>2. CASE UNCHANGED <<visit, consoleVars>>
    BY <1>1, <1>2, RestReaches DEF TableInv, RowsBelow, consoleVars, apiVars
  <1>3. CASE Browses
    <2>1. visit = "table" /\ visit' = visit /\ WalkInv
      BY <1>3 DEF Browses, TableInv
    <2>. QED
      BY <1>1, <1>3, <2>1, BrowsesReaches DEF TableInv
  <1>4. CASE Sessions \/ Visits \/ Looks \/ Asks
    <2>1. visit # "table" /\ visit' = visit
      BY <1>4 DEF Sessions, Visits, Looks, Asks
    <2>2. walk.page = 0
      BY <2>1 DEF TableInv
    <2>. QED
      BY <1>1, <1>4, <2>1, <2>2, OthersStay DEF TableInv
  <1>. QED
    BY <1>2, <1>3, <1>4 DEF ConsoleNext

-----------------------------------------------------------------------------
(* The table on the screen: sequences                                      *)

\* The first of a sequence.
LEMMA FirstParts ==
  ASSUME NEW S, NEW s \in Seq(S), NEW n \in Nat
  PROVE  /\ First(n, s) \in Seq(S)
         /\ Len(First(n, s)) = IF n < Len(s) THEN n ELSE Len(s)
         /\ \A i \in 1 .. Len(First(n, s)) : First(n, s)[i] = s[i]
  <1>1. PICK m \in Nat : m = Len(s)
    BY LenProperties
  <1>2. PICK k \in Nat : k = (IF n < m THEN n ELSE m) /\ k <= m
    BY <1>1
  <1>3. First(n, s) = SubSeq(s, 1, k)
    BY <1>1, <1>2 DEF First
  <1>4. SubSeq(s, 1, k) \in Seq(S) /\ Len(SubSeq(s, 1, k)) = k
        /\ \A i \in 1 .. k : SubSeq(s, 1, k)[i] = s[i]
    BY <1>1, <1>2, CutParts
  <1>. QED
    BY <1>1, <1>2, <1>3, <1>4

\* What is cut from the end of a part that stands in front is cut from the whole.
LEMMA FirstBefore ==
  ASSUME NEW S, NEW s \in Seq(S), NEW t \in Seq(S), NEW n \in Nat
  PROVE  First(n, First(n, s) \o t) = First(n, s \o t)
  <1>1. PICK m \in Nat : m = Len(s)
    BY LenProperties
  <1>2. PICK k \in Nat : k = Len(t)
    BY LenProperties
  <1>3. PICK u : u = First(n, s)
    OBVIOUS
  <1>4. PICK h \in Nat : h = IF n < m THEN n ELSE m
    OBVIOUS
  <1>5. u \in Seq(S) /\ Len(u) = h /\ \A i \in 1 .. h : u[i] = s[i]
    BY <1>1, <1>3, <1>4, FirstParts
  <1>6a. PICK w : w = u \o t
    OBVIOUS
  <1>6. w \in Seq(S) /\ Len(w) = h + k /\ \A i \in 1 .. h + k : w[i] = IF i <= h THEN u[i] ELSE t[i - h]
    BY <1>6a, <1>2, <1>5, ConcatProperties
  <1>7a. PICK v : v = s \o t
    OBVIOUS
  <1>7. v \in Seq(S) /\ Len(v) = m + k /\ \A i \in 1 .. m + k : v[i] = IF i <= m THEN s[i] ELSE t[i - m]
    BY <1>7a, <1>1, <1>2, ConcatProperties
  <1>8. PICK g \in Nat : g = h + k /\ g = Len(w)
    BY <1>6
  <1>9. PICK f \in Nat : f = m + k /\ f = Len(v)
    BY <1>7
  <1>l. PICK l \in Nat : l = (IF n < g THEN n ELSE g) /\ l = IF n < f THEN n ELSE f
    BY <1>4, <1>8, <1>9
  <1>10a. PICK x : x = First(n, w)
    OBVIOUS
  <1>10. x \in Seq(S) /\ Len(x) = l /\ \A i \in 1 .. l : x[i] = w[i]
    <2>1. w \in Seq(S)
      BY <1>6
    <2>2. /\ x \in Seq(S) /\ Len(x) = IF n < Len(w) THEN n ELSE Len(w)
          /\ \A i \in 1 .. Len(x) : x[i] = w[i]
      BY <1>10a, <2>1, FirstParts
    <2>. QED
      BY <1>8, <1>l, <2>2
  <1>11a. PICK y : y = First(n, v)
    OBVIOUS
  <1>11. y \in Seq(S) /\ Len(y) = l /\ \A i \in 1 .. l : y[i] = v[i]
    <2>1. v \in Seq(S)
      BY <1>7
    <2>2. /\ y \in Seq(S) /\ Len(y) = IF n < Len(v) THEN n ELSE Len(v)
          /\ \A i \in 1 .. Len(y) : y[i] = v[i]
      BY <1>11a, <2>1, FirstParts
    <2>. QED
      BY <1>9, <1>l, <2>2
  <1>12. ASSUME NEW i \in 1 .. l PROVE w[i] = v[i]
    <2>1. i \in 1 .. h + k /\ i \in 1 .. m + k
      BY <1>4, <1>8, <1>9, <1>l
    <2>2. CASE i <= h
      <3>1. w[i] = s[i] /\ i <= m
        BY <1>4, <1>5, <1>6, <2>1, <2>2
      <3>. QED
        BY <1>7, <2>1, <3>1
    <2>3. CASE i > h
      <3>1. h = m
        BY <1>4, <1>8, <1>l, <2>3
      <3>. QED
        BY <1>6, <1>7, <2>1, <2>3, <3>1
    <2>. QED
      BY <2>2, <2>3
  <1>13. x = y
    BY <1>10, <1>11, <1>12, SeqEqual
  <1>. QED
    BY <1>3, <1>6a, <1>7a, <1>10a, <1>11a, <1>13

\* And what is cut from the end of a part that stands behind.
LEMMA FirstBehind ==
  ASSUME NEW S, NEW s \in Seq(S), NEW t \in Seq(S), NEW n \in Nat
  PROVE  First(n, s \o First(n, t)) = First(n, s \o t)
  <1>1. PICK m \in Nat : m = Len(s)
    BY LenProperties
  <1>2. PICK k \in Nat : k = Len(t)
    BY LenProperties
  <1>3. PICK u : u = First(n, t)
    OBVIOUS
  <1>4. PICK h \in Nat : h = IF n < k THEN n ELSE k
    OBVIOUS
  <1>5. u \in Seq(S) /\ Len(u) = h /\ \A i \in 1 .. h : u[i] = t[i]
    BY <1>2, <1>3, <1>4, FirstParts
  <1>6a. PICK w : w = s \o u
    OBVIOUS
  <1>6. w \in Seq(S) /\ Len(w) = m + h /\ \A i \in 1 .. m + h : w[i] = IF i <= m THEN s[i] ELSE u[i - m]
    <2>1. u \in Seq(S)
      BY <1>5
    <2>2. /\ s \o u \in Seq(S) /\ Len(s \o u) = Len(s) + Len(u)
          /\ \A i \in 1 .. Len(s) + Len(u) : (s \o u)[i] = IF i <= Len(s) THEN s[i] ELSE u[i - Len(s)]
      BY <2>1, ConcatProperties
    <2>. QED
      BY <1>1, <1>5, <1>6a, <2>2
  <1>7a. PICK v : v = s \o t
    OBVIOUS
  <1>7. v \in Seq(S) /\ Len(v) = m + k /\ \A i \in 1 .. m + k : v[i] = IF i <= m THEN s[i] ELSE t[i - m]
    BY <1>7a, <1>1, <1>2, ConcatProperties
  <1>8. PICK g \in Nat : g = m + h /\ g = Len(w)
    BY <1>6
  <1>9. PICK f \in Nat : f = m + k /\ f = Len(v)
    BY <1>7
  <1>l. PICK l \in Nat : l = (IF n < g THEN n ELSE g) /\ l = IF n < f THEN n ELSE f
    BY <1>4, <1>8, <1>9
  <1>10a. PICK x : x = First(n, w)
    OBVIOUS
  <1>10. x \in Seq(S) /\ Len(x) = l /\ \A i \in 1 .. l : x[i] = w[i]
    <2>1. w \in Seq(S)
      BY <1>6
    <2>2. /\ x \in Seq(S) /\ Len(x) = IF n < Len(w) THEN n ELSE Len(w)
          /\ \A i \in 1 .. Len(x) : x[i] = w[i]
      BY <1>10a, <2>1, FirstParts
    <2>. QED
      BY <1>8, <1>l, <2>2
  <1>11a. PICK y : y = First(n, v)
    OBVIOUS
  <1>11. y \in Seq(S) /\ Len(y) = l /\ \A i \in 1 .. l : y[i] = v[i]
    <2>1. v \in Seq(S)
      BY <1>7
    <2>2. /\ y \in Seq(S) /\ Len(y) = IF n < Len(v) THEN n ELSE Len(v)
          /\ \A i \in 1 .. Len(y) : y[i] = v[i]
      BY <1>11a, <2>1, FirstParts
    <2>. QED
      BY <1>9, <1>l, <2>2
  <1>12. ASSUME NEW i \in 1 .. l PROVE w[i] = v[i]
    <2>1. i \in 1 .. m + h /\ i \in 1 .. m + k
      BY <1>4, <1>8, <1>9, <1>l
    <2>2. CASE i <= m
      BY <1>6, <1>7, <2>1, <2>2
    <2>3. CASE i > m
      <3>1. i - m \in 1 .. h
        BY <2>1, <2>3
      <3>. QED
        BY <1>5, <1>6, <1>7, <2>1, <2>3, <3>1
    <2>. QED
      BY <2>2, <2>3
  <1>13. x = y
    BY <1>10, <1>11, <1>12, SeqEqual
  <1>. QED
    BY <1>3, <1>6a, <1>7a, <1>10a, <1>11a, <1>13

\* What stands at some places of a sequence is a sequence of it, and differs where it does.
LEMMA AtParts ==
  ASSUME NEW S, NEW s \in Seq(S), NEW places \in SUBSET (1 .. Len(s))
  PROVE  /\ At(s, places) \in Seq(S)
         /\ \A n \in 1 .. Len(At(s, places)) : \E i \in places : At(s, places)[n] = s[i]
         /\ (\A i, j \in places : s[i] = s[j] => i = j) =>
              \A a, b \in 1 .. Len(At(s, places)) : At(s, places)[a] = At(s, places)[b] => a = b
  <1>. DEFINE Rank(i) == Cardinality({j \in places : j <= i})
  <1>1. PICK m \in Nat : m = Len(s) /\ places \in SUBSET (1 .. m)
    BY LenProperties
  <1>2. PICK nth : nth = [n \in 1 .. Cardinality(places) |-> CHOOSE i \in places : Rank(i) = n]
    OBVIOUS
  <1>3. PICK c \in Nat : c = Cardinality(places)
    <2>1. places \subseteq 1 .. m
      BY <1>1
    <2>2. IsFiniteSet(places)
      <3>1. IsFiniteSet(1 .. m)
        BY FS_Interval
      <3>. QED
        BY <2>1, <3>1, FS_Subset
    <2>. QED
      BY <2>2, FS_CardinalityType
  <1>4. \A n \in 1 .. c : nth[n] \in places /\ Rank(nth[n]) = n
    <2>1. ASSUME NEW n \in 1 .. c PROVE \E i \in places : Rank(i) = n
      <3>1. n \in 1 .. Cardinality(places)
        BY <1>3
      <3>. QED
        BY <1>1, <3>1, RanksAreTaken
    <2>. QED
      BY <1>2, <1>3, <2>1
  <1>5. At(s, places) = [n \in 1 .. c |-> s[nth[n]]]
    BY <1>2, <1>3 DEF At
  <1>6. \A n \in 1 .. c : s[nth[n]] \in S
    BY <1>1, <1>4, LenProperties
  <1>7. PICK t : t = At(s, places)
    OBVIOUS
  <1>8. t \in Seq(S) /\ Len(t) = c /\ \A n \in 1 .. c : t[n] = s[nth[n]]
    BY <1>3, <1>5, <1>6, <1>7
  <1>9. \A n \in 1 .. c : \E i \in places : t[n] = s[i]
    BY <1>4, <1>8
  <1>10. ASSUME \A i, j \in places : s[i] = s[j] => i = j, NEW a \in 1 .. c, NEW b \in 1 .. c, t[a] = t[b]
         PROVE  a = b
    <2>0. nth[a] \in places /\ nth[b] \in places /\ s[nth[a]] = s[nth[b]]
      BY <1>4, <1>8, <1>10
    <2>1. nth[a] = nth[b]
      BY <1>10, <2>0
    <2>. QED
      BY <1>4, <2>1
  <1>. QED
    BY <1>7, <1>8, <1>9, <1>10

\* What a filter keeps of a sequence it finds, once each if it was there once each.
LEMMA WithinParts ==
  ASSUME NEW S, NEW s \in Seq(S), NEW found
  PROVE  /\ Within(s, found) \in Seq(S)
         /\ \A n \in 1 .. Len(Within(s, found)) : Within(s, found)[n] \in found
         /\ (\A i, j \in 1 .. Len(s) : s[i] = s[j] => i = j) =>
              \A a, b \in 1 .. Len(Within(s, found)) :
                Within(s, found)[a] = Within(s, found)[b] => a = b
  <1>1. PICK places : places = {i \in DOMAIN s : s[i] \in found}
    OBVIOUS
  <1>2. DOMAIN s = 1 .. Len(s)
    BY LenProperties
  <1>3. places \in SUBSET (1 .. Len(s)) /\ \A i \in places : s[i] \in found
    BY <1>1, <1>2
  <1>4. PICK t : t = At(s, places) /\ t = Within(s, found)
    BY <1>1 DEF Within
  <1>p. places \in SUBSET (1 .. Len(s))
    BY <1>3
  <1>a. /\ At(s, places) \in Seq(S)
        /\ \A n \in 1 .. Len(At(s, places)) : \E i \in places : At(s, places)[n] = s[i]
        /\ (\A i, j \in places : s[i] = s[j] => i = j) =>
             \A a, b \in 1 .. Len(At(s, places)) : At(s, places)[a] = At(s, places)[b] => a = b
    BY <1>p, AtParts
  <1>5. /\ t \in Seq(S) /\ \A n \in 1 .. Len(t) : \E i \in places : t[n] = s[i]
        /\ (\A i, j \in places : s[i] = s[j] => i = j) =>
             \A a, b \in 1 .. Len(t) : t[a] = t[b] => a = b
    BY <1>4, <1>a
  <1>6. \A n \in 1 .. Len(t) : t[n] \in found
    BY <1>3, <1>5
  <1>7. (\A i, j \in 1 .. Len(s) : s[i] = s[j] => i = j) => \A i, j \in places : s[i] = s[j] => i = j
    BY <1>3
  <1>. QED
    BY <1>4, <1>5, <1>6, <1>7

\* The first of each of a sequence.
LEMMA EachParts ==
  ASSUME NEW S, NEW s \in Seq(S)
  PROVE  /\ Each(s) \in Seq(S)
         /\ \A n \in 1 .. Len(Each(s)) : \E i \in 1 .. Len(s) : Each(s)[n] = s[i]
         /\ \A a, b \in 1 .. Len(Each(s)) : Each(s)[a] = Each(s)[b] => a = b
  <1>1. PICK places : places = {i \in DOMAIN s : \A j \in 1 .. (i - 1) : s[j] # s[i]}
    OBVIOUS
  <1>2. DOMAIN s = 1 .. Len(s) /\ Len(s) \in Nat
    BY LenProperties
  <1>3. places \in SUBSET (1 .. Len(s))
    BY <1>1, <1>2
  <1>4. ASSUME NEW i \in places, NEW j \in places, s[i] = s[j] PROVE i = j
    <2>1. i \in Nat /\ j \in Nat /\ i >= 1 /\ j >= 1
      BY <1>2, <1>3
    <2>2. ~ (i < j)
      <3>1. i < j => i \in 1 .. (j - 1)
        BY <2>1
      <3>. QED
        BY <1>1, <1>4, <3>1
    <2>3. ~ (j < i)
      <3>1. j < i => j \in 1 .. (i - 1)
        BY <2>1
      <3>. QED
        BY <1>1, <1>4, <3>1
    <2>. QED
      BY <2>1, <2>2, <2>3
  <1>5. PICK t : t = At(s, places) /\ t = Each(s)
    BY <1>1 DEF Each
  <1>a. /\ At(s, places) \in Seq(S)
        /\ \A n \in 1 .. Len(At(s, places)) : \E i \in places : At(s, places)[n] = s[i]
        /\ (\A i, j \in places : s[i] = s[j] => i = j) =>
             \A a, b \in 1 .. Len(At(s, places)) : At(s, places)[a] = At(s, places)[b] => a = b
    BY <1>3, AtParts
  <1>6. /\ t \in Seq(S) /\ \A n \in 1 .. Len(t) : \E i \in places : t[n] = s[i]
        /\ (\A i, j \in places : s[i] = s[j] => i = j) =>
             \A a, b \in 1 .. Len(t) : t[a] = t[b] => a = b
    BY <1>5, <1>a
  <1>. QED
    BY <1>3, <1>4, <1>5, <1>6

-----------------------------------------------------------------------------
(* The table on the screen: what holds of it                               *)

AnAnswer == [rows : Seq(RowId), more : BOOLEAN, asked : Nat, failed : BOOLEAN]
Section == [open : BOOLEAN, filter : Filter \cup {"all"}, page : 1 .. MaxPage, live : BOOLEAN]
Status == {"idle", "connecting", "live", "error"}
Source == [status : Status, wire : Seq(RowId), buffered : Seq(RowId), timer : BOOLEAN,
           entries : Seq(RowId), heard : Seq(RowId)]

\* Rows that a filter finds, each once.
Fits(s, found) ==
  /\ \A i \in 1 .. Len(s) : s[i] \in found
  /\ \A i, j \in 1 .. Len(s) : s[i] = s[j] => i = j

RowsDiffer == \A i, j \in 1 .. Len(rows) : rows[i] = rows[j] => i = j

SectionShape == section \in Section /\ (section.open => section.filter \in Filter)

\* Every answer that is cached fits the filter of its key.
AnswersInv ==
  /\ flight \in [Key -> Nat] /\ answers \in [Key -> AnAnswer]
  /\ \A k \in Key : Fits(answers[k].rows, Fitting[k.filter])

\* The newest frames that arrived are kept, and a timer runs while some are still to be shown.
Kept(t) ==
  /\ t.buffered # <<>> => t.timer
  /\ First(TailCap, t.buffered \o t.entries) = First(TailCap, t.heard)

\* Nothing is under way at a source that is not asked for.
Quiet(t) == t.status = "idle" /\ t.wire = <<>> /\ ~ t.timer

TailInv == tail \in Source /\ Kept(tail) /\ (~ Enabled(section) => Quiet(tail))


LEMMA KeyOfSection ==
  ASSUME NEW s \in Section, s.filter \in Filter
  PROVE  QueryKey(s) \in Key /\ QueryKey(s).filter = s.filter
  BY EntriesTableAssumption DEF QueryKey, Key, Section

LEMMA FetchesKeeps ==
  ASSUME AnswersInv, NEW k \in Key, NEW page \in Nat, Fetches(k, page)
  PROVE  AnswersInv'
  <1>1. CASE UNCHANGED <<answers, flight>>
    BY <1>1 DEF AnswersInv
  <1>2. CASE /\ flight' = [flight EXCEPT ![k] = page]
             /\ answers' = [answers EXCEPT ![k].failed = @ /\ answers[k].asked # 0]
    <2>1. flight' \in [Key -> Nat]
      BY <1>2 DEF AnswersInv
    <2>2. answers \in [Key -> AnAnswer] /\ answers[k] \in AnAnswer
      BY DEF AnswersInv
    <2>3. PICK failed \in BOOLEAN : failed = (answers[k].failed /\ answers[k].asked # 0)
      OBVIOUS
    <2>4. PICK a : a = [answers[k] EXCEPT !.failed = failed]
      OBVIOUS
    <2>5. a \in AnAnswer /\ a.rows = answers[k].rows
      BY <2>2, <2>4 DEF AnAnswer
    <2>6. answers' = [answers EXCEPT ![k] = a]
      BY <1>2, <2>3, <2>4
    <2>7. answers' \in [Key -> AnAnswer] /\ \A q \in Key : answers'[q].rows = answers[q].rows
      BY <2>2, <2>5, <2>6
    <2>. QED
      BY <2>1, <2>7 DEF AnswersInv
  <1>. QED
    BY <1>1, <1>2 DEF Fetches

\* What is cut from behind a position.
LEMMA BehindParts ==
  ASSUME NEW S, NEW s \in Seq(S), NEW n \in Nat
  PROVE  /\ SubSeq(s, n + 1, Len(s)) \in Seq(S)
         /\ \A i \in 1 .. Len(SubSeq(s, n + 1, Len(s))) :
              n + i \in 1 .. Len(s) /\ SubSeq(s, n + 1, Len(s))[i] = s[n + i]
  <1>1. PICK m \in Nat : m = Len(s)
    BY LenProperties
  <1>2. PICK x \in Int : x = n + 1 /\ m \in Int
    OBVIOUS
  <1>3. \A i \in x .. m : s[i] \in S
    <2>1. \A i \in 1 .. m : s[i] \in S
      BY <1>1, LenProperties
    <2>2. \A i \in x .. m : i \in 1 .. m
      BY <1>2
    <2>. QED
      BY <2>1, <2>2
  <1>4. /\ SubSeq(s, x, m) \in Seq(S)
        /\ Len(SubSeq(s, x, m)) = (IF x <= m THEN m - x + 1 ELSE 0)
        /\ \A i \in 1 .. m - x + 1 : SubSeq(s, x, m)[i] = s[x + i - 1]
    BY <1>2, <1>3, SubSeqProperties
  <1>5. PICK t : t = SubSeq(s, x, m) /\ t = SubSeq(s, n + 1, Len(s))
    BY <1>1, <1>2
  <1>6. PICK l \in Nat : l = Len(t) /\ t \in Seq(S)
    BY <1>4, <1>5, LenProperties
  <1>7. \A i \in 1 .. l : i \in 1 .. m - x + 1 /\ x + i - 1 = n + i /\ n + i \in 1 .. m
    <2>1. l = (IF x <= m THEN m - x + 1 ELSE 0)
      BY <1>4, <1>5, <1>6
    <2>. QED
      BY <1>2, <2>1
  <1>8. \A i \in 1 .. l : t[i] = s[n + i]
    BY <1>4, <1>5, <1>7
  <1>. QED
    BY <1>1, <1>5, <1>6, <1>7, <1>8

\* A page of what a filter finds fits it.
LEMMA FoundFits ==
  ASSUME NEW s \in Seq(RowId), NEW found, NEW from \in Nat, NEW size \in Nat,
         \A i, j \in 1 .. Len(s) : s[i] = s[j] => i = j
  PROVE  LET cut == First(from + size, Within(s, found))
             page == SubSeq(cut, from + 1, Len(cut))
         IN  page \in Seq(RowId) /\ Fits(page, found)
  <1>1. PICK t : t = Within(s, found)
    OBVIOUS
  <1>2. t \in Seq(RowId) /\ (\A n \in 1 .. Len(t) : t[n] \in found)
        /\ \A a, b \in 1 .. Len(t) : t[a] = t[b] => a = b
    BY <1>1, WithinParts
  <1>3. PICK to \in Nat : to = from + size
    OBVIOUS
  <1>4. PICK cut : cut = First(to, t)
    OBVIOUS
  <1>5. PICK m \in Nat : m = Len(t)
    BY <1>2, LenProperties
  <1>6. cut \in Seq(RowId) /\ Len(cut) \in Nat /\ Len(cut) <= m /\ \A i \in 1 .. Len(cut) : cut[i] = t[i]
    <2>1. /\ cut \in Seq(RowId) /\ Len(cut) = (IF to < Len(t) THEN to ELSE Len(t))
          /\ \A i \in 1 .. Len(cut) : cut[i] = t[i]
      BY <1>2, <1>4, FirstParts
    <2>2. Len(cut) \in Nat /\ Len(cut) <= m
      BY <1>5, <2>1
    <2>. QED
      BY <2>1, <2>2
  <1>7. PICK page : page = SubSeq(cut, from + 1, Len(cut))
    OBVIOUS
  <1>8. page \in Seq(RowId) /\ \A i \in 1 .. Len(page) : from + i \in 1 .. Len(cut) /\ page[i] = cut[from + i]
    BY <1>6, <1>7, BehindParts
  <1>9. PICK l \in Nat : l = Len(page)
    BY <1>8, LenProperties
  <1>10. \A i \in 1 .. l : from + i \in 1 .. m /\ page[i] = t[from + i]
    <2>1. \A i \in 1 .. l : from + i \in 1 .. Len(cut)
      BY <1>8, <1>9
    <2>c. PICK c \in Nat : c = Len(cut) /\ c <= m
      BY <1>6
    <2>2. \A i \in 1 .. l : from + i \in 1 .. m
      <3>1. \A i \in 1 .. l : from + i \in 1 .. c
        BY <2>1, <2>c
      <3>. QED
        BY <1>5, <2>c, <3>1
    <2>. QED
      BY <1>6, <1>8, <1>9, <2>1, <2>2
  <1>11. \A i \in 1 .. l : page[i] \in found
    BY <1>2, <1>5, <1>10
  <1>12. ASSUME NEW i \in 1 .. l, NEW j \in 1 .. l, page[i] = page[j] PROVE i = j
    <2>1. t[from + i] = t[from + j] /\ from + i \in 1 .. m /\ from + j \in 1 .. m
      BY <1>10, <1>12
    <2>2. from + i = from + j
      BY <1>2, <1>5, <2>1
    <2>. QED
      BY <2>2
  <1>13. Fits(page, found)
    BY <1>9, <1>11, <1>12 DEF Fits
  <1>. QED
    BY <1>1, <1>3, <1>4, <1>7, <1>8, <1>13

LEMMA LandsKeeps ==
  ASSUME AnswersInv, rows \in Seq(RowId), RowsDiffer, NEW k \in Key, NEW outcome, Lands(k, outcome)
  PROVE  AnswersInv'
  <1>1. /\ flight \in [Key -> Nat] /\ answers \in [Key -> AnAnswer] /\ flight[k] \in Nat \ {0}
        /\ \A q \in Key : Fits(answers[q].rows, Fitting[q.filter])
    BY DEF AnswersInv, Lands
  <1>2. flight' \in [Key -> Nat]
    BY <1>1 DEF Lands
  <1>3. PICK from \in Nat : from = (flight[k] - 1) * RowsPerPage
    <2>1. PICK p \in Nat : p = flight[k] - 1
      BY <1>1
    <2>2. p * RowsPerPage \in Nat
      BY DashboardApiAssumption
    <2>. QED
      BY <2>1, <2>2
  <1>4. PICK found : found = Within(rows, Fitting[k.filter])
    OBVIOUS
  <1>5. PICK cut : cut = First(from + RowsPerPage, found)
    OBVIOUS
  <1>6. PICK page : page = SubSeq(cut, from + 1, Len(cut))
    OBVIOUS
  <1>7. page \in Seq(RowId) /\ Fits(page, Fitting[k.filter])
    <2>1. \A i, j \in 1 .. Len(rows) : rows[i] = rows[j] => i = j
      BY DEF RowsDiffer
    <2>2. PICK fit : fit = Fitting[k.filter]
      OBVIOUS
    <2>3. RowsPerPage \in Nat
      BY DashboardApiAssumption
    <2>. QED
      BY <1>3, <1>4, <1>5, <1>6, <2>1, <2>2, <2>3, FoundFits
  <1>8. PICK more \in BOOLEAN : more = (Len(found) > from + RowsPerPage)
    <2>1. found \in Seq(RowId)
      BY <1>4, WithinParts
    <2>2. PICK m \in Nat : m = Len(found)
      BY <2>1, LenProperties
    <2>3. PICK n \in Nat : n = from + RowsPerPage
      BY <1>3, DashboardApiAssumption
    <2>4. (m > n) \in BOOLEAN
      OBVIOUS
    <2>. QED
      BY <2>2, <2>3, <2>4
  <1>9. PICK a : a = IF outcome = "fails" THEN [answers[k] EXCEPT !.failed = TRUE]
                     ELSE [rows |-> page, more |-> more, asked |-> flight[k], failed |-> FALSE]
    OBVIOUS
  <1>10. a \in AnAnswer /\ Fits(a.rows, Fitting[k.filter])
    <2>1. answers[k] \in AnAnswer /\ Fits(answers[k].rows, Fitting[k.filter])
      BY <1>1
    <2>2. CASE outcome = "fails"
      <3>1. a \in AnAnswer /\ a.rows = answers[k].rows
        BY <1>9, <2>1, <2>2 DEF AnAnswer
      <3>. QED
        BY <2>1, <3>1
    <2>3. CASE outcome # "fails"
      <3>1. a = [rows |-> page, more |-> more, asked |-> flight[k], failed |-> FALSE]
        BY <1>9, <2>3
      <3>2. a \in AnAnswer /\ a.rows = page
        BY <1>1, <1>7, <3>1 DEF AnAnswer
      <3>. QED
        BY <1>7, <3>2
    <2>. QED
      BY <2>2, <2>3
  <1>11. answers' = [answers EXCEPT ![k] = a]
    BY <1>3, <1>4, <1>5, <1>6, <1>8, <1>9 DEF Lands
  <1>12. answers' \in [Key -> AnAnswer] /\ \A q \in Key : answers'[q] = IF q = k THEN a ELSE answers[q]
    BY <1>1, <1>10, <1>11
  <1>13. \A q \in Key : Fits(answers'[q].rows, Fitting[q.filter])
    BY <1>1, <1>10, <1>12
  <1>. QED
    BY <1>2, <1>12, <1>13 DEF AnswersInv

LEMMA NoAnswerFits == NoAnswer \in AnAnswer /\ \A found : Fits(NoAnswer.rows, found)
  <1>1. NoAnswer \in AnAnswer /\ NoAnswer.rows = <<>>
    <2>1. PICK none : none = <<>> /\ none \in Seq(RowId)
      BY EmptySeq
    <2>. QED
      BY <2>1 DEF NoAnswer, AnAnswer
  <1>2. \A found : Fits(NoAnswer.rows, found)
    <2>1. Len(NoAnswer.rows) = 0
      BY <1>1, EmptySeq
    <2>. QED
      BY <2>1 DEF Fits
  <1>. QED
    BY <1>1, <1>2

LEMMA ForgetsKeeps ==
  ASSUME AnswersInv, NEW k \in Key, Forgets(k)
  PROVE  AnswersInv'
  <1>1. NoAnswer \in AnAnswer /\ \A found : Fits(NoAnswer.rows, found)
    BY NoAnswerFits
  <1>3. /\ answers \in [Key -> AnAnswer] /\ answers' = [answers EXCEPT ![k] = NoAnswer]
        /\ flight' = flight
    BY DEF AnswersInv, Forgets
  <1>4. answers' \in [Key -> AnAnswer] /\ \A q \in Key : answers'[q] = IF q = k THEN NoAnswer ELSE answers[q]
    BY <1>1, <1>3
  <1>5. \A q \in Key : Fits(answers'[q].rows, Fitting[q.filter])
    BY <1>1, <1>4 DEF AnswersInv
  <1>. QED
    BY <1>3, <1>4, <1>5 DEF AnswersInv

LEMMA NoTailIsKept == NoTail \in Source /\ Kept(NoTail) /\ Quiet(NoTail)
  <1>1. PICK none : none = <<>> /\ none \in Seq(RowId) /\ none \o none = none
    BY EmptySeq, ConcatEmptySeq
  <1>2. NoTail = [status |-> "idle", wire |-> none, buffered |-> none, timer |-> FALSE,
                  entries |-> none, heard |-> none]
    BY <1>1 DEF NoTail
  <1>. QED
    BY <1>1, <1>2 DEF Source, Status, Kept, Quiet

LEMMA FlushedIsKept ==
  ASSUME NEW t \in Source, Kept(t)
  PROVE  /\ Flushed(t) \in Source /\ Kept(Flushed(t)) /\ Flushed(t).status = t.status
         /\ Flushed(t).wire = t.wire /\ ~ Flushed(t).timer /\ Flushed(t).buffered = <<>>
  <1>1. PICK all : all = t.buffered \o t.entries /\ all \in Seq(RowId)
    BY ConcatProperties DEF Source
  <1>2. PICK cut : cut = First(TailCap, all) /\ cut \in Seq(RowId)
    BY <1>1, FirstParts, EntriesTableAssumption
  <1>3. PICK none : none = <<>> /\ none \in Seq(RowId)
    BY EmptySeq
  <1>4. First(TailCap, none \o cut) = cut
    <2>1. First(TailCap, none \o cut) = First(TailCap, none \o all)
      <3>1. TailCap \in Nat
        BY EntriesTableAssumption
      <3>2. First(TailCap, none \o First(TailCap, all)) = First(TailCap, none \o all)
        BY <1>1, <1>3, <3>1, FirstBehind
      <3>. QED
        BY <1>2, <3>2
    <2>2. none \o all = all
      BY <1>1, <1>3, ConcatEmptySeq
    <2>. QED
      BY <1>2, <2>1, <2>2
  <1>5. PICK u : u = [t EXCEPT !.timer = FALSE, !.buffered = none, !.entries = cut] /\ u = Flushed(t)
    BY <1>1, <1>2, <1>3 DEF Flushed
  <1>6. /\ u \in Source /\ u.status = t.status /\ u.wire = t.wire /\ u.timer = FALSE
        /\ u.buffered = none /\ u.entries = cut /\ u.heard = t.heard
    BY <1>2, <1>3, <1>5 DEF Source
  <1>7. First(TailCap, u.buffered \o u.entries) = First(TailCap, u.heard)
    BY <1>1, <1>2, <1>4, <1>6 DEF Kept
  <1>. QED
    BY <1>3, <1>5, <1>6, <1>7 DEF Kept

LEMMA CleanupIsKept ==
  ASSUME NEW t \in Source, Kept(t)
  PROVE  Cleanup(t) \in Source /\ Kept(Cleanup(t)) /\ Quiet(Cleanup(t))
  <1>1. PICK u : u = (IF t.timer THEN Flushed(t) ELSE t)
    OBVIOUS
  <1>2. u \in Source /\ Kept(u) /\ u.timer = FALSE
    <2>1. CASE t.timer
      <3>1. u = Flushed(t)
        BY <1>1, <2>1
      <3>2. Flushed(t) \in Source /\ Kept(Flushed(t)) /\ ~ Flushed(t).timer
        BY FlushedIsKept
      <3>. QED
        BY <3>1, <3>2 DEF Source
    <2>2. CASE ~ t.timer
      BY <1>1, <2>2 DEF Source
    <2>. QED
      BY <2>1, <2>2
  <1>3. PICK none : none = <<>> /\ none \in Seq(RowId)
    BY EmptySeq
  <1>4. PICK v : v = [u EXCEPT !.wire = none, !.status = "idle"] /\ v = Cleanup(t)
    BY <1>1, <1>3 DEF Cleanup
  <1>5. /\ v \in Source /\ v.status = "idle" /\ v.wire = none /\ v.timer = FALSE
        /\ v.buffered = u.buffered /\ v.entries = u.entries /\ v.heard = u.heard
    BY <1>2, <1>3, <1>4 DEF Source, Status
  <1>. QED
    BY <1>2, <1>3, <1>4, <1>5 DEF Kept, Quiet

LEMMA TailFollowsKeeps ==
  ASSUME TailInv, TailFollows(section')
  PROVE  TailInv'
  <1>1. tail \in Source /\ Kept(tail) /\ (~ Enabled(section) => Quiet(tail))
    BY DEF TailInv
  <1>2. CASE Enabled(section') = Enabled(section)
    BY <1>1, <1>2 DEF TailFollows, TailInv
  <1>3. CASE Enabled(section') # Enabled(section) /\ Enabled(section')
    <2>1. tail' = [tail EXCEPT !.status = "connecting"]
      BY <1>3 DEF TailFollows
    <2>2. /\ tail' \in Source /\ tail'.buffered = tail.buffered /\ tail'.timer = tail.timer
          /\ tail'.entries = tail.entries /\ tail'.heard = tail.heard
      BY <1>1, <2>1 DEF Source, Status
    <2>3. Kept(tail')
      BY <1>1, <2>2 DEF Kept
    <2>. QED
      BY <1>3, <2>2, <2>3 DEF TailInv
  <1>4. CASE Enabled(section') # Enabled(section) /\ ~ Enabled(section')
    <2>1. tail' = Cleanup(tail)
      BY <1>4 DEF TailFollows
    <2>2. Cleanup(tail) \in Source /\ Kept(Cleanup(tail)) /\ Quiet(Cleanup(tail))
      BY <1>1, CleanupIsKept
    <2>. QED
      BY <2>1, <2>2 DEF TailInv
  <1>. QED
    BY <1>2, <1>3, <1>4

LEMMA FrameArrivesKeeps == ASSUME TailInv, FrameArrives PROVE TailInv'
  <1>1. tail \in Source /\ Kept(tail) /\ Enabled(section) /\ section' = section /\ tail.wire # <<>>
    BY DEF TailInv, FrameArrives, Quiet
  <1>2. /\ tail.wire \in Seq(RowId) /\ tail.buffered \in Seq(RowId) /\ tail.entries \in Seq(RowId)
        /\ tail.heard \in Seq(RowId)
    BY <1>1 DEF Source
  <1>3. PICK f \in RowId : f = Head(tail.wire) /\ Tail(tail.wire) \in Seq(RowId)
    BY <1>1, <1>2, HeadParts
  <1>4. PICK one : one = <<f>> /\ one \in Seq(RowId)
    <2>1. <<f>> \in Seq(RowId)
      OBVIOUS
    <2>. QED
      BY <2>1
  <1>5. PICK whole : whole = one \o tail.buffered /\ whole \in Seq(RowId)
    BY <1>2, <1>4, ConcatProperties
  <1>6. PICK buffered : buffered = First(TailCap, whole) /\ buffered \in Seq(RowId)
    BY <1>5, FirstParts, EntriesTableAssumption
  <1>7. PICK heard : heard = one \o tail.heard /\ heard \in Seq(RowId)
    BY <1>2, <1>4, ConcatProperties
  <1>8. PICK wire \in Seq(RowId) : wire = Tail(tail.wire)
    BY <1>3
  <1>9. tail' = [tail EXCEPT !.wire = wire, !.status = "live", !.timer = TRUE,
                             !.buffered = buffered, !.heard = heard]
    BY <1>3, <1>4, <1>5, <1>6, <1>7, <1>8 DEF FrameArrives, Buffer
  <1>10. /\ tail' \in Source /\ tail'.buffered = buffered /\ tail'.timer = TRUE
         /\ tail'.entries = tail.entries /\ tail'.heard = heard
    BY <1>1, <1>6, <1>7, <1>8, <1>9 DEF Source, Status
  <1>11. First(TailCap, buffered \o tail.entries) = First(TailCap, heard)
    <2>0. TailCap \in Nat
      BY EntriesTableAssumption
    <2>1. First(TailCap, buffered \o tail.entries) = First(TailCap, whole \o tail.entries)
      BY <1>2, <1>5, <1>6, <2>0, FirstBefore
    <2>2. PICK rest : rest = tail.buffered \o tail.entries /\ rest \in Seq(RowId)
      BY <1>2, ConcatProperties
    <2>3. whole \o tail.entries = one \o rest
      <3>1. PICK b \in Seq(RowId) : b = tail.buffered
        BY <1>2
      <3>2. PICK e \in Seq(RowId) : e = tail.entries
        BY <1>2
      <3>3. (one \o b) \o e = one \o (b \o e)
        BY <1>4, ConcatAssociative
      <3>. QED
        BY <1>5, <2>2, <3>1, <3>2, <3>3
    <2>4. First(TailCap, one \o rest) = First(TailCap, one \o First(TailCap, rest))
      BY <1>4, <2>0, <2>2, FirstBehind
    <2>5. First(TailCap, one \o tail.heard) = First(TailCap, one \o First(TailCap, tail.heard))
      BY <1>2, <1>4, <2>0, FirstBehind
    <2>6. First(TailCap, rest) = First(TailCap, tail.heard)
      BY <1>1, <2>2 DEF Kept
    <2>. QED
      BY <1>7, <2>1, <2>3, <2>4, <2>5, <2>6
  <1>12. Kept(tail')
    BY <1>10, <1>11 DEF Kept
  <1>. QED
    BY <1>1, <1>10, <1>12 DEF TailInv

LEMMA SourceKeeps ==
  ASSUME TailInv, SourceOpens \/ SourceFails \/ TimerFires
  PROVE  TailInv'
  <1>1. tail \in Source /\ Kept(tail) /\ section' = section
    BY DEF TailInv, SourceOpens, SourceFails, TimerFires
  <1>2. Enabled(section)
    BY DEF TailInv, Quiet, SourceOpens, SourceFails, TimerFires
  <1>3. CASE SourceOpens
    <2>1. tail' = [tail EXCEPT !.status = "live"]
      BY <1>3 DEF SourceOpens
    <2>2. /\ tail' \in Source /\ tail'.buffered = tail.buffered /\ tail'.timer = tail.timer
          /\ tail'.entries = tail.entries /\ tail'.heard = tail.heard
      BY <1>1, <2>1 DEF Source, Status
    <2>. QED
      BY <1>1, <1>2, <2>2 DEF Kept, TailInv
  <1>4. CASE SourceFails
    <2>0. PICK none : none = <<>> /\ none \in Seq(RowId)
      BY EmptySeq
    <2>1. tail' = [tail EXCEPT !.status = "error", !.wire = none]
      BY <1>4, <2>0 DEF SourceFails
    <2>2. /\ tail' \in Source /\ tail'.buffered = tail.buffered /\ tail'.timer = tail.timer
          /\ tail'.entries = tail.entries /\ tail'.heard = tail.heard
      BY <1>1, <2>0, <2>1 DEF Source, Status
    <2>. QED
      BY <1>1, <1>2, <2>2 DEF Kept, TailInv
  <1>5. CASE TimerFires
    <2>1. tail' = Flushed(tail)
      BY <1>5 DEF TimerFires
    <2>2. Flushed(tail) \in Source /\ Kept(Flushed(tail))
      BY <1>1, FlushedIsKept
    <2>. QED
      BY <1>1, <1>2, <2>1, <2>2 DEF TailInv
  <1>. QED
    BY <1>3, <1>4, <1>5

\* The store moves, and writes to the stream that is connected.
LEMMA StoreFeedsKeeps ==
  ASSUME TailInv, born' \in Nat, StoreFeeds
  PROVE  TailInv'
  <1>1. tail \in Source /\ Kept(tail) /\ (~ Enabled(section) => Quiet(tail)) /\ section' = section
    BY DEF TailInv, StoreFeeds
  <1>2. CASE tail' = tail
    BY <1>1, <1>2 DEF TailInv
  <1>3. CASE tail.status = "live" /\ tail' = [tail EXCEPT !.wire = Append(@, born')]
    <2>1. PICK wire : wire = Append(tail.wire, born') /\ wire \in Seq(RowId)
      <3>1. tail.wire \in Seq(RowId) /\ born' \in RowId
        BY <1>1 DEF Source, RowId
      <3>. QED
        BY <3>1, AppendProperties
    <2>2. tail' = [tail EXCEPT !.wire = wire]
      BY <1>3, <2>1
    <2>3. /\ tail' \in Source /\ tail'.buffered = tail.buffered /\ tail'.timer = tail.timer
          /\ tail'.entries = tail.entries /\ tail'.heard = tail.heard
      BY <1>1, <2>1, <2>2 DEF Source
    <2>4. Enabled(section)
      BY <1>1, <1>3 DEF Quiet
    <2>. QED
      BY <1>1, <2>3, <2>4 DEF Kept, TailInv
  <1>. QED
    BY <1>2, <1>3 DEF StoreFeeds

\* What is recorded is younger than every row of the store.
LEMMA StoreMovesDiffer ==
  ASSUME ApiShape, RowsBelow, RowsDiffer, StoreMoves
  PROVE  RowsDiffer'
  <1>1. rows \in Seq(RowId) /\ born \in Nat
    BY DEF ApiShape
  <1>2. PICK n \in Nat : n = Len(rows)
    BY <1>1, LenProperties
  <1>3. \A i \in 1 .. n : rows[i] \in 0 .. born
    BY <1>2 DEF RowsBelow
  <1>4. \A i, j \in 1 .. n : rows[i] = rows[j] => i = j
    BY <1>2 DEF RowsDiffer
  <1>5. CASE born' = born + 1 /\ rows' = <<born + 1>> \o rows
    <2>1. PICK one : one = <<born + 1>> /\ one \in Seq(RowId) /\ Len(one) = 1 /\ one[1] = born + 1
      <3>1. PICK x \in RowId : x = born + 1
        BY <1>1 DEF RowId
      <3>2. <<x>> \in Seq(RowId) /\ Len(<<x>>) = 1 /\ <<x>>[1] = x
        OBVIOUS
      <3>. QED
        BY <3>1, <3>2
    <2>2. PICK after : after = one \o rows /\ after = rows'
      BY <1>5, <2>1
    <2>3. /\ Len(after) = 1 + n
          /\ \A i \in 1 .. 1 + n : after[i] = IF i <= 1 THEN one[i] ELSE rows[i - 1]
      BY <1>1, <1>2, <2>1, <2>2, ConcatProperties
    <2>4. \A i \in 1 .. 1 + n : IF i = 1 THEN after[i] = born + 1
                                 ELSE i - 1 \in 1 .. n /\ after[i] = rows[i - 1] /\ after[i] # born + 1
      <3>1. \A i \in 1 .. 1 + n : i # 1 => i - 1 \in 1 .. n /\ ~ (i <= 1)
        OBVIOUS
      <3>2. \A i \in 1 .. n : rows[i] # born + 1
        BY <1>1, <1>3
      <3>3. 1 <= 1 /\ 1 \in 1 .. 1 + n
        OBVIOUS
      <3>. QED
        BY <2>1, <2>3, <3>1, <3>2, <3>3
    <2>5. ASSUME NEW i \in 1 .. 1 + n, NEW j \in 1 .. 1 + n, after[i] = after[j] PROVE i = j
      <3>1. (i = 1) = (j = 1)
        BY <2>4, <2>5
      <3>2. CASE i # 1 /\ j # 1
        <4>1. rows[i - 1] = rows[j - 1] /\ i - 1 \in 1 .. n /\ j - 1 \in 1 .. n
          BY <2>4, <2>5, <3>2
        <4>2. i - 1 = j - 1
          BY <1>4, <4>1
        <4>. QED
          BY <4>2
      <3>. QED
        BY <3>1, <3>2
    <2>. QED
      BY <2>2, <2>3, <2>5 DEF RowsDiffer
  <1>6. CASE rows # <<>> /\ rows' = SubSeq(rows, 1, Len(rows) - 1)
    <2>1. PICK m \in Nat : m = Len(rows) - 1 /\ m <= Len(rows) /\ m < n
      BY <1>1, <1>2, <1>6, EmptySeq
    <2>2. Len(rows') = m /\ \A i \in 1 .. m : rows'[i] = rows[i] /\ i \in 1 .. n
      BY <1>1, <1>6, <2>1, CutParts
    <2>. QED
      BY <1>4, <2>2 DEF RowsDiffer
  <1>. QED
    BY <1>5, <1>6 DEF StoreMoves

\* What stands in the store changes only when the store moves.
LEMMA RowsMove == [ConsoleNext]_<<visit, consoleVars>> => StoreMoves \/ rows' = rows
  <1>1. Comes => rows' = rows
    BY DEF Comes, Arrives
  <1>2. Gate => rows' = rows
    BY DEF Gate
  <1>3. Handles => rows' = rows
    BY DEF Handles, Refuses, AnswersAtOnce, SendsPage, ShowsEntry, FindsSubject, Reads, ActsOnQueue,
           ActionAnswers, StoreFails, ListsEntries, ProbesEntries
  <1>4. Signs => rows' = rows
    BY DEF Signs, SignsOut, ShowsLogin, SignsIn
  <1>5. Passing => StoreMoves \/ rows' = rows
    BY DEF Passing, WalkBegins, apiVars
  <1>. QED
    BY <1>1, <1>2, <1>3, <1>4, <1>5, StepKinds

ScreenInv == SectionShape /\ AnswersInv /\ TailInv

\* The section turns to another filter, page or mode, and shows what its key asks for.
LEMMA TurnsKeeps ==
  ASSUME ScreenInv, NEW s \in Section, s.filter \in Filter, Turns(s)
  PROVE  ScreenInv'
  <1>1. section' = s /\ Shows(s) /\ TailFollows(section')
    BY DEF Turns
  <1>2. SectionShape'
    BY <1>1 DEF SectionShape
  <1>3. AnswersInv'
    <2>1. CASE UNCHANGED <<answers, flight>>
      BY <2>1 DEF ScreenInv, AnswersInv
    <2>2. CASE Fetches(QueryKey(s), s.page)
      <3>1. PICK k \in Key : k = QueryKey(s)
        BY KeyOfSection
      <3>2. PICK page \in Nat : page = s.page
        BY EntriesTableAssumption DEF Section
      <3>. QED
        BY <2>2, <3>1, <3>2, FetchesKeeps DEF ScreenInv
    <2>. QED
      BY <1>1, <2>1, <2>2 DEF Shows
  <1>4. TailInv'
    BY <1>1, TailFollowsKeeps DEF ScreenInv
  <1>. QED
    BY <1>2, <1>3, <1>4 DEF ScreenInv

LEMMA ClosedIsOne == Closed \in Section /\ ~ Closed.open /\ ~ Enabled(Closed)
  <1>1. 1 \in 1 .. MaxPage
    BY EntriesTableAssumption
  <1>. QED
    BY <1>1 DEF Closed, Section, Enabled

LEMMA OpensTableKeeps ==
  ASSUME ScreenInv, NEW f \in Filter, OpensTable(f)
  PROVE  ScreenInv'
  <1>1. PICK s : s = [Closed EXCEPT !.open = TRUE, !.filter = f]
    OBVIOUS
  <1>2. s \in Section /\ s.filter = f /\ ~ Enabled(s)
    BY <1>1, ClosedIsOne DEF Section, Enabled, Closed
  <1>3. section' = s /\ tail' = NoTail
    BY <1>1 DEF OpensTable
  <1>4. PICK k \in Key : k = QueryKey([Closed EXCEPT !.filter = f])
    <2>1. PICK r : r = [Closed EXCEPT !.filter = f]
      OBVIOUS
    <2>2. r \in Section /\ r.filter = f
      BY <2>1, ClosedIsOne DEF Section
    <2>. QED
      BY <2>1, <2>2, KeyOfSection
  <1>5. AnswersInv'
    <2>1. Fetches(k, 1)
      BY <1>4 DEF OpensTable
    <2>2. 1 \in Nat
      OBVIOUS
    <2>. QED
      BY <2>1, <2>2, FetchesKeeps DEF ScreenInv
  <1>6. TailInv'
    BY <1>2, <1>3, NoTailIsKept DEF TailInv
  <1>. QED
    BY <1>2, <1>3, <1>5, <1>6 DEF ScreenInv, SectionShape

LEMMA LeavesTableKeeps == ASSUME ScreenInv, LeavesTable PROVE ScreenInv'
  <1>1. section' = Closed /\ tail' = NoTail /\ UNCHANGED <<answers, flight>>
    BY DEF LeavesTable
  <1>2. AnswersInv'
    BY <1>1 DEF ScreenInv, AnswersInv
  <1>3. SectionShape' /\ TailInv'
    BY <1>1, ClosedIsOne, NoTailIsKept DEF SectionShape, TailInv
  <1>. QED
    BY <1>2, <1>3 DEF ScreenInv

LEMMA RefreshesKeeps == ASSUME ScreenInv, Refreshes PROVE ScreenInv'
  <1>1. section \in Section /\ section.filter \in Filter /\ section' = section /\ tail' = tail
    BY DEF Refreshes, ScreenInv, SectionShape
  <1>2. PICK k \in Key : k = QueryKey(section)
    BY <1>1, KeyOfSection
  <1>3. PICK page \in Nat : page = section.page
    BY <1>1, EntriesTableAssumption DEF Section
  <1>4. CASE Fetches(k, page)
    <2>1. AnswersInv'
      BY <1>4, FetchesKeeps DEF ScreenInv
    <2>. QED
      BY <1>1, <2>1 DEF ScreenInv, SectionShape, TailInv
  <1>5. CASE flight' = [flight EXCEPT ![k] = page] /\ UNCHANGED answers
    <2>1. flight' \in [Key -> Nat]
      BY <1>5 DEF ScreenInv, AnswersInv
    <2>2. AnswersInv'
      BY <1>5, <2>1 DEF ScreenInv, AnswersInv
    <2>. QED
      BY <1>1, <2>2 DEF ScreenInv, SectionShape, TailInv
  <1>. QED
    BY <1>2, <1>3, <1>4, <1>5 DEF Refreshes

LEMMA ScreenKeeps ==
  ASSUME ScreenInv, rows \in Seq(RowId), RowsDiffer, TableNext
  PROVE  ScreenInv'
  <1>1. ASSUME NEW f \in Filter, OpensTable(f) PROVE ScreenInv'
    BY <1>1, OpensTableKeeps
  <1>2. ASSUME NEW f \in Filter, ChangesFilter(f) PROVE ScreenInv'
    <2>1. PICK s : s = [section EXCEPT !.filter = f, !.page = 1]
      OBVIOUS
    <2>2. s \in Section /\ s.filter = f /\ Turns(s)
      <3>1. 1 \in 1 .. MaxPage
        BY EntriesTableAssumption
      <3>. QED
        BY <1>2, <2>1, <3>1 DEF ChangesFilter, ScreenInv, SectionShape, Section
    <2>. QED
      BY <2>2, TurnsKeeps
  <1>3. CASE TogglesLive
    <2>1. PICK live \in BOOLEAN : live = ~ section.live
      OBVIOUS
    <2>2. PICK s : s = [section EXCEPT !.live = live]
      OBVIOUS
    <2>3. Turns(s) /\ section \in Section /\ section.filter \in Filter
      BY <1>3, <2>1, <2>2 DEF TogglesLive, ScreenInv, SectionShape
    <2>4. s \in Section /\ s.filter \in Filter
      BY <2>2, <2>3 DEF Section
    <2>. QED
      BY <2>3, <2>4, TurnsKeeps
  <1>4. ASSUME NEW page \in 1 .. MaxPage, TurnsPage(page) PROVE ScreenInv'
    <2>1. PICK s : s = [section EXCEPT !.page = page]
      OBVIOUS
    <2>2. Turns(s) /\ section \in Section /\ section.filter \in Filter
      BY <1>4, <2>1 DEF TurnsPage, Listed, ScreenInv, SectionShape
    <2>3. s \in Section /\ s.filter \in Filter
      BY <2>1, <2>2 DEF Section
    <2>. QED
      BY <2>2, <2>3, TurnsKeeps
  <1>5. ASSUME NEW k \in Key, Forgets(k) PROVE ScreenInv'
    <2>1. AnswersInv' /\ section' = section /\ tail' = tail
      BY <1>5, ForgetsKeeps DEF ScreenInv, Forgets
    <2>. QED
      BY <2>1 DEF ScreenInv, SectionShape, TailInv
  <1>6. ASSUME NEW k \in Key, NEW outcome, Lands(k, outcome) PROVE ScreenInv'
    <2>1. AnswersInv' /\ section' = section /\ tail' = tail
      BY <1>6, LandsKeeps DEF ScreenInv, Lands
    <2>. QED
      BY <2>1 DEF ScreenInv, SectionShape, TailInv
  <1>7. CASE SourceOpens \/ SourceFails \/ TimerFires \/ FrameArrives
    <2>1. TailInv'
      BY <1>7, SourceKeeps, FrameArrivesKeeps DEF ScreenInv
    <2>2. UNCHANGED <<section, answers, flight>>
      BY <1>7 DEF SourceOpens, SourceFails, TimerFires, FrameArrives
    <2>. QED
      BY <2>1, <2>2 DEF ScreenInv, SectionShape, AnswersInv
  <1>. QED
    BY <1>1, <1>2, <1>3, <1>4, <1>5, <1>6, <1>7, LeavesTableKeeps, RefreshesKeeps DEF TableNext

LEMMA SectionBegins == ConsoleInit => ScreenInv /\ RowsDiffer
  <1>. SUFFICES ASSUME ConsoleInit PROVE ScreenInv /\ RowsDiffer
    OBVIOUS
  <1>1. /\ born \in 0 .. Cardinality(Row) /\ rows = [i \in 1 .. born |-> born + 1 - i]
        /\ section = Closed /\ tail = NoTail
        /\ answers = [k \in Key |-> NoAnswer] /\ flight = [k \in Key |-> 0]
    BY DEF ConsoleInit, ApiInit, TableInit
  <1>2. RowsDiffer
    <2>1. born \in Nat
      BY <1>1
    <2>2. Len(rows) = born /\ \A i \in 1 .. born : rows[i] = born + 1 - i
      BY <1>1, <2>1
    <2>. QED
      BY <2>1, <2>2 DEF RowsDiffer
  <1>3. AnswersInv
    <2>1. NoAnswer \in AnAnswer /\ \A found : Fits(NoAnswer.rows, found)
      BY NoAnswerFits
    <2>. QED
      BY <1>1, <2>1 DEF AnswersInv
  <1>4. SectionShape /\ TailInv
    BY <1>1, ClosedIsOne, NoTailIsKept DEF SectionShape, TailInv
  <1>. QED
    BY <1>2, <1>3, <1>4 DEF ScreenInv

LEMMA SectionStep ==
  ApiInv /\ TableInv /\ ScreenInv /\ RowsDiffer /\ [ConsoleNext]_<<visit, consoleVars>> =>
    (ScreenInv /\ RowsDiffer)'
  <1>. SUFFICES ASSUME ApiInv, TableInv, ScreenInv, RowsDiffer, [ConsoleNext]_<<visit, consoleVars>>
                PROVE  ScreenInv' /\ RowsDiffer'
    OBVIOUS
  <1>1. ApiShape /\ RowsBelow /\ rows \in Seq(RowId)
    BY DEF ApiInv, ApiShape, TableInv
  <1>2. RowsDiffer'
    <2>1. CASE rows' = rows
      BY <2>1 DEF RowsDiffer
    <2>. QED
      BY <1>1, <2>1, RowsMove, StoreMovesDiffer
  <1>3. CASE UNCHANGED tableVars
    BY <1>2, <1>3 DEF tableVars, ScreenInv, SectionShape, AnswersInv, TailInv
  <1>4. CASE TableNext
    BY <1>1, <1>2, <1>4, ScreenKeeps
  <1>5. CASE StoreFeeds
    <2>1. born' \in Nat
      BY <1>1, <1>5, StoreMovesKeepRows DEF StoreFeeds
    <2>2. TailInv'
      BY <1>5, <2>1, StoreFeedsKeeps DEF ScreenInv
    <2>3. UNCHANGED <<section, answers, flight>>
      BY <1>5 DEF StoreFeeds
    <2>. QED
      BY <1>2, <2>2, <2>3 DEF ScreenInv, SectionShape, AnswersInv
  <1>6. UNCHANGED tableVars \/ TableNext \/ StoreFeeds
    <2>1. ConsoleNext => UNCHANGED tableVars \/ TableNext \/ StoreFeeds
      BY DEF ConsoleNext, Sessions, Visits, Browses, Looks, Asks
    <2>. QED
      BY <2>1 DEF consoleVars
  <1>. QED
    BY <1>3, <1>4, <1>5, <1>6

\* What the section shows fits its filter, each row once.
LEMMA ShownFits ==
  ASSUME ScreenInv, Listed
  PROVE  OnScreen \in Seq(RowId) /\ Fits(OnScreen, Fitting[section.filter])
  <1>1. section \in Section /\ section.filter \in Filter /\ tail \in Source
    BY DEF ScreenInv, SectionShape, TailInv, Listed
  <1>2. PICK k \in Key : k = QueryKey(section) /\ k.filter = section.filter
    BY <1>1, KeyOfSection
  <1>3. PICK fit : fit = Fitting[section.filter]
    OBVIOUS
  <1>4. PICK page : page = Answer.rows /\ page \in Seq(RowId) /\ Fits(page, fit)
    BY <1>2, <1>3 DEF Answer, ScreenInv, AnswersInv, AnAnswer
  <1>5. CASE ~ Enabled(section)
    BY <1>3, <1>4, <1>5 DEF OnScreen
  <1>6. CASE Enabled(section)
    <2>1. PICK seen : seen = Seen[section.filter] /\ seen \subseteq fit
      BY <1>1, <1>3, EntriesTableAssumption DEF Filter
    <2>2. PICK front : front = Within(tail.entries, seen)
      OBVIOUS
    <2>3. front \in Seq(RowId) /\ \A i \in 1 .. Len(front) : front[i] \in seen
      <3>1. tail.entries \in Seq(RowId)
        BY <1>1 DEF Source
      <3>. QED
        BY <2>2, <3>1, WithinParts
    <2>4. PICK all : all = front \o page
      OBVIOUS
    <2>5. all \in Seq(RowId) /\ \A i \in 1 .. Len(all) : all[i] \in fit
      <3>1. PICK m \in Nat : m = Len(front)
        BY <2>3, LenProperties
      <3>2. PICK n \in Nat : n = Len(page)
        BY <1>4, LenProperties
      <3>3. /\ all \in Seq(RowId) /\ Len(all) = m + n
            /\ \A i \in 1 .. m + n : all[i] = IF i <= m THEN front[i] ELSE page[i - m]
        BY <1>4, <2>3, <2>4, <3>1, <3>2, ConcatProperties
      <3>4. ASSUME NEW i \in 1 .. m + n PROVE all[i] \in fit
        <4>1. CASE i <= m
          <5>1. i \in 1 .. m
            BY <4>1
          <5>. QED
            BY <2>1, <2>3, <3>1, <3>3, <4>1, <5>1
        <4>2. CASE ~ (i <= m)
          <5>1. i - m \in 1 .. n
            BY <4>2
          <5>. QED
            BY <1>4, <3>2, <3>3, <4>2, <5>1 DEF Fits
        <4>. QED
          BY <4>1, <4>2
      <3>. QED
        BY <3>3, <3>4
    <2>6. PICK shown : shown = Each(all) /\ shown = OnScreen
      BY <1>4, <1>6, <2>1, <2>2, <2>4 DEF OnScreen
    <2>7. /\ shown \in Seq(RowId)
          /\ \A i \in 1 .. Len(shown) : \E j \in 1 .. Len(all) : shown[i] = all[j]
          /\ \A i, j \in 1 .. Len(shown) : shown[i] = shown[j] => i = j
      <3>1. /\ Each(all) \in Seq(RowId)
            /\ \A i \in 1 .. Len(Each(all)) : \E j \in 1 .. Len(all) : Each(all)[i] = all[j]
            /\ \A i, j \in 1 .. Len(Each(all)) : Each(all)[i] = Each(all)[j] => i = j
        BY <2>5, EachParts
      <3>. QED
        BY <2>6, <3>1
    <2>8. Fits(shown, fit)
      BY <2>5, <2>7 DEF Fits
    <2>. QED
      BY <1>3, <2>6, <2>7, <2>8
  <1>. QED
    BY <1>5, <1>6

LEMMA ScreenIsSound == ScreenInv => TableIsSound
  <1>. SUFFICES ASSUME ScreenInv PROVE TableIsSound
    OBVIOUS
  <1>1. Listed => /\ \A i \in DOMAIN OnScreen : OnScreen[i] \in Fitting[section.filter]
                  /\ \A i, j \in DOMAIN OnScreen : OnScreen[i] = OnScreen[j] => i = j
    <2>. SUFFICES ASSUME Listed
                  PROVE  /\ \A i \in DOMAIN OnScreen : OnScreen[i] \in Fitting[section.filter]
                         /\ \A i, j \in DOMAIN OnScreen : OnScreen[i] = OnScreen[j] => i = j
      OBVIOUS
    <2>1. PICK shown : shown = OnScreen
      OBVIOUS
    <2>2. PICK fit : fit = Fitting[section.filter]
      OBVIOUS
    <2>3. shown \in Seq(RowId) /\ Fits(shown, fit)
      BY <2>1, <2>2, ShownFits
    <2>4. DOMAIN shown = 1 .. Len(shown)
      BY <2>3, LenProperties
    <2>. QED
      BY <2>1, <2>2, <2>3, <2>4 DEF Fits
  <1>2. tail.wire # <<>> \/ tail.timer => Enabled(section)
    BY DEF ScreenInv, TailInv, Quiet
  <1>3. Kept(tail)
    BY DEF ScreenInv, TailInv
  <1>. QED
    BY <1>1, <1>2, <1>3 DEF Kept, TableIsSound

-----------------------------------------------------------------------------
(* What holds of the dashboard                                             *)

LEMMA ConsoleInvHolds == ConsoleSpec => [](ApiInv /\ CallInv)
  <1>1. ConsoleInit => ApiInv /\ CallInv
    BY ApiBegins, CallBegins
  <1>2. ApiInv /\ CallInv /\ [ConsoleNext]_<<visit, consoleVars>> => (ApiInv /\ CallInv)'
    BY ApiStep, CallStep
  <1>. QED
    BY <1>1, <1>2, PTL DEF ConsoleSpec

\* For any configurations, lifetimes of a session, keys and rows: what a guarded route answers with
\* was let in by the hook and by a session that was signed in to with the key of the deployment that
\* judged it; a browser that signed in is sent to what it had asked for or to the base path, never to
\* a target with two leading slashes or with a scheme; a message that was denied reads and asks
\* nothing (gate, enforceDashboardAuth, sanitizeReturnTo, McpServer.handle).
THEOREM OnlySignedInAlwaysSee == ConsoleSpec => []OnlySignedInSee
  <1>1. ApiInv /\ CallInv => OnlySignedInSee
    BY DEF ApiInv, GateInv, AnsweredInside, SentBack, Target, LetIn, CallInv, OnlySignedInSee
  <1>. QED
    BY <1>1, ConsoleInvHolds, PTL

\* For any configurations, tools and rows: nothing is changed but by a request or a message whose
\* switch is on and whose entry is of the kind it needs, at most once; a success is answered only when
\* it was done, and what was done is answered with an error only if the diagnosis failed or the
\* queue adapter threw (the controllers of the routes, McpServer.callTool).
THEOREM ChangesStayAnswered == ConsoleSpec => []ChangesAreAnswered
  <1>1. ApiInv /\ CallInv => ChangesAreAnswered
    BY DEF ApiInv, ApiShape, Request, ActInv, Allowed, CallInv, ChangesAreAnswered
  <1>. QED
    BY <1>1, ConsoleInvHolds, PTL

\* For any rows and page size: a walk through the pages of the table that came to the last one has
\* seen every entry that was there when it began and still is, whatever was recorded or pruned in
\* between, and if nothing moved it saw each once, in order (EntriesController.list).
THEOREM PagesNeverMiss == ConsoleSpec => []PagesMissNothing
  <1>1. ConsoleInit => ApiInv /\ TableInv
    BY ApiBegins, TableBegins
  <1>2. ApiInv /\ TableInv /\ [ConsoleNext]_<<visit, consoleVars>> => (ApiInv /\ TableInv)'
    BY ApiStep, TableStep
  <1>3. TableInv => PagesMissNothing
    BY DEF TableInv, WalkInv, PagesMissNothing
  <1>. QED
    BY <1>1, <1>2, <1>3, PTL DEF ConsoleSpec

\* For any filters, rows and sizes of a page and of the tail: what the section shows fits its filter,
\* each row once, and the newest frames that arrived since it was opened are kept, whatever the
\* user turned to in between (EntriesSection, useLiveTail).
THEOREM TableStaysSound == ConsoleSpec => []TableIsSound
  <1>1. ConsoleInit => ApiInv /\ TableInv /\ ScreenInv /\ RowsDiffer
    BY ApiBegins, TableBegins, SectionBegins
  <1>2. ApiInv /\ TableInv /\ ScreenInv /\ RowsDiffer /\ [ConsoleNext]_<<visit, consoleVars>> =>
          (ApiInv /\ TableInv /\ ScreenInv /\ RowsDiffer)'
    BY ApiStep, TableStep, SectionStep
  <1>3. ScreenInv => TableIsSound
    BY ScreenIsSound
  <1>. QED
    BY <1>1, <1>2, <1>3, PTL DEF ConsoleSpec
=============================================================================
