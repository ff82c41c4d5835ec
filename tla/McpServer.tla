----------------------------- MODULE McpServer -----------------------------
(***************************************************************************)
(* The MCP endpoint: one JSON-RPC message per HTTP request, answered        *)
(* whatever happens, with the tools the configuration allows.  It shares    *)
(* the store and the guard of the dashboard.                               *)
(***************************************************************************)
EXTENDS DashboardApi

CONSTANTS Tools,    \* tools the configuration enables
          TraceOf   \* row -> its trace, or "none"

VARIABLE call  \* the message in flight, or the last one answered

AllTools == {"list_entries", "get_entry", "get_trace", "get_waterfall", "get_health",
             "diagnose_exception"}
Methods == {"initialize", "initialized", "ping", "tools/list", "tools/call", "other"}

Silence == [kind |-> "silence"]
Result(value) == [kind |-> "result", value |-> value]
Failure(code) == [kind |-> "error", code |-> code]

NoCall == [id |-> TRUE, method |-> "ping", tool |-> "none", args |-> TRUE, row |-> 0,
           step |-> "done", allowed |-> FALSE, seen |-> {}, asked |-> FALSE,
           status |-> 0, answer |-> Silence]

McpInit == call = NoCall

\* respond() and fail(): a notification, which has no id, is never answered; HTTP 202 then.
RpcDone(answer) ==
  [call EXCEPT !.step = "done", !.status = IF call.id THEN 200 ELSE 202,
               !.answer = IF call.id THEN answer ELSE Silence]
\* A method that is a notification by its name is answered by nothing either way.
Ignored == [call EXCEPT !.step = "done", !.status = 202, !.answer = Silence]

McpArrives(id, method, tool, args, row, cred, own) ==
  /\ call.step = "done"
  /\ call' = [NoCall EXCEPT !.id = id, !.method = method, !.tool = tool, !.args = args,
                            !.row = row, !.step = "handle",
                            !.allowed = RunGuard(Authorize(cred, own)) = 200]
  /\ UNCHANGED <<accessVars, apiVars>>

\* Mutant: the tools are those of the server, not those of the configuration.
CallableAll == AllTools \cup {"none"}

\* What callTool() does not refuse as disabled; a missing name falls through to the default.
Callable == Tools \cup {"none"}

Here(row) == \E i \in DOMAIN rows : rows[i] = row
InTrace(trace) == {rows[i] : i \in {j \in DOMAIN rows : trace # "none" /\ TraceOf[rows[j]] = trace}}

\* handle(), up to the first await of a tool.
McpHandles ==
  /\ call.step = "handle"
  /\ call' =
       IF ~call.allowed THEN RpcDone(Failure(-32001))
       ELSE IF call.method = "initialized" THEN Ignored
       ELSE IF call.method = "tools/list" THEN RpcDone(Result(Tools))
       ELSE IF call.method \in {"initialize", "ping"} THEN RpcDone(Result("ok"))
       ELSE IF call.method = "other" THEN RpcDone(Failure(-32601))
       ELSE IF \/ call.tool \notin Callable \/ call.tool = "none"
               \/ ~call.args /\ call.tool \notin {"list_entries", "get_health"}
            THEN RpcDone(Failure(-32603))
       ELSE IF call.tool = "diagnose_exception" /\ ~Has("diagnosis") THEN RpcDone(Result("not_configured"))
       ELSE [call EXCEPT !.step = "reading"]
  /\ UNCHANGED <<accessVars, apiVars>>

\* The first read of a tool.
McpReads(fails) ==
  /\ call.step = "reading"
  /\ call' =
       IF fails THEN RpcDone(Failure(-32603))
       ELSE IF call.tool \in {"list_entries", "get_health"} THEN RpcDone(Result("data"))
       ELSE IF ~Here(call.row) THEN RpcDone(Result("not_found"))
       ELSE IF call.tool \in {"get_trace", "get_waterfall"}
       THEN RpcDone(IF InTrace(TraceOf[call.row]) = {} THEN Result("not_found") ELSE Result("data"))
       ELSE IF call.tool = "diagnose_exception" /\ TypeOf[call.row] \notin Diagnosable
       THEN RpcDone(Result("not_found"))
       ELSE [call EXCEPT !.step = IF TraceOf[call.row] = "none" THEN "settling" ELSE "siblings"]
  /\ UNCHANGED <<accessVars, apiVars>>

\* The other entries of the trace: what is left of it by now, without the entry itself.
McpSiblings(fails) ==
  /\ call.step = "siblings"
  /\ call' = IF fails THEN RpcDone(Failure(-32603))
             ELSE [call EXCEPT !.step = "settling", !.seen = InTrace(TraceOf[call.row]) \ {call.row}]
  /\ UNCHANGED <<accessVars, apiVars>>

\* get_entry answers; diagnose_exception asks the coordinator, whose failure is a text.
McpSettles(outcome) ==
  /\ call.step = "settling"
  /\ call' = IF call.tool = "get_entry" THEN RpcDone(Result("data"))
             ELSE [RpcDone(Result(IF outcome = "fails" THEN "no_result" ELSE "data"))
                     EXCEPT !.asked = TRUE]
  /\ UNCHANGED <<accessVars, apiVars>>

McpNext ==
  \/ \E id, args \in BOOLEAN, method \in Methods, cred \in Credential :
       \E tool \in IF method = "tools/call" THEN AllTools \cup {"none"} ELSE {"none"} :
         \E row \in IF method = "tools/call" THEN Row ELSE {1} :
           McpArrives(id, method, tool, args, row, cred, "deny")
  \/ McpHandles
  \/ \E fails \in BOOLEAN : McpReads(fails) \/ McpSiblings(fails)
  \/ \E outcome \in {"works", "fails"} : McpSettles(outcome)
=============================================================================
