--------------------------- MODULE RequestEntries ---------------------------
(***************************************************************************)
(* recordRequest(): what the entry of an HTTP request says of it.  A        *)
(* request is reduced to the facts that the rules look at.                 *)
(***************************************************************************)
EXTENDS Integers, Sequences, FiniteSets

CONSTANTS MaxBodyBytes, \* capture.maxBodyBytes
          MaxTags,      \* MAX_ENRICHMENT_TAGS
          MaxTagLength  \* MAX_ENRICHMENT_TAG_LENGTH

ASSUME RequestEntriesAssumption ==
  /\ MaxBodyBytes \in Nat /\ MaxTags \in Nat /\ MaxTagLength \in Nat \ {0}

VARIABLES request, \* the facts of the request
          told     \* <<>>, or the entry of it

requestVars == <<request, told>>

\* Where each fact comes from: the path, three headers, the response, the raw body.
Shapes ==
  [asset : BOOLEAN, inertia : BOOLEAN, html : {"response", "accept", "neither"}]
Bodies ==
  [captured : BOOLEAN, skipped : BOOLEAN, declared : {{}, {1}, {3}}, actual : {1, 3},
   text : BOOLEAN, predicate : BOOLEAN, limited : BOOLEAN]
Sources ==
  [given : {"absent", "null", "user"}, enriched : {"throws", "absent", "null", "user"},
   guard : {"throws", "none", "user"}, context : {"none", "user"}]
Statuses == [getter : {"throws", "number", "none"}, field : BOOLEAN]

SomeShape == [asset |-> FALSE, inertia |-> FALSE, html |-> "neither"]
SomeBody == [captured |-> FALSE, skipped |-> FALSE, declared |-> {}, actual |-> 1,
             text |-> TRUE, predicate |-> FALSE, limited |-> TRUE]
SomeSources == [given |-> "absent", enriched |-> "absent", guard |-> "none", context |-> "none"]
SomeStatus == [getter |-> "number", field |-> TRUE]

\* Tags of the hook: their lengths.
TagLists == UNION {[1..n -> 0..(MaxTagLength + 1)] : n \in 0..(MaxTags + 1)}

RequestWith(s, b, u, st, tags) ==
  [shape |-> s, body |-> b, sources |-> u, status |-> st, tags |-> tags]

RequestInit ==
  /\ \/ \E s \in Shapes, st \in Statuses : request = RequestWith(s, SomeBody, SomeSources, st, <<>>)
     \/ \E b \in Bodies : request = RequestWith(SomeShape, b, SomeSources, SomeStatus, <<>>)
     \/ \E u \in Sources, tags \in TagLists :
          request = RequestWith(SomeShape, SomeBody, u, SomeStatus, tags)
  /\ told = <<>>

\* classifyRequest(): the extension, then Inertia, then what was answered, then what was asked.
Classify(s) ==
  IF s.asset THEN "asset"
  ELSE IF s.inertia \/ s.html # "neither" THEN "page" ELSE "api"

\* estimateBodyBytes(): the declared length, else the length of text, else unknown.
EstimatedBytes(b) == IF b.declared # {} THEN b.declared ELSE IF b.text THEN {b.actual} ELSE {}

\* Mutant: only the declared length is looked at.
GateDeclared(b) ==
  IF b.skipped THEN "skipped type"
  ELSE IF b.limited /\ \E n \in b.declared : n > MaxBodyBytes THEN "skipped size"
  ELSE IF b.predicate THEN "skipped predicate" ELSE "body"

\* gateRequestBody(): by content type, by size, by the predicate of the application.
GateBody(b) ==
  IF b.skipped THEN "skipped type"
  ELSE IF b.limited /\ \E n \in EstimatedBytes(b) : n > MaxBodyBytes THEN "skipped size"
  ELSE IF b.predicate THEN "skipped predicate" ELSE "body"

\* resolveResponseStatus(): getStatus(), and the field when it throws or gives no number.
ResolveStatus(st) ==
  IF st.getter = "number" THEN "getter" ELSE IF st.field THEN "field" ELSE "null"

\* resolveRequestUser(): the guard of the request, then the reference of the context.
ResolveUser(u) ==
  IF u.guard = "user" THEN "guard" ELSE IF u.context = "user" THEN "context" ELSE "null"

\* What the caller gives wins, then what the hook says, `null` included, then what is found.
UserOf(u) ==
  IF u.given # "absent" THEN IF u.given = "user" THEN "given" ELSE "null"
  ELSE IF u.enriched \in {"null", "user"} THEN IF u.enriched = "user" THEN "enriched" ELSE "null"
  ELSE ResolveUser(u)

\* runEnrichment(): nothing of a hook that throws; empty tags go, then the first MaxTags, cut.
EnrichmentTags(r) ==
  LET given  == {i \in DOMAIN r.tags : r.tags[i] > 0}
      count  == IF Cardinality(given) < MaxTags THEN Cardinality(given) ELSE MaxTags
      Nth(n) == CHOOSE i \in given : Cardinality({j \in given : j <= i}) = n
      cut(len) == IF len > MaxTagLength THEN MaxTagLength ELSE len
  IN IF r.sources.enriched = "throws" THEN <<>> ELSE [n \in 1..count |-> cut(r.tags[Nth(n)])]

RecordRequest ==
  /\ told = <<>>
  /\ told' = <<[kind |-> Classify(request.shape),
                body |-> IF request.body.captured THEN GateBody(request.body) ELSE "none",
                status |-> ResolveStatus(request.status),
                user |-> UserOf(request.sources),
                tags |-> EnrichmentTags(request)]>>
  /\ UNCHANGED request

-----------------------------------------------------------------------------
(* Properties                                                              *)

\* A body is stored only when it was asked for, its type is not skipped, and its size, when it
\* is known, fits; the tags of the hook are bounded in number and length; a hook that throws
\* costs its own additions and nothing else (gateRequestBody, runEnrichment).
RequestsAreBounded ==
  told # <<>> =>
    LET t == told[1] b == request.body u == request.sources
    IN /\ t.body = "body" =>
            /\ b.captured /\ ~ b.skipped
            /\ b.limited => \A n \in EstimatedBytes(b) : n <= MaxBodyBytes
       /\ Len(t.tags) <= MaxTags /\ \A i \in DOMAIN t.tags : t.tags[i] \in 1..MaxTagLength
       /\ u.enriched = "throws" /\ u.given = "absent" => t.user = ResolveUser(u) /\ t.tags = <<>>
       /\ t.user = "guard" => u.given = "absent" /\ u.enriched \notin {"null", "user"}
=============================================================================
