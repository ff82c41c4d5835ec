---------------------------- MODULE Contributions ----------------------------
(***************************************************************************)
(* What others bring to telescope and what is made of it: extensions with   *)
(* dashboards and schedules, collected at boot, and the adapter of a queue  *)
(* library, resolved once, whose methods decide which actions the dashboard *)
(* offers.  A call of the adapter may fail.                                *)
(***************************************************************************)
EXTENDS Integers, Sequences, FiniteSets

CONSTANTS ItemId,   \* ids of entry types, dashboards, providers
          TaskName  \* names of schedules

VARIABLES extensions, \* the configured extensions, in order
          registered, \* <<>>, or what the registry made of them
          service,    \* the queue library
          answer      \* the last answer of the queue manager

contributionVars == <<extensions, registered, service, answer>>

\* An extension brings one or two items of a kind, and a list of schedules, or fails to.
Extension == [items : {<<i>> : i \in ItemId} \cup {<<i, j>> : i \in ItemId, j \in ItemId},
              tasks : [fails : BOOLEAN, names : SUBSET TaskName]]

\* The service: absent, with use() that works or throws, or itself an adapter.
Methods == SUBSET {"retryJob", "pushOn", "push", "sizeOf"}
Services == [shape : {"absent", "uses", "throws", "adapter", "stranger"}, has : Methods]

ContributionsInit ==
  /\ \/ extensions \in UNION {[1..n -> Extension] : n \in 1..2} /\ service = [shape |-> "absent", has |-> {}]
     \/ extensions = <<>> /\ service \in Services
  /\ registered = <<>> /\ answer = <<>>

-----------------------------------------------------------------------------
(* Extensions                                                              *)

\* What is contributed: which item of which extension, and its id.
Contributed == {p \in (DOMAIN extensions) \X {1, 2} : p[2] \in DOMAIN extensions[p[1]].items}
IdOf(p) == extensions[p[1]].items[p[2]]
Ids == {IdOf(p) : p \in Contributed}

\* The constructor throws on the first id that two contributions share.
Collides == \E p, q \in Contributed : p # q /\ IdOf(p) = IdOf(q)

\* Mutant: the last of a name wins.
LastOwner(t) ==
  LET able == {i \in DOMAIN extensions : ~ extensions[i].tasks.fails
                                          /\ t \in extensions[i].tasks.names}
  IN IF able = {} THEN {} ELSE {CHOOSE i \in able : \A j \in able : i >= j}

\* collectSchedules(): an extension that fails is skipped, the first of a name wins.
OwnerOf(t) ==
  LET able == {i \in DOMAIN extensions : ~ extensions[i].tasks.fails
                                          /\ t \in extensions[i].tasks.names}
  IN IF able = {} THEN {} ELSE {CHOOSE i \in able : \A j \in able : i <= j}

BuildRegistry ==
  /\ registered = <<>> /\ extensions # <<>>
  /\ registered' = IF Collides THEN <<"throws">>
                   ELSE <<"built", Ids, [t \in TaskName |-> OwnerOf(t)]>>
  /\ UNCHANGED <<extensions, service, answer>>

-----------------------------------------------------------------------------
(* The queue manager                                                       *)

\* resolveAdapter(): never throws; without use() the service itself must look like an adapter.
HasAdapter == service.shape \in {"uses", "adapter"}

\* Mutant: an adapter that only has push() is not asked for it.
RetryOrPushOn ==
  {a \in {"retry", "enqueue"} : HasAdapter
     /\ (a = "retry" => "retryJob" \in service.has) /\ (a = "enqueue" => "pushOn" \in service.has)}

Capabilities ==
  IF ~ HasAdapter THEN {}
  ELSE {a \in {"retry", "enqueue"} :
          \/ a = "retry" /\ "retryJob" \in service.has
          \/ a = "enqueue" /\ service.has \cap {"pushOn", "push"} # {}}

\* listQueues(): a depth that cannot be read is left out, the queue is listed all the same.
ListQueues ==
  /\ extensions = <<>> /\ answer = <<>>
  /\ \E fails \in BOOLEAN :
       answer' = <<"queues", IF HasAdapter /\ "sizeOf" \in service.has /\ ~ fails
                             THEN "depth" ELSE "unknown", Capabilities>>
  /\ UNCHANGED <<extensions, registered, service>>

\* getJob(): nothing without an adapter; a failure of the adapter is the caller's.
GetJob ==
  /\ extensions = <<>> /\ answer = <<>>
  /\ \E of \in {"job", "null", "throws"} :
       answer' = <<"job", IF HasAdapter THEN of ELSE "null">>
  /\ UNCHANGED <<extensions, registered, service>>

Retry ==
  /\ extensions = <<>> /\ answer = <<>>
  /\ \E fails \in BOOLEAN :
       answer' = <<"retry", IF ~ HasAdapter \/ "retryJob" \notin service.has THEN "unsupported"
                            ELSE IF fails THEN "throws" ELSE "done">>
  /\ UNCHANGED <<extensions, registered, service>>

\* pushOn() when there is one, else push() with the queue among its options.
Enqueue ==
  /\ extensions = <<>> /\ answer = <<>>
  /\ \E fails \in BOOLEAN :
       answer' = <<"enqueue", IF ~ HasAdapter \/ service.has \cap {"pushOn", "push"} = {}
                              THEN "unsupported" ELSE IF fails THEN "throws" ELSE "done">>
  /\ UNCHANGED <<extensions, registered, service>>

NextQuestion == answer # <<>> /\ answer' = <<>> /\ UNCHANGED <<extensions, registered, service>>

ContributionsNext ==
  BuildRegistry \/ ListQueues \/ GetJob \/ Retry \/ Enqueue \/ NextQuestion

-----------------------------------------------------------------------------
(* Properties                                                              *)

\* What the registry serves is of one owner: two extensions that bring one id are refused at
\* boot, and a schedule two of them bring is that of the first that could give it, also when an
\* extension before it failed (ExtensionRegistry).
ContributionsAreOwned ==
  registered # <<>> =>
    \/ registered[1] = "throws" /\ Cardinality(Contributed) > Cardinality(Ids)
    \/ /\ registered[1] = "built"
       /\ Cardinality(Contributed) = Cardinality(registered[2])
       /\ \A t \in TaskName : \A i \in registered[3][t] :
            \A j \in 1..(i - 1) : extensions[j].tasks.fails \/ t \notin extensions[j].tasks.names

\* What is offered works and what is not offered is refused: an action is among the
\* capabilities exactly when the call reaches the adapter (QueueManagerDriver).
OfferedIsSupported ==
  answer # <<>> /\ answer[1] \in {"retry", "enqueue"} =>
    (answer[2] = "unsupported" <=> answer[1] \notin Capabilities)
=============================================================================
