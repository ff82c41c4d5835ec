---------------------------- MODULE ClientErrors ----------------------------
(***************************************************************************)
(* The public endpoint for errors of the browser: authorize, size, token    *)
(* bucket, validation, shedding, record.  Only authorize is awaited; the    *)
(* rest runs in one turn.  Tokens are counted in parts of a minute, so that *)
(* the linear refill is exact.                                             *)
(***************************************************************************)
EXTENDS Integers, Sequences, SequencesExt

CONSTANTS Address,       \* client addresses
          PerMinute,     \* rateLimit.perMinute
          Minute,        \* the length of a minute
          MaxTrackedIps, \* the cap of the buckets
          MaxLimitTime   \* bound: the clock stops there

ASSUME ClientErrorsAssumption ==
  /\ PerMinute \in Nat \ {0} /\ Minute \in Nat \ {0} /\ MaxTrackedIps \in Nat \ {0}
  /\ MaxLimitTime \in Nat

VARIABLES buckets,   \* this.buckets, oldest insertion first
          waiting,   \* addresses whose report awaits the authorize hook
          limitNow

limitVars == <<buckets, waiting, limitNow>>

LimitInit ==
  buckets = <<>> /\ waiting = {} /\ limitNow = 0

Tracked1(ip) == \E i \in DOMAIN buckets : buckets[i].ip = ip

\* The bucket's tokens at this moment, at most a full bucket.
Refilled(b) ==
  LET tokens == b.tokens + (limitNow - b.last) * PerMinute
  IN  IF tokens > PerMinute * Minute THEN PerMinute * Minute ELSE tokens

\* insert(): the oldest insertions leave until there is room.
Insert1(bucket) ==
  buckets' = Append(IF Len(buckets) >= MaxTrackedIps
                      THEN SubSeq(buckets, Len(buckets) - MaxTrackedIps + 2, Len(buckets))
                      ELSE buckets, bucket)

\* Mutant: the moment of the refill is moved only when a token is spent.
TryConsumeKeeping(ip) ==
  buckets' = [i \in DOMAIN buckets |->
                IF buckets[i].ip # ip THEN buckets[i]
                ELSE IF Refilled(buckets[i]) < Minute
                       THEN [buckets[i] EXCEPT !.tokens = Refilled(buckets[i])]
                       ELSE [buckets[i] EXCEPT !.tokens = Refilled(buckets[i]) - Minute,
                                               !.last = limitNow, !.allowed = @ + 1]]

\* tryConsume() of a known address: refill, then spend a token if there is one.
TryConsume(ip) ==
  buckets' = [i \in DOMAIN buckets |->
                IF buckets[i].ip # ip THEN buckets[i]
                ELSE LET r == Refilled(buckets[i])
                     IN  [buckets[i] EXCEPT !.last = limitNow,
                            !.tokens = IF r < Minute THEN r ELSE r - Minute,
                            !.allowed = IF r < Minute THEN @ ELSE @ + 1]]

\* The first request of an address starts a full bucket and spends one token of it.
FirstToken(ip) ==
  Insert1([ip |-> ip, tokens |-> (PerMinute - 1) * Minute, last |-> limitNow,
           since |-> limitNow, allowed |-> 1])

\* handle(), up to the authorize hook.
ReportArrives(ip) ==
  /\ ip \notin waiting
  /\ waiting' = waiting \cup {ip}
  /\ UNCHANGED <<buckets, limitNow>>

\* The hook denies, or throws: 403.
Forbidden(ip) ==
  /\ ip \in waiting /\ waiting' = waiting \ {ip}
  /\ UNCHANGED <<buckets, limitNow>>

\* The rest of handle(): a token is spent before the body is validated (400) and before the
\* report is shed (204); only the size is looked at first (413).  An address without a token
\* is answered 429.
Handle(ip) ==
  /\ ip \in waiting /\ waiting' = waiting \ {ip}
  /\ \E oversized \in BOOLEAN :
       IF oversized THEN UNCHANGED buckets
       ELSE IF Tracked1(ip) THEN TryConsume(ip) ELSE FirstToken(ip)
  /\ UNCHANGED limitNow

LimitTick ==
  /\ limitNow < MaxLimitTime /\ limitNow' = limitNow + 1
  /\ UNCHANGED <<buckets, waiting>>

LimitNext ==
  \/ \E ip \in Address : ReportArrives(ip) \/ Forbidden(ip) \/ Handle(ip)
  \/ LimitTick

-----------------------------------------------------------------------------
(* Properties                                                              *)

\* While an address is tracked it never gets more than a full bucket and what was refilled
\* since, however its requests and refusals are spread over time: "the effective rate is
\* exactly perMinute without a coarse fixed window" (rate_limiter.ts).
BudgetIsKept ==
  \A i \in DOMAIN buckets :
    LET b == buckets[i]
    IN  /\ b.allowed * Minute + b.tokens
             <= PerMinute * Minute + (b.last - b.since) * PerMinute
        /\ b.tokens \in 0 .. PerMinute * Minute
        /\ \A j \in DOMAIN buckets : buckets[j].ip = b.ip => j = i
=============================================================================
