----------------------------- MODULE TieredReads -----------------------------
(***************************************************************************)
(* Readers of the tiered store while the pods' prune cycles run: get(id)   *)
(* and list({ size: PageSize }), one read at a time in each pod, one await *)
(* at a time.  A read looks at the hot store, then at the cold tier, whose *)
(* listing every pod caches; a listed file that vanished reads as empty.   *)
(* When the cold tier cannot be listed or read, the hot part is the answer. *)
(*                                                                         *)
(*   free -> hot -> peek -> cold -> files -> answered -> free              *)
(***************************************************************************)
EXTENDS TieredStore, FiniteSetsExt

CONSTANT PageSize   \* { page: 1, size: PageSize }

ASSUME PageAssumption == PageSize \in Nat \ {0}

VARIABLES cache,     \* pod -> the cached cold listing: {} or {the listed files}
          rpc,       \* pod -> where its read stands
          asked,     \* pod -> {e} for get(e), {} for a page
          hotPart,   \* pod -> what the hot store answered
          plan,      \* pod -> candidate files not read yet, with their newest createdAt
          got,       \* pod -> rows read from the cold tier, <<entry, file>>
          result,    \* pod -> the entries of the answer
          degraded,  \* pod -> the cold tier failed this read
          before     \* history: pod -> entries stored and visible when the read began

readVars == <<rpc, asked, hotPart, plan, got, result, degraded, before>>
allVars == <<vars, cache, readVars>>

NewestIn(f) == Max({born[e] : e \in rows[f]})

\* candidates(): the files of a listing that still exist, with their footer's maximum.
PlanOf(L) == {<<f, NewestIn(f)>> : f \in {g \in L : rows[g] # {}}}
Planned(p) == {c[1] : c \in plan[p]}

ReadInit ==
  /\ Init
  /\ cache = [p \in Pod |-> {}]
  /\ rpc = [p \in Pod |-> "free"]
  /\ asked = [p \in Pod |-> {}]
  /\ hotPart = [p \in Pod |-> {}]
  /\ plan = [p \in Pod |-> {}]
  /\ got = [p \in Pod |-> {}]
  /\ result = [p \in Pod |-> {}]
  /\ degraded = [p \in Pod |-> FALSE]
  /\ before = [p \in Pod |-> {}]

ReadGoto(p, label) == rpc' = [rpc EXCEPT ![p] = label]

-----------------------------------------------------------------------------
(* What the prune cycle does to the pod's own cached listing.               *)

\* write() and forget() drop the listing; expire() and compact() take a fresh one.
Drops(p) ==
  \/ pc[p] \in {"flush", "lastFlush"} /\ pc'[p] # pc[p]
  \/ pc[p] = "compactRead" /\ pc'[p] # pc[p]
  \/ pc[p] = "compactDrop" /\ pc'[p] # pc[p]
Lists(p) == pc[p] \in {"expireList", "compactList"} /\ pc'[p] \in {"expire", "compact"}

\* Mutant: a move does not drop the cached listing.
RefreshAfterMoveForgotten(p) ==
  CASE Lists(p) -> cache' = [cache EXCEPT ![p] = {Live}]
    [] OTHER -> UNCHANGED cache

\* An expiry that found nothing to delete returns before the listing is dropped.
Refresh(p) ==
  CASE Lists(p) -> cache' = [cache EXCEPT ![p] = {Live}]
    [] Drops(p) -> cache' = [cache EXCEPT ![p] = {}]
    [] pc[p] = "expire" /\ pc'[p] # "expire" ->
         \E kept \in {{}, cache[p]} : cache' = [cache EXCEPT ![p] = kept]
    [] OTHER -> UNCHANGED cache

\* A uuid drawn for a new file is not one a reader or a listing still refers to.
NamesStayUnique ==
  \A p \in Pod : \A f \in Planned(p) \cup UNION cache[p] : rows[f] = {} => rows'[f] = {}

Cycle(p) == (StartCycle(p) \/ CycleStep(p)) /\ Refresh(p) /\ UNCHANGED readVars
CycleFails(p) ==
  (MoveFails(p) \/ HotPruneFails(p) \/ MaintenanceFails(p)) /\ Refresh(p) /\ UNCHANGED readVars

\* A crash ends the pod's read too.
PodCrash(p) ==
  /\ Crash(p)
  /\ cache' = [cache EXCEPT ![p] = {}]
  /\ ReadGoto(p, "free")
  /\ asked' = [asked EXCEPT ![p] = {}]
  /\ hotPart' = [hotPart EXCEPT ![p] = {}]
  /\ plan' = [plan EXCEPT ![p] = {}]
  /\ got' = [got EXCEPT ![p] = {}]
  /\ result' = [result EXCEPT ![p] = {}]
  /\ degraded' = [degraded EXCEPT ![p] = FALSE]
  /\ before' = [before EXCEPT ![p] = {}]

-----------------------------------------------------------------------------
(* A read.                                                                  *)

Ask(p, what) ==
  /\ rpc[p] = "free"
  /\ asked' = [asked EXCEPT ![p] = what]
  /\ before' = [before EXCEPT ![p] = Visible]
  /\ ReadGoto(p, "hot")
  /\ UNCHANGED <<vars, cache, hotPart, plan, got, result, degraded>>

Answer(p, R) == result' = [result EXCEPT ![p] = R] /\ ReadGoto(p, "answered")

\* get(): an entry of the hot store needs no cold read.
GetHot(p) ==
  /\ rpc[p] = "hot"
  /\ asked[p] # {}
  /\ IF asked[p] \subseteq hot
     THEN Answer(p, asked[p])
     ELSE ReadGoto(p, "cold") /\ UNCHANGED result
  /\ UNCHANGED <<vars, cache, asked, hotPart, plan, got, degraded, before>>

\* list(): the newest PageSize hot entries; a full page first peeks at the cold tier.
ListHot(p) ==
  /\ rpc[p] = "hot"
  /\ asked[p] = {}
  /\ \E H \in SUBSET hot :
       /\ NewestOf(H, hot, PageSize)
       /\ hotPart' = [hotPart EXCEPT ![p] = H]
       /\ ReadGoto(p, IF Cardinality(H) = PageSize THEN "peek" ELSE "cold")
  /\ UNCHANGED <<vars, cache, asked, plan, got, result, degraded, before>>

\* list_(): the cached listing, or a fresh one when it is missing or past its TTL.
Listing(p, L) == L \in cache[p] \cup {Live} /\ cache' = [cache EXCEPT ![p] = {L}]

\* newestCreatedAt(): the page is answered when every cold file is older than it.
Peek(p) ==
  /\ rpc[p] = "peek"
  /\ \E L \in SUBSET File :
       /\ Listing(p, L)
       /\ IF \A c \in PlanOf(L), e \in hotPart[p] : c[2] < born[e]
          THEN Answer(p, hotPart[p])
          ELSE ReadGoto(p, "cold") /\ UNCHANGED result
  /\ UNCHANGED <<vars, asked, hotPart, plan, got, degraded, before>>

Candidates(p) ==
  /\ rpc[p] = "cold"
  /\ \E L \in SUBSET File :
       /\ Listing(p, L)
       /\ plan' = [plan EXCEPT ![p] = PlanOf(L)]
  /\ ReadGoto(p, "files")
  /\ UNCHANGED <<vars, asked, hotPart, got, result, degraded, before>>

\* Mutant: rows are cut to the limit in the order the file holds them, oldest first.
NewestUnsorted(K, D, n) ==
  /\ K \subseteq D
  /\ Cardinality(K) = (IF Cardinality(D) < n THEN Cardinality(D) ELSE n)
  /\ \A k \in K, d \in D \ K : born[k[1]] <= born[d[1]]

\* The limit counts rows: an entry held by two files takes two places.
Newest(K, D, n) ==
  /\ K \subseteq D
  /\ Cardinality(K) = (IF Cardinality(D) < n THEN Cardinality(D) ELSE n)
  /\ \A k \in K, d \in D \ K : born[k[1]] >= born[d[1]]

Full(p) == asked[p] = {} /\ Cardinality(got[p]) >= PageSize

\* Nothing left to read can enter the answer.
Settled(p) ==
  \/ plan[p] = {}
  \/ asked[p] # {} /\ got[p] # {}
  \/ Full(p) /\ \A c \in plan[p], r \in got[p] : c[2] < born[r[1]]

\* The files are read newest first.
ReadFile(p) ==
  /\ rpc[p] = "files"
  /\ ~ Settled(p)
  /\ \E c \in plan[p] :
       LET wanted == IF asked[p] = {} THEN rows[c[1]] ELSE rows[c[1]] \cap asked[p]
           read == got[p] \cup (wanted \X {c[1]})
       IN  /\ \A d \in plan[p] : c[2] >= d[2]
           /\ plan' = [plan EXCEPT ![p] = @ \ {c}]
           /\ \E K \in SUBSET read :
                /\ Newest(K, read, IF asked[p] = {} THEN PageSize ELSE 1)
                /\ got' = [got EXCEPT ![p] = K]
  /\ UNCHANGED <<vars, cache, rpc, asked, hotPart, result, degraded, before>>

\* mergeNewestFirst(): both tiers' rows, duplicate ids dropped, cut to the page.
Finish(p) ==
  LET all == hotPart[p] \cup {r[1] : r \in got[p]}
  IN  /\ rpc[p] = "files"
      /\ Settled(p)
      /\ \E R \in SUBSET all : NewestOf(R, all, PageSize) /\ Answer(p, R)
      /\ UNCHANGED <<vars, cache, asked, hotPart, plan, got, degraded, before>>

\* Mutant: the page is empty when the cold tier fails.
ColdFailsEmpty(p) ==
  /\ rpc[p] \in {"peek", "cold", "files"}
  /\ Answer(p, {})
  /\ degraded' = [degraded EXCEPT ![p] = TRUE]
  /\ UNCHANGED <<vars, cache, asked, hotPart, plan, got, before>>

\* coldRead(): the listing fails and is not kept, or a footer or a file cannot be read; what
\* the cold tier gave so far is lost and the answer is the hot part: nothing for a lookup.
ColdFails(p) ==
  /\ \/ rpc[p] \in {"peek", "cold"} /\ (cache' = [cache EXCEPT ![p] = {}] \/ \E L \in SUBSET File : Listing(p, L))
     \/ rpc[p] = "files" /\ ~ Settled(p) /\ UNCHANGED cache
  /\ Answer(p, hotPart[p])
  /\ plan' = [plan EXCEPT ![p] = {}]
  /\ got' = [got EXCEPT ![p] = {}]
  /\ degraded' = [degraded EXCEPT ![p] = TRUE]
  /\ UNCHANGED <<vars, asked, hotPart, before>>

Return(p) ==
  /\ rpc[p] = "answered"
  /\ ReadGoto(p, "free")
  /\ asked' = [asked EXCEPT ![p] = {}]
  /\ hotPart' = [hotPart EXCEPT ![p] = {}]
  /\ plan' = [plan EXCEPT ![p] = {}]
  /\ got' = [got EXCEPT ![p] = {}]
  /\ result' = [result EXCEPT ![p] = {}]
  /\ degraded' = [degraded EXCEPT ![p] = FALSE]
  /\ before' = [before EXCEPT ![p] = {}]
  /\ UNCHANGED <<vars, cache>>

Read(p) ==
  \/ Ask(p, {}) \/ \E e \in stored : Ask(p, {e})
  \/ GetHot(p) \/ ListHot(p) \/ Peek(p) \/ Candidates(p) \/ ReadFile(p) \/ Finish(p)
  \/ ColdFails(p) \/ Return(p)

Arrivals ==
  /\ Tick \/ (\E p \in Pod, e \in Entry : Record(p, e)) \/ (\E p \in Pod : Insert(p))
  /\ UNCHANGED <<cache, readVars>>

ReadNext ==
  /\ Arrivals \/ \E p \in Pod : Cycle(p) \/ Read(p) \/ CycleFails(p) \/ PodCrash(p)
  /\ NamesStayUnique

ReadSpec == ReadInit /\ [][ReadNext]_allVars

-----------------------------------------------------------------------------
\* Every variable of a read keeps the shape the code gives it.
ReadTypeOK ==
  /\ cache \in [Pod -> SUBSET SUBSET File]
  /\ rpc \in [Pod -> {"free", "hot", "peek", "cold", "files", "answered"}]
  /\ asked \in [Pod -> SUBSET Entry]
  /\ \A p \in Pod : Cardinality(cache[p]) <= 1 /\ Cardinality(asked[p]) <= 1
  /\ hotPart \in [Pod -> SUBSET Entry]
  /\ plan \in [Pod -> SUBSET (File \X (0 .. MaxTime))]
  /\ got \in [Pod -> SUBSET (Entry \X File)]
  /\ result \in [Pod -> SUBSET Entry]
  /\ degraded \in [Pod -> BOOLEAN]
  /\ before \in [Pod -> SUBSET Entry]

\* What the cold tier could not be asked about: the read went on without it, and the entry
\* had left the hot store.
OutOfReach(p, e) == degraded[p] /\ e \notin hot

\* An entry that was there when the lookup began and is still within retention when it
\* answers is found, though a move took it from one tier to the other meanwhile:
\* the hot store is read first, and a move drops the cached listing (get, write).  When the
\* cold tier failed, an entry that is still hot is found all the same, and only an entry that
\* went cold is answered as if it did not exist (coldRead).  It is
\* stated of cycles that do not compact: a reader that listed before a compaction finds the
\* files gone, and the entry is not found.
LookupFindsLive ==
  \A p \in Pod : rpc[p] = "answered" /\ asked[p] # {} =>
    \A e \in asked[p] \cap before[p] : ~ Expired(e) /\ ~ OutOfReach(p, e) => e \in result[p]

\* The answer is the newest page of the entries of both tiers: whatever was there when
\* it was asked for, is still within retention and is not on the page is older than
\* everything on it, and the page is full.  A page without the cold tier is that of the entries
\* that stayed hot.
NewestPage(p) ==
  \A e \in before[p] \ result[p] :
    Expired(e) \/ OutOfReach(p, e) \/ (/\ Cardinality(result[p]) = PageSize
                                      /\ \A r \in result[p] : born[r] >= born[e])

ReadTwice(p) == \E r, s \in got[p] : r # s /\ r[1] = s[1]

\* A page read while entries move between the tiers, and after any failed or crashed
\* cycle, is the newest page of their union, unless the cold rows it was cut from hold
\* an entry twice; and "the dashboard never fails because of the cold tier": what is hot is on
\* its page when the cold tier fails (list, newestCreatedAt, coldRead, HyparquetEngine.list).
PageIsNewest ==
  \A p \in Pod : rpc[p] = "answered" /\ asked[p] = {} /\ ~ ReadTwice(p) => NewestPage(p)
=============================================================================
