------------------------ MODULE ExceptionAlertsProofs ------------------------
(***************************************************************************)
(* Proofs about ExceptionAlerts: alerts are spaced and breaches of the rate *)
(* are paged for every value of the constants, and no exception is skipped  *)
(* but those that a list cuts off or the store shows too late.              *)
(***************************************************************************)
EXTENDS ExceptionAlerts, SequenceLemmas

\* The entries of a poll, oldest first, are each of them once.
LEMMA OldestFirstParts ==
  ASSUME NEW S \in SUBSET Nat, IsFiniteSet(S)
  PROVE  /\ Cardinality(S) \in Nat
         /\ OldestFirst(S) \in [1 .. Cardinality(S) -> S]
         /\ \A i, j \in 1 .. Cardinality(S) : OldestFirst(S)[i] = OldestFirst(S)[j] => i = j
         /\ \A x \in S : \E i \in 1 .. Cardinality(S) : OldestFirst(S)[i] = x
  <1>. DEFINE Below(x) == {y \in S : y <= x}
              rank == [x \in S |-> Cardinality(Below(x))]
              Up(s) == \A i, j \in 1 .. Cardinality(S) : i < j => s[i] < s[j]
  <1>1. PICK n \in Nat : n = Cardinality(S)
    BY FS_CardinalityType
  <1>2. IsFiniteSet(1 .. n) /\ Cardinality(1 .. n) = n
    BY FS_Interval
  <1>3. ASSUME NEW x \in S
        PROVE  IsFiniteSet(Below(x)) /\ Cardinality(Below(x)) \in 1 .. n
    <2>1. IsFiniteSet(Below(x)) /\ Cardinality(Below(x)) <= n
      BY <1>1, FS_Subset
    <2>2. Cardinality(Below(x)) \in Nat
      BY <2>1, FS_CardinalityType
    <2>3. x \in Below(x)
      OBVIOUS
    <2>4. Cardinality(Below(x)) # 0
      BY <2>1, <2>3, FS_EmptySet
    <2>. QED
      BY <1>1, <2>1, <2>2, <2>4
  <1>4. rank \in [S -> 1 .. n]
    BY <1>3
  <1>5. ASSUME NEW x \in S, NEW y \in S, x < y
        PROVE  rank[x] < rank[y]
    <2>. x \in Nat /\ y \in Nat /\ \A z \in S : z \in Nat
      OBVIOUS
    <2>4. \A z \in S : (z <= x => z <= y) /\ y <= y /\ ~ (y <= x)
      BY <1>5
    <2>1. Below(x) \in SUBSET Below(y) /\ y \in Below(y) /\ y \notin Below(x)
      BY <2>4
    <2>2. Cardinality(Below(x)) <= Cardinality(Below(y)) /\ Cardinality(Below(x)) # Cardinality(Below(y))
      BY <1>3, <2>1, FS_Subset
    <2>3. rank[x] = Cardinality(Below(x)) /\ rank[y] = Cardinality(Below(y))
      OBVIOUS
    <2>. HIDE DEF rank, Below
    <2>. QED
      BY <1>4, <2>2, <2>3
  <1>. HIDE DEF rank
  <1>6. rank \in Surjection(S, 1 .. n)
    <2>1. ASSUME NEW x \in S, NEW y \in S, rank[x] = rank[y]
          PROVE  x = y
      <3>1. ~ (rank[x] < rank[y]) /\ ~ (rank[y] < rank[x])
        BY <1>4, <2>1
      <3>2. ~ (x < y) /\ ~ (y < x)
        BY <1>5, <3>1
      <3>. QED
        BY <3>2
    <2>2. rank \in Injection(S, 1 .. n)
      BY <1>4, <2>1 DEF Injection, IsInjective
    <2>. QED
      BY <1>1, <1>2, <2>2, FS_Injection
  <1>7. PICK s \in [1 .. n -> S] : \A i \in 1 .. n : rank[s[i]] = i
    <2>1. \A i \in 1 .. n : \E x \in S : rank[x] = i
      BY <1>6 DEF Surjection
    <2>2. [i \in 1 .. n |-> CHOOSE x \in S : rank[x] = i] \in [1 .. n -> S]
      BY <2>1
    <2>. QED
      BY <2>1, <2>2
  <1>8. Up(s)
    <2>1. ASSUME NEW i \in 1 .. n, NEW j \in 1 .. n, i < j
          PROVE  s[i] < s[j]
      <3>1. PICK a \in S, b \in S : a = s[i] /\ b = s[j]
        BY <1>7
      <3>2. rank[a] = i /\ rank[b] = j
        BY <1>7, <3>1
      <3>3. b < a => j < i
        BY <1>5, <3>2
      <3>4. a \in Nat /\ b \in Nat /\ a # b
        BY <2>1, <3>2
      <3>5. a < b
        BY <2>1, <3>3, <3>4
      <3>. QED
        BY <3>1, <3>5
    <2>. QED
      BY <1>1, <2>1
  <1>9. PICK o : o = OldestFirst(S)
    OBVIOUS
  <1>10. o \in [1 .. n -> S] /\ Up(o)
    BY <1>1, <1>7, <1>8, <1>9 DEF OldestFirst
  <1>11. ASSUME NEW i \in 1 .. n, NEW j \in 1 .. n, o[i] = o[j]
         PROVE  i = j
    <2>. o[i] \in Nat /\ o[j] \in Nat
      BY <1>10
    <2>1. ~ (o[i] < o[j]) /\ ~ (o[j] < o[i])
      BY <1>11
    <2>2. ~ (i < j) /\ ~ (j < i)
      BY <1>1, <1>10, <2>1
    <2>. QED
      BY <2>2
  <1>12. o \in Surjection(1 .. n, S)
    <2>1. o \in Injection(1 .. n, S)
      BY <1>10, <1>11 DEF Injection, IsInjective
    <2>. QED
      BY <1>1, <1>2, <2>1, FS_Injection
  <1>13. \A x \in S : \E i \in 1 .. n : o[i] = x
    BY <1>12 DEF Surjection
  <1>. QED
    BY <1>1, <1>9, <1>10, <1>11, <1>13

-----------------------------------------------------------------------------
(* The shapes                                                              *)

ExcRecord == [at : Nat, kind : Kind, family : Family]
PollState == [step : {"idle", "listing", "new", "every", "rate", "done"}, kinds : SUBSET Kind,
              got : SUBSET Nat, stamp : Nat, left : Seq(Nat)]

\* A poll knows entries that were recorded and a time that was.
Fits(w, n, time) ==
  /\ w.got \subseteq 1 .. n /\ w.stamp <= time
  /\ \A i \in 1 .. Len(w.left) : w.left[i] \in 1 .. n

AlertsShape ==
  /\ now \in Nat /\ since \in Nat /\ since <= now
  /\ log \in Seq(ExcRecord) /\ \A e \in 1 .. Len(log) : log[e].at <= now
  /\ poll \in [Poll -> PollState] /\ \A k \in Poll : Fits(poll[k], Len(log), now)
  /\ recent \in Seq(Nat) /\ handed \subseteq 1 .. Len(log) /\ stored \subseteq 1 .. Len(log)
  /\ fired \in [Clock -> SUBSET Nat] /\ pages \in Seq(Clock \X Nat)

LEMMA RestFits == Rest \in PollState /\ \A n, time \in Nat : Fits(Rest, n, time)
  <1>1. <<>> \in Seq(Nat) /\ Len(<<>>) = 0
    OBVIOUS
  <1>. QED
    BY <1>1 DEF Rest, PollState, Fits

\* What a poll found is a finite set, and the newest of it is one of them.
LEMMA GotParts ==
  ASSUME AlertsShape, NEW k \in Poll
  PROVE  /\ poll[k].got \in SUBSET Nat /\ IsFiniteSet(poll[k].got)
         /\ OldestFirst(poll[k].got) \in Seq(Nat)
         /\ Len(OldestFirst(poll[k].got)) = Cardinality(poll[k].got)
         /\ \A i \in 1 .. Len(OldestFirst(poll[k].got)) : OldestFirst(poll[k].got)[i] \in poll[k].got
         /\ poll[k].got # {} =>
              Max(poll[k].got) \in poll[k].got /\ \A e \in poll[k].got : e <= Max(poll[k].got)
  <1>1. PICK got : got = poll[k].got
    OBVIOUS
  <1>0. PICK m \in Nat : m = Len(log)
    BY LenProperties DEF AlertsShape
  <1>2. got \in SUBSET (1 .. m) /\ got \in SUBSET Nat /\ got \in SUBSET Int
    BY <1>0, <1>1 DEF AlertsShape, PollState, Fits
  <1>3. IsFiniteSet(got)
    <2>1. IsFiniteSet(1 .. m)
      BY FS_Interval
    <2>. QED
      BY <1>2, <2>1, FS_Subset
  <1>4. PICK n \in Nat : n = Cardinality(got)
    BY <1>3, FS_CardinalityType
  <1>5. PICK o : o = OldestFirst(got)
    OBVIOUS
  <1>6. o \in [1 .. n -> got]
    BY <1>2, <1>3, <1>4, <1>5, OldestFirstParts
  <1>7. o \in Seq(Nat) /\ Len(o) = n
    <2>1. o \in [1 .. n -> Nat]
      BY <1>2, <1>6
    <2>. QED
      BY <2>1
  <1>8. got # {} => Max(got) \in got /\ \A e \in got : e <= Max(got)
    <2>1. \A e \in got : e <= m
      BY <1>2
    <2>2. m \in Int
      OBVIOUS
    <2>. QED
      BY <1>2, <2>1, <2>2, BoundedHasMax
  <1>. QED
    BY <1>1, <1>2, <1>3, <1>4, <1>5, <1>6, <1>7, <1>8

\* A poll goes on, and whatever else a step records stays of its shape.
LEMMA PollMoves ==
  ASSUME AlertsShape, NEW k \in Poll, NEW w \in PollState, Fits(w, Len(log), now),
         poll' = [poll EXCEPT ![k] = w], UNCHANGED storeVars, since' \in Nat, since' <= now,
         recent' \in Seq(Nat), handed' \subseteq 1 .. Len(log), fired' \in [Clock -> SUBSET Nat],
         pages' \in Seq(Clock \X Nat)
  PROVE  AlertsShape'
  <1>1. poll' \in [Poll -> PollState] /\ \A j \in Poll : Fits(poll'[j], Len(log), now)
    BY DEF AlertsShape
  <1>. QED
    BY <1>1 DEF AlertsShape, storeVars

\* A poll with entries left goes on to the next, whose family has its clocks.
LEMMA EntryParts ==
  ASSUME AlertsShape, NEW k \in Poll, poll[k].left # <<>>
  PROVE  /\ [poll[k] EXCEPT !.left = Tail(@)] \in PollState
         /\ Fits([poll[k] EXCEPT !.left = Tail(@)], Len(log), now)
         /\ <<"new-exception", log[Head(poll[k].left)].family>> \in Clock
         /\ <<"every-exception", log[Head(poll[k].left)].family>> \in Clock
  <1>1. PICK v : v = poll[k]
    OBVIOUS
  <1>2. v \in PollState /\ Fits(v, Len(log), now) /\ v.left # <<>>
    BY <1>1 DEF AlertsShape
  <1>3. PICK s : s = v.left
    OBVIOUS
  <1>4. s \in Seq(Nat) /\ s # <<>> /\ \A i \in 1 .. Len(s) : s[i] \in 1 .. Len(log)
    BY <1>2, <1>3 DEF PollState, Fits
  <1>5. /\ Head(s) = s[1] /\ Tail(s) \in Seq(Nat) /\ Len(s) >= 1 /\ Len(Tail(s)) = Len(s) - 1
        /\ \A i \in 1 .. Len(s) - 1 : Tail(s)[i] = s[i + 1]
    BY <1>4, HeadParts
  <1>6. PICK n \in Nat : n = Len(s)
    BY <1>4, LenProperties
  <1>7. \A i \in 1 .. n - 1 : i + 1 \in 1 .. n
    OBVIOUS
  <1>8. \A i \in 1 .. Len(Tail(s)) : Tail(s)[i] \in 1 .. Len(log)
    BY <1>4, <1>5, <1>6, <1>7
  <1>9. log[Head(s)].family \in Family
    <2>1. Head(s) \in 1 .. Len(log)
      BY <1>4, <1>5, <1>6
    <2>2. log[Head(s)] \in ExcRecord
      BY <2>1 DEF AlertsShape
    <2>. QED
      BY <2>2 DEF ExcRecord
  <1>10. [v EXCEPT !.left = Tail(@)] \in PollState /\ Fits([v EXCEPT !.left = Tail(@)], Len(log), now)
    BY <1>2, <1>3, <1>5, <1>8 DEF PollState, Fits
  <1>. QED
    BY <1>1, <1>3, <1>9, <1>10 DEF Clock

-----------------------------------------------------------------------------
(* Alerts are spaced                                                       *)

\* The clock of a rule and family is at least as late as any alert of theirs.
Noted(fr, pg) == \A i \in 1 .. Len(pg) : \E t \in fr[pg[i][1]] : pg[i][2] <= t
Spaced(pg) ==
  \A i, j \in 1 .. Len(pg) : i < j /\ pg[i][1] = pg[j][1] => pg[j][2] - pg[i][2] >= Cooldown

\* An alert that its clock allows is a cooldown after every earlier one.
LEMMA AlertSpaces ==
  ASSUME AlertsShape, Noted(fired, pages), Spaced(pages), NEW c \in Clock, NEW k \in Poll,
         Alert(c, k), ~ InCooldown(c, poll[k].stamp)
  PROVE  /\ fired' \in [Clock -> SUBSET Nat] /\ pages' \in Seq(Clock \X Nat)
         /\ Noted(fired', pages') /\ Spaced(pages') /\ poll[k].stamp \in fired'[c]
  <1>1. PICK stamp \in Nat : stamp = poll[k].stamp
    BY DEF AlertsShape, PollState
  <1>2. fired' = [fired EXCEPT ![c] = {stamp}] /\ pages' = Append(pages, <<c, stamp>>)
    BY <1>1 DEF Alert
  <1>3. fired' \in [Clock -> SUBSET Nat] /\ fired'[c] = {stamp} /\ \A d \in Clock : d # c => fired'[d] = fired[d]
    BY <1>2 DEF AlertsShape
  <1>4. \A t \in fired[c] : t \in Nat /\ stamp - t >= Cooldown
    <2>1. fired[c] \subseteq Nat
      BY DEF AlertsShape
    <2>2. \A t \in fired[c] : ~ (stamp - t < Cooldown)
      BY <1>1 DEF InCooldown
    <2>3. Cooldown \in Nat
      BY AlertsAssumption
    <2>. QED
      BY <2>1, <2>2, <2>3
  <1>5. <<c, stamp>> \in Clock \X Nat /\ pages \in Seq(Clock \X Nat)
    BY DEF AlertsShape
  <1>6. PICK n \in Nat : n = Len(pages)
    BY <1>5, LenProperties
  <1>7. /\ pages' \in Seq(Clock \X Nat) /\ Len(pages') = n + 1 /\ pages'[n + 1] = <<c, stamp>>
        /\ \A i \in 1 .. n : pages'[i] = pages[i]
    BY <1>2, <1>5, <1>6, AppendProperties
  <1>8. \A i \in 1 .. n : pages[i] \in Clock \X Nat
    BY <1>5, <1>6
  <1>9. ASSUME NEW i \in 1 .. n, pages[i][1] = c
        PROVE  stamp - pages[i][2] >= Cooldown /\ pages[i][2] <= stamp
    <2>1. PICK t \in fired[c] : pages[i][2] <= t
      BY <1>6, <1>9 DEF Noted
    <2>2. pages[i][2] \in Nat /\ t \in Nat /\ stamp - t >= Cooldown /\ Cooldown \in Nat
      BY <1>4, <1>8, AlertsAssumption
    <2>. QED
      BY <2>1, <2>2
  <1>10. Noted(fired', pages')
    <2>1. ASSUME NEW i \in 1 .. n + 1
          PROVE  \E t \in fired'[pages'[i][1]] : pages'[i][2] <= t
      <3>1. CASE i = n + 1
        BY <1>3, <1>7, <3>1
      <3>2. CASE i # n + 1
        <4>1. i \in 1 .. n /\ pages'[i] = pages[i] /\ pages[i] \in Clock \X Nat
          BY <1>7, <1>8, <3>2
        <4>2. CASE pages[i][1] = c
          BY <1>3, <1>9, <4>1, <4>2
        <4>3. CASE pages[i][1] # c
          BY <1>3, <1>6, <4>1, <4>3 DEF Noted
        <4>. QED
          BY <4>2, <4>3
      <3>. QED
        BY <3>1, <3>2
    <2>. QED
      BY <1>7, <2>1 DEF Noted
  <1>11. Spaced(pages')
    <2>1. ASSUME NEW i \in 1 .. n + 1, NEW j \in 1 .. n + 1, i < j, pages'[i][1] = pages'[j][1]
          PROVE  pages'[j][2] - pages'[i][2] >= Cooldown
      <3>1. i \in 1 .. n /\ pages'[i] = pages[i]
        BY <1>7, <2>1
      <3>2. CASE j = n + 1
        BY <1>7, <1>9, <2>1, <3>1, <3>2
      <3>3. CASE j # n + 1
        <4>1. j \in 1 .. n /\ pages'[j] = pages[j]
          BY <1>7, <3>3
        <4>. QED
          BY <1>6, <2>1, <3>1, <4>1 DEF Spaced
      <3>. QED
        BY <3>2, <3>3
    <2>. QED
      BY <1>7, <2>1 DEF Spaced
  <1>. QED
    BY <1>1, <1>3, <1>7, <1>10, <1>11

-----------------------------------------------------------------------------
(* What the rate rule counts                                               *)

\* The exceptions of h inside the window at a time, and that rc, the timestamps the rate rule has
\* left, has one of its own for each of them.
InsideOf(h, lg, time) == {e \in h : lg[e].at >= time - RateWindow}
Counted(h, lg, rc, time) ==
  \E g \in Injection(InsideOf(h, lg, time), 1 .. Len(rc)) :
    \A e \in InsideOf(h, lg, time) : rc[g[e]] = lg[e].at

\* Time goes on and the store grows.
LEMMA CountedStays ==
  ASSUME NEW h, NEW lg, NEW lg2, NEW rc, NEW t1 \in Nat, NEW t2 \in Nat, t1 <= t2,
         \A e \in h : lg[e].at \in Nat /\ lg2[e] = lg[e], Counted(h, lg, rc, t1)
  PROVE  Counted(h, lg2, rc, t2)
  <1>. DEFINE I == InsideOf(h, lg, t1)
              J == InsideOf(h, lg2, t2)
  <1>1. ASSUME NEW e \in J PROVE e \in I /\ lg2[e] = lg[e]
    <2>1. e \in h /\ lg2[e].at >= t2 - RateWindow
      BY DEF InsideOf
    <2>2. PICK at \in Nat : at = lg[e].at /\ at = lg2[e].at
      BY <2>1
    <2>3. at >= t1 - RateWindow
      BY <2>1, <2>2, AlertsAssumption
    <2>. QED
      BY <2>1, <2>2, <2>3 DEF InsideOf
  <1>2. PICK g \in Injection(I, 1 .. Len(rc)) : \A e \in I : rc[g[e]] = lg[e].at
    BY DEF Counted
  <1>. HIDE DEF I, J
  <1>3. PICK f : f = [e \in J |-> g[e]]
    OBVIOUS
  <1>4. f \in Injection(J, 1 .. Len(rc))
    BY <1>1, <1>2, <1>3 DEF Injection, IsInjective
  <1>5. \A e \in J : rc[f[e]] = lg2[e].at
    BY <1>1, <1>2, <1>3
  <1>. QED
    BY <1>4, <1>5 DEF Counted, J

\* The timestamps that are dropped left the window.
LEMMA InWindowCounts ==
  ASSUME AlertsShape, Counted(handed, log, recent, now), NEW t \in Nat, t <= now
  PROVE  InWindow(t) \in Seq(Nat) /\ Counted(handed, log, InWindow(t), now)
  <1>. DEFINE I == InsideOf(handed, log, now)
              kept == {i \in 1 .. Len(recent) : recent[i] >= t - RateWindow}
  <1>1. PICK n \in Nat : n = Len(recent)
    BY LenProperties DEF AlertsShape
  <1>2. recent \in Seq(Nat)
    BY DEF AlertsShape
  <1>3. PICK g \in Injection(I, 1 .. n) : \A e \in I : recent[g[e]] = log[e].at
    BY <1>1 DEF Counted
  <1>4. ASSUME NEW e \in I PROVE g[e] \in kept
    <2>1. g[e] \in 1 .. n /\ recent[g[e]] = log[e].at /\ log[e].at >= now - RateWindow
      BY <1>3 DEF Injection, InsideOf
    <2>2. PICK at \in Nat : at = recent[g[e]]
      BY <1>1, <1>2, <2>1
    <2>3. at >= t - RateWindow
      BY <2>1, <2>2, AlertsAssumption DEF AlertsShape
    <2>. QED
      BY <1>1, <2>1, <2>2, <2>3
  <1>5. g \in [I -> 1 .. n] /\ \A d, e \in I : g[d] = g[e] => d = e
    BY <1>3 DEF Injection, IsInjective
  <1>6. CASE kept = {}
    <2>1. InWindow(t) = <<>> /\ I = {}
      BY <1>4, <1>6 DEF InWindow
    <2>2. PICK f : f = [e \in {} |-> 1]
      OBVIOUS
    <2>3. f \in Injection({}, 1 .. Len(<<>>))
      BY <2>2 DEF Injection, IsInjective
    <2>. QED
      BY <2>1, <2>3 DEF Counted
  <1>7. CASE kept # {}
    <2>1. kept \in SUBSET Nat
      BY <1>1
    <2>2. PICK m : m = Min(kept)
      OBVIOUS
    <2>3. m \in kept /\ \A i \in kept : m <= i
      BY <1>7, <2>1, <2>2, NaturalsHaveMin
    <2>4. m \in 1 .. n
      BY <1>1, <2>3
    <2>5. PICK d \in Nat : d = m - 1 /\ d + 1 = m /\ d <= n
      BY <2>4
    <2>6. PICK s : s = SubSeq(recent, d + 1, Len(recent))
      OBVIOUS
    <2>7. s \in Seq(Nat) /\ Len(s) = n - d /\ \A i \in 1 .. n - d : s[i] = recent[d + i]
      <3>1. d <= Len(recent)
        BY <1>1, <2>5
      <3>2. /\ SubSeq(recent, d + 1, Len(recent)) \in Seq(Nat)
            /\ Len(SubSeq(recent, d + 1, Len(recent))) = Len(recent) - d
            /\ \A i \in 1 .. Len(recent) - d : SubSeq(recent, d + 1, Len(recent))[i] = recent[d + i]
        BY <1>2, <3>1, CutParts
      <3>. QED
        BY <1>1, <2>6, <3>2
    <2>8. InWindow(t) = s
      BY <1>7, <2>2, <2>5, <2>6 DEF InWindow
    <2>9. PICK f : f = [e \in I |-> g[e] - d]
      OBVIOUS
    <2>10. ASSUME NEW e \in I
           PROVE  f[e] \in 1 .. n - d /\ s[f[e]] = recent[g[e]]
      <3>1. PICK j \in 1 .. n : j = g[e]
        BY <1>5
      <3>2. m <= j
        BY <1>4, <2>3, <3>1
      <3>3. j - d \in 1 .. n - d /\ d + (j - d) = j
        BY <2>5, <3>2
      <3>4. f[e] = j - d
        BY <2>9, <3>1
      <3>. QED
        BY <2>7, <3>1, <3>3, <3>4
    <2>11. \A a, e \in I : f[a] = f[e] => a = e
      <3>1. ASSUME NEW a \in I, NEW e \in I, f[a] = f[e] PROVE a = e
        <4>1. g[a] \in Int /\ g[e] \in Int /\ g[a] - d = g[e] - d
          BY <1>5, <2>9, <3>1
        <4>2. g[a] = g[e]
          BY <4>1
        <4>. QED
          BY <1>5, <4>2
      <3>. QED
        BY <3>1
    <2>12. f \in Injection(I, 1 .. Len(s))
      BY <2>7, <2>9, <2>10, <2>11 DEF Injection, IsInjective
    <2>13. \A e \in I : s[f[e]] = log[e].at
      BY <1>3, <2>10
    <2>. HIDE DEF kept
    <2>. QED
      BY <2>7, <2>8, <2>12, <2>13 DEF Counted
  <1>. QED
    BY <1>6, <1>7

\* So the rate rule counts at least the exceptions that are inside the window.
LEMMA CountsEnough ==
  ASSUME AlertsShape, NEW rc \in Seq(Nat), Counted(handed, log, rc, now)
  PROVE  /\ IsFiniteSet(InsideOf(handed, log, now))
         /\ Cardinality(InsideOf(handed, log, now)) <= Len(rc)
  <1>1. PICK n \in Nat : n = Len(rc)
    BY LenProperties
  <1>2. IsFiniteSet(1 .. n) /\ Cardinality(1 .. n) = n
    BY FS_Interval
  <1>3. PICK g \in Injection(InsideOf(handed, log, now), 1 .. n) : TRUE
    BY <1>1 DEF Counted
  <1>. QED
    BY <1>1, <1>2, <1>3, FS_Injection

\* What a poll hands over is counted.
LEMMA HandedIsCounted ==
  ASSUME AlertsShape, Counted(handed, log, recent, now), NEW k \in Poll, Evaluate(k)
  PROVE  recent' \in Seq(Nat) /\ Counted(handed', log, recent', now)
  <1>. DEFINE I == InsideOf(handed, log, now)
              J == InsideOf(handed', log, now)
  <1>1. PICK got : got = poll[k].got
    OBVIOUS
  <1>2. PICK o : o = OldestFirst(got)
    OBVIOUS
  <1>3. got \in SUBSET Nat /\ IsFiniteSet(got) /\ got \subseteq 1 .. Len(log)
    BY <1>1, GotParts DEF AlertsShape, Fits
  <1>4. PICK c \in Nat : c = Cardinality(got)
    BY <1>3, FS_CardinalityType
  <1>5. o \in [1 .. c -> got] /\ \A x \in got : \E i \in 1 .. c : o[i] = x
    BY <1>2, <1>3, <1>4, OldestFirstParts
  <1>6. PICK n \in Nat : n = Len(recent)
    BY LenProperties DEF AlertsShape
  <1>7. PICK more : more = [i \in 1 .. c |-> log[o[i]].at]
    OBVIOUS
  <1>8. more \in Seq(Nat) /\ Len(more) = c
    <2>1. ASSUME NEW i \in 1 .. c PROVE log[o[i]].at \in Nat
      <3>1. o[i] \in 1 .. Len(log)
        BY <1>3, <1>5
      <3>2. log[o[i]] \in ExcRecord
        BY <3>1 DEF AlertsShape
      <3>. QED
        BY <3>2 DEF ExcRecord
    <2>2. more \in [1 .. c -> Nat]
      BY <1>7, <2>1
    <2>. QED
      BY <2>2
  <1>9. recent' = recent \o more /\ handed' = handed \cup got
    BY <1>1, <1>2, <1>4, <1>7 DEF Evaluate
  <1>10. /\ recent' \in Seq(Nat) /\ Len(recent') = n + c
         /\ \A i \in 1 .. n : recent'[i] = recent[i]
         /\ \A i \in 1 .. c : recent'[n + i] = more[i]
    <2>1. recent \in Seq(Nat)
      BY DEF AlertsShape
    <2>2. /\ recent \o more \in Seq(Nat) /\ Len(recent \o more) = n + c
          /\ \A i \in 1 .. n + c :
               (recent \o more)[i] = IF i <= n THEN recent[i] ELSE more[i - n]
      BY <1>6, <1>8, <2>1, ConcatProperties
    <2>3. \A i \in 1 .. c : n + i \in 1 .. n + c /\ ~ (n + i <= n) /\ n + i - n = i
      OBVIOUS
    <2>4. \A i \in 1 .. n : i \in 1 .. n + c /\ i <= n
      OBVIOUS
    <2>. QED
      BY <1>9, <2>2, <2>3, <2>4, SMTT(30)
  <1>11. PICK g \in Injection(I, 1 .. n) : \A e \in I : recent[g[e]] = log[e].at
    BY <1>6 DEF Counted
  <1>12. g \in [I -> 1 .. n] /\ \A d, e \in I : g[d] = g[e] => d = e
    BY <1>11 DEF Injection, IsInjective
  <1>13. PICK f : f = [e \in J |-> IF e \in I THEN g[e] ELSE n + (CHOOSE i \in 1 .. c : o[i] = e)]
    OBVIOUS
  <1>14. ASSUME NEW e \in J, e \notin I
         PROVE  \E i \in 1 .. c : o[i] = e /\ f[e] = n + i
    <2>1. e \in got
      BY <1>9, <1>14 DEF InsideOf
    <2>2. PICK i \in 1 .. c : i = CHOOSE j \in 1 .. c : o[j] = e
      BY <1>5, <2>1
    <2>3. o[i] = e
      BY <1>5, <2>1, <2>2
    <2>4. f[e] = n + i
      BY <1>13, <1>14, <2>2
    <2>. QED
      BY <2>3, <2>4
  <1>15. \A e \in I : e \in J => f[e] = g[e]
    BY <1>13
  <1>. HIDE DEF I, J
  <1>16. ASSUME NEW e \in J
         PROVE  f[e] \in 1 .. n + c /\ recent'[f[e]] = log[e].at
    <2>1. CASE e \in I
      <3>1. PICK j \in 1 .. n : j = f[e] /\ recent[j] = log[e].at
        BY <1>11, <1>12, <1>15, <2>1
      <3>. QED
        BY <1>10, <3>1
    <2>2. CASE e \notin I
      <3>1. PICK i \in 1 .. c : o[i] = e /\ f[e] = n + i
        BY <1>14, <2>2
      <3>2. n + i \in 1 .. n + c
        OBVIOUS
      <3>. QED
        BY <1>7, <1>10, <3>1, <3>2
    <2>. QED
      BY <2>1, <2>2
  <1>17. ASSUME NEW a \in J, NEW e \in J, f[a] = f[e]
         PROVE  a = e
    <2>1. CASE a \in I /\ e \in I
      BY <1>12, <1>15, <1>17, <2>1
    <2>2. CASE a \in I /\ e \notin I
      <3>1. PICK j \in 1 .. n : j = f[a]
        BY <1>12, <1>15, <2>2
      <3>2. PICK i \in 1 .. c : f[e] = n + i
        BY <1>14, <2>2
      <3>. QED
        BY <1>17, <3>1, <3>2
    <2>3. CASE a \notin I /\ e \in I
      <3>1. PICK j \in 1 .. n : j = f[e]
        BY <1>12, <1>15, <2>3
      <3>2. PICK i \in 1 .. c : f[a] = n + i
        BY <1>14, <2>3
      <3>. QED
        BY <1>17, <3>1, <3>2
    <2>4. CASE a \notin I /\ e \notin I
      <3>1. PICK i \in 1 .. c : o[i] = a /\ f[a] = n + i
        BY <1>14, <2>4
      <3>2. PICK j \in 1 .. c : o[j] = e /\ f[e] = n + j
        BY <1>14, <2>4
      <3>3. n + i = n + j
        BY <1>17, <3>1, <3>2
      <3>4. i = j
        BY <3>3
      <3>. QED
        BY <3>1, <3>2, <3>4
    <2>. QED
      BY <2>1, <2>2, <2>3, <2>4
  <1>18. f \in Injection(J, 1 .. n + c)
    BY <1>13, <1>16, <1>17 DEF Injection, IsInjective
  <1>. QED
    BY <1>10, <1>16, <1>18 DEF Counted, J

-----------------------------------------------------------------------------
(* The invariant of the alerts                                             *)

AlertsInv ==
  AlertsShape /\ Noted(fired, pages) /\ Spaced(pages) /\ Counted(handed, log, recent, now)

LEMMA AlertsBegin == Init => AlertsInv
  <1>. SUFFICES ASSUME Init PROVE AlertsInv
    OBVIOUS
  <1>1. \A S : <<>> \in Seq(S) /\ Len(<<>>) = 0
    OBVIOUS
  <1>2. AlertsShape
    <2>1. poll \in [Poll -> PollState] /\ \A k \in Poll : Fits(poll[k], 0, 0)
      BY RestFits DEF Init
    <2>2. fired \in [Clock -> SUBSET Nat]
      BY DEF Init
    <2>3. log \in Seq(ExcRecord) /\ Len(log) = 0 /\ recent \in Seq(Nat) /\ pages \in Seq(Clock \X Nat)
      BY <1>1 DEF Init
    <2>. QED
      BY <2>1, <2>2, <2>3 DEF Init, AlertsShape
  <1>3. Noted(fired, pages) /\ Spaced(pages)
    BY <1>1 DEF Init, Noted, Spaced
  <1>4. Counted(handed, log, recent, now)
    <2>1. InsideOf(handed, log, now) = {}
      BY DEF Init, InsideOf
    <2>2. PICK f : f = [e \in {} |-> 1]
      OBVIOUS
    <2>3. f \in Injection({}, 1 .. Len(recent))
      BY <2>2 DEF Injection, IsInjective
    <2>. QED
      BY <2>1, <2>3 DEF Counted
  <1>. QED
    BY <1>2, <1>3, <1>4 DEF AlertsInv

\* Time goes on.
LEMMA TickKeeps == ASSUME AlertsInv, Tick PROVE AlertsInv'
  <1>1. now \in Nat /\ now' = now + 1 /\ now' \in Nat /\ now <= now'
    BY DEF AlertsInv, AlertsShape, Tick
  <1>2. UNCHANGED <<log, stored, since, poll, recent, fired, handed, pages>>
    BY DEF Tick, alertVars
  <1>3. \A k \in Poll : Fits(poll[k], Len(log), now')
    <2>1. ASSUME NEW k \in Poll PROVE Fits(poll[k], Len(log), now')
      <3>1. Fits(poll[k], Len(log), now) /\ poll[k].stamp \in Nat
        BY DEF AlertsInv, AlertsShape, PollState
      <3>2. poll[k].stamp <= now'
        BY <1>1, <3>1 DEF Fits
      <3>. QED
        BY <3>1, <3>2 DEF Fits
    <2>. QED
      BY <2>1
  <1>4. \A e \in 1 .. Len(log) : log[e].at \in Nat /\ log[e].at <= now'
    <2>1. ASSUME NEW e \in 1 .. Len(log) PROVE log[e].at \in Nat /\ log[e].at <= now'
      <3>1. log[e] \in ExcRecord /\ log[e].at <= now
        BY DEF AlertsInv, AlertsShape
      <3>2. log[e].at \in Nat
        BY <3>1 DEF ExcRecord
      <3>. QED
        BY <1>1, <3>1, <3>2
    <2>. QED
      BY <2>1
  <1>5. since \in Nat /\ since <= now'
    BY <1>1 DEF AlertsInv, AlertsShape
  <1>6. AlertsShape'
    BY <1>1, <1>2, <1>3, <1>4, <1>5 DEF AlertsInv, AlertsShape
  <1>7. \A e \in handed : log[e].at \in Nat
    BY <1>4 DEF AlertsInv, AlertsShape
  <1>8. Counted(handed, log, recent, now')
    BY <1>1, <1>7, CountedStays DEF AlertsInv
  <1>. QED
    BY <1>2, <1>6, <1>8 DEF AlertsInv, Noted, Spaced

\* An exception is recorded.
LEMMA RecordKeeps == ASSUME AlertsInv, Record PROVE AlertsInv'
  <1>1. UNCHANGED <<now, stored, since, poll, recent, fired, handed, pages>>
    BY DEF Record, alertVars
  <1>2. PICK r \in ExcRecord : log' = Append(log, r) /\ r.at = now
    <2>1. PICK kind \in Kind, f \in Family : log' = Append(log, [at |-> now, kind |-> kind, family |-> f])
      BY DEF Record
    <2>2. [at |-> now, kind |-> kind, family |-> f] \in ExcRecord
      BY DEF AlertsInv, AlertsShape, ExcRecord
    <2>. QED
      BY <2>1, <2>2
  <1>3. PICK n \in Nat : n = Len(log)
    BY LenProperties DEF AlertsInv, AlertsShape
  <1>4. log \in Seq(ExcRecord)
    BY DEF AlertsInv, AlertsShape
  <1>5. /\ log' \in Seq(ExcRecord) /\ Len(log') = n + 1 /\ log'[n + 1] = r
        /\ \A e \in 1 .. n : log'[e] = log[e]
    BY <1>2, <1>3, <1>4, AppendProperties
  <1>6. 1 .. n \subseteq 1 .. n + 1
    OBVIOUS
  <1>7. \A k \in Poll : Fits(poll[k], n + 1, now)
    BY <1>3, <1>6 DEF AlertsInv, AlertsShape, Fits
  <1>8. \A e \in 1 .. n + 1 : log'[e].at <= now
    <2>1. ASSUME NEW e \in 1 .. n + 1 PROVE log'[e].at <= now
      <3>1. CASE e = n + 1
        BY <1>2, <1>5, <3>1 DEF AlertsInv, AlertsShape
      <3>2. CASE e # n + 1
        <4>1. e \in 1 .. n
          BY <3>2
        <4>. QED
          BY <1>3, <1>5, <4>1 DEF AlertsInv, AlertsShape
      <3>. QED
        BY <3>1, <3>2
    <2>. QED
      BY <2>1
  <1>9. handed \subseteq 1 .. n /\ handed \subseteq 1 .. n + 1 /\ stored \subseteq 1 .. n + 1
    BY <1>3, <1>6 DEF AlertsInv, AlertsShape
  <1>10. AlertsShape'
    BY <1>1, <1>5, <1>7, <1>8, <1>9 DEF AlertsInv, AlertsShape
  <1>11. \A e \in handed : log[e].at \in Nat /\ log'[e] = log[e]
    <2>1. ASSUME NEW e \in handed PROVE log[e].at \in Nat /\ log'[e] = log[e]
      <3>1. e \in 1 .. n
        BY <1>9
      <3>2. log[e] \in ExcRecord
        BY <1>3, <1>4, <3>1
      <3>. QED
        BY <1>5, <3>1, <3>2 DEF ExcRecord
    <2>. QED
      BY <2>1
  <1>12. now \in Nat /\ now <= now
    BY DEF AlertsInv, AlertsShape
  <1>13. Counted(handed, log', recent, now)
    BY <1>11, <1>12, CountedStays DEF AlertsInv
  <1>. QED
    BY <1>1, <1>10, <1>13 DEF AlertsInv, Noted, Spaced

\* An exception can be listed.
LEMMA StoreKeeps == ASSUME AlertsInv, NEW e \in Exc, Store(e) PROVE AlertsInv'
  <1>1. UNCHANGED <<now, log, since, poll, recent, fired, handed, pages>> /\ stored' = stored \cup {e}
    BY DEF Store, alertVars
  <1>2. AlertsShape'
    BY <1>1 DEF AlertsInv, AlertsShape, Exc
  <1>. QED
    BY <1>1, <1>2, ZenonT(60) DEF AlertsInv, Noted, Spaced, Counted, InsideOf

\* A step of a poll that hands nothing over, counts nothing and alerts nobody.
LEMMA QuietKeeps ==
  ASSUME AlertsInv, NEW k \in Poll, NEW w \in PollState, Fits(w, Len(log), now),
         poll' = [poll EXCEPT ![k] = w], UNCHANGED <<now, log, stored, since, recent, fired, handed, pages>>
  PROVE  AlertsInv'
  <1>1. AlertsShape'
    BY PollMoves DEF AlertsInv, AlertsShape, storeVars
  <1>. QED
    BY <1>1, ZenonT(60) DEF AlertsInv, Noted, Spaced, Counted, InsideOf

\* A step that may alert, and only when the clock allows it.
LEMMA MayAlert ==
  ASSUME AlertsInv, NEW c \in Clock, NEW k \in Poll,
         \/ Alert(c, k) /\ ~ InCooldown(c, poll[k].stamp)
         \/ UNCHANGED <<fired, pages>>
  PROVE  /\ fired' \in [Clock -> SUBSET Nat] /\ pages' \in Seq(Clock \X Nat)
         /\ Noted(fired', pages') /\ Spaced(pages')
  <1>1. CASE Alert(c, k) /\ ~ InCooldown(c, poll[k].stamp)
    BY <1>1, AlertSpaces DEF AlertsInv
  <1>2. CASE UNCHANGED <<fired, pages>>
    BY <1>2 DEF AlertsInv, AlertsShape, Noted, Spaced
  <1>. QED
    BY <1>1, <1>2

\* A step of a poll that may alert and counts nothing new.
LEMMA AlertingKeeps ==
  ASSUME AlertsInv, NEW c \in Clock, NEW k \in Poll,
         \/ Alert(c, k) /\ ~ InCooldown(c, poll[k].stamp)
         \/ UNCHANGED <<fired, pages>>,
         NEW w \in PollState, Fits(w, Len(log), now), poll' = [poll EXCEPT ![k] = w],
         UNCHANGED <<now, log, stored, since, handed>>, recent' \in Seq(Nat),
         Counted(handed, log, recent', now)
  PROVE  AlertsInv'
  <1>1. /\ fired' \in [Clock -> SUBSET Nat] /\ pages' \in Seq(Clock \X Nat)
        /\ Noted(fired', pages') /\ Spaced(pages')
    BY MayAlert
  <1>2. AlertsShape'
    BY <1>1, PollMoves DEF AlertsInv, AlertsShape, storeVars
  <1>3. Counted(handed', log', recent', now')
    OBVIOUS
  <1>. QED
    BY <1>1, <1>2, <1>3 DEF AlertsInv

\* The poll is handed over: what it found, oldest first, and the newest of it is the mark.
LEMMA EvaluateKeeps == ASSUME AlertsInv, NEW k \in Poll, Evaluate(k) PROVE AlertsInv'
  <1>1. PICK v : v = poll[k]
    OBVIOUS
  <1>2. v \in PollState /\ Fits(v, Len(log), now)
    BY <1>1 DEF AlertsInv, AlertsShape
  <1>3. AlertsShape
    BY DEF AlertsInv
  <1>4. PICK o : o = OldestFirst(v.got)
    OBVIOUS
  <1>5. /\ o \in Seq(Nat) /\ \A i \in 1 .. Len(o) : o[i] \in v.got
        /\ v.got # {} => Max(v.got) \in v.got
    BY <1>1, <1>3, <1>4, GotParts
  <1>6. PICK w : w = [v EXCEPT !.step = "new", !.stamp = now, !.left = o]
    OBVIOUS
  <1>7. now \in Nat /\ now <= now
    BY <1>3 DEF AlertsShape
  <1>8. w \in PollState
    BY <1>2, <1>5, <1>6, <1>7 DEF PollState
  <1>9. Fits(w, Len(log), now)
    <2>1. w.got = v.got /\ w.stamp = now /\ w.left = o
      BY <1>2, <1>6 DEF PollState
    <2>. QED
      BY <1>2, <1>5, <1>7, <2>1 DEF Fits
  <1>10. poll' = [poll EXCEPT ![k] = w]
    BY <1>1, <1>4, <1>6 DEF Evaluate
  <1>11. recent' \in Seq(Nat) /\ Counted(handed', log, recent', now)
    BY HandedIsCounted DEF AlertsInv
  <1>12. handed' \subseteq 1 .. Len(log)
    BY <1>1, <1>2, <1>3 DEF Evaluate, AlertsShape, Fits
  <1>13. since' \in Nat /\ since' <= now
    <2>1. CASE v.got = {}
      BY <1>1, <1>3, <2>1 DEF Evaluate, Mark, AlertsShape
    <2>2. CASE v.got # {}
      <3>1. Max(v.got) \in 1 .. Len(log) /\ since' = log[Max(v.got)].at
        BY <1>1, <1>2, <1>5, <2>2 DEF Evaluate, Mark, Fits
      <3>2. log[Max(v.got)] \in ExcRecord /\ log[Max(v.got)].at <= now
        BY <1>3, <3>1 DEF AlertsShape
      <3>. QED
        BY <3>1, <3>2 DEF ExcRecord
    <2>. QED
      BY <2>1, <2>2
  <1>14. UNCHANGED <<now, log, stored, fired, pages>>
    BY DEF Evaluate, storeVars
  <1>15. AlertsShape'
    BY <1>3, <1>8, <1>9, <1>10, <1>11, <1>12, <1>13, <1>14, PollMoves DEF AlertsShape, storeVars
  <1>. QED
    BY <1>11, <1>14, <1>15 DEF AlertsInv, Noted, Spaced

\* The rate rule.
LEMMA RateKeeps == ASSUME AlertsInv, NEW k \in Poll, ExceptionRate(k) PROVE AlertsInv'
  <1>1. PICK v : v = poll[k]
    OBVIOUS
  <1>2. v \in PollState /\ Fits(v, Len(log), now)
    BY <1>1 DEF AlertsInv, AlertsShape
  <1>3. PICK w : w = [v EXCEPT !.step = "done"]
    OBVIOUS
  <1>4. w \in PollState /\ Fits(w, Len(log), now)
    BY <1>2, <1>3 DEF PollState, Fits
  <1>5. recent' \in Seq(Nat) /\ Counted(handed, log, recent', now)
    <2>1. v.stamp \in Nat /\ v.stamp <= now
      BY <1>2 DEF PollState, Fits
    <2>2. recent' = InWindow(v.stamp)
      BY <1>1 DEF ExceptionRate
    <2>. QED
      BY <2>1, <2>2, InWindowCounts DEF AlertsInv
  <1>6. RateRule \in Clock
    BY DEF Clock
  <1>7. \/ Alert(RateRule, k) /\ ~ InCooldown(RateRule, poll[k].stamp)
        \/ UNCHANGED <<fired, pages>>
    BY DEF ExceptionRate, AlertIf
  <1>8. poll' = [poll EXCEPT ![k] = w] /\ UNCHANGED <<now, log, stored, since, handed>>
    BY <1>1, <1>3 DEF ExceptionRate, storeVars
  <1>. QED
    BY <1>4, <1>5, <1>6, <1>7, <1>8, AlertingKeeps

\* The rules that go over the entries one at a time.
LEMMA EntriesKeep ==
  ASSUME AlertsInv, NEW k \in Poll, NewException(k) \/ EveryException(k)
  PROVE  AlertsInv'
  <1>1. PICK v : v = poll[k]
    OBVIOUS
  <1>2. PICK w : w = [v EXCEPT !.left = Tail(@)]
    OBVIOUS
  <1>3. PICK f : f = log[Head(v.left)].family
    OBVIOUS
  <1>4. poll[k].left # <<>> /\ poll' = [poll EXCEPT ![k] = w] /\ UNCHANGED <<now, log, stored, since, recent, handed>>
    <2>1. CASE NewException(k)
      <3>1. poll[k].left # <<>> /\ UNCHANGED <<now, log, stored, since, recent, handed>>
        BY <2>1 DEF NewException, storeVars
      <3>2. poll' = [poll EXCEPT ![k] = [poll[k] EXCEPT !.left = Tail(poll[k].left)]]
        BY <2>1 DEF NewException, NextEntry
      <3>. QED
        BY <1>1, <1>2, <3>1, <3>2
    <2>2. CASE EveryException(k)
      <3>1. poll[k].left # <<>> /\ UNCHANGED <<now, log, stored, since, recent, handed>>
        BY <2>2 DEF EveryException, storeVars
      <3>2. poll' = [poll EXCEPT ![k] = [poll[k] EXCEPT !.left = Tail(poll[k].left)]]
        BY <2>2 DEF EveryException, NextEntry
      <3>. QED
        BY <1>1, <1>2, <3>1, <3>2
    <2>. QED
      BY <2>1, <2>2
  <1>5. /\ w \in PollState /\ Fits(w, Len(log), now)
        /\ <<"new-exception", f>> \in Clock /\ <<"every-exception", f>> \in Clock
    BY <1>1, <1>2, <1>3, <1>4, EntryParts DEF AlertsInv
  <1>6. \E c \in Clock : \/ Alert(c, k) /\ ~ InCooldown(c, poll[k].stamp)
                         \/ UNCHANGED <<fired, pages>>
    <2>1. CASE NewException(k)
      BY <1>1, <1>3, <1>5, <2>1 DEF NewException, AlertIf
    <2>2. CASE EveryException(k)
      BY <1>1, <1>3, <1>5, <2>2 DEF EveryException, AlertIf
    <2>. QED
      BY <2>1, <2>2
  <1>7. recent' \in Seq(Nat) /\ Counted(handed, log, recent', now)
    BY <1>4 DEF AlertsInv, AlertsShape
  <1>. QED
    BY <1>4, <1>5, <1>6, <1>7, AlertingKeeps

LEMMA AlertsStep == AlertsInv /\ [Next]_vars => AlertsInv'
  <1>. SUFFICES ASSUME AlertsInv, [Next]_vars PROVE AlertsInv'
    OBVIOUS
  <1>1. CASE UNCHANGED vars
    BY <1>1, ZenonT(60) DEF vars, storeVars, alertVars, AlertsInv, AlertsShape, Noted, Spaced, Counted, InsideOf
  <1>2. CASE Tick
    BY <1>2, TickKeeps
  <1>3. CASE Record
    BY <1>3, RecordKeeps
  <1>5. ASSUME NEW e \in Exc, Store(e)
        PROVE  AlertsInv'
    BY <1>5, StoreKeeps
  <1>4. ASSUME NEW k \in Poll, PollStarts(k) \/ PollStep(k) \/ ListFails(k)
        PROVE  AlertsInv'
    <2>1. PICK v : v = poll[k]
      OBVIOUS
    <2>2. v \in PollState /\ Fits(v, Len(log), now)
      BY <2>1 DEF AlertsInv, AlertsShape
    <2>3. AlertsShape /\ now \in Nat /\ since \in Nat /\ since <= now /\ Len(log) \in Nat
      BY LenProperties DEF AlertsInv, AlertsShape
    <2>4. CASE PollStarts(k)
      <3>1. PICK w : w = [v EXCEPT !.step = "listing", !.kinds = Kind, !.stamp = since]
        OBVIOUS
      <3>2. w \in PollState /\ Fits(w, Len(log), now)
        BY <2>2, <2>3, <3>1 DEF PollState, Fits
      <3>3. poll' = [poll EXCEPT ![k] = w] /\ UNCHANGED <<now, log, stored, since, recent, fired, handed, pages>>
        BY <2>1, <2>4, <3>1 DEF PollStarts, storeVars, alertVars
      <3>. QED
        BY <3>2, <3>3, QuietKeeps
    <2>5. CASE ListKind(k)
      <3>1. PICK kind \in poll[k].kinds :
              poll' = [poll EXCEPT ![k] =
                [poll[k] EXCEPT !.kinds = poll[k].kinds \ {kind},
                                !.got = poll[k].got \cup Page(kind, poll[k].stamp)]]
        BY <2>5 DEF ListKind
      <3>2. PICK page : page = Page(kind, poll[k].stamp)
        OBVIOUS
      <3>3. page \subseteq 1 .. Len(log) /\ page \subseteq Nat
        <4>1. page \subseteq stored
          BY <3>2 DEF Page, Matching
        <4>2. stored \subseteq 1 .. Len(log)
          BY <2>3 DEF AlertsShape
        <4>3. \A i \in 1 .. Len(log) : i \in Nat
          BY <2>3
        <4>. QED
          BY <4>1, <4>2, <4>3
      <3>7. PICK w : w = [v EXCEPT !.kinds = v.kinds \ {kind}, !.got = v.got \cup page]
        OBVIOUS
      <3>8. w.got = v.got \cup page /\ w.stamp = v.stamp /\ w.left = v.left /\ w \in PollState
        BY <2>2, <3>3, <3>7 DEF PollState
      <3>4. w \in PollState /\ Fits(w, Len(log), now)
        BY <2>2, <3>3, <3>8 DEF Fits
      <3>5. poll' = [poll EXCEPT ![k] = w]
        BY <2>1, <3>1, <3>2, <3>7
      <3>6. UNCHANGED <<now, log, stored, since, recent, fired, handed, pages>>
        BY <2>5 DEF ListKind, storeVars, alertVars
      <3>. QED
        BY <3>4, <3>5, <3>6, QuietKeeps
    <2>6. CASE ListFails(k) \/ PollEnds(k)
      <3>1. poll' = [poll EXCEPT ![k] = Rest] /\ UNCHANGED <<now, log, stored, since, recent, fired, handed, pages>>
        BY <2>6 DEF ListFails, PollEnds, storeVars, alertVars
      <3>. QED
        BY <2>3, <3>1, RestFits, QuietKeeps
    <2>7. CASE NextRule(k)
      <3>1. PICK w : w = [v EXCEPT !.step = "every", !.left = OldestFirst(v.got)]
        OBVIOUS
      <3>2. PICK o : o = OldestFirst(v.got)
        OBVIOUS
      <3>3. o \in Seq(Nat) /\ \A i \in 1 .. Len(o) : o[i] \in v.got
        BY <2>1, <2>3, <3>2, GotParts
      <3>4. w.got = v.got /\ w.stamp = v.stamp /\ w.left = o /\ w \in PollState
        BY <2>2, <3>1, <3>2, <3>3 DEF PollState
      <3>5. Fits(w, Len(log), now)
        BY <2>2, <3>3, <3>4 DEF Fits
      <3>6. poll' = [poll EXCEPT ![k] = w] /\ UNCHANGED <<now, log, stored, since, recent, fired, handed, pages>>
        BY <2>1, <2>7, <3>1 DEF NextRule, storeVars, alertVars
      <3>. QED
        BY <3>4, <3>5, <3>6, QuietKeeps
    <2>8. CASE LastRule(k)
      <3>1. PICK w : w = [v EXCEPT !.step = "rate"]
        OBVIOUS
      <3>2. w \in PollState /\ Fits(w, Len(log), now)
        BY <2>2, <3>1 DEF PollState, Fits
      <3>3. poll' = [poll EXCEPT ![k] = w] /\ UNCHANGED <<now, log, stored, since, recent, fired, handed, pages>>
        BY <2>1, <2>8, <3>1 DEF LastRule, storeVars, alertVars
      <3>. QED
        BY <3>2, <3>3, QuietKeeps
    <2>. QED
      BY <1>4, <2>4, <2>5, <2>6, <2>7, <2>8, EvaluateKeeps, RateKeeps, EntriesKeep DEF PollStep
  <1>. QED
    BY <1>1, <1>2, <1>3, <1>4, <1>5 DEF Next

\* Only the rate rule ends a poll's rules.
LEMMA OnlyRateEnds ==
  ASSUME AlertsInv, [Next]_vars, NEW k \in Poll, poll[k].step = "rate", poll'[k].step = "done"
  PROVE  ExceptionRate(k)
  <1>1. poll \in [Poll -> PollState] /\ poll'[k] # poll[k]
    BY DEF AlertsInv, AlertsShape
  <1>2. PICK j \in Poll : PollStarts(j) \/ PollStep(j) \/ ListFails(j)
    BY <1>1 DEF Next, vars, Tick, Record, Store
  <1>3. \A w : poll' = [poll EXCEPT ![j] = w] /\ j # k => poll'[k] = poll[k]
    BY <1>1
  <1>4. Rest.step = "idle"
    BY DEF Rest
  <1>5. j = k
    BY <1>1, <1>2, <1>3 DEF PollStarts, PollStep, ListFails, ListKind, Evaluate, NewException, NextRule,
       EveryException, LastRule, ExceptionRate, PollEnds, NextEntry
  <1>6. poll[k].step = "rate" /\ poll[k] # Rest
    BY <1>4
  <1>7. ~ PollStarts(k) /\ ~ ListFails(k) /\ ~ ListKind(k) /\ ~ Evaluate(k)
    BY <1>6 DEF PollStarts, ListFails, ListKind, Evaluate
  <1>8. ~ NewException(k) /\ ~ NextRule(k) /\ ~ EveryException(k) /\ ~ LastRule(k) /\ ~ PollEnds(k)
    BY <1>6 DEF NewException, NextRule, EveryException, LastRule, PollEnds, Runs
  <1>. QED
    BY <1>2, <1>5, <1>7, <1>8 DEF PollStep

\* The rate rule alerts, or an alert is within its cooldown, when enough happened.
LEMMA BreachIsPaged ==
  ASSUME AlertsInv, NEW k \in Poll, ExceptionRate(k),
         Cardinality(InsideOf(handed, log, now)) >= Threshold
  PROVE  \E t \in fired'[RateRule] : t = poll[k].stamp \/ poll[k].stamp - t < Cooldown
  <1>1. AlertsShape /\ RateRule \in Clock /\ fired \in [Clock -> SUBSET Nat]
    BY DEF AlertsInv, AlertsShape, Clock
  <1>2. PICK stamp \in Nat : stamp = poll[k].stamp /\ stamp <= now
    BY <1>1 DEF AlertsShape, PollState, Fits
  <1>3. recent' = InWindow(stamp)
    BY <1>2 DEF ExceptionRate
  <1>4. recent' \in Seq(Nat) /\ Counted(handed, log, recent', now)
    BY <1>2, <1>3, InWindowCounts DEF AlertsInv
  <1>5. Cardinality(InsideOf(handed, log, now)) <= Len(recent') /\ IsFiniteSet(InsideOf(handed, log, now))
    BY <1>1, <1>3, <1>4, CountsEnough
  <1>6. Len(recent') >= Threshold
    <2>1. Cardinality(InsideOf(handed, log, now)) \in Nat
      BY <1>5, FS_CardinalityType
    <2>2. Len(recent') \in Nat
      BY <1>4, LenProperties
    <2>. QED
      BY <1>5, <2>1, <2>2, AlertsAssumption
  <1>7. (InCooldown(RateRule, stamp) /\ UNCHANGED fired) \/ Alert(RateRule, k)
    BY <1>2, <1>6 DEF ExceptionRate, AlertIf
  <1>8. CASE Alert(RateRule, k)
    BY <1>1, <1>2, <1>8 DEF Alert
  <1>9. CASE InCooldown(RateRule, stamp) /\ UNCHANGED fired
    BY <1>2, <1>9 DEF InCooldown
  <1>. QED
    BY <1>7, <1>8, <1>9

\* For any number of polls, whatever they interleave and whichever lists fail: two alerts of one
\* rule for one family are at least a cooldown apart, and a breach of the rate at the moment its
\* rule runs has an alert within the cooldown (inCooldown, evaluateExceptionRate in alerter.ts).
THEOREM PagesStayDue == Spec => PagesAreDue
  <1>1. Init => AlertsInv
    BY AlertsBegin
  <1>2. AlertsInv /\ [Next]_vars => AlertsInv'
    BY AlertsStep
  <1>3. AlertsInv => PagesAreSpaced
    <2>1. AlertsInv => DOMAIN pages = 1 .. Len(pages)
      BY LenProperties DEF AlertsInv, AlertsShape
    <2>. QED
      BY <2>1 DEF AlertsInv, Spaced, PagesAreSpaced
  <1>4. AlertsInv /\ PagesAreSpaced' /\ [Next]_vars =>
          [/\ PagesAreSpaced'
           /\ \A k \in Poll :
                /\ poll[k].step = "rate" /\ poll'[k].step = "done"
                /\ Cardinality({e \in handed : log[e].at >= now - RateWindow}) >= Threshold
                => \E t \in fired'[RateRule] : t = poll[k].stamp \/ poll[k].stamp - t < Cooldown]_vars
    BY OnlyRateEnds, BreachIsPaged DEF InsideOf
  <1>. QED
    BY <1>1, <1>2, <1>3, <1>4, PTL DEF Spec, PagesAreDue

-----------------------------------------------------------------------------
(* Nothing is skipped                                                      *)

\* Those that the alerter is still to be given.
Waiting == (stored \ handed) \ passed

\* A poll under way has one of them, or has still to list its kind.
Finds(w, lg, e) ==
  w.step = "listing" => lg[e].at > w.stamp /\ (lg[e].kind \in w.kinds \/ e \in w.got)

SkipInv ==
  /\ stored \subseteq 1 .. Len(log)
  /\ \A e \in Waiting : log[e].at > since /\ \A k \in Poll : Finds(poll[k], log, e)

\* A step of a poll after which it still finds what it should.
LEMMA SkipKeeps ==
  ASSUME AlertsShape, SkipInv, NEW k \in Poll, NEW w, poll' = [poll EXCEPT ![k] = w],
         \A e \in Waiting' : e \in Waiting /\ Finds(w, log, e), UNCHANGED <<log, stored, since>>
  PROVE  SkipInv'
  <1>1. \A e \in Waiting', j \in Poll : Finds(poll'[j], log, e)
    BY DEF AlertsShape, SkipInv
  <1>. QED
    BY <1>1 DEF SkipInv

\* An exception is recorded, and shown to nobody yet.
LEMMA RecordSkips ==
  ASSUME AlertsShape, SkipInv, Record
  PROVE  SkipInv'
  <1>1. PICK n \in Nat : n = Len(log)
    BY LenProperties DEF AlertsShape
  <1>2. PICK r : log' = Append(log, r) /\ r \in ExcRecord
    <2>1. PICK kind \in Kind, f \in Family : log' = Append(log, [at |-> now, kind |-> kind, family |-> f])
      BY DEF Record
    <2>2. [at |-> now, kind |-> kind, family |-> f] \in ExcRecord
      BY DEF AlertsShape, ExcRecord
    <2>. QED
      BY <2>1, <2>2
  <1>3. Len(log') = n + 1 /\ \A e \in 1 .. n : log'[e] = log[e]
    <2>1. log \in Seq(ExcRecord)
      BY DEF AlertsShape
    <2>. QED
      BY <1>1, <1>2, <2>1, AppendProperties
  <1>4. UNCHANGED <<stored, since, poll, handed, passed>>
    BY DEF Record, alertVars
  <1>5. stored \subseteq 1 .. n /\ stored \subseteq 1 .. n + 1 /\ Waiting' = Waiting
    BY <1>1, <1>4 DEF SkipInv, Waiting
  <1>6. \A e \in Waiting : log'[e] = log[e]
    BY <1>3, <1>5 DEF Waiting
  <1>. QED
    BY <1>3, <1>4, <1>5, <1>6 DEF SkipInv, Finds

\* One that is shown in time is above the mark, and in front of every poll under way.
LEMMA StoreSkips ==
  ASSUME AlertsShape, SkipInv, NEW d \in Exc, Store(d)
  PROVE  SkipInv'
  <1>1. stored' = stored \cup {d} /\ UNCHANGED <<log, since, poll, handed>>
    BY DEF Store, alertVars
  <1>2. d \in 1 .. Len(log) /\ since \in Nat /\ log[d].at \in Nat
    <2>1. d \in 1 .. Len(log) /\ since \in Nat /\ log[d] \in ExcRecord
      BY DEF AlertsShape, Exc
    <2>. QED
      BY <2>1 DEF ExcRecord
  <1>3. ASSUME NEW e \in Waiting' PROVE log[e].at > since /\ \A k \in Poll : Finds(poll[k], log, e)
    <2>1. CASE e = d
      <3>1. ~ TooLate(d)
        BY <1>3, <2>1 DEF Waiting, Store
      <3>2. ~ (log[d].at <= since)
        BY <3>1 DEF TooLate
      <3>3. ASSUME NEW k \in Poll, poll[k].step = "listing"
            PROVE  log[d].at > poll[k].stamp /\ log[d].kind \in poll[k].kinds
        <4>1. poll[k].stamp \in Nat
          BY DEF AlertsShape, PollState
        <4>2. ~ (log[d].at <= poll[k].stamp) /\ log[d].kind \in poll[k].kinds
          BY <3>1, <3>3 DEF TooLate
        <4>. QED
          BY <1>2, <4>1, <4>2
      <3>. QED
        BY <1>2, <2>1, <3>2, <3>3 DEF Finds
    <2>2. CASE e # d
      <3>1. e \in Waiting
        BY <1>1, <1>3, <2>2 DEF Waiting, Store
      <3>. QED
        BY <3>1 DEF SkipInv
    <2>. QED
      BY <2>1, <2>2
  <1>. QED
    BY <1>1, <1>2, <1>3 DEF SkipInv

\* When all lists of a poll are in, nothing waits any longer.
LEMMA EvaluateSkips ==
  ASSUME AlertsShape, SkipInv, NEW k \in Poll, Evaluate(k)
  PROVE  SkipInv'
  <1>1. poll[k].step = "listing" /\ poll[k].kinds = {}
    BY DEF Evaluate
  <1>2. \A e \in Waiting : e \in poll[k].got
    BY <1>1 DEF SkipInv, Finds
  <1>3. handed' = handed \cup poll[k].got /\ UNCHANGED <<log, stored, passed>>
    BY DEF Evaluate, storeVars
  <1>4. Waiting' = {}
    BY <1>2, <1>3 DEF Waiting
  <1>. QED
    BY <1>3, <1>4 DEF SkipInv

\* A list holds whatever waits of its kind, or cuts it off.
LEMMA ListSkips ==
  ASSUME AlertsShape, SkipInv, NEW k \in Poll, ListKind(k)
  PROVE  SkipInv'
  <1>1. PICK v : v = poll[k]
    OBVIOUS
  <1>2. v \in PollState /\ v.step = "listing"
    BY <1>1 DEF AlertsShape, ListKind
  <1>3. PICK kind \in v.kinds :
          /\ poll' = [poll EXCEPT ![k].kinds = @ \ {kind}, ![k].got = @ \cup Page(kind, v.stamp)]
          /\ passed' = passed \cup Cut(kind, v.stamp)
    BY <1>1 DEF ListKind
  <1>4. PICK page : page = Page(kind, v.stamp)
    OBVIOUS
  <1>5. PICK w : w = [v EXCEPT !.kinds = v.kinds \ {kind}, !.got = v.got \cup page]
    OBVIOUS
  <1>6. w.kinds = v.kinds \ {kind} /\ w.got = v.got \cup page /\ w.stamp = v.stamp /\ w.step = v.step
    BY <1>2, <1>5 DEF PollState
  <1>7. poll' = [poll EXCEPT ![k] = w]
    BY <1>1, <1>3, <1>4, <1>5 DEF AlertsShape, PollState
  <1>8. UNCHANGED <<log, stored, since, handed>>
    BY DEF ListKind, storeVars, alertVars
  <1>9. ASSUME NEW e \in Waiting' PROVE e \in Waiting /\ Finds(w, log, e)
    <2>1. e \in Waiting /\ e \notin Cut(kind, v.stamp) /\ e \in stored
      BY <1>3, <1>8, <1>9 DEF Waiting
    <2>2. log[e].at > v.stamp /\ (log[e].kind \in v.kinds \/ e \in v.got)
      BY <1>1, <1>2, <2>1 DEF SkipInv, Finds
    <2>3. log[e].kind = kind => e \in page
      BY <1>4, <2>1, <2>2 DEF Cut, Matching
    <2>. QED
      BY <1>6, <2>1, <2>2, <2>3 DEF Finds
  <1>. QED
    BY <1>7, <1>8, <1>9, SkipKeeps

LEMMA SkipStep ==
  ASSUME AlertsShape, SkipInv, [Next]_vars
  PROVE  SkipInv'
  <1>1. CASE UNCHANGED vars \/ Tick
    BY <1>1 DEF Tick, vars, storeVars, alertVars, SkipInv, Waiting
  <1>2. CASE Record
    BY <1>2, RecordSkips
  <1>3. ASSUME NEW e \in Exc, Store(e) PROVE SkipInv'
    BY <1>3, StoreSkips
  <1>4. ASSUME NEW k \in Poll, PollStarts(k) \/ PollStep(k) \/ ListFails(k)
        PROVE  SkipInv'
    <2>1. PICK v : v = poll[k]
      OBVIOUS
    <2>2. v \in PollState
      BY <2>1 DEF AlertsShape
    <2>3. CASE PollStarts(k)
      <3>1. PICK w : w = [v EXCEPT !.step = "listing", !.kinds = Kind, !.stamp = since]
        OBVIOUS
      <3>2. w.kinds = Kind /\ w.stamp = since
        BY <2>2, <3>1 DEF PollState
      <3>3. poll' = [poll EXCEPT ![k] = w] /\ UNCHANGED <<log, stored, since, handed, passed>>
        BY <2>1, <2>3, <3>1 DEF PollStarts, storeVars, alertVars
      <3>4. ASSUME NEW e \in Waiting' PROVE e \in Waiting /\ Finds(w, log, e)
        <4>1. e \in Waiting
          BY <3>3, <3>4 DEF Waiting
        <4>2. log[e] \in ExcRecord /\ log[e].at > since
          BY <4>1 DEF SkipInv, Waiting, AlertsShape
        <4>. QED
          BY <3>2, <4>1, <4>2 DEF Finds, ExcRecord
      <3>. QED
        BY <3>3, <3>4, SkipKeeps
    <2>4. CASE ListKind(k)
      BY <2>4, ListSkips
    <2>5. CASE Evaluate(k)
      BY <2>5, EvaluateSkips
    <2>6. ASSUME ~ PollStarts(k), ~ ListKind(k), ~ Evaluate(k)
          PROVE  poll'[k].step # "listing" /\ \A j \in Poll : j # k => poll'[j] = poll[j]
      <3>1. poll \in [Poll -> PollState]
        BY DEF AlertsShape
      <3>2. CASE NewException(k)
        <4>1. poll[k].step = "new" /\ poll' = [poll EXCEPT ![k].left = Tail(@)]
          BY <3>2 DEF NewException, NextEntry, Runs
        <4>. QED
          BY <3>1, <4>1 DEF PollState
      <3>3. CASE EveryException(k)
        <4>1. poll[k].step = "every" /\ poll' = [poll EXCEPT ![k].left = Tail(@)]
          BY <3>3 DEF EveryException, NextEntry, Runs
        <4>. QED
          BY <3>1, <4>1 DEF PollState
      <3>4. CASE NextRule(k)
        BY <3>1, <3>4 DEF NextRule, PollState
      <3>5. CASE LastRule(k)
        BY <3>1, <3>5 DEF LastRule, PollState
      <3>6. CASE ExceptionRate(k)
        BY <3>1, <3>6 DEF ExceptionRate, PollState
      <3>7. CASE PollEnds(k) \/ ListFails(k)
        <4>1. poll' = [poll EXCEPT ![k] = Rest] /\ Rest.step = "idle"
          BY <3>7 DEF PollEnds, ListFails, Rest
        <4>. QED
          BY <3>1, <4>1
      <3>. QED
        BY <1>4, <2>6, <3>2, <3>3, <3>4, <3>5, <3>6, <3>7 DEF PollStep
    <2>7. ASSUME ~ PollStarts(k), ~ ListKind(k), ~ Evaluate(k)
          PROVE  UNCHANGED <<log, stored, since, handed, passed>>
      BY <1>4, <2>7 DEF PollStep, NewException, EveryException, NextRule, LastRule, ExceptionRate, PollEnds,
         ListFails, storeVars, alertVars
    <2>8. ASSUME ~ PollStarts(k), ~ ListKind(k), ~ Evaluate(k)
          PROVE  SkipInv'
      <3>1. Waiting' = Waiting
        BY <2>7, <2>8 DEF Waiting
      <3>2. \A j \in Poll, e \in Waiting : Finds(poll'[j], log, e)
        BY <2>6, <2>8 DEF SkipInv, Finds
      <3>. QED
        BY <2>7, <2>8, <3>1, <3>2 DEF SkipInv
    <2>. QED
      BY <2>3, <2>4, <2>5, <2>8
  <1>. QED
    BY <1>1, <1>2, <1>3, <1>4 DEF Next

\* Whatever the kinds, the polls that overlap, the lists that fail and the rows that are stored
\* long after they were stamped: what the store shows and the alerter was not given is still
\* above the watermark, unless a list cut it off or it was shown too late (pollOnce in
\* exception_source.ts).
THEOREM NothingStaysSkipped == Spec => []NothingSkipped
  <1>1. Init => SkipInv
    BY DEF Init, SkipInv, Waiting
  <1>2. AlertsInv /\ SkipInv /\ [Next]_vars => SkipInv'
    BY SkipStep DEF AlertsInv
  <1>3. SkipInv => NothingSkipped
    BY DEF SkipInv, Waiting, NothingSkipped
  <1>. QED
    BY <1>1, <1>2, <1>3, AlertsBegin, AlertsStep, PTL DEF Spec
=============================================================================
