----------------------------- MODULE FlameGraph -----------------------------
(***************************************************************************)
(* The flame graph of a V8 CPU profile: nodes linked to their children,     *)
(* samples that name the node on the CPU, and the time each sample took.    *)
(***************************************************************************)
EXTENDS Integers, Sequences, SequencesExt, FiniteSets, FiniteSetsExt

CONSTANTS Nodes,      \* the profile has the nodes 1 .. Nodes
          Deltas,     \* the times of a sample
          MaxSamples, \* bound: samples of a profile
          HotFrames   \* HOT_FRAME_LIMIT

ASSUME FlameAssumption == Nodes \in Nat \ {0} /\ Deltas \subseteq Nat /\ MaxSamples \in Nat

VARIABLES parent,  \* node -> the node that lists it as a child, 0 for none
          rooted,  \* node 1 is named (root)
          samples, \* the samples so far
          ticks    \* how many node reads there were per node: selfSamples and selfMicros

flameVars == <<parent, rooted, samples, ticks>>

Node == 1 .. Nodes

\* A node is listed by an earlier one, or by none; the one named (root) by none.
FlameInit ==
  /\ parent \in {p \in [Node -> 0 .. Nodes] : p[1] = 0 /\ \A n \in Node : p[n] < n}
  /\ rooted \in BOOLEAN
  /\ rooted => \A n \in Node \ {1} : parent[n] # 0
  /\ samples = <<>> /\ ticks = [n \in Node |-> [micros |-> 0, count |-> 0]]

\* The inspector takes a sample; the last ones may come without a time.
Sample ==
  /\ Len(samples) < MaxSamples
  /\ \E n \in Node, d \in Deltas :
       /\ samples' = Append(samples, [node |-> n, delta |-> d])
       /\ ticks' = [ticks EXCEPT ![n] = [micros |-> @.micros + d, count |-> @.count + 1]]
  /\ UNCHANGED <<parent, rooted>>

FlameNext == Sample

Children(n) == {c \in Node : parent[c] = n}

\* build(): a node's own time and that of its children, deepest first.
Build ==
  LET total[n \in Node] ==
        [micros |-> ticks[n].micros
                      + FoldSet(LAMBDA c, sum : sum + total[c].micros, 0, Children(n)),
         count |-> ticks[n].count
                      + FoldSet(LAMBDA c, sum : sum + total[c].count, 0, Children(n))]
  IN  total

\* Mutant: without a node named (root) the first one is taken for it.
FirstIsTop == {1}

\* The tops: the root, or every node nobody lists under a root of their own.
Tops == IF rooted THEN {1} ELSE {n \in Node : parent[n] = 0}

\* The tree, the duration and the hottest frames.
AggregateCpuProfile ==
  LET frames == {n \in Node : ticks[n].micros > 0}
  IN  [micros |-> FoldSet(LAMBDA n, sum : sum + Build[n].micros, 0, Tops),
       count |-> FoldSet(LAMBDA n, sum : sum + Build[n].count, 0, Tops),
       hot |-> SubSeq(SetToSortSeq(frames, LAMBDA a, b :
                        \/ ticks[a].micros > ticks[b].micros
                        \/ ticks[a].micros = ticks[b].micros /\ a < b),
                      1, Min({HotFrames, Cardinality(frames)}))]

-----------------------------------------------------------------------------
(* Properties                                                              *)

\* No time is lost or counted twice: the tree holds the time of all samples, a node holds
\* that of its children, and no frame that is left out is hotter than one that is shown.
TimeIsConserved ==
  LET a == AggregateCpuProfile
  IN  /\ a.micros = FoldLeft(LAMBDA sum, s : sum + s.delta, 0, samples)
      /\ a.count = Len(samples)
      /\ \A n \in Node \ {1} : parent[n] # 0 => Build[n].micros <= Build[parent[n]].micros
      /\ \A n \in Node : n \notin ToSet(a.hot)
           => \A h \in ToSet(a.hot) : ticks[n].micros <= ticks[h].micros
=============================================================================
