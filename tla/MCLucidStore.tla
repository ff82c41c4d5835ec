---------------------------- MODULE MCLucidStore ----------------------------
(* Instances of SqlStore for TLC. *)
EXTENDS SqlStore, TLC

Symmetry == Permutations(Entry)

\* Two releases, the later with one index more.
TwoReleases == <<<<"table", "i1">>, <<"table", "i1", "i2">>>>

Row(i, time, n, kind, trace, family, tags) ==
  [id |-> i, at |-> time, seq |-> n, type |-> kind, trace |-> trace, family |-> family, tags |-> tags]

\* Five rows in an order of ids that is not theirs: two of one millisecond, one of a process
\* whose sequence is behind.
FiveRows ==
  {Row(3, 1, 0, "query", 1, 1, {"a", "b"}), Row(1, 2, 1, "query", 2, 2, {"a"}),
   Row(5, 2, 2, "log", 1, 2, {"b"}), Row(2, 3, 3, "query", 2, 1, {"b", "c"}),
   Row(4, 4, 1, "log", 0, 0, {"c"})}
=============================================================================
