------------------------------ MODULE Redaction ------------------------------
(***************************************************************************)
(* redactBoundedWith(): one walk over the content of an entry that masks     *)
(* keys and paths and keeps within a depth, a length of text, a length of    *)
(* lists, a number of nodes and a number of bytes.  A value is a tree;      *)
(* text is its length; a secret is a scalar that must stay under its mask.  *)
(***************************************************************************)
EXTENDS Integers, Sequences, FiniteSets

CONSTANTS Contents,  \* the contents that are tried
          MaxDepth, MaxText, MaxList, MaxNodes, MaxBytes, NodeBytes,
          MaskedKey, \* keys that are masked wherever they are
          MaskedPath \* paths that are

ASSUME RedactionAssumption ==
  /\ MaxDepth \in Nat /\ MaxText \in Nat /\ MaxList \in Nat /\ MaxNodes \in Nat
  /\ MaxBytes \in Nat /\ NodeBytes \in Nat

VARIABLES content,  \* what is recorded
          redacted  \* <<>>, or the result of the walk

redactionVars == <<content, redacted>>

\* A tree: a scalar, a text with its length, bytes, or a list or map of named children.
Leaf(kind, len) == [kind |-> kind, len |-> len, kids |-> <<>>]
Branch(kind, kids) == [kind |-> kind, len |-> 0, kids |-> kids]
Child(key, tree) == [key |-> key, tree |-> tree]

Mask == Leaf("mask", 0)
SizeMarker == Leaf("size", 0)
DepthMarker == Leaf("depth", 0)
BytesMarker == Leaf("bytes", 0)

\* Mutant: paths are not looked at.
KeyMasked(key, path) == key \in MaskedKey

IsMasked(key, path) == key \in MaskedKey \/ path \in MaskedPath
Spent(left) == left.nodes <= 0 \/ left.bytes <= 0

\* The children of a list or a map: stops with a marker when the budget is spent, masks without
\* descending, and says how many of a long list there were.
RECURSIVE Walk(_, _, _, _), Members(_, _, _, _, _)

Members(tree, i, path, depth, left) ==
  LET long  == tree.kind = "list" /\ Len(tree.kids) > MaxList
      limit == IF long THEN MaxList ELSE Len(tree.kids)
      more  == IF long THEN <<Child("more", Leaf("items", 0))>> ELSE <<>>
  IN IF i > limit THEN [kids |-> more, left |-> [left EXCEPT !.cut = @ \/ long]]
     ELSE IF Spent(left)
     THEN [kids |-> <<Child("more", SizeMarker)>> \o more, left |-> [left EXCEPT !.cut = TRUE]]
     ELSE LET kid   == tree.kids[i]
              here  == Append(path, kid.key)
              paid  == IF tree.kind = "map" THEN [left EXCEPT !.bytes = @ - 1] ELSE left
              first == IF tree.kind = "map" /\ IsMasked(kid.key, here)
                       THEN [tree |-> Mask, left |-> paid]
                       ELSE Walk(kid.tree, here, depth + 1, paid)
              rest  == Members(tree, i + 1, path, depth, first.left)
          IN [kids |-> <<Child(kid.key, first.tree)>> \o rest.kids, left |-> rest.left]

\* One node: it pays before it is looked at; text pays for what is kept of it.
Walk(tree, path, depth, left) ==
  LET paid == [left EXCEPT !.nodes = @ - 1, !.bytes = @ - NodeBytes]
      cut(l) == [l EXCEPT !.cut = TRUE]
  IN IF Spent(left) THEN [tree |-> SizeMarker, left |-> cut(left)]
     ELSE IF tree.kind = "text"
     THEN IF tree.len > MaxText
          THEN [tree |-> Leaf("text", MaxText), left |-> cut([paid EXCEPT !.bytes = @ - MaxText])]
          ELSE [tree |-> tree, left |-> [paid EXCEPT !.bytes = @ - tree.len]]
     ELSE IF tree.kind = "binary" THEN [tree |-> BytesMarker, left |-> cut(paid)]
     ELSE IF tree.kind \notin {"list", "map"} THEN [tree |-> tree, left |-> paid]
     ELSE IF depth >= MaxDepth THEN [tree |-> DepthMarker, left |-> cut(paid)]
     ELSE LET below == Members(tree, 1, path, depth, paid)
          IN [tree |-> Branch(tree.kind, below.kids), left |-> below.left]

RedactionInit == content \in Contents /\ redacted = <<>>

Budget == [nodes |-> MaxNodes, bytes |-> MaxBytes, cut |-> FALSE]

Redact ==
  /\ redacted = <<>>
  /\ redacted' = <<Walk(content, <<>>, 0, Budget)>>
  /\ UNCHANGED content

-----------------------------------------------------------------------------
(* Reference definitions                                                   *)

\* The content with its masks and no bound at all.
RECURSIVE Masked(_, _)
Masked(tree, path) ==
  [tree EXCEPT !.kids =
     [i \in DOMAIN tree.kids |->
        LET kid == tree.kids[i] here == Append(path, tree.kids[i].key)
        IN Child(kid.key, IF tree.kind = "map" /\ IsMasked(kid.key, here) THEN Mask
                          ELSE Masked(kid.tree, here))]]

RECURSIVE NodesOf(_)
NodesOf(tree) == {tree} \cup UNION {NodesOf(tree.kids[i].tree) : i \in DOMAIN tree.kids}

RECURSIVE DepthOf(_)
DepthOf(tree) ==
  IF tree.kids = <<>> THEN 0
  ELSE 1 + CHOOSE d \in 0..10 :
         /\ \E i \in DOMAIN tree.kids : DepthOf(tree.kids[i].tree) = d
         /\ \A i \in DOMAIN tree.kids : DepthOf(tree.kids[i].tree) <= d

-----------------------------------------------------------------------------
(* Properties                                                              *)

\* The walk is the plain masking of the content unless it says that it cut something, and what
\* it cut keeps every bound; whatever is cut, nothing under a masked key or path comes out
\* (redactBoundedWith).
RedactionIsExact ==
  redacted # <<>> =>
    LET r == redacted[1]
    IN /\ ~ r.left.cut => r.tree = Masked(content, <<>>)
       /\ \A n \in NodesOf(r.tree) :
            /\ n.kind # "secret"
            /\ n.kind = "text" => n.len <= MaxText
            /\ n.kind = "list" => Len(n.kids) <= MaxList + 1
       /\ DepthOf(r.tree) <= MaxDepth
       /\ r.left.nodes >= 0
=============================================================================
