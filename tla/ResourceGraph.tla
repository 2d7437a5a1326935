--------------------------- MODULE ResourceGraph ----------------------------
(***************************************************************************)
(* The resource graph of pkg/graph as a value: nodes under unique refs and *)
(* two adjacency indexes.  An index keeps every edge ever added, also a    *)
(* second copy and one whose other end is no node, so it is a bag of       *)
(* edges; the order Freeze sorts it into is left out.                      *)
(***************************************************************************)
EXTENDS Naturals, FiniteSets, Bags, TLC, Tables

Edge(from, to, kind) == [from |-> from, to |-> to, kind |-> kind]

NewGraph == [nodes |-> <<>>, out |-> EmptyBag, in |-> EmptyBag, frozen |-> FALSE, dangling |-> 0]

\* Of a bag of edges those in a set, and how many edges it holds, copy by copy.
Those(bag, S) == [e \in S |-> bag[e]]
Count(bag) == Cardinality(UNION {{e} \X (1..bag[e]) : e \in DOMAIN bag})

\* AddNode over some refs: the last write wins.
AddNodes(g, new) == [g EXCEPT !.nodes = Over(new, @)]

\* AddEdge, once for every copy in the bag.
AddEdges(g, edges) == [g EXCEPT !.out = @ (+) edges, !.in = @ (+) edges]

\* No-op for unknown nodes.
SetMetric(g, ref, value) ==
  IF ref \in DOMAIN g.nodes
  THEN [g EXCEPT !.nodes[ref].metrics = @ \cup {value}]
  ELSE g

\* The outbound index loses the edges that lead nowhere, the inbound index those
\* that come from nowhere.
Freeze(g) ==
  LET out == Those(g.out, {e \in DOMAIN g.out : e.to \in DOMAIN g.nodes})
      in == Those(g.in, {e \in DOMAIN g.in : e.from \in DOMAIN g.nodes})
      pruned(old, new) == Count(old) - Count(new)
  IN IF g.frozen THEN g
     ELSE [g EXCEPT !.out = out, !.in = in, !.frozen = TRUE,
                    !.dangling = @ + pruned(g.out, out) + pruned(g.in, in)]

Unfreeze(g) == [g EXCEPT !.frozen = FALSE]

Out(g, ref) == Those(g.out, {e \in DOMAIN g.out : e.from = ref})
In(g, ref) == Those(g.in, {e \in DOMAIN g.in : e.to = ref})
InDegree(g, ref, kind) ==
  Count(Those(g.in, {e \in DOMAIN g.in : e.to = ref /\ e.kind = kind}))

\* The outbound edges of a node are written with it, and no others.
WriteSnapshot(g, version) ==
  LET f == Freeze(g)
  IN [version |-> version, nodes |-> f.nodes,
      edges |-> Those(f.out, {e \in DOMAIN f.out : e.from \in DOMAIN f.nodes})]

\* Slip: the metrics are not part of the document.
LoadSnapshotBare(s) ==
  Freeze(AddEdges(AddNodes(NewGraph, [r \in DOMAIN s.nodes |-> [s.nodes[r] EXCEPT !.metrics = {}]]),
                  s.edges))

LoadSnapshot(s) == Freeze(AddEdges(AddNodes(NewGraph, s.nodes), s.edges))
=============================================================================
