----------------------------- MODULE SealedGraph ----------------------------
(***************************************************************************)
(* The words in which the proofs speak of a graph: what it holds before it *)
(* is sealed, what sealing leaves of its edges, and what a reader sees.    *)
(***************************************************************************)
EXTENDS ResourceGraph

\* A graph has its five fields and no others.
IsGraph(g) == g = [nodes |-> g.nodes, out |-> g.out, in |-> g.in,
                   frozen |-> g.frozen, dangling |-> g.dangling]

\* No edge was added to g yet.
Bare(g) == IsGraph(g) /\ g.out = EmptyBag /\ g.in = EmptyBag /\ g.frozen = FALSE

\* The edges of g whose far end is a node: outbound those that lead to one, inbound
\* those that come from one.
Leading(g) == {e \in DOMAIN g.out : e.to \in DOMAIN g.nodes}
Coming(g) == {e \in DOMAIN g.in : e.from \in DOMAIN g.nodes}

\* Each index holds an edge once.
EachOnce(g) == g.out = SetToBag(DOMAIN g.out) /\ g.in = SetToBag(DOMAIN g.in)

Table(f) == f = [x \in DOMAIN f |-> f[x]]

\* A sealed graph as Freeze leaves it: each index holds an edge once, its far end is a
\* node, and an edge between two nodes is in both.
Whole(h) ==
  /\ IsGraph(h) /\ h.frozen = TRUE /\ Table(h.nodes) /\ EachOnce(h)
  /\ \A e \in DOMAIN h.out : e.to \in DOMAIN h.nodes /\ (e.from \in DOMAIN h.nodes => e \in DOMAIN h.in)
  /\ \A e \in DOMAIN h.in : e.from \in DOMAIN h.nodes /\ (e.to \in DOMAIN h.nodes => e \in DOMAIN h.out)

\* The edges of a graph that lie between nodes, which are all that a reader sees.
Inner(h) == {e \in DOMAIN h.out : e.from \in DOMAIN h.nodes}

Within(nodes, E) == {e \in E : e.from \in DOMAIN nodes /\ e.to \in DOMAIN nodes}
=============================================================================
