--------------------------- MODULE GcpIngestProofs --------------------------
(***************************************************************************)
(* What a GCP scan, a replay and a migration show, for every inventory.    *)
(*                                                                         *)
(* The argument reduces a graph to its nodes and to the edges that lie     *)
(* between them, which a snapshot keeps and a reader sees.  Fresh says     *)
(* what they are after an ingestion or a migration, Earlier what they are  *)
(* in a snapshot of release 2; the two differ in the location of a leaf    *)
(* and in the tier of regions.                                             *)
(***************************************************************************)
EXTENDS GcpIngest, SealedGraph, FiniteSetTheorems, FunctionTheorems, TLAPS

-----------------------------------------------------------------------------
(* What the operations of the graph do to any graph *)

LEMMA OverFact ==
  ASSUME NEW new, NEW old
  PROVE  /\ DOMAIN Over(new, old) = DOMAIN new \cup DOMAIN old
         /\ \A x \in DOMAIN new : Over(new, old)[x] = new[x]
         /\ \A x \in DOMAIN old \ DOMAIN new : Over(new, old)[x] = old[x]
  BY DEF Over

LEMMA NewGraphFact == Bare(NewGraph) /\ DOMAIN NewGraph.nodes = {}
  BY DEF NewGraph, Bare, IsGraph

\* AddNode writes nodes and touches no edge.
LEMMA AddNodesFact ==
  ASSUME NEW gr, IsGraph(gr), NEW new
  PROVE  /\ IsGraph(AddNodes(gr, new))
         /\ AddNodes(gr, new).nodes = Over(new, gr.nodes)
         /\ AddNodes(gr, new).in = gr.in
         /\ AddNodes(gr, new).out = gr.out
         /\ AddNodes(gr, new).frozen = gr.frozen
         /\ Bare(gr) => Bare(AddNodes(gr, new))
  BY DEF IsGraph, AddNodes, Bare

\* Edges that are not there yet are there once after AddEdge.
LEMMA AddEdgesFact ==
  ASSUME NEW gr, IsGraph(gr), NEW A, NEW B, gr.out = SetToBag(A), gr.in = SetToBag(B),
         NEW E, E \cap A = {}, E \cap B = {}
  PROVE  AddEdges(gr, SetToBag(E)) =
           [nodes |-> gr.nodes, out |-> SetToBag(A \cup E), in |-> SetToBag(B \cup E),
            frozen |-> gr.frozen, dangling |-> gr.dangling]
<1>1. \A X : X \cap E = {} => SetToBag(X) (+) SetToBag(E) = SetToBag(X \cup E)
  BY DEF SetToBag, (+)
<1>2. gr.out (+) SetToBag(E) = SetToBag(A \cup E) /\ gr.in (+) SetToBag(E) = SetToBag(B \cup E)
  BY <1>1
<1>3. AddEdges(gr, SetToBag(E)) = [gr EXCEPT !.out = SetToBag(A \cup E), !.in = SetToBag(B \cup E)]
  BY <1>2 DEF AddEdges
<1>4. QED
  BY <1>3 DEF IsGraph

\* Freeze drops the other edges.
LEMMA FreezeFact ==
  ASSUME NEW gr, IsGraph(gr), gr.frozen = FALSE, EachOnce(gr)
  PROVE  /\ IsGraph(Freeze(gr)) /\ Freeze(gr).nodes = gr.nodes /\ Freeze(gr).frozen = TRUE
         /\ Freeze(gr).out = SetToBag(Leading(gr)) /\ Freeze(gr).in = SetToBag(Coming(gr))
<1>1. /\ IsGraph(Freeze(gr)) /\ Freeze(gr).nodes = gr.nodes /\ Freeze(gr).frozen = TRUE
      /\ Freeze(gr).in = Those(gr.in, Coming(gr))
      /\ Freeze(gr).out = Those(gr.out, Leading(gr))
  BY DEF Freeze, IsGraph, Leading, Coming
<1>2. /\ \A S \in SUBSET DOMAIN gr.in : Those(gr.in, S) = SetToBag(S)
      /\ \A S \in SUBSET DOMAIN gr.out : Those(gr.out, S) = SetToBag(S)
  BY DEF Those, SetToBag, EachOnce
<1>3. Coming(gr) \in SUBSET DOMAIN gr.in /\ Leading(gr) \in SUBSET DOMAIN gr.out
  BY DEF Coming, Leading
<1>4. QED
  BY <1>1, <1>2, <1>3

\* A bare graph holds the edges that are added, once in either index.
LEMMA BareEdges ==
  ASSUME NEW b, Bare(b), NEW E
  PROVE  AddEdges(b, SetToBag(E)) =
           [nodes |-> b.nodes, out |-> SetToBag(E), in |-> SetToBag(E),
            frozen |-> FALSE, dangling |-> b.dangling]
<1>1. IsGraph(b) /\ b.out = SetToBag({}) /\ b.in = SetToBag({}) /\ b.frozen = FALSE
  BY DEF Bare, EmptyBag
<1>2. {} \cup E = E /\ E \cap {} = {}
  OBVIOUS
<1>3. AddEdges(b, SetToBag(E)) =
        [nodes |-> b.nodes, out |-> SetToBag({} \cup E), in |-> SetToBag({} \cup E),
         frozen |-> b.frozen, dangling |-> b.dangling]
  BY <1>1, <1>2, AddEdgesFact
<1>4. QED
  BY <1>1, <1>2, <1>3

\* Where each edge is there once, a degree counts edges.
LEMMA DegreeFact ==
  ASSUME NEW gr, \A e \in DOMAIN gr.in : gr.in[e] = 1, NEW n, NEW kind,
         NEW S, IsFiniteSet(S), S = {e \in DOMAIN gr.in : e.to = n /\ e.kind = kind}
  PROVE  InDegree(gr, n, kind) = Cardinality(S)
<1> DEFINE bag == Those(gr.in, S)
           T == UNION {{e} \X (1..bag[e]) : e \in DOMAIN bag}
           F == [e \in S |-> <<e, 1>>]
<1>1. InDegree(gr, n, kind) = Cardinality(T)
  BY DEF InDegree, Count
<1>2. DOMAIN bag = S /\ \A e \in S : bag[e] = 1
  BY DEF Those
<1>3. \A t : t \in T <=> \E e \in S : t = <<e, 1>>
  <2> HIDE DEF bag
  <2>1. ASSUME NEW e \in S PROVE {e} \X (1..bag[e]) = {<<e, 1>>}
    BY <1>2
  <2>2. QED  BY <1>2, <2>1
<1> HIDE DEF T, bag
<1>4. F \in Bijection(S, T)
  BY <1>3, Fun_IsBij
<1>5. QED
  BY <1>1, <1>4, FS_Bijection, Fun_ExistsBij

LEMMA BagFact ==
  ASSUME NEW S
  PROVE  DOMAIN SetToBag(S) = S /\ \A e \in S : SetToBag(S)[e] = 1
  BY DEF SetToBag

\* Freeze leaves a whole graph if an edge between two nodes is in both indexes.
LEMMA FreezeWhole ==
  ASSUME NEW gr, IsGraph(gr), gr.frozen = FALSE, Table(gr.nodes), EachOnce(gr),
         Within(gr.nodes, DOMAIN gr.out) = Within(gr.nodes, DOMAIN gr.in),
         NEW s, s = Freeze(gr)
  PROVE  Whole(s) /\ s.nodes = gr.nodes /\ Inner(s) = Within(gr.nodes, DOMAIN gr.out)
<1>1. /\ IsGraph(s) /\ s.nodes = gr.nodes /\ s.frozen = TRUE
      /\ s.out = SetToBag(Leading(gr)) /\ s.in = SetToBag(Coming(gr))
  BY FreezeFact
<1>2. DOMAIN s.in = Coming(gr) /\ DOMAIN s.out = Leading(gr)
  BY <1>1, BagFact
<1>3. /\ \A e : e \in Leading(gr) <=> e \in DOMAIN gr.out /\ e.to \in DOMAIN gr.nodes
      /\ \A e : e \in Coming(gr) <=> e \in DOMAIN gr.in /\ e.from \in DOMAIN gr.nodes
  BY DEF Leading, Coming
<1>4. \A e : e.from \in DOMAIN gr.nodes /\ e.to \in DOMAIN gr.nodes => (e \in DOMAIN gr.out <=> e \in DOMAIN gr.in)
  BY DEF Within
<1>5. Whole(s)
  BY <1>1, <1>2, <1>3, <1>4 DEF Whole, EachOnce
<1>6. Inner(s) = Within(gr.nodes, DOMAIN gr.out)
  BY <1>1, <1>2, <1>3 DEF Inner, Within
<1>7. QED
  BY <1>1, <1>5, <1>6

\* An image of a finite set is finite.
LEMMA ImageFinite ==
  ASSUME NEW S, IsFiniteSet(S), NEW f, NEW T, \A t \in T : \E x \in S : t = f[x]
  PROVE  IsFiniteSet(T)
<1> DEFINE R == {f[x] : x \in S}
           h == [x \in S |-> f[x]]
<1>1. h \in Surjection(S, R)
  BY Fun_IsSurj
<1>2. IsFiniteSet(R)
  BY <1>1, FS_Surjection
<1>3. T \subseteq R
  OBVIOUS
<1>4. QED
  BY <1>2, <1>3, FS_Subset

LEMMA CountFact ==
  ASSUME NEW S, IsFiniteSet(S)
  PROVE  Count(SetToBag(S)) = Cardinality(S)
<1> DEFINE bag == SetToBag(S)
           T == UNION {{e} \X (1..bag[e]) : e \in DOMAIN bag}
           F == [e \in S |-> <<e, 1>>]
<1>1. Count(bag) = Cardinality(T)
  BY DEF Count
<1>2. DOMAIN bag = S /\ \A e \in S : bag[e] = 1
  BY BagFact
<1>3. \A t : t \in T <=> \E e \in S : t = <<e, 1>>
  <2> HIDE DEF bag
  <2>1. ASSUME NEW e \in S PROVE {e} \X (1..bag[e]) = {<<e, 1>>}
    BY <1>2
  <2>2. QED  BY <1>2, <2>1
<1> HIDE DEF T
<1>4. F \in Bijection(S, T)
  BY <1>3, Fun_IsBij
<1>5. QED
  BY <1>1, <1>4, FS_Bijection, Fun_ExistsBij

\* Freeze never counts fewer than no dangling edges.
LEMMA DanglingFact ==
  ASSUME NEW gr, IsGraph(gr), gr.frozen = FALSE, EachOnce(gr), gr.dangling \in Nat,
         IsFiniteSet(DOMAIN gr.out), IsFiniteSet(DOMAIN gr.in)
  PROVE  Freeze(gr).dangling \in Nat
<1> DEFINE out == Those(gr.out, {e \in DOMAIN gr.out : e.to \in DOMAIN gr.nodes})
           in == Those(gr.in, {e \in DOMAIN gr.in : e.from \in DOMAIN gr.nodes})
<1>1. Freeze(gr).out = out /\ Freeze(gr).in = in
  BY DEF Freeze, IsGraph
<1>2. Freeze(gr).dangling = gr.dangling + (Count(gr.out) - Count(out)) + (Count(gr.in) - Count(in))
  BY DEF Freeze, IsGraph
<1> HIDE DEF out, in
<1>3. out = SetToBag(Leading(gr)) /\ in = SetToBag(Coming(gr))
  BY <1>1, FreezeFact
<1>4. Leading(gr) \subseteq DOMAIN gr.out /\ Coming(gr) \subseteq DOMAIN gr.in
  BY DEF Leading, Coming
<1>5. /\ IsFiniteSet(Leading(gr)) /\ Cardinality(Leading(gr)) <= Cardinality(DOMAIN gr.out)
      /\ IsFiniteSet(Coming(gr)) /\ Cardinality(Coming(gr)) <= Cardinality(DOMAIN gr.in)
  BY <1>4, FS_Subset
<1>6. /\ Cardinality(Leading(gr)) \in Nat /\ Cardinality(DOMAIN gr.out) \in Nat
      /\ Cardinality(Coming(gr)) \in Nat /\ Cardinality(DOMAIN gr.in) \in Nat
  BY <1>5, FS_CardinalityType
<1>7. /\ Count(out) = Cardinality(Leading(gr)) /\ Count(in) = Cardinality(Coming(gr))
      /\ Count(gr.out) = Cardinality(DOMAIN gr.out) /\ Count(gr.in) = Cardinality(DOMAIN gr.in)
  BY <1>3, <1>5, CountFact DEF EachOnce
<1>8. QED
  BY <1>2, <1>5, <1>6, <1>7

\* What a snapshot holds of a graph.
LEMMA WriteFact ==
  ASSUME NEW gr, NEW f, f = Freeze(gr), Whole(f), NEW version
  PROVE  WriteSnapshot(gr, version) =
           [version |-> version, nodes |-> f.nodes, edges |-> SetToBag(Inner(f))]
<1>1. WriteSnapshot(gr, version) =
        [version |-> version, nodes |-> f.nodes, edges |-> Those(f.out, Inner(f))]
  BY DEF WriteSnapshot, Inner
<1>2. Those(f.out, Inner(f)) = SetToBag(Inner(f))
  BY DEF Those, SetToBag, Inner, Whole, EachOnce
<1>3. QED
  BY <1>1, <1>2

LEMMA FrozenFact ==
  ASSUME NEW h, Whole(h)
  PROVE  Freeze(h) = h
  BY DEF Freeze, Whole

\* A bare graph that is sealed over finitely many edges is whole, and shows those of
\* the edges that lie between nodes.
LEMMA BuildFact ==
  ASSUME NEW b, Bare(b), b.dangling = 0, Table(b.nodes), NEW E, IsFiniteSet(E),
         NEW h, h = Freeze(AddEdges(b, SetToBag(E)))
  PROVE  /\ Whole(h) /\ h.nodes = b.nodes /\ Inner(h) = Within(b.nodes, E)
         /\ Within(b.nodes, E) = E => DOMAIN h.out = E /\ DOMAIN h.in = E
         /\ h.dangling \in Nat
<1> DEFINE a == AddEdges(b, SetToBag(E))
<1>1. a = [nodes |-> b.nodes, out |-> SetToBag(E), in |-> SetToBag(E), frozen |-> FALSE, dangling |-> 0]
  BY BareEdges
<1>2. h = Freeze(a)
  OBVIOUS
<1> HIDE DEF a
<1>3. /\ IsGraph(a) /\ a.frozen = FALSE /\ Table(a.nodes) /\ EachOnce(a) /\ a.nodes = b.nodes
      /\ DOMAIN a.out = E /\ DOMAIN a.in = E /\ a.dangling \in Nat
  BY <1>1, BagFact DEF IsGraph, EachOnce
<1>4. Whole(h) /\ h.nodes = b.nodes /\ Inner(h) = Within(b.nodes, E)
  BY <1>2, <1>3, FreezeWhole
<1>5. h.dangling \in Nat
  BY <1>2, <1>3, DanglingFact
<1>6. ASSUME Within(b.nodes, E) = E PROVE DOMAIN h.out = E /\ DOMAIN h.in = E
  <2>1. h.out = SetToBag(Leading(a)) /\ h.in = SetToBag(Coming(a))
    BY <1>2, <1>3, FreezeFact
  <2>2. DOMAIN h.out = Leading(a) /\ DOMAIN h.in = Coming(a)
    BY <2>1, BagFact
  <2>3. \A e \in E : e.from \in DOMAIN a.nodes /\ e.to \in DOMAIN a.nodes
    BY <1>3, <1>6 DEF Within
  <2>4. QED
    BY <1>3, <2>2, <2>3 DEF Leading, Coming
<1>7. QED
  BY <1>4, <1>5, <1>6

LEMMA NewBare == Bare(NewGraph) /\ NewGraph.dangling = 0 /\ Table(NewGraph.nodes)
<1>1. NewGraph.nodes = <<>> /\ NewGraph.dangling = 0
  BY DEF NewGraph
<1>2. Table(<<>>)
  BY DEF Table
<1>3. QED
  BY <1>1, <1>2, NewGraphFact

\* A new graph with some nodes.
LEMMA NodesFact ==
  ASSUME NEW nodes, Table(nodes), NEW b, b = AddNodes(NewGraph, nodes)
  PROVE  Bare(b) /\ b.nodes = nodes /\ b.dangling = 0
<1>1. Over(nodes, NewGraph.nodes) = nodes
  BY NewGraphFact DEF Over, Table
<1>2. Bare(b) /\ b.nodes = nodes
  BY <1>1, NewGraphFact, AddNodesFact DEF Bare
<1>3. b.dangling = 0
  BY DEF AddNodes, NewGraph
<1>4. QED
  BY <1>2, <1>3

\* A snapshot whose edges lie between its nodes is loaded as it is.
LEMMA LoadFact ==
  ASSUME NEW s, Table(s.nodes), NEW E, s.edges = SetToBag(E), Within(s.nodes, E) = E,
         IsFiniteSet(E), NEW h, h = LoadSnapshot(s)
  PROVE  /\ Whole(h) /\ h.nodes = s.nodes /\ Inner(h) = E
         /\ DOMAIN h.out = E /\ DOMAIN h.in = E
         /\ h.dangling \in Nat
<1> DEFINE b == AddNodes(NewGraph, s.nodes)
<1>1. Bare(b) /\ b.nodes = s.nodes /\ b.dangling = 0
  BY NodesFact
<1>2. h = Freeze(AddEdges(b, SetToBag(E)))
  BY DEF LoadSnapshot
<1> HIDE DEF b
<1>3. QED
  BY <1>1, <1>2, BuildFact

\* In a whole graph a node has no in-edge of a kind if and only if none of the edges
\* between nodes is one.
LEMMA NoDegree ==
  ASSUME NEW h, Whole(h), NEW n \in DOMAIN h.nodes, NEW kind, IsFiniteSet(Inner(h))
  PROVE  InDegree(h, n, kind) = 0 <=> \A e \in Inner(h) : ~(e.to = n /\ e.kind = kind)
<1> DEFINE S == {e \in DOMAIN h.in : e.to = n /\ e.kind = kind}
<1>1. S = {e \in Inner(h) : e.to = n /\ e.kind = kind}
  BY DEF Whole, Inner
<1>2. IsFiniteSet(S)
  BY <1>1, FS_Subset
<1>3. \A e \in DOMAIN h.in : h.in[e] = 1
  BY BagFact DEF Whole, EachOnce
<1>4. InDegree(h, n, kind) = Cardinality(S)
  BY <1>2, <1>3, DegreeFact
<1>5. Cardinality(S) = 0 <=> S = {}
  BY <1>2, FS_EmptySet
<1>6. QED
  BY <1>1, <1>4, <1>5

\* What an index holds at a node is what lies between nodes there.
LEMMA IndexFact ==
  ASSUME NEW h, Whole(h), NEW n \in DOMAIN h.nodes
  PROVE  /\ Out(h, n) = SetToBag({e \in Inner(h) : e.from = n})
         /\ In(h, n) = SetToBag({e \in Inner(h) : e.to = n})
<1>1. /\ \A S \in SUBSET DOMAIN h.in : Those(h.in, S) = SetToBag(S)
      /\ \A S \in SUBSET DOMAIN h.out : Those(h.out, S) = SetToBag(S)
  BY DEF Those, SetToBag, EachOnce, Whole
<1>2. Out(h, n) = SetToBag({e \in DOMAIN h.out : e.from = n}) /\ In(h, n) = SetToBag({e \in DOMAIN h.in : e.to = n})
  BY <1>1 DEF Out, In
<1>3. {e \in DOMAIN h.out : e.from = n} = {e \in Inner(h) : e.from = n}
  BY DEF Inner
<1>4. {e \in DOMAIN h.in : e.to = n} = {e \in Inner(h) : e.to = n}
  BY DEF Inner, Whole
<1>5. QED
  BY <1>2, <1>3, <1>4

-----------------------------------------------------------------------------
(* What is said of the scan *)

KnownIn(A) == {a \in A : Normalized(a)}
Owned(a) == Normalized(a) /\ Token(a) # ""

Refs(A) == {Leaf(a.name) : a \in KnownIn(A)} \cup UNION {DOMAIN ContainerNodes(a) : a \in A}

\* The nodes of a release that had no regions.
EarlierRefs(A) ==
  {Leaf(a.name) : a \in KnownIn(A)} \cup
  UNION {{r \in DOMAIN ContainerNodes(a) : r[1] # "region"} : a \in A}

IsNode(n) == n = [kind |-> n.kind, project |-> n.project, location |-> n.location,
                  users |-> n.users, metrics |-> n.metrics]

\* The node n shows asset a, its location as region spells it.
Shows(n, a, region) ==
  /\ n.kind = a.type /\ n.project = a.owner /\ n.location = region[a.location]
  /\ n.users = Cardinality(a.users)

Described(nodes, A, region) ==
  /\ Table(nodes)
  /\ \A r \in DOMAIN nodes : IsNode(nodes[r]) /\ nodes[r].metrics \subseteq {"value"}
  /\ \A a \in KnownIn(A) : Shows(nodes[Leaf(a.name)], a, region)
  /\ \A r \in DOMAIN nodes : r[1] # "leaf" => nodes[r].kind = r[1] /\ nodes[r].location = ""

\* The edges E lie between nodes, and those that attach are the links among them.
Linked(A, nodes, E) ==
  /\ IsFiniteSet(E) /\ Within(nodes, E) = E
  /\ \A e \in E : e.kind = "attached_to" => \E a \in A : e \in LinkEdges(a)
  /\ \A a \in A : \A e \in LinkEdges(a) :
       e.kind = "attached_to" /\ e.from \in DOMAIN nodes /\ e.to \in DOMAIN nodes => e \in E

Direct(a) == Edge(Leaf(a.name), Project(Token(a)), "contains")

\* What an ingestion writes of the assets, or a migration has made of them: a leaf
\* that was migrated hangs off its project as well as off its region.
Fresh(A, nodes, E) ==
  /\ DOMAIN nodes = Refs(A) /\ Described(nodes, A, Canonical) /\ Linked(A, nodes, E)
  /\ \A a \in A : ContainmentEdges(a) \subseteq E
  /\ \A e \in E : e.kind = "contains" =>
       \E a \in A : Owned(a) /\ (e \in ContainmentEdges(a) \/ e = Direct(a))

Earlier(A, nodes, E) ==
  /\ DOMAIN nodes = EarlierRefs(A) /\ Described(nodes, A, AsSpelled) /\ Linked(A, nodes, E)
  /\ \A a \in A : Owned(a) => AncestorEdges(a) \subseteq E /\ Direct(a) \in E
  /\ \A e \in E : e.kind = "contains" =>
       \E a \in A : Owned(a) /\ (e \in AncestorEdges(a) \/ e = Direct(a))

\* What can be read of a graph with these nodes and edges.
Seen(nodes, E) ==
  [nodes |-> nodes,
   out |-> [r \in DOMAIN nodes |-> SetToBag({e \in E : e.from = r})],
   in |-> [r \in DOMAIN nodes |-> SetToBag({e \in E : e.to = r})]]

\* The listing has written the nodes and collected the edges of what it has visited.
Listed ==
  phase = "list" =>
    LET A == assets \ todo
    IN /\ Bare(g) /\ g.dangling = 0
       /\ DOMAIN g.nodes = Refs(A) /\ Described(g.nodes, A, Canonical)
       /\ edges = UNION {ContainmentEdges(a) \cup LinkEdges(a) : a \in A}

NoGraph == phase \in {"failed", "saved"} => g = NewGraph

\* A snapshot holds each edge once and all of them between its nodes.
Stored ==
  phase \in {"saved", "replay"} =>
    /\ snapshot.version \in {2, 3}
    /\ snapshot.edges = SetToBag(DOMAIN snapshot.edges)
    /\ snapshot.version = 2 => Earlier(assets, snapshot.nodes, DOMAIN snapshot.edges)
    /\ snapshot.version = 3 => /\ Fresh(assets, snapshot.nodes, DOMAIN snapshot.edges)
                               /\ view = Seen(snapshot.nodes, DOMAIN snapshot.edges)

\* A replayed graph is what the snapshot holds, any other what the assets come to.
Sealed ==
  /\ phase \in {"enrich", "replay", "migrated"} => Whole(g) /\ g.dangling \in Nat
  /\ phase \in {"enrich", "migrated"} => Fresh(assets, g.nodes, Inner(g))
  /\ phase = "replay" => /\ g.nodes = snapshot.nodes /\ Inner(g) = DOMAIN snapshot.edges
                         /\ DOMAIN g.out = Inner(g) /\ DOMAIN g.in = Inner(g)

Types ==
  /\ assets \in Inventories /\ todo \subseteq assets
  /\ phase \in {"list", "failed", "enrich", "saved", "replay", "migrated"}
  /\ snapshot.version \in {0, 2, 3}

IInv == Types /\ Listed /\ NoGraph /\ Stored /\ Sealed

-----------------------------------------------------------------------------
(* References, places and edges *)

\* References are told apart by their kind and what they name.
LEMMA RefFact ==
  /\ \A x, y : Leaf(x) = Leaf(y) => x = y
  /\ \A x, y : Project(x) = Project(y) => x = y
  /\ \A x, y : Folder(x) = Folder(y) => x = y
  /\ \A x, y : Organization(x) = Organization(y) => x = y
  /\ \A x, y, k, l : Region(x, k) = Region(y, l) => x = y /\ k = l
  /\ \A x : Leaf(x)[1] = "leaf"
  /\ \A x : Project(x)[1] = "project"
  /\ \A x : Folder(x)[1] = "folder"
  /\ \A x : Organization(x)[1] = "organization"
  /\ \A x, l : Region(x, l)[1] = "region"
  /\ \A x : Project(x)[2] = x
  /\ \A x, l : Region(x, l)[2] = x
  BY DEF Leaf, Project, Folder, Organization, Region

LEMMA ApartFact ==
  /\ \A x, y : Leaf(x) # Project(y)
  /\ \A x, y : Leaf(x) # Folder(y)
  /\ \A x, y : Leaf(x) # Organization(y)
  /\ \A x, y, l : Leaf(x) # Region(y, l)
  /\ \A x, y : Project(x) # Folder(y)
  /\ \A x, y : Project(x) # Organization(y)
  /\ \A x, y, l : Project(x) # Region(y, l)
  /\ \A x, y : Folder(x) # Organization(y)
  /\ \A x, y, l : Folder(x) # Region(y, l)
  /\ \A x, y, l : Organization(x) # Region(y, l)
  BY DEF Leaf, Project, Folder, Organization, Region

LEMMA EdgeFact ==
  ASSUME NEW x, NEW y, NEW k
  PROVE  Edge(x, y, k).from = x /\ Edge(x, y, k).to = y /\ Edge(x, y, k).kind = k
  BY DEF Edge

\* The containers of an asset.
LEMMA PlacesFact ==
  ASSUME NEW a
  PROVE  /\ \A r : r \in DOMAIN ContainerNodes(a) <=>
              /\ Owned(a)
              /\ \/ r = Project(Token(a))
                 \/ Canonical[a.location] # "" /\ r = Region(Token(a), Canonical[a.location])
                 \/ \E f \in a.folders : r = Folder(f)
                 \/ a.org # "" /\ r = Organization(a.org)
         /\ \A r \in DOMAIN ContainerNodes(a) :
              \E p : ContainerNodes(a)[r] = Container(r[1], p)
<1>1. CASE ~Owned(a)
  <2>1. ContainerNodes(a) = <<>>
    BY <1>1 DEF Owned, ContainerNodes
  <2>2. DOMAIN ContainerNodes(a) = {}
    BY <2>1
  <2>3. QED
    BY <1>1, <2>2
<1>2. CASE Owned(a)
  <2> DEFINE R == {Project(Token(a))}
                  \cup (IF Canonical[a.location] = "" THEN {} ELSE {Region(Token(a), Canonical[a.location])})
                  \cup AncestorsOf(a)
             P(r) == IF r[1] \in {"project", "region"} THEN Token(a) ELSE ""
  <2>1. ContainerNodes(a) = [r \in R |-> Container(r[1], P(r))]
    BY <1>2 DEF Owned, ContainerNodes
  <2>2. DOMAIN ContainerNodes(a) = R
    BY <2>1
  <2>3. \A r \in R : ContainerNodes(a)[r] = Container(r[1], P(r))
    BY <2>1
  <2>4. \A r : r \in R <=>
           \/ r = Project(Token(a))
           \/ Canonical[a.location] # "" /\ r = Region(Token(a), Canonical[a.location])
           \/ \E f \in a.folders : r = Folder(f)
           \/ a.org # "" /\ r = Organization(a.org)
    BY DEF AncestorsOf
  <2> HIDE DEF R, P
  <2>5. QED
    BY <1>2, <2>2, <2>3, <2>4
<1>3. QED
  BY <1>1, <1>2

LEMMA AncestorEdgesFact ==
  ASSUME NEW a, NEW e
  PROVE  e \in AncestorEdges(a) <=>
           \/ \E f \in a.folders : e = Edge(Project(Token(a)), Folder(f), "contains")
           \/ /\ a.org # ""
              /\ \/ \E f \in a.folders : e = Edge(Folder(f), Organization(a.org), "contains")
                 \/ a.folders = {} /\ e = Edge(Project(Token(a)), Organization(a.org), "contains")
<1> DEFINE above == {Folder(f) : f \in a.folders}
           x == IF above = {} THEN {Project(Token(a))} ELSE above
<1>1. AncestorEdges(a) = {Edge(Project(Token(a)), f, "contains") : f \in above} \cup
         IF a.org = "" THEN {} ELSE {Edge(y, Organization(a.org), "contains") : y \in x}
  BY DEF AncestorEdges
<1>2. \A y : y \in x <=> \/ \E f \in a.folders : y = Folder(f)
                         \/ a.folders = {} /\ y = Project(Token(a))
  OBVIOUS
<1>3. \A y : y \in above <=> \E f \in a.folders : y = Folder(f)
  OBVIOUS
<1> HIDE DEF x, above
<1>4. QED
  BY <1>1, <1>2, <1>3

LEMMA ContainmentEdgesFact ==
  ASSUME NEW a, NEW e
  PROVE  e \in ContainmentEdges(a) <=>
           /\ Owned(a)
           /\ \/ e \in AncestorEdges(a)
              \/ Canonical[a.location] = "" /\ e = Direct(a)
              \/ /\ Canonical[a.location] # ""
                 /\ \/ e = Edge(Leaf(a.name), Region(Token(a), Canonical[a.location]), "contains")
                    \/ e = Edge(Region(Token(a), Canonical[a.location]), Project(Token(a)), "contains")
  BY DEF ContainmentEdges, Owned, Direct

\* The links that attach, and no link contains.
LEMMA LinkEdgesFact ==
  ASSUME NEW a, NEW e
  PROVE  /\ e \in LinkEdges(a) => e.kind # "contains"
         /\ e \in LinkEdges(a) /\ e.kind = "attached_to" <=>
              \/ /\ a.type = "instance"
                 /\ \E d \in a.disks : e = Edge(Leaf(a.name), Leaf(d), "attached_to")
              \/ /\ a.type = "disk"
                 /\ \E u \in a.users : e = Edge(Leaf(u), Leaf(a.name), "attached_to")
<1>1. CASE a.type = "instance"
  BY <1>1, EdgeFact DEF LinkEdges
<1>2. CASE a.type = "disk"
  BY <1>2, EdgeFact DEF LinkEdges
<1>3. CASE a.type \notin {"instance", "disk"}
  BY <1>3 DEF LinkEdges
<1>4. QED
  BY <1>1, <1>2, <1>3

\* A table of nodes has the leaves of some assets, and only these.
OfLeaves(nodes, A, region) ==
  /\ DOMAIN nodes = {Leaf(a.name) : a \in A}
  /\ \A a \in A : nodes[Leaf(a.name)] = LeafNode(a, region[a.location])

LEMMA LeafNodesFact ==
  ASSUME NEW A, \A a, b \in A : a.name = b.name => a = b, NEW region
  PROVE  OfLeaves(LeafNodes(A, region), A, region)
<1>1. DOMAIN LeafNodes(A, region) = {Leaf(a.name) : a \in A}
  BY DEF LeafNodes
<1>2. ASSUME NEW a \in A
      PROVE  LeafNodes(A, region)[Leaf(a.name)] = LeafNode(a, region[a.location])
  <2>1. (CHOOSE b \in A : Leaf(a.name) = Leaf(b.name)) = a
    BY RefFact
  <2>2. QED
    BY <2>1 DEF LeafNodes
<1>3. QED
  BY <1>1, <1>2 DEF OfLeaves

LEMMA LeafNodeFact ==
  ASSUME NEW a, NEW l
  PROVE  /\ IsNode(LeafNode(a, l))
         /\ LeafNode(a, l).kind = a.type /\ LeafNode(a, l).project = a.owner
         /\ LeafNode(a, l).location = l /\ LeafNode(a, l).users = Cardinality(a.users)
         /\ LeafNode(a, l).metrics = {}
  BY DEF LeafNode, IsNode

LEMMA ContainerFact ==
  ASSUME NEW k, NEW p
  PROVE  /\ IsNode(Container(k, p)) /\ Container(k, p).kind = k
         /\ Container(k, p).location = "" /\ Container(k, p).metrics = {}
  BY DEF Container, IsNode

\* What the proofs use of an inventory.
LEMMA InventoryFact ==
  ASSUME assets \in Inventories
  PROVE  /\ IsFiniteSet(assets)
         /\ \A a \in assets : a.location \in Locations /\ IsFiniteSet(a.users)
         /\ \A a, b \in assets : a.name = b.name => a = b
         /\ \A a, b \in assets : Token(a) = Token(b) /\ Token(a) # "" => a.folders = b.folders /\ a.org = b.org
         /\ \A a, b \in assets : \A f \in a.folders : f \in b.folders => a.org = b.org
<1> DEFINE One(a) == a.location \in Locations /\ IsFiniteSet(a.users)
           Two(a, b) == /\ a.name = b.name => a = b
                        /\ Token(a) = Token(b) /\ Token(a) # "" => a.folders = b.folders /\ a.org = b.org
                        /\ a.folders \cap b.folders # {} => a.org = b.org
<1>1. \A inv \in Inventories :
        /\ IsFiniteSet(inv)
        /\ \A a \in inv : One(a)
        /\ \A a, b \in inv : Two(a, b)
  BY Zenon, InventoryAssumption
<1>2. /\ \A a, b \in assets : Two(a, b)
      /\ \A a \in assets : One(a)
      /\ IsFiniteSet(assets)
  <2> HIDE DEF One, Two
  <2>1. QED  BY <1>1
<1>3. \A a, b \in assets : \A f \in a.folders : f \in b.folders => a.org = b.org
  BY <1>2
<1>4. QED
  BY <1>2, <1>3

\* The assets' edges are finitely many.
LEMMA FiniteEdges ==
  ASSUME assets \in Inventories, NEW a \in assets
  PROVE  /\ IsFiniteSet(AncestorEdges(a)) /\ IsFiniteSet(LinkEdges(a))
         /\ IsFiniteSet(ContainmentEdges(a))
<1>1. IsFiniteSet(a.folders) /\ IsFiniteSet(a.disks) /\ IsFiniteSet(a.users) /\ IsFiniteSet(a.source)
  BY InventoryAssumption
<1>2. IsFiniteSet(AncestorEdges(a))
  <2> DEFINE S == a.folders
             up == [f \in S |-> Edge(Project(Token(a)), Folder(f), "contains")]
             top == [f \in S |-> Edge(Folder(f), Organization(a.org), "contains")]
             U == {up[f] : f \in S}
             T == {top[f] : f \in S}
             P == {Edge(Project(Token(a)), Organization(a.org), "contains")}
  <2>1. \A e : e \in AncestorEdges(a) => e \in U \cup T \cup P
    <3> TAKE e
    <3>1. ASSUME NEW f \in a.folders, e = Edge(Project(Token(a)), Folder(f), "contains")
          PROVE  e \in U
      BY <3>1
    <3>2. ASSUME NEW f \in a.folders, e = Edge(Folder(f), Organization(a.org), "contains")
          PROVE  e \in T
      BY <3>2
    <3> HIDE DEF U, T
    <3>3. QED
      BY <3>1, <3>2, AncestorEdgesFact
  <2>2. (\A t \in U : \E f \in S : t = up[f]) /\ (\A t \in T : \E f \in S : t = top[f])
    OBVIOUS
  <2> HIDE DEF up, top, U, T, P
  <2>3. IsFiniteSet(U) /\ IsFiniteSet(T) /\ IsFiniteSet(P)
    <3>1. IsFiniteSet(S)
      BY <1>1
    <3> HIDE DEF S
    <3>2. QED
      <4>1. IsFiniteSet(P)
        BY FS_Singleton DEF P
      <4>2. QED
        BY <2>2, <3>1, <4>1, ImageFinite
  <2>4. IsFiniteSet(U \cup T \cup P)
    BY <2>3, FS_Union
  <2>5. QED
    BY <2>1, <2>4, FS_Subset
<1>3. IsFiniteSet(LinkEdges(a))
  <2> DEFINE d == [x \in a.disks |-> Edge(Leaf(a.name), Leaf(x), "attached_to")]
             n == [x \in a.source |-> Edge(Leaf(a.name), Leaf(x), "uses")]
             u == [x \in a.users |-> Edge(Leaf(x), Leaf(a.name), "attached_to")]
             s == [x \in a.source |-> Edge(Leaf(a.name), Leaf(x), "created_from")]
             D == {Edge(Leaf(a.name), Leaf(x), "attached_to") : x \in a.disks}
             N == {Edge(Leaf(a.name), Leaf(x), "uses") : x \in a.source}
             U == {Edge(Leaf(x), Leaf(a.name), "attached_to") : x \in a.users}
             C == {Edge(Leaf(a.name), Leaf(x), "created_from") : x \in a.source}
  <2>1. LinkEdges(a) \subseteq D \cup N \cup U \cup C
    BY DEF LinkEdges
  <2>2. /\ \A t \in D : \E x \in a.disks : t = d[x]
        /\ \A t \in N : \E x \in a.source : t = n[x]
        /\ \A t \in U : \E x \in a.users : t = u[x]
        /\ \A t \in C : \E x \in a.source : t = s[x]
    OBVIOUS
  <2> HIDE DEF d, n, u, s, D, N, U, C
  <2>3. IsFiniteSet(D) /\ IsFiniteSet(N) /\ IsFiniteSet(U) /\ IsFiniteSet(C)
    BY <1>1, <2>2, ImageFinite
  <2>4. IsFiniteSet(D \cup N \cup U \cup C)
    BY <2>3, FS_Union
  <2>5. QED
    BY <2>1, <2>4, FS_Subset
<1>4. IsFiniteSet(ContainmentEdges(a))
  <2> DEFINE d == {Direct(a)}
             r == {Edge(Leaf(a.name), Region(Token(a), Canonical[a.location]), "contains")}
             p == {Edge(Region(Token(a), Canonical[a.location]), Project(Token(a)), "contains")}
             all == AncestorEdges(a) \cup d \cup r \cup p
  <2>1. IsFiniteSet(all)
    BY <1>2, FS_Singleton, FS_Union
  <2>2. ContainmentEdges(a) \subseteq all
    BY ContainmentEdgesFact
  <2>3. QED
    BY <2>1, <2>2, FS_Subset
<1>5. QED
  BY <1>2, <1>3, <1>4

-----------------------------------------------------------------------------
(* What the nodes and edges of a graph say *)

\* What the kind of a container says about the asset.
LEMMA PlaceKinds ==
  ASSUME NEW a
  PROVE  /\ \A x : Leaf(x) \notin DOMAIN ContainerNodes(a)
         /\ \A t : Project(t) \in DOMAIN ContainerNodes(a) => t = Token(a)
         /\ \A t, l : Region(t, l) \in DOMAIN ContainerNodes(a) => t = Token(a)
         /\ \A f : Folder(f) \in DOMAIN ContainerNodes(a) => f \in a.folders
         /\ \A r \in DOMAIN ContainerNodes(a) :
              Owned(a) /\ r[1] \in {"project", "region", "folder", "organization"}
<1> DEFINE At(r) == \/ r = Project(Token(a))
                    \/ r = Region(Token(a), Canonical[a.location])
                    \/ \E f \in a.folders : r = Folder(f)
                    \/ r = Organization(a.org)
<1>1. \A r \in DOMAIN ContainerNodes(a) : Owned(a) /\ At(r)
  BY PlacesFact
<1>2. \A x : ~At(Leaf(x))
  BY ApartFact
<1>3. ASSUME NEW t, At(Project(t)) PROVE t = Token(a)
  BY <1>3, ApartFact, RefFact
<1>4. ASSUME NEW t, NEW l, At(Region(t, l)) PROVE t = Token(a)
  BY <1>4, ApartFact, RefFact
<1>5. ASSUME NEW f, At(Folder(f)) PROVE f \in a.folders
  BY <1>5, ApartFact, RefFact
<1>6. \A r : At(r) => r[1] \in {"project", "region", "folder", "organization"}
  BY RefFact
<1> HIDE DEF At
<1>7. QED
  BY <1>1, <1>2, <1>3, <1>4, <1>5, <1>6

LEMMA PlacesOf ==
  ASSUME NEW a, Owned(a)
  PROVE  /\ Project(Token(a)) \in DOMAIN ContainerNodes(a)
         /\ Canonical[a.location] # "" => Region(Token(a), Canonical[a.location]) \in DOMAIN ContainerNodes(a)
         /\ \A f \in a.folders : Folder(f) \in DOMAIN ContainerNodes(a)
         /\ a.org # "" => Organization(a.org) \in DOMAIN ContainerNodes(a)
  BY PlacesFact

\* A step up from an asset or from one of its containers leads to a container of it.
LEMMA StepClosed ==
  ASSUME assets \in Inventories, NEW a \in assets, NEW b \in assets, Owned(b),
         NEW e, e \in ContainmentEdges(b) \/ e = Direct(b),
         e.from = Leaf(a.name) \/ e.from \in DOMAIN ContainerNodes(a)
  PROVE  e.to \in DOMAIN ContainerNodes(a)
<1> DEFINE P == DOMAIN ContainerNodes(a)
           l == Canonical[b.location]
<1>0. e.from = Leaf(a.name) \/ e.from \in P
  OBVIOUS
<1> HIDE DEF P
<1>1. /\ Token(a) = Token(b) => a.folders = b.folders /\ a.org = b.org
      /\ \A f \in a.folders : f \in b.folders => a.org = b.org
  <2>1. Token(b) # ""
    BY DEF Owned
  <2>2. QED
    BY <2>1, InventoryFact
<1>2. ASSUME e.from = Leaf(b.name), e.to \in DOMAIN ContainerNodes(b)
      PROVE  e.to \in P
  <2>1. Leaf(b.name) \notin P
    BY PlaceKinds DEF P
  <2>2. a.name = b.name
    BY <1>0, <1>2, <2>1, RefFact
  <2>3. a = b
    BY <2>2, InventoryFact
  <2>4. QED
    BY <1>2, <2>3 DEF P
<1>3. ASSUME e.from = Project(Token(b))
      PROVE  Owned(a) /\ Token(a) = Token(b)
  <2>1. Project(Token(b)) \in P
    BY <1>0, <1>3, ApartFact
  <2>2. QED
    BY <2>1, PlaceKinds DEF P
<1>4. CASE e = Direct(b)
  <2>1. e.from = Leaf(b.name) /\ e.to = Project(Token(b))
    BY <1>4 DEF Edge, Direct
  <2>2. QED
    BY <1>2, <2>1, PlacesOf DEF P
<1>5. CASE l # "" /\ e = Edge(Leaf(b.name), Region(Token(b), l), "contains")
  <2>1. e.from = Leaf(b.name) /\ e.to = Region(Token(b), l)
    BY <1>5 DEF Edge
  <2>2. QED
    BY <1>2, <1>5, <2>1, PlacesOf DEF P
<1>6. CASE l # "" /\ e = Edge(Region(Token(b), l), Project(Token(b)), "contains")
  <2>1. e.from = Region(Token(b), l) /\ e.to = Project(Token(b))
    BY <1>6 DEF Edge
  <2>2. Region(Token(b), l) \in P
    BY <1>0, <2>1, ApartFact
  <2>3. Owned(a) /\ Token(a) = Token(b)
    BY <2>2, PlaceKinds DEF P
  <2>4. QED
    BY <2>1, <2>3, PlacesOf DEF P
<1>7. CASE e \in AncestorEdges(b)
  <2>1. ASSUME NEW f \in b.folders, e = Edge(Project(Token(b)), Folder(f), "contains")
        PROVE  e.to \in P
    <3>1. e.from = Project(Token(b)) /\ e.to = Folder(f)
      BY <2>1 DEF Edge
    <3>2. QED
      BY <1>1, <1>3, <3>1, PlacesOf DEF P
  <2>2. ASSUME NEW f \in b.folders, b.org # "", e = Edge(Folder(f), Organization(b.org), "contains")
        PROVE  e.to \in P
    <3>1. e.from = Folder(f) /\ e.to = Organization(b.org)
      BY <2>2 DEF Edge
    <3>2. Folder(f) \in P
      BY <1>0, <3>1, ApartFact
    <3>3. Owned(a) /\ f \in a.folders
      BY <3>2, PlaceKinds DEF P
    <3>4. a.org = b.org
      BY <1>1, <3>3
    <3>5. QED
      BY <2>2, <3>1, <3>3, <3>4, PlacesOf DEF P
  <2>3. ASSUME b.org # "", e = Edge(Project(Token(b)), Organization(b.org), "contains")
        PROVE  e.to \in P
    <3>1. e.from = Project(Token(b)) /\ e.to = Organization(b.org)
      BY <2>3 DEF Edge
    <3>2. QED
      BY <1>1, <1>3, <2>3, <3>1, PlacesOf DEF P
  <2>4. QED
    BY <1>7, <2>1, <2>2, <2>3, AncestorEdgesFact DEF P
<1>8. QED
  BY <1>4, <1>5, <1>6, <1>7, ContainmentEdgesFact DEF P

\* From nodes, Above follows the edges that lie between nodes.
LEMMA AboveFact ==
  ASSUME NEW h, NEW R, R \subseteq DOMAIN h.nodes
  PROVE  Above(h, R) = {e.to : e \in {e \in Inner(h) : e.kind = "contains" /\ e.from \in R}}
<1>1. {e \in DOMAIN h.out : e.kind = "contains" /\ e.from \in R}
        = {e \in Inner(h) : e.kind = "contains" /\ e.from \in R}
  BY DEF Inner
<1>2. QED
  BY <1>1 DEF Above

\* In a fresh graph the walk out from a leaf meets its containers and nothing else.
LEMMA FreshContainers ==
  ASSUME assets \in Inventories, NEW h, Fresh(assets, h.nodes, Inner(h)), NEW a \in Known
  PROVE  Containers(h, Leaf(a.name)) = DOMAIN ContainerNodes(a)
<1> DEFINE P == DOMAIN ContainerNodes(a)
           zero == {Leaf(a.name)}
           one == Above(h, zero)
           two == Above(h, one)
           three == Above(h, two)
           four == Above(h, three)
           l == Canonical[a.location]
<1>1. a \in assets /\ Normalized(a) /\ a \in KnownIn(assets)
  BY DEF Known, KnownIn
<1>2. zero \cup P \subseteq DOMAIN h.nodes
  BY <1>1 DEF Fresh, Refs
<1>3. ASSUME NEW R, R \subseteq zero \cup P
      PROVE  Above(h, R) \subseteq P
  <2>1. SUFFICES ASSUME NEW e \in Inner(h), e.kind = "contains", e.from \in R PROVE e.to \in P
    <3>1. R \subseteq DOMAIN h.nodes
      BY <1>2, <1>3
    <3>2. QED
      BY <3>1, AboveFact
  <2>2. PICK b \in assets : Owned(b) /\ (e \in ContainmentEdges(b) \/ e = Direct(b))
    BY <2>1 DEF Fresh
  <2>3. e.from = Leaf(a.name) \/ e.from \in P
    BY <1>3, <2>1
  <2>4. QED
    BY <1>1, <2>2, <2>3, StepClosed
<1>4. ASSUME NEW R, R \subseteq zero \cup P, NEW e \in Inner(h), e.kind = "contains", e.from \in R
      PROVE  e.to \in Above(h, R)
  <2>1. R \subseteq DOMAIN h.nodes
    BY <1>2, <1>4
  <2>2. QED
    BY <1>4, <2>1, AboveFact
<1> HIDE DEF P
<1>5. one \subseteq P /\ two \subseteq P /\ three \subseteq P /\ four \subseteq P
  <2>1. one \subseteq P
    BY <1>3
  <2> HIDE DEF one
  <2>2. two \subseteq P
    BY <1>3, <2>1
  <2> HIDE DEF two
  <2>3. three \subseteq P
    BY <1>3, <2>2
  <2> HIDE DEF three
  <2>4. four \subseteq P
    BY <1>3, <2>3
  <2>5. QED
    BY <2>1, <2>2, <2>3, <2>4
<1>6. P \subseteq one \cup two \cup three \cup four
  <2> HIDE DEF zero, one, two, three, four
  <2>1. SUFFICES ASSUME Owned(a) PROVE P \subseteq one \cup two \cup three \cup four
    BY PlacesFact DEF P
  <2> DEFINE p == Project(Token(a))
             r == Region(Token(a), l)
  <2>2. \A e : e \in ContainmentEdges(a) => e \in Inner(h)
    BY <1>1 DEF Fresh
  <2>3. \A e : e \in AncestorEdges(a) => e \in Inner(h)
    BY <2>1, <2>2, ContainmentEdgesFact
  <2>4. /\ \A x, y : x \in zero /\ Edge(x, y, "contains") \in Inner(h) => y \in one
        /\ \A x, y : x \in one /\ Edge(x, y, "contains") \in Inner(h) => y \in two
        /\ \A x, y : x \in two /\ Edge(x, y, "contains") \in Inner(h) => y \in three
        /\ \A x, y : x \in three /\ Edge(x, y, "contains") \in Inner(h) => y \in four
    <3>1. ASSUME NEW R, R \subseteq zero \cup P, NEW x \in R, NEW y, Edge(x, y, "contains") \in Inner(h)
          PROVE  y \in Above(h, R)
      BY <1>4, <3>1, EdgeFact
    <3>2. one = Above(h, zero) /\ two = Above(h, one) /\ three = Above(h, two) /\ four = Above(h, three)
      BY DEF one, two, three, four
    <3>3. QED
      BY <1>5, <3>1, <3>2
  <2>5. l = "" => p \in one
    <3>1. l = "" => Direct(a) \in Inner(h)
      BY <2>1, <2>2, ContainmentEdgesFact
    <3>2. QED
      BY <2>4, <3>1 DEF Direct, zero
  <2>6. l # "" => r \in one /\ p \in two
    <3>1. l # "" => Edge(Leaf(a.name), r, "contains") \in Inner(h) /\ Edge(r, p, "contains") \in Inner(h)
      BY <2>1, <2>2, ContainmentEdgesFact
    <3>2. QED
      BY <2>4, <3>1 DEF zero
  <2>7. p \in one \cup two
    BY <2>5, <2>6
  <2>8. \A f \in a.folders : Folder(f) \in two \cup three
    <3>1. \A f \in a.folders : Edge(p, Folder(f), "contains") \in Inner(h)
      BY <2>3, AncestorEdgesFact
    <3>2. QED
      BY <2>4, <2>7, <3>1
  <2>9. a.org # "" => Organization(a.org) \in two \cup three \cup four
    <3>1. a.org # "" => \A f \in a.folders : Edge(Folder(f), Organization(a.org), "contains") \in Inner(h)
      BY <2>3, AncestorEdgesFact
    <3>2. a.org # "" /\ a.folders = {} => Edge(p, Organization(a.org), "contains") \in Inner(h)
      BY <2>3, AncestorEdgesFact
    <3>3. QED
      BY <2>4, <2>7, <2>8, <3>1, <3>2
  <2>10. \A x \in P : \/ x = p
                      \/ l # "" /\ x = r
                      \/ \E f \in a.folders : x = Folder(f)
                      \/ a.org # "" /\ x = Organization(a.org)
    BY PlacesFact DEF P
  <2> HIDE DEF p, r, l
  <2>11. QED
    BY <2>5, <2>6, <2>7, <2>8, <2>9, <2>10
<1>7. QED
  BY <1>5, <1>6 DEF Containers, P

LEMMA LeavesFact ==
  ASSUME NEW h, DOMAIN h.nodes = Refs(assets) \/ DOMAIN h.nodes = EarlierRefs(assets)
  PROVE  Leaves(h) = {Leaf(a.name) : a \in KnownIn(assets)}
<1>1. \A r \in DOMAIN h.nodes :
        (\E a \in KnownIn(assets) : r = Leaf(a.name)) \/ \E a \in assets : r \in DOMAIN ContainerNodes(a)
  BY DEF Refs, EarlierRefs
<1>2. \A a \in KnownIn(assets) : Leaf(a.name) \in DOMAIN h.nodes
  BY DEF Refs, EarlierRefs
<1>3. \A a \in assets : \A r \in DOMAIN ContainerNodes(a) : r[1] # "leaf"
  BY PlaceKinds
<1>4. QED
  BY <1>1, <1>2, <1>3, RefFact DEF Leaves

\* A disk passes for detached if and only if no asset says otherwise.
LEMMA DetachedFact ==
  ASSUME assets \in Inventories, NEW h, Whole(h),
         Leaves(h) = {Leaf(a.name) : a \in KnownIn(assets)},
         NEW region, Described(h.nodes, assets, region), Linked(assets, h.nodes, Inner(h))
  PROVE  Unattached(h) = {Leaf(d.name) : d \in {d \in assets :
           /\ d.type = "disk" /\ d.users = {}
           /\ \A i \in assets : i.type = "instance" => d.name \notin i.disks}}
<1> DEFINE Free(d) == \A i \in assets : i.type = "instance" => d.name \notin i.disks
           Into(r) == {e \in Inner(h) : e.to = r /\ e.kind = "attached_to"}
<1>1. \A a \in KnownIn(assets) :
        /\ a \in assets /\ Leaf(a.name) \in DOMAIN h.nodes
        /\ h.nodes[Leaf(a.name)].kind = a.type
        /\ h.nodes[Leaf(a.name)].users = Cardinality(a.users)
  BY DEF Leaves, Described, Shows, KnownIn
<1>2. \A a \in assets : a.type \in {"instance", "disk"} => a \in KnownIn(assets)
  BY ModelledAssumption DEF KnownIn, Normalized
<1>3. \A a \in assets : Cardinality(a.users) = 0 <=> a.users = {}
  BY InventoryFact, FS_EmptySet
<1>4. ASSUME NEW d \in KnownIn(assets)
      PROVE  InDegree(h, Leaf(d.name), "attached_to") = 0 <=> Into(Leaf(d.name)) = {}
  <2>1. IsFiniteSet(Inner(h)) /\ Leaf(d.name) \in DOMAIN h.nodes
    BY <1>1 DEF Linked
  <2>2. QED
    BY <2>1, NoDegree
<1>5. ASSUME NEW d \in KnownIn(assets), d.type = "disk", d.users = {}
      PROVE  Into(Leaf(d.name)) = {} <=> Free(d)
  <2>1. ASSUME NEW i \in assets, i.type = "instance", d.name \in i.disks
        PROVE  Into(Leaf(d.name)) # {}
    <3> DEFINE e == Edge(Leaf(i.name), Leaf(d.name), "attached_to")
    <3>1. e.from = Leaf(i.name) /\ e.to = Leaf(d.name) /\ e.kind = "attached_to"
      BY DEF Edge
    <3>2. e \in LinkEdges(i)
      BY <2>1, <3>1, LinkEdgesFact
    <3>3. e.from \in DOMAIN h.nodes /\ e.to \in DOMAIN h.nodes
      BY <1>1, <1>2, <2>1, <3>1
    <3> HIDE DEF e
    <3>4. e \in Inner(h)
      BY <3>1, <3>2, <3>3 DEF Linked
    <3>5. QED
      BY <3>1, <3>4
  <2>2. ASSUME NEW e \in Inner(h), e.to = Leaf(d.name), e.kind = "attached_to"
        PROVE  ~Free(d)
    <3>1. PICK a \in assets : e \in LinkEdges(a)
      BY <2>2 DEF Linked
    <3>2. ASSUME NEW x \in a.disks, a.type = "instance", e = Edge(Leaf(a.name), Leaf(x), "attached_to")
          PROVE  ~Free(d)
      <4>1. Leaf(x) = Leaf(d.name)
        BY <2>2, <3>2 DEF Edge
      <4>2. x = d.name
        BY <4>1, RefFact
      <4>3. QED
        BY <3>2, <4>2
    <3>3. ASSUME NEW u \in a.users, a.type = "disk", e = Edge(Leaf(u), Leaf(a.name), "attached_to")
          PROVE  FALSE
      <4>1. Leaf(a.name) = Leaf(d.name)
        BY <2>2, <3>3 DEF Edge
      <4>2. a = d
        BY <1>1, <4>1, RefFact, InventoryFact
      <4>3. QED
        BY <1>5, <4>2
    <3>4. \/ /\ a.type = "instance"
             /\ \E x \in a.disks : e = Edge(Leaf(a.name), Leaf(x), "attached_to")
          \/ /\ a.type = "disk"
             /\ \E u \in a.users : e = Edge(Leaf(u), Leaf(a.name), "attached_to")
      BY <2>2, <3>1, LinkEdgesFact
    <3> HIDE DEF Free
    <3>5. QED
      BY <3>2, <3>3, <3>4
  <2>3. QED
    BY <2>1, <2>2
<1> HIDE DEF Into
<1>6. ASSUME NEW d \in KnownIn(assets)
      PROVE  Leaf(d.name) \in Unattached(h) <=> d.type = "disk" /\ d.users = {} /\ Free(d)
  <2>1. Leaf(d.name) \in Unattached(h) <=>
          /\ h.nodes[Leaf(d.name)].kind = "disk"
          /\ InDegree(h, Leaf(d.name), "attached_to") = 0
          /\ h.nodes[Leaf(d.name)].users = 0
    BY DEF Unattached
  <2> HIDE DEF Free
  <2>2. QED
    BY <1>1, <1>3, <1>4, <1>5, <2>1
<1> HIDE DEF Free
<1>7. \A r \in Unattached(h) : \E d \in KnownIn(assets) : r = Leaf(d.name)
  BY DEF Unattached
<1> DEFINE D == {d \in assets : d.type = "disk" /\ d.users = {} /\ Free(d)}
<1>8. Unattached(h) = {Leaf(d.name) : d \in D}
  <2>1. ASSUME NEW r \in Unattached(h) PROVE \E d \in D : r = Leaf(d.name)
    BY <1>1, <1>6, <1>7
  <2>2. ASSUME NEW d \in D PROVE Leaf(d.name) \in Unattached(h)
    BY <1>2, <1>6
  <2>3. QED
    BY <2>1, <2>2
<1>9. QED
  BY <1>8 DEF Free

\* A reader of a whole graph sees its nodes and the edges between them.
LEMMA ViewFact ==
  ASSUME NEW h, Whole(h)
  PROVE  View(h) = Seen(h.nodes, Inner(h))
<1>1. \A r \in DOMAIN h.nodes : /\ Out(h, r) = SetToBag({e \in Inner(h) : e.from = r})
                                /\ In(h, r) = SetToBag({e \in Inner(h) : e.to = r})
  BY IndexFact
<1>2. /\ [r \in DOMAIN h.nodes |-> Out(h, r)] = [r \in DOMAIN h.nodes |-> SetToBag({e \in Inner(h) : e.from = r})]
      /\ [r \in DOMAIN h.nodes |-> In(h, r)] = [r \in DOMAIN h.nodes |-> SetToBag({e \in Inner(h) : e.to = r})]
  BY <1>1
<1>3. QED
  BY <1>2 DEF View, Seen

\* The ends of an edge that contains are the leaf and its containers.
LEMMA EndsFact ==
  ASSUME NEW a, Owned(a), NEW e,
         e \in ContainmentEdges(a) \/ e = Direct(a) \/ e \in AncestorEdges(a)
  PROVE  /\ e.kind = "contains"
         /\ e.from \in {Leaf(a.name)} \cup DOMAIN ContainerNodes(a)
         /\ e.to \in DOMAIN ContainerNodes(a)
<1> DEFINE P == DOMAIN ContainerNodes(a)
           l == Canonical[a.location]
<1>1. /\ Project(Token(a)) \in P
      /\ l # "" => Region(Token(a), l) \in P
      /\ \A f \in a.folders : Folder(f) \in P
      /\ a.org # "" => Organization(a.org) \in P
  BY PlacesOf
<1> HIDE DEF P
<1>2. CASE e = Direct(a)
  BY <1>1, <1>2 DEF Direct, Edge, P
<1>3. CASE l # "" /\ e = Edge(Leaf(a.name), Region(Token(a), l), "contains")
  BY <1>1, <1>3 DEF Edge, P
<1>4. CASE l # "" /\ e = Edge(Region(Token(a), l), Project(Token(a)), "contains")
  BY <1>1, <1>4 DEF Edge, P
<1>5. CASE e \in AncestorEdges(a)
  <2>1. ASSUME NEW f \in a.folders, e = Edge(Project(Token(a)), Folder(f), "contains")
        PROVE  e.kind = "contains" /\ e.from \in P /\ e.to \in P
    BY <1>1, <2>1 DEF Edge
  <2>2. ASSUME NEW f \in a.folders, a.org # "", e = Edge(Folder(f), Organization(a.org), "contains")
        PROVE  e.kind = "contains" /\ e.from \in P /\ e.to \in P
    BY <1>1, <2>2 DEF Edge
  <2>3. ASSUME a.org # "", e = Edge(Project(Token(a)), Organization(a.org), "contains")
        PROVE  e.kind = "contains" /\ e.from \in P /\ e.to \in P
    BY <1>1, <2>3 DEF Edge
  <2>4. e.kind = "contains" /\ e.from \in P /\ e.to \in P
    BY <1>5, <2>1, <2>2, <2>3, AncestorEdgesFact
  <2>5. QED
    BY <2>4 DEF P
<1>6. QED
  BY <1>2, <1>3, <1>4, <1>5, ContainmentEdgesFact

\* The edges above a project end in what is no region.
LEMMA AncestorEnds ==
  ASSUME NEW a, NEW e, e \in AncestorEdges(a)
  PROVE  e.from[1] # "region" /\ e.to[1] # "region" /\ e.from[1] # "leaf"
<1>1. ASSUME NEW f \in a.folders, e = Edge(Project(Token(a)), Folder(f), "contains")
      PROVE  e.from[1] # "region" /\ e.to[1] # "region" /\ e.from[1] # "leaf"
  BY <1>1, RefFact DEF Edge
<1>2. ASSUME NEW f \in a.folders, e = Edge(Folder(f), Organization(a.org), "contains")
      PROVE  e.from[1] # "region" /\ e.to[1] # "region" /\ e.from[1] # "leaf"
  BY <1>2, RefFact DEF Edge
<1>3. ASSUME e = Edge(Project(Token(a)), Organization(a.org), "contains")
      PROVE  e.from[1] # "region" /\ e.to[1] # "region" /\ e.from[1] # "leaf"
  BY <1>3, RefFact DEF Edge
<1>4. QED
  BY <1>1, <1>2, <1>3, AncestorEdgesFact

-----------------------------------------------------------------------------
(* The invariant implies the type invariant *)

LEMMA NodeTypes ==
  ASSUME assets \in Inventories, NEW A, A \subseteq assets, NEW nodes,
         DOMAIN nodes = Refs(A) \/ DOMAIN nodes = EarlierRefs(A),
         NEW region, \A l \in Locations : region[l] \in Locations, Described(nodes, A, region)
  PROVE  \A r \in DOMAIN nodes : /\ nodes[r].kind \in NodeKind
                                 /\ nodes[r].location \in Locations
                                 /\ nodes[r].metrics \subseteq {"value"}
<1> SUFFICES ASSUME NEW r \in DOMAIN nodes
             PROVE  nodes[r].kind \in NodeKind /\ nodes[r].location \in Locations
  BY DEF Described
<1>1. \/ \E a \in KnownIn(A) : r = Leaf(a.name)
      \/ \E a \in A : r \in DOMAIN ContainerNodes(a)
  BY DEF Refs, EarlierRefs
<1>2. ASSUME NEW a \in KnownIn(A), r = Leaf(a.name)
      PROVE  nodes[r].kind \in NodeKind /\ nodes[r].location \in Locations
  <2>1. nodes[r].kind = a.type /\ nodes[r].location = region[a.location]
    BY <1>2 DEF Described, Shows
  <2>2. a.type \in Modelled /\ a \in assets
    BY DEF KnownIn, Normalized
  <2>3. a.location \in Locations
    BY <2>2, InventoryFact
  <2>4. QED
    BY <2>1, <2>2, <2>3 DEF NodeKind
<1>3. ASSUME NEW a \in A, r \in DOMAIN ContainerNodes(a)
      PROVE  nodes[r].kind \in NodeKind /\ nodes[r].location \in Locations
  <2>1. r[1] \in {"project", "region", "folder", "organization"}
    BY <1>3, PlaceKinds
  <2>2. nodes[r].kind = r[1] /\ nodes[r].location = ""
    BY <2>1 DEF Described
  <2>3. QED
    BY <2>1, <2>2, LocationAssumption DEF NodeKind
<1>4. QED
  BY <1>1, <1>2, <1>3

LEMMA WholeAgrees ==
  ASSUME NEW h, Whole(h)
  PROVE  IndexesAgree(h) /\ IsABag(h.out) /\ IsABag(h.in)
<1>1. /\ \A e \in DOMAIN h.out : h.out[e] = 1
      /\ \A e \in DOMAIN h.in : h.in[e] = 1
  BY BagFact DEF Whole, EachOnce
<1>2. ASSUME NEW r \in DOMAIN h.nodes, NEW s \in DOMAIN h.nodes, NEW k
      PROVE  Edge(r, s, k) \in DOMAIN h.out <=> Edge(r, s, k) \in DOMAIN h.in
  <2>1. Edge(r, s, k).from = r /\ Edge(r, s, k).to = s
    BY DEF Edge
  <2>2. QED
    BY <2>1 DEF Whole
<1>3. IndexesAgree(h)
  BY <1>1, <1>2 DEF IndexesAgree, BagIn, BagToSet
<1>4. IsABag(h.out) /\ IsABag(h.in)
  <2>1. \A S : IsABag(SetToBag(S))
    BY DEF IsABag, SetToBag
  <2>2. h.out = SetToBag(DOMAIN h.out) /\ h.in = SetToBag(DOMAIN h.in)
    BY DEF Whole, EachOnce
  <2>3. QED
    BY <2>1, <2>2
<1>5. QED
  BY <1>3, <1>4

LEMMA RegionsOfLocations ==
  /\ \A l \in Locations : Canonical[l] \in Locations
  /\ \A l \in Locations : AsSpelled[l] = l
  BY LocationAssumption DEF AsSpelled

LEMMA InvType ==
  ASSUME IInv
  PROVE  TypeOK
<1> DEFINE Nodes(h) == \A r \in DOMAIN h.nodes : /\ h.nodes[r].kind \in NodeKind
                                                 /\ h.nodes[r].location \in Locations
                                                 /\ h.nodes[r].metrics \subseteq {"value"}
           Indexes(h) == IsABag(h.out) /\ IsABag(h.in) /\ (h.frozen => IndexesAgree(h))
<1>1. \A h : Bare(h) => Indexes(h) /\ h.frozen = FALSE
  BY DEF Bare, IsABag, EmptyBag, SetToBag
<1>2. \A h : Whole(h) => Indexes(h) /\ h.frozen = TRUE
  BY WholeAgrees DEF Whole
<1> HIDE DEF Indexes
<1>3. CASE phase = "list"
  <2>1. Bare(g) /\ g.dangling = 0
    BY <1>3 DEF IInv, Listed
  <2>2. Nodes(g)
    <3>1. DOMAIN g.nodes = Refs(assets \ todo) /\ Described(g.nodes, assets \ todo, Canonical)
      BY <1>3 DEF IInv, Listed
    <3>2. assets \ todo \subseteq assets /\ assets \in Inventories
      BY DEF IInv, Types
    <3>3. QED
      BY <3>1, <3>2, RegionsOfLocations, NodeTypes
  <2> HIDE DEF Nodes
  <2>3. Indexes(g) /\ g.frozen = FALSE
    BY <1>1, <2>1
  <2>4. QED
    BY <1>3, <2>1, <2>2, <2>3 DEF IInv, Types, TypeOK, Nodes, Indexes
<1>4. CASE phase \in {"failed", "saved"}
  <2>1. g = NewGraph
    BY <1>4 DEF IInv, NoGraph
  <2>2. Bare(g) /\ g.dangling = 0 /\ DOMAIN g.nodes = {}
    BY <2>1, NewBare, NewGraphFact
  <2>3. Indexes(g) /\ g.frozen = FALSE
    BY <1>1, <2>2
  <2>4. QED
    BY <1>4, <2>2, <2>3 DEF IInv, Types, TypeOK, Indexes
<1>5. CASE phase \in {"enrich", "replay", "migrated"}
  <2>1. Whole(g) /\ g.dangling \in Nat
    BY <1>5 DEF IInv, Sealed
  <2>2. Nodes(g)
    <3>1. CASE phase \in {"enrich", "migrated"}
      <4>1. DOMAIN g.nodes = Refs(assets) /\ Described(g.nodes, assets, Canonical)
        BY <3>1 DEF IInv, Sealed, Fresh
      <4>2. assets \in Inventories
        BY DEF IInv, Types
      <4>3. QED
        BY <4>1, <4>2, RegionsOfLocations, NodeTypes
    <3>2. CASE phase = "replay" /\ snapshot.version = 3
      <4>1. DOMAIN g.nodes = Refs(assets) /\ Described(g.nodes, assets, Canonical)
        BY <3>2 DEF IInv, Sealed, Stored, Fresh
      <4>2. assets \in Inventories
        BY DEF IInv, Types
      <4>3. QED
        BY <4>1, <4>2, RegionsOfLocations, NodeTypes
    <3>3. CASE phase = "replay" /\ snapshot.version = 2
      <4>1. DOMAIN g.nodes = EarlierRefs(assets) /\ Described(g.nodes, assets, AsSpelled)
        BY <3>3 DEF IInv, Sealed, Stored, Earlier
      <4>2. assets \in Inventories
        BY DEF IInv, Types
      <4>3. QED
        BY <4>1, <4>2, RegionsOfLocations, NodeTypes
    <3>4. QED
      BY <1>5, <3>1, <3>2, <3>3 DEF IInv, Stored
  <2> HIDE DEF Nodes
  <2>3. Indexes(g) /\ g.frozen = TRUE
    BY <1>2, <2>1
  <2>4. QED
    BY <1>5, <2>1, <2>2, <2>3 DEF IInv, Types, TypeOK, Nodes, Indexes
<1>6. QED
  BY <1>3, <1>4, <1>5 DEF IInv, Types

-----------------------------------------------------------------------------
(* The invariant implies the properties *)

LEMMA CurrentIsFresh ==
  ASSUME IInv, Current
  PROVE  Whole(g) /\ Fresh(assets, g.nodes, Inner(g))
  BY DEF IInv, Current, Sealed, Stored

LEMMA InvHierarchy ==
  ASSUME IInv
  PROVE  HierarchyIsExact
<1>1. SUFFICES ASSUME Current
               PROVE  /\ \A a \in Known : Containers(g, Leaf(a.name)) = DOMAIN ContainerNodes(a)
                      /\ DOMAIN g.nodes = {Leaf(a.name) : a \in Known} \cup
                                          UNION {Containers(g, Leaf(a.name)) : a \in Known}
                      /\ \A a \in Known : g.nodes[Leaf(a.name)].location = Canonical[a.location]
  BY DEF HierarchyIsExact
<1>2. assets \in Inventories /\ Fresh(assets, g.nodes, Inner(g))
  BY <1>1, CurrentIsFresh DEF IInv, Types
<1>3. ASSUME NEW a \in Known
      PROVE  Containers(g, Leaf(a.name)) = DOMAIN ContainerNodes(a)
  BY <1>2, FreshContainers
<1>4. DOMAIN g.nodes = {Leaf(a.name) : a \in Known} \cup
                       UNION {DOMAIN ContainerNodes(a) : a \in Known}
  <2>1. \A a \in assets \ Known : DOMAIN ContainerNodes(a) = {}
    BY PlaceKinds DEF Known, Owned
  <2>2. UNION {DOMAIN ContainerNodes(a) : a \in assets} = UNION {DOMAIN ContainerNodes(a) : a \in Known}
    BY <2>1 DEF Known
  <2>3. KnownIn(assets) = Known
    BY DEF Known, KnownIn
  <2>4. QED
    BY <1>2, <2>2, <2>3 DEF Fresh, Refs
<1>5. UNION {DOMAIN ContainerNodes(a) : a \in Known} = UNION {Containers(g, Leaf(a.name)) : a \in Known}
  BY <1>3
<1>6. \A a \in Known : g.nodes[Leaf(a.name)].location = Canonical[a.location]
  BY <1>2 DEF Fresh, Described, Shows, Known, KnownIn
<1>7. QED
  BY <1>3, <1>4, <1>5, <1>6

LEMMA InvDetached ==
  ASSUME IInv
  PROVE  DetachedExactly
<1> DEFINE D == {Leaf(d.name) : d \in {d \in assets :
                   /\ d.type = "disk" /\ d.users = {}
                   /\ \A i \in assets : i.type = "instance" => d.name \notin i.disks}}
<1>1. SUFFICES ASSUME Current \/ phase = "replay" PROVE Unattached(g) = D
  BY DEF DetachedExactly
<1> HIDE DEF D
<1>2. Whole(g) /\ assets \in Inventories
  BY <1>1 DEF IInv, Current, Sealed, Types
<1>3. CASE Fresh(assets, g.nodes, Inner(g))
  <2>1. Leaves(g) = {Leaf(a.name) : a \in KnownIn(assets)}
    BY <1>3, LeavesFact DEF Fresh
  <2>2. Described(g.nodes, assets, Canonical) /\ Linked(assets, g.nodes, Inner(g))
    BY <1>3 DEF Fresh
  <2>3. QED
    BY <1>2, <2>1, <2>2, DetachedFact DEF D
<1>4. CASE Earlier(assets, g.nodes, Inner(g))
  <2>1. Leaves(g) = {Leaf(a.name) : a \in KnownIn(assets)}
    BY <1>4, LeavesFact DEF Earlier
  <2>2. Described(g.nodes, assets, AsSpelled) /\ Linked(assets, g.nodes, Inner(g))
    BY <1>4 DEF Earlier
  <2>3. QED
    BY <1>2, <2>1, <2>2, DetachedFact DEF D
<1>5. CASE phase = "replay" /\ snapshot.version = 2
  <2>1. Earlier(assets, g.nodes, Inner(g))
    BY <1>5 DEF IInv, Sealed, Stored
  <2>2. QED
    BY <1>4, <2>1
<1>6. CASE ~(phase = "replay" /\ snapshot.version = 2)
  <2>1. Current
    BY <1>1, <1>6 DEF IInv, Stored, Current
  <2>2. QED
    BY <1>3, <2>1, CurrentIsFresh
<1>7. QED
  BY <1>5, <1>6

LEMMA InvView ==
  ASSUME IInv
  PROVE  ReplayPreservesView
<1>1. SUFFICES ASSUME phase = "replay", snapshot.version = 3 PROVE View(g) = view
  BY DEF ReplayPreservesView
<1>2. Whole(g) /\ g.nodes = snapshot.nodes /\ Inner(g) = DOMAIN snapshot.edges
  BY <1>1 DEF IInv, Sealed
<1>3. view = Seen(snapshot.nodes, DOMAIN snapshot.edges)
  BY <1>1 DEF IInv, Stored
<1>4. QED
  BY <1>2, <1>3, ViewFact

-----------------------------------------------------------------------------
(* The initial states *)

\* A release that had no regions wrote the assets without them.
LEMMA Version2Fact ==
  ASSUME assets \in Inventories
  PROVE  /\ Version2(assets).version = 2
         /\ Version2(assets).edges = SetToBag(DOMAIN Version2(assets).edges)
         /\ Earlier(assets, Version2(assets).nodes, DOMAIN Version2(assets).edges)
<1> DEFINE known == {a \in assets : Normalized(a)}
           owned == {a \in known : Token(a) # ""}
           containers == UNION {{r \in DOMAIN ContainerNodes(a) : r[1] # "region"} : a \in owned}
           leaves == LeafNodes(known, AsSpelled)
           rest == [r \in containers |-> Container(r[1], IF r[1] = "project" THEN r[2] ELSE "")]
           nodes == Over(leaves, rest)
           direct == {Edge(Leaf(a.name), Project(Token(a)), "contains") : a \in owned}
           links == UNION {LinkEdges(a) : a \in assets}
           above == UNION {AncestorEdges(a) : a \in owned}
           all == links \cup above \cup direct
           b == AddNodes(NewGraph, nodes)
           h == Freeze(AddEdges(b, SetToBag(all)))
           E == Within(nodes, all)
<1>1. Version2(assets) = WriteSnapshot(AddEdges(b, SetToBag(all)), 2)
  BY DEF Version2
<1>2. KnownIn(assets) = known /\ \A a : a \in owned <=> a \in assets /\ Owned(a)
  BY DEF KnownIn, Owned
<1>3. /\ DOMAIN leaves = {Leaf(a.name) : a \in known}
      /\ \A a \in known : leaves[Leaf(a.name)] = LeafNode(a, AsSpelled[a.location])
  <2>1. \A x, y \in known : x.name = y.name => x = y
    BY InventoryFact
  <2>2. leaves = LeafNodes(known, AsSpelled)
    OBVIOUS
  <2> HIDE DEF known, leaves
  <2>3. OfLeaves(leaves, known, AsSpelled)
    BY <2>1, <2>2, LeafNodesFact
  <2>4. QED
    BY <2>3 DEF OfLeaves
<1>4. DOMAIN rest = containers /\ \A r \in containers : \E p : rest[r] = Container(r[1], p)
  OBVIOUS
<1>5. \A r \in containers : r[1] \in {"project", "folder", "organization"}
  BY PlaceKinds
<1>6. containers = UNION {{r \in DOMAIN ContainerNodes(a) : r[1] # "region"} : a \in assets}
  <2>1. \A a \in assets : \A r \in DOMAIN ContainerNodes(a) : a \in owned
    BY <1>2, PlaceKinds
  <2>2. owned \subseteq assets
    OBVIOUS
  <2> HIDE DEF owned
  <2>3. QED
    BY <2>1, <2>2
<1> HIDE DEF known, owned, containers, leaves, rest
<1>7. /\ DOMAIN nodes = {Leaf(a.name) : a \in known} \cup containers
      /\ \A a \in known : nodes[Leaf(a.name)] = LeafNode(a, AsSpelled[a.location])
      /\ \A r \in containers : \E p : nodes[r] = Container(r[1], p)
      /\ Table(nodes)
  <2>1. \A r \in containers : r \notin DOMAIN leaves
    BY <1>3, <1>5, RefFact
  <2>2. Table(nodes)
    BY DEF Over, Table
  <2> HIDE DEF nodes
  <2>3. /\ DOMAIN nodes = DOMAIN leaves \cup DOMAIN rest
        /\ \A r \in DOMAIN leaves : nodes[r] = leaves[r]
        /\ \A r \in DOMAIN rest \ DOMAIN leaves : nodes[r] = rest[r]
    BY OverFact DEF nodes
  <2>4. QED
    BY <1>3, <1>4, <2>1, <2>2, <2>3
<1> HIDE DEF nodes
<1>8. DOMAIN nodes = EarlierRefs(assets)
  BY <1>2, <1>6, <1>7 DEF EarlierRefs
<1>9. Described(nodes, assets, AsSpelled)
  <2>1. \A a \in known : Shows(nodes[Leaf(a.name)], a, AsSpelled) /\ IsNode(nodes[Leaf(a.name)])
                         /\ nodes[Leaf(a.name)].metrics \subseteq {"value"}
    BY <1>7, LeafNodeFact DEF Shows
  <2>2. \A r \in containers : /\ IsNode(nodes[r]) /\ nodes[r].metrics \subseteq {"value"}
                              /\ nodes[r].kind = r[1] /\ nodes[r].location = ""
    <3>1. ASSUME NEW r \in containers
          PROVE  /\ IsNode(nodes[r]) /\ nodes[r].metrics \subseteq {"value"}
                 /\ nodes[r].kind = r[1] /\ nodes[r].location = ""
      <4>1. PICK p : nodes[r] = Container(r[1], p)
        BY <1>7
      <4>2. /\ IsNode(nodes[r]) /\ nodes[r].metrics = {}
            /\ nodes[r].kind = r[1] /\ nodes[r].location = ""
        <5>1. /\ IsNode(Container(r[1], p)) /\ Container(r[1], p).metrics = {}
              /\ Container(r[1], p).kind = r[1] /\ Container(r[1], p).location = ""
          BY ContainerFact
        <5>2. QED
          BY ONLY <4>1, <5>1
      <4>3. QED
        BY <4>2
    <3>2. QED
      BY <3>1
  <2>3. \A r \in DOMAIN nodes : r[1] # "leaf" => r \in containers
    BY <1>7, RefFact
  <2>4. \A r \in DOMAIN nodes : IsNode(nodes[r]) /\ nodes[r].metrics \subseteq {"value"}
    BY <1>7, <2>1, <2>2
  <2>5. \A r \in DOMAIN nodes : r[1] # "leaf" => nodes[r].kind = r[1] /\ nodes[r].location = ""
    BY <2>2, <2>3
  <2>6. \A a \in KnownIn(assets) : Shows(nodes[Leaf(a.name)], a, AsSpelled)
    BY <1>2, <2>1
  <2>7. QED
    BY <1>7, <2>4, <2>5, <2>6 DEF Described
<1>10. IsFiniteSet(all)
  <2>1. IsFiniteSet(assets) /\ owned \subseteq assets
    BY <1>2, InventoryFact
  <2>2. IsFiniteSet(owned)
    BY <2>1, FS_Subset
  <2> DEFINE LE == {LinkEdges(a) : a \in assets}
             AE == {AncestorEdges(a) : a \in owned}
             lf == [a \in assets |-> LinkEdges(a)]
             af == [a \in owned |-> AncestorEdges(a)]
             df == [a \in owned |-> Edge(Leaf(a.name), Project(Token(a)), "contains")]
  <2>3. /\ \A t \in LE : \E a \in assets : t = lf[a]
        /\ \A t \in AE : \E a \in owned : t = af[a]
        /\ \A t \in direct : \E a \in owned : t = df[a]
    OBVIOUS
  <2>4. (\A t \in LE : IsFiniteSet(t)) /\ (\A t \in AE : IsFiniteSet(t))
    BY <2>1, FiniteEdges
  <2>5. links = UNION LE /\ above = UNION AE
    OBVIOUS
  <2> HIDE DEF LE, AE, lf, af, df, links, above, direct
  <2>6. IsFiniteSet(LE) /\ IsFiniteSet(AE) /\ IsFiniteSet(direct)
    BY <2>1, <2>2, <2>3, ImageFinite
  <2>7. IsFiniteSet(UNION LE) /\ IsFiniteSet(UNION AE)
    BY <2>4, <2>6, FS_UNION
  <2>8. QED
    BY <2>5, <2>6, <2>7, FS_Union
<1>11. /\ \A e \in links : e.kind # "contains"
       /\ \A e \in above \cup direct : \E a \in owned : e \in AncestorEdges(a) \/ e = Direct(a)
       /\ \A a \in owned : AncestorEdges(a) \subseteq above /\ Direct(a) \in direct
  BY LinkEdgesFact DEF Direct
<1>12. \A a \in owned : \A e : e \in AncestorEdges(a) \/ e = Direct(a) =>
         e.kind = "contains" /\ e.from \in DOMAIN nodes /\ e.to \in DOMAIN nodes
  <2> SUFFICES ASSUME NEW a \in owned, NEW e, e \in AncestorEdges(a) \/ e = Direct(a)
               PROVE  e.kind = "contains" /\ e.from \in DOMAIN nodes /\ e.to \in DOMAIN nodes
    OBVIOUS
  <2>1. e.kind = "contains" /\ e.from \in {Leaf(a.name)} \cup DOMAIN ContainerNodes(a) /\ e.to \in DOMAIN ContainerNodes(a)
    BY <1>2, EndsFact
  <2>2. e.from[1] # "region" /\ e.to[1] # "region"
    BY AncestorEnds, RefFact DEF Direct, Edge
  <2>3. Leaf(a.name) \in DOMAIN nodes /\ \A r \in DOMAIN ContainerNodes(a) : r[1] # "region" => r \in DOMAIN nodes
    <3>1. a \in assets /\ a \in KnownIn(assets)
      BY <1>2 DEF KnownIn, Owned
    <3>2. QED
      BY <1>8, <3>1 DEF EarlierRefs
  <2>4. QED
    BY <2>1, <2>2, <2>3
<1> HIDE DEF links, above, direct
<1>13. Linked(assets, nodes, E)
  <2>1. IsFiniteSet(E) /\ Within(nodes, E) = E
    <3>1. E \subseteq all /\ Within(nodes, E) = E
      BY DEF Within
    <3>2. QED
      BY <1>10, <3>1, FS_Subset
  <2>2. ASSUME NEW e \in E, e.kind = "attached_to"
        PROVE  \E a \in assets : e \in LinkEdges(a)
    <3>1. e \in links
      BY <1>11, <1>12, <2>2 DEF Within
    <3>2. QED
      BY <3>1 DEF links
  <2>3. \A a \in assets : \A e \in LinkEdges(a) : e.from \in DOMAIN nodes /\ e.to \in DOMAIN nodes => e \in E
    BY DEF Within, links
  <2>4. QED
    BY <2>1, <2>2, <2>3 DEF Linked
<1>14. \A a \in assets : Owned(a) => AncestorEdges(a) \subseteq E /\ Direct(a) \in E
  BY <1>2, <1>11, <1>12 DEF Within
<1>15. \A e \in E : e.kind = "contains" =>
         \E a \in assets : Owned(a) /\ (e \in AncestorEdges(a) \/ e = Direct(a))
  BY <1>2, <1>11 DEF Within
<1>16. Earlier(assets, nodes, E)
  BY <1>8, <1>9, <1>13, <1>14, <1>15 DEF Earlier
<1>17. Version2(assets) = [version |-> 2, nodes |-> nodes, edges |-> SetToBag(E)]
  <2>1. Bare(b) /\ b.nodes = nodes /\ b.dangling = 0
    BY <1>7, NodesFact
  <2> HIDE DEF b, all
  <2>2. Whole(h) /\ h.nodes = nodes /\ Inner(h) = E
    BY <1>7, <1>10, <2>1, BuildFact
  <2>3. QED
    BY <1>1, <2>2, WriteFact
<1>18. DOMAIN SetToBag(E) = E
  BY BagFact
<1> HIDE DEF E
<1>19. QED
  BY <1>16, <1>17, <1>18

LEMMA InitInv ==
  ASSUME Init
  PROVE  IInv
<1>1. assets \in Inventories /\ g = NewGraph /\ edges = {}
  BY DEF Init
<1>2. Bare(g) /\ g.dangling = 0 /\ Table(g.nodes) /\ DOMAIN g.nodes = {}
  BY <1>1, NewBare, NewGraphFact
<1>3. CASE phase = "list" /\ todo = assets /\ snapshot = NoSnapshot
  <2>1. snapshot.version = 0
    BY <1>3 DEF NoSnapshot, WriteSnapshot
  <2>2. assets \ todo = {}
    BY <1>3
  <2>3. Refs({}) = {} /\ KnownIn({}) = {}
    BY DEF Refs, KnownIn
  <2>4. Described(g.nodes, {}, Canonical)
    BY <1>2, <2>3 DEF Described
  <2>5. UNION {ContainmentEdges(a) \cup LinkEdges(a) : a \in {}} = {}
    OBVIOUS
  <2>6. Listed
    BY <1>1, <1>2, <2>2, <2>3, <2>4, <2>5 DEF Listed
  <2>7. QED
    BY <1>1, <1>3, <2>1, <2>6 DEF IInv, Types, NoGraph, Stored, Sealed
<1>4. CASE phase = "saved" /\ todo = {} /\ snapshot = Version2(assets)
  <2>1. /\ snapshot.version = 2 /\ snapshot.edges = SetToBag(DOMAIN snapshot.edges)
        /\ Earlier(assets, snapshot.nodes, DOMAIN snapshot.edges)
    BY <1>1, <1>4, Version2Fact
  <2>2. QED
    BY <1>1, <1>4, <2>1 DEF IInv, Types, Listed, NoGraph, Stored, Sealed
<1>5. QED
  BY <1>3, <1>4 DEF Init

-----------------------------------------------------------------------------
(* The steps of an ingestion *)

\* Visiting an asset adds its leaf and its containers to what the others left.
LEMMA VisitNodes ==
  ASSUME assets \in Inventories, NEW A, A \subseteq assets, NEW a \in assets, a \notin A,
         NEW nodes, DOMAIN nodes = Refs(A), Described(nodes, A, Canonical),
         NEW leaf, leaf = (IF Normalized(a) THEN LeafNodes({a}, Canonical) ELSE <<>>),
         NEW new, new = Over(ContainerNodes(a), Over(leaf, nodes))
  PROVE  DOMAIN new = Refs(A \cup {a}) /\ Described(new, A \cup {a}, Canonical)
<1> DEFINE L == IF Normalized(a) THEN {Leaf(a.name)} ELSE {}
           P == DOMAIN ContainerNodes(a)
<1>1. DOMAIN leaf = L /\ (Normalized(a) => leaf[Leaf(a.name)] = LeafNode(a, Canonical[a.location]))
  <2>1. CASE Normalized(a)
    <3>1. \A x, y \in {a} : x.name = y.name => x = y
      OBVIOUS
    <3>2. OfLeaves(LeafNodes({a}, Canonical), {a}, Canonical)
      BY <3>1, LeafNodesFact
    <3>3. QED
      BY <2>1, <3>2 DEF OfLeaves
  <2>2. CASE ~Normalized(a)
    BY <2>2
  <2>3. QED
    BY <2>1, <2>2
<1>2. /\ DOMAIN new = P \cup L \cup DOMAIN nodes
      /\ \A r \in P : new[r] = ContainerNodes(a)[r]
      /\ \A r \in L \ P : new[r] = leaf[r]
      /\ \A r \in DOMAIN nodes \ (P \cup L) : new[r] = nodes[r]
  <2> DEFINE o == Over(leaf, nodes)
             c == ContainerNodes(a)
  <2>1. new = Over(c, o) /\ P = DOMAIN c
    OBVIOUS
  <2> HIDE DEF L, P, c
  <2>2. /\ DOMAIN o = DOMAIN leaf \cup DOMAIN nodes
        /\ \A r \in DOMAIN leaf : o[r] = leaf[r]
        /\ \A r \in DOMAIN nodes \ DOMAIN leaf : o[r] = nodes[r]
    BY DEF Over
  <2> HIDE DEF o
  <2>3. /\ DOMAIN Over(c, o) = DOMAIN c \cup DOMAIN o
        /\ \A r \in DOMAIN c : Over(c, o)[r] = c[r]
        /\ \A r \in DOMAIN o \ DOMAIN c : Over(c, o)[r] = o[r]
    BY OverFact
  <2>4. /\ DOMAIN new = P \cup L \cup DOMAIN nodes
        /\ \A r \in P : new[r] = c[r]
        /\ \A r \in L \ P : new[r] = leaf[r]
        /\ \A r \in DOMAIN nodes \ (P \cup L) : new[r] = nodes[r]
    BY <1>1, <2>1, <2>2, <2>3
  <2>5. QED
    BY <2>4 DEF c
<1>3. KnownIn(A \cup {a}) = KnownIn(A) \cup (IF Normalized(a) THEN {a} ELSE {})
  BY DEF KnownIn
<1>4. DOMAIN new = Refs(A \cup {a})
  <2>1. UNION {DOMAIN ContainerNodes(b) : b \in A \cup {a}} = P \cup UNION {DOMAIN ContainerNodes(b) : b \in A}
    OBVIOUS
  <2>2. {Leaf(b.name) : b \in KnownIn(A \cup {a})} = L \cup {Leaf(b.name) : b \in KnownIn(A)}
    BY <1>3
  <2>3. QED
    BY <1>2, <2>1, <2>2 DEF Refs
<1>5. Table(new)
  BY DEF Over, Table
<1>6. \A r \in P : r[1] # "leaf"
  BY PlaceKinds
<1>7. \A r \in P : /\ IsNode(new[r]) /\ new[r].metrics = {}
                   /\ new[r].kind = r[1] /\ new[r].location = ""
  <2> SUFFICES ASSUME NEW r \in P
               PROVE  /\ IsNode(new[r]) /\ new[r].metrics = {}
                      /\ new[r].kind = r[1] /\ new[r].location = ""
    OBVIOUS
  <2>1. PICK p : new[r] = Container(r[1], p)
    <3>1. PICK p : ContainerNodes(a)[r] = Container(r[1], p)
      BY PlacesFact
    <3>2. QED
      BY <1>2, <3>1
  <2>2. /\ IsNode(Container(r[1], p)) /\ Container(r[1], p).metrics = {}
        /\ Container(r[1], p).kind = r[1] /\ Container(r[1], p).location = ""
    BY ContainerFact
  <2>3. QED
    BY ONLY <2>1, <2>2
<1> HIDE DEF P
<1>8. \A r \in L : new[r] = LeafNode(a, Canonical[a.location])
  <2> SUFFICES ASSUME NEW r \in L PROVE new[r] = LeafNode(a, Canonical[a.location])
    OBVIOUS
  <2>1. r = Leaf(a.name) /\ Normalized(a) /\ r[1] = "leaf"
    BY RefFact
  <2>2. r \in L \ P
    BY <1>6, <2>1
  <2> HIDE DEF L
  <2>3. QED
    BY <1>1, <1>2, <2>1, <2>2
<1>9. \A r \in L : IsNode(new[r]) /\ new[r].metrics = {} /\ Shows(new[r], a, Canonical)
  <2>1. IsNode(LeafNode(a, Canonical[a.location])) /\ LeafNode(a, Canonical[a.location]).metrics = {}
    BY LeafNodeFact
  <2>2. Shows(LeafNode(a, Canonical[a.location]), a, Canonical)
    BY LeafNodeFact DEF Shows
  <2> HIDE DEF L
  <2>3. QED
    BY <1>8, <2>1, <2>2
<1>10. \A r \in L : r = Leaf(a.name) /\ r[1] = "leaf"
  BY RefFact
<1>11. \A b \in KnownIn(A) : Leaf(b.name) \in DOMAIN nodes /\ Leaf(b.name) \notin P /\ Leaf(b.name) \notin L
  <2> SUFFICES ASSUME NEW b \in KnownIn(A)
               PROVE  Leaf(b.name) \in DOMAIN nodes /\ Leaf(b.name) \notin P /\ Leaf(b.name) \notin L
    OBVIOUS
  <2>1. b \in A /\ b # a /\ b \in assets
    BY DEF KnownIn
  <2>2. b.name # a.name
    BY <2>1, InventoryFact
  <2>3. QED
    BY <1>6, <2>2, RefFact DEF Refs
<1>12. \A b \in KnownIn(A \cup {a}) : Shows(new[Leaf(b.name)], b, Canonical)
  <2>1. \A b \in KnownIn(A) : new[Leaf(b.name)] = nodes[Leaf(b.name)]
    BY <1>2, <1>11
  <2>2. \A b \in KnownIn(A) : Shows(new[Leaf(b.name)], b, Canonical)
    BY <2>1 DEF Described
  <2>3. Normalized(a) => Shows(new[Leaf(a.name)], a, Canonical)
    BY <1>9
  <2>4. QED
    BY <1>3, <2>2, <2>3
<1> HIDE DEF L
<1>13. \A r \in DOMAIN new : IsNode(new[r]) /\ new[r].metrics \subseteq {"value"}
  <2>1. \A r \in P \cup L : IsNode(new[r]) /\ new[r].metrics \subseteq {"value"}
    BY <1>7, <1>9
  <2>2. \A r \in DOMAIN nodes \ (P \cup L) : IsNode(new[r]) /\ new[r].metrics \subseteq {"value"}
    BY <1>2 DEF Described
  <2>3. QED
    BY <1>2, <2>1, <2>2
<1>14. \A r \in DOMAIN new : r[1] # "leaf" => new[r].kind = r[1] /\ new[r].location = ""
  <2>1. \A r \in DOMAIN nodes \ (P \cup L) : r[1] # "leaf" => new[r].kind = r[1] /\ new[r].location = ""
    <3>1. \A r \in DOMAIN nodes : r[1] # "leaf" => nodes[r].kind = r[1] /\ nodes[r].location = ""
      BY DEF Described
    <3>2. QED
      BY <1>2, <3>1
  <2>2. QED
    BY <1>2, <1>7, <1>10, <2>1
<1>15. QED
  BY <1>4, <1>5, <1>12, <1>13, <1>14 DEF Described

LEMMA VisitInv ==
  ASSUME IInv, NEW a \in assets, Visit(a)
  PROVE  IInv'
<1> DEFINE A == assets \ todo
           leaf == IF Normalized(a) THEN LeafNodes({a}, Canonical) ELSE <<>>
           first == AddNodes(g, leaf)
<1>1. /\ phase = "list" /\ a \in todo /\ todo' = todo \ {a}
      /\ g' = AddNodes(first, ContainerNodes(a))
      /\ edges' = edges \cup ContainmentEdges(a) \cup LinkEdges(a)
      /\ assets' = assets /\ phase' = phase /\ snapshot' = snapshot
  BY DEF Visit
<1>2. /\ Bare(g) /\ g.dangling = 0
      /\ DOMAIN g.nodes = Refs(A) /\ Described(g.nodes, A, Canonical)
      /\ edges = UNION {ContainmentEdges(b) \cup LinkEdges(b) : b \in A}
  BY <1>1 DEF IInv, Listed
<1>3. assets \in Inventories /\ todo \subseteq assets /\ snapshot.version \in {0, 2, 3}
  BY DEF IInv, Types
<1>4. assets' \ todo' = A \cup {a}
  BY <1>1, <1>3
<1>5. A \subseteq assets /\ a \notin A
  BY <1>1
<1>6. Bare(g') /\ g'.dangling = 0 /\ g'.nodes = Over(ContainerNodes(a), Over(leaf, g.nodes))
  <2>1. Bare(first) /\ first.nodes = Over(leaf, g.nodes) /\ IsGraph(first)
    BY <1>2, AddNodesFact DEF Bare
  <2>2. first.dangling = 0
    BY <1>2 DEF AddNodes, Bare, IsGraph
  <2> HIDE DEF first
  <2>3. Bare(g') /\ g'.nodes = Over(ContainerNodes(a), first.nodes)
    BY <1>1, <2>1, AddNodesFact
  <2>4. g'.dangling = 0
    BY <1>1, <2>1, <2>2 DEF AddNodes, Bare, IsGraph
  <2>5. QED
    BY <2>1, <2>3, <2>4
<1> DEFINE new == g'.nodes
<1>7. new = Over(ContainerNodes(a), Over(leaf, g.nodes))
  BY <1>6
<1>8. edges' = UNION {ContainmentEdges(b) \cup LinkEdges(b) : b \in A \cup {a}}
  BY <1>1, <1>2
<1> HIDE DEF new, A, leaf
<1>9. DOMAIN new = Refs(A \cup {a}) /\ Described(new, A \cup {a}, Canonical)
  BY <1>2, <1>3, <1>5, <1>7, VisitNodes DEF leaf
<1>10. Listed'
  BY <1>4, <1>6, <1>8, <1>9 DEF Listed, new
<1>11. Types'
  BY <1>1, <1>3 DEF Types
<1>12. QED
  BY <1>1, <1>10, <1>11 DEF IInv, NoGraph, Stored, Sealed

LEMMA ListFailsInv ==
  ASSUME IInv, ListFails
  PROVE  IInv'
  BY DEF IInv, ListFails, Types, Listed, NoGraph, Stored, Sealed

\* Sealing finds the edges of all assets between the nodes of all assets.
LEMMA SealFresh ==
  ASSUME assets \in Inventories, NEW nodes, DOMAIN nodes = Refs(assets),
         Described(nodes, assets, Canonical),
         NEW E, E = UNION {ContainmentEdges(a) \cup LinkEdges(a) : a \in assets}
  PROVE  IsFiniteSet(E) /\ Fresh(assets, nodes, Within(nodes, E))
<1> DEFINE W == Within(nodes, E)
<1>1. IsFiniteSet(E)
  <2> DEFINE S == {ContainmentEdges(a) \cup LinkEdges(a) : a \in assets}
             f == [a \in assets |-> ContainmentEdges(a) \cup LinkEdges(a)]
  <2>1. (\A t \in S : \E a \in assets : t = f[a]) /\ E = UNION S
    OBVIOUS
  <2>2. \A t \in S : IsFiniteSet(t)
    BY FiniteEdges, FS_Union
  <2> HIDE DEF S, f
  <2>3. IsFiniteSet(S)
    <3>1. IsFiniteSet(assets)
      BY InventoryFact
    <3>2. QED
      BY <2>1, <3>1, ImageFinite
  <2>4. QED
    BY <2>1, <2>2, <2>3, FS_UNION
<1>2. \A e : e \in W <=> e \in E /\ e.from \in DOMAIN nodes /\ e.to \in DOMAIN nodes
  BY DEF Within
<1>3. Within(nodes, W) = W /\ W \subseteq E
  BY DEF Within
<1> HIDE DEF W
<1>4. IsFiniteSet(W)
  BY <1>1, <1>3, FS_Subset
<1>5. \A e \in E : \E a \in assets : e \in ContainmentEdges(a) \/ e \in LinkEdges(a)
  OBVIOUS
<1>6. \A a \in assets : \A e \in ContainmentEdges(a) :
        /\ e \in E /\ Owned(a) /\ e.kind = "contains"
        /\ e.from \in DOMAIN nodes /\ e.to \in DOMAIN nodes
  <2> SUFFICES ASSUME NEW a \in assets, NEW e \in ContainmentEdges(a)
               PROVE  /\ e \in E /\ Owned(a) /\ e.kind = "contains"
                      /\ e.from \in DOMAIN nodes /\ e.to \in DOMAIN nodes
    OBVIOUS
  <2>1. Owned(a)
    BY ContainmentEdgesFact
  <2>2. /\ e.kind = "contains" /\ e.from \in {Leaf(a.name)} \cup DOMAIN ContainerNodes(a)
        /\ e.to \in DOMAIN ContainerNodes(a)
    BY <2>1, EndsFact
  <2>3. a \in KnownIn(assets)
    BY <2>1 DEF Owned, KnownIn
  <2>4. {Leaf(a.name)} \cup DOMAIN ContainerNodes(a) \subseteq DOMAIN nodes
    BY <2>3 DEF Refs
  <2>5. QED
    BY <2>1, <2>2, <2>4
<1>7. Linked(assets, nodes, W)
  <2>1. ASSUME NEW e \in W, e.kind = "attached_to"
        PROVE  \E a \in assets : e \in LinkEdges(a)
    BY <1>2, <1>5, <1>6, <2>1
  <2>2. \A a \in assets : \A e \in LinkEdges(a) : e.from \in DOMAIN nodes /\ e.to \in DOMAIN nodes => e \in W
    BY <1>2
  <2>3. QED
    BY <1>3, <1>4, <2>1, <2>2 DEF Linked
<1>8. \A a \in assets : ContainmentEdges(a) \subseteq W
  BY <1>2, <1>6
<1>9. ASSUME NEW e \in W, e.kind = "contains"
      PROVE  \E a \in assets : Owned(a) /\ (e \in ContainmentEdges(a) \/ e = Direct(a))
  <2>1. PICK a \in assets : e \in ContainmentEdges(a) \/ e \in LinkEdges(a)
    BY <1>2, <1>5
  <2>2. e \in ContainmentEdges(a)
    BY <1>9, <2>1, LinkEdgesFact
  <2>3. QED
    BY <1>6, <2>2
<1>10. QED
  BY <1>1, <1>7, <1>8, <1>9 DEF Fresh, W

LEMMA SealInv ==
  ASSUME IInv, Seal
  PROVE  IInv'
<1>1. /\ phase = "list" /\ todo = {} /\ g' = Freeze(AddEdges(g, SetToBag(edges)))
      /\ phase' = "enrich" /\ assets' = assets /\ todo' = todo /\ snapshot' = snapshot
  BY DEF Seal
<1>2. assets \in Inventories /\ snapshot.version \in {0, 2, 3} /\ assets \ todo = assets
  BY <1>1 DEF IInv, Types
<1>3. /\ Bare(g) /\ g.dangling = 0
      /\ DOMAIN g.nodes = Refs(assets) /\ Described(g.nodes, assets, Canonical)
      /\ edges = UNION {ContainmentEdges(a) \cup LinkEdges(a) : a \in assets}
  BY <1>1, <1>2 DEF IInv, Listed
<1>4. IsFiniteSet(edges) /\ Fresh(assets, g.nodes, Within(g.nodes, edges))
  BY <1>2, <1>3, SealFresh
<1>5. Whole(g') /\ g'.nodes = g.nodes /\ Inner(g') = Within(g.nodes, edges) /\ g'.dangling \in Nat
  <2> DEFINE h == g'
  <2>1. h = Freeze(AddEdges(g, SetToBag(edges)))
    BY <1>1
  <2>2. Table(g.nodes)
    BY <1>3 DEF Described
  <2>3. Bare(g) /\ IsFiniteSet(edges) /\ g.dangling = 0
    BY <1>3, <1>4
  <2> HIDE DEF h
  <2>4. Whole(h) /\ h.nodes = g.nodes /\ Inner(h) = Within(g.nodes, edges) /\ h.dangling \in Nat
    BY <2>1, <2>2, <2>3, BuildFact
  <2>5. QED
    BY <2>4 DEF h
<1>6. Sealed'
  BY <1>1, <1>4, <1>5 DEF Sealed
<1>7. QED
  BY <1>1, <1>2, <1>6 DEF IInv, Types, Listed, NoGraph, Stored

\* A value lands in a node and moves none.
LEMMA MetricFact ==
  ASSUME NEW h, Whole(h), NEW A, NEW region, Described(h.nodes, A, region),
         \A a \in KnownIn(A) : Leaf(a.name) \in DOMAIN h.nodes,
         NEW ref, NEW k, k = SetMetric(h, ref, "value")
  PROVE  /\ Whole(k) /\ Inner(k) = Inner(h) /\ k.dangling = h.dangling
         /\ DOMAIN k.nodes = DOMAIN h.nodes /\ Described(k.nodes, A, region)
<1>1. CASE ref \notin DOMAIN h.nodes
  BY <1>1 DEF SetMetric
<1>2. CASE ref \in DOMAIN h.nodes
  <2> DEFINE n == h.nodes[ref]
             m == [n EXCEPT !.metrics = @ \cup {"value"}]
             nodes == [h.nodes EXCEPT ![ref] = m]
  <2>1. k = [h EXCEPT !.nodes[ref].metrics = @ \cup {"value"}]
    BY <1>2 DEF SetMetric
  <2>2. k = [h EXCEPT !.nodes = nodes]
    BY <2>1, <1>2 DEF Whole, IsGraph
  <2>3. h.nodes = [x \in DOMAIN h.nodes |-> h.nodes[x]]
    BY DEF Whole, Table
  <2>4. /\ DOMAIN nodes = DOMAIN h.nodes /\ Table(nodes)
        /\ nodes[ref] = m
        /\ \A r \in DOMAIN h.nodes : r # ref => nodes[r] = h.nodes[r]
    BY <1>2, <2>3 DEF Table
  <2>5. k = [nodes |-> nodes, out |-> h.out, in |-> h.in, frozen |-> h.frozen, dangling |-> h.dangling]
    BY <2>2 DEF Whole, IsGraph
  <2>6. /\ IsNode(m) /\ m.kind = n.kind /\ m.project = n.project /\ m.location = n.location
        /\ m.users = n.users /\ m.metrics \subseteq {"value"}
    <3>1. IsNode(n) /\ n.metrics \subseteq {"value"}
      BY <1>2 DEF Described
    <3> HIDE DEF n
    <3>2. m = [kind |-> n.kind, project |-> n.project, location |-> n.location,
               users |-> n.users, metrics |-> n.metrics \cup {"value"}]
      BY <3>1 DEF IsNode
    <3> HIDE DEF m
    <3>3. m.metrics = n.metrics \cup {"value"}
      BY <3>2
    <3>4. m.metrics \subseteq {"value"}
      BY <3>1, <3>3
    <3>5. /\ IsNode(m) /\ m.kind = n.kind /\ m.project = n.project /\ m.location = n.location
          /\ m.users = n.users
      BY <3>2 DEF IsNode
    <3>6. QED
      BY <3>4, <3>5
  <2> HIDE DEF nodes, m
  <2>7. Whole(k) /\ Inner(k) = Inner(h) /\ k.dangling = h.dangling /\ k.nodes = nodes
    <3>1. /\ IsGraph(k) /\ k.nodes = nodes /\ k.out = h.out /\ k.in = h.in
          /\ k.frozen = h.frozen /\ k.dangling = h.dangling
      BY <2>5 DEF IsGraph
    <3>2. QED
      BY <2>4, <3>1 DEF Whole, Inner, EachOnce
  <2>8. \A r \in DOMAIN nodes : /\ IsNode(nodes[r]) /\ nodes[r].metrics \subseteq {"value"}
                                /\ nodes[r].kind = h.nodes[r].kind
                                /\ nodes[r].project = h.nodes[r].project
                                /\ nodes[r].location = h.nodes[r].location
                                /\ nodes[r].users = h.nodes[r].users
    <3> SUFFICES ASSUME NEW r \in DOMAIN nodes
                 PROVE  /\ IsNode(nodes[r]) /\ nodes[r].metrics \subseteq {"value"}
                        /\ nodes[r].kind = h.nodes[r].kind
                        /\ nodes[r].project = h.nodes[r].project
                        /\ nodes[r].location = h.nodes[r].location
                        /\ nodes[r].users = h.nodes[r].users
      OBVIOUS
    <3>1. CASE r = ref
      BY <2>4, <2>6, <3>1
    <3>2. CASE r # ref
      <4>1. r \in DOMAIN h.nodes /\ nodes[r] = h.nodes[r]
        BY <2>4, <3>2
      <4>2. IsNode(h.nodes[r]) /\ h.nodes[r].metrics \subseteq {"value"}
        BY <4>1 DEF Described
      <4>3. QED
        BY <4>1, <4>2
    <3>3. QED
      BY <3>1, <3>2
  <2>9. QED
    <3>1. ASSUME NEW a \in KnownIn(A)
          PROVE  Shows(nodes[Leaf(a.name)], a, region)
      <4>1. Shows(h.nodes[Leaf(a.name)], a, region)
        BY DEF Described
      <4>2. Leaf(a.name) \in DOMAIN nodes
        BY <2>4
      <4>3. QED
        BY <2>8, <4>1, <4>2 DEF Shows
    <3>2. \A r \in DOMAIN nodes : r[1] # "leaf" => nodes[r].kind = r[1] /\ nodes[r].location = ""
      BY <2>4, <2>8 DEF Described
    <3>3. Described(nodes, A, region)
      BY <2>4, <2>8, <3>1, <3>2 DEF Described
    <3>4. QED
      BY <2>4, <2>7, <3>3
<1>3. QED
  BY <1>1, <1>2

\* Being fresh depends on which nodes there are and what they show.
LEMMA FreshNodes ==
  ASSUME NEW A, NEW nodes, NEW E, Fresh(A, nodes, E),
         NEW new, DOMAIN new = DOMAIN nodes, Described(new, A, Canonical)
  PROVE  Fresh(A, new, E)
<1>1. Linked(A, new, E)
  BY DEF Fresh, Linked, Within
<1>2. QED
  BY <1>1 DEF Fresh

LEMMA EnrichInv ==
  ASSUME IInv, NEW a \in assets, Enrich(a)
  PROVE  IInv'
<1>1. /\ phase = "enrich" /\ g' = SetMetric(g, Leaf(a.name), "value")
      /\ phase' = phase /\ assets' = assets /\ todo' = todo /\ snapshot' = snapshot
  BY DEF Enrich
<1>2. Whole(g) /\ g.dangling \in Nat /\ Fresh(assets, g.nodes, Inner(g))
  BY <1>1 DEF IInv, Sealed
<1>3. /\ Described(g.nodes, assets, Canonical)
      /\ \A b \in KnownIn(assets) : Leaf(b.name) \in DOMAIN g.nodes
  BY <1>2 DEF Fresh, Refs
<1>4. /\ Whole(g') /\ Inner(g') = Inner(g) /\ g'.dangling = g.dangling
      /\ DOMAIN g'.nodes = DOMAIN g.nodes /\ Described(g'.nodes, assets, Canonical)
  BY <1>1, <1>2, <1>3, MetricFact
<1>5. Fresh(assets, g'.nodes, Inner(g'))
  BY <1>2, <1>4, FreshNodes
<1>6. Sealed'
  BY <1>1, <1>2, <1>4, <1>5 DEF Sealed
<1>7. QED
  BY <1>1, <1>6 DEF IInv, Types, Listed, NoGraph, Stored

-----------------------------------------------------------------------------
(* The steps of a snapshot *)

LEMMA SaveInv ==
  ASSUME IInv, Save
  PROVE  IInv'
<1>1. /\ phase \in {"enrich", "migrated"} /\ snapshot' = WriteSnapshot(g, 3) /\ view' = View(g)
      /\ phase' = "saved" /\ g' = NewGraph /\ assets' = assets /\ todo' = todo
  BY DEF Save
<1>2. Whole(g) /\ Fresh(assets, g.nodes, Inner(g))
  BY <1>1 DEF IInv, Sealed
<1>3. snapshot' = [version |-> 3, nodes |-> g.nodes, edges |-> SetToBag(Inner(g))]
  BY <1>1, <1>2, FrozenFact, WriteFact
<1>4. /\ snapshot'.version = 3 /\ snapshot'.nodes = g.nodes /\ snapshot'.edges = SetToBag(Inner(g))
  BY <1>3
<1>5. DOMAIN snapshot'.edges = Inner(g)
  BY <1>4, BagFact
<1>6. view' = Seen(g.nodes, Inner(g))
  BY <1>1, <1>2, ViewFact
<1>7. Stored'
  BY <1>1, <1>2, <1>4, <1>5, <1>6 DEF Stored
<1>8. QED
  BY <1>1, <1>4, <1>7 DEF IInv, Types, Listed, NoGraph, Sealed

LEMMA ReplayInv ==
  ASSUME IInv, Replay
  PROVE  IInv'
<1>1. /\ phase = "saved" /\ g' = LoadSnapshot(snapshot) /\ phase' = "replay"
      /\ assets' = assets /\ todo' = todo /\ snapshot' = snapshot /\ view' = view
  BY DEF Replay
<1> DEFINE E == DOMAIN snapshot.edges
<1>2. snapshot.edges = SetToBag(E)
  BY <1>1 DEF IInv, Stored
<1>3. Table(snapshot.nodes) /\ Within(snapshot.nodes, E) = E /\ IsFiniteSet(E)
  BY <1>1 DEF IInv, Stored, Fresh, Earlier, Described, Linked
<1> HIDE DEF E
<1>4. /\ Whole(g') /\ g'.nodes = snapshot.nodes /\ Inner(g') = E
      /\ DOMAIN g'.out = E /\ DOMAIN g'.in = E /\ g'.dangling \in Nat
  BY <1>1, <1>2, <1>3, LoadFact
<1>5. Sealed'
  BY <1>1, <1>4 DEF Sealed, E
<1>6. Stored'
  BY <1>1 DEF IInv, Stored
<1>7. QED
  BY <1>1, <1>5, <1>6 DEF IInv, Types, Listed, NoGraph

-----------------------------------------------------------------------------
(* The migration of a release 2 snapshot *)

\* The assets whose leaves get a region.
Placeable == {a \in assets : Owned(a) /\ Canonical[a.location] # ""}

\* What the migration adds for them, and what becomes of the nodes that were there.
NewRegions == {Region(Token(a), Canonical[a.location]) : a \in Placeable}
RegionEdges ==
  {Edge(Leaf(a.name), Region(Token(a), Canonical[a.location]), "contains") : a \in Placeable} \cup
  {Edge(Region(Token(a), Canonical[a.location]), Project(Token(a)), "contains") : a \in Placeable}
RegionNodes(R) == [r \in R |-> Container("region", r[2])]
MigratedOver(N) == Over(RegionNodes(NewRegions), CanonicalNodes(N))

\* What an inventory of release 2 has for nodes N, and of which kind.
EarlierShape(N) ==
  /\ \A r \in DOMAIN N : r[1] \in {"leaf", "project", "folder", "organization"}
  /\ \A a \in KnownIn(assets) : /\ Leaf(a.name) \in DOMAIN N
                                /\ N[Leaf(a.name)].kind = a.type
                                /\ N[Leaf(a.name)].project = a.owner
                                /\ N[Leaf(a.name)].location = a.location
  /\ \A a \in assets : Owned(a) => Project(Token(a)) \in DOMAIN N
  /\ \A t : Project(t) \in DOMAIN N => t # "" /\ N[Project(t)].kind = "project"
  /\ \A r \in DOMAIN N : N[r].kind # "region"
  /\ \A r \in DOMAIN N : r[1] = "leaf" => \E a \in KnownIn(assets) : r = Leaf(a.name)

\* What the proofs use of the nodes before regions.
LEMMA EarlierNodes ==
  ASSUME assets \in Inventories, NEW N, NEW E, Earlier(assets, N, E)
  PROVE  EarlierShape(N)
<1>1. \A r \in DOMAIN N : \/ \E a \in KnownIn(assets) : r = Leaf(a.name)
                          \/ \E a \in assets : r \in DOMAIN ContainerNodes(a) /\ r[1] # "region"
  BY DEF Earlier, EarlierRefs
<1>2. \A r \in DOMAIN N : r[1] \in {"leaf", "project", "folder", "organization"}
  <2>1. \A a : Leaf(a.name)[1] = "leaf"
    BY RefFact
  <2>2. \A a \in assets : \A r \in DOMAIN ContainerNodes(a) :
          r[1] # "region" => r[1] \in {"leaf", "project", "folder", "organization"}
    BY PlaceKinds
  <2>3. QED
    BY <1>1, <2>1, <2>2
<1>3. \A a \in KnownIn(assets) : Leaf(a.name) \in DOMAIN N
  BY DEF Earlier, EarlierRefs
<1>4. \A a \in KnownIn(assets) : /\ N[Leaf(a.name)].kind = a.type
                                 /\ N[Leaf(a.name)].project = a.owner
                                 /\ N[Leaf(a.name)].location = a.location
  <2> SUFFICES ASSUME NEW a \in KnownIn(assets)
               PROVE  /\ N[Leaf(a.name)].kind = a.type
                      /\ N[Leaf(a.name)].project = a.owner
                      /\ N[Leaf(a.name)].location = a.location
    OBVIOUS
  <2>1. Shows(N[Leaf(a.name)], a, AsSpelled)
    BY DEF Earlier, Described
  <2>2. a.location \in Locations
    BY InventoryFact DEF KnownIn
  <2>3. AsSpelled[a.location] = a.location
    BY <2>2, RegionsOfLocations
  <2>4. QED
    BY <2>1, <2>3 DEF Shows
<1>5. ASSUME NEW a \in assets, Owned(a)
      PROVE  Project(Token(a)) \in DOMAIN N
  <2>1. Project(Token(a)) \in DOMAIN ContainerNodes(a) /\ Project(Token(a))[1] = "project"
    BY <1>5, PlacesOf, RefFact
  <2>2. QED
    BY <2>1 DEF Earlier, EarlierRefs
<1>6. ASSUME NEW t, Project(t) \in DOMAIN N
      PROVE  t # "" /\ N[Project(t)].kind = "project"
  <2>1. PICK a \in assets : Project(t) \in DOMAIN ContainerNodes(a)
    BY <1>1, <1>6, ApartFact
  <2>2. t = Token(a) /\ Owned(a)
    BY <2>1, PlaceKinds
  <2>3. Project(t)[1] = "project"
    BY RefFact
  <2>4. N[Project(t)].kind = "project"
    BY <1>6, <2>3 DEF Earlier, Described
  <2>5. QED
    BY <2>2, <2>4 DEF Owned
<1>7. \A r \in DOMAIN N : N[r].kind # "region"
  <2>1. \A a \in KnownIn(assets) : a.type # "region"
    BY ModelledAssumption DEF KnownIn, Normalized
  <2>2. \A r \in DOMAIN N : r[1] # "leaf" => N[r].kind = r[1]
    BY DEF Earlier, Described
  <2>3. \A r \in DOMAIN N : r[1] # "region"
    BY <1>2
  <2>4. \A a \in assets : \A r \in DOMAIN ContainerNodes(a) : r[1] # "leaf"
    BY PlaceKinds
  <2>5. QED
    BY <1>1, <1>4, <2>1, <2>2, <2>3, <2>4
<1>8. \A r \in DOMAIN N : r[1] = "leaf" => \E a \in KnownIn(assets) : r = Leaf(a.name)
  <2>1. \A a \in assets : \A r \in DOMAIN ContainerNodes(a) : r[1] # "leaf"
    BY PlaceKinds
  <2>2. QED
    BY <1>1, <2>1
<1>9. QED
  BY <1>2, <1>3, <1>4, <1>5, <1>6, <1>7, <1>8 DEF EarlierShape

\* A leaf hangs off the project of its asset, if it has one.
LEMMA OwnersFact ==
  ASSUME assets \in Inventories, NEW h, Earlier(assets, h.nodes, DOMAIN h.out), NEW a \in KnownIn(assets)
  PROVE  \A p : p \in Owners(h, Leaf(a.name)) <=> Token(a) # "" /\ p = Project(Token(a))
<1> DEFINE r == Leaf(a.name)
           O == {e \in DOMAIN Out(h, r) :
                   e.kind = "contains" /\ e.to \in DOMAIN h.nodes /\ h.nodes[e.to].kind = "project"}
           by == {e.to : e \in O}
<1>0. EarlierShape(h.nodes)
  BY EarlierNodes
<1>1. Owners(h, r) = IF by # {} THEN by ELSE {Project(h.nodes[r].project)} \cap DOMAIN h.nodes
  BY DEF Owners
<1>2. DOMAIN Out(h, r) = {e \in DOMAIN h.out : e.from = r}
  BY DEF Out, Those
<1>3. ASSUME NEW e \in O
      PROVE  Token(a) # "" /\ e = Direct(a)
  <2>1. e \in DOMAIN h.out /\ e.from = r /\ e.kind = "contains"
    BY <1>2
  <2>2. PICK b \in assets : Owned(b) /\ (e \in AncestorEdges(b) \/ e = Direct(b))
    BY <2>1 DEF Earlier
  <2>3. e.from[1] = "leaf"
    BY <2>1, RefFact
  <2>4. e = Direct(b)
    BY <2>2, <2>3, AncestorEnds
  <2>5. Leaf(b.name) = Leaf(a.name)
    BY <2>1, <2>4 DEF Direct, Edge
  <2>6. b = a
    BY <2>5, RefFact, InventoryFact DEF KnownIn
  <2>7. QED
    BY <2>2, <2>4, <2>6 DEF Owned
<1>4. CASE Token(a) # ""
  <2>1. Owned(a) /\ a \in assets
    BY <1>4 DEF Owned, KnownIn
  <2>2. Direct(a) \in DOMAIN h.out
    BY <2>1 DEF Earlier
  <2>3. Project(Token(a)) \in DOMAIN h.nodes /\ h.nodes[Project(Token(a))].kind = "project"
    BY <1>0, <2>1 DEF EarlierShape
  <2>4. Direct(a).from = r /\ Direct(a).to = Project(Token(a)) /\ Direct(a).kind = "contains"
    BY DEF Direct, Edge
  <2>5. Direct(a) \in O
    BY <1>2, <2>2, <2>3, <2>4
  <2> HIDE DEF O
  <2>6. by = {Project(Token(a))}
    BY <1>3, <2>4, <2>5
  <2>7. QED
    BY <1>1, <1>4, <2>6
<1>5. CASE Token(a) = ""
  <2>1. by = {}
    BY <1>3, <1>5
  <2>2. a.owner = ""
    BY <1>5 DEF Token
  <2>3. h.nodes[r].project = ""
    BY <1>0, <2>2 DEF EarlierShape
  <2>4. Project("") \notin DOMAIN h.nodes
    BY <1>0 DEF EarlierShape
  <2> HIDE DEF by, r
  <2>5. Owners(h, r) = {}
    BY <1>1, <2>1, <2>3, <2>4
  <2>6. QED
    BY <1>5, <2>5 DEF r
<1>6. QED
  BY <1>4, <1>5

\* The leaves that get a region, each with its project.
LEMMA PlacedFact ==
  ASSUME assets \in Inventories, NEW h, Earlier(assets, h.nodes, DOMAIN h.out)
  PROVE  \A r, p : /\ r \in Located(h) /\ p \in DOMAIN h.nodes /\ p \in Owners(h, r)
                   <=> \E a \in Placeable : r = Leaf(a.name) /\ p = Project(Token(a))
<1>1. \A r : r \in Located(h) <=> \E a \in KnownIn(assets) : r = Leaf(a.name) /\ Canonical[a.location] # ""
  <2>0. EarlierShape(h.nodes)
    BY EarlierNodes
  <2>1. \A r \in Leaves(h) : \E a \in KnownIn(assets) : r = Leaf(a.name)
    BY <2>0 DEF EarlierShape, Leaves
  <2>2. \A a \in KnownIn(assets) : Leaf(a.name) \in Leaves(h) /\ h.nodes[Leaf(a.name)].location = a.location
    BY <2>0, RefFact DEF EarlierShape, Leaves
  <2> DEFINE Placed(l) == Canonical[l] # ""
  <2>3. \A r : r \in Located(h) <=> r \in Leaves(h) /\ Placed(h.nodes[r].location)
    BY Zenon DEF Located
  <2> HIDE DEF Placed
  <2>4. \A r : r \in Located(h) <=> \E a \in KnownIn(assets) : r = Leaf(a.name) /\ Placed(a.location)
    BY <2>1, <2>2, <2>3
  <2>5. QED
    BY Zenon, <2>4 DEF Placed
<1>2. \A a \in assets : Owned(a) => Project(Token(a)) \in DOMAIN h.nodes
  BY EarlierNodes DEF EarlierShape
<1>3. \A a : a \in Placeable <=> a \in KnownIn(assets) /\ Token(a) # "" /\ Canonical[a.location] # ""
  BY DEF Placeable, KnownIn, Owned
<1>4. ASSUME NEW a \in KnownIn(assets), NEW p
      PROVE  p \in Owners(h, Leaf(a.name)) <=> Token(a) # "" /\ p = Project(Token(a))
  BY OwnersFact
<1>5. ASSUME NEW r, NEW p, r \in Located(h), p \in DOMAIN h.nodes, p \in Owners(h, r)
      PROVE  \E a \in Placeable : r = Leaf(a.name) /\ p = Project(Token(a))
  <2>1. PICK a \in KnownIn(assets) : r = Leaf(a.name) /\ Canonical[a.location] # ""
    BY <1>1, <1>5
  <2>2. Token(a) # "" /\ p = Project(Token(a))
    BY <1>4, <1>5, <2>1
  <2>3. a \in Placeable
    BY <1>3, <2>1, <2>2
  <2>4. QED
    BY <2>1, <2>2, <2>3
<1>6. ASSUME NEW a \in Placeable
      PROVE  /\ Leaf(a.name) \in Located(h) /\ Project(Token(a)) \in DOMAIN h.nodes
             /\ Project(Token(a)) \in Owners(h, Leaf(a.name))
  <2>1. a \in KnownIn(assets) /\ Token(a) # "" /\ Canonical[a.location] # "" /\ a \in assets /\ Owned(a)
    BY <1>3 DEF Placeable
  <2>2. QED
    BY <1>1, <1>2, <1>4, <2>1
<1>7. QED
  BY <1>5, <1>6

\* The nodes of a migrated graph: every leaf in its canonical place, and the regions.
LEMMA MigratedNodes ==
  ASSUME assets \in Inventories, NEW N, NEW E, Earlier(assets, N, E),
         NEW new, new = MigratedOver(N)
  PROVE  DOMAIN new = Refs(assets) /\ DOMAIN new = DOMAIN N \cup NewRegions
         /\ Described(new, assets, Canonical)
<1> DEFINE R == NewRegions
           T == RegionNodes(R)
           C == CanonicalNodes(N)
<1>0. R = {Region(Token(a), Canonical[a.location]) : a \in Placeable} /\ new = Over(T, C)
  BY DEF NewRegions, MigratedOver
<1> HIDE DEF R, T, C
<1>1. \A r \in R : r[1] = "region"
  BY <1>0, RefFact
<1>2. \A r \in DOMAIN N : r[1] # "region" /\ r \notin R
  BY <1>1, EarlierNodes DEF EarlierShape
<1>3. /\ DOMAIN new = R \cup DOMAIN N
      /\ \A r \in R : new[r] = Container("region", r[2])
      /\ \A r \in DOMAIN N : new[r] = [N[r] EXCEPT !.location = Canonical[@]]
      /\ Table(new)
  <2>1. Table(new)
    BY <1>0 DEF Over, Table
  <2>2. /\ DOMAIN new = DOMAIN T \cup DOMAIN C
        /\ \A r \in DOMAIN T : new[r] = T[r]
        /\ \A r \in DOMAIN C \ DOMAIN T : new[r] = C[r]
    BY <1>0 DEF Over
  <2>3. DOMAIN T = R /\ DOMAIN C = DOMAIN N
    BY DEF T, C, RegionNodes, CanonicalNodes
  <2>4. /\ \A r \in R : T[r] = Container("region", r[2])
        /\ \A r \in DOMAIN N : C[r] = [N[r] EXCEPT !.location = Canonical[@]]
    BY DEF T, C, RegionNodes, CanonicalNodes
  <2>5. QED
    BY <1>2, <2>1, <2>2, <2>3, <2>4
<1>4. DOMAIN new = Refs(assets)
  <2>1. ASSUME NEW a \in assets, NEW r \in DOMAIN ContainerNodes(a)
        PROVE  r \in DOMAIN N \cup R
    <3>1. CASE r[1] # "region"
      BY <3>1 DEF Earlier, EarlierRefs
    <3>2. CASE r[1] = "region"
      <4>1. Owned(a)
        BY PlacesFact
      <4>2. Canonical[a.location] # "" /\ r = Region(Token(a), Canonical[a.location])
        <5>1. /\ r # Project(Token(a))
              /\ \A f \in a.folders : r # Folder(f)
              /\ r # Organization(a.org)
          BY <3>2, RefFact
        <5>2. QED
          BY <5>1, PlacesFact
      <4>3. a \in Placeable
        BY <4>1, <4>2 DEF Placeable
      <4>4. QED
        BY <1>0, <4>2, <4>3
    <3>3. QED
      BY <3>1, <3>2
  <2>2. \A a \in KnownIn(assets) : Leaf(a.name) \in DOMAIN N
    BY EarlierNodes DEF EarlierShape
  <2>3. DOMAIN N \subseteq Refs(assets)
    BY DEF Earlier, EarlierRefs, Refs
  <2>4. R \subseteq Refs(assets)
    <3>1. ASSUME NEW a \in Placeable
          PROVE  Region(Token(a), Canonical[a.location]) \in Refs(assets)
      <4>1. a \in assets /\ Owned(a) /\ Canonical[a.location] # ""
        BY DEF Placeable
      <4>2. Region(Token(a), Canonical[a.location]) \in DOMAIN ContainerNodes(a)
        BY <4>1, PlacesOf
      <4>3. QED
        BY <4>1, <4>2 DEF Refs
    <3>2. QED
      BY <1>0, <3>1
  <2>5. Refs(assets) \subseteq DOMAIN N \cup R
    BY <2>1, <2>2 DEF Refs
  <2>6. QED
    BY <1>3, <2>3, <2>4, <2>5
<1>5. \A r \in DOMAIN N : /\ IsNode(new[r]) /\ new[r].metrics = N[r].metrics
                          /\ new[r].kind = N[r].kind /\ new[r].project = N[r].project
                          /\ new[r].users = N[r].users
                          /\ new[r].location = Canonical[N[r].location]
  <2> SUFFICES ASSUME NEW r \in DOMAIN N
               PROVE  /\ IsNode(new[r]) /\ new[r].metrics = N[r].metrics
                      /\ new[r].kind = N[r].kind /\ new[r].project = N[r].project
                      /\ new[r].users = N[r].users
                      /\ new[r].location = Canonical[N[r].location]
    OBVIOUS
  <2> DEFINE n == N[r]
             m == new[r]
  <2>1. IsNode(n)
    BY DEF Earlier, Described
  <2>2. m = [n EXCEPT !.location = Canonical[@]]
    BY <1>3
  <2> HIDE DEF n, m
  <2>3. m = [kind |-> n.kind, project |-> n.project, location |-> Canonical[n.location],
             users |-> n.users, metrics |-> n.metrics]
    BY <2>1, <2>2 DEF IsNode
  <2>4. /\ IsNode(m) /\ m.metrics = n.metrics /\ m.kind = n.kind /\ m.project = n.project
        /\ m.users = n.users /\ m.location = Canonical[n.location]
    BY <2>3 DEF IsNode
  <2>5. QED
    BY <2>4 DEF m, n
<1>6. \A r \in R : /\ IsNode(new[r]) /\ new[r].metrics = {}
                   /\ new[r].kind = r[1] /\ new[r].location = ""
  <2> SUFFICES ASSUME NEW r \in R
               PROVE  /\ IsNode(new[r]) /\ new[r].metrics = {}
                      /\ new[r].kind = r[1] /\ new[r].location = ""
    OBVIOUS
  <2>1. new[r] = Container("region", r[2]) /\ r[1] = "region"
    BY <1>1, <1>3
  <2>2. /\ IsNode(Container("region", r[2])) /\ Container("region", r[2]).metrics = {}
        /\ Container("region", r[2]).kind = "region" /\ Container("region", r[2]).location = ""
    BY ContainerFact
  <2>3. QED
    BY ONLY <2>1, <2>2
<1>7. \A a \in KnownIn(assets) : Shows(new[Leaf(a.name)], a, Canonical)
  <2> SUFFICES ASSUME NEW a \in KnownIn(assets)
               PROVE  Shows(new[Leaf(a.name)], a, Canonical)
    OBVIOUS
  <2>1. Leaf(a.name) \in DOMAIN N /\ N[Leaf(a.name)].location = a.location
    BY EarlierNodes DEF EarlierShape
  <2>2. Shows(N[Leaf(a.name)], a, AsSpelled)
    BY DEF Earlier, Described
  <2>3. QED
    BY <1>5, <2>1, <2>2 DEF Shows
<1>8. \A r \in DOMAIN new : r[1] # "leaf" => new[r].kind = r[1] /\ new[r].location = ""
  <2>1. \A r \in DOMAIN N : r[1] # "leaf" => N[r].kind = r[1] /\ N[r].location = ""
    BY DEF Earlier, Described
  <2>2. Canonical[""] = ""
    BY LocationAssumption
  <2>3. \A r \in DOMAIN N : r[1] # "leaf" => new[r].kind = r[1] /\ new[r].location = ""
    BY <1>5, <2>1, <2>2
  <2>4. QED
    BY <1>3, <1>6, <2>3
<1>9. \A r \in DOMAIN new : IsNode(new[r]) /\ new[r].metrics \subseteq {"value"}
  <2> SUFFICES ASSUME NEW r \in DOMAIN new
               PROVE  IsNode(new[r]) /\ new[r].metrics \subseteq {"value"}
    OBVIOUS
  <2>1. CASE r \in R
    BY <1>6, <2>1
  <2>2. CASE r \in DOMAIN N
    <3>1. IsNode(new[r]) /\ new[r].metrics = N[r].metrics
      BY <1>5, <2>2
    <3>2. N[r].metrics \subseteq {"value"}
      BY <2>2 DEF Earlier, Described
    <3>3. QED
      BY <3>1, <3>2
  <2>3. QED
    BY <1>3, <2>1, <2>2
<1>10. QED
  BY <1>3, <1>4, <1>7, <1>8, <1>9 DEF Described, R

\* The chains of the migrated leaves, next to the edges that were there, make the
\* hierarchy of a fresh graph.
LEMMA MigratedFresh ==
  ASSUME assets \in Inventories, NEW N, NEW E, Earlier(assets, N, E),
         NEW new, DOMAIN new = Refs(assets), DOMAIN new = DOMAIN N \cup NewRegions,
         Described(new, assets, Canonical)
  PROVE  /\ IsFiniteSet(RegionEdges) /\ E \cap RegionEdges = {}
         /\ Within(new, E \cup RegionEdges) = E \cup RegionEdges
         /\ Fresh(assets, new, E \cup RegionEdges)
<1> DEFINE R == NewRegions
           X == RegionEdges
<1>0. /\ R = {Region(Token(a), Canonical[a.location]) : a \in Placeable}
      /\ \A e : e \in X <=> \E a \in Placeable :
           \/ e = Edge(Leaf(a.name), Region(Token(a), Canonical[a.location]), "contains")
           \/ e = Edge(Region(Token(a), Canonical[a.location]), Project(Token(a)), "contains")
  BY DEF NewRegions, RegionEdges
<1>12. DOMAIN new = DOMAIN N \cup R
  OBVIOUS
<1> HIDE DEF R, X
<1>1. IsFiniteSet(X)
  <2> DEFINE up == [a \in assets |-> Edge(Leaf(a.name), Region(Token(a), Canonical[a.location]), "contains")]
             on == [a \in assets |-> Edge(Region(Token(a), Canonical[a.location]), Project(Token(a)), "contains")]
             U == {up[a] : a \in assets}
             O == {on[a] : a \in assets}
  <2>1. X \subseteq U \cup O
    BY <1>0 DEF Placeable
  <2>2. (\A t \in U : \E a \in assets : t = up[a]) /\ (\A t \in O : \E a \in assets : t = on[a])
    OBVIOUS
  <2> HIDE DEF up, on, U, O
  <2>3. IsFiniteSet(assets)
    BY InventoryFact
  <2>4. IsFiniteSet(U) /\ IsFiniteSet(O)
    BY <2>2, <2>3, ImageFinite
  <2>5. IsFiniteSet(U \cup O)
    BY <2>4, FS_Union
  <2>6. QED
    BY <2>1, <2>5, FS_Subset
<1>2. \A r \in DOMAIN N : r[1] # "region"
  BY EarlierNodes DEF EarlierShape
<1>3. \A a \in Placeable : a \in assets /\ Owned(a) /\ Canonical[a.location] # ""
  BY DEF Placeable
<1>4. ASSUME NEW e \in X
      PROVE  /\ e.kind = "contains" /\ e.from \in DOMAIN new /\ e.to \in DOMAIN new
             /\ e.from[1] = "region" \/ e.to[1] = "region"
             /\ \E a \in assets : e \in ContainmentEdges(a)
  <2>1. PICK a \in Placeable :
          \/ e = Edge(Leaf(a.name), Region(Token(a), Canonical[a.location]), "contains")
          \/ e = Edge(Region(Token(a), Canonical[a.location]), Project(Token(a)), "contains")
    BY <1>0
  <2>2. e \in ContainmentEdges(a)
    BY <1>3, <2>1, ContainmentEdgesFact
  <2>3. /\ e.kind = "contains" /\ e.from \in {Leaf(a.name)} \cup DOMAIN ContainerNodes(a)
        /\ e.to \in DOMAIN ContainerNodes(a)
    BY <1>3, <2>2, EndsFact
  <2>4. a \in KnownIn(assets)
    BY <1>3 DEF Owned, KnownIn
  <2>5. e.from \in DOMAIN new /\ e.to \in DOMAIN new
    BY <1>3, <2>3, <2>4 DEF Refs
  <2>6. e.from[1] = "region" \/ e.to[1] = "region"
    BY <2>1, RefFact DEF Edge
  <2>7. QED
    BY <1>3, <2>2, <2>3, <2>5, <2>6
<1>5. \A e \in E : e.from \in DOMAIN N /\ e.to \in DOMAIN N
  BY DEF Earlier, Linked, Within
<1>6. E \cap X = {}
  BY <1>2, <1>4, <1>5
<1>7. Within(new, E \cup X) = E \cup X
  BY <1>4, <1>5 DEF Within
<1>8. Linked(assets, new, E \cup X)
  <2>1. IsFiniteSet(E \cup X)
    BY <1>1, FS_Union DEF Earlier, Linked
  <2>2. ASSUME NEW e \in E \cup X, e.kind = "attached_to"
        PROVE  \E a \in assets : e \in LinkEdges(a)
    BY <1>4, <2>2 DEF Earlier, Linked
  <2>3. ASSUME NEW a \in assets, NEW e \in LinkEdges(a), e.kind = "attached_to",
               e.from \in DOMAIN new, e.to \in DOMAIN new
        PROVE  e \in E
    <3>1. e.from[1] = "leaf" /\ e.to[1] = "leaf"
      <4>1. ASSUME NEW x, NEW y, e = Edge(Leaf(x), Leaf(y), "attached_to")
            PROVE  e.from[1] = "leaf" /\ e.to[1] = "leaf"
        BY <4>1, RefFact DEF Edge
      <4>2. QED
        BY <2>3, <4>1, LinkEdgesFact
    <3>2. e.from \notin R /\ e.to \notin R
      BY <1>0, <3>1, RefFact
    <3>3. e.from \in DOMAIN N /\ e.to \in DOMAIN N
      BY <1>12, <2>3, <3>2
    <3>4. QED
      BY <2>3, <3>3 DEF Earlier, Linked
  <2>4. QED
    BY <1>7, <2>1, <2>2, <2>3 DEF Linked
<1>9. ASSUME NEW a \in assets, NEW e \in ContainmentEdges(a)
      PROVE  e \in E \cup X
  <2>1. Owned(a)
    BY ContainmentEdgesFact
  <2>2. AncestorEdges(a) \subseteq E /\ Direct(a) \in E
    BY <2>1 DEF Earlier
  <2>3. ASSUME Canonical[a.location] # ""
        PROVE  a \in Placeable
    BY <2>1, <2>3 DEF Placeable
  <2>4. QED
    BY <1>0, <2>2, <2>3, ContainmentEdgesFact
<1>10. ASSUME NEW e \in E \cup X, e.kind = "contains"
       PROVE  \E a \in assets : Owned(a) /\ (e \in ContainmentEdges(a) \/ e = Direct(a))
  <2>1. CASE e \in X
    <3>1. PICK a \in assets : e \in ContainmentEdges(a)
      BY <1>4, <2>1
    <3>2. Owned(a)
      BY <3>1, ContainmentEdgesFact
    <3>3. QED
      BY <3>1, <3>2
  <2>2. CASE e \in E
    <3>1. PICK a \in assets : Owned(a) /\ (e \in AncestorEdges(a) \/ e = Direct(a))
      BY <1>10, <2>2 DEF Earlier
    <3>2. e \in AncestorEdges(a) => e \in ContainmentEdges(a)
      BY <3>1, ContainmentEdgesFact
    <3>3. QED
      BY <3>1, <3>2
  <2>3. QED
    BY <2>1, <2>2
<1>11. QED
  BY <1>1, <1>6, <1>7, <1>8, <1>9, <1>10 DEF Fresh, X

LEMMA MigratedFact ==
  ASSUME assets \in Inventories, NEW h, Whole(h), h.dangling \in Nat,
         NEW E, DOMAIN h.out = E, DOMAIN h.in = E, Inner(h) = E, Earlier(assets, h.nodes, E),
         NEW s, s = Migrated(h)
  PROVE  Whole(s) /\ s.dangling \in Nat /\ Fresh(assets, s.nodes, Inner(s))
<1> DEFINE N == h.nodes
<1>1. \A r \in DOMAIN N : N[r].kind # "region"
  BY EarlierNodes DEF EarlierShape
<1>2. CASE Leaves(h) = {}
  <2>1. s = h
    BY <1>2 DEF Migrated
  <2>2. KnownIn(assets) = {}
    <3>1. Leaves(h) = {Leaf(a.name) : a \in KnownIn(assets)}
      BY LeavesFact DEF Earlier
    <3>2. QED
      BY <1>2, <3>1
  <2>3. \A a \in assets : ~Owned(a)
    BY <2>2 DEF KnownIn, Owned
  <2>4. \A a \in assets : DOMAIN ContainerNodes(a) = {} /\ ContainmentEdges(a) = {}
    BY <2>3, PlaceKinds, ContainmentEdgesFact
  <2>5. DOMAIN N = {} /\ Refs(assets) = {}
    BY <2>2, <2>4 DEF Earlier, EarlierRefs, Refs
  <2>6. Described(N, assets, Canonical)
    BY <2>2, <2>5 DEF Earlier, Described
  <2>7. E = {}
    BY <2>5 DEF Earlier, Linked, Within
  <2>8. Fresh(assets, N, E)
    BY <2>4, <2>5, <2>6, <2>7 DEF Fresh, Earlier
  <2>9. QED
    BY <2>1, <2>8
<1>3. CASE Leaves(h) # {}
  <2> DEFINE placed == {x \in Located(h) \X DOMAIN h.nodes : x[2] \in Owners(h, x[1])}
             R == {RegionOf(h, x[1], x[2]) : x \in placed}
             X == UNION {Chain(h, x[1], x[2]) : x \in placed}
             C == CanonicalNodes(N)
             new == Over(RegionNodes(R), C)
             c == Canonicalised(h)
             w == WithRegions(c, R)
             j == AddEdges(w, SetToBag(X))
  <2>1. s = Freeze(j)
    BY <1>1, <1>3 DEF Migrated
  <2>2. \A x \in placed : \E a \in Placeable : x[1] = Leaf(a.name) /\ x[2] = Project(Token(a))
    BY PlacedFact
  <2>3. \A a \in Placeable : <<Leaf(a.name), Project(Token(a))>> \in placed
    BY PlacedFact
  <2>4. \A a \in Placeable : RegionOf(h, Leaf(a.name), Project(Token(a))) = Region(Token(a), Canonical[a.location])
    <3> SUFFICES ASSUME NEW a \in Placeable
                 PROVE  RegionOf(h, Leaf(a.name), Project(Token(a))) = Region(Token(a), Canonical[a.location])
      OBVIOUS
    <3>1. a \in KnownIn(assets)
      BY DEF Placeable, KnownIn, Owned
    <3>2. h.nodes[Leaf(a.name)].location = a.location
      BY <3>1, EarlierNodes DEF EarlierShape
    <3>3. Project(Token(a))[2] = Token(a)
      BY RefFact
    <3>4. QED
      BY <3>2, <3>3 DEF RegionOf
  <2>5. c = [nodes |-> C, out |-> h.out, in |-> h.in, frozen |-> TRUE, dangling |-> h.dangling]
    <3>1. c = [h EXCEPT !.nodes = C]
      BY DEF Canonicalised
    <3> HIDE DEF C, c
    <3>2. QED
      BY <3>1 DEF Whole, IsGraph
  <2> HIDE DEF placed
  <2>6. R = NewRegions
    <3>1. ASSUME NEW x \in placed
          PROVE  \E a \in Placeable : RegionOf(h, x[1], x[2]) = Region(Token(a), Canonical[a.location])
      BY <2>2, <2>4
    <3>2. ASSUME NEW a \in Placeable
          PROVE  \E x \in placed : RegionOf(h, x[1], x[2]) = Region(Token(a), Canonical[a.location])
      <4> DEFINE x == <<Leaf(a.name), Project(Token(a))>>
      <4>1. x \in placed /\ x[1] = Leaf(a.name) /\ x[2] = Project(Token(a))
        BY <2>3
      <4> HIDE DEF x
      <4>2. QED
        BY <2>4, <4>1
    <3>3. QED
      BY <3>1, <3>2 DEF NewRegions
  <2>7. X = RegionEdges
    <3> SUFFICES \A e : e \in X <=> \E a \in Placeable :
                    \/ e = Edge(Leaf(a.name), Region(Token(a), Canonical[a.location]), "contains")
                    \/ e = Edge(Region(Token(a), Canonical[a.location]), Project(Token(a)), "contains")
      <4> HIDE DEF X
      <4>1. QED  BY DEF RegionEdges
    <3> DEFINE Two(a, e) ==
                 \/ e = Edge(Leaf(a.name), Region(Token(a), Canonical[a.location]), "contains")
                 \/ e = Edge(Region(Token(a), Canonical[a.location]), Project(Token(a)), "contains")
    <3>1. \A a \in Placeable : \A e : e \in Chain(h, Leaf(a.name), Project(Token(a))) <=> Two(a, e)
      BY <2>4 DEF Chain
    <3> HIDE DEF Two
    <3>2. ASSUME NEW x \in placed, NEW e \in Chain(h, x[1], x[2])
          PROVE  \E a \in Placeable : Two(a, e)
      BY <2>2, <3>1
    <3>3. ASSUME NEW a \in Placeable, NEW e, Two(a, e)
          PROVE  e \in X
      <4> DEFINE x == <<Leaf(a.name), Project(Token(a))>>
      <4>1. x \in placed /\ x[1] = Leaf(a.name) /\ x[2] = Project(Token(a))
        BY <2>3
      <4> HIDE DEF x
      <4>2. e \in Chain(h, x[1], x[2])
        BY <3>1, <3>3, <4>1
      <4>3. QED
        BY <4>1, <4>2
    <3>4. \A e : e \in X <=> \E a \in Placeable : Two(a, e)
      BY <3>2, <3>3
    <3>5. QED
      BY <3>4 DEF Two
  <2>8. w = [nodes |-> new, out |-> h.out, in |-> h.in, frozen |-> FALSE, dangling |-> h.dangling]
    <3>1. w = AddNodes(Unfreeze(c), RegionNodes(R))
      BY DEF WithRegions, RegionNodes
    <3> HIDE DEF R, C, c, w
    <3> DEFINE u == Unfreeze(c)
    <3>2. u = [nodes |-> C, out |-> h.out, in |-> h.in, frozen |-> FALSE, dangling |-> h.dangling]
      <4>1. u = [c EXCEPT !.frozen = FALSE]
        BY DEF Unfreeze
      <4> HIDE DEF u
      <4>2. QED
        BY ONLY <2>5, <4>1
    <3> HIDE DEF u
    <3>3. AddNodes(u, RegionNodes(R)) = [u EXCEPT !.nodes = new]
      BY <3>2 DEF AddNodes, new
    <3>4. w = AddNodes(u, RegionNodes(R))
      BY <3>1 DEF u
    <3>5. QED
      BY <3>2, <3>3, <3>4
  <2> HIDE DEF X, R, C, new, c, w, j
  <2>9. DOMAIN new = Refs(assets) /\ DOMAIN new = DOMAIN N \cup R /\ Described(new, assets, Canonical)
    <3>1. new = MigratedOver(N)
      BY <2>6 DEF MigratedOver, C, new
    <3>2. QED
      BY <2>6, <3>1, MigratedNodes
  <2>10. /\ IsFiniteSet(X) /\ E \cap X = {}
         /\ Within(new, E \cup X) = E \cup X
         /\ Fresh(assets, new, E \cup X)
    BY <2>6, <2>7, <2>9, MigratedFresh
  <2>11. h.out = SetToBag(E) /\ h.in = SetToBag(E)
    BY DEF Whole, EachOnce
  <2>12. IsGraph(w) /\ w.out = SetToBag(E) /\ w.in = SetToBag(E)
    BY <2>8, <2>11 DEF IsGraph
  <2>13. j = [nodes |-> new, out |-> SetToBag(E \cup X), in |-> SetToBag(E \cup X),
              frozen |-> FALSE, dangling |-> h.dangling]
    <3>1. AddEdges(w, SetToBag(X)) =
            [nodes |-> w.nodes, out |-> SetToBag(E \cup X), in |-> SetToBag(E \cup X),
             frozen |-> w.frozen, dangling |-> w.dangling]
      BY <2>10, <2>12, AddEdgesFact
    <3>2. w.nodes = new /\ w.frozen = FALSE /\ w.dangling = h.dangling
      BY <2>8
    <3>3. QED
      BY <3>1, <3>2 DEF j
  <2>14. IsFiniteSet(E \cup X)
    BY <2>10, FS_Union DEF Earlier, Linked
  <2> DEFINE F == E \cup X
  <2> HIDE DEF F
  <2>15. /\ IsGraph(j) /\ j.frozen = FALSE /\ j.nodes = new /\ Table(j.nodes) /\ EachOnce(j)
         /\ DOMAIN j.out = F /\ DOMAIN j.in = F /\ j.dangling \in Nat
    <3>1. j = [nodes |-> new, out |-> SetToBag(F), in |-> SetToBag(F), frozen |-> FALSE, dangling |-> h.dangling]
      BY <2>13 DEF F
    <3>2. Table(new)
      BY <2>9 DEF Described
    <3>3. QED
      BY <3>1, <3>2, BagFact DEF IsGraph, EachOnce
  <2>16. Whole(s) /\ s.nodes = new /\ Inner(s) = Within(new, F)
    BY <2>1, <2>15, FreezeWhole
  <2>17. s.dangling \in Nat
    BY <2>1, <2>14, <2>15, DanglingFact DEF F
  <2>18. QED
    BY <2>10, <2>16, <2>17 DEF F
<1>4. QED
  BY <1>2, <1>3

LEMMA MigrateInv ==
  ASSUME IInv, Migrate
  PROVE  IInv'
<1>1. /\ phase = "replay" /\ snapshot.version < 3 /\ g' = Migrated(g) /\ phase' = "migrated"
      /\ assets' = assets /\ todo' = todo /\ snapshot' = snapshot
  BY DEF Migrate
<1>2. assets \in Inventories /\ snapshot.version = 2
  BY <1>1 DEF IInv, Types, Stored
<1>3. /\ Whole(g) /\ g.dangling \in Nat /\ DOMAIN g.out = Inner(g) /\ DOMAIN g.in = Inner(g)
      /\ Earlier(assets, g.nodes, Inner(g))
  BY <1>1, <1>2 DEF IInv, Sealed, Stored
<1>4. Whole(g') /\ g'.dangling \in Nat /\ Fresh(assets, g'.nodes, Inner(g'))
  BY <1>1, <1>2, <1>3, MigratedFact
<1>5. Sealed'
  BY <1>1, <1>4 DEF Sealed
<1>6. QED
  BY <1>1, <1>5 DEF IInv, Types, Listed, NoGraph, Stored

-----------------------------------------------------------------------------

LEMMA StutterInv ==
  ASSUME IInv, UNCHANGED vars
  PROVE  IInv'
  BY DEF vars, IInv, Types, Listed, NoGraph, Stored, Sealed

\* The invariant holds of every behaviour: no order of the listing, no failure of it,
\* no replay and no migration leaves a graph or a snapshot that it excludes
\* (gcp.go Ingest, snapshot.go, MigrateV2ToV3).
THEOREM Invariance == Spec => []IInv
<1>1. Init => IInv
  BY InitInv
<1>2. ASSUME IInv, [Next]_vars
      PROVE  IInv'
  <2>1. ASSUME NEW a \in assets, Visit(a) \/ Enrich(a) PROVE IInv'
    BY <1>2, <2>1, VisitInv, EnrichInv
  <2>2. CASE ListFails
    BY <1>2, <2>2, ListFailsInv
  <2>3. CASE Seal
    BY <1>2, <2>3, SealInv
  <2>4. CASE Save
    BY <1>2, <2>4, SaveInv
  <2>5. CASE Replay
    BY <1>2, <2>5, ReplayInv
  <2>6. CASE Migrate
    BY <1>2, <2>6, MigrateInv
  <2>7. CASE Terminated
    BY <1>2, <2>7, StutterInv DEF Terminated
  <2>8. CASE UNCHANGED vars
    BY <1>2, <2>8, StutterInv
  <2>9. QED
    BY <1>2, <2>1, <2>2, <2>3, <2>4, <2>5, <2>6, <2>7, <2>8 DEF Next
<1>3. QED
  BY <1>1, <1>2, PTL DEF Spec

\* Every variable keeps its type, and the two indexes of a sealed graph agree and hold
\* an edge once (Graph.AddEdge, Freeze, MigrateV2ToV3).
THEOREM TypeCorrect == Spec => []TypeOK
<1>1. IInv => TypeOK
  BY InvType
<1>2. QED
  BY <1>1, Invariance, PTL

\* For every inventory and every order of its listing a leaf lies under exactly its
\* region, project, folders and organization, after a migration as after a scan, and
\* no container lacks a leaf (hierarchy.go buildHierarchy, gcp.go MigrateV2ToV3).
THEOREM HierarchyExact == Spec => []HierarchyIsExact
<1>1. IInv => HierarchyIsExact
  BY InvHierarchy
<1>2. QED
  BY <1>1, Invariance, PTL

\* For every inventory the disks that pass for detached are those that neither name a
\* user nor are named by an instance (linker.go linkDiskUsers, detached_disk.go).
THEOREM NoDiskMistaken == Spec => []DetachedExactly
<1>1. IInv => DetachedExactly
  BY InvDetached
<1>2. QED
  BY <1>1, Invariance, PTL

\* Whatever graph was saved, a reader of its replay sees what could be read of it
\* (snapshot.go WriteSnapshot, LoadSnapshot).
THEOREM ReplayFaithful == Spec => []ReplayPreservesView
<1>1. IInv => ReplayPreservesView
  BY InvView
<1>2. QED
  BY <1>1, Invariance, PTL
=============================================================================
