-------------------------- MODULE AzureIngestProofs --------------------------
(***************************************************************************)
(* Proofs about AzureIngest, for any tenant, pages, sizes and moves.  The  *)
(* invariant says of the graph built so far that it is a tree with leaves  *)
(* on it, of the walk what it has left, of the subscriptions who is still  *)
(* to be asked and whose rows are on the graph, and of the one being asked *)
(* which pages its rows are from.                                          *)
(***************************************************************************)
EXTENDS AzureIngest, SealedGraph, FiniteSetTheorems, FunctionTheorems, SequenceTheorems, WellFoundedInduction, TLAPS

-----------------------------------------------------------------------------
(* What the operations of the graph do to any graph *)

LEMMA OverFact ==
  ASSUME NEW new, NEW old
  PROVE  /\ DOMAIN Over(new, old) = DOMAIN new \cup DOMAIN old
         /\ \A x \in DOMAIN new : Over(new, old)[x] = new[x]
         /\ \A x \in DOMAIN old \ DOMAIN new : Over(new, old)[x] = old[x]
  BY DEF Over

LEMMA NewGraphFact == Bare(NewGraph) /\ DOMAIN NewGraph.nodes = {}
  BY DEF NewGraph, Bare, IsGraph

\* AddNode writes nodes and touches no edge.
LEMMA AddNodesFact ==
  ASSUME NEW gr, IsGraph(gr), NEW new
  PROVE  /\ IsGraph(AddNodes(gr, new))
         /\ AddNodes(gr, new).nodes = Over(new, gr.nodes)
         /\ AddNodes(gr, new).in = gr.in
         /\ AddNodes(gr, new).out = gr.out
         /\ AddNodes(gr, new).frozen = gr.frozen
         /\ Bare(gr) => Bare(AddNodes(gr, new))
  BY DEF IsGraph, AddNodes, Bare

\* Edges that are not there yet are there once after AddEdge.
LEMMA AddEdgesFact ==
  ASSUME NEW gr, IsGraph(gr), NEW A, NEW B, gr.out = SetToBag(A), gr.in = SetToBag(B),
         NEW E, E \cap A = {}, E \cap B = {}
  PROVE  AddEdges(gr, SetToBag(E)) =
           [nodes |-> gr.nodes, out |-> SetToBag(A \cup E), in |-> SetToBag(B \cup E),
            frozen |-> gr.frozen, dangling |-> gr.dangling]
<1>1. \A X : X \cap E = {} => SetToBag(X) (+) SetToBag(E) = SetToBag(X \cup E)
  BY DEF SetToBag, (+)
<1>2. gr.out (+) SetToBag(E) = SetToBag(A \cup E) /\ gr.in (+) SetToBag(E) = SetToBag(B \cup E)
  BY <1>1
<1>3. AddEdges(gr, SetToBag(E)) = [gr EXCEPT !.out = SetToBag(A \cup E), !.in = SetToBag(B \cup E)]
  BY <1>2 DEF AddEdges
<1>4. QED
  BY <1>3 DEF IsGraph

\* Freeze drops the other edges.
LEMMA FreezeFact ==
  ASSUME NEW gr, IsGraph(gr), gr.frozen = FALSE, EachOnce(gr)
  PROVE  /\ IsGraph(Freeze(gr)) /\ Freeze(gr).nodes = gr.nodes /\ Freeze(gr).frozen = TRUE
         /\ Freeze(gr).out = SetToBag(Leading(gr)) /\ Freeze(gr).in = SetToBag(Coming(gr))
<1>1. /\ IsGraph(Freeze(gr)) /\ Freeze(gr).nodes = gr.nodes /\ Freeze(gr).frozen = TRUE
      /\ Freeze(gr).in = Those(gr.in, Coming(gr))
      /\ Freeze(gr).out = Those(gr.out, Leading(gr))
  BY DEF Freeze, IsGraph, Leading, Coming
<1>2. /\ \A S \in SUBSET DOMAIN gr.in : Those(gr.in, S) = SetToBag(S)
      /\ \A S \in SUBSET DOMAIN gr.out : Those(gr.out, S) = SetToBag(S)
  BY DEF Those, SetToBag, EachOnce
<1>3. Coming(gr) \in SUBSET DOMAIN gr.in /\ Leading(gr) \in SUBSET DOMAIN gr.out
  BY DEF Coming, Leading
<1>4. QED
  BY <1>1, <1>2, <1>3

\* A bare graph holds the edges that are added, once in either index.
LEMMA BareEdges ==
  ASSUME NEW b, Bare(b), NEW E
  PROVE  AddEdges(b, SetToBag(E)) =
           [nodes |-> b.nodes, out |-> SetToBag(E), in |-> SetToBag(E),
            frozen |-> FALSE, dangling |-> b.dangling]
<1>1. IsGraph(b) /\ b.out = SetToBag({}) /\ b.in = SetToBag({}) /\ b.frozen = FALSE
  BY DEF Bare, EmptyBag
<1>2. {} \cup E = E /\ E \cap {} = {}
  OBVIOUS
<1>3. AddEdges(b, SetToBag(E)) =
        [nodes |-> b.nodes, out |-> SetToBag({} \cup E), in |-> SetToBag({} \cup E),
         frozen |-> b.frozen, dangling |-> b.dangling]
  BY <1>1, <1>2, AddEdgesFact
<1>4. QED
  BY <1>1, <1>2, <1>3

LEMMA BagFact ==
  ASSUME NEW S
  PROVE  DOMAIN SetToBag(S) = S /\ \A e \in S : SetToBag(S)[e] = 1
  BY DEF SetToBag

\* Freeze leaves a whole graph if an edge between two nodes is in both indexes.
LEMMA FreezeWhole ==
  ASSUME NEW gr, IsGraph(gr), gr.frozen = FALSE, Table(gr.nodes), EachOnce(gr),
         Within(gr.nodes, DOMAIN gr.out) = Within(gr.nodes, DOMAIN gr.in),
         NEW s, s = Freeze(gr)
  PROVE  Whole(s) /\ s.nodes = gr.nodes /\ Inner(s) = Within(gr.nodes, DOMAIN gr.out)
<1>1. /\ IsGraph(s) /\ s.nodes = gr.nodes /\ s.frozen = TRUE
      /\ s.out = SetToBag(Leading(gr)) /\ s.in = SetToBag(Coming(gr))
  BY FreezeFact
<1>2. DOMAIN s.in = Coming(gr) /\ DOMAIN s.out = Leading(gr)
  BY <1>1, BagFact
<1>3. /\ \A e : e \in Leading(gr) <=> e \in DOMAIN gr.out /\ e.to \in DOMAIN gr.nodes
      /\ \A e : e \in Coming(gr) <=> e \in DOMAIN gr.in /\ e.from \in DOMAIN gr.nodes
  BY DEF Leading, Coming
<1>4. \A e : e.from \in DOMAIN gr.nodes /\ e.to \in DOMAIN gr.nodes => (e \in DOMAIN gr.out <=> e \in DOMAIN gr.in)
  BY DEF Within
<1>5. Whole(s)
  BY <1>1, <1>2, <1>3, <1>4 DEF Whole, EachOnce
<1>6. Inner(s) = Within(gr.nodes, DOMAIN gr.out)
  BY <1>1, <1>2, <1>3 DEF Inner, Within
<1>7. QED
  BY <1>1, <1>5, <1>6

\* An image of a finite set is finite.
LEMMA ImageFinite ==
  ASSUME NEW S, IsFiniteSet(S), NEW f, NEW T, \A t \in T : \E x \in S : t = f[x]
  PROVE  IsFiniteSet(T)
<1> DEFINE R == {f[x] : x \in S}
           h == [x \in S |-> f[x]]
<1>1. h \in Surjection(S, R)
  BY Fun_IsSurj
<1>2. IsFiniteSet(R)
  BY <1>1, FS_Surjection
<1>3. T \subseteq R
  OBVIOUS
<1>4. QED
  BY <1>2, <1>3, FS_Subset

LEMMA CountFact ==
  ASSUME NEW S, IsFiniteSet(S)
  PROVE  Count(SetToBag(S)) = Cardinality(S)
<1> DEFINE bag == SetToBag(S)
           T == UNION {{e} \X (1..bag[e]) : e \in DOMAIN bag}
           F == [e \in S |-> <<e, 1>>]
<1>1. Count(bag) = Cardinality(T)
  BY DEF Count
<1>2. DOMAIN bag = S /\ \A e \in S : bag[e] = 1
  BY BagFact
<1>3. \A t : t \in T <=> \E e \in S : t = <<e, 1>>
  <2> HIDE DEF bag
  <2>1. ASSUME NEW e \in S PROVE {e} \X (1..bag[e]) = {<<e, 1>>}
    BY <1>2
  <2>2. QED  BY <1>2, <2>1
<1> HIDE DEF T
<1>4. F \in Bijection(S, T)
  BY <1>3, Fun_IsBij
<1>5. QED
  BY <1>1, <1>4, FS_Bijection, Fun_ExistsBij

\* Freeze never counts fewer than no dangling edges.
LEMMA DanglingFact ==
  ASSUME NEW gr, IsGraph(gr), gr.frozen = FALSE, EachOnce(gr), gr.dangling \in Nat,
         IsFiniteSet(DOMAIN gr.out), IsFiniteSet(DOMAIN gr.in)
  PROVE  Freeze(gr).dangling \in Nat
<1> DEFINE out == Those(gr.out, {e \in DOMAIN gr.out : e.to \in DOMAIN gr.nodes})
           in == Those(gr.in, {e \in DOMAIN gr.in : e.from \in DOMAIN gr.nodes})
<1>1. Freeze(gr).out = out /\ Freeze(gr).in = in
  BY DEF Freeze, IsGraph
<1>2. Freeze(gr).dangling = gr.dangling + (Count(gr.out) - Count(out)) + (Count(gr.in) - Count(in))
  BY DEF Freeze, IsGraph
<1> HIDE DEF out, in
<1>3. out = SetToBag(Leading(gr)) /\ in = SetToBag(Coming(gr))
  BY <1>1, FreezeFact
<1>4. Leading(gr) \subseteq DOMAIN gr.out /\ Coming(gr) \subseteq DOMAIN gr.in
  BY DEF Leading, Coming
<1>5. /\ IsFiniteSet(Leading(gr)) /\ Cardinality(Leading(gr)) <= Cardinality(DOMAIN gr.out)
      /\ IsFiniteSet(Coming(gr)) /\ Cardinality(Coming(gr)) <= Cardinality(DOMAIN gr.in)
  BY <1>4, FS_Subset
<1>6. /\ Cardinality(Leading(gr)) \in Nat /\ Cardinality(DOMAIN gr.out) \in Nat
      /\ Cardinality(Coming(gr)) \in Nat /\ Cardinality(DOMAIN gr.in) \in Nat
  BY <1>5, FS_CardinalityType
<1>7. /\ Count(out) = Cardinality(Leading(gr)) /\ Count(in) = Cardinality(Coming(gr))
      /\ Count(gr.out) = Cardinality(DOMAIN gr.out) /\ Count(gr.in) = Cardinality(DOMAIN gr.in)
  BY <1>3, <1>5, CountFact DEF EachOnce
<1>8. QED
  BY <1>2, <1>5, <1>6, <1>7

\* A bare graph that is sealed over finitely many edges is whole, and shows those of
\* the edges that lie between nodes.
LEMMA BuildFact ==
  ASSUME NEW b, Bare(b), b.dangling = 0, Table(b.nodes), NEW E, IsFiniteSet(E),
         NEW h, h = Freeze(AddEdges(b, SetToBag(E)))
  PROVE  /\ Whole(h) /\ h.nodes = b.nodes /\ Inner(h) = Within(b.nodes, E)
         /\ Within(b.nodes, E) = E => DOMAIN h.out = E /\ DOMAIN h.in = E
         /\ h.dangling \in Nat
<1> DEFINE a == AddEdges(b, SetToBag(E))
<1>1. a = [nodes |-> b.nodes, out |-> SetToBag(E), in |-> SetToBag(E), frozen |-> FALSE, dangling |-> 0]
  BY BareEdges
<1>2. h = Freeze(a)
  OBVIOUS
<1> HIDE DEF a
<1>3. /\ IsGraph(a) /\ a.frozen = FALSE /\ Table(a.nodes) /\ EachOnce(a) /\ a.nodes = b.nodes
      /\ DOMAIN a.out = E /\ DOMAIN a.in = E /\ a.dangling \in Nat
  BY <1>1, BagFact DEF IsGraph, EachOnce
<1>4. Whole(h) /\ h.nodes = b.nodes /\ Inner(h) = Within(b.nodes, E)
  BY <1>2, <1>3, FreezeWhole
<1>5. h.dangling \in Nat
  BY <1>2, <1>3, DanglingFact
<1>6. ASSUME Within(b.nodes, E) = E PROVE DOMAIN h.out = E /\ DOMAIN h.in = E
  <2>1. h.out = SetToBag(Leading(a)) /\ h.in = SetToBag(Coming(a))
    BY <1>2, <1>3, FreezeFact
  <2>2. DOMAIN h.out = Leading(a) /\ DOMAIN h.in = Coming(a)
    BY <2>1, BagFact
  <2>3. \A e \in E : e.from \in DOMAIN a.nodes /\ e.to \in DOMAIN a.nodes
    BY <1>3, <1>6 DEF Within
  <2>4. QED
    BY <1>3, <2>2, <2>3 DEF Leading, Coming
<1>7. QED
  BY <1>4, <1>5, <1>6

\* None of the edges is left dangling if they all lie between nodes.
LEMMA NothingDangles ==
  ASSUME NEW b, Bare(b), b.dangling = 0, Table(b.nodes), NEW E, IsFiniteSet(E),
         Within(b.nodes, E) = E, NEW h, h = Freeze(AddEdges(b, SetToBag(E)))
  PROVE  h.dangling = 0
<1> DEFINE a == AddEdges(b, SetToBag(E))
<1>1. a = [nodes |-> b.nodes, out |-> SetToBag(E), in |-> SetToBag(E), frozen |-> FALSE, dangling |-> 0]
  BY BareEdges
<1>2. h = Freeze(a)
  OBVIOUS
<1> HIDE DEF a
<1>3. IsGraph(a) /\ a.frozen = FALSE /\ a.out = SetToBag(E) /\ a.in = SetToBag(E) /\ a.nodes = b.nodes /\ a.dangling = 0
  BY <1>1 DEF IsGraph
<1> DEFINE out == Those(a.out, {e \in DOMAIN a.out : e.to \in DOMAIN a.nodes})
           in == Those(a.in, {e \in DOMAIN a.in : e.from \in DOMAIN a.nodes})
<1>4. h.dangling = 0 + (Count(a.out) - Count(out)) + (Count(a.in) - Count(in))
  BY <1>2, <1>3 DEF Freeze, IsGraph
<1>5. {e \in DOMAIN a.out : e.to \in DOMAIN a.nodes} = E /\ {e \in DOMAIN a.in : e.from \in DOMAIN a.nodes} = E
  BY <1>3, BagFact DEF Within
<1>6. out = SetToBag(E) /\ in = SetToBag(E)
  BY <1>3, <1>5, BagFact DEF Those, SetToBag
<1>7. Count(SetToBag(E)) \in Nat
  BY CountFact, FS_CardinalityType
<1> HIDE DEF out, in
<1>8. QED
  BY <1>3, <1>4, <1>6, <1>7

LEMMA NewBare == Bare(NewGraph) /\ NewGraph.dangling = 0 /\ Table(NewGraph.nodes)
<1>1. NewGraph.nodes = <<>> /\ NewGraph.dangling = 0
  BY DEF NewGraph
<1>2. Table(<<>>)
  BY DEF Table
<1>3. QED
  BY <1>1, <1>2, NewGraphFact

\* A new graph with some nodes.
LEMMA NodesFact ==
  ASSUME NEW nodes, Table(nodes), NEW b, b = AddNodes(NewGraph, nodes)
  PROVE  Bare(b) /\ b.nodes = nodes /\ b.dangling = 0
<1>1. Over(nodes, NewGraph.nodes) = nodes
  BY NewGraphFact DEF Over, Table
<1>2. Bare(b) /\ b.nodes = nodes
  BY <1>1, NewGraphFact, AddNodesFact DEF Bare
<1>3. b.dangling = 0
  BY DEF AddNodes, NewGraph
<1>4. QED
  BY <1>2, <1>3

-----------------------------------------------------------------------------
(* What is said of the scan *)

\* Nodes N with leaves L and edges E under top: each container but the top has one
\* edge up, to another container, and none goes round in circles.
Tree(N, L, E, top) ==
  /\ IsFiniteSet(E) /\ L \subseteq N
  /\ \A e \in E : /\ e = Edge(e.from, e.to, "contains")
                  /\ e.from \in N \ {top} /\ e.to \in N \ L
  /\ \A e, f \in E : e.from = f.from => e = f
  /\ \A r \in N \ (L \cup {top}) : \E e \in E : e.from = r
  /\ \A R \in SUBSET (N \ (L \cup {top})) :
       R # {} => \E r \in R : \A e \in E : e.from = r => e.to \notin R

LeavesIn(nodes) == {r \in DOMAIN nodes : r[1] = "leaf"}

\* A leaf hangs off something exactly if it has a location.
Placed(nodes, E) ==
  \A r \in LeavesIn(nodes) : (\E e \in E : e.from = r) <=> nodes[r].location # ""

Asking == phase \in {"query", "shapes", "list", "rows"}

\* The subscriptions whose rows are on the graph.
Given ==
  IF Single THEN {scope.id : x \in {phase} \cap {"seal", "enrich", "done"}}
  ELSE {s \in DOMAIN statuses : statuses[s] # "unreachable"}

Inputs ==
  /\ IsWorld(world) /\ scope \in Scopes
  /\ Single => scope.id \in Subscriptions
  /\ \E w \in Worlds : world.pages = w.pages
  /\ moves \in 0..MaxMoves
  /\ phase \in {"walk", "next", "query", "shapes", "list", "rows", "seal", "enrich", "done", "failed"}

\* Who is found, and still to be asked, being asked, or told of.
Books ==
  /\ todo \subseteq Subscriptions /\ DOMAIN statuses \subseteq Subscriptions
  /\ \A s \in DOMAIN statuses : statuses[s] \in {"scanned", "no_resources", "unreachable"}
  /\ current \in Subscriptions \cup {None}
  /\ Asking => current \in Subscriptions
  /\ Single => current = scope.id /\ phase \notin {"walk", "next"} /\ DOMAIN statuses = {} /\ todo = {}
  /\ phase \in {"walk", "failed"} => DOMAIN statuses = {}
  /\ ~Single /\ phase # "failed" => \A s : Subscription(s) \in DOMAIN g.nodes <=>
       s \in todo \cup DOMAIN statuses \cup IF Asking THEN {current} ELSE {}
  /\ Single => Subscription(scope.id) \in DOMAIN g.nodes
  /\ todo \cap DOMAIN statuses = {}
  /\ Asking => current \notin todo \cup DOMAIN statuses
  /\ phase \in {"seal", "enrich", "done"} => todo = {}

\* A container is of the scope; a leaf shows a row of a subscription that was given.
Content ==
  /\ \A r \in DOMAIN g.nodes :
       \/ r \in {Tenant(r[2]), Group(r[2]), Subscription(r[2])} /\ g.nodes[r].kind # "instance"
       \/ r[1] = "region" /\ r = Region(r[2], r[3]) /\ r[2] \in Given /\ g.nodes[r].kind # "instance"
       \/ r = Leaf(r[2])
  /\ \A r \in LeavesIn(g.nodes) :
       \E s \in Given : \E row \in RowsOf(s) : \E n \in NormalizeResource(row) :
         /\ r = Leaf(n.id) /\ g.nodes[r].kind = n.kind
         /\ g.nodes[r].project = n.project /\ g.nodes[r].location = n.location
  /\ ~Single => \A s \in Given : RowsOf(s) # {} => statuses[s] = "scanned"
  /\ \A s \in clients : Single \/ (s \in DOMAIN statuses /\ statuses[s] = "scanned")
  /\ clients # {} => phase = "done"

Building ==
  /\ Tree(DOMAIN g.nodes, LeavesIn(g.nodes), edges, Top) /\ Placed(g.nodes, edges)
  /\ ~Sealed => Bare(g) /\ g.dangling = 0 /\ Table(g.nodes)
  /\ Sealed => g.frozen = TRUE /\ DOMAIN g.out = edges /\ g.dangling = 0
  /\ Sealed => Top \in DOMAIN g.nodes

\* What a frame of the walk is, over the nodes N.
Frames(N) ==
  {f \in [ref : N \cup {Nothing}, left : SUBSET (DOMAIN world.in \cup {Group(scope.id)})] :
     f.ref = Nothing => f.left \subseteq {Top}}

Walking ==
  /\ stack \in Seq(Frames(DOMAIN g.nodes))
  /\ phase = "walk" => stack # <<>> /\ ~Single
  /\ phase # "walk" => stack = <<>>
  /\ phase = "walk" => /\ \A m : Group(m) \in DOMAIN g.nodes <=> Group(m) \in visited
                       /\ IF DOMAIN g.nodes = {} THEN Pending # {} ELSE Top \in DOMAIN g.nodes
  /\ phase \notin {"walk", "failed"} => Top \in DOMAIN g.nodes

\* As long as nothing was moved, what is in a group the walk has met is hung there or
\* still to be met.
Settled ==
  ~Single /\ moves = 0 /\ phase # "failed" =>
    /\ Group(scope.id) \in DOMAIN g.nodes \/ \E i \in DOMAIN stack : Group(scope.id) \in stack[i].left
    /\ \A i \in DOMAIN stack : stack[i].ref[1] = "group" => stack[i].left \subseteq Children(stack[i].ref)
    /\ \A i \in DOMAIN stack : stack[i].ref[1] # "group" => stack[i].left \subseteq {Group(scope.id)}
    /\ \A m \in DOMAIN g.nodes : \A x \in Children(m) \ {Group(scope.id)} :
         \/ x \in DOMAIN g.nodes /\ Edge(x, m, "contains") \in edges
         \/ \E i \in DOMAIN stack : stack[i].ref = m /\ x \in stack[i].left
    /\ \A e \in edges : e.from \in DOMAIN world.in \ {Group(scope.id)} => world.in[e.from] = e.to

\* The rows so far are those of the pages before this one, all of whose tokens were
\* seen; once they are put on the graph they are all there are.
Reading ==
  /\ page \in Nat /\ seen \subseteq Nat
  /\ phase = "query" =>
       /\ page \in DOMAIN world.pages[current] /\ seen = 2..page
       /\ rows = Asked(UNION {world.pages[current][i].rows : i \in 1..(page - 1)})
  /\ phase \in {"shapes", "list", "rows"} => rows = RowsOf(current)

Names(s) == {k.name : k \in OfferedTo(s)}

\* The sizes loaded are those of whole subscriptions, and the machines made since have
\* their shapes.
Shaped ==
  /\ phase = "list" => /\ wantVM /\ current \notin sizer.loaded
                       /\ regions # {} /\ regions \subseteq MachineRegions
                       /\ listed = UNION {Offered(current, r) : r \in MachineRegions \ regions}
  /\ phase # "list" => regions = {}
  /\ sizer = [loaded |-> sizer.loaded, byRegion |-> sizer.byRegion, byName |-> sizer.byName]
  /\ sizer.loaded \subseteq Given \cup {current : x \in {phase} \cap {"rows"}}
  /\ DOMAIN sizer.byRegion = sizer.loaded
  /\ \A s \in sizer.loaded :
       /\ wantVM /\ s \in Subscriptions
       /\ sizer.byRegion[s] = UNION {{<<r, k.name>> : r \in LocationsOf(k)} : k \in OfferedTo(s)}
       /\ Names(s) \subseteq DOMAIN sizer.byName
  /\ \A s \in sizer.loaded \cap Given : \A m \in MachinesOf(s) :
       Leaf(m.id) \in DOMAIN g.nodes /\ Text(m, "vmSize") \in Names(s)
         => "vcpu_count" \in DOMAIN g.nodes[Leaf(m.id)].attrs

IInv ==
  /\ Inputs /\ Books /\ Content /\ Building /\ Walking /\ Settled /\ Reading /\ Shaped

-----------------------------------------------------------------------------
(* Refs, tables and worlds *)

LEMMA RefFact ==
  /\ \A t, m, s, l, id :
       /\ Tenant(t)[1] = "tenant" /\ Group(m)[1] = "group" /\ Subscription(s)[1] = "subscription"
       /\ Region(s, l)[1] = "region" /\ Leaf(id)[1] = "leaf"
       /\ Tenant(t)[2] = t /\ Group(m)[2] = m /\ Subscription(s)[2] = s
       /\ Region(s, l)[2] = s /\ Region(s, l)[3] = l /\ Leaf(id)[2] = id
  /\ Nothing[1] = "nothing"
  BY DEF Tenant, Group, Subscription, Region, Leaf, Nothing

\* The least of some numbers is one of them.
LEMMA MinFact ==
  ASSUME NEW S, S \subseteq Nat, S # {}
  PROVE  Min(S) \in S
<1> DEFINE R == {ss \in Nat \X Nat : ss[1] < ss[2]}
<1>1. IsWellFoundedOn(R, Nat)
  BY NatLessThanWellFounded, Zenon DEF OpToRel, R
<1>2. \A x, y \in Nat : <<y, x>> \in R <=> y < x
  BY DEF R
<1> HIDE DEF R
<1>3. \E x \in S : \A y \in S : ~(<<y, x>> \in R)
  BY <1>1, WFMin, Zenon
<1>4. PICK x \in S : \A y \in S : ~(<<y, x>> \in R)
  BY <1>3
<1>5. \A y \in S : ~(y < x)
  BY <1>2, <1>4
<1>6. \A y \in S : x <= y
  BY <1>5
<1>7. QED
  BY <1>6 DEF Min

\* The table of statuses t says of s what it is told, and of the others what it did.
Tells(t, s, word) ==
  /\ DOMAIN t = DOMAIN statuses \cup {s} /\ t[s] = word
  /\ \A o \in DOMAIN statuses \ {s} : t[o] = statuses[o]

LEMMA StatusFact ==
  ASSUME NEW s, NEW word
  PROVE  Tells(Status(s, word), s, word)
  BY DEF Tells, Status, Over, Only

\* What the rows and sizes of a subscription are is not moved.
LEMMA RowsKept ==
  ASSUME scope' = scope, world'.pages = world.pages, world'.skus = world.skus, NEW s
  PROVE  /\ RowsOf(s)' = RowsOf(s)
         /\ MachinesOf(s)' = MachinesOf(s) /\ OfferedTo(s)' = OfferedTo(s)
         /\ Names(s)' = Names(s)
<1>1. RowsIn(world.pages[s])' = RowsIn(world.pages[s])
  BY DEF RowsIn
<1>2. RowsOf(s)' = RowsOf(s)
  <2>1. \A row : (Single /\ scope.within # "" => row.group = scope.within)' <=>
                   (Single /\ scope.within # "" => row.group = scope.within)
    BY Zenon DEF Single
  <2>2. QED
    BY <1>1, <2>1, Zenon DEF RowsOf, Asked
<1>3. MachinesOf(s)' = MachinesOf(s)
  BY <1>2 DEF MachinesOf
<1>4. OfferedTo(s)' = OfferedTo(s)
  BY <1>3 DEF OfferedTo, Offered
<1>5. QED
  BY <1>1, <1>2, <1>3, <1>4 DEF Names

\* What a world is, apart from the names of its rows.
LEMMA WorldFact ==
  ASSUME NEW w, IsWorld(w)
  PROVE  /\ w = [in |-> w.in, bare |-> w.bare, pages |-> w.pages, skus |-> w.skus]
         /\ w.in = [x \in DOMAIN w.in |-> Group(w.in[x][2])]
         /\ \A x \in DOMAIN w.in :
              x = Group(x[2]) \/ (x = Subscription(x[2]) /\ x[2] \in DOMAIN w.pages)
         /\ DOMAIN w.pages \subseteq Nat \ {Unnamed}
         /\ \A s \in DOMAIN w.pages :
              /\ Len(w.pages[s]) \in Nat \ {0} /\ DOMAIN w.pages[s] = 1..Len(w.pages[s])
              /\ \A i \in DOMAIN w.pages[s] :
                   /\ w.pages[s][i].next \in {IF i = Len(w.pages[s]) THEN 0 ELSE i + 1} \cup 2..i
                   /\ IsFiniteSet(w.pages[s][i].rows)
  BY Zenon DEF IsWorld, ArePages

LEMMA FirstPage ==
  ASSUME NEW w, IsWorld(w), NEW s \in DOMAIN w.pages
  PROVE  1 \in DOMAIN w.pages[s]
<1>1. Len(w.pages[s]) \in Nat \ {0} /\ DOMAIN w.pages[s] = 1..Len(w.pages[s])
  BY WorldFact
<1>2. QED
  BY <1>1

\* A resource has at most one node: its own id, place and subscription, and of the
\* kind of its type.
LEMMA NodeFact ==
  ASSUME NEW row, NEW n \in NormalizeResource(row)
  PROVE  /\ row.id # "" /\ n.id = row.id
         /\ n.project = SubscriptionOf(row) /\ n.location = locationRegion(row.location)
         /\ n.kind = "instance" <=> row.type = "vm"
         /\ n.kind = "instance" => n.attrs["vm_size"] = Text(row, "vmSize")
         /\ \A m \in NormalizeResource(row) : m = n
         /\ n = [id |-> n.id, kind |-> n.kind, asset |-> n.asset, project |-> n.project,
                 location |-> n.location, attrs |-> n.attrs]
<1> DEFINE kinds == {"disk", "address", "image"}
<1>0. row.id # ""
  BY Zenon DEF NormalizeResource
<1>1. \/ row.type = "vm" /\ NormalizeResource(row) = {NormalizeVM(row)}
      \/ row.type # "vm" /\ NormalizeResource(row) \in
           {{NormalizeDisk(row)}, {NormalizePublicIP(row)}, {NormalizeGalleryImageVersion(row)}, {}}
  <2> DEFINE N == NormalizeResource(row)
             type == row.type
  <2>2. N = CASE type = "disk" -> {NormalizeDisk(row)}
              [] type = "publicIP" -> {NormalizePublicIP(row)}
              [] type = "vm" -> {NormalizeVM(row)}
              [] type = "galleryImageVersion" -> {NormalizeGalleryImageVersion(row)}
              [] OTHER -> {}
    BY <1>0, Zenon DEF NormalizeResource
  <2> HIDE DEF N, type
  <2>3. \/ type = "vm" /\ N = {NormalizeVM(row)}
        \/ type # "vm" /\ N \in {{NormalizeDisk(row)}, {NormalizePublicIP(row)},
                                 {NormalizeGalleryImageVersion(row)}, {}}
    BY <2>2
  <2>4. N = NormalizeResource(row) /\ type = row.type
    BY DEF N, type
  <2>5. QED
    BY ONLY <2>3, <2>4, Zenon
<1>2. ASSUME NEW kind, NEW asset, NEW attrs
      PROVE  LET r == ResourceNode(row, kind, asset, attrs)
             IN /\ r.id = row.id /\ r.kind = kind /\ r.attrs = attrs
                /\ r = [id |-> r.id, kind |-> r.kind, asset |-> r.asset, project |-> r.project,
                        location |-> r.location, attrs |-> r.attrs]
                /\ r.project = SubscriptionOf(row) /\ r.location = locationRegion(row.location)
  BY DEF ResourceNode
<1>3. CASE row.type = "vm"
  <2> DEFINE told == Told(row, "timeCreated", "time_created")
             own == [vm_size |-> Text(row, "vmSize"), power_state_code |-> Text(row, "powerState"),
                     priority |-> Text(row, "priority"), os_type |-> Text(row, "osType"),
                     virtual_machine_scale_set_id |-> Text(row, "virtualMachineScaleSet")]
  <2>1. n = ResourceNode(row, "instance", "azure_instance", Over(own, told))
        /\ NormalizeResource(row) = {n}
    <3>1. NormalizeResource(row) = {NormalizeVM(row)}
      BY <1>1, <1>3
    <3>2. NormalizeVM(row) = ResourceNode(row, "instance", "azure_instance", Over(own, told))
      BY Zenon DEF NormalizeVM
    <3>3. QED
      BY <3>1, <3>2, Zenon
  <2> HIDE DEF told
  <2>2. Over(own, told)["vm_size"] = Text(row, "vmSize")
    BY DEF Over
  <2> HIDE DEF own
  <2> DEFINE a == Over(own, told)
             r == ResourceNode(row, "instance", "azure_instance", a)
  <2>3. /\ r.id = row.id /\ r.kind = "instance" /\ r.attrs = a
        /\ r.project = SubscriptionOf(row) /\ r.location = locationRegion(row.location)
        /\ r = [id |-> r.id, kind |-> r.kind, asset |-> r.asset, project |-> r.project,
                location |-> r.location, attrs |-> r.attrs]
    BY <1>2
  <2>4. n = r /\ a["vm_size"] = Text(row, "vmSize")
    BY <2>1, <2>2
  <2> HIDE DEF r, a
  <2>5. /\ n.id = row.id /\ n.kind = "instance" /\ n.attrs["vm_size"] = Text(row, "vmSize")
        /\ n.project = SubscriptionOf(row) /\ n.location = locationRegion(row.location)
        /\ n = [id |-> n.id, kind |-> n.kind, asset |-> n.asset, project |-> n.project,
                location |-> n.location, attrs |-> n.attrs]
    BY <2>3, <2>4
  <2>6. \A m \in NormalizeResource(row) : m = n
    BY <2>1
  <2>7. QED
    BY <1>0, <1>3, <2>5, <2>6, Zenon
<1>4. CASE row.type # "vm"
  <2>1. /\ NormalizeResource(row) = {n}
        /\ n \in {NormalizeDisk(row), NormalizePublicIP(row), NormalizeGalleryImageVersion(row)}
    BY <1>1, <1>4
  <2>2. \E kind \in kinds : \E asset, attrs : n = ResourceNode(row, kind, asset, attrs)
    <3>1. CASE n = NormalizeDisk(row)
      BY <3>1 DEF NormalizeDisk
    <3>2. CASE n = NormalizePublicIP(row)
      BY <3>2 DEF NormalizePublicIP
    <3>3. CASE n = NormalizeGalleryImageVersion(row)
      BY <3>3 DEF NormalizeGalleryImageVersion
    <3>4. QED
      BY <2>1, <3>1, <3>2, <3>3
  <2>3. PICK kind \in kinds : \E asset, attrs : n = ResourceNode(row, kind, asset, attrs)
    BY <2>2
  <2>4. PICK asset, attrs : n = ResourceNode(row, kind, asset, attrs)
    BY <2>3
  <2>5. /\ n.id = row.id /\ n.kind = kind
        /\ n.project = SubscriptionOf(row) /\ n.location = locationRegion(row.location)
        /\ n = [id |-> n.id, kind |-> n.kind, asset |-> n.asset, project |-> n.project,
                location |-> n.location, attrs |-> n.attrs]
    BY <1>2, <2>4
  <2>6. n.kind # "instance" /\ \A m \in NormalizeResource(row) : m = n
    BY <2>1, <2>5
  <2>7. QED
    BY <1>0, <1>4, <2>5, <2>6, Zenon
<1>5. QED
  BY <1>3, <1>4

-----------------------------------------------------------------------------
(* Trees *)

LEMMA Seedling ==
  ASSUME NEW top
  PROVE  Tree({top}, {}, {}, top) /\ Tree({}, {}, {}, top)
  BY FS_EmptySet DEF Tree

\* New containers, each hung on one that was there.
LEMMA Grow ==
  ASSUME NEW N, NEW L, NEW E, NEW top, Tree(N, L, E, top), top \in N,
         NEW M, M \cap N = {},
         NEW F, IsFiniteSet(F),
         \A e \in F : e = Edge(e.from, e.to, "contains") /\ e.from \in M /\ e.to \in N \ L,
         \A e, f \in F : e.from = f.from => e = f,
         \A r \in M : \E e \in F : e.from = r
  PROVE  Tree(N \cup M, L, E \cup F, top)
<1>1. IsFiniteSet(E \cup F) /\ L \subseteq N \cup M
  BY FS_Union DEF Tree
<1>2. \A e \in E \cup F : /\ e = Edge(e.from, e.to, "contains")
                          /\ e.from \in (N \cup M) \ {top} /\ e.to \in (N \cup M) \ L
  BY DEF Tree
<1>3. \A e, f \in E \cup F : e.from = f.from => e = f
  BY DEF Tree
<1>4. \A r \in (N \cup M) \ (L \cup {top}) : \E e \in E \cup F : e.from = r
  BY DEF Tree
<1>5. ASSUME NEW R \in SUBSET ((N \cup M) \ (L \cup {top})), R # {}
      PROVE  \E r \in R : \A e \in E \cup F : e.from = r => e.to \notin R
  <2>1. CASE R \cap N = {}
    <3>1. PICK r \in R : TRUE
      BY <1>5
    <3>2. \A e \in E \cup F : e.to \in N
      BY DEF Tree
    <3>3. QED
      BY <2>1, <3>1, <3>2
  <2>2. CASE R \cap N # {}
    <3> DEFINE Q == R \cap N
    <3>1. Q \in SUBSET (N \ (L \cup {top})) /\ Q # {}
      BY <1>5, <2>2
    <3>2. PICK r \in Q : \A e \in E : e.from = r => e.to \notin Q
      BY <3>1 DEF Tree
    <3>3. \A e \in E \cup F : e.from = r => e \in E /\ e.to \in N
      BY <3>2 DEF Tree
    <3>4. QED
      BY <3>2, <3>3
  <2>3. QED
    BY <2>1, <2>2
<1>6. QED
  BY <1>1, <1>2, <1>3, <1>4, <1>5 DEF Tree

\* New leaves, each loose or hung on a container.
LEMMA Leave ==
  ASSUME NEW N, NEW L, NEW E, NEW top, Tree(N, L, E, top), top \in N,
         NEW K, K \cap N = {},
         NEW F, IsFiniteSet(F),
         \A e \in F : e = Edge(e.from, e.to, "contains") /\ e.from \in K /\ e.to \in N \ L,
         \A e, f \in F : e.from = f.from => e = f
  PROVE  Tree(N \cup K, L \cup K, E \cup F, top)
<1>1. IsFiniteSet(E \cup F) /\ L \cup K \subseteq N \cup K
  BY FS_Union DEF Tree
<1>2. \A e \in E \cup F : /\ e = Edge(e.from, e.to, "contains")
                          /\ e.from \in (N \cup K) \ {top} /\ e.to \in (N \cup K) \ (L \cup K)
  BY DEF Tree
<1>3. \A e, f \in E \cup F : e.from = f.from => e = f
  BY DEF Tree
<1>4. (N \cup K) \ (L \cup K \cup {top}) = N \ (L \cup {top})
  OBVIOUS
<1>5. \A r \in N \ (L \cup {top}) : \A e \in E \cup F : e.from = r => e \in E
  OBVIOUS
<1>6. \A r \in N \ (L \cup {top}) : \E e \in E \cup F : e.from = r
  BY DEF Tree
<1>7. ASSUME NEW R \in SUBSET (N \ (L \cup {top})), R # {}
      PROVE  \E r \in R : \A e \in E \cup F : e.from = r => e.to \notin R
  BY <1>5, <1>7 DEF Tree
<1>8. QED
  BY <1>1, <1>2, <1>3, <1>4, <1>6, <1>7 DEF Tree

-----------------------------------------------------------------------------
(* The first state *)

\* A new graph with one node.
LEMMA OneNode ==
  ASSUME NEW r, NEW c, NEW h, h = AddNodes(NewGraph, Only(r, c))
  PROVE  /\ Bare(h) /\ h.dangling = 0 /\ Table(h.nodes)
         /\ DOMAIN h.nodes = {r} /\ h.nodes[r] = c
<1> DEFINE o == Only(r, c)
<1>1. Table(o) /\ DOMAIN o = {r} /\ o[r] = c
  BY DEF Table, Only
<1> HIDE DEF o
<1>2. h = AddNodes(NewGraph, o)
  BY DEF o
<1>3. Bare(h) /\ h.nodes = o /\ h.dangling = 0
  BY <1>1, <1>2, NodesFact
<1>4. QED
  BY <1>1, <1>3

LEMMA InitInv == ASSUME Init PROVE IInv
<1> DEFINE start == [ref |-> IF scope.kind = "tenant" THEN Tenant(scope.id) ELSE Nothing,
                     left |-> {Group(scope.id)}]
<1>0. /\ world \in Worlds /\ scope \in Scopes /\ wantVM \in BOOLEAN /\ moves = 0
      /\ phase = IF Single THEN "query" ELSE "walk"
      /\ stack = IF Single THEN <<>> ELSE <<start>>
      /\ visited = {} /\ todo = {} /\ current = IF Single THEN scope.id ELSE None
      /\ page = 1 /\ seen = {} /\ rows = {} /\ regions = {}
      /\ sizer = [loaded |-> {}, byRegion |-> <<>>, byName |-> <<>>]
      /\ statuses = <<>> /\ edges = {} /\ clients = {}
  BY Zenon DEF Init, start
<1> DEFINE sub == Container("subscription", scope.id, "")
           org == Container("organization", None, "")
<1>a. /\ Single => g = AddNodes(NewGraph, Only(Subscription(scope.id), sub))
      /\ ~Single /\ scope.kind = "tenant" => g = AddNodes(NewGraph, Only(Tenant(scope.id), org))
      /\ ~Single /\ scope.kind # "tenant" => g = NewGraph
  <2>1. g = CASE Single -> AddNodes(NewGraph, Only(Subscription(scope.id), sub))
              [] scope.kind = "tenant" -> AddNodes(NewGraph, Only(Tenant(scope.id), org))
              [] OTHER -> NewGraph
    BY Zenon DEF Init, sub, org
  <2> HIDE DEF sub, org
  <2>2. Single => scope.kind = "subscription"
    BY DEF Single
  <2>3. QED
    BY <2>1, <2>2
<1>b. sub.kind = "subscription" /\ org.kind = "organization"
  BY DEF Container
<1> HIDE DEF sub, org
<1>1. Inputs
  <2>1. \E w \in Worlds : world.pages = w.pages
    BY <1>0
  <2>2. IsWorld(world) /\ scope \in Scopes
    BY <1>0, WorldAssumption
  <2>3. Single => scope.id \in Subscriptions
    BY <1>0, ScopeAssumption DEF Single, Subscriptions
  <2>4. moves \in 0..MaxMoves /\ phase \in {"query", "walk"}
    BY <1>0, ScopeAssumption
  <2>5. QED
    BY <2>1, <2>2, <2>3, <2>4 DEF Inputs
<1>4. /\ Bare(g) /\ g.dangling = 0 /\ Table(g.nodes)
      /\ Single => DOMAIN g.nodes = {Subscription(scope.id)}
                   /\ g.nodes[Subscription(scope.id)] = sub
      /\ scope.kind = "tenant" => DOMAIN g.nodes = {Tenant(scope.id)}
                   /\ g.nodes[Tenant(scope.id)] = org
      /\ ~Single /\ scope.kind # "tenant" => DOMAIN g.nodes = {}
  <2>2. CASE Single
    BY <1>a, <2>2, OneNode DEF Single
  <2>3. CASE scope.kind = "tenant"
    BY <1>a, <2>3, OneNode DEF Single
  <2>4. CASE ~Single /\ scope.kind # "tenant"
    BY <1>a, <2>4, NewBare, NewGraphFact
  <2>5. QED
    BY <2>2, <2>3, <2>4
<1>5. scope.kind \in {"tenant", "group", "subscription"}
  BY <1>1, ScopeAssumption DEF Inputs
<1>6. Top = IF Single THEN Subscription(scope.id) ELSE IF scope.kind = "tenant" THEN Tenant(scope.id) ELSE Group(scope.id)
  BY <1>5 DEF Top, Single
<1>7. /\ LeavesIn(g.nodes) = {}
      /\ DOMAIN g.nodes = {Top} \/ DOMAIN g.nodes = {}
      /\ Single => DOMAIN g.nodes = {Top}
  BY <1>4, <1>5, <1>6, RefFact DEF LeavesIn, Single
<1>8. Given = {}
  BY <1>0 DEF Given
<1>9. Books
  <2>1. \A s : Subscription(s) \in DOMAIN g.nodes => Single
    BY <1>4, <1>5, RefFact DEF Single
  <2>2. ~Single => phase = "walk"
    BY <1>0
  <2>3. todo = {} /\ DOMAIN statuses = {} /\ (Single => current = scope.id /\ phase = "query")
        /\ (~Single => phase = "walk" /\ current = None)
    BY <1>0
  <2>4. Single => Subscription(scope.id) \in DOMAIN g.nodes /\ current \in Subscriptions
    BY <1>1, <1>4, <2>3 DEF Inputs
  <2>5. QED
    BY <2>1, <2>3, <2>4 DEF Books, Asking
<1>10. Content
  <2>1. clients = {} /\ statuses = <<>>
    BY <1>0
  <2>2. \A r \in DOMAIN g.nodes : r \in {Tenant(r[2]), Group(r[2]), Subscription(r[2])} /\ g.nodes[r].kind # "instance"
    BY <1>b, <1>4, <1>5, RefFact DEF Single
  <2>3. QED
    BY <1>7, <1>8, <2>1, <2>2 DEF Content
<1>11. Building
  <2>1. Tree(DOMAIN g.nodes, LeavesIn(g.nodes), edges, Top)
    BY <1>7, <1>0, Seedling
  <2>2. Placed(g.nodes, edges) /\ ~Sealed
    BY <1>0, <1>7 DEF Placed, Sealed
  <2>3. QED
    BY <1>4, <2>1, <2>2 DEF Building
<1>12. Walking
  <2>1. CASE Single
    <3>1. stack = <<>> /\ phase = "query"
      BY <1>0, <2>1
    <3>2. QED
      BY <1>7, <2>1, <3>1, EmptySeq DEF Walking
  <2>2. CASE ~Single
    <3> DEFINE f == start
    <3>1. stack = <<f>> /\ phase = "walk" /\ visited = {}
      BY <1>0, <2>2
    <3>2. f.ref \in DOMAIN g.nodes \cup {Nothing} /\ (f.ref = Nothing => Top = Group(scope.id))
      BY <1>4, <1>6, <2>2, RefFact
    <3>3. f \in Frames(DOMAIN g.nodes)
      BY <3>2 DEF Frames
    <3>4. stack \in Seq(Frames(DOMAIN g.nodes)) /\ stack # <<>>
      BY <3>1, <3>3
    <3>5. \A m : Group(m) \notin DOMAIN g.nodes
      BY <1>4, <2>2, RefFact
    <3>6. IF DOMAIN g.nodes = {} THEN Pending # {} ELSE Top \in DOMAIN g.nodes
      <4>1. Pending = {Group(scope.id)}
        BY <3>1 DEF Pending, Here
      <4>2. QED
        BY <1>7, <4>1
    <3>7. QED
      BY <2>2, <3>1, <3>4, <3>5, <3>6 DEF Walking
  <2>3. QED
    BY <2>1, <2>2
<1>13. Settled
  <2> SUFFICES ASSUME ~Single PROVE Settled
    BY DEF Settled
  <2> DEFINE f == start
  <2>1. stack = <<f>> /\ edges = {}
    BY <1>0
  <2>2. DOMAIN stack = {1} /\ stack[1] = f
    BY <2>1
  <2>3. f.ref[1] # "group"
    BY RefFact
  <2>4. \A m \in DOMAIN g.nodes : Children(m) = {}
    <3>1. \A m \in DOMAIN g.nodes : m[1] = "tenant"
      BY <1>4, RefFact
    <3>2. \A x \in DOMAIN world.in : world.in[x][1] = "group"
      <4>1. world.in = [x \in DOMAIN world.in |-> Group(world.in[x][2])]
        BY <1>1, WorldFact DEF Inputs
      <4>2. QED
        BY <4>1, RefFact
    <3>3. QED
      BY <3>1, <3>2 DEF Children
  <2>5. QED
    BY <2>1, <2>2, <2>3, <2>4 DEF Settled
<1>14. Reading
  <2>1. page = 1 /\ seen = {} /\ rows = {} /\ phase \in {"query", "walk"} /\ (phase = "query" => Single /\ current = scope.id)
    BY <1>0
  <2>2. 2..page = {} /\ 1..(page - 1) = {}
    BY <2>1
  <2>3. Asked(UNION {world.pages[current][i].rows : i \in 1..(page - 1)}) = {}
    BY <2>2 DEF Asked
  <2>4. phase = "query" => page \in DOMAIN world.pages[current]
    <3>1. \A s \in Subscriptions : 1 \in DOMAIN world.pages[s]
      BY <1>1, FirstPage DEF Inputs, Subscriptions
    <3>2. QED
      BY <1>1, <2>1, <3>1 DEF Inputs
  <2>5. QED
    BY <2>1, <2>2, <2>3, <2>4 DEF Reading
<1>15. Shaped
  <2>1. /\ phase \in {"query", "walk"} /\ regions = {}
        /\ sizer = [loaded |-> {}, byRegion |-> <<>>, byName |-> <<>>]
    BY <1>0
  <2>2. QED
    BY <2>1 DEF Shaped
<1>16. QED
  BY <1>1, <1>9, <1>10, <1>11, <1>12, <1>13, <1>14, <1>15 DEF IInv

-----------------------------------------------------------------------------
(* The stack of the walk *)

LEMMA ReplacedTop ==
  ASSUME NEW S, NEW st \in Seq(S), st # <<>>, NEW h \in S, NEW t, t = <<h>> \o Tail(st)
  PROVE  /\ t \in Seq(S) /\ t # <<>> /\ DOMAIN t = DOMAIN st /\ t[1] = h
         /\ 1 \in DOMAIN st /\ Head(st) = st[1] /\ Head(st) \in S
         /\ \A i \in DOMAIN st \ {1} : t[i] = st[i]
<1> DEFINE u == Tail(st)
<1>1. /\ u \in Seq(S) /\ Len(u) = Len(st) - 1 /\ Len(st) \in Nat \ {0}
      /\ \A i \in 1..Len(u) : u[i] = st[i + 1]
      /\ Head(st) = st[1] /\ Head(st) \in S /\ DOMAIN st = 1..Len(st)
  BY HeadTailProperties, LenProperties
<1> HIDE DEF u
<1>2. <<h>> \in Seq(S) /\ Len(<<h>>) = 1 /\ <<h>>[1] = h
  OBVIOUS
<1>3. /\ t \in Seq(S) /\ Len(t) = 1 + Len(u)
      /\ \A i \in 1..Len(t) : t[i] = IF i <= 1 THEN <<h>>[i] ELSE u[i - 1]
  BY <1>1, <1>2, ConcatProperties DEF u
<1>4. DOMAIN t = 1..Len(t) /\ Len(t) = Len(st) /\ 1 \in DOMAIN st
  BY <1>1, <1>3
<1>5. \A i \in DOMAIN st \ {1} : t[i] = st[i]
  BY <1>1, <1>3, <1>4
<1>6. QED
  BY <1>1, <1>2, <1>3, <1>4, <1>5

LEMMA PushedTop ==
  ASSUME NEW S, NEW st \in Seq(S), st # <<>>, NEW f \in S, NEW h \in S,
         NEW t, t = <<f, h>> \o Tail(st)
  PROVE  /\ t \in Seq(S) /\ t # <<>> /\ t[1] = f /\ t[2] = h
         /\ {1, 2} \subseteq DOMAIN t
         /\ \A i \in DOMAIN t \ {1, 2} : i - 1 \in DOMAIN st \ {1} /\ t[i] = st[i - 1]
         /\ \A i \in DOMAIN st \ {1} : i + 1 \in DOMAIN t /\ t[i + 1] = st[i]
<1> DEFINE u == Tail(st)
<1>1. /\ u \in Seq(S) /\ Len(u) = Len(st) - 1 /\ Len(st) \in Nat \ {0}
      /\ \A i \in 1..Len(u) : u[i] = st[i + 1]
      /\ DOMAIN st = 1..Len(st)
  BY HeadTailProperties, LenProperties
<1> HIDE DEF u
<1>2. <<f, h>> \in Seq(S) /\ Len(<<f, h>>) = 2 /\ <<f, h>>[1] = f /\ <<f, h>>[2] = h
  OBVIOUS
<1>3. /\ t \in Seq(S) /\ Len(t) = 2 + Len(u)
      /\ \A i \in 1..Len(t) : t[i] = IF i <= 2 THEN <<f, h>>[i] ELSE u[i - 2]
  BY <1>1, <1>2, ConcatProperties DEF u
<1>4. DOMAIN t = 1..Len(t) /\ Len(t) = Len(st) + 1 /\ {1, 2} \subseteq DOMAIN t
  BY <1>1, <1>3
<1>5. \A i \in DOMAIN t \ {1, 2} : i - 1 \in DOMAIN st \ {1} /\ t[i] = st[i - 1]
  BY <1>1, <1>3, <1>4
<1>6. ASSUME NEW i \in DOMAIN st \ {1}
      PROVE  i + 1 \in DOMAIN t /\ t[i + 1] = st[i]
  <2>1. i \in 2..Len(st) /\ i - 1 \in 1..Len(u) /\ i + 1 \in 1..Len(t) /\ i + 1 > 2
    BY <1>1, <1>4
  <2>2. t[i + 1] = u[i - 1]
    BY <1>3, <2>1
  <2>3. u[i - 1] = st[i]
    BY <1>1, <2>1
  <2>4. QED
    BY <1>4, <2>1, <2>2, <2>3
<1>7. t # <<>> /\ t[1] = f /\ t[2] = h
  BY ONLY <1>2, <1>3, <1>4
<1>8. t \in Seq(S) /\ {1, 2} \subseteq DOMAIN t
  BY ONLY <1>3, <1>4
<1>9. QED
  BY <1>5, <1>6, <1>7, <1>8, Zenon

LEMMA PoppedTop ==
  ASSUME NEW S, NEW st \in Seq(S), st # <<>>, NEW t, t = Tail(st)
  PROVE  /\ t \in Seq(S)
         /\ \A i \in DOMAIN t : i + 1 \in DOMAIN st /\ t[i] = st[i + 1]
         /\ \A i \in DOMAIN st \ {1} : i - 1 \in DOMAIN t /\ t[i - 1] = st[i]
<1>1. /\ t \in Seq(S) /\ Len(t) = Len(st) - 1 /\ Len(st) \in Nat \ {0}
      /\ \A i \in 1..Len(t) : t[i] = st[i + 1]
      /\ DOMAIN st = 1..Len(st) /\ DOMAIN t = 1..Len(t)
  BY HeadTailProperties, LenProperties
<1>2. QED
  BY <1>1

-----------------------------------------------------------------------------
(* The walk *)

\* While the groups are walked there is nothing but containers.
LEMMA WalkFact ==
  ASSUME IInv, phase = "walk"
  PROVE  /\ ~Single /\ Given = {} /\ ~Sealed /\ ~Asking /\ DOMAIN statuses = {} /\ clients = {}
         /\ LeavesIn(g.nodes) = {} /\ sizer.loaded = {} /\ regions = {}
         /\ stack # <<>> /\ stack \in Seq(Frames(DOMAIN g.nodes))
         /\ Top \in {Tenant(scope.id), Group(scope.id)}
         /\ \A r \in DOMAIN g.nodes : r \in {Tenant(r[2]), Group(r[2]), Subscription(r[2])}
<1>1. ~Single /\ stack # <<>> /\ stack \in Seq(Frames(DOMAIN g.nodes))
  BY DEF IInv, Walking
<1>2. DOMAIN statuses = {}
  BY DEF IInv, Books
<1>3. Given = {}
  BY <1>1, <1>2 DEF Given
<1>4. ~Sealed /\ ~Asking
  BY DEF Sealed, Asking
<1>5. clients = {}
  BY DEF IInv, Content
<1>6. LeavesIn(g.nodes) = {}
  BY <1>3 DEF IInv, Content
<1>7. regions = {} /\ sizer.loaded = {}
  BY <1>3 DEF IInv, Shaped
<1>8. Top \in {Tenant(scope.id), Group(scope.id)}
  <2>1. scope.kind \in {"tenant", "group"}
    BY <1>1, ScopeAssumption DEF IInv, Inputs, Single
  <2>2. QED
    BY <1>1, <2>1 DEF Top
<1>9. \A r \in DOMAIN g.nodes : r[1] # "leaf"
  BY <1>6 DEF LeavesIn
<1>10. \A r \in DOMAIN g.nodes : r \in {Tenant(r[2]), Group(r[2]), Subscription(r[2])}
  BY <1>3, <1>9, RefFact DEF IInv, Content
<1>11. QED
  BY <1>1, <1>2, <1>3, <1>4, <1>5, <1>6, <1>7, <1>8, <1>10

\* What is left of the group the walk is in.
LEMMA HereFact ==
  ASSUME IInv, phase = "walk"
  PROVE  /\ Here \in Frames(DOMAIN g.nodes) /\ Here = stack[1] /\ Pending = Here.left /\ 1 \in DOMAIN stack
         /\ \A c \in Pending : /\ Without(c) \in Frames(DOMAIN g.nodes)
                               /\ Without(c).ref = Here.ref /\ Without(c).left = Here.left \ {c}
         /\ \A c \in Pending : c = Group(c[2]) \/ (c = Subscription(c[2]) /\ c[2] \in Subscriptions)
<1>1. stack # <<>> /\ stack \in Seq(Frames(DOMAIN g.nodes))
  BY WalkFact
<1>2. Here \in Frames(DOMAIN g.nodes) /\ Here = stack[1] /\ Pending = Here.left /\ 1 \in DOMAIN stack
  BY <1>1, HeadTailProperties, LenProperties DEF Here, Pending
<1>3. ASSUME NEW c \in Pending
      PROVE  /\ Without(c) \in Frames(DOMAIN g.nodes)
             /\ Without(c).ref = Here.ref /\ Without(c).left = Here.left \ {c}
  <2>1. Without(c) = [ref |-> Here.ref, left |-> Here.left \ {c}]
    BY <1>2 DEF Without, Frames
  <2>2. QED
    BY <1>2, <2>1 DEF Frames
<1>4. \A c \in Pending : c \in DOMAIN world.in \cup {Group(scope.id)}
  BY <1>2 DEF Frames
<1>5. \A c \in DOMAIN world.in : c = Group(c[2]) \/ (c = Subscription(c[2]) /\ c[2] \in Subscriptions)
  BY WorldFact DEF IInv, Inputs, Subscriptions
<1>6. QED
  BY <1>2, <1>3, <1>4, <1>5, RefFact

\* What is met first is hung on the group it was met in, or is the top.
LEMMA Hang ==
  ASSUME IInv, phase = "walk", NEW c \in Pending, c \notin DOMAIN g.nodes,
         NEW con, con.kind # "instance", g' = AddNodes(g, Only(c, con)), edges' = edges \cup Under(c),
         UNCHANGED scope, phase' = phase
  PROVE  /\ Building' /\ Top' = Top /\ Top' \in DOMAIN g'.nodes
         /\ DOMAIN g'.nodes = DOMAIN g.nodes \cup {c} /\ LeavesIn(g'.nodes) = {}
         /\ g'.nodes[c] = con /\ \A r \in DOMAIN g.nodes : g'.nodes[r] = g.nodes[r]
         /\ \A e \in edges' : e \in edges \/ (e = Edge(c, Here.ref, "contains") /\ Here.ref # Nothing)
         /\ Here.ref # Nothing => Edge(c, Here.ref, "contains") \in edges'
         /\ edges \subseteq edges'
<1> DEFINE only == Only(c, con)
<1>1. DOMAIN only = {c} /\ only[c] = con
  BY DEF Only
<1>2. ~Sealed /\ LeavesIn(g.nodes) = {} /\ Here \in Frames(DOMAIN g.nodes) /\ Pending = Here.left
  BY WalkFact, HereFact
<1>3. Bare(g) /\ g.dangling = 0 /\ IsGraph(g) /\ g' = AddNodes(g, only)
  BY <1>2 DEF IInv, Building, Bare
<1> HIDE DEF only
<1>4. Bare(g') /\ g'.nodes = Over(only, g.nodes) /\ g'.dangling = 0
  <2>1. Bare(g') /\ g'.nodes = Over(only, g.nodes)
    BY <1>3, AddNodesFact
  <2>2. AddNodes(g, only).dangling = g.dangling
    BY ONLY <1>3 DEF AddNodes, IsGraph
  <2>3. QED
    BY <1>3, <2>1, <2>2
<1>5. /\ DOMAIN g'.nodes = DOMAIN g.nodes \cup {c} /\ Table(g'.nodes)
      /\ g'.nodes[c] = con /\ \A r \in DOMAIN g.nodes : g'.nodes[r] = g.nodes[r]
  BY <1>1, <1>4 DEF Over, Table
<1>6. c[1] # "leaf"
  BY HereFact, RefFact
<1>7. LeavesIn(g'.nodes) = {}
  BY <1>2, <1>5, <1>6 DEF LeavesIn
<1>8. Top' = Top /\ ~Sealed' /\ Tree(DOMAIN g.nodes, {}, edges, Top)
  BY <1>2, Zenon DEF Top, Single, Sealed, IInv, Building
<1>9. /\ Here.ref = Nothing => Under(c) = {}
      /\ Here.ref # Nothing => Under(c) = {Edge(c, Here.ref, "contains")} /\ Here.ref \in DOMAIN g.nodes
  BY <1>2 DEF Under, Frames
<1>10. Tree(DOMAIN g'.nodes, {}, edges', Top) /\ Top \in DOMAIN g'.nodes
  <2>1. CASE Here.ref = Nothing
    <3>1. c = Top
      BY <1>2, <2>1 DEF Frames
    <3>2. DOMAIN g.nodes = {}
      BY <3>1 DEF IInv, Walking
    <3>3. edges = {}
      BY <1>8, <3>2 DEF Tree
    <3>4. DOMAIN g'.nodes = {Top} /\ edges' = {}
      BY <1>5, <1>9, <2>1, <3>1, <3>2, <3>3
    <3>5. QED
      BY <3>4, Seedling
  <2>2. CASE Here.ref # Nothing
    <3> DEFINE F == {Edge(c, Here.ref, "contains")}
    <3>1. Top \in DOMAIN g.nodes /\ Here.ref \in DOMAIN g.nodes /\ edges' = edges \cup F
      BY <1>9, <2>2 DEF IInv, Walking
    <3>2. {c} \cap DOMAIN g.nodes = {} /\ IsFiniteSet(F)
      BY FS_Singleton
    <3>3. /\ \A e \in F : e = Edge(e.from, e.to, "contains") /\ e.from \in {c} /\ e.to \in DOMAIN g.nodes \ {}
          /\ \A e, f \in F : e.from = f.from => e = f
          /\ \A r \in {c} : \E e \in F : e.from = r
      BY <3>1 DEF Edge
    <3> HIDE DEF F
    <3>4. Tree(DOMAIN g.nodes \cup {c}, {}, edges \cup F, Top)
      BY <1>8, <3>1, <3>2, <3>3, Grow
    <3>5. QED
      BY <1>5, <3>1, <3>4
  <2>3. QED
    BY <2>1, <2>2
<1>11. Building'
  BY <1>4, <1>5, <1>7, <1>8, <1>10 DEF Building, Placed
<1>12. QED
  BY <1>5, <1>7, <1>8, <1>9, <1>10, <1>11

\* How the walk keeps to the tree as it is: what a frame had left is left, or was
\* hung up; a frame has what is in its group, or some of it.
LEMMA SettledStep ==
  ASSUME IInv, phase = "walk", UNCHANGED <<world, scope, moves>>,
         DOMAIN g.nodes \subseteq DOMAIN g'.nodes, edges \subseteq edges',
         \A i \in DOMAIN stack : \A x \in stack[i].left :
           \/ \E j \in DOMAIN stack' : stack'[j].ref = stack[i].ref /\ x \in stack'[j].left
           \/ x \in DOMAIN g.nodes
           \/ x \in DOMAIN g'.nodes /\ (stack[i].ref # Nothing => Edge(x, stack[i].ref, "contains") \in edges'),
         \A j \in DOMAIN stack' :
           \/ stack'[j].ref[1] = "group" /\ stack'[j].left = Children(stack'[j].ref)
           \/ \E i \in DOMAIN stack : stack'[j].ref = stack[i].ref /\ stack'[j].left \subseteq stack[i].left,
         \A m \in DOMAIN g'.nodes \ DOMAIN g.nodes :
           \/ Children(m) = {}
           \/ \E j \in DOMAIN stack' : stack'[j].ref = m /\ stack'[j].left = Children(m),
         \A e \in edges' \ edges :
           \E i \in DOMAIN stack : e.to = stack[i].ref /\ e.from \in stack[i].left
  PROVE  Settled'
<1> SUFFICES ASSUME (~Single /\ moves = 0 /\ phase # "failed")' PROVE Settled'
  BY DEF Settled
<1> DEFINE root == Group(scope.id)
<1>1. ~Single /\ moves = 0
  BY DEF Single
<1>2. /\ root \in DOMAIN g.nodes \/ \E i \in DOMAIN stack : root \in stack[i].left
      /\ \A i \in DOMAIN stack : stack[i].ref[1] = "group" => stack[i].left \subseteq Children(stack[i].ref)
      /\ \A i \in DOMAIN stack : stack[i].ref[1] # "group" => stack[i].left \subseteq {root}
      /\ \A m \in DOMAIN g.nodes : \A x \in Children(m) \ {root} :
           \/ x \in DOMAIN g.nodes /\ Edge(x, m, "contains") \in edges
           \/ \E i \in DOMAIN stack : stack[i].ref = m /\ x \in stack[i].left
      /\ \A e \in edges : e.from \in DOMAIN world.in \ {root} => world.in[e.from] = e.to
  BY <1>1 DEF IInv, Settled
<1>3. \A m : Children(m)' = Children(m)
  BY DEF Children
<1>4. \A m : \A x \in Children(m) : x \in DOMAIN world.in /\ world.in[x] = m
  BY DEF Children
<1>5. root \in DOMAIN g'.nodes \/ \E j \in DOMAIN stack' : root \in stack'[j].left
  BY <1>2
<1>6. \A j \in DOMAIN stack' : stack'[j].ref[1] = "group" => stack'[j].left \subseteq Children(stack'[j].ref)
  BY <1>2
<1>7. \A j \in DOMAIN stack' : stack'[j].ref[1] # "group" => stack'[j].left \subseteq {root}
  BY <1>2
<1>8. ASSUME NEW m \in DOMAIN g'.nodes, NEW x \in Children(m) \ {root}
      PROVE  \/ x \in DOMAIN g'.nodes /\ Edge(x, m, "contains") \in edges'
             \/ \E j \in DOMAIN stack' : stack'[j].ref = m /\ x \in stack'[j].left
  <2>1. CASE m \notin DOMAIN g.nodes
    BY <1>8, <2>1
  <2>2. CASE m \in DOMAIN g.nodes /\ x \in DOMAIN g.nodes /\ Edge(x, m, "contains") \in edges
    BY <2>2
  <2>3. ASSUME m \in DOMAIN g.nodes, NEW i \in DOMAIN stack, stack[i].ref = m, x \in stack[i].left
        PROVE  \/ x \in DOMAIN g'.nodes /\ Edge(x, m, "contains") \in edges'
               \/ \E j \in DOMAIN stack' : stack'[j].ref = m /\ x \in stack'[j].left
    <3>1. CASE \E j \in DOMAIN stack' : stack'[j].ref = stack[i].ref /\ x \in stack'[j].left
      BY <2>3, <3>1
    <3>2. CASE x \in DOMAIN g.nodes
      <4>1. x \notin LeavesIn(g.nodes) \cup {Top} /\ Tree(DOMAIN g.nodes, LeavesIn(g.nodes), edges, Top)
        <5>1. x = Group(x[2]) \/ x = Subscription(x[2])
          BY <1>4, WorldFact DEF IInv, Inputs
        <5>2. x \notin {Tenant(scope.id), Group(scope.id)}
          BY <1>8, <5>1, RefFact
        <5>3. QED
          BY <5>2, WalkFact DEF IInv, Building
      <4>2. PICK e \in edges : e.from = x
        BY <3>2, <4>1 DEF Tree
      <4>3. e = Edge(x, e.to, "contains")
        BY <4>1, <4>2 DEF Tree
      <4>4. e.to = m
        BY <1>2, <1>4, <1>8, <4>2
      <4>5. QED
        BY <3>2, <4>2, <4>3, <4>4
    <3>3. CASE x \in DOMAIN g'.nodes /\ (stack[i].ref # Nothing => Edge(x, stack[i].ref, "contains") \in edges')
      <4>1. m # Nothing
        BY <2>3, WalkFact, RefFact
      <4>2. QED
        BY <2>3, <3>3, <4>1
    <3>4. QED
      BY <2>3, <3>1, <3>2, <3>3
  <2>4. QED
    BY <1>2, <1>8, <2>1, <2>2, <2>3
<1>9. ASSUME NEW e \in edges', e.from \in DOMAIN world.in \ {root}
      PROVE  world.in[e.from] = e.to
  <2>1. CASE e \in edges
    BY <1>2, <1>9, <2>1
  <2>2. CASE e \notin edges
    <3>1. PICK i \in DOMAIN stack : e.to = stack[i].ref /\ e.from \in stack[i].left
      BY <2>2
    <3>2. e.from \in Children(stack[i].ref)
      BY <1>2, <1>9, <3>1
    <3>3. QED
      BY <1>4, <3>1, <3>2
  <2>3. QED
    BY <2>1, <2>2
<1>10. root' = root /\ world' = world
  OBVIOUS
<1>11. QED
  BY <1>3, <1>5, <1>6, <1>7, <1>8, <1>9, <1>10 DEF Settled

LEMMA ContainerFact == \A kind, s, r : Container(kind, s, r).kind = kind
  BY DEF Container

\* What the walk leaves alone.
LEMMA WalkKeeps ==
  ASSUME IInv, phase = "walk", phase' \in {"walk", "next", "failed"},
         UNCHANGED <<scope, wantVM, current, query, shapes, statuses, clients>>,
         world'.pages = world.pages, world'.skus = world.skus,
         LeavesIn(g'.nodes) = {},
         \A r \in DOMAIN g'.nodes : r \in {Tenant(r[2]), Group(r[2]), Subscription(r[2])} /\ g'.nodes[r].kind # "instance"
  PROVE  Content' /\ Reading' /\ Shaped'
<1>1. /\ ~Single /\ Given = {} /\ DOMAIN statuses = {} /\ clients = {}
      /\ sizer.loaded = {} /\ regions = {}
  BY WalkFact
<1>2. Given' = {} /\ ~Single'
  BY <1>1 DEF Given, Single
<1>3. Content'
  BY <1>1, <1>2 DEF Content
<1>4. Reading'
  BY DEF IInv, Reading, query
<1>5. Shaped'
  <2>1. sizer' = sizer /\ regions' = {} /\ phase' # "list" /\ phase' # "rows"
    BY <1>1 DEF shapes
  <2>2. sizer = [loaded |-> sizer.loaded, byRegion |-> sizer.byRegion, byName |-> sizer.byName] /\ DOMAIN sizer.byRegion = sizer.loaded
    BY DEF IInv, Shaped
  <2>3. QED
    BY <1>1, <1>2, <2>1, <2>2 DEF Shaped
<1>6. QED
  BY <1>3, <1>4, <1>5

LEMMA WalkNodes ==
  ASSUME IInv, phase = "walk", NEW r \in DOMAIN g.nodes
  PROVE  r \in {Tenant(r[2]), Group(r[2]), Subscription(r[2])} /\ g.nodes[r].kind # "instance"
<1>1. r \in {Tenant(r[2]), Group(r[2]), Subscription(r[2])}
  BY WalkFact
<1>2. r[1] # "leaf" /\ r[1] # "region"
  BY <1>1, RefFact
<1>3. QED
  BY <1>1, <1>2, RefFact DEF IInv, Content

LEMMA FramesKept ==
  ASSUME UNCHANGED scope, DOMAIN world'.in = DOMAIN world.in, Top' = Top
  PROVE  Frames(DOMAIN g.nodes)' = Frames(DOMAIN g'.nodes)
  BY DEF Frames

LEMMA FramesMono ==
  ASSUME NEW N, NEW M, N \subseteq M
  PROVE  Frames(N) \subseteq Frames(M)
  BY DEF Frames

LEMMA VisitStep ==
  ASSUME IInv, NEW c, Visit(c)
  PROVE  IInv'
<1> DEFINE con == Container("folder", None, "")
           f == [ref |-> c, left |-> Children(c)]
<1>1. /\ phase = "walk" /\ c \in Pending /\ c[1] = "group" /\ c \notin visited
      /\ visited' = visited \cup {c}
      /\ stack' = <<f, Without(c)>> \o Tail(stack)
      /\ g' = AddNodes(g, Only(c, con)) /\ edges' = edges \cup Under(c)
      /\ UNCHANGED <<input, moves, phase, todo, current, query, shapes, statuses, clients>>
  BY Zenon DEF Visit, Known
<1>2. con.kind # "instance"
  <2>1. con.kind = "folder"
    BY ContainerFact, Zenon
  <2> HIDE DEF con
  <2>2. QED
    BY <2>1
<1> HIDE DEF con
<1>3. c = Group(c[2]) /\ c \notin DOMAIN g.nodes /\ c # Nothing
  BY <1>1, HereFact, RefFact DEF IInv, Walking
<1>4. UNCHANGED <<world, scope, wantVM, moves, phase>>
  BY <1>1 DEF input
<1>5. /\ Building' /\ Top' = Top /\ Top' \in DOMAIN g'.nodes
      /\ DOMAIN g'.nodes = DOMAIN g.nodes \cup {c} /\ LeavesIn(g'.nodes) = {}
      /\ g'.nodes[c] = con /\ \A r \in DOMAIN g.nodes : g'.nodes[r] = g.nodes[r]
      /\ \A e \in edges' : e \in edges \/ (e = Edge(c, Here.ref, "contains") /\ Here.ref # Nothing)
      /\ Here.ref # Nothing => Edge(c, Here.ref, "contains") \in edges'
      /\ edges \subseteq edges'
  BY <1>1, <1>2, <1>3, <1>4, Hang
<1>6. Inputs'
  BY <1>4 DEF IInv, Inputs, Single, Subscriptions
<1>7. Content' /\ Reading' /\ Shaped'
  <2>1. \A r \in DOMAIN g'.nodes : r \in {Tenant(r[2]), Group(r[2]), Subscription(r[2])} /\ g'.nodes[r].kind # "instance"
    BY <1>1, <1>2, <1>3, <1>5, WalkNodes
  <2>2. UNCHANGED <<current, query, shapes, statuses, clients>>
    BY <1>1
  <2>3. QED
    BY <1>1, <1>4, <1>5, <2>1, <2>2, WalkKeeps
<1>8. Books'
  <2>1. \A s : Subscription(s) \in DOMAIN g'.nodes <=> Subscription(s) \in DOMAIN g.nodes
    BY <1>3, <1>5, RefFact
  <2>2. UNCHANGED <<world, scope, phase, todo, current, statuses>>
    BY <1>1, <1>4
  <2>3. QED
    BY <1>1, <2>1, <2>2, WalkFact DEF IInv, Books, Single, Asking, Subscriptions
<1>9. Here = stack[1] /\ Here \in Frames(DOMAIN g.nodes) /\ Pending = Here.left /\ 1 \in DOMAIN stack
      /\ Without(c) \in Frames(DOMAIN g.nodes) /\ Without(c).ref = Here.ref /\ Without(c).left = Here.left \ {c}
  BY <1>1, HereFact
<1> DEFINE S == Frames(DOMAIN g'.nodes)
<1>10. /\ stack' \in Seq(S) /\ stack' # <<>> /\ stack'[1] = f /\ stack'[2] = Without(c)
       /\ {1, 2} \subseteq DOMAIN stack'
       /\ \A i \in DOMAIN stack' \ {1, 2} : i - 1 \in DOMAIN stack \ {1} /\ stack'[i] = stack[i - 1]
       /\ \A i \in DOMAIN stack \ {1} : i + 1 \in DOMAIN stack' /\ stack'[i + 1] = stack[i]
  <2>1. f \in S
    BY <1>3, <1>5 DEF Frames, Children
  <2>2. Frames(DOMAIN g.nodes) \subseteq S
    BY <1>5, FramesMono
  <2>3. Without(c) \in S /\ stack \in Seq(S) /\ stack # <<>>
    BY <1>1, <1>9, <2>2, WalkFact, SeqMonotonic
  <2> HIDE DEF S, f
  <2>4. QED
    BY <1>1, <2>1, <2>3, PushedTop
<1>11. Walking'
  <2>1. stack' \in Seq(Frames(DOMAIN g.nodes))'
    BY <1>4, <1>5, <1>10, FramesKept
  <2>2. \A m : Group(m) \in DOMAIN g'.nodes <=> Group(m) \in visited'
    BY <1>1, <1>5 DEF IInv, Walking
  <2>3. phase' = "walk" /\ ~Single'
    BY <1>1, <1>4, WalkFact DEF Single
  <2>4. QED
    BY <1>5, <1>10, <2>1, <2>2, <2>3 DEF Walking
<1>12. Settled'
  <2> HIDE DEF S
  <2>1. ASSUME NEW i \in DOMAIN stack, NEW x \in stack[i].left
        PROVE  \/ \E j \in DOMAIN stack' : stack'[j].ref = stack[i].ref /\ x \in stack'[j].left
               \/ x \in DOMAIN g'.nodes /\ (stack[i].ref # Nothing => Edge(x, stack[i].ref, "contains") \in edges')
    <3>1. CASE i = 1 /\ x = c
      BY <1>5, <1>9, <3>1
    <3>2. CASE i = 1 /\ x # c
      BY <1>9, <1>10, <2>1, <3>2
    <3>3. CASE i # 1
      BY <1>10, <2>1, <3>3
    <3>4. QED
      BY <3>1, <3>2, <3>3
  <2>2. ASSUME NEW j \in DOMAIN stack'
        PROVE  \/ stack'[j].ref[1] = "group" /\ stack'[j].left = Children(stack'[j].ref)
               \/ \E i \in DOMAIN stack : stack'[j].ref = stack[i].ref /\ stack'[j].left \subseteq stack[i].left
    <3>1. CASE j = 1
      BY <1>1, <1>10, <3>1
    <3>2. CASE j = 2
      BY <1>9, <1>10, <3>2
    <3>3. CASE j \notin {1, 2}
      BY <1>10, <3>3
    <3>4. QED
      BY <3>1, <3>2, <3>3
  <2>3. \A m \in DOMAIN g'.nodes \ DOMAIN g.nodes :
           \E j \in DOMAIN stack' : stack'[j].ref = m /\ stack'[j].left = Children(m)
    BY <1>5, <1>10
  <2>4. \A e \in edges' \ edges : \E i \in DOMAIN stack : e.to = stack[i].ref /\ e.from \in stack[i].left
    BY <1>1, <1>5, <1>9 DEF Edge
  <2>5. UNCHANGED <<world, scope, moves>> /\ DOMAIN g.nodes \subseteq DOMAIN g'.nodes /\ edges \subseteq edges'
    BY <1>4, <1>5
  <2>6. QED
    BY <1>1, <2>1, <2>2, <2>3, <2>4, <2>5, SettledStep
<1>13. QED
  BY <1>5, <1>6, <1>7, <1>8, <1>11, <1>12 DEF IInv

LEMMA DiscoverStep ==
  ASSUME IInv, NEW c, Discover(c)
  PROVE  IInv'
<1> DEFINE con == Container("subscription", c[2], "")
<1>1. /\ phase = "walk" /\ c \in Pending /\ c[1] = "subscription" /\ c \notin DOMAIN g.nodes
      /\ todo' = todo \cup {c[2]}
      /\ stack' = <<Without(c)>> \o Tail(stack)
      /\ g' = AddNodes(g, Only(c, con)) /\ edges' = edges \cup Under(c)
      /\ UNCHANGED <<input, moves, phase, visited, current, query, shapes, statuses, clients>>
  BY Zenon DEF Discover, Known
<1>2. con.kind # "instance"
  <2>1. con.kind = "subscription"
    BY ContainerFact, Zenon
  <2> HIDE DEF con
  <2>2. QED
    BY <2>1
<1> HIDE DEF con
<1>3. c = Subscription(c[2]) /\ c[2] \in Subscriptions /\ c # Nothing
  BY <1>1, HereFact, RefFact
<1>4. UNCHANGED <<world, scope, wantVM, moves, phase>>
  BY <1>1 DEF input
<1>5. /\ Building' /\ Top' = Top /\ Top' \in DOMAIN g'.nodes
      /\ DOMAIN g'.nodes = DOMAIN g.nodes \cup {c} /\ LeavesIn(g'.nodes) = {}
      /\ g'.nodes[c] = con /\ \A r \in DOMAIN g.nodes : g'.nodes[r] = g.nodes[r]
      /\ \A e \in edges' : e \in edges \/ (e = Edge(c, Here.ref, "contains") /\ Here.ref # Nothing)
      /\ Here.ref # Nothing => Edge(c, Here.ref, "contains") \in edges'
      /\ edges \subseteq edges'
  BY <1>1, <1>2, <1>3, <1>4, Hang
<1>6. Inputs'
  BY <1>4 DEF IInv, Inputs, Single, Subscriptions
<1>7. Content' /\ Reading' /\ Shaped'
  <2>1. \A r \in DOMAIN g'.nodes : r \in {Tenant(r[2]), Group(r[2]), Subscription(r[2])} /\ g'.nodes[r].kind # "instance"
    BY <1>1, <1>2, <1>3, <1>5, WalkNodes
  <2>2. UNCHANGED <<current, query, shapes, statuses, clients>>
    BY <1>1
  <2>3. QED
    BY <1>1, <1>4, <1>5, <2>1, <2>2, WalkKeeps
<1>8. Books'
  <2>1. \A s : Subscription(s) \in DOMAIN g'.nodes <=> Subscription(s) \in DOMAIN g.nodes \/ s = c[2]
    BY <1>3, <1>5, RefFact
  <2>2. UNCHANGED <<world, scope, phase, current, statuses>>
    BY <1>1, <1>4
  <2>3. QED
    BY <1>1, <1>3, <2>1, <2>2, WalkFact DEF IInv, Books, Single, Asking, Subscriptions
<1>9. Here = stack[1] /\ Here \in Frames(DOMAIN g.nodes) /\ Pending = Here.left /\ 1 \in DOMAIN stack
      /\ Without(c) \in Frames(DOMAIN g.nodes) /\ Without(c).ref = Here.ref /\ Without(c).left = Here.left \ {c}
  BY <1>1, HereFact
<1> DEFINE S == Frames(DOMAIN g'.nodes)
<1>10. /\ stack' \in Seq(S) /\ stack' # <<>> /\ stack'[1] = Without(c) /\ DOMAIN stack' = DOMAIN stack
       /\ \A i \in DOMAIN stack \ {1} : stack'[i] = stack[i]
  <2>2. Frames(DOMAIN g.nodes) \subseteq S
    BY <1>5, FramesMono
  <2>3. Without(c) \in S /\ stack \in Seq(S) /\ stack # <<>>
    BY <1>1, <1>9, <2>2, WalkFact, SeqMonotonic
  <2> HIDE DEF S
  <2>4. QED
    BY <1>1, <2>3, ReplacedTop
<1>11. Walking'
  <2>1. stack' \in Seq(Frames(DOMAIN g.nodes))'
    BY <1>4, <1>5, <1>10, FramesKept
  <2>2. \A m : Group(m) \in DOMAIN g'.nodes <=> Group(m) \in visited'
    BY <1>1, <1>3, <1>5, RefFact DEF IInv, Walking
  <2>3. phase' = "walk" /\ ~Single'
    BY <1>1, <1>4, WalkFact DEF Single
  <2>4. QED
    BY <1>5, <1>10, <2>1, <2>2, <2>3 DEF Walking
<1>12. Settled'
  <2> HIDE DEF S
  <2>1. ASSUME NEW i \in DOMAIN stack, NEW x \in stack[i].left
        PROVE  \/ \E j \in DOMAIN stack' : stack'[j].ref = stack[i].ref /\ x \in stack'[j].left
               \/ x \in DOMAIN g'.nodes /\ (stack[i].ref # Nothing => Edge(x, stack[i].ref, "contains") \in edges')
    <3>1. CASE i = 1 /\ x = c
      BY <1>5, <1>9, <3>1
    <3>2. CASE i = 1 /\ x # c
      BY <1>9, <1>10, <2>1, <3>2
    <3>3. CASE i # 1
      BY <1>10, <2>1, <3>3
    <3>4. QED
      BY <3>1, <3>2, <3>3
  <2>2. \A j \in DOMAIN stack' :
           \E i \in DOMAIN stack : stack'[j].ref = stack[i].ref /\ stack'[j].left \subseteq stack[i].left
    BY <1>9, <1>10
  <2>3. Children(c) = {}
    <3>1. world.in = [x \in DOMAIN world.in |-> Group(world.in[x][2])]
      BY WorldFact DEF IInv, Inputs
    <3>2. QED
      BY <1>3, <3>1, RefFact DEF Children
  <2>4. \A e \in edges' \ edges : \E i \in DOMAIN stack : e.to = stack[i].ref /\ e.from \in stack[i].left
    BY <1>1, <1>5, <1>9 DEF Edge
  <2>5. UNCHANGED <<world, scope, moves>> /\ DOMAIN g.nodes \subseteq DOMAIN g'.nodes /\ edges \subseteq edges'
    BY <1>4, <1>5
  <2>6. \A m \in DOMAIN g'.nodes \ DOMAIN g.nodes : Children(m) = {}
    BY <1>5, <2>3
  <2>7. QED
    BY <1>1, <2>1, <2>2, <2>4, <2>5, <2>6, SettledStep
<1>13. QED
  BY <1>5, <1>6, <1>7, <1>8, <1>11, <1>12 DEF IInv

\* The steps of the walk that leave the graph as it is.
LEMMA WalkOn ==
  ASSUME IInv, phase = "walk", phase' \in {"walk", "next"},
         UNCHANGED <<input, moves, visited, todo, current, query, shapes, statuses, g, edges, clients>>,
         stack' \in Seq(Frames(DOMAIN g.nodes)),
         phase' = "walk" <=> stack' # <<>>,
         Top \in DOMAIN g.nodes,
         \A i \in DOMAIN stack : \A x \in stack[i].left :
           \/ \E j \in DOMAIN stack' : stack'[j].ref = stack[i].ref /\ x \in stack'[j].left
           \/ x \in DOMAIN g.nodes,
         \A j \in DOMAIN stack' :
           \E i \in DOMAIN stack : stack'[j].ref = stack[i].ref /\ stack'[j].left \subseteq stack[i].left
  PROVE  IInv'
<1>1. UNCHANGED <<world, scope, wantVM, moves>> /\ Single' = Single /\ ~Single /\ Top' = Top
  BY WalkFact DEF input, Single, Top
<1>2. Inputs'
  BY <1>1 DEF IInv, Inputs, Subscriptions
<1>3. Books'
  BY <1>1, WalkFact DEF IInv, Books, Asking, Subscriptions
<1>4. LeavesIn(g'.nodes) = {} /\
      \A r \in DOMAIN g'.nodes : r \in {Tenant(r[2]), Group(r[2]), Subscription(r[2])} /\ g'.nodes[r].kind # "instance"
  BY WalkFact, WalkNodes
<1>5. Content' /\ Reading' /\ Shaped'
  BY <1>1, <1>4, WalkKeeps
<1>6. Building'
  <2>1. ~Sealed /\ ~Sealed'
    BY DEF Sealed
  <2>2. QED
    BY <1>1, <2>1 DEF IInv, Building
<1>7. Walking'
  <2>1. stack' \in Seq(Frames(DOMAIN g.nodes))'
    BY <1>1, FramesKept
  <2>2. QED
    BY <1>1, <2>1 DEF IInv, Walking
<1>8. Settled'
  BY <1>1, SettledStep
<1>9. QED
  BY <1>2, <1>3, <1>5, <1>6, <1>7, <1>8 DEF IInv

LEMMA PassOverStep ==
  ASSUME IInv, NEW c, PassOver(c)
  PROVE  IInv'
<1>1. /\ phase = "walk" /\ c \in Pending /\ Known(c)
      /\ stack' = <<Without(c)>> \o Tail(stack)
      /\ UNCHANGED <<input, moves, phase, visited, todo, current, query, shapes, statuses, g, edges, clients>>
  BY DEF PassOver
<1>2. Here = stack[1] /\ Here \in Frames(DOMAIN g.nodes) /\ Pending = Here.left /\ 1 \in DOMAIN stack
      /\ Without(c) \in Frames(DOMAIN g.nodes) /\ Without(c).ref = Here.ref /\ Without(c).left = Here.left \ {c}
  BY <1>1, HereFact
<1>3. c \in DOMAIN g.nodes
  <2>1. CASE c[1] = "group"
    <3>1. c = Group(c[2]) /\ c \in visited
      BY <1>1, <2>1, HereFact, RefFact DEF Known
    <3>2. QED
      BY <1>1, <3>1 DEF IInv, Walking
  <2>2. CASE c[1] # "group"
    BY <1>1, <2>2 DEF Known
  <2>3. QED
    BY <2>1, <2>2
<1>4. Top \in DOMAIN g.nodes
  BY <1>1, <1>3 DEF IInv, Walking
<1> DEFINE S == Frames(DOMAIN g.nodes)
<1>5. stack \in Seq(S) /\ stack # <<>>
  BY <1>1, WalkFact
<1> HIDE DEF S
<1>6. /\ stack' \in Seq(S) /\ stack' # <<>> /\ stack'[1] = Without(c) /\ DOMAIN stack' = DOMAIN stack
      /\ \A i \in DOMAIN stack \ {1} : stack'[i] = stack[i]
  BY <1>1, <1>2, <1>5, ReplacedTop DEF S
<1>7. ASSUME NEW i \in DOMAIN stack, NEW x \in stack[i].left
      PROVE  \/ \E j \in DOMAIN stack' : stack'[j].ref = stack[i].ref /\ x \in stack'[j].left
             \/ x \in DOMAIN g.nodes
  <2>1. CASE i = 1 /\ x = c
    BY <1>3, <2>1
  <2>2. CASE i = 1 /\ x # c
    BY <1>2, <1>6, <1>7, <2>2
  <2>3. CASE i # 1
    BY <1>6, <1>7, <2>3
  <2>4. QED
    BY <2>1, <2>2, <2>3
<1>8. \A j \in DOMAIN stack' :
        \E i \in DOMAIN stack : stack'[j].ref = stack[i].ref /\ stack'[j].left \subseteq stack[i].left
  BY <1>2, <1>6
<1>9. phase' = "walk"
  BY <1>1
<1>10. QED
  BY <1>1, <1>4, <1>6, <1>7, <1>8, <1>9, WalkOn DEF S

LEMMA ReturnStep ==
  ASSUME IInv, Return
  PROVE  IInv'
<1>1. /\ phase = "walk" /\ Pending = {}
      /\ stack' = Tail(stack)
      /\ phase' = IF stack' = <<>> THEN "next" ELSE "walk"
      /\ UNCHANGED <<input, moves, visited, todo, current, query, shapes, statuses, g, edges, clients>>
  BY DEF Return
<1>2. Here = stack[1] /\ Here \in Frames(DOMAIN g.nodes) /\ Pending = Here.left /\ 1 \in DOMAIN stack
  BY <1>1, HereFact
<1> DEFINE S == Frames(DOMAIN g.nodes)
<1>3. stack \in Seq(S) /\ stack # <<>>
  BY <1>1, WalkFact
<1> HIDE DEF S
<1>4. /\ stack' \in Seq(S)
      /\ \A i \in DOMAIN stack' : i + 1 \in DOMAIN stack /\ stack'[i] = stack[i + 1]
      /\ \A i \in DOMAIN stack \ {1} : i - 1 \in DOMAIN stack' /\ stack'[i - 1] = stack[i]
  BY <1>1, <1>3, PoppedTop
<1>5. \A i \in DOMAIN stack : \A x \in stack[i].left :
        \E j \in DOMAIN stack' : stack'[j].ref = stack[i].ref /\ x \in stack'[j].left
  BY <1>1, <1>2, <1>4
<1>6. \A j \in DOMAIN stack' :
        \E i \in DOMAIN stack : stack'[j].ref = stack[i].ref /\ stack'[j].left \subseteq stack[i].left
  BY <1>4
<1>7. phase' \in {"walk", "next"} /\ (phase' = "walk" <=> stack' # <<>>)
  BY <1>1
<1>8. Top \in DOMAIN g.nodes
  BY <1>1 DEF IInv, Walking
<1>9. QED
  BY <1>1, <1>4, <1>5, <1>6, <1>7, <1>8, WalkOn DEF S

LEMMA VisitFailsStep ==
  ASSUME IInv, NEW c, VisitFails(c)
  PROVE  IInv'
<1>1. /\ phase = "walk" /\ phase' = "failed"
      /\ g' = NewGraph /\ edges' = {} /\ stack' = <<>> /\ todo' = {}
      /\ UNCHANGED <<input, moves, visited, current, query, shapes, statuses, clients>>
  BY DEF VisitFails
<1>2. UNCHANGED <<world, scope, wantVM, moves>> /\ ~Single /\ Single' = Single
  BY <1>1, WalkFact DEF input, Single
<1>3. DOMAIN g'.nodes = {} /\ Bare(g') /\ g'.dangling = 0 /\ Table(g'.nodes)
  BY <1>1, NewBare, NewGraphFact
<1>4. LeavesIn(g'.nodes) = {}
  BY <1>3 DEF LeavesIn
<1>5. Inputs'
  BY <1>1, <1>2 DEF IInv, Inputs, Subscriptions
<1>6. Books'
  BY <1>1, <1>2, WalkFact DEF IInv, Books, Asking, Subscriptions
<1>7. Content' /\ Reading' /\ Shaped'
  BY <1>1, <1>2, <1>3, <1>4, WalkKeeps
<1>8. Building'
  <2>1. Tree({}, {}, {}, Top') /\ ~Sealed'
    BY <1>1, Seedling DEF Sealed
  <2>2. QED
    BY <1>1, <1>3, <1>4, <2>1 DEF Building, Placed
<1>9. Walking' /\ Settled'
  BY <1>1, EmptySeq DEF Walking, Settled
<1>10. QED
  BY <1>5, <1>6, <1>7, <1>8, <1>9 DEF IInv

LEMMA MoveStep ==
  ASSUME IInv, Move
  PROVE  IInv'
<1>1. /\ phase = "walk" /\ moves < MaxMoves /\ moves' = moves + 1
      /\ UNCHANGED <<scope, wantVM, phase, walk, todo, current, query, shapes, statuses, g, edges, clients>>
  BY DEF Move
<1>2. PICK x \in DOMAIN world.in, m \in {world.in[y] : y \in DOMAIN world.in} : world' = [world EXCEPT !.in[x] = m]
  BY DEF Move
<1>3. world = [in |-> world.in, bare |-> world.bare, pages |-> world.pages, skus |-> world.skus]
  BY WorldFact DEF IInv, Inputs
<1>4. /\ world' = [in |-> world'.in, bare |-> world'.bare, pages |-> world'.pages, skus |-> world'.skus]
      /\ world'.pages = world.pages /\ world'.skus = world.skus
      /\ world'.in = [world.in EXCEPT ![x] = m]
  BY <1>2, <1>3
<1>5. /\ world.in = [y \in DOMAIN world.in |-> Group(world.in[y][2])]
      /\ \A y \in DOMAIN world.in : y = Group(y[2]) \/ (y = Subscription(y[2]) /\ y[2] \in DOMAIN world.pages)
  BY WorldFact DEF IInv, Inputs
<1>6. world'.in = [y \in DOMAIN world'.in |-> Group(world'.in[y][2])] /\ DOMAIN world'.in = DOMAIN world.in
  <2>1. m = Group(m[2])
    BY <1>5, RefFact
  <2> DEFINE i == world.in
             j == world'.in
  <2>2. i = [y \in DOMAIN i |-> Group(i[y][2])] /\ j = [i EXCEPT ![x] = m]
    BY <1>4, <1>5
  <2> HIDE DEF i, j
  <2>3. DOMAIN j = DOMAIN i /\ j = [y \in DOMAIN i |-> IF y = x THEN m ELSE i[y]]
    BY <2>2
  <2>4. \A y \in DOMAIN j : j[y] = Group(j[y][2])
    BY <2>1, <2>2, <2>3, RefFact
  <2>5. j = [y \in DOMAIN j |-> Group(j[y][2])]
    BY <2>3, <2>4
  <2>6. QED
    BY <2>3, <2>5 DEF i, j
<1>7. IsWorld(world')
  <2>1. ArePages(world.pages)
    BY DEF IInv, Inputs, IsWorld
  <2>2. QED
    BY <1>4, <1>5, <1>6, <2>1 DEF IsWorld
<1>8. moves' \in 1..MaxMoves
  BY <1>1, ScopeAssumption DEF IInv, Inputs
<1>9. Subscriptions' = Subscriptions /\ Single' = Single /\ ~Single /\ Top' = Top
  BY <1>1, <1>4, WalkFact DEF Subscriptions, Single, Top
<1>10. Inputs'
  BY <1>1, <1>4, <1>7, <1>8, <1>9 DEF IInv, Inputs
<1>11. Books'
  BY <1>1, <1>9, WalkFact DEF IInv, Books, Asking
<1>12. Content' /\ Reading' /\ Shaped'
  <2>1. LeavesIn(g'.nodes) = {} /\
        \A r \in DOMAIN g'.nodes : r \in {Tenant(r[2]), Group(r[2]), Subscription(r[2])} /\ g'.nodes[r].kind # "instance"
    BY <1>1, WalkFact, WalkNodes
  <2>2. phase' \in {"walk", "next", "failed"}
    BY <1>1
  <2>3. QED
    BY <1>1, <1>4, <2>1, <2>2, WalkKeeps
<1>13. Building'
  <2>1. ~Sealed /\ ~Sealed'
    BY <1>1 DEF Sealed
  <2>2. QED
    BY <1>1, <1>9, <2>1 DEF IInv, Building
<1>14. Walking'
  <2>1. Frames(DOMAIN g.nodes)' = Frames(DOMAIN g'.nodes)
    BY <1>1, <1>6, <1>9, FramesKept
  <2>2. stack' \in Seq(Frames(DOMAIN g.nodes))' /\ visited' = visited /\ stack' = stack /\ Pending' = Pending
    BY <1>1, <2>1, WalkFact DEF walk, Pending, Here
  <2>3. QED
    BY <1>1, <1>9, <2>2 DEF IInv, Walking
<1>15. Settled'
  BY <1>8 DEF Settled
<1>16. QED
  BY <1>10, <1>11, <1>12, <1>13, <1>14, <1>15 DEF IInv

-----------------------------------------------------------------------------
(* The subscriptions, one by one *)

Busy == phase \in {"next", "query", "shapes", "list", "rows"}

\* The steps after the walk that leave the graph as it is.
LEMMA GraphKept ==
  ASSUME IInv, Busy, phase' \in {"next", "query", "shapes", "list", "rows", "seal", "failed"},
         UNCHANGED <<input, moves, walk, g, edges, clients>>,
         Given' = Given, \A s \in Given : statuses'[s] = statuses[s]
  PROVE  Inputs' /\ Content' /\ Building' /\ Walking' /\ Settled'
<1>1. UNCHANGED <<world, scope, wantVM, moves, stack, visited, g, edges, clients>>
  BY DEF input, walk
<1>2. Single' = Single /\ Subscriptions' = Subscriptions /\ Top' = Top /\ ~Sealed /\ ~Sealed' /\ clients = {}
  BY <1>1 DEF Single, Subscriptions, Top, Sealed, Busy, IInv, Content
<1>3. Inputs'
  BY <1>1, <1>2 DEF IInv, Inputs
<1>4. Content'
  <2>1. \A s : RowsOf(s)' = RowsOf(s)
    BY <1>1, RowsKept
  <2>2. /\ \A r \in DOMAIN g.nodes :
             \/ r \in {Tenant(r[2]), Group(r[2]), Subscription(r[2])} /\ g.nodes[r].kind # "instance"
             \/ r[1] = "region" /\ r = Region(r[2], r[3]) /\ r[2] \in Given /\ g.nodes[r].kind # "instance"
             \/ r = Leaf(r[2])
        /\ \A r \in LeavesIn(g.nodes) :
             \E s \in Given : \E row \in RowsOf(s) : \E n \in NormalizeResource(row) :
               /\ r = Leaf(n.id) /\ g.nodes[r].kind = n.kind
               /\ g.nodes[r].project = n.project /\ g.nodes[r].location = n.location
        /\ ~Single => \A s \in Given : RowsOf(s) # {} => statuses[s] = "scanned"
    BY DEF IInv, Content
  <2>3. g' = g /\ clients' = {}
    BY <1>1, <1>2
  <2>4. ~Single' => \A s \in Given' : RowsOf(s)' # {} => statuses'[s] = "scanned"
    BY <1>2, <2>1, <2>2
  <2>5. \A r \in LeavesIn(g'.nodes) :
             \E s \in Given' : \E row \in RowsOf(s)' : \E n \in NormalizeResource(row) :
               /\ r = Leaf(n.id) /\ g'.nodes[r].kind = n.kind
               /\ g'.nodes[r].project = n.project /\ g'.nodes[r].location = n.location
    BY <2>1, <2>2, <2>3
  <2>6. QED
    BY <2>2, <2>3, <2>4, <2>5 DEF Content
<1>5. Building'
  BY <1>1, <1>2 DEF IInv, Building
<1>6. Walking'
  <2>1. stack = <<>> /\ Top \in DOMAIN g.nodes
    BY DEF IInv, Walking, Busy
  <2>2. QED
    BY <1>1, <1>2, <2>1, EmptySeq DEF Walking
<1>7. Settled'
  <2>1. \A m : Children(m)' = Children(m)
    BY <1>1 DEF Children
  <2>2. phase # "failed"
    BY DEF Busy
  <2>3. QED
    BY <1>1, <1>2, <2>1, <2>2 DEF IInv, Settled
<1>8. QED
  BY <1>3, <1>4, <1>5, <1>6, <1>7

\* The steps that leave the sizes as they are.
LEMMA ShapedKept ==
  ASSUME IInv, phase' # "list", regions' = {},
         UNCHANGED <<world, scope, wantVM, sizer, g>>, Given' = Given,
         sizer.loaded \subseteq Given' \cup {current' : x \in {phase'} \cap {"rows"}}
  PROVE  Shaped'
<1>1. \A s : /\ MachinesOf(s)' = MachinesOf(s) /\ OfferedTo(s)' = OfferedTo(s) /\ Names(s)' = Names(s)
  BY RowsKept
<1>2. Subscriptions' = Subscriptions
  BY DEF Subscriptions
<1>3. /\ sizer = [loaded |-> sizer.loaded, byRegion |-> sizer.byRegion, byName |-> sizer.byName]
      /\ DOMAIN sizer.byRegion = sizer.loaded
      /\ \A s \in sizer.loaded :
           /\ wantVM /\ s \in Subscriptions
           /\ sizer.byRegion[s] = UNION {{<<r, k.name>> : r \in LocationsOf(k)} : k \in OfferedTo(s)}
           /\ Names(s) \subseteq DOMAIN sizer.byName
      /\ \A s \in sizer.loaded \cap Given : \A m \in MachinesOf(s) :
           Leaf(m.id) \in DOMAIN g.nodes /\ Text(m, "vmSize") \in Names(s)
             => "vcpu_count" \in DOMAIN g.nodes[Leaf(m.id)].attrs
  BY DEF IInv, Shaped
<1>4. \A s \in sizer'.loaded :
        /\ wantVM' /\ s \in Subscriptions'
        /\ sizer'.byRegion[s] = UNION {{<<r, k.name>> : r \in LocationsOf(k)} : k \in OfferedTo(s)'}
        /\ Names(s)' \subseteq DOMAIN sizer'.byName
  BY <1>1, <1>2, <1>3
<1>5. \A s \in sizer'.loaded \cap Given' : \A m \in MachinesOf(s)' :
        Leaf(m.id) \in DOMAIN g'.nodes /\ Text(m, "vmSize") \in Names(s)'
          => "vcpu_count" \in DOMAIN g'.nodes[Leaf(m.id)].attrs
  BY <1>1, <1>3
<1>6. QED
  BY <1>3, <1>4, <1>5 DEF Shaped

LEMMA AskedFact ==
  /\ Asked({}) = {}
  /\ \A A, B : Asked(A \cup B) = Asked(A) \cup Asked(B)
  BY Zenon DEF Asked

LEMMA AskStep ==
  ASSUME IInv, Ask
  PROVE  IInv'
<1>1. /\ phase = "next" /\ todo # {} /\ current' = Min(todo) /\ todo' = todo \ {current'}
      /\ phase' = "query" /\ page' = 1 /\ seen' = {} /\ rows' = {}
      /\ UNCHANGED <<input, moves, walk, shapes, statuses, g, edges, clients>>
  BY DEF Ask
<1>2. UNCHANGED <<world, scope, wantVM, sizer, regions>> /\ Single' = Single /\ Subscriptions' = Subscriptions
  BY <1>1 DEF input, shapes, Single, Subscriptions
<1>3. todo \subseteq Nat
  BY WorldFact DEF IInv, Books, Inputs, Subscriptions
<1>4. current' \in todo
  BY <1>1, <1>3, MinFact
<1>5. ~Single /\ ~Asking /\ Asking'
  BY <1>1 DEF IInv, Books, Asking
<1>6. Given' = Given
  BY <1>1, <1>2, <1>5 DEF Given
<1>7. Inputs' /\ Content' /\ Building' /\ Walking' /\ Settled'
  BY <1>1, <1>6, GraphKept DEF Busy
<1>8. Books'
  BY <1>1, <1>2, <1>4, <1>5 DEF IInv, Books
<1>9. Reading'
  <2>1. 1 \in DOMAIN world.pages[current']
    BY <1>4, FirstPage DEF IInv, Inputs, Books, Subscriptions
  <2>2. 2..page' = {} /\ 1..(page' - 1) = {}
    BY <1>1
  <2>3. Asked(UNION {world.pages[current][i].rows : i \in 1..(page - 1)})' = {}
    <3>1. (UNION {world.pages[current][i].rows : i \in 1..(page - 1)})' = {}
      BY <2>2
    <3>2. Asked({})' = {}
      BY Zenon DEF Asked
    <3>3. QED
      BY <3>1, <3>2
  <2>4. QED
    BY <1>1, <1>2, <2>1, <2>2, <2>3 DEF Reading
<1>10. Shaped'
  <2>1. regions = {} /\ sizer.loaded \subseteq Given
    BY <1>1 DEF IInv, Shaped
  <2>2. QED
    BY <1>1, <1>2, <1>6, <2>1, ShapedKept
<1>11. QED
  BY <1>7, <1>8, <1>9, <1>10 DEF IInv

LEMMA ReadPageStep ==
  ASSUME IInv, ReadPage
  PROVE  IInv'
<1> DEFINE pages == world.pages[current]
           p == pages[page]
<1>1. /\ phase = "query" /\ p.next \notin seen
      /\ rows' = rows \cup Asked(p.rows)
      /\ \/ p.next = 0 /\ phase' = "shapes" /\ UNCHANGED <<page, seen>>
         \/ p.next # 0 /\ page' = p.next /\ seen' = seen \cup {p.next} /\ phase' = "query"
      /\ UNCHANGED <<input, moves, walk, todo, current, shapes, statuses, g, edges, clients>>
  BY DEF ReadPage
<1>2. UNCHANGED <<world, scope, wantVM, sizer, regions>> /\ Single' = Single /\ Subscriptions' = Subscriptions
  BY <1>1 DEF input, shapes, Single, Subscriptions
<1>3. Given' = Given
  BY <1>1, <1>2 DEF Given
<1>4. Inputs' /\ Content' /\ Building' /\ Walking' /\ Settled'
  BY <1>1, <1>3, GraphKept DEF Busy
<1>5. Asking /\ Asking'
  BY <1>1 DEF Asking
<1>6. Books'
  BY <1>1, <1>2, <1>5 DEF IInv, Books
<1>7. Shaped'
  <2>1. regions = {} /\ sizer.loaded \subseteq Given
    BY <1>1 DEF IInv, Shaped
  <2>2. phase' # "list"
    BY <1>1
  <2>3. QED
    BY <1>1, <1>2, <1>3, <2>1, <2>2, ShapedKept
<1>8. Reading'
  <2>1. /\ current \in DOMAIN world.pages /\ page \in DOMAIN pages /\ seen = 2..page /\ page \in Nat
        /\ rows = Asked(UNION {pages[i].rows : i \in 1..(page - 1)})
    BY <1>1, <1>5 DEF IInv, Reading, Books, Subscriptions
  <2>2. /\ Len(pages) \in Nat \ {0} /\ DOMAIN pages = 1..Len(pages)
        /\ p.next \in {IF page = Len(pages) THEN 0 ELSE page + 1} \cup 2..page
    BY <2>1, WorldFact DEF IInv, Inputs
  <2>3. rows' = Asked(UNION {pages[i].rows : i \in 1..page})
    <3>1. (UNION {pages[i].rows : i \in 1..(page - 1)}) \cup p.rows = UNION {pages[i].rows : i \in 1..page}
      BY <2>1, <2>2
    <3>2. rows' = Asked((UNION {pages[i].rows : i \in 1..(page - 1)}) \cup p.rows)
      BY <1>1, <2>1, AskedFact, Zenon
    <3>3. QED
      BY <3>1, <3>2
  <2>4. \A X : Asked(X)' = Asked(X)
    BY <1>2, Zenon DEF Asked
  <2>5. current' = current /\ world' = world
    BY <1>1, <1>2
  <2> HIDE DEF p
  <2>6. CASE p.next = 0
    <3>1. page = Len(pages) /\ phase' = "shapes" /\ page' = page /\ seen' = seen
      BY <1>1, <2>1, <2>2, <2>6
    <3>2. rows' = RowsOf(current)
      BY <2>2, <2>3, <3>1 DEF RowsOf, RowsIn
    <3>3. RowsOf(current)' = RowsOf(current)
      BY <1>2, <2>5, RowsKept
    <3>4. QED
      BY <2>1, <3>1, <3>2, <3>3 DEF Reading
  <2>7. CASE p.next # 0
    <3>1. p.next = page + 1 /\ page + 1 \in DOMAIN pages /\ phase' = "query"
      BY <1>1, <2>1, <2>2, <2>7
    <3>2. page' = page + 1 /\ seen' = 2..page' /\ page' - 1 = page
      <4>1. page' = page + 1 /\ seen' = 2..page \cup {page + 1} /\ page \in Nat \ {0}
        BY <1>1, <2>1, <2>2, <2>7, <3>1
      <4>2. QED
        BY <4>1
    <3>3. Asked(UNION {world.pages[current][i].rows : i \in 1..(page - 1)})' = Asked(UNION {pages[i].rows : i \in 1..page})
      BY <2>4, <2>5, <3>2
    <3>4. QED
      BY <2>1, <2>3, <2>5, <3>1, <3>2, <3>3 DEF Reading
  <2>8. QED
    BY <2>6, <2>7
<1>9. QED
  BY <1>4, <1>6, <1>7, <1>8 DEF IInv

LEMMA PageFailsStep ==
  ASSUME IInv, PageFails
  PROVE  IInv'
<1>1. /\ phase = "query" /\ rows' = {}
      /\ \/ Single /\ phase' = "failed" /\ UNCHANGED statuses
         \/ ~Single /\ phase' = "next" /\ statuses' = Status(current, "unreachable")
      /\ UNCHANGED <<input, moves, walk, todo, current, page, seen, shapes, g, edges, clients>>
  BY DEF PageFails
<1>2. UNCHANGED <<world, scope, wantVM, sizer, regions>> /\ Single' = Single /\ Subscriptions' = Subscriptions
  BY <1>1 DEF input, shapes, Single, Subscriptions
<1>3. Asking /\ ~Asking' /\ current \notin DOMAIN statuses \cup todo /\ current \in Subscriptions
  BY <1>1 DEF IInv, Books, Asking
<1>4. /\ Single => statuses' = statuses
      /\ ~Single => /\ DOMAIN statuses' = DOMAIN statuses \cup {current} /\ statuses'[current] = "unreachable"
                    /\ \A t \in DOMAIN statuses : statuses'[t] = statuses[t]
  <2>1. CASE Single
    BY <1>1, <2>1
  <2>2. CASE ~Single
    <3>1. statuses' = Status(current, "unreachable")
      BY <1>1, <2>2
    <3>2. Tells(statuses', current, "unreachable")
      BY <3>1, StatusFact
    <3>3. QED
      BY <1>3, <2>2, <3>2, Zenon DEF Tells
  <2>3. QED
    BY <2>1, <2>2
<1>5. Given' = Given /\ \A s \in Given : statuses'[s] = statuses[s]
  <2>1. CASE Single
    <3>1. Given = {} /\ Given' = {}
      BY <1>1, <1>2, <2>1 DEF Given
    <3>2. QED
      BY <3>1
  <2>2. CASE ~Single
    <3>1. Given = {s \in DOMAIN statuses : statuses[s] # "unreachable"}
      BY <2>2 DEF Given
    <3>2. Given' = {s \in DOMAIN statuses' : statuses'[s] # "unreachable"}
      BY <1>2, <2>2 DEF Given
    <3>3. QED
      BY <1>4, <2>2, <3>1, <3>2
  <2>3. QED
    BY <2>1, <2>2
<1>6. Inputs' /\ Content' /\ Building' /\ Walking' /\ Settled'
  BY <1>1, <1>5, GraphKept DEF Busy
<1>7. Books'
  <2>1. CASE Single
    BY <1>1, <1>2, <1>3, <2>1 DEF IInv, Books
  <2>2. CASE ~Single
    <3>1. phase' = "next" /\ todo' = todo /\ current' = current /\ g' = g
      BY <1>1, <2>2
    <3>2. \A s \in DOMAIN statuses' : statuses'[s] \in {"scanned", "no_resources", "unreachable"}
      BY <1>4, <2>2 DEF IInv, Books
    <3>3. \A s : Subscription(s) \in DOMAIN g.nodes <=> s \in todo \cup DOMAIN statuses \cup {current}
      BY <1>1, <1>3, <2>2 DEF IInv, Books
    <3>4. todo \cap DOMAIN statuses = {} /\ todo \subseteq Subscriptions /\ DOMAIN statuses \subseteq Subscriptions
      BY DEF IInv, Books
    <3>5. QED
      BY <1>2, <1>3, <1>4, <2>2, <3>1, <3>2, <3>3, <3>4 DEF Books
  <2>3. QED
    BY <2>1, <2>2
<1>8. Shaped'
  <2>1. regions = {} /\ sizer.loaded \subseteq Given
    BY <1>1 DEF IInv, Shaped
  <2>2. phase' # "list"
    BY <1>1
  <2>3. QED
    BY <1>1, <1>2, <1>5, <2>1, <2>2, ShapedKept
<1>9. Reading'
  BY <1>1 DEF IInv, Reading
<1>10. QED
  BY <1>6, <1>7, <1>8, <1>9 DEF IInv

\* The steps that only look at sizes.
LEMMA SizesOnly ==
  ASSUME IInv, phase \in {"shapes", "list"}, phase' \in {"list", "rows"},
         UNCHANGED <<input, moves, walk, todo, current, query, statuses, g, edges, clients>>
  PROVE  /\ Inputs' /\ Content' /\ Building' /\ Walking' /\ Settled' /\ Books' /\ Reading'
         /\ Given' = Given /\ UNCHANGED <<world, scope, wantVM, rows>>
         /\ rows = RowsOf(current) /\ MachineRegions' = MachineRegions
         /\ current \in Subscriptions \ Given /\ current' = current
<1>1. UNCHANGED <<world, scope, wantVM, page, seen, rows>> /\ Single' = Single /\ Subscriptions' = Subscriptions
  BY DEF input, query, Single, Subscriptions
<1>2. Given' = Given
  BY <1>1 DEF Given
<1>3. Inputs' /\ Content' /\ Building' /\ Walking' /\ Settled'
  BY <1>2, GraphKept DEF Busy
<1>4. Asking /\ Asking'
  BY DEF Asking
<1>5. Books'
  BY <1>1, <1>4 DEF IInv, Books
<1>6. rows = RowsOf(current)
  BY DEF IInv, Reading
<1>7. Reading'
  <2>1. RowsOf(current)' = RowsOf(current)
    BY <1>1, RowsKept
  <2>2. QED
    BY <1>1, <1>6, <2>1 DEF IInv, Reading
<1>8. current \in Subscriptions \ Given
  <2>1. CASE Single
    BY <1>4, <2>1 DEF IInv, Books, Given
  <2>2. CASE ~Single
    BY <1>4, <2>2 DEF IInv, Books, Given
  <2>3. QED
    BY <2>1, <2>2
<1>9. MachineRegions' = MachineRegions
  BY <1>1, Zenon DEF MachineRegions
<1>10. QED
  BY <1>1, <1>2, <1>3, <1>5, <1>6, <1>7, <1>8, <1>9

LEMMA NoShapesStep ==
  ASSUME IInv, NoShapes
  PROVE  IInv'
<1>1. /\ phase = "shapes" /\ phase' = "rows" /\ regions' = {}
      /\ UNCHANGED <<input, moves, walk, todo, current, query, shapes, statuses, g, edges, clients>>
  BY DEF NoShapes, shapes
<1>2. /\ Inputs' /\ Content' /\ Building' /\ Walking' /\ Settled' /\ Books' /\ Reading'
      /\ Given' = Given /\ UNCHANGED <<world, scope, wantVM>>
  BY <1>1, SizesOnly
<1>3. sizer.loaded \subseteq Given /\ sizer' = sizer
  BY <1>1 DEF IInv, Shaped, shapes
<1>4. Shaped'
  BY <1>1, <1>2, <1>3, ShapedKept
<1>5. QED
  BY <1>2, <1>4 DEF IInv

LEMMA ListRegionFailsStep ==
  ASSUME IInv, ListRegionFails
  PROVE  IInv'
<1>1. /\ phase = "list" /\ phase' = "rows" /\ regions' = {} /\ sizer' = sizer
      /\ UNCHANGED <<input, moves, walk, todo, current, query, statuses, g, edges, clients>>
  BY DEF ListRegionFails
<1>2. /\ Inputs' /\ Content' /\ Building' /\ Walking' /\ Settled' /\ Books' /\ Reading'
      /\ Given' = Given /\ UNCHANGED <<world, scope, wantVM>>
  BY <1>1, SizesOnly
<1>3. sizer.loaded \subseteq Given
  BY <1>1 DEF IInv, Shaped
<1>4. Shaped'
  BY <1>1, <1>2, <1>3, ShapedKept
<1>5. QED
  BY <1>2, <1>4 DEF IInv

\* What was loaded before stays as it is.
LEMMA LoadedKept ==
  ASSUME IInv, UNCHANGED <<world, scope, wantVM, g>>, Given' = Given,
         NEW s \in sizer.loaded, sizer'.byRegion[s] = sizer.byRegion[s],
         DOMAIN sizer.byName \subseteq DOMAIN sizer'.byName
  PROVE  /\ wantVM' /\ s \in Subscriptions'
         /\ sizer'.byRegion[s] = UNION {{<<r, k.name>> : r \in LocationsOf(k)} : k \in OfferedTo(s)'}
         /\ Names(s)' \subseteq DOMAIN sizer'.byName
         /\ s \in Given' => \A m \in MachinesOf(s)' :
              Leaf(m.id) \in DOMAIN g'.nodes /\ Text(m, "vmSize") \in Names(s)'
                => "vcpu_count" \in DOMAIN g'.nodes[Leaf(m.id)].attrs
<1>1. MachinesOf(s)' = MachinesOf(s) /\ OfferedTo(s)' = OfferedTo(s) /\ Names(s)' = Names(s)
  BY RowsKept
<1>2. Subscriptions' = Subscriptions
  BY DEF Subscriptions
<1>3. /\ wantVM /\ s \in Subscriptions
      /\ sizer.byRegion[s] = UNION {{<<r, k.name>> : r \in LocationsOf(k)} : k \in OfferedTo(s)}
      /\ Names(s) \subseteq DOMAIN sizer.byName
      /\ s \in Given => \A m \in MachinesOf(s) :
           Leaf(m.id) \in DOMAIN g.nodes /\ Text(m, "vmSize") \in Names(s)
             => "vcpu_count" \in DOMAIN g.nodes[Leaf(m.id)].attrs
  BY DEF IInv, Shaped
<1>4. QED
  BY <1>1, <1>2, <1>3

LEMMA LoadShapesStep ==
  ASSUME IInv, LoadShapes
  PROVE  IInv'
<1>1. /\ phase = "shapes" /\ phase' = "list" /\ sizer' = sizer
      /\ wantVM /\ MachineRegions # {} /\ current \notin sizer.loaded
      /\ regions' = MachineRegions /\ listed' = {}
      /\ UNCHANGED <<input, moves, walk, todo, current, query, statuses, g, edges, clients>>
  BY DEF LoadShapes
<1>2. /\ Inputs' /\ Content' /\ Building' /\ Walking' /\ Settled' /\ Books' /\ Reading'
      /\ Given' = Given /\ UNCHANGED <<world, scope, wantVM>>
      /\ MachineRegions' = MachineRegions /\ current' = current
  BY <1>1, SizesOnly
<1>3. /\ sizer.loaded \subseteq Given /\ DOMAIN sizer.byRegion = sizer.loaded
      /\ sizer = [loaded |-> sizer.loaded, byRegion |-> sizer.byRegion, byName |-> sizer.byName]
  BY <1>1 DEF IInv, Shaped
<1>4. (listed = UNION {Offered(current, r) : r \in MachineRegions \ regions})'
  BY <1>1, <1>2
<1>5. \A s \in sizer'.loaded :
         /\ wantVM' /\ s \in Subscriptions'
         /\ sizer'.byRegion[s] = UNION {{<<r, k.name>> : r \in LocationsOf(k)} : k \in OfferedTo(s)'}
         /\ Names(s)' \subseteq DOMAIN sizer'.byName
         /\ s \in Given' => \A m \in MachinesOf(s)' :
              Leaf(m.id) \in DOMAIN g'.nodes /\ Text(m, "vmSize") \in Names(s)'
                => "vcpu_count" \in DOMAIN g'.nodes[Leaf(m.id)].attrs
  BY <1>1, <1>2, LoadedKept
<1>6. Shaped'
  BY <1>1, <1>2, <1>3, <1>4, <1>5 DEF Shaped
<1>7. QED
  BY <1>2, <1>6 DEF IInv

\* What was listed for all regions of the machines is what the subscription is offered.
LEMMA WholeLoad ==
  ASSUME rows = RowsOf(current), NEW L, L = UNION {Offered(current, r) : r \in MachineRegions}
  PROVE  {k \in L : Usable(k)} = OfferedTo(current)
<1> DEFINE named(r) == r # ""
           M == MachinesOf(current)
<1>1. \A r : r \in MachineRegions <=> named(r) /\ \E m \in M : r = locationRegion(m.location)
  BY Zenon DEF MachineRegions, MachinesOf
<1>2. \A r, k : k \in Offered(current, r) => named(r)
  BY Zenon DEF Offered, LocationsOf
<1> HIDE DEF named, M
<1>3. \A k : k \in L <=> \E m \in M : k \in Offered(current, locationRegion(m.location))
  <2>1. ASSUME NEW k, NEW m \in M, k \in Offered(current, locationRegion(m.location)) PROVE k \in L
    <3>1. locationRegion(m.location) \in MachineRegions
      BY <1>1, <1>2, <2>1
    <3>2. QED
      BY <2>1, <3>1
  <2>2. ASSUME NEW k \in L PROVE \E m \in M : k \in Offered(current, locationRegion(m.location))
    BY <1>1, <2>2
  <2>3. QED
    BY <2>1, <2>2
<1>4. \A k : k \in OfferedTo(current) <=> Usable(k) /\ \E m \in M : k \in Offered(current, locationRegion(m.location))
  BY DEF OfferedTo, M
<1>5. QED
  BY <1>3, <1>4

LEMMA ListRegionStep ==
  ASSUME IInv, NEW r, ListRegion(r)
  PROVE  IInv'
<1>1. /\ phase = "list" /\ r \in regions /\ regions' = regions \ {r}
      /\ listed' = listed \cup Offered(current, r)
      /\ \/ regions' # {} /\ sizer' = sizer /\ phase' = "list"
         \/ regions' = {} /\ sizer' = Committed(current, listed') /\ phase' = "rows"
      /\ UNCHANGED <<input, moves, walk, todo, current, query, statuses, g, edges, clients>>
  BY DEF ListRegion
<1>2. /\ Inputs' /\ Content' /\ Building' /\ Walking' /\ Settled' /\ Books' /\ Reading'
      /\ Given' = Given /\ UNCHANGED <<world, scope, wantVM>>
      /\ rows = RowsOf(current) /\ MachineRegions' = MachineRegions
      /\ current \in Subscriptions \ Given /\ current' = current /\ g' = g
  BY <1>1, SizesOnly
<1>3. /\ wantVM /\ current \notin sizer.loaded /\ regions \subseteq MachineRegions
      /\ listed = UNION {Offered(current, q) : q \in MachineRegions \ regions}
      /\ sizer.loaded \subseteq Given /\ DOMAIN sizer.byRegion = sizer.loaded
      /\ sizer = [loaded |-> sizer.loaded, byRegion |-> sizer.byRegion, byName |-> sizer.byName]
  BY <1>1 DEF IInv, Shaped
<1>4. listed' = UNION {Offered(current, q) : q \in MachineRegions \ regions'}
  <2>1. MachineRegions \ regions' = (MachineRegions \ regions) \cup {r}
    BY <1>1, <1>3
  <2>2. QED
    BY <1>1, <1>3, <2>1
<1>5. CASE regions' # {}
  <2>1. (listed = UNION {Offered(current, q) : q \in MachineRegions \ regions})'
    <3>1. \A q : Offered(current, q)' = Offered(current, q)
      BY <1>2 DEF Offered
    <3>2. QED
      BY <1>2, <1>4, <3>1
  <2>2. sizer' = sizer /\ phase' = "list"
    BY <1>1, <1>5
  <2>3. \A s \in sizer'.loaded :
         /\ wantVM' /\ s \in Subscriptions'
         /\ sizer'.byRegion[s] = UNION {{<<q, k.name>> : q \in LocationsOf(k)} : k \in OfferedTo(s)'}
         /\ Names(s)' \subseteq DOMAIN sizer'.byName
         /\ s \in Given' => \A m \in MachinesOf(s)' :
              Leaf(m.id) \in DOMAIN g'.nodes /\ Text(m, "vmSize") \in Names(s)'
                => "vcpu_count" \in DOMAIN g'.nodes[Leaf(m.id)].attrs
    BY <1>2, <2>2, LoadedKept
  <2>4. Shaped'
    BY <1>1, <1>2, <1>3, <1>5, <2>1, <2>2, <2>3 DEF Shaped
  <2>5. QED
    BY <1>2, <2>4 DEF IInv
<1>6. CASE regions' = {}
  <2> DEFINE usable == {k \in listed' : Usable(k)}
             pairs == UNION {{<<q, k.name>> : q \in LocationsOf(k)} : k \in usable}
             named == [n \in {k.name : k \in usable} |-> SpecOf(CHOOSE k \in usable : k.name = n)]
  <2>1. sizer' = [loaded |-> sizer.loaded \cup {current},
                  byRegion |-> Over(Only(current, pairs), sizer.byRegion),
                  byName |-> Over(named, sizer.byName)] /\ phase' = "rows"
    BY <1>1, <1>6 DEF Committed
  <2>2. usable = OfferedTo(current)
    <3>1. listed' = UNION {Offered(current, q) : q \in MachineRegions}
      BY <1>4, <1>6
    <3>2. QED
      BY <1>2, <3>1, WholeLoad
  <2>3. /\ pairs = UNION {{<<q, k.name>> : q \in LocationsOf(k)} : k \in OfferedTo(current)}
        /\ DOMAIN named = Names(current)
    BY <2>2 DEF Names
  <2> HIDE DEF pairs, named, usable
  <2>4. /\ sizer'.loaded = sizer.loaded \cup {current}
        /\ DOMAIN sizer'.byRegion = sizer'.loaded /\ sizer'.byRegion[current] = pairs
        /\ \A s \in sizer.loaded : sizer'.byRegion[s] = sizer.byRegion[s]
        /\ DOMAIN sizer'.byName = DOMAIN sizer.byName \cup Names(current)
        /\ sizer' = [loaded |-> sizer'.loaded, byRegion |-> sizer'.byRegion, byName |-> sizer'.byName]
    BY <1>3, <2>1, <2>3 DEF Over, Only
  <2>5. ASSUME NEW s \in sizer'.loaded
        PROVE  /\ wantVM' /\ s \in Subscriptions'
               /\ sizer'.byRegion[s] = UNION {{<<q, k.name>> : q \in LocationsOf(k)} : k \in OfferedTo(s)'}
               /\ Names(s)' \subseteq DOMAIN sizer'.byName
               /\ s \in Given' => \A m \in MachinesOf(s)' :
                    Leaf(m.id) \in DOMAIN g'.nodes /\ Text(m, "vmSize") \in Names(s)'
                      => "vcpu_count" \in DOMAIN g'.nodes[Leaf(m.id)].attrs
    <3>1. CASE s \in sizer.loaded
      BY <1>2, <2>4, <3>1, LoadedKept
    <3>2. CASE s = current
      <4>1. OfferedTo(s)' = OfferedTo(s) /\ Names(s)' = Names(s) /\ Subscriptions' = Subscriptions
        BY <1>2, RowsKept DEF Subscriptions
      <4>2. s \notin Given' /\ s \in Subscriptions' /\ wantVM'
        BY <1>2, <1>3, <3>2, <4>1
      <4>3. QED
        BY <2>3, <2>4, <3>2, <4>1, <4>2
    <3>3. QED
      BY <2>4, <3>1, <3>2
  <2>6. sizer'.loaded \subseteq Given' \cup {current' : x \in {phase'} \cap {"rows"}}
    BY <1>2, <1>3, <2>1, <2>4
  <2>7. Shaped'
    BY <1>6, <2>1, <2>4, <2>5, <2>6 DEF Shaped
  <2>8. QED
    BY <1>2, <2>7 DEF IInv
<1>7. QED
  BY <1>5, <1>6

LEMMA AllAskedStep ==
  ASSUME IInv, AllAsked
  PROVE  IInv'
<1>1. /\ phase = "next" /\ todo = {} /\ phase' = "seal"
      /\ UNCHANGED <<input, moves, walk, todo, current, query, shapes, statuses, g, edges, clients>>
  BY DEF AllAsked
<1>2. /\ UNCHANGED <<world, scope, wantVM, sizer, regions, page, seen>> /\ Single' = Single
      /\ ~Single /\ Subscriptions' = Subscriptions
  BY <1>1 DEF input, shapes, query, Single, Subscriptions, IInv, Books
<1>3. Given' = Given
  BY <1>1, <1>2 DEF Given
<1>4. Inputs' /\ Content' /\ Building' /\ Walking' /\ Settled'
  BY <1>1, <1>3, GraphKept DEF Busy
<1>5. Books'
  BY <1>1, <1>2 DEF IInv, Books, Asking
<1>6. Reading'
  BY <1>1, <1>2 DEF IInv, Reading
<1>7. Shaped'
  <2>1. regions = {} /\ sizer.loaded \subseteq Given
    BY <1>1 DEF IInv, Shaped
  <2>2. QED
    BY <1>1, <1>2, <1>3, <2>1, ShapedKept
<1>8. QED
  BY <1>4, <1>5, <1>6, <1>7 DEF IInv

-----------------------------------------------------------------------------
(* The end *)

\* Once all are asked nothing is added to the nodes.
LEMMA Ended ==
  ASSUME IInv, phase \in {"seal", "enrich"}, phase' \in {"enrich", "done"},
         UNCHANGED <<input, moves, walk, todo, current, query, shapes, statuses, edges>>,
         g'.nodes = g.nodes, Building',
         \A s \in clients' : Single \/ (s \in DOMAIN statuses /\ statuses[s] = "scanned"),
         phase' = "enrich" => clients' = {}
  PROVE  IInv'
<1>1. /\ UNCHANGED <<world, scope, wantVM, stack, visited, page, seen, regions, sizer>>
      /\ Single' = Single /\ Subscriptions' = Subscriptions /\ Top' = Top
  BY DEF input, walk, query, shapes, Single, Subscriptions, Top
<1>2. Given' = Given
  BY <1>1 DEF Given
<1>3. Inputs'
  BY <1>1 DEF IInv, Inputs
<1>4. Books'
  BY <1>1 DEF IInv, Books, Asking
<1>5. Content'
  <2>1. \A s : RowsOf(s)' = RowsOf(s)
    BY <1>1, RowsKept
  <2>2. /\ \A r \in DOMAIN g.nodes :
             \/ r \in {Tenant(r[2]), Group(r[2]), Subscription(r[2])} /\ g.nodes[r].kind # "instance"
             \/ r[1] = "region" /\ r = Region(r[2], r[3]) /\ r[2] \in Given /\ g.nodes[r].kind # "instance"
             \/ r = Leaf(r[2])
        /\ \A r \in LeavesIn(g.nodes) :
             \E s \in Given : \E row \in RowsOf(s) : \E n \in NormalizeResource(row) :
               /\ r = Leaf(n.id) /\ g.nodes[r].kind = n.kind
               /\ g.nodes[r].project = n.project /\ g.nodes[r].location = n.location
        /\ ~Single => \A s \in Given : RowsOf(s) # {} => statuses[s] = "scanned"
    BY DEF IInv, Content
  <2>3. statuses' = statuses /\ (clients' # {} => phase' = "done")
    OBVIOUS
  <2>4. ~Single' => \A s \in Given' : RowsOf(s)' # {} => statuses'[s] = "scanned"
    BY <1>1, <1>2, <2>1, <2>2, <2>3
  <2>5. \A r \in LeavesIn(g'.nodes) :
             \E s \in Given' : \E row \in RowsOf(s)' : \E n \in NormalizeResource(row) :
               /\ r = Leaf(n.id) /\ g'.nodes[r].kind = n.kind
               /\ g'.nodes[r].project = n.project /\ g'.nodes[r].location = n.location
    BY <1>2, <2>1, <2>2
  <2>6. \A s \in clients' : Single' \/ (s \in DOMAIN statuses' /\ statuses'[s] = "scanned")
    BY <1>1
  <2>7. \A r \in DOMAIN g'.nodes :
             \/ r \in {Tenant(r[2]), Group(r[2]), Subscription(r[2])} /\ g'.nodes[r].kind # "instance"
             \/ r[1] = "region" /\ r = Region(r[2], r[3]) /\ r[2] \in Given' /\ g'.nodes[r].kind # "instance"
             \/ r = Leaf(r[2])
    BY <1>2, <2>2
  <2>8. QED
    BY <2>3, <2>4, <2>5, <2>6, <2>7 DEF Content
<1>6. Walking'
  <2>1. stack = <<>> /\ Top \in DOMAIN g.nodes
    BY DEF IInv, Walking
  <2>2. QED
    BY <1>1, <2>1, EmptySeq DEF Walking
<1>7. Settled'
  <2>1. \A m : Children(m)' = Children(m)
    BY <1>1 DEF Children
  <2>2. phase # "failed"
    OBVIOUS
  <2>3. QED
    BY <1>1, <2>1, <2>2 DEF IInv, Settled
<1>8. Reading'
  BY <1>1 DEF IInv, Reading
<1>9. Shaped'
  <2>1. regions = {} /\ sizer.loaded \subseteq Given
    BY DEF IInv, Shaped
  <2>2. sizer = [loaded |-> sizer.loaded, byRegion |-> sizer.byRegion, byName |-> sizer.byName]
        /\ DOMAIN sizer.byRegion = sizer.loaded
    BY DEF IInv, Shaped
  <2>3. ASSUME NEW s \in sizer.loaded
        PROVE  /\ wantVM /\ s \in Subscriptions
               /\ sizer.byRegion[s] = UNION {{<<r, k.name>> : r \in LocationsOf(k)} : k \in OfferedTo(s)}
               /\ Names(s) \subseteq DOMAIN sizer.byName
               /\ s \in Given => \A m \in MachinesOf(s) :
                    Leaf(m.id) \in DOMAIN g.nodes /\ Text(m, "vmSize") \in Names(s)
                      => "vcpu_count" \in DOMAIN g.nodes[Leaf(m.id)].attrs
    BY DEF IInv, Shaped
  <2>4. \A s : MachinesOf(s)' = MachinesOf(s) /\ OfferedTo(s)' = OfferedTo(s) /\ Names(s)' = Names(s)
    BY <1>1, RowsKept
  <2>5. QED
    BY <1>1, <1>2, <2>1, <2>2, <2>3, <2>4 DEF Shaped
<1>10. QED
  BY <1>3, <1>4, <1>5, <1>6, <1>7, <1>8, <1>9 DEF IInv

LEMMA SealStep ==
  ASSUME IInv, Seal
  PROVE  IInv'
<1>1. /\ phase = "seal" /\ phase' = "enrich" /\ g' = Freeze(AddEdges(g, SetToBag(edges)))
      /\ UNCHANGED <<input, moves, walk, todo, current, query, shapes, statuses, edges, clients>>
  BY DEF Seal
<1>2. ~Sealed /\ Sealed'
  BY <1>1 DEF Sealed
<1>3. Bare(g) /\ g.dangling = 0 /\ Table(g.nodes) /\ Tree(DOMAIN g.nodes, LeavesIn(g.nodes), edges, Top)
  BY <1>2 DEF IInv, Building
<1>4. IsFiniteSet(edges) /\ Within(g.nodes, edges) = edges
  BY <1>3 DEF Tree, Within
<1>5. /\ Whole(g') /\ g'.nodes = g.nodes /\ DOMAIN g'.out = edges /\ g'.dangling = 0
  BY <1>1, <1>3, <1>4, BuildFact, NothingDangles
<1>6. Top' = Top /\ Top \in DOMAIN g.nodes
  BY <1>1 DEF Top, Single, input, IInv, Walking
<1>7. Building'
  BY <1>1, <1>2, <1>5, <1>6 DEF IInv, Building, Whole
<1>8. clients = {}
  BY <1>1 DEF IInv, Content
<1>9. QED
  BY <1>1, <1>5, <1>7, <1>8, Ended

\* The owner of a leaf was given in full and had something to give.
LEMMA LeafOwner ==
  ASSUME IInv, NEW r \in LeavesIn(g.nodes)
  PROVE  /\ g.nodes[r].project \in Given
         /\ ~Single => statuses[g.nodes[r].project] = "scanned"
<1>1. PICK s \in Given : \E row \in RowsOf(s) : \E n \in NormalizeResource(row) :
                            g.nodes[r].project = n.project
  BY DEF IInv, Content
<1>2. PICK row \in RowsOf(s) : \E n \in NormalizeResource(row) : g.nodes[r].project = n.project
  BY <1>1
<1>3. PICK n \in NormalizeResource(row) : g.nodes[r].project = n.project
  BY <1>2
<1>4. n.project = SubscriptionOf(row)
  BY NodeFact
<1>5. s \in DOMAIN world.pages
  <2>1. CASE Single
    BY <2>1 DEF Given, IInv, Inputs, Subscriptions
  <2>2. CASE ~Single
    BY <2>2 DEF Given, IInv, Books, Subscriptions
  <2>3. QED
    BY <2>1, <2>2
<1>6. row \in RowsIn(world.pages[s])
  BY <1>2, Zenon DEF RowsOf, Asked
<1>7. row.owner = s /\ row.subscription \in {Unnamed, s}
  BY <1>5, <1>6, Zenon DEF IInv, Inputs, IsWorld, ArePages
<1>8. SubscriptionOf(row) = s
  BY <1>7 DEF SubscriptionOf
<1>9. ~Single => statuses[s] = "scanned"
  BY <1>2 DEF IInv, Content
<1>10. QED
  BY <1>1, <1>3, <1>4, <1>8, <1>9

LEMMA EnrichStep ==
  ASSUME IInv, Enrich
  PROVE  IInv'
<1>1. /\ phase = "enrich" /\ phase' = "done" /\ clients' \in SUBSET Owners
      /\ UNCHANGED <<input, moves, walk, todo, current, query, shapes, statuses, g, edges>>
  BY DEF Enrich
<1>2. Sealed /\ Sealed' /\ Top' = Top
  BY <1>1 DEF Sealed, Top, Single, input
<1>3. Building'
  BY <1>1, <1>2 DEF IInv, Building
<1>4. ASSUME NEW s \in clients' PROVE Single \/ (s \in DOMAIN statuses /\ statuses[s] = "scanned")
  <2>1. PICK r \in DOMAIN g.nodes : g.nodes[r].kind = "instance" /\ s = g.nodes[r].project
    BY <1>1, <1>4 DEF Owners
  <2>2. r = Leaf(r[2])
    BY <2>1 DEF IInv, Content
  <2>3. r \in LeavesIn(g.nodes)
    BY <2>2, RefFact DEF LeavesIn
  <2>4. s \in Given /\ (~Single => statuses[s] = "scanned")
    BY <2>1, <2>3, LeafOwner
  <2>5. QED
    BY <2>4 DEF Given
<1>5. QED
  BY <1>1, <1>3, <1>4, Ended

-----------------------------------------------------------------------------
(* The rows of a subscription become nodes *)

\* A machine whose size is known gets its shape; nothing else of a node is touched.
LEMMA HydratedFact ==
  ASSUME NEW n, NEW row,
         n = [id |-> n.id, kind |-> n.kind, asset |-> n.asset, project |-> n.project,
              location |-> n.location, attrs |-> n.attrs],
         NEW h, h = Hydrated(n, row)
  PROVE  /\ h.id = n.id /\ h.kind = n.kind /\ h.project = n.project /\ h.location = n.location
         /\ wantVM /\ n.kind = "instance" /\ n.attrs["vm_size"] \in DOMAIN sizer.byName
              => "vcpu_count" \in DOMAIN h.attrs
<1> DEFINE spec == sizer.byName[n.attrs["vm_size"]]
           shape == [vcpu_count |-> spec.vcpu, memory_gib |-> spec.mem, machine_family |-> spec.family]
           counted == [reference_count |-> CountFor(row, rows), references_complete |-> ReferencesComplete(rows)]
           known == n.kind = "instance" /\ wantVM /\ n.attrs["vm_size"] \in DOMAIN sizer.byName
           gallery == n.asset = "azure_gallery_image_version"
           A == [n EXCEPT !.attrs = Over(@, shape)]
           B == [n EXCEPT !.attrs = Over(@, counted)]
<1>1. h = IF known THEN A ELSE IF gallery THEN B ELSE n
  BY Zenon DEF Hydrated
<1>2. "vcpu_count" \in DOMAIN shape
  BY Zenon
<1> HIDE DEF shape, counted, known, gallery
<1>3. DOMAIN Over(n.attrs, shape) = DOMAIN n.attrs \cup DOMAIN shape
  BY OverFact
<1>4. A = [n EXCEPT !.attrs = Over(n.attrs, shape)] /\ B = [n EXCEPT !.attrs = Over(n.attrs, counted)]
      /\ n = [n EXCEPT !.attrs = n.attrs]
  OBVIOUS
<1> HIDE DEF A, B
<1>5. (known => h = A) /\ (~known => h = B \/ h = n)
  BY <1>1
<1>6. \E a : h = [n EXCEPT !.attrs = a] /\ (known => a = Over(n.attrs, shape))
  <2>1. CASE known
    BY <1>4, <1>5, <2>1
  <2>2. CASE ~known
    BY <1>4, <1>5, <2>2
  <2>3. QED
    BY <2>1, <2>2
<1>7. PICK a : h = [n EXCEPT !.attrs = a] /\ (known => a = Over(n.attrs, shape))
  BY <1>6
<1>8. h.id = n.id /\ h.kind = n.kind /\ h.project = n.project /\ h.location = n.location /\ h.attrs = a
  BY <1>7
<1>9. known => "vcpu_count" \in DOMAIN h.attrs
  BY <1>2, <1>3, <1>7, <1>8
<1>10. QED
  BY <1>8, <1>9 DEF known

\* An id names one row.
OneRow(x, y) == x.id = y.id /\ x.id # "" => x = y

\* The rows of a subscription that bear an id are told apart by it, also from those of
\* other subscriptions, and there are finitely many.
LEMMA PairFact ==
  ASSUME NEW pages, ArePages(pages), NEW s \in DOMAIN pages, NEW t \in DOMAIN pages,
         NEW a \in RowsIn(pages[s]), NEW b \in RowsIn(pages[t])
  PROVE  a.owner = s /\ a.subscription \in {Unnamed, s} /\ OneRow(a, b)
<1>1. \A u, v \in DOMAIN pages : \A x \in RowsIn(pages[u]), y \in RowsIn(pages[v]) :
        x.owner = u /\ x.subscription \in {Unnamed, u} /\ OneRow(x, y)
  BY Zenon DEF ArePages, OneRow
<1>2. QED
  BY <1>1

LEMMA RowFact ==
  ASSUME IInv, NEW s \in Subscriptions, NEW row \in RowsOf(s),
         NEW t \in Subscriptions, NEW other \in RowsOf(t)
  PROVE  /\ row.owner = s /\ row.subscription \in {Unnamed, s}
         /\ OneRow(row, other) /\ other.owner = t
<1>1. row \in RowsIn(world.pages[s]) /\ other \in RowsIn(world.pages[t])
  BY Zenon DEF RowsOf, Asked
<1>2. ArePages(world.pages) /\ s \in DOMAIN world.pages /\ t \in DOMAIN world.pages
  BY DEF IInv, Inputs, IsWorld, Subscriptions
<1>3. row.owner = s /\ row.subscription \in {Unnamed, s} /\ OneRow(row, other) /\ other.owner = t
  BY <1>1, <1>2, PairFact
<1>4. QED
  BY <1>3

LEMMA SameRow ==
  ASSUME IInv, NEW s \in Subscriptions, NEW row \in RowsOf(s),
         NEW t \in Subscriptions, NEW other \in RowsOf(t),
         row.id = other.id, row.id # ""
  PROVE  row = other /\ s = t
<1>1. row.owner = s /\ OneRow(row, other) /\ other.owner = t
  BY RowFact
<1>2. row = other
  BY <1>1, Zenon DEF OneRow
<1>3. QED
  BY <1>1, <1>2

\* A resource that has a node has a name, and one that has the name of another is it.
LEMMA NodesRow ==
  ASSUME IInv, NEW s \in Subscriptions, NEW row \in RowsOf(s), NEW n \in NormalizeResource(row),
         NEW t \in Subscriptions, NEW other \in RowsOf(t), row.id = other.id
  PROVE  row = other /\ s = t
<1>1. row.id # ""
  BY NodeFact, Zenon
<1>2. QED
  BY <1>1, SameRow, Zenon

LEMMA RowsFinite ==
  ASSUME IInv, NEW s \in Subscriptions
  PROVE  IsFiniteSet(RowsOf(s))
<1> DEFINE pages == world.pages[s]
           f == [i \in 1..Len(pages) |-> pages[i].rows]
           T == {pages[i].rows : i \in DOMAIN pages}
<1>1. Len(pages) \in Nat /\ DOMAIN pages = 1..Len(pages) /\ \A i \in DOMAIN pages : IsFiniteSet(pages[i].rows)
  BY WorldFact DEF IInv, Inputs, Subscriptions
<1>2. IsFiniteSet(1..Len(pages))
  BY <1>1, FS_Interval
<1>3. \A x \in T : \E i \in 1..Len(pages) : x = f[i]
  BY <1>1
<1> HIDE DEF f
<1>4. IsFiniteSet(T)
  BY <1>2, <1>3, ImageFinite
<1>5. IsFiniteSet(UNION T)
  BY <1>1, <1>4, FS_UNION
<1>6. RowsOf(s) \subseteq UNION T
  BY Zenon DEF RowsOf, Asked, RowsIn
<1>7. QED
  BY <1>5, <1>6, FS_Subset

\* What the nodes of a subscription are.
LEMMA NewNode ==
  ASSUME IInv, current \in Subscriptions, rows = RowsOf(current), NEW n \in NodesOf(rows)
  PROVE  \E row \in RowsOf(current) : \E m \in NormalizeResource(row) :
           /\ row.id # "" /\ n = Hydrated(m, row) /\ n.id = row.id
           /\ n.id = m.id /\ n.kind = m.kind /\ n.project = m.project /\ n.location = m.location
<1>1. PICK row \in rows : \E m \in NormalizeResource(row) : n = Hydrated(m, row)
  BY DEF NodesOf
<1>2. PICK m \in NormalizeResource(row) : n = Hydrated(m, row)
  BY <1>1
<1>3. /\ m = [id |-> m.id, kind |-> m.kind, asset |-> m.asset, project |-> m.project,
              location |-> m.location, attrs |-> m.attrs]
      /\ m.id = row.id
  BY NodeFact, Zenon
<1>4. row.id # ""
  BY NodeFact, Zenon
<1>5. n.id = m.id /\ n.kind = m.kind /\ n.project = m.project /\ n.location = m.location
  BY <1>2, <1>3, HydratedFact
<1>6. n.id = row.id
  BY <1>3, <1>5
<1>7. QED
  BY <1>1, <1>2, <1>4, <1>5, <1>6, Zenon

\* There are finitely many of them, and their ids tell them apart.
LEMMA NewNodes ==
  ASSUME IInv, current \in Subscriptions, rows = RowsOf(current)
  PROVE  /\ IsFiniteSet(NodesOf(rows))
         /\ \A n, m \in NodesOf(rows) : n.id = m.id => n = m
<1>1. \A row : \A m, k \in NormalizeResource(row) : m = k
  BY NodeFact, Zenon
<1>2. IsFiniteSet(NodesOf(rows))
  <2> DEFINE f == [row \in rows |-> CHOOSE n : n \in {Hydrated(m, row) : m \in NormalizeResource(row)}]
  <2>1. ASSUME NEW n \in NodesOf(rows) PROVE \E row \in rows : n = f[row]
    <3>1. PICK row \in rows : n \in {Hydrated(m, row) : m \in NormalizeResource(row)}
      BY DEF NodesOf
    <3> DEFINE H == {Hydrated(m, row) : m \in NormalizeResource(row)}
    <3>2. \A k \in H : k = n
      BY <1>1, <3>1
    <3> HIDE DEF H
    <3>3. (CHOOSE k : k \in H) = n
      BY <3>1, <3>2 DEF H
    <3>4. QED
      BY <3>1, <3>3 DEF H
  <2> HIDE DEF f
  <2>2. IsFiniteSet(rows)
    BY RowsFinite
  <2>3. QED
    BY <2>1, <2>2, ImageFinite
<1>3. ASSUME NEW n \in NodesOf(rows), NEW o \in NodesOf(rows), n.id = o.id
      PROVE  n = o
  <2>b. PICK row \in RowsOf(current) : \E m \in NormalizeResource(row) :
           row.id # "" /\ n = Hydrated(m, row) /\ n.id = row.id
    BY NewNode, Zenon
  <2>1. PICK m \in NormalizeResource(row) : row.id # "" /\ n = Hydrated(m, row) /\ n.id = row.id
    BY <2>b, Zenon
  <2>a. PICK other \in RowsOf(current) : \E k \in NormalizeResource(other) :
           o = Hydrated(k, other) /\ o.id = other.id
    BY NewNode, Zenon
  <2>2. PICK k \in NormalizeResource(other) : o = Hydrated(k, other) /\ o.id = other.id
    BY <2>a, Zenon
  <2>3. row.id = other.id
    BY <1>3, <2>1, <2>2, Zenon
  <2>4. row = other
    <3>1. OneRow(row, other)
      BY RowFact
    <3>2. QED
      BY <2>1, <2>3, <3>1, Zenon DEF OneRow
  <2>5. m = k
    BY <1>1, <2>4
  <2>6. QED
    BY <2>1, <2>2, <2>4, <2>5, Zenon
<1>4. QED
  BY <1>2, <1>3

\* None of the leaves that are there is of the subscription asked now.
LEMMA FreshLeaf ==
  ASSUME IInv, current \in Subscriptions \ Given, rows = RowsOf(current), NEW row \in RowsOf(current),
         NEW r, r = Leaf(row.id)
  PROVE  r \notin DOMAIN g.nodes
<1> SUFFICES ASSUME r \in DOMAIN g.nodes PROVE FALSE
  OBVIOUS
<1>1. r \in LeavesIn(g.nodes)
  BY RefFact DEF LeavesIn
<1>2. PICK s \in Given : \E o \in RowsOf(s) : \E n \in NormalizeResource(o) : r = Leaf(n.id)
  BY <1>1 DEF IInv, Content
<1>3. PICK o \in RowsOf(s) : \E n \in NormalizeResource(o) : r = Leaf(n.id)
  BY <1>2
<1>4. PICK n \in NormalizeResource(o) : r = Leaf(n.id)
  BY <1>3
<1>5. row.id = n.id
  BY <1>4 DEF Leaf
<1>6. n.id = o.id
  BY NodeFact, Zenon
<1>8. s \in Subscriptions
  <2>1. CASE Single
    BY <2>1 DEF Given, IInv, Inputs
  <2>2. CASE ~Single
    BY <2>2 DEF Given, IInv, Books
  <2>3. QED
    BY <2>1, <2>2
<1>9. o.id = row.id
  BY <1>5, <1>6
<1>10. s = current
  <2>1. /\ IInv /\ s \in Subscriptions /\ o \in RowsOf(s)
        /\ current \in Subscriptions /\ row \in RowsOf(current)
    BY <1>8
  <2>2. QED
    BY <1>9, <2>1, NodesRow
<1>11. QED
  BY <1>10

\* What AddRows does to the graph: the regions are hung on the subscription and the
\* leaves on their regions.
LEMMA Planted ==
  ASSUME IInv, phase = "rows", AddRows
  PROVE  LET nodes == NodesOf(rows)
             placed == {n \in nodes : n.location # ""}
             K == {Leaf(n.id) : n \in nodes}
             M == {Region(current, n.location) : n \in placed}
         IN /\ Bare(g') /\ g'.dangling = 0 /\ Table(g'.nodes)
            /\ DOMAIN g'.nodes = DOMAIN g.nodes \cup K \cup M
            /\ (K \cup M) \cap DOMAIN g.nodes = {}
            /\ \A r \in DOMAIN g.nodes : g'.nodes[r] = g.nodes[r]
            /\ \A n \in nodes : g'.nodes[Leaf(n.id)] = n
            /\ \A r \in M : g'.nodes[r].kind = "region"
            /\ LeavesIn(g'.nodes) = LeavesIn(g.nodes) \cup K
            /\ edges' = edges \cup {Edge(r, Subscription(current), "contains") : r \in M}
                              \cup {Edge(Leaf(n.id), Region(current, n.location), "contains") : n \in placed}
            /\ IsFiniteSet(nodes) /\ \A n, m \in nodes : n.id = m.id => n = m
<1> DEFINE nodes == NodesOf(rows)
           named(l) == l # ""
           placed == {n \in nodes : named(n.location)}
           K == {Leaf(n.id) : n \in nodes}
           M == {Region(current, n.location) : n \in placed}
           leaf(id) == CHOOSE n \in nodes : n.id = id
           con(r) == Container("region", r[2], r[3])
           leaves == [r \in K |-> leaf(r[2])]
           regs == [r \in M |-> con(r)]
           new == Over(leaves, regs)
           F1 == {Edge(r, Subscription(current), "contains") : r \in M}
           F2 == {Edge(Leaf(n.id), Region(current, n.location), "contains") : n \in placed}
           U == UNION {{Edge(Leaf(n.id), Region(current, n.location), "contains"),
                        Edge(Region(current, n.location), Subscription(current), "contains")} : n \in placed}
<1>1. g' = AddNodes(g, new) /\ edges' = edges \cup U
  BY Zenon DEF AddRows
<1>2. U = F1 \cup F2
  <2> HIDE DEF placed
  <2>1. QED
    OBVIOUS
<1>3. current \in Subscriptions \ Given /\ rows = RowsOf(current)
  <2>1. current \in Subscriptions /\ Asking /\ rows = RowsOf(current)
    BY DEF IInv, Books, Reading, Asking
  <2>2. CASE Single
    BY <2>1, <2>2 DEF Given
  <2>3. CASE ~Single
    BY <2>1, <2>3 DEF Given, IInv, Books
  <2>4. QED
    BY <2>1, <2>2, <2>3
<1>4. IsFiniteSet(nodes) /\ \A n, m \in nodes : n.id = m.id => n = m
  BY <1>3, NewNodes
<1>5. \A n \in nodes : Leaf(n.id) \notin DOMAIN g.nodes
  <2>1. ASSUME NEW n \in nodes PROVE Leaf(n.id) \notin DOMAIN g.nodes
    <3>1. PICK row \in RowsOf(current) : n.id = row.id
      BY <1>3, NewNode, Zenon
    <3>2. QED
      BY <1>3, <3>1, FreshLeaf
  <2>2. QED
    BY <2>1
<1>6. \A l : Region(current, l) \notin DOMAIN g.nodes
  <2>1. ASSUME NEW l, Region(current, l) \in DOMAIN g.nodes PROVE FALSE
    <3> DEFINE r == Region(current, l)
    <3>1. r[1] = "region" /\ r[2] = current
      BY RefFact
    <3>2. \A t : r \notin {Tenant(t), Group(t), Subscription(t), Leaf(t)}
      BY <3>1, RefFact
    <3>3. r[2] \in Given
      BY <2>1, <3>2 DEF IInv, Content
    <3>4. QED
      BY <1>3, <3>1, <3>3
  <2>2. QED
    BY <2>1
<1> HIDE DEF named, nodes
<1>7. (K \cup M) \cap DOMAIN g.nodes = {}
  BY <1>5, <1>6
<1>8. /\ \A r \in K : r[1] = "leaf"
      /\ \A r \in M : r[1] = "region"
  BY RefFact
<1>9. \A n \in nodes : leaf(n.id) = n
  <2>1. ASSUME NEW n \in nodes PROVE leaf(n.id) = n
    <3>1. \E m \in nodes : m.id = n.id
      OBVIOUS
    <3>2. leaf(n.id) \in nodes /\ leaf(n.id).id = n.id
      BY <3>1
    <3> HIDE DEF leaf
    <3>3. QED
      BY <1>4, <3>2
  <2>2. QED
    BY <2>1
<1>10. \A r \in M : con(r).kind = "region"
  BY ContainerFact, Zenon
<1> HIDE DEF leaf, con, placed
<1>11. /\ DOMAIN leaves = K /\ DOMAIN regs = M /\ DOMAIN new = K \cup M
       /\ \A n \in nodes : new[Leaf(n.id)] = n
       /\ \A r \in M : new[r] = con(r)
  <2>1. DOMAIN leaves = K /\ DOMAIN regs = M
    OBVIOUS
  <2>2. \A n \in nodes : Leaf(n.id) \in K /\ leaves[Leaf(n.id)] = n
    BY <1>9, RefFact
  <2>3. \A r \in M : r \notin K /\ regs[r] = con(r)
    BY <1>8, RefFact
  <2> HIDE DEF leaves, regs, K, M
  <2>4. DOMAIN new = K \cup M /\ (\A r \in K : new[r] = leaves[r]) /\ (\A r \in M : new[r] = regs[r])
    BY <2>1, <2>3 DEF Over
  <2>5. QED
    BY <2>1, <2>2, <2>3, <2>4
<1> HIDE DEF new
<1>12. ~Sealed /\ Bare(g) /\ g.dangling = 0 /\ IsGraph(g)
  BY DEF Sealed, IInv, Building, Bare
<1>13. Bare(g') /\ g'.nodes = Over(new, g.nodes) /\ g'.dangling = 0
  <2>1. Bare(g') /\ g'.nodes = Over(new, g.nodes)
    BY <1>1, <1>12, AddNodesFact
  <2>2. AddNodes(g, new).dangling = g.dangling
    BY ONLY <1>12 DEF AddNodes, IsGraph
  <2>3. QED
    BY <1>1, <1>12, <2>1, <2>2
<1> HIDE DEF K, M
<1>14. /\ DOMAIN g'.nodes = DOMAIN g.nodes \cup K \cup M /\ Table(g'.nodes)
       /\ \A r \in K \cup M : g'.nodes[r] = new[r]
       /\ \A r \in DOMAIN g.nodes : g'.nodes[r] = g.nodes[r]
  <2>1. DOMAIN g'.nodes = DOMAIN g.nodes \cup K \cup M /\ Table(g'.nodes)
    BY <1>11, <1>13 DEF Over, Table
  <2>2. \A r \in K \cup M : g'.nodes[r] = new[r]
    BY <1>11, <1>13 DEF Over
  <2>3. \A r \in DOMAIN g.nodes : g'.nodes[r] = g.nodes[r]
    BY <1>7, <1>11, <1>13 DEF Over
  <2>4. QED
    BY <2>1, <2>2, <2>3
<1>15. LeavesIn(g'.nodes) = LeavesIn(g.nodes) \cup K
  BY <1>8, <1>14 DEF LeavesIn
<1>16. \A n \in nodes : g'.nodes[Leaf(n.id)] = n
  BY <1>11, <1>14 DEF K
<1>17. \A r \in M : g'.nodes[r].kind = "region"
  BY <1>10, <1>11, <1>14
<1>18. edges' = edges \cup F1 \cup F2
  BY <1>1, <1>2
<1> HIDE DEF F1, F2
<1>19. QED
  BY <1>4, <1>7, <1>13, <1>14, <1>15, <1>16, <1>17, <1>18, Zenon DEF K, M, F1, F2, placed, nodes, named

LEMMA AddRowsStep ==
  ASSUME IInv, AddRows
  PROVE  IInv'
<1> DEFINE nodes == NodesOf(rows)
           named(l) == l # ""
           placed == {n \in nodes : named(n.location)}
           K == {Leaf(n.id) : n \in nodes}
           M == {Region(current, n.location) : n \in placed}
           F1 == {Edge(r, Subscription(current), "contains") : r \in M}
           F2 == {Edge(Leaf(n.id), Region(current, n.location), "contains") : n \in placed}
<1>1. /\ phase = "rows"
      /\ \/ Single /\ phase' = "seal" /\ statuses' = statuses
         \/ ~Single /\ phase' = "next" /\ statuses' = Status(current, IF rows = {} THEN "no_resources" ELSE "scanned")
      /\ UNCHANGED <<input, moves, walk, todo, current, query, shapes, clients>>
  BY Zenon DEF AddRows
<1>2. /\ Bare(g') /\ g'.dangling = 0 /\ Table(g'.nodes)
      /\ DOMAIN g'.nodes = DOMAIN g.nodes \cup K \cup M
      /\ (K \cup M) \cap DOMAIN g.nodes = {}
      /\ \A r \in DOMAIN g.nodes : g'.nodes[r] = g.nodes[r]
      /\ \A n \in nodes : g'.nodes[Leaf(n.id)] = n
      /\ \A r \in M : g'.nodes[r].kind = "region"
      /\ LeavesIn(g'.nodes) = LeavesIn(g.nodes) \cup K
      /\ edges' = edges \cup F1 \cup F2
      /\ IsFiniteSet(nodes) /\ \A n, m \in nodes : n.id = m.id => n = m
  BY <1>1, Planted, Zenon
<1>3. /\ UNCHANGED <<world, scope, wantVM, stack, visited, page, seen, regions, sizer>>
      /\ Single' = Single /\ Subscriptions' = Subscriptions /\ Top' = Top
  BY <1>1 DEF input, walk, query, shapes, Single, Subscriptions, Top
<1>4. /\ Asking /\ current \in Subscriptions /\ rows = RowsOf(current) /\ ~Sealed /\ ~Sealed'
      /\ current \notin todo \cup DOMAIN statuses /\ ~Asking'
      /\ clients = {} /\ Top \in DOMAIN g.nodes /\ stack = <<>> /\ regions = {}
  <2>1. Asking /\ ~Sealed /\ ~Sealed' /\ ~Asking'
    BY <1>1 DEF Asking, Sealed
  <2>2. current \in Subscriptions /\ current \notin todo \cup DOMAIN statuses
    BY <2>1 DEF IInv, Books
  <2>3. rows = RowsOf(current) /\ clients = {} /\ Top \in DOMAIN g.nodes /\ stack = <<>> /\ regions = {}
    BY <1>1 DEF IInv, Reading, Content, Walking, Shaped
  <2>4. QED
    BY <2>1, <2>2, <2>3
<1>5. /\ Single => current = scope.id /\ Given = {}
      /\ Given' = Given \cup {current} /\ current \notin Given
      /\ ~Single => /\ DOMAIN statuses' = DOMAIN statuses \cup {current}
                    /\ statuses'[current] = IF rows = {} THEN "no_resources" ELSE "scanned"
                    /\ \A t \in DOMAIN statuses : statuses'[t] = statuses[t]
  <2>1. CASE Single
    <3>1. current = scope.id
      BY <2>1 DEF IInv, Books
    <3>2. Given = {} /\ Given' = {scope.id}
      BY <1>1, <1>3, <2>1 DEF Given
    <3>3. QED
      BY <2>1, <3>1, <3>2
  <2>2. CASE ~Single
    <3> DEFINE word == IF rows = {} THEN "no_resources" ELSE "scanned"
    <3>1. statuses' = Status(current, word)
      BY <1>1, <2>2
    <3>2. word # "unreachable"
      OBVIOUS
    <3> HIDE DEF word
    <3>3. /\ DOMAIN statuses' = DOMAIN statuses \cup {current} /\ statuses'[current] = word
          /\ \A t \in DOMAIN statuses : statuses'[t] = statuses[t]
      <4>1. Tells(statuses', current, word)
        BY <3>1, StatusFact
      <4>2. QED
        BY <1>4, <4>1, Zenon DEF Tells
    <3>4. Given = {s \in DOMAIN statuses : statuses[s] # "unreachable"}
      BY <2>2 DEF Given
    <3>5. Given' = {s \in DOMAIN statuses' : statuses'[s] # "unreachable"}
      BY <1>3, <2>2 DEF Given
    <3>6. Given' = Given \cup {current} /\ current \notin Given
      BY <1>4, <3>2, <3>3, <3>4, <3>5
    <3>7. QED
      BY <2>2, <3>3, <3>6 DEF word
  <2>3. QED
    BY <2>1, <2>2
<1> HIDE DEF named
<1>6. /\ \A r \in K : r[1] = "leaf" /\ r = Leaf(r[2])
      /\ \A r \in M : r[1] = "region" /\ r = Region(r[2], r[3]) /\ r[2] = current
  BY RefFact
<1>7. Inputs'
  BY <1>1, <1>3 DEF IInv, Inputs
<1>8. \A s : RowsOf(s)' = RowsOf(s) /\ MachinesOf(s)' = MachinesOf(s) /\ OfferedTo(s)' = OfferedTo(s) /\ Names(s)' = Names(s)
  BY <1>3, RowsKept
<1> HIDE DEF nodes, K, M
<1>9. Books'
  <2>1. \A s : Subscription(s) \in DOMAIN g'.nodes <=> Subscription(s) \in DOMAIN g.nodes
    BY <1>2, <1>6, RefFact
  <2>2. CASE Single
    <3>1. phase' = "seal" /\ statuses' = statuses /\ todo' = todo /\ current' = current
      BY <1>1, <2>2
    <3>2. QED
      BY <1>3, <1>4, <2>1, <2>2, <3>1 DEF IInv, Books
  <2>3. CASE ~Single
    <3>1. phase' = "next" /\ todo' = todo /\ current' = current
      BY <1>1, <2>3
    <3>2. \A s \in DOMAIN statuses' : statuses'[s] \in {"scanned", "no_resources", "unreachable"}
      BY <1>5, <2>3 DEF IInv, Books
    <3>3. \A s : Subscription(s) \in DOMAIN g.nodes <=> s \in todo \cup DOMAIN statuses \cup {current}
      BY <1>1, <1>4, <2>3 DEF IInv, Books
    <3>4. todo \cap DOMAIN statuses = {} /\ todo \subseteq Subscriptions /\ DOMAIN statuses \subseteq Subscriptions
      BY DEF IInv, Books
    <3>5. QED
      BY <1>3, <1>4, <1>5, <2>1, <2>3, <3>1, <3>2, <3>3, <3>4 DEF Books
  <2>4. QED
    BY <2>2, <2>3
<1>10. Walking'
  <2>1. phase' \notin {"walk", "failed"}
    BY <1>1
  <2>2. QED
    BY <1>2, <1>3, <1>4, <2>1, EmptySeq DEF Walking
<1>11. Reading'
  <2>1. phase' \notin {"query", "shapes", "list", "rows"}
    BY <1>1
  <2>2. QED
    BY <1>3, <2>1 DEF IInv, Reading
<1>12. Content'
  <2>1. \A r \in DOMAIN g'.nodes :
             \/ r \in {Tenant(r[2]), Group(r[2]), Subscription(r[2])} /\ g'.nodes[r].kind # "instance"
             \/ r[1] = "region" /\ r = Region(r[2], r[3]) /\ r[2] \in Given' /\ g'.nodes[r].kind # "instance"
             \/ r = Leaf(r[2])
    <3>1. \A r \in M : g'.nodes[r].kind # "instance"
      BY <1>2
    <3>2. \A r \in DOMAIN g.nodes :
             \/ r \in {Tenant(r[2]), Group(r[2]), Subscription(r[2])} /\ g.nodes[r].kind # "instance"
             \/ r[1] = "region" /\ r = Region(r[2], r[3]) /\ r[2] \in Given /\ g.nodes[r].kind # "instance"
             \/ r = Leaf(r[2])
      BY DEF IInv, Content
    <3>3. QED
      BY <1>2, <1>5, <1>6, <3>1, <3>2
  <2>2. ASSUME NEW r \in LeavesIn(g'.nodes)
        PROVE  \E s \in Given' : \E row \in RowsOf(s)' : \E n \in NormalizeResource(row) :
                 /\ r = Leaf(n.id) /\ g'.nodes[r].kind = n.kind
                 /\ g'.nodes[r].project = n.project /\ g'.nodes[r].location = n.location
    <3>1. CASE r \in LeavesIn(g.nodes)
      <4>1. r \in DOMAIN g.nodes
        BY <3>1 DEF LeavesIn
      <4>2. \E s \in Given : \E row \in RowsOf(s) : \E n \in NormalizeResource(row) :
                 /\ r = Leaf(n.id) /\ g.nodes[r].kind = n.kind
                 /\ g.nodes[r].project = n.project /\ g.nodes[r].location = n.location
        BY <3>1 DEF IInv, Content
      <4>3. g'.nodes[r] = g.nodes[r]
        BY <1>2, <4>1
      <4>4. QED
        BY <1>5, <1>8, <4>2, <4>3
    <3>2. CASE r \in K
      <4>1. PICK n \in nodes : r = Leaf(n.id)
        BY <3>2 DEF K
      <4>2. g'.nodes[r] = n
        BY <1>2, <4>1
      <4>3. n \in NodesOf(rows)
        BY DEF nodes
      <4>4. PICK row \in RowsOf(current) : \E m \in NormalizeResource(row) :
               n.id = m.id /\ n.kind = m.kind /\ n.project = m.project /\ n.location = m.location
        BY <1>4, <4>3, NewNode, Zenon
      <4>5. PICK m \in NormalizeResource(row) :
               n.id = m.id /\ n.kind = m.kind /\ n.project = m.project /\ n.location = m.location
        BY <4>4
      <4> PICK s : s = current
        OBVIOUS
      <4>6. s \in Given'
        BY <1>5
      <4>7. row \in RowsOf(s)
        BY <4>4
      <4>8. row \in RowsOf(s)'
        BY <1>8, <4>7
      <4>9. QED
        BY <4>1, <4>2, <4>5, <4>6, <4>8
    <3>3. QED
      BY <1>2, <3>1, <3>2
  <2>3. ~Single' => \A s \in Given' : RowsOf(s)' # {} => statuses'[s] = "scanned"
    <3> SUFFICES ASSUME ~Single, NEW s \in Given', RowsOf(s) # {} PROVE statuses'[s] = "scanned"
      BY <1>3, <1>8
    <3>1. CASE s = current
      BY <1>4, <1>5, <3>1
    <3>2. CASE s \in Given
      <4>1. s \in DOMAIN statuses /\ statuses[s] = "scanned"
        BY <3>2 DEF Given, IInv, Content
      <4>2. QED
        BY <1>5, <4>1
    <3>3. QED
      BY <1>5, <3>1, <3>2
  <2>4. clients' = {}
    BY <1>1, <1>4
  <2>5. QED
    BY <2>1, <2>2, <2>3, <2>4 DEF Content
<1>13. Tree(DOMAIN g.nodes, LeavesIn(g.nodes), edges, Top) /\ Placed(g.nodes, edges)
  BY DEF IInv, Building
<1>14. Subscription(current) \in DOMAIN g.nodes \ LeavesIn(g.nodes)
  <2>1. Subscription(current) \in DOMAIN g.nodes
    <3>1. CASE Single
      BY <1>5, <3>1 DEF IInv, Books
    <3>2. CASE ~Single
      BY <1>1, <1>4, <3>2 DEF IInv, Books
    <3>3. QED
      BY <3>1, <3>2
  <2>2. QED
    BY <2>1, RefFact DEF LeavesIn
<1>15. /\ IsFiniteSet(F1) /\ IsFiniteSet(F2) /\ IsFiniteSet(M)
       /\ \A e \in F1 : e = Edge(e.from, e.to, "contains") /\ e.from \in M /\ e.to = Subscription(current)
       /\ \A r \in M : \E e \in F1 : e.from = r
       /\ \A e \in F2 : \E n \in placed : e = Edge(Leaf(n.id), Region(current, n.location), "contains")
       /\ \A n \in placed : Edge(Leaf(n.id), Region(current, n.location), "contains") \in F2
  <2>1. IsFiniteSet(placed)
    BY <1>2, FS_Subset
  <2> HIDE DEF placed
  <2>2. IsFiniteSet(M)
    <3> DEFINE f == [n \in placed |-> Region(current, n.location)]
    <3>1. \A r \in M : \E n \in placed : r = f[n]
      BY DEF M
    <3> HIDE DEF f
    <3>2. QED
      BY <2>1, <3>1, ImageFinite
  <2>3. IsFiniteSet(F1)
    <3> DEFINE f == [r \in M |-> Edge(r, Subscription(current), "contains")]
    <3>1. \A e \in F1 : \E r \in M : e = f[r]
      OBVIOUS
    <3> HIDE DEF f, F1
    <3>2. QED
      BY <2>2, <3>1, ImageFinite
  <2>4. IsFiniteSet(F2)
    <3> DEFINE f == [n \in placed |-> Edge(Leaf(n.id), Region(current, n.location), "contains")]
    <3>1. \A e \in F2 : \E n \in placed : e = f[n]
      OBVIOUS
    <3> HIDE DEF f, F2
    <3>2. QED
      BY <2>1, <3>1, ImageFinite
  <2>5. /\ \A e \in F1 : e = Edge(e.from, e.to, "contains") /\ e.from \in M /\ e.to = Subscription(current)
        /\ \A r \in M : \E e \in F1 : e.from = r
    <3>1. \A r, t : /\ Edge(r, t, "contains").from = r /\ Edge(r, t, "contains").to = t
      BY DEF Edge
    <3>2. ASSUME NEW e \in F1
          PROVE  e = Edge(e.from, e.to, "contains") /\ e.from \in M /\ e.to = Subscription(current)
      <4>1. PICK r \in M : e = Edge(r, Subscription(current), "contains")
        OBVIOUS
      <4>2. e.from = r /\ e.to = Subscription(current)
        BY ONLY <3>1, <4>1
      <4>3. QED
        BY ONLY <4>1, <4>2
    <3>3. ASSUME NEW r \in M
          PROVE  \E e \in F1 : e.from = r
      <4>1. Edge(r, Subscription(current), "contains") \in F1
        OBVIOUS
      <4>2. Edge(r, Subscription(current), "contains").from = r
        BY <3>1
      <4> HIDE DEF F1
      <4>3. QED
        BY <4>1, <4>2, Zenon
    <3> HIDE DEF F1
    <3>4. QED
      BY <3>2, <3>3
  <2>6. QED
    BY <2>2, <2>3, <2>4, <2>5
<1> HIDE DEF F1, F2
<1>16. \A n \in placed : Leaf(n.id) \in K /\ Region(current, n.location) \in M
  BY DEF K, M
<1>17. Tree(DOMAIN g.nodes \cup M, LeavesIn(g.nodes), edges \cup F1, Top)
  <2>1. M \cap DOMAIN g.nodes = {}
    BY <1>2
  <2>2. \A e \in F1 : e = Edge(e.from, e.to, "contains") /\ e.from \in M /\ e.to \in DOMAIN g.nodes \ LeavesIn(g.nodes)
    BY <1>14, <1>15
  <2>3. \A e, f \in F1 : e.from = f.from => e = f
    BY <1>15
  <2>4. QED
    BY <1>4, <1>13, <1>15, <2>1, <2>2, <2>3, Grow
<1>18. Tree(DOMAIN g.nodes \cup M \cup K, LeavesIn(g.nodes) \cup K, edges \cup F1 \cup F2, Top)
  <2>1. K \cap (DOMAIN g.nodes \cup M) = {} /\ Top \in DOMAIN g.nodes \cup M
    BY <1>2, <1>4, <1>6
  <2>2. ASSUME NEW e \in F2
        PROVE  e = Edge(e.from, e.to, "contains") /\ e.from \in K /\ e.to \in (DOMAIN g.nodes \cup M) \ LeavesIn(g.nodes)
    <3>1. PICK n \in placed : e = Edge(Leaf(n.id), Region(current, n.location), "contains")
      BY <1>15
    <3>2. e.from = Leaf(n.id) /\ e.to = Region(current, n.location) /\ e = Edge(e.from, e.to, "contains")
      BY <3>1 DEF Edge
    <3>3. QED
      BY <1>16, <3>2, RefFact DEF LeavesIn
  <2>3. ASSUME NEW e \in F2, NEW f \in F2, e.from = f.from
        PROVE  e = f
    <3>1. PICK n \in placed : e = Edge(Leaf(n.id), Region(current, n.location), "contains")
      BY <1>15
    <3>2. PICK m \in placed : f = Edge(Leaf(m.id), Region(current, m.location), "contains")
      BY <1>15
    <3>3. Leaf(n.id) = Leaf(m.id)
      BY <2>3, <3>1, <3>2 DEF Edge
    <3>4. n.id = m.id
      BY <3>3 DEF Leaf
    <3>5. n = m
      BY <1>2, <3>4
    <3>6. QED
      BY <3>1, <3>2, <3>5
  <2>4. QED
    BY <1>15, <1>17, <2>1, <2>2, <2>3, Leave
<1>19. Placed(g'.nodes, edges')
  <2>1. ASSUME NEW r \in LeavesIn(g.nodes)
        PROVE  (\E e \in edges' : e.from = r) <=> named(g'.nodes[r].location)
    <3>1. r \in DOMAIN g.nodes /\ g'.nodes[r] = g.nodes[r]
      BY <1>2, <2>1 DEF LeavesIn
    <3>2. (\E e \in edges : e.from = r) <=> named(g.nodes[r].location)
      BY <1>13, <2>1, Zenon DEF Placed, named
    <3>3. \A e \in F1 \cup F2 : e.from \in K \cup M
      BY <1>15, <1>16 DEF Edge
    <3>4. QED
      BY <1>2, <3>1, <3>2, <3>3
  <2>2. ASSUME NEW r \in K
        PROVE  (\E e \in edges' : e.from = r) <=> named(g'.nodes[r].location)
    <3>1. PICK n \in nodes : r = Leaf(n.id)
      BY <2>2 DEF K
    <3>2. g'.nodes[r] = n
      BY <1>2, <3>1
    <3>3. ASSUME NEW e \in edges', e.from = r PROVE named(n.location)
      <4>1. e \notin edges
        BY <1>2, <1>13, <2>2, <3>3 DEF Tree
      <4>2. e \notin F1
        BY <1>6, <1>15, <2>2, <3>3
      <4>3. PICK m \in placed : e = Edge(Leaf(m.id), Region(current, m.location), "contains")
        BY <1>2, <1>15, <4>1, <4>2
      <4>4. Leaf(m.id) = Leaf(n.id)
        BY <3>1, <3>3, <4>3 DEF Edge
      <4>5. m.id = n.id
        BY <4>4 DEF Leaf
      <4>6. QED
        BY <1>2, <4>3, <4>5
    <3>4. ASSUME named(n.location) PROVE \E e \in edges' : e.from = r
      <4>1. Edge(Leaf(n.id), Region(current, n.location), "contains") \in F2
        BY <1>15, <3>4
      <4>2. QED
        BY <1>2, <3>1, <4>1 DEF Edge
    <3>5. QED
      BY <3>2, <3>3, <3>4
  <2>3. \A r \in LeavesIn(g'.nodes) : (\E e \in edges' : e.from = r) <=> named(g'.nodes[r].location)
    BY <1>2, <2>1, <2>2
  <2>4. QED
    BY <2>3, Zenon DEF Placed, named
<1>20. Building'
  <2>1. Tree(DOMAIN g'.nodes, LeavesIn(g'.nodes), edges', Top')
    <3>1. DOMAIN g'.nodes = DOMAIN g.nodes \cup M \cup K
      BY <1>2
    <3>2. QED
      BY <1>2, <1>3, <1>18, <3>1
  <2>2. QED
    BY <1>2, <1>4, <1>19, <2>1 DEF Building
<1>21. Settled'
  <2> SUFFICES ASSUME ~Single, moves = 0 PROVE Settled'
    BY <1>1, <1>3 DEF Settled
  <2> DEFINE root == Group(scope.id)
  <2>1. phase # "failed" /\ DOMAIN stack = {} /\ DOMAIN stack' = {}
    BY <1>1, <1>3, <1>4
  <2>2. /\ root \in DOMAIN g.nodes
        /\ \A m \in DOMAIN g.nodes : \A x \in Children(m) \ {root} : x \in DOMAIN g.nodes /\ Edge(x, m, "contains") \in edges
        /\ \A e \in edges : e.from \in DOMAIN world.in \ {root} => world.in[e.from] = e.to
    BY <2>1 DEF IInv, Settled
  <2>3. \A m : Children(m)' = Children(m)
    BY <1>3 DEF Children
  <2>4. world.in = [x \in DOMAIN world.in |-> Group(world.in[x][2])]
    BY WorldFact DEF IInv, Inputs
  <2>5. \A r \in K \cup M : Children(r) = {}
    <3>1. \A x \in DOMAIN world.in : world.in[x][1] = "group"
      BY <2>4, RefFact
    <3>2. QED
      BY <1>6, <3>1 DEF Children
  <2>6. \A r \in K \cup M : r \notin DOMAIN world.in
    <3>1. \A x \in DOMAIN world.in : x = Group(x[2]) \/ x = Subscription(x[2])
      BY WorldFact DEF IInv, Inputs
    <3>2. \A x \in DOMAIN world.in : x[1] = "group" \/ x[1] = "subscription"
      BY <3>1, RefFact
    <3>3. QED
      BY <1>6, <3>2
  <2>7. \A e \in F1 \cup F2 : e.from \in K \cup M
    BY <1>15, <1>16 DEF Edge
  <2>8. \A m \in DOMAIN g'.nodes : \A x \in Children(m) \ {root} : x \in DOMAIN g'.nodes /\ Edge(x, m, "contains") \in edges'
    BY <1>2, <2>2, <2>5
  <2>9. \A e \in edges' : e.from \in DOMAIN world.in \ {root} => world.in[e.from] = e.to
    BY <1>2, <2>2, <2>6, <2>7
  <2>10. root \in DOMAIN g'.nodes /\ root' = root /\ world' = world
    BY <1>2, <1>3, <2>2
  <2>11. QED
    BY <2>1, <2>3, <2>8, <2>9, <2>10 DEF Settled
<1>22. Shaped'
  <2>1. /\ sizer = [loaded |-> sizer.loaded, byRegion |-> sizer.byRegion, byName |-> sizer.byName]
        /\ DOMAIN sizer.byRegion = sizer.loaded /\ sizer.loaded \subseteq Given \cup {current}
    BY <1>1 DEF IInv, Shaped
  <2>2. ASSUME NEW s \in sizer.loaded
        PROVE  /\ wantVM /\ s \in Subscriptions
               /\ sizer.byRegion[s] = UNION {{<<r, k.name>> : r \in LocationsOf(k)} : k \in OfferedTo(s)}
               /\ Names(s) \subseteq DOMAIN sizer.byName
               /\ s \in Given => \A m \in MachinesOf(s) :
                    Leaf(m.id) \in DOMAIN g.nodes /\ Text(m, "vmSize") \in Names(s)
                      => "vcpu_count" \in DOMAIN g.nodes[Leaf(m.id)].attrs
    BY DEF IInv, Shaped
  <2>3. \A s : \A m \in MachinesOf(s) : m \in RowsOf(s) /\ m.type = "vm"
    BY DEF MachinesOf
  <2>4. ASSUME NEW s \in sizer.loaded, NEW m \in MachinesOf(s),
               Leaf(m.id) \in K, Text(m, "vmSize") \in Names(s)
        PROVE  "vcpu_count" \in DOMAIN g'.nodes[Leaf(m.id)].attrs
    <3>1. PICK n \in nodes : Leaf(m.id) = Leaf(n.id)
      BY <2>4 DEF K
    <3>2. g'.nodes[Leaf(m.id)] = n /\ m.id = n.id
      BY <1>2, <3>1 DEF Leaf
    <3>3. n \in NodesOf(rows)
      BY DEF nodes
    <3>4. PICK row \in RowsOf(current) : \E o \in NormalizeResource(row) :
             row.id # "" /\ n = Hydrated(o, row) /\ n.id = row.id
      BY <1>4, <3>3, NewNode, Zenon
    <3>5. PICK o \in NormalizeResource(row) : row.id # "" /\ n = Hydrated(o, row) /\ n.id = row.id
      BY <3>4, Zenon
    <3>6. row = m
      <4>1. row.id = m.id
        BY <3>2, <3>5, Zenon
      <4>2. IsWorld(world) /\ s \in Subscriptions /\ m \in RowsOf(s)
        BY <2>2, <2>3, <2>4 DEF IInv, Inputs
      <4>3. OneRow(row, m)
        BY <1>4, <4>2, RowFact
      <4>4. QED
        BY <3>5, <4>1, <4>3, Zenon DEF OneRow
    <3>7. row.type = "vm"
      BY <2>3, <3>6
    <3>8. o.kind = "instance" /\ o.attrs["vm_size"] = Text(row, "vmSize")
      BY <3>7, NodeFact, Zenon
    <3>9. o.attrs["vm_size"] \in DOMAIN sizer.byName /\ wantVM
      BY <2>2, <2>4, <3>6, <3>8
    <3>10. o = [id |-> o.id, kind |-> o.kind, asset |-> o.asset, project |-> o.project,
                location |-> o.location, attrs |-> o.attrs]
      BY NodeFact, Zenon
    <3>11. n = Hydrated(o, row)
      BY <3>5, Zenon
    <3>12. "vcpu_count" \in DOMAIN n.attrs
      BY <3>8, <3>9, <3>10, <3>11, HydratedFact
    <3>13. QED
      BY <3>2, <3>12
  <2>5. ASSUME NEW s \in sizer.loaded, NEW m \in MachinesOf(s), Leaf(m.id) \in DOMAIN g.nodes
        PROVE  s \in Given
    <3>1. s # current
      <4>1. ASSUME s = current PROVE FALSE
        <5>1. m \in RowsOf(current)
          BY <2>3, <4>1
        <5>2. Leaf(m.id) \notin DOMAIN g.nodes
          BY <1>4, <1>5, <5>1, FreshLeaf
        <5>3. QED
          BY <2>5, <5>2
      <4>2. QED
        BY <4>1
    <3>2. QED
      BY <2>1, <3>1
  <2>6. ASSUME NEW s \in sizer.loaded, NEW m \in MachinesOf(s),
               Leaf(m.id) \in DOMAIN g'.nodes, Text(m, "vmSize") \in Names(s)
        PROVE  "vcpu_count" \in DOMAIN g'.nodes[Leaf(m.id)].attrs
    <3>1. CASE Leaf(m.id) \in DOMAIN g.nodes
      BY <1>2, <2>2, <2>5, <2>6, <3>1
    <3>2. CASE Leaf(m.id) \in K
      BY <2>4, <2>6, <3>2
    <3>3. Leaf(m.id) \notin M
      BY <1>6, RefFact
    <3>4. QED
      BY <1>2, <2>6, <3>1, <3>2, <3>3
  <2>7. phase' # "list" /\ regions' = {} /\ sizer' = sizer /\ sizer.loaded \subseteq Given'
    BY <1>1, <1>3, <1>4, <1>5, <2>1
  <2>8. QED
    BY <1>3, <1>8, <2>1, <2>2, <2>6, <2>7 DEF Shaped
<1>23. QED
  BY <1>7, <1>9, <1>10, <1>11, <1>12, <1>20, <1>21, <1>22 DEF IInv

-----------------------------------------------------------------------------
(* The theorems *)

LEMMA StutterStep ==
  ASSUME IInv, UNCHANGED vars
  PROVE  IInv'
<1>1. /\ UNCHANGED <<world, scope, wantVM, moves, phase, stack, visited, todo, current>>
      /\ UNCHANGED <<page, seen, rows, regions, listed, sizer, statuses, g, edges, clients>>
  BY DEF vars, input, walk, query, shapes
<1>2. /\ Single' = Single /\ Subscriptions' = Subscriptions /\ Top' = Top
      /\ Sealed' = Sealed /\ Asking' = Asking
  BY <1>1 DEF Single, Subscriptions, Top, Sealed, Asking
<1>3. Given' = Given
  BY <1>1, <1>2 DEF Given
<1>4. \A s : /\ RowsOf(s)' = RowsOf(s) /\ MachinesOf(s)' = MachinesOf(s)
             /\ OfferedTo(s)' = OfferedTo(s) /\ Names(s)' = Names(s)
  BY <1>1, RowsKept
<1>5. /\ \A m : Children(m)' = Children(m)
      /\ \A s, r : Offered(s, r)' = Offered(s, r)
      /\ MachineRegions' = MachineRegions /\ Pending' = Pending
      /\ Frames(DOMAIN g.nodes)' = Frames(DOMAIN g.nodes)
  <2>1. MachineRegions' = MachineRegions
    BY <1>1, Zenon DEF MachineRegions
  <2>2. Frames(DOMAIN g.nodes)' = Frames(DOMAIN g.nodes)
    BY <1>1, <1>2 DEF Frames
  <2>3. QED
    BY <1>1, <2>1, <2>2 DEF Children, Offered, Pending, Here
<1>6. Inputs' /\ Books'
  BY <1>1, <1>2 DEF IInv, Inputs, Books
<1>7. Content'
  BY <1>1, <1>2, <1>3, <1>4 DEF IInv, Content
<1>8. Building' /\ Walking'
  BY <1>1, <1>2, <1>5 DEF IInv, Building, Walking
<1>9. Settled'
  BY <1>1, <1>2, <1>5 DEF IInv, Settled
<1>10. Reading'
  <2>1. rows' = Asked(UNION {world.pages[current][i].rows : i \in 1..(page - 1)})' <=>
        rows = Asked(UNION {world.pages[current][i].rows : i \in 1..(page - 1)})
    BY <1>1, <1>2 DEF Asked
  <2>2. RowsOf(current)' = RowsOf(current)
    BY <1>1, <1>2 DEF RowsOf, Asked, RowsIn
  <2>3. QED
    BY <1>1, <2>1, <2>2 DEF IInv, Reading
<1>11. Shaped'
  BY <1>1, <1>2, <1>3, <1>4, <1>5 DEF IInv, Shaped
<1>12. QED
  BY <1>6, <1>7, <1>8, <1>9, <1>10, <1>11 DEF IInv

LEMMA InvType == ASSUME IInv PROVE TypeOK
<1>1. world.in \in [DOMAIN world.in -> {Group(m) : m \in {x[2] : x \in {world.in[y] : y \in DOMAIN world.in}}}]
  <2>1. world.in = [x \in DOMAIN world.in |-> Group(world.in[x][2])]
    BY WorldFact DEF IInv, Inputs
  <2> DEFINE in == world.in
             M == {x[2] : x \in {in[y] : y \in DOMAIN in}}
  <2>2. \A x \in DOMAIN in : in[x][2] \in M
    OBVIOUS
  <2> HIDE DEF M
  <2>3. \A x \in DOMAIN in : Group(in[x][2]) \in {Group(m) : m \in M}
    BY <2>2
  <2> HIDE DEF in
  <2>4. in = [x \in DOMAIN in |-> Group(in[x][2])]
    BY <2>1 DEF in
  <2>5. in \in [DOMAIN in -> {Group(m) : m \in M}]
    BY <2>3, <2>4
  <2>6. QED
    BY <2>5 DEF in, M
<1>2. /\ moves \in 0..MaxMoves
      /\ phase \in {"walk", "next", "query", "shapes", "list", "rows", "seal", "enrich", "done", "failed"}
  BY DEF IInv, Inputs
<1>3. /\ todo \subseteq Subscriptions /\ current \in Subscriptions \cup {None}
      /\ \A s \in DOMAIN statuses : statuses[s] \in {"scanned", "no_resources", "unreachable"}
  BY DEF IInv, Books
<1>4. page \in Nat /\ seen \subseteq Nat
  BY DEF IInv, Reading
<1>5. sizer.loaded \subseteq Subscriptions
  BY DEF IInv, Shaped
<1>6. g.frozen <=> Sealed
  BY DEF IInv, Building, Bare
<1>7. \A s \in clients : Single \/ (s \in DOMAIN statuses /\ statuses[s] = "scanned")
  BY DEF IInv, Content
<1>8. QED
  BY <1>1, <1>2, <1>3, <1>4, <1>5, <1>6, <1>7 DEF TypeOK

LEMMA InvContainer == ASSUME IInv PROVE OneContainer
<1> SUFFICES ASSUME Sealed PROVE OneContainer
  BY DEF OneContainer
<1> DEFINE N == DOMAIN g.nodes
           named(l) == l # ""
<1>1. /\ Tree(N, Leaves, edges, Top) /\ DOMAIN g.out = edges /\ g.dangling = 0
      /\ \A r \in Leaves : (\E e \in edges : e.from = r) <=> named(g.nodes[r].location)
  <2>1. Leaves = LeavesIn(g.nodes)
    BY DEF Leaves, LeavesIn
  <2>2. Placed(g.nodes, edges) /\ Tree(N, LeavesIn(g.nodes), edges, Top)
        /\ DOMAIN g.out = edges /\ g.dangling = 0
    BY DEF IInv, Building
  <2>3. QED
    BY <2>1, <2>2, Zenon DEF Placed, named
<1> HIDE DEF named
<1>2. \A e \in edges : /\ e.kind = "contains" /\ e.from \in N \ {Top} /\ e.to \in N \ Leaves
  BY <1>1 DEF Tree, Edge
<1>3. \A r : Up(r) = {e.to : e \in {e \in edges : e.from = r}}
  BY <1>1, <1>2 DEF Up
<1>4. \A e \in edges : Up(e.from) = {e.to}
  BY <1>1, <1>3 DEF Tree
<1>5. \A r : (\A e \in edges : e.from # r) => Up(r) = {}
  BY <1>3
<1>6. ASSUME NEW r \in N
      PROVE  IF r = Top \/ (r \in Leaves /\ ~named(g.nodes[r].location)) THEN Up(r) = {}
             ELSE Cardinality(Up(r)) = 1 /\ Up(r) \subseteq N \ Leaves
  <2>1. CASE r = Top \/ (r \in Leaves /\ ~named(g.nodes[r].location))
    BY <1>1, <1>2, <1>5, <2>1
  <2>2. CASE ~(r = Top \/ (r \in Leaves /\ ~named(g.nodes[r].location)))
    <3>1. PICK e \in edges : e.from = r
      BY <1>1, <2>2 DEF Tree
    <3>2. Up(r) = {e.to} /\ e.to \in N \ Leaves
      BY <1>2, <1>4, <3>1
    <3>3. Cardinality({e.to}) = 1
      BY FS_Singleton
    <3>4. QED
      BY <2>2, <3>2, <3>3
  <2>3. QED
    BY <2>1, <2>2
<1>7. ASSUME NEW R \in SUBSET Hung, R # {}
      PROVE  \E r \in R : Up(r) \cap R = {}
  <2>1. PICK r \in R : \A e \in edges : e.from = r => e.to \notin R
    BY <1>1, <1>7 DEF Tree, Hung
  <2>2. QED
    BY <1>3, <2>1
<1>8. ASSUME ~Single, moves = 0
      PROVE  /\ Group(scope.id) \in N
             /\ \A m \in N : \A x \in Children(m) \ {Group(scope.id)} : x \in N /\ Up(x) = {m}
  <2>1. stack = <<>> /\ phase # "failed"
    BY DEF Sealed, IInv, Walking
  <2>2. /\ Group(scope.id) \in N
        /\ \A m \in N : \A x \in Children(m) \ {Group(scope.id)} : x \in N /\ Edge(x, m, "contains") \in edges
    <3>1. DOMAIN stack = {}
      BY <2>1
    <3>2. QED
      BY <1>8, <2>1, <3>1 DEF IInv, Settled
  <2>3. \A x, m : Edge(x, m, "contains").from = x /\ Edge(x, m, "contains").to = m
    BY DEF Edge
  <2>4. QED
    BY <1>4, <2>2, <2>3
<1>9. /\ g.dangling = 0
      /\ \A r \in N :
           IF r = Top \/ (r \in Leaves /\ g.nodes[r].location = "") THEN Up(r) = {}
           ELSE Cardinality(Up(r)) = 1 /\ Up(r) \subseteq N \ Leaves
  BY ONLY <1>1, <1>6, Zenon DEF named
<1> HIDE DEF N
<1>10. OneContainer <=>
         /\ /\ g.dangling = 0
            /\ \A r \in N :
                 IF r = Top \/ (r \in Leaves /\ g.nodes[r].location = "") THEN Up(r) = {}
                 ELSE Cardinality(Up(r)) = 1 /\ Up(r) \subseteq N \ Leaves
         /\ \A R \in SUBSET Hung : R # {} => \E r \in R : Up(r) \cap R = {}
         /\ ~Single /\ moves = 0 =>
              /\ Group(scope.id) \in N
              /\ \A m \in N : \A x \in Children(m) \ {Group(scope.id)} : x \in N /\ Up(x) = {m}
  BY Zenon DEF OneContainer, N
<1>11. QED
  BY ONLY <1>7, <1>8, <1>9, <1>10, Zenon

LEMMA InvShapes == ASSUME IInv PROVE ShapesFromWholeLoads
<1>1. /\ DOMAIN sizer.byRegion = sizer.loaded
      /\ sizer.loaded \subseteq Given \cup {current : x \in {phase} \cap {"rows"}}
      /\ \A s \in sizer.loaded :
           /\ wantVM
           /\ sizer.byRegion[s] = UNION {{<<r, k.name>> : r \in LocationsOf(k)} : k \in OfferedTo(s)}
      /\ \A s \in sizer.loaded \cap Given : \A m \in MachinesOf(s) :
           Leaf(m.id) \in DOMAIN g.nodes /\ Text(m, "vmSize") \in Names(s)
             => "vcpu_count" \in DOMAIN g.nodes[Leaf(m.id)].attrs
  BY DEF IInv, Shaped
<1>2. ASSUME NEW s \in sizer.loaded, NEW m \in MachinesOf(s), Leaf(m.id) \in DOMAIN g.nodes
      PROVE  s \in Given
  <2> SUFFICES ASSUME phase = "rows", s = current, s \notin Given PROVE FALSE
    BY <1>1
  <2>1. m \in RowsOf(current) /\ rows = RowsOf(current) /\ current \in Subscriptions \ Given
    BY DEF MachinesOf, IInv, Books, Asking, Reading
  <2>2. Leaf(m.id) \notin DOMAIN g.nodes
    BY <2>1, FreshLeaf
  <2>3. QED
    BY <1>2, <2>2
<1>3. ASSUME NEW s \in sizer.loaded, NEW m \in MachinesOf(s),
             Leaf(m.id) \in Leaves, Text(m, "vmSize") \in Names(s)
      PROVE  "vcpu_count" \in DOMAIN g.nodes[Leaf(m.id)].attrs
  <2>1. Leaf(m.id) \in DOMAIN g.nodes
    BY <1>3 DEF Leaves
  <2>2. QED
    BY <1>1, <1>2, <1>3, <2>1
<1>4. QED
  BY <1>1, <1>3 DEF ShapesFromWholeLoads, Names

\* For every tenant, every answer and every move of an administrator during the walk,
\* what has been built is a tree over the subscriptions found, and each of them is
\* still to be asked, being asked or told of (hierarchy.go walkManagementGroup,
\* provider.go ingestSubscriptions).
THEOREM Invariance == Spec => []IInv
<1>1. Init => IInv
  BY InitInv
<1>2. ASSUME IInv, [Next]_vars
      PROVE  IInv'
  <2>1. ASSUME NEW c \in Pending, Visit(c) \/ VisitFails(c) \/ Discover(c) \/ PassOver(c)
        PROVE  IInv'
    BY <1>2, <2>1, VisitStep, VisitFailsStep, DiscoverStep, PassOverStep
  <2>2. CASE Return
    BY <1>2, <2>2, ReturnStep
  <2>3. CASE Ask
    BY <1>2, <2>3, AskStep
  <2>4. CASE ReadPage
    BY <1>2, <2>4, ReadPageStep
  <2>5. CASE PageFails
    BY <1>2, <2>5, PageFailsStep
  <2>6. CASE NoShapes
    BY <1>2, <2>6, NoShapesStep
  <2>7. CASE LoadShapes
    BY <1>2, <2>7, LoadShapesStep
  <2>8. ASSUME NEW r \in regions, ListRegion(r) PROVE IInv'
    BY <1>2, <2>8, ListRegionStep
  <2>9. CASE ListRegionFails
    BY <1>2, <2>9, ListRegionFailsStep
  <2>10. CASE AddRows
    BY <1>2, <2>10, AddRowsStep
  <2>11. CASE AllAsked
    BY <1>2, <2>11, AllAskedStep
  <2>12. CASE Seal
    BY <1>2, <2>12, SealStep
  <2>13. CASE Enrich
    BY <1>2, <2>13, EnrichStep
  <2>14. CASE Move
    BY <1>2, <2>14, MoveStep
  <2>15. CASE UNCHANGED vars
    BY <1>2, <2>15, StutterStep
  <2>16. QED
    BY <1>2, <2>1, <2>2, <2>3, <2>4, <2>5, <2>6, <2>7, <2>8, <2>9, <2>10, <2>11, <2>12, <2>13,
       <2>14, <2>15, Zenon DEF Next, Provider, Terminated
<1>3. QED
  BY <1>1, <1>2, PTL DEF Spec

\* Every variable keeps its type, and only subscriptions whose rows are on the graph
\* are asked for metrics (provider.go Ingest, EnrichMetrics).
THEOREM TypeCorrect == Spec => []TypeOK
<1>1. IInv => TypeOK
  BY InvType
<1>2. QED
  BY <1>1, Invariance, PTL

\* However many groups there are and whatever is moved while they are walked, the
\* sealed graph is one tree under the scope with no edge left dangling, and the
\* tenant's own if nothing was moved (hierarchy.go walkManagementGroup, provider.go
\* addResourceRows).
THEOREM OneTree == Spec => []OneContainer
<1>1. IInv => OneContainer
  BY InvContainer
<1>2. QED
  BY <1>1, Invariance, PTL

\* Whatever listing fails, the sizes of a subscription are those of all regions of its
\* machines or none, and each machine on the graph that is of a size loaded for its
\* subscription has its shape (sizer.go LoadSubscription, provider.go addResourceRows).
THEOREM WholeLoads == Spec => []ShapesFromWholeLoads
<1>1. IInv => ShapesFromWholeLoads
  BY InvShapes
<1>2. QED
  BY <1>1, Invariance, PTL

-----------------------------------------------------------------------------
(* The ingestion of owners *)

\* Whom the ingestion has found are those still to be asked, being asked or told of,
\* and nothing is shown while it looks for them.
Met ==
  /\ ~Single /\ phase # "failed" => Found = todo \cup DOMAIN statuses \cup IF Asking THEN {current} ELSE {}
  /\ phase = "walk" => Visible = {}

LEMMA InvMet == ASSUME IInv PROVE Met
<1>0. phase = "walk" => Visible = {}
  BY WalkFact DEF Visible, Leaves, LeavesIn
<1> SUFFICES ASSUME ~Single, phase # "failed"
             PROVE  Found = todo \cup DOMAIN statuses \cup IF Asking THEN {current} ELSE {}
  BY <1>0 DEF Met
<1> DEFINE R == {r \in DOMAIN g.nodes : r[1] = "subscription"}
<1>1. Found = {r[2] : r \in R}
  BY DEF Found
<1>2. \A s : Subscription(s) \in DOMAIN g.nodes <=>
               s \in todo \cup DOMAIN statuses \cup IF Asking THEN {current} ELSE {}
  BY DEF IInv, Books
<1>3. ASSUME NEW r \in R PROVE r = Subscription(r[2])
  <2>1. r \notin {Tenant(r[2]), Group(r[2]), Leaf(r[2])}
    BY RefFact
  <2>2. QED
    BY <2>1 DEF IInv, Content
<1>4. \A s : Subscription(s) \in DOMAIN g.nodes => Subscription(s) \in R /\ Subscription(s)[2] = s
  BY RefFact
<1>5. \A r \in R : r \in DOMAIN g.nodes
  OBVIOUS
<1> HIDE DEF R
<1>6. QED
  BY <1>1, <1>2, <1>3, <1>4, <1>5

LEMMA HoldingsKept ==
  ASSUME UNCHANGED scope, world'.pages = world.pages, world'.skus = world.skus
  PROVE  Holdings' = Holdings
<1>1. \A s : RowsOf(s)' = RowsOf(s)
  BY RowsKept
<1>2. Subscriptions' = Subscriptions
  BY DEF Subscriptions
<1>3. QED
  BY <1>1, <1>2 DEF Holdings

\* A step that nothing is told or shown in.
LEMMA Still ==
  ASSUME Met, Met', UNCHANGED <<scope, statuses>>, world'.pages = world.pages, world'.skus = world.skus,
         LeavesIn(g'.nodes) = LeavesIn(g.nodes),
         phase # "failed", phase' # "failed", Sealed' = Sealed,
         Single => (phase' \in {"seal", "enrich", "done"} <=> phase \in {"seal", "enrich", "done"}),
         ~Single => todo' \cup (IF Asking' THEN {current'} ELSE {}) = todo \cup (IF Asking THEN {current} ELSE {})
  PROVE  UNCHANGED Ingestion!absVars
<1>1. Single' = Single
  BY DEF Single
<1>2. Holdings' = Holdings
  BY HoldingsKept
<1>3. Found' = Found
  <2>1. CASE Single
    BY <1>1, <2>1 DEF Found
  <2>2. CASE ~Single
    <3> DEFINE A == IF Asking THEN {current} ELSE {}
    <3>1. Found = todo \cup DOMAIN statuses \cup A
      BY <2>2 DEF Met
    <3>2. Found' = todo' \cup DOMAIN statuses' \cup A'
      BY <1>1, <2>2 DEF Met
    <3>3. todo' \cup A' = todo \cup A /\ statuses' = statuses
      BY <2>2, Zenon DEF A
    <3> HIDE DEF A
    <3>4. QED
      BY <3>1, <3>2, <3>3
  <2>3. QED
    BY <2>1, <2>2
<1>4. Answers' = Answers
  BY <1>1 DEF Answers, Word
<1>5. Visible' = Visible
  BY DEF Visible, Leaves, LeavesIn
<1>6. Stage' = Stage
  BY DEF Stage
<1>7. QED
  BY <1>2, <1>3, <1>4, <1>5, <1>6 DEF Ingestion!absVars

LEMMA EverybodyFact == ASSUME IInv PROVE Subscriptions \subseteq Everybody
  BY DEF IInv, Inputs, Subscriptions, Everybody

LEMMA NothingTold == ASSUME DOMAIN statuses = {}, ~Single \/ phase \notin {"seal", "enrich", "done"}
                     PROVE  Answers = <<>>
<1>1. CASE Single
  BY <1>1 DEF Answers
<1>2. CASE ~Single
  BY <1>2 DEF Answers
<1>3. QED
  BY <1>1, <1>2

LEMMA StartsReading == ASSUME Init PROVE Ingestion!AbsInit
<1>1. IInv
  BY InitInv
<1>2. Holdings = [s \in Everybody |-> Holdings[s]] /\ DOMAIN Holdings = Everybody
  BY DEF Holdings
<1>3. phase \in {"query", "walk"} /\ DOMAIN statuses = {}
  <2>1. phase = IF Single THEN "query" ELSE "walk"
    BY Zenon DEF Init
  <2>2. statuses = <<>>
    BY Zenon DEF Init
  <2>3. QED
    BY ONLY <2>1, <2>2
<1>4. Answers = <<>>
  BY <1>3, NothingTold
<1>5. Leaves = {}
  <2>1. Given = {}
    BY <1>3 DEF Given
  <2>2. LeavesIn(g.nodes) = {}
    BY <1>1, <2>1 DEF IInv, Content
  <2>3. QED
    BY <2>2 DEF Leaves, LeavesIn
<1>6. Visible = {} /\ Stage = "reading"
  BY <1>3, <1>5 DEF Visible, Stage, Sealed
<1>7. Found \subseteq Everybody
  <2>1. Met
    BY <1>1, InvMet
  <2>2. CASE Single
    BY <1>1, <1>3, <2>2, EverybodyFact DEF Found, IInv, Inputs
  <2>3. CASE ~Single
    <3>1. Found = todo \cup DOMAIN statuses \cup IF Asking THEN {current} ELSE {}
      BY <1>3, <2>1, <2>3 DEF Met
    <3>2. QED
      BY <1>1, <3>1, EverybodyFact DEF IInv, Books
  <2>4. QED
    BY <2>2, <2>3
<1>8. QED
  BY <1>2, <1>4, <1>6, <1>7 DEF Ingestion!AbsInit

LEMMA DiscoverMeets ==
  ASSUME IInv, IInv', Met, Met', NEW c, Discover(c)
  PROVE  Ingestion!Meet
<1>1. /\ phase = "walk" /\ phase' = "walk" /\ c \in Pending /\ c[1] = "subscription" /\ ~Known(c)
      /\ todo' = todo \cup {c[2]}
      /\ UNCHANGED <<world, scope, statuses>>
  BY DEF Discover, input
<1>2. ~Single /\ ~Single' /\ ~Asking /\ ~Asking' /\ DOMAIN statuses = {} /\ ~Sealed /\ ~Sealed'
  <2>1. ~Single /\ DOMAIN statuses = {}
    BY <1>1, WalkFact
  <2>2. QED
    BY <1>1, <2>1 DEF Single, Asking, Sealed
<1>3. Found = todo /\ Found' = todo'
  BY <1>1, <1>2 DEF Met
<1>4. c[2] \notin todo
  <2>1. c \notin DOMAIN g.nodes
    BY <1>1 DEF Known
  <2>2. c = Subscription(c[2])
    BY <1>1, HereFact, RefFact
  <2>3. QED
    BY <1>1, <1>2, <2>1, <2>2 DEF IInv, Books
<1>5. c[2] \in Everybody
  BY <1>1, EverybodyFact DEF IInv, Books, Subscriptions
<1>6. Answers = <<>> /\ Answers' = Answers /\ Stage = "reading" /\ Stage' = Stage /\ Holdings' = Holdings
  <2>1. Answers = <<>>
    BY <1>2, NothingTold
  <2>2. Answers' = Answers
    BY <1>1, <1>2 DEF Answers, Word
  <2>3. QED
    BY <1>1, <1>2, <2>1, <2>2, HoldingsKept DEF Stage
<1>7. Visible' = Visible
  BY <1>1 DEF Met
<1>8. QED
  BY <1>1, <1>3, <1>4, <1>5, <1>6, <1>7 DEF Ingestion!Meet

LEMMA FailsUntold ==
  ASSUME IInv, Answers = <<>>, phase \notin {"seal", "enrich", "done", "failed"}, phase' = "failed",
         UNCHANGED <<scope, statuses>>, world'.pages = world.pages, world'.skus = world.skus,
         Visible' = Visible
  PROVE  Ingestion!Fail
<1>1. Stage = "reading" /\ Stage' = "failed" /\ Found' = {} /\ Holdings' = Holdings
  BY HoldingsKept DEF Stage, Sealed, Found
<1>2. Single' = Single
  BY DEF Single
<1>3. Answers' = Answers
  BY <1>2 DEF Answers, Word
<1>4. QED
  BY <1>1, <1>3 DEF Ingestion!Fail

LEMMA SameTables ==
  \A s, word, t : Ingestion!Over(Ingestion!Only(s, word), t) = Over(Only(s, word), t)
  BY DEF Ingestion!Over, Ingestion!Only, Over, Only

\* What is said of a subscription is said once.
LEMMA Says ==
  ASSUME ~Single, UNCHANGED scope, NEW s, NEW word, statuses' = Status(s, word)
  PROVE  Answers' = Over(Only(s, Word(word)), Answers)
<1>1. Tells(statuses', s, word)
  BY StatusFact
<1> DEFINE O == Over(Only(s, Word(word)), Answers)
<1>2. Answers = [t \in DOMAIN statuses |-> Word(statuses[t])]
  BY DEF Answers
<1>3. Answers' = [t \in DOMAIN statuses' |-> Word(statuses'[t])]
  BY DEF Answers, Single
<1>4. /\ O = [t \in DOMAIN statuses \cup {s} |-> O[t]]
      /\ O[s] = Word(word) /\ \A t \in DOMAIN statuses \ {s} : O[t] = Word(statuses[t])
  BY <1>2 DEF Over, Only
<1> HIDE DEF O
<1>5. \A t \in DOMAIN statuses \cup {s} : O[t] = Word(statuses'[t])
  BY <1>1, <1>4 DEF Tells
<1>6. QED
  BY <1>1, <1>3, <1>4, <1>5 DEF O, Tells

LEMMA PageFailsSays ==
  ASSUME IInv, IInv', Met, Met', PageFails
  PROVE  Ingestion!AbsNext
<1>1. /\ phase = "query" /\ UNCHANGED <<world, scope, todo, current, g>>
      /\ IF Single THEN phase' = "failed" /\ statuses' = statuses
         ELSE phase' = "next" /\ statuses' = Status(current, "unreachable")
  BY DEF PageFails, input
<1>2. Visible' = Visible
  BY <1>1 DEF Visible, Leaves
<1>3. CASE Single
  <2>1. DOMAIN statuses = {}
    BY <1>3 DEF IInv, Books
  <2>2. Answers = <<>>
    BY <1>1, <2>1, NothingTold
  <2>3. Ingestion!Fail
    BY <1>1, <1>2, <1>3, <2>2, FailsUntold
  <2>4. QED
    BY <2>3 DEF Ingestion!AbsNext
<1>4. CASE ~Single
  <2>1. Single' = Single /\ Asking /\ ~Asking' /\ current \in Subscriptions /\ current \notin todo \cup DOMAIN statuses
    BY <1>1 DEF Single, Asking, IInv, Books
  <2>2. Found = todo \cup DOMAIN statuses \cup {current}
    BY <1>1, <1>4, <2>1 DEF Met
  <2>3. Found' = todo \cup DOMAIN statuses'
    <3>1. phase' = "next" /\ todo' = todo
      BY <1>1, <1>4
    <3>2. QED
      BY <1>4, <2>1, <3>1 DEF Met
  <2>4. DOMAIN statuses' = DOMAIN statuses \cup {current}
    BY <1>1, <1>4, StatusFact DEF Tells
  <2>5. Answers' = Over(Only(current, "unreachable"), Answers)
    <3>1. Answers' = Over(Only(current, Word("unreachable")), Answers)
      BY <1>1, <1>4, Says
    <3>2. QED
      BY <3>1 DEF Word
  <2>6. DOMAIN Answers = DOMAIN statuses
    BY <1>4 DEF Answers
  <2>7. Stage = "reading" /\ Stage' = Stage /\ Holdings' = Holdings /\ Found' = Found
    BY <1>1, <1>4, <2>2, <2>3, <2>4, HoldingsKept DEF Stage, Sealed
  <2>8. Ingestion!Miss(current) /\ current \in Everybody
    <3>1. current \in Found \ DOMAIN Answers /\ current \in Everybody
      BY <2>1, <2>2, <2>6, EverybodyFact
    <3>2. Answers' = Ingestion!Over(Ingestion!Only(current, "unreachable"), Answers)
      BY <2>5, SameTables
    <3>3. QED
      BY <1>2, <2>7, <3>1, <3>2 DEF Ingestion!Miss, Ingestion!Tell
  <2>9. QED
    BY <2>8 DEF Ingestion!AbsNext
<1>5. QED
  BY <1>3, <1>4

LEMMA SealPublishes ==
  ASSUME IInv, Met, Met', Seal
  PROVE  Ingestion!Publish
<1>1. /\ phase = "seal" /\ phase' = "enrich" /\ g' = Freeze(AddEdges(g, SetToBag(edges)))
      /\ UNCHANGED <<world, scope, todo, current, statuses>>
  BY DEF Seal, input
<1>2. Single' = Single /\ ~Asking /\ ~Asking' /\ ~Sealed /\ Sealed' /\ todo = {}
  BY <1>1 DEF Single, Asking, Sealed, IInv, Books
<1>3. g'.nodes = g.nodes
  BY <1>1 DEF Freeze, AddEdges
<1>4. Visible' = Visible
  BY <1>3 DEF Visible, Leaves
<1>5. Answers' = Answers
  BY <1>1, <1>2 DEF Answers, Word
<1>6. DOMAIN Answers = Found /\ Found' = Found
  <2>1. CASE Single
    <3>1. Answers = Only(scope.id, "answered")
      BY <1>1, <2>1 DEF Answers
    <3>2. Found = {scope.id} /\ Found' = {scope.id}
      BY <1>1, <1>2, <2>1 DEF Found
    <3>3. QED
      BY <3>1, <3>2 DEF Only
  <2>2. CASE ~Single
    <3>1. Found = DOMAIN statuses /\ Found' = DOMAIN statuses
      BY <1>1, <1>2, <2>2 DEF Met
    <3>2. DOMAIN Answers = DOMAIN statuses
      BY <2>2 DEF Answers
    <3>3. QED
      BY <3>1, <3>2
  <2>3. QED
    BY <2>1, <2>2
<1>7. Stage = "reading" /\ Stage' = "ready" /\ Holdings' = Holdings
  BY <1>1, <1>2, HoldingsKept DEF Stage
<1>8. QED
  BY <1>4, <1>5, <1>6, <1>7 DEF Ingestion!Publish

LEMMA AddRowsDelivers ==
  ASSUME IInv, IInv', Met, Met', AddRows
  PROVE  Ingestion!AbsNext
<1> DEFINE nodes == NodesOf(rows)
           K == {Leaf(n.id) : n \in nodes}
<1>1. /\ phase = "rows"
      /\ \/ Single /\ phase' = "seal" /\ statuses' = statuses
         \/ ~Single /\ phase' = "next" /\ statuses' = Status(current, IF rows = {} THEN "no_resources" ELSE "scanned")
      /\ UNCHANGED <<input, todo, current>>
  BY Zenon DEF AddRows
<1>2. /\ UNCHANGED <<world, scope>> /\ Single' = Single /\ Asking /\ ~Asking' /\ ~Sealed /\ ~Sealed'
      /\ phase' \in {"seal", "next"}
  BY <1>1 DEF input, Single, Asking, Sealed
<1>3. /\ current \in Subscriptions /\ rows = RowsOf(current) /\ current \notin todo \cup DOMAIN statuses
      /\ Single => current = scope.id
  BY <1>1, <1>2 DEF IInv, Books, Reading
<1>4. LeavesIn(g'.nodes) = LeavesIn(g.nodes) \cup K
  BY <1>1, Planted, Zenon
<1>5. {n.id : n \in nodes} = Holdings[current]
  <2> DEFINE given == UNION {NormalizeResource(row) : row \in RowsOf(current)}
  <2>1. Holdings[current] = {n.id : n \in given}
    BY <1>3, EverybodyFact DEF Holdings
  <2>2. ASSUME NEW n \in nodes PROVE \E m \in given : n.id = m.id
    <3>1. PICK row \in RowsOf(current) : \E m \in NormalizeResource(row) :
             row.id # "" /\ n = Hydrated(m, row) /\ n.id = row.id
             /\ n.id = m.id /\ n.kind = m.kind /\ n.project = m.project /\ n.location = m.location
      BY <1>3, NewNode, Zenon
    <3>2. \E m \in NormalizeResource(row) : n.id = m.id
      BY <3>1, Zenon
    <3>3. QED
      BY <3>2
  <2>3. ASSUME NEW m \in given PROVE \E n \in nodes : n.id = m.id
    <3>1. PICK row \in RowsOf(current) : m \in NormalizeResource(row)
      OBVIOUS
    <3>2. m = [id |-> m.id, kind |-> m.kind, asset |-> m.asset, project |-> m.project,
               location |-> m.location, attrs |-> m.attrs]
      BY <3>1, NodeFact, Zenon
    <3>3. Hydrated(m, row).id = m.id
      BY <3>2, HydratedFact
    <3>4. Hydrated(m, row) \in nodes
      <4> DEFINE S(o) == {Hydrated(n, o) : n \in NormalizeResource(o)}
      <4>1. Hydrated(m, row) \in S(row)
        BY <3>1
      <4>2. nodes = UNION {S(o) : o \in rows} /\ row \in rows
        BY <1>3, Zenon DEF NodesOf
      <4> HIDE DEF S
      <4>3. QED
        BY <4>1, <4>2
    <3>5. QED
      BY <3>3, <3>4
  <2> HIDE DEF nodes, given
  <2>4. QED
    BY <2>1, <2>2, <2>3
<1>6. Visible' = Visible \cup Holdings[current]
  <2>1. Visible = {r[2] : r \in LeavesIn(g.nodes)} /\ Visible' = {r[2] : r \in LeavesIn(g'.nodes)}
    BY DEF Visible, Leaves, LeavesIn
  <2>2. {r[2] : r \in K} = {n.id : n \in nodes}
    <3> HIDE DEF nodes
    <3>1. \A n \in nodes : Leaf(n.id) \in K /\ Leaf(n.id)[2] = n.id
      BY RefFact
    <3>2. \A r \in K : \E n \in nodes : r = Leaf(n.id)
      OBVIOUS
    <3> HIDE DEF K
    <3>3. QED
      BY <3>1, <3>2
  <2> HIDE DEF K, nodes
  <2>3. QED
    BY <1>4, <1>5, <2>1, <2>2
<1> HIDE DEF nodes, K
<1>7. Found' = Found /\ current \in Found \ DOMAIN Answers /\ Answers' = Over(Only(current, "answered"), Answers)
  <2>1. CASE Single
    <3>1. Found = {scope.id} /\ Found' = {scope.id}
      BY <1>1, <1>2, <2>1 DEF Found
    <3>2. Answers = <<>> /\ Answers' = Only(scope.id, "answered")
      BY <1>1, <1>2, <2>1 DEF Answers
    <3>3. Over(Only(scope.id, "answered"), <<>>) = Only(scope.id, "answered")
      BY DEF Over, Only
    <3>4. QED
      BY <1>3, <2>1, <3>1, <3>2, <3>3
  <2>2. CASE ~Single
    <3> DEFINE word == IF rows = {} THEN "no_resources" ELSE "scanned"
    <3>1. statuses' = Status(current, word) /\ todo' = todo /\ phase # "failed" /\ phase' # "failed"
      BY <1>1, <2>2
    <3>2. Word(word) = "answered"
      BY DEF Word
    <3> HIDE DEF word
    <3>3. Answers' = Over(Only(current, "answered"), Answers)
      BY <1>2, <2>2, <3>1, <3>2, Says
    <3>4. Found = todo \cup DOMAIN statuses \cup {current}
      BY <1>2, <2>2, <3>1 DEF Met
    <3>5. Found' = todo \cup DOMAIN statuses'
      BY <1>2, <2>2, <3>1 DEF Met
    <3>6. DOMAIN statuses' = DOMAIN statuses \cup {current}
      BY <3>1, StatusFact DEF Tells
    <3>7. DOMAIN Answers = DOMAIN statuses
      BY <2>2 DEF Answers
    <3>8. QED
      BY <1>3, <3>3, <3>4, <3>5, <3>6, <3>7
  <2>3. QED
    BY <2>1, <2>2
<1>8. Stage = "reading" /\ Stage' = Stage /\ Holdings' = Holdings
  BY <1>1, <1>2, HoldingsKept DEF Stage
<1>9. Ingestion!Deliver(current)
  <2>1. Answers' = Ingestion!Over(Ingestion!Only(current, "answered"), Answers)
    BY <1>7, SameTables
  <2>2. QED
    BY <1>6, <1>7, <1>8, <2>1 DEF Ingestion!Deliver, Ingestion!Tell
<1>10. current \in Everybody
  BY <1>3, EverybodyFact
<1>11. QED
  BY <1>9, <1>10 DEF Ingestion!AbsNext

\* The steps of the walk that meet nobody new.
LEMMA WalksOn ==
  ASSUME IInv, IInv', Met, Met', NEW c,
         Visit(c) \/ PassOver(c) \/ Return \/ Move
  PROVE  UNCHANGED Ingestion!absVars
<1>1. /\ phase = "walk" /\ phase' \in {"walk", "next"}
      /\ UNCHANGED <<scope, todo, current, statuses>>
      /\ world'.pages = world.pages /\ world'.skus = world.skus
  <2>1. CASE Visit(c) \/ PassOver(c) \/ Return
    BY <2>1 DEF Visit, PassOver, Return, input
  <2>2. CASE Move
    BY <2>2 DEF Move, IInv, Inputs, IsWorld
  <2>3. QED
    BY <2>1, <2>2
<1>2. ~Single /\ ~Asking /\ ~Asking' /\ Sealed' = Sealed
  BY <1>1, WalkFact DEF Asking, Sealed
<1>3. LeavesIn(g'.nodes) = LeavesIn(g.nodes)
  <2>1. CASE PassOver(c) \/ Return \/ Move
    BY <2>1 DEF PassOver, Return, Move
  <2>2. CASE Visit(c)
    <3>1. Visible = {} /\ Visible' = {}
      BY <1>1, <2>2 DEF Met, Visit
    <3>2. QED
      BY <3>1 DEF Visible, Leaves, LeavesIn
  <2>3. QED
    BY <2>1, <2>2
<1>4. QED
  BY <1>1, <1>2, <1>3, Still

\* The steps after it that tell nothing.
LEMMA ReadsOn ==
  ASSUME IInv, IInv', Met, Met', NEW r,
         Ask \/ ReadPage \/ NoShapes \/ LoadShapes \/ ListRegion(r) \/ ListRegionFails \/ AllAsked \/ Enrich
  PROVE  UNCHANGED Ingestion!absVars
<1>1. UNCHANGED <<input, statuses, g>>
  BY DEF Ask, ReadPage, NoShapes, LoadShapes, ListRegion, ListRegionFails, AllAsked, Enrich
<1>2. UNCHANGED <<world, scope, statuses, g>>
  BY <1>1 DEF input
<1>3. CASE Ask
  <2>1. phase = "next" /\ phase' = "query" /\ todo # {} /\ current' = Min(todo) /\ todo' = todo \ {current'}
    BY <1>3 DEF Ask
  <2>2. ~Single /\ ~Asking /\ Asking' /\ Sealed' = Sealed
    BY <2>1 DEF IInv, Books, Asking, Sealed
  <2>3. current' \in todo
    <3>1. todo \subseteq Nat
      BY WorldFact DEF IInv, Inputs, Books, Subscriptions
    <3>2. QED
      BY <2>1, <3>1, MinFact
  <2>4. QED
    BY <1>2, <2>1, <2>2, <2>3, Still
<1>4. CASE ReadPage \/ NoShapes \/ LoadShapes \/ ListRegion(r) \/ ListRegionFails
  <2>1. /\ phase \in {"query", "shapes", "list"} /\ phase' \in {"query", "shapes", "list", "rows"}
        /\ UNCHANGED <<todo, current>>
    BY <1>4 DEF ReadPage, NoShapes, LoadShapes, ListRegion, ListRegionFails
  <2>2. Asking /\ Asking' /\ Sealed' = Sealed
    BY <2>1 DEF Asking, Sealed
  <2>3. QED
    BY <1>2, <2>1, <2>2, Still
<1>5. CASE AllAsked
  <2>1. phase = "next" /\ phase' = "seal" /\ UNCHANGED <<todo, current>>
    BY <1>5 DEF AllAsked
  <2>2. ~Single /\ ~Asking /\ ~Asking' /\ Sealed' = Sealed
    BY <2>1 DEF IInv, Books, Asking, Sealed
  <2>3. QED
    BY <1>2, <2>1, <2>2, Still
<1>6. CASE Enrich
  <2>1. phase = "enrich" /\ phase' = "done" /\ UNCHANGED <<todo, current>>
    BY <1>6 DEF Enrich
  <2>2. ~Asking /\ ~Asking' /\ Sealed' = Sealed
    BY <2>1 DEF Asking, Sealed
  <2>3. QED
    BY <1>2, <2>1, <2>2, Still
<1>7. QED
  BY <1>3, <1>4, <1>5, <1>6

LEMMA VisitFailsFails ==
  ASSUME IInv, IInv', Met, Met', NEW c, VisitFails(c)
  PROVE  Ingestion!Fail
<1>1. phase = "walk" /\ phase' = "failed" /\ UNCHANGED <<world, scope, statuses>> /\ g' = NewGraph
  BY DEF VisitFails, input
<1>2. Answers = <<>>
  BY <1>1, WalkFact, NothingTold
<1>3. Visible = {} /\ Visible' = {}
  <2>1. Leaves' = {}
    BY <1>1, NewGraphFact DEF Leaves
  <2>2. QED
    BY <1>1, <2>1 DEF Met, Visible
<1>4. QED
  BY <1>1, <1>2, <1>3, FailsUntold

\* Whatever fails and whatever is moved, the ingestion finds subscriptions, then gives
\* each of them in full or says that it does not answer, once, and publishes when all
\* are told of; as a whole it fails only while it has told nothing: its graph is never
\* one that leaves out a subscription without a word (hierarchy.go
\* walkManagementGroup, provider.go ingestSubscriptions, Ingest).
THEOREM Refinement == Spec => Ingestion!AbsSafety
<1>1. Init => Ingestion!AbsInit
  BY StartsReading
<1>2. IInv => Met
  BY InvMet
<1>3. ASSUME IInv, IInv', Met, Met', [Next]_vars
      PROVE  [Ingestion!AbsNext]_(Ingestion!absVars)
  <2>1. ASSUME NEW c \in Pending, Visit(c) \/ VisitFails(c) \/ Discover(c) \/ PassOver(c)
        PROVE  [Ingestion!AbsNext]_(Ingestion!absVars)
    <3>1. CASE Visit(c) \/ PassOver(c)
      BY <1>3, <3>1, WalksOn
    <3>2. CASE VisitFails(c)
      BY <1>3, <3>2, VisitFailsFails DEF Ingestion!AbsNext
    <3>3. CASE Discover(c)
      BY <1>3, <3>3, DiscoverMeets DEF Ingestion!AbsNext
    <3>4. QED
      BY <2>1, <3>1, <3>2, <3>3
  <2>2. CASE Return \/ Move
    BY <1>3, <2>2, WalksOn
  <2>3. ASSUME NEW r \in regions, ListRegion(r)
        PROVE  [Ingestion!AbsNext]_(Ingestion!absVars)
    BY <1>3, <2>3, ReadsOn
  <2>4. CASE Ask \/ ReadPage \/ NoShapes \/ LoadShapes \/ ListRegionFails \/ AllAsked \/ Enrich
    BY <1>3, <2>4, ReadsOn
  <2>5. CASE PageFails
    BY <1>3, <2>5, PageFailsSays
  <2>6. CASE AddRows
    BY <1>3, <2>6, AddRowsDelivers
  <2>7. CASE Seal
    BY <1>3, <2>7, SealPublishes DEF Ingestion!AbsNext
  <2>8. CASE UNCHANGED vars
    <3>1. UNCHANGED <<world, scope, phase, statuses, g>>
      BY <2>8 DEF vars, input
    <3>2. Single' = Single /\ Sealed' = Sealed /\ Leaves' = Leaves
      BY <3>1 DEF Single, Sealed, Leaves
    <3>3. Found' = Found /\ Answers' = Answers /\ Visible' = Visible /\ Stage' = Stage
      BY <3>1, <3>2 DEF Found, Answers, Word, Visible, Stage
    <3>4. Holdings' = Holdings
      BY <3>1, HoldingsKept
    <3>5. QED
      BY <3>3, <3>4 DEF Ingestion!absVars
  <2>9. QED
    BY <1>3, <2>1, <2>2, <2>3, <2>4, <2>5, <2>6, <2>7, <2>8, Zenon DEF Next, Provider, Terminated
<1>4. QED
  BY <1>1, <1>2, <1>3, Invariance, PTL DEF Spec, Ingestion!AbsSafety
=============================================================================
