--------------------------- MODULE AwsIngestProofs --------------------------
(***************************************************************************)
(* What an AWS scan merges is whole, for every organization: any tree, any *)
(* number of accounts, regions, volumes and instances, and any pattern of  *)
(* refused roles and failing calls.                                        *)
(*                                                                         *)
(* The argument follows a leaf from the region it is read in to the sealed *)
(* graph.  RightLeaf is what must be true of it in every one of the three  *)
(* graphs it passes through; AccountRead says which leaves the account     *)
(* that is being read has, Merged which the accounts before it left.       *)
(***************************************************************************)
EXTENDS AwsIngest, SealedGraph, FiniteSetTheorems, FunctionTheorems, TLAPS

-----------------------------------------------------------------------------
(* What the operations of the graph do to any graph *)

LEMMA NewGraphFact == Bare(NewGraph) /\ DOMAIN NewGraph.nodes = {}
  BY DEF NewGraph, Bare, IsGraph

\* AddNode writes nodes and touches no edge.
LEMMA AddNodesFact ==
  ASSUME NEW gr, IsGraph(gr), NEW new
  PROVE  /\ IsGraph(AddNodes(gr, new))
         /\ AddNodes(gr, new).nodes = Over(new, gr.nodes)
         /\ AddNodes(gr, new).in = gr.in
         /\ AddNodes(gr, new).out = gr.out
         /\ AddNodes(gr, new).frozen = gr.frozen
         /\ Bare(gr) => Bare(AddNodes(gr, new))
  BY DEF IsGraph, AddNodes, Bare

\* Edges that are not there yet are there once after AddEdge.
LEMMA AddEdgesFact ==
  ASSUME NEW gr, IsGraph(gr), NEW A, NEW B, gr.out = SetToBag(A), gr.in = SetToBag(B),
         NEW E, E \cap A = {}, E \cap B = {}
  PROVE  AddEdges(gr, SetToBag(E)) =
           [nodes |-> gr.nodes, out |-> SetToBag(A \cup E), in |-> SetToBag(B \cup E),
            frozen |-> gr.frozen, dangling |-> gr.dangling]
<1>1. \A X : X \cap E = {} => SetToBag(X) (+) SetToBag(E) = SetToBag(X \cup E)
  BY DEF SetToBag, (+)
<1>2. gr.out (+) SetToBag(E) = SetToBag(A \cup E) /\ gr.in (+) SetToBag(E) = SetToBag(B \cup E)
  BY <1>1
<1>3. AddEdges(gr, SetToBag(E)) = [gr EXCEPT !.out = SetToBag(A \cup E), !.in = SetToBag(B \cup E)]
  BY <1>2 DEF AddEdges
<1>4. QED
  BY <1>3 DEF IsGraph

\* Freeze drops the other edges.
LEMMA FreezeFact ==
  ASSUME NEW gr, IsGraph(gr), gr.frozen = FALSE, EachOnce(gr)
  PROVE  /\ IsGraph(Freeze(gr)) /\ Freeze(gr).nodes = gr.nodes /\ Freeze(gr).frozen = TRUE
         /\ Freeze(gr).out = SetToBag(Leading(gr)) /\ Freeze(gr).in = SetToBag(Coming(gr))
<1>1. /\ IsGraph(Freeze(gr)) /\ Freeze(gr).nodes = gr.nodes /\ Freeze(gr).frozen = TRUE
      /\ Freeze(gr).in = Those(gr.in, Coming(gr))
      /\ Freeze(gr).out = Those(gr.out, Leading(gr))
  BY DEF Freeze, IsGraph, Leading, Coming
<1>2. /\ \A S \in SUBSET DOMAIN gr.in : Those(gr.in, S) = SetToBag(S)
      /\ \A S \in SUBSET DOMAIN gr.out : Those(gr.out, S) = SetToBag(S)
  BY DEF Those, SetToBag, EachOnce
<1>3. Coming(gr) \in SUBSET DOMAIN gr.in /\ Leading(gr) \in SUBSET DOMAIN gr.out
  BY DEF Coming, Leading
<1>4. QED
  BY <1>1, <1>2, <1>3

\* A bare graph holds the edges that are added, once in either index.
LEMMA BareEdges ==
  ASSUME NEW b, Bare(b), NEW E
  PROVE  AddEdges(b, SetToBag(E)) =
           [nodes |-> b.nodes, out |-> SetToBag(E), in |-> SetToBag(E),
            frozen |-> FALSE, dangling |-> b.dangling]
<1>1. IsGraph(b) /\ b.out = SetToBag({}) /\ b.in = SetToBag({}) /\ b.frozen = FALSE
  BY DEF Bare, EmptyBag
<1>2. {} \cup E = E /\ E \cap {} = {}
  OBVIOUS
<1>3. AddEdges(b, SetToBag(E)) =
        [nodes |-> b.nodes, out |-> SetToBag({} \cup E), in |-> SetToBag({} \cup E),
         frozen |-> b.frozen, dangling |-> b.dangling]
  BY <1>1, <1>2, AddEdgesFact
<1>4. QED
  BY <1>1, <1>2, <1>3

\* A bare graph that is sealed over a set of edges keeps its nodes, and each edge
\* once: inbound those that come from a node, outbound those that lead to one.
LEMMA SealFact ==
  ASSUME NEW gr, Bare(gr), NEW E, NEW s, s = Freeze(AddEdges(gr, SetToBag(E)))
  PROVE  /\ IsGraph(s)
         /\ s.nodes = gr.nodes
         /\ s.frozen = TRUE
         /\ s.in = SetToBag({e \in E : e.from \in DOMAIN gr.nodes})
         /\ s.out = SetToBag({e \in E : e.to \in DOMAIN gr.nodes})
<1> DEFINE h == AddEdges(gr, SetToBag(E))
<1>1. h = [nodes |-> gr.nodes, out |-> SetToBag(E), in |-> SetToBag(E),
           frozen |-> FALSE, dangling |-> gr.dangling]
  BY BareEdges
<1> HIDE DEF h
<1>2. IsGraph(h) /\ h.frozen = FALSE /\ h.out = SetToBag(E) /\ h.in = SetToBag(E) /\ h.nodes = gr.nodes
  BY <1>1 DEF IsGraph
<1>3. s = Freeze(h)
  BY DEF h
<1>4. DOMAIN h.out = E /\ DOMAIN h.in = E /\ EachOnce(h)
  BY <1>2 DEF EachOnce, SetToBag
<1>5. /\ s.out = SetToBag(Leading(h)) /\ s.in = SetToBag(Coming(h))
      /\ IsGraph(s) /\ s.nodes = h.nodes /\ s.frozen = TRUE
  BY <1>2, <1>3, <1>4, FreezeFact
<1>6. Leading(h) = {e \in E : e.to \in DOMAIN gr.nodes} /\ Coming(h) = {e \in E : e.from \in DOMAIN gr.nodes}
  BY <1>2, <1>4 DEF Leading, Coming
<1>7. QED
  BY <1>2, <1>5, <1>6

\* Where each edge is there once, a degree counts edges.
LEMMA DegreeFact ==
  ASSUME NEW gr, \A e \in DOMAIN gr.in : gr.in[e] = 1, NEW n, NEW kind,
         NEW S, IsFiniteSet(S), S = {e \in DOMAIN gr.in : e.to = n /\ e.kind = kind}
  PROVE  InDegree(gr, n, kind) = Cardinality(S)
<1> DEFINE bag == Those(gr.in, S)
           T == UNION {{e} \X (1..bag[e]) : e \in DOMAIN bag}
           F == [e \in S |-> <<e, 1>>]
<1>1. InDegree(gr, n, kind) = Cardinality(T)
  BY DEF InDegree, Count
<1>2. DOMAIN bag = S /\ \A e \in S : bag[e] = 1
  BY DEF Those
<1>3. \A t : t \in T <=> \E e \in S : t = <<e, 1>>
  <2> HIDE DEF bag
  <2>1. ASSUME NEW e \in S PROVE {e} \X (1..bag[e]) = {<<e, 1>>}
    BY <1>2
  <2>2. QED  BY <1>2, <2>1
<1> HIDE DEF T, bag
<1>4. F \in Bijection(S, T)
  BY <1>3, Fun_IsBij
<1>5. QED
  BY <1>1, <1>4, FS_Bijection, Fun_ExistsBij

\* In a sealed graph a degree counts the edges of a kind that come from a node.
LEMMA SealedDegree ==
  ASSUME NEW gr, Bare(gr), NEW E, NEW s, s = Freeze(AddEdges(gr, SetToBag(E))), NEW n, NEW kind,
         NEW S, IsFiniteSet(S), \A e \in S : e.from \in DOMAIN gr.nodes,
         S = {e \in E : e.to = n /\ e.kind = kind}
  PROVE  InDegree(s, n, kind) = Cardinality(S)
<1>1. s.in = SetToBag({e \in E : e.from \in DOMAIN gr.nodes})
  BY SealFact
<1>2. DOMAIN s.in = {e \in E : e.from \in DOMAIN gr.nodes} /\ \A e \in DOMAIN s.in : s.in[e] = 1
  BY <1>1 DEF SetToBag
<1>3. S = {e \in DOMAIN s.in : e.to = n /\ e.kind = kind}
  BY <1>2
<1>4. QED
  BY <1>2, <1>3, DegreeFact

-----------------------------------------------------------------------------
(* What is said of the scan *)

IsLeaf(n) == n[1] \in {"volume", "instance"}

UserEdges(n, users) ==
  {Edge(Resource("instance", n[2], n[3], i), n, "attached_to") : i \in users}

\* The volume that leaf n of a graph shows, and the edges into it.
ShowsVolume(nodes, E, n, v) ==
  /\ v.account = Reader(n[2]) /\ v.region = n[3] /\ v.id = n[4]
  /\ nodes[n].users = v.attached /\ nodes[n].described
  /\ {e \in E : e.to = n /\ e.kind = "attached_to"} = UserEdges(n, v.users)
  /\ \A i \in v.users : Resource("instance", n[2], n[3], i) \in DOMAIN nodes

Lists(n, i) == i.account = Reader(n[2]) /\ i.region = n[3] /\ i.id = n[4]
Names(n, v) == v.account = Reader(n[2]) /\ v.region = n[3] /\ n[4] \in v.users

\* A leaf is a volume with all its users' edges, or an instance that is described if
\* it is listed and otherwise named by a volume.
RightLeaf(nodes, E, n) ==
  /\ n[1] = "volume" => \E v \in world.volumes : ShowsVolume(nodes, E, n, v)
  /\ n[1] = "instance" =>
       /\ nodes[n].described <=> \E i \in world.instances : Lists(n, i)
       /\ nodes[n].described \/ \E v \in world.volumes : Names(n, v)

\* A node's kind is in its ref, and leaves are those with a region.
Placed(nodes) ==
  \A n \in DOMAIN nodes :
    /\ nodes[n].kind = n[1]
    /\ nodes[n].location # "" <=> IsLeaf(n)
    /\ IsLeaf(n) => nodes[n].location = n[3]

\* Every resource of some regions has its leaf.
HasAll(nodes, a, regions) ==
  /\ \A v \in world.volumes :
       v.account = Reader(a) /\ v.region \in regions => Resource("volume", a, v.region, v.id) \in DOMAIN nodes
  /\ \A i \in world.instances :
       i.account = Reader(a) /\ i.region \in regions => Resource("instance", a, i.region, i.id) \in DOMAIN nodes

\* The edges that are not containment lie between leaves of some accounts.
Attached(nodes, E, owners) ==
  \A e \in E : e.kind # "contains" =>
    /\ e.kind = "attached_to"
    /\ e.to[1] = "volume" /\ e.to[2] \in owners
    /\ e.from \in DOMAIN nodes /\ e.to \in DOMAIN nodes

\* The regions a scan without Resource Explorer reads of an account.
Asked(a) == IF mode = "explicit" THEN Explicit ELSE world.enabled[a]

\* What is built up while accounts are read: the tree, then one account after another.
Progress ==
  /\ caller \in {world.caller, Nobody}
  /\ phase \in {"start", "tree", "accounts"} => InOrganization
  /\ phase \in {"start", "tree", "failed"} \/ ~InOrganization => DOMAIN statuses = {}
  /\ phase = "failed" \/ (~InOrganization /\ ~Ready) => g = NewGraph
  /\ todo \cap DOMAIN statuses = {}
  /\ phase \in {"resolve", "hydrate"} =>
       /\ creds = Reader(current)
       /\ InOrganization => current \in Accounts \ (todo \cup DOMAIN statuses)
  /\ phase # "done" => DOMAIN clients = {}

Graphs ==
  /\ IsGraph(g) /\ (~Ready => Bare(g)) /\ Placed(g.nodes)
  /\ account = [g |-> account.g, edges |-> account.edges, regions |-> account.regions,
                left |-> account.left]
  /\ "" \notin account.regions

\* The account that is being read has the leaves of the regions behind it.
AccountRead ==
  LET h == account.g  behind == account.regions \ account.left
  IN phase = "hydrate" =>
       /\ Bare(h) /\ Placed(h.nodes)
       /\ \A n \in DOMAIN h.nodes : IsLeaf(n) =>
            n[2] = current /\ n[3] \in behind /\ RightLeaf(h.nodes, account.edges, n)
       /\ Attached(h.nodes, account.edges, {current})
       /\ HasAll(h.nodes, current, behind)
       /\ mode # "resource_explorer" => account.regions = Asked(creds)

\* The leaves of the graph are those of the accounts that were scanned.
Merged ==
  InOrganization =>
    /\ \A n \in DOMAIN g.nodes : IsLeaf(n) => n[2] \in Scanned /\ RightLeaf(g.nodes, edges, n)
    /\ Attached(g.nodes, edges, Scanned)
    /\ mode # "resource_explorer" =>
         /\ \A a \in Scanned : HasAll(g.nodes, a, Asked(a))
         /\ \A n \in DOMAIN g.nodes : IsLeaf(n) => n[3] \in Asked(n[2])

OwnClients == InOrganization => \A p \in DOMAIN clients : clients[p] = p[1]

IInv == TypeOK /\ Progress /\ Graphs /\ AccountRead /\ Merged /\ AttachedExactly /\ OwnClients

-----------------------------------------------------------------------------
(* What a step leaves alone *)

LEMMA Ground == TypeOK => IsWorld(world)
  BY WorldAssumption DEF TypeOK

\* While no leaf, no edge between leaves and no scanned account is added or lost, what
\* was merged stays right.
LEMMA MergedKept ==
  ASSUME Merged, UNCHANGED input,
         \A n \in DOMAIN g.nodes : n \in DOMAIN g'.nodes,
         \A n \in DOMAIN g'.nodes : IsLeaf(n) => n \in DOMAIN g.nodes /\ g'.nodes[n] = g.nodes[n],
         \A e : e.kind # "contains" => (e \in edges' <=> e \in edges),
         Scanned' = Scanned
  PROVE  Merged'
<1> USE DEF input
<1>1. CASE ~InOrganization
  BY <1>1 DEF Merged, InOrganization
<1>2. CASE InOrganization
  <2>1. \A n \in DOMAIN g'.nodes : IsLeaf(n) => n[2] \in Scanned /\ RightLeaf(g'.nodes, edges', n)
    <3> SUFFICES ASSUME NEW n \in DOMAIN g'.nodes, IsLeaf(n)
                 PROVE  n[2] \in Scanned /\ RightLeaf(g'.nodes, edges', n)
      OBVIOUS
    <3>1. n \in DOMAIN g.nodes /\ g'.nodes[n] = g.nodes[n] /\ n[2] \in Scanned /\ RightLeaf(g.nodes, edges, n)
      BY <1>2 DEF Merged
    <3>2. {e \in edges' : e.to = n /\ e.kind = "attached_to"} = {e \in edges : e.to = n /\ e.kind = "attached_to"}
      OBVIOUS
    <3>3. ASSUME NEW v \in world.volumes, ShowsVolume(g.nodes, edges, n, v)
          PROVE  ShowsVolume(g'.nodes, edges', n, v)
      BY <3>1, <3>2, <3>3 DEF ShowsVolume
    <3>4. QED
      BY <3>1, <3>3 DEF RightLeaf
  <2>2. Attached(g'.nodes, edges', Scanned)
    BY <1>2 DEF Merged, Attached
  <2>3. mode # "resource_explorer" =>
          /\ \A a \in Scanned : HasAll(g'.nodes, a, Asked(a))
          /\ \A n \in DOMAIN g'.nodes : IsLeaf(n) => n[3] \in Asked(n[2])
    BY <1>2 DEF Merged, HasAll
  <2>4. QED
    BY <2>1, <2>2, <2>3 DEF Merged, InOrganization, RightLeaf, ShowsVolume, Names, Lists, Reader,
       Attached, HasAll, Asked, IsLeaf
<1>3. QED
  BY <1>1, <1>2

\* New containers are placed, and hide no leaf.
LEMMA ContainersOnly ==
  ASSUME Graphs, NEW new,
         \A n \in DOMAIN new : ~IsLeaf(n) /\ new[n].kind = n[1] /\ new[n].location = ""
  PROVE  LET h == AddNodes(g, new)
         IN /\ IsGraph(h) /\ Placed(h.nodes) /\ h.frozen = g.frozen /\ (Bare(g) => Bare(h))
            /\ \A n \in DOMAIN g.nodes : n \in DOMAIN h.nodes
            /\ \A n \in DOMAIN h.nodes : IsLeaf(n) => n \in DOMAIN g.nodes /\ h.nodes[n] = g.nodes[n]
<1> DEFINE h == AddNodes(g, new)
<1>1. /\ IsGraph(h) /\ h.frozen = g.frozen /\ (Bare(g) => Bare(h))
      /\ h.nodes = Over(new, g.nodes)
  BY AddNodesFact DEF Graphs
<1> HIDE DEF h
<1>2. /\ DOMAIN h.nodes = DOMAIN new \cup DOMAIN g.nodes
      /\ \A n \in DOMAIN new : h.nodes[n] = new[n]
      /\ \A n \in DOMAIN g.nodes \ DOMAIN new : h.nodes[n] = g.nodes[n]
  BY <1>1 DEF Over
<1>3. Placed(h.nodes)
  <2> SUFFICES ASSUME NEW n \in DOMAIN h.nodes
               PROVE  /\ h.nodes[n].kind = n[1]
                      /\ h.nodes[n].location # "" <=> IsLeaf(n)
                      /\ IsLeaf(n) => h.nodes[n].location = n[3]
    BY DEF Placed
  <2>1. CASE n \in DOMAIN new
    BY <1>2, <2>1
  <2>2. CASE n \in DOMAIN g.nodes \ DOMAIN new
    BY <1>2, <2>2 DEF Graphs, Placed
  <2>3. QED
    BY <1>2, <2>1, <2>2
<1>4. QED
  BY <1>1, <1>2, <1>3 DEF h

LEMMA InitStep == Init => IInv
<1> SUFFICES ASSUME Init PROVE IInv
  OBVIOUS
<1>1. Bare(g) /\ g.nodes = <<>> /\ DOMAIN g.nodes = {} /\ IsGraph(g)
  BY NewGraphFact DEF Init, NewGraph, Bare
<1>2. DOMAIN statuses = {} /\ Scanned = {} /\ DOMAIN clients = {}
  BY DEF Init, Scanned
<1>3. IsWorld(world) /\ (InOrganization <=> scope.kind # "account")
  BY WorldAssumption DEF Init, InOrganization
<1>4. TypeOK
  <2>1. world.caller \in Accounts
    BY <1>3 DEF IsWorld, Accounts
  <2>2. coverage[1] >= Unknown /\ coverage[2] >= Unknown
    BY DEF Init, Unknown
  <2>3. /\ world \in Worlds /\ scope \in Scopes /\ mode \in Modes
        /\ phase \in {"resolve", "start"} /\ todo = {}
        /\ caller = Nobody /\ creds \in {world.caller, Nobody}
        /\ current = IF scope.kind = "account" THEN scope.id ELSE Nobody
        /\ account.left = {} /\ account.regions = {}
    BY DEF Init
  <2>4. QED
    BY <1>1, <1>2, <2>1, <2>2, <2>3 DEF TypeOK, Bare
<1>5. Progress
  BY <1>2, <1>3 DEF Init, Progress, Reader, InOrganization, Ready
<1>6. Graphs
  BY <1>1 DEF Init, Graphs, Placed
<1>7. AccountRead /\ AttachedExactly
  BY DEF Init, AccountRead, AttachedExactly, Ready
<1>8. Merged /\ OwnClients
  BY <1>1, <1>2 DEF Init, Merged, OwnClients, Attached
<1>9. QED
  BY <1>4, <1>5, <1>6, <1>7, <1>8 DEF IInv

-----------------------------------------------------------------------------
(* The tree *)

LEMMA DescribeStep == IInv /\ DescribeOrganization => IInv'
<1> SUFFICES ASSUME IInv, DescribeOrganization PROVE IInv'
  OBVIOUS
<1> DEFINE top == IF scope.kind = "unit" THEN Unit(scope.id) ELSE Root
           new == [r \in {Organization, top} \ {Root} |-> Container(r[1], "")]
<1>1. /\ g' = AddNodes(g, new) /\ edges' = {Edge(top, Organization, "contains")}
      /\ phase = "start" /\ phase' = "tree"
      /\ UNCHANGED <<input, todo, entry, resolution, report, clients>>
  BY DEF DescribeOrganization
<1>2. \A n \in DOMAIN new : ~IsLeaf(n) /\ new[n].kind = n[1] /\ new[n].location = ""
  <2>1. ASSUME NEW n \in {Organization, top}
        PROVE  /\ ~IsLeaf(n)
               /\ Container(n[1], "").kind = n[1] /\ Container(n[1], "").location = ""
    BY DEF Organization, Unit, Root, IsLeaf, Container, Node
  <2>2. QED
    BY <2>1
<1> HIDE DEF new
<1>3. /\ IsGraph(g') /\ Placed(g'.nodes) /\ g'.frozen = g.frozen /\ (Bare(g) => Bare(g'))
      /\ \A n \in DOMAIN g.nodes : n \in DOMAIN g'.nodes
      /\ \A n \in DOMAIN g'.nodes : IsLeaf(n) => n \in DOMAIN g.nodes /\ g'.nodes[n] = g.nodes[n]
  BY <1>1, <1>2, ContainersOnly DEF IInv
<1>4. Graphs'
  BY <1>1, <1>3 DEF IInv, Graphs, Ready, resolution
<1>5. TypeOK'
  BY <1>1, <1>3 DEF IInv, TypeOK, Placed, IsLeaf, Accounts, input, entry, resolution, report
<1>6. Progress'
  BY <1>1 DEF IInv, Progress, Ready, InOrganization, input, entry, report
<1>7. AccountRead' /\ AttachedExactly'
  BY <1>1 DEF AccountRead, AttachedExactly, Ready
<1>8. Merged' /\ OwnClients'
  <2>1. DOMAIN statuses = {} /\ DOMAIN statuses' = {}
    BY <1>1 DEF IInv, Progress, report
  <2>2. \A n \in DOMAIN g'.nodes : ~IsLeaf(n)
    <3>1. CASE InOrganization
      BY <1>3, <2>1, <3>1 DEF IInv, Merged, Scanned
    <3>2. QED
      BY <1>1, <3>1 DEF IInv, Progress
  <2>3. \A e \in edges' : e.kind = "contains"
    BY <1>1 DEF Edge
  <2>4. QED
    BY <1>1, <2>1, <2>2, <2>3 DEF IInv, Merged, OwnClients, Attached, Scanned, Progress
<1>9. QED
  BY <1>4, <1>5, <1>6, <1>7, <1>8 DEF IInv

LEMMA WalkStep ==
  ASSUME IInv, NEW p \in frontier, Walk(p)
  PROVE  IInv'
<1> DEFINE units == {u \in DOMAIN world.above : world.above[u] = p}
           here == {a \in Accounts : world.parent[a] = p}
           open == {a \in here : world.status[a] # "SUSPENDED"}
           new == [r \in {Unit(u) : u \in units} \cup {Account(a) : a \in here} |->
                     IF r[1] = "unit" THEN Container("unit", "") ELSE Container("account", r[2])]
           contained == {Edge(Unit(u), p, "contains") : u \in units}
                        \cup {Edge(Account(a), p, "contains") : a \in open}
<1>1. /\ g' = AddNodes(g, new) /\ edges' = edges \cup contained
      /\ phase = "tree" /\ phase' = "tree"
      /\ todo' \subseteq todo \cup Accounts
      /\ UNCHANGED <<input, entry, resolution, report, clients>>
  BY DEF Walk
<1>2. \A n \in DOMAIN new : ~IsLeaf(n) /\ new[n].kind = n[1] /\ new[n].location = ""
  <2>1. \A u : /\ ~IsLeaf(Unit(u)) /\ Unit(u)[1] = "unit"
              /\ Container("unit", "").kind = "unit" /\ Container("unit", "").location = ""
    BY DEF Unit, IsLeaf, Container, Node
  <2>2. \A a, b : /\ ~IsLeaf(Account(a)) /\ Account(a)[1] = "account"
                 /\ Container("account", b).kind = "account" /\ Container("account", b).location = ""
    BY DEF Account, IsLeaf, Container, Node
  <2>3. QED
    BY <2>1, <2>2
<1>3. \A e \in contained : e.kind = "contains"
  BY DEF Edge
<1> HIDE DEF new, contained
<1>4. /\ IsGraph(g') /\ Placed(g'.nodes) /\ g'.frozen = g.frozen /\ (Bare(g) => Bare(g'))
      /\ \A n \in DOMAIN g.nodes : n \in DOMAIN g'.nodes
      /\ \A n \in DOMAIN g'.nodes : IsLeaf(n) => n \in DOMAIN g.nodes /\ g'.nodes[n] = g.nodes[n]
  BY <1>1, <1>2, ContainersOnly DEF IInv
<1>5. Graphs'
  BY <1>1, <1>4 DEF IInv, Graphs, Ready, resolution
<1>6. TypeOK'
  BY <1>1, <1>4 DEF IInv, TypeOK, Placed, IsLeaf, Accounts, input, entry, resolution, report
<1>7. DOMAIN statuses = {} /\ Scanned' = Scanned
  BY <1>1 DEF IInv, Progress, report, Scanned
<1>8. Progress'
  BY <1>1, <1>7 DEF IInv, Progress, Ready, InOrganization, input, entry, report
<1>9. AccountRead' /\ AttachedExactly'
  BY <1>1 DEF AccountRead, AttachedExactly, Ready
<1>10. Merged'
  BY <1>1, <1>3, <1>4, <1>7, MergedKept DEF IInv
<1>11. OwnClients'
  BY <1>1 DEF IInv, Progress, OwnClients
<1>12. QED
  BY <1>5, <1>6, <1>8, <1>9, <1>10, <1>11 DEF IInv

LEMMA TreeFailsStep == IInv /\ TreeFails => IInv'
<1> SUFFICES ASSUME IInv, TreeFails PROVE IInv'
  OBVIOUS
<1>1. /\ phase \in {"start", "tree"} /\ phase' = "failed"
      /\ g' = NewGraph /\ edges' = {} /\ todo' = {}
      /\ UNCHANGED <<input, entry, resolution, report, clients>>
  BY DEF TreeFails
<1>2. Bare(g') /\ IsGraph(g') /\ g'.frozen = FALSE /\ DOMAIN g'.nodes = {}
  BY <1>1, NewGraphFact DEF Bare
<1>3. Graphs'
  BY <1>1, <1>2 DEF IInv, Graphs, Placed, Ready, resolution
<1>4. TypeOK'
  BY <1>1, <1>2 DEF IInv, TypeOK, Accounts, input, entry, resolution, report
<1>5. DOMAIN statuses = {} /\ Scanned' = {}
  BY <1>1 DEF IInv, Progress, report, Scanned
<1>6. Progress'
  BY <1>1, <1>5 DEF IInv, Progress, Ready, InOrganization, input, entry, report
<1>7. AccountRead' /\ AttachedExactly' /\ OwnClients'
  BY <1>1 DEF IInv, Progress, AccountRead, AttachedExactly, Ready, OwnClients
<1>8. Merged'
  BY <1>1, <1>2, <1>5 DEF Merged, Attached
<1>9. QED
  BY <1>3, <1>4, <1>6, <1>7, <1>8 DEF IInv

LEMMA TreeDoneStep == IInv /\ TreeDone => IInv'
<1> SUFFICES ASSUME IInv, TreeDone PROVE IInv'
  OBVIOUS
<1>1. /\ phase = "tree" /\ phase' = "accounts" /\ caller' \in {world.caller, Nobody}
      /\ UNCHANGED <<input, tree, current, creds, resolution, report, g, edges, clients>>
  BY DEF TreeDone
<1>2. world.caller \in Accounts
  BY Ground DEF IInv, IsWorld, Accounts
<1>3. Graphs'
  BY <1>1 DEF IInv, Graphs, Ready, resolution
<1>4. TypeOK'
  BY <1>1, <1>2 DEF IInv, TypeOK, Accounts, input, tree, resolution, report
<1>5. Progress'
  BY <1>1 DEF IInv, Progress, Ready, InOrganization, input, tree, report
<1>6. AccountRead' /\ AttachedExactly' /\ OwnClients'
  BY <1>1 DEF IInv, Progress, AccountRead, AttachedExactly, Ready, OwnClients
<1>7. Merged'
  <2>1. Scanned' = Scanned
    BY <1>1 DEF Scanned, report
  <2>2. QED
    BY <1>1, <2>1, MergedKept DEF IInv
<1>8. QED
  BY <1>3, <1>4, <1>5, <1>6, <1>7 DEF IInv

-----------------------------------------------------------------------------
(* Entering an account *)

LEMMA EnterStep ==
  ASSUME IInv, NEW a \in todo, Enter(a)
  PROVE  IInv'
<1>1. /\ phase = "accounts" /\ phase' = "resolve" /\ todo' = todo \ {a} /\ current' = a
      /\ creds' = IF a = caller THEN world.caller ELSE a
      /\ UNCHANGED <<input, caller, resolution, report, g, edges, clients>>
  BY DEF Enter, Own
<1>2. a \in Accounts /\ a # Nobody /\ InOrganization /\ a \notin DOMAIN statuses
  BY <1>1, Ground DEF IInv, TypeOK, Progress, IsWorld, Accounts
<1>3. creds' = a
  BY <1>1, <1>2 DEF IInv, Progress
<1>4. Graphs'
  BY <1>1 DEF IInv, Graphs, Ready, resolution
<1>5. TypeOK'
  BY <1>1, <1>2, <1>3 DEF IInv, TypeOK, Accounts, input, resolution, report
<1>6. Progress'
  BY <1>1, <1>2, <1>3 DEF IInv, Progress, Ready, InOrganization, Reader, Accounts, input, report
<1>7. AccountRead' /\ AttachedExactly' /\ OwnClients'
  BY <1>1 DEF IInv, Progress, AccountRead, AttachedExactly, Ready, OwnClients
<1>8. Merged'
  <2>1. Scanned' = Scanned
    BY <1>1 DEF Scanned, report
  <2>2. QED
    BY <1>1, <2>1, MergedKept DEF IInv
<1>9. QED
  BY <1>4, <1>5, <1>6, <1>7, <1>8 DEF IInv

\* An account that could not be read is reported, and is not one that was scanned.
LEMMA UnreachableFact ==
  ASSUME NEW a, a \notin DOMAIN statuses, statuses' = Unreachable(a)
  PROVE  DOMAIN statuses' = DOMAIN statuses \cup {a} /\ Scanned' = Scanned
<1>1. /\ DOMAIN statuses' = {a} \cup DOMAIN statuses
      /\ statuses'[a] = Status("unreachable", <<0, 0>>)
      /\ \A b \in DOMAIN statuses : statuses'[b] = statuses[b]
  BY DEF Unreachable, Over, Only
<1>2. statuses'[a].status # "scanned"
  BY <1>1 DEF Status
<1>3. QED
  BY <1>1, <1>2 DEF Scanned

LEMMA AssumeFailsStep ==
  ASSUME IInv, NEW a \in todo, AssumeFails(a)
  PROVE  IInv'
<1>1. /\ phase = "accounts" /\ todo' = todo \ {a} /\ statuses' = Unreachable(a)
      /\ UNCHANGED <<input, phase, entry, resolution, g, edges, clients>>
  BY DEF AssumeFails
<1>2. a \in Accounts /\ InOrganization /\ a \notin DOMAIN statuses
  BY <1>1 DEF IInv, TypeOK, Progress
<1>3. DOMAIN statuses' = DOMAIN statuses \cup {a} /\ Scanned' = Scanned
  BY <1>1, <1>2, UnreachableFact
<1>4. Graphs'
  BY <1>1 DEF IInv, Graphs, Ready, resolution
<1>5. TypeOK'
  BY <1>1, <1>2, <1>3 DEF IInv, TypeOK, Accounts, input, entry, resolution
<1>6. Progress'
  BY <1>1, <1>2, <1>3 DEF IInv, Progress, Ready, InOrganization, input, entry
<1>7. AccountRead' /\ AttachedExactly' /\ OwnClients'
  BY <1>1 DEF IInv, Progress, AccountRead, AttachedExactly, Ready, OwnClients
<1>8. Merged'
  BY <1>1, <1>3, MergedKept DEF IInv
<1>9. QED
  BY <1>4, <1>5, <1>6, <1>7, <1>8 DEF IInv

-----------------------------------------------------------------------------
(* Regions *)

\* What Abandon does, with the coverage the failed step leaves.
LEMMA AbandonStep ==
  ASSUME IInv, phase \in {"resolve", "hydrate"}, Abandon,
         coverage'[1] >= Unknown, coverage'[2] >= Unknown
  PROVE  IInv'
<1>1. /\ account' = [g |-> NewGraph, edges |-> {}, regions |-> {}, left |-> {}]
      /\ UNCHANGED <<input, tree, entry, lastRegions, g, edges, clients>>
      /\ \/ scope.kind = "account" /\ phase' = "failed" /\ UNCHANGED statuses
         \/ scope.kind # "account" /\ phase' = "accounts" /\ statuses' = Unreachable(current)
  BY DEF Abandon
<1>2. /\ Scanned' = Scanned /\ DOMAIN statuses \subseteq DOMAIN statuses'
      /\ InOrganization => DOMAIN statuses' = DOMAIN statuses \cup {current}
      /\ ~InOrganization => DOMAIN statuses' = {}
      /\ InOrganization => current \in Accounts \ (todo \cup DOMAIN statuses)
  <2>1. CASE InOrganization
    <3>1. current \in Accounts \ (todo \cup DOMAIN statuses)
      BY <2>1 DEF IInv, Progress
    <3>2. statuses' = Unreachable(current)
      BY <1>1, <2>1 DEF InOrganization
    <3>3. DOMAIN statuses' = DOMAIN statuses \cup {current} /\ Scanned' = Scanned
      BY <3>1, <3>2, UnreachableFact
    <3>4. QED
      BY <2>1, <3>1, <3>3
  <2>2. CASE ~InOrganization
    BY <1>1, <2>2 DEF InOrganization, IInv, Progress, Scanned
  <2>3. QED
    BY <2>1, <2>2
<1>3. ~Ready /\ ~Ready'
  BY <1>1 DEF Ready
<1>4. Graphs'
  BY <1>1, <1>3 DEF IInv, Graphs
<1>5. TypeOK'
  BY <1>1, <1>2, <1>3 DEF IInv, TypeOK, Accounts, InOrganization, Ready, input, tree, entry
<1>6. Progress'
  BY <1>1, <1>2, <1>3 DEF IInv, Progress, InOrganization, input, tree, entry
<1>7. AccountRead' /\ AttachedExactly' /\ OwnClients'
  BY <1>1, <1>3 DEF IInv, Progress, AccountRead, AttachedExactly, OwnClients
<1>8. Merged'
  BY <1>1, <1>2, MergedKept DEF IInv
<1>9. QED
  BY <1>4, <1>5, <1>6, <1>7, <1>8 DEF IInv

\* What Proceed does with the regions of an account.
LEMMA ProceedStep ==
  ASSUME IInv, phase = "resolve", NEW regions, Proceed(regions), "" \notin regions,
         mode # "resource_explorer" => regions = Asked(creds),
         coverage'[1] >= Unknown, coverage'[2] >= Unknown
  PROVE  IInv'
<1> DEFINE new == Only(Account(current), Container("account", current))
           h == AddNodes(NewGraph, new)
<1>1. /\ phase' = "hydrate"
      /\ account' = [g |-> h, edges |-> {}, regions |-> regions, left |-> regions]
      /\ UNCHANGED <<input, tree, entry, report, g, edges, clients>>
  BY DEF Proceed
<1>2. \A n \in DOMAIN new : ~IsLeaf(n) /\ new[n].kind = n[1] /\ new[n].location = ""
  <2>1. \A n \in DOMAIN new : n = Account(current) /\ new[n] = Container("account", current)
    BY DEF Only
  <2>2. /\ ~IsLeaf(Account(current)) /\ Account(current)[1] = "account"
        /\ Container("account", current).kind = "account" /\ Container("account", current).location = ""
    BY DEF Account, IsLeaf, Container, Node
  <2> HIDE DEF new
  <2>3. QED
    BY <2>1, <2>2
<1>3. Bare(h) /\ h.nodes = Over(new, NewGraph.nodes)
  BY NewGraphFact, AddNodesFact DEF Bare
<1>4. DOMAIN h.nodes = DOMAIN new /\ \A n \in DOMAIN h.nodes : h.nodes[n] = new[n]
  <2> HIDE DEF new, h
  <2>1. QED
    BY <1>3, NewGraphFact DEF Over
<1> HIDE DEF new, h
<1>5. ~Ready /\ ~Ready'
  BY <1>1 DEF Ready
<1>6. Graphs'
  BY <1>1, <1>5 DEF IInv, Graphs
<1>7. TypeOK'
  BY <1>1, <1>5 DEF IInv, TypeOK, Accounts, Ready, input, tree, entry, report
<1>8. Progress'
  BY <1>1, <1>5 DEF IInv, Progress, InOrganization, Reader, Accounts, input, tree, entry, report
<1>9. AccountRead'
  <2>1. Placed(h.nodes) /\ \A n \in DOMAIN h.nodes : ~IsLeaf(n)
    BY <1>2, <1>4 DEF Placed
  <2>2. /\ account'.g = h /\ account'.edges = {} /\ account'.regions \ account'.left = {}
        /\ account'.regions = regions /\ creds' = creds /\ mode' = mode /\ world' = world
    BY <1>1 DEF entry, input
  <2>3. QED
    BY <1>3, <2>1, <2>2 DEF AccountRead, Attached, HasAll, Asked
<1>10. AttachedExactly' /\ OwnClients'
  BY <1>1, <1>5 DEF IInv, Progress, AttachedExactly, OwnClients
<1>11. Merged'
  <2>1. Scanned' = Scanned
    BY <1>1 DEF Scanned, report
  <2>2. QED
    BY <1>1, <2>1, MergedKept DEF IInv
<1>12. QED
  BY <1>6, <1>7, <1>8, <1>9, <1>10, <1>11 DEF IInv

\* The regions an account may have, and how many.
LEMMA RegionsFact ==
  ASSUME IInv, phase = "resolve", mode # "explicit"
  PROVE  /\ creds \in Accounts
         /\ IsFiniteSet(world.enabled[creds]) /\ IsFiniteSet(world.indexed[creds])
         /\ "" \notin world.enabled[creds] /\ "" \notin world.indexed[creds]
         /\ Cardinality(world.enabled[creds]) \in Nat
         /\ Cardinality(world.indexed[creds]) \in Nat
         /\ Cardinality(world.enabled[creds] \cap world.indexed[creds]) \in Nat
<1>1. IsWorld(world)
  BY Ground DEF IInv
<1>2. creds \in Accounts
  BY <1>1 DEF IInv, Progress, Reader, IsWorld, Accounts
<1>3. /\ IsFiniteSet(world.enabled[creds]) /\ IsFiniteSet(world.indexed[creds])
      /\ "" \notin world.enabled[creds] /\ "" \notin world.indexed[creds]
  BY <1>1, <1>2 DEF IsWorld, Accounts
<1>4. IsFiniteSet(world.enabled[creds] \cap world.indexed[creds])
  BY <1>3, FS_Intersection
<1>5. QED
  BY <1>2, <1>3, <1>4, FS_CardinalityType

LEMMA CoverageFact ==
  ASSUME NEW enabled \in Nat \cup {Unknown}, NEW searchable \in Nat \cup {Unknown},
         coverage' = <<enabled, searchable>>
  PROVE  coverage'[1] >= Unknown /\ coverage'[2] >= Unknown
  BY DEF Unknown

LEMMA ResolveExplicitStep == IInv /\ ResolveExplicit => IInv'
<1> SUFFICES ASSUME IInv, ResolveExplicit PROVE IInv'
  OBVIOUS
<1>1. Cardinality(Explicit) \in Nat
  BY ExplicitAssumption, FS_CardinalityType
<1>2. coverage'[1] >= Unknown /\ coverage'[2] >= Unknown
  BY <1>1, CoverageFact DEF ResolveExplicit
<1>3. QED
  BY <1>2, ProceedStep, ExplicitAssumption DEF ResolveExplicit, Asked

LEMMA ResolveEnabledStep == IInv /\ ResolveEnabled => IInv'
<1> SUFFICES ASSUME IInv, ResolveEnabled PROVE IInv'
  OBVIOUS
<1>1. phase = "resolve" /\ mode = "describe_regions"
  BY DEF ResolveEnabled
<1>2. "" \notin world.enabled[creds] /\ Cardinality(world.enabled[creds]) \in Nat
  BY <1>1, RegionsFact
<1>3. coverage'[1] >= Unknown /\ coverage'[2] >= Unknown
  BY <1>2, CoverageFact DEF ResolveEnabled
<1>4. QED
  BY <1>1, <1>2, <1>3, ProceedStep DEF ResolveEnabled, Asked

LEMMA ResolveByAggregatorStep == IInv /\ ResolveByAggregator => IInv'
<1> SUFFICES ASSUME IInv, ResolveByAggregator PROVE IInv'
  OBVIOUS
<1>1. phase = "resolve" /\ mode = "resource_explorer" /\ Proceed(Holding(world.indexed[creds]))
  BY DEF ResolveByAggregator
<1>2. "" \notin world.indexed[creds] /\ Cardinality(world.indexed[creds]) \in Nat
  BY <1>1, RegionsFact
<1>3. coverage'[1] >= Unknown /\ coverage'[2] >= Unknown
  <2>1. PICK listed \in BOOLEAN : coverage' = AggregatorCoverage(listed)
    BY DEF ResolveByAggregator
  <2>2. QED
    BY <1>2, <2>1, CoverageFact DEF AggregatorCoverage
<1>4. "" \notin Holding(world.indexed[creds])
  BY <1>2 DEF Holding
<1>5. QED
  BY <1>1, <1>3, <1>4, ProceedStep

LEMMA ResolveBySweepStep == IInv /\ ResolveBySweep => IInv'
<1> SUFFICES ASSUME IInv, ResolveBySweep PROVE IInv'
  OBVIOUS
<1> DEFINE enabled == world.enabled[creds]
           indexed == world.indexed[creds]
<1>1. phase = "resolve" /\ mode = "resource_explorer"
  BY DEF ResolveBySweep
<1>2. /\ "" \notin enabled /\ Cardinality(enabled) \in Nat
      /\ Cardinality(enabled \cap indexed) \in Nat
  BY <1>1, RegionsFact
<1>3. PICK known \in BOOLEAN, listed \in BOOLEAN, silent \in SUBSET enabled :
        /\ coverage' = <<Cardinality(enabled),
                         IF listed THEN Cardinality(enabled \cap indexed) ELSE Unknown>>
        /\ IF ~known THEN Abandon
           ELSE Proceed(IF silent = {} THEN Holding(enabled \cap indexed) ELSE {})
  BY DEF ResolveBySweep
<1>4. coverage'[1] >= Unknown /\ coverage'[2] >= Unknown
  BY <1>2, <1>3, CoverageFact
<1>5. CASE Abandon
  BY <1>1, <1>4, <1>5, AbandonStep
<1>6. ASSUME NEW regions, Proceed(regions), regions \in {Holding(enabled \cap indexed), {}}
      PROVE  IInv'
  <2>1. "" \notin regions
    BY <1>2, <1>6 DEF Holding
  <2>2. QED
    BY <1>1, <1>4, <1>6, <2>1, ProceedStep
<1>7. QED
  BY <1>3, <1>5, <1>6

LEMMA ResolveFailsStep == IInv /\ ResolveFails => IInv'
<1> SUFFICES ASSUME IInv, ResolveFails PROVE IInv'
  OBVIOUS
<1>1. phase = "resolve" /\ Abandon
  BY DEF ResolveFails
<1>2. coverage'[1] >= Unknown /\ coverage'[2] >= Unknown
  <2>1. CASE UNCHANGED coverage
    BY <2>1 DEF IInv, TypeOK
  <2>2. CASE mode = "resource_explorer" /\ \E listed \in BOOLEAN : coverage' = AggregatorCoverage(listed)
    <3>1. Cardinality(world.indexed[creds]) \in Nat
      BY <1>1, <2>2, RegionsFact
    <3>2. PICK listed \in BOOLEAN : coverage' = AggregatorCoverage(listed)
      BY <2>2
    <3>3. QED
      BY <3>1, <3>2, CoverageFact DEF AggregatorCoverage
  <2>3. QED
    BY <2>1, <2>2 DEF ResolveFails
<1>3. QED
  BY <1>1, <1>2, AbandonStep

LEMMA HydrateFailsStep == IInv /\ HydrateFails => IInv'
<1> SUFFICES ASSUME IInv, HydrateFails PROVE IInv'
  OBVIOUS
<1>1. phase = "hydrate" /\ Abandon /\ UNCHANGED coverage
  BY DEF HydrateFails
<1>2. coverage'[1] >= Unknown /\ coverage'[2] >= Unknown
  BY <1>1 DEF IInv, TypeOK
<1>3. QED
  BY <1>1, <1>2, AbandonStep

-----------------------------------------------------------------------------
(* Reading a region *)

LEMMA RefFact ==
  /\ \A k, a, r, i : /\ Resource(k, a, r, i)[1] = k /\ Resource(k, a, r, i)[2] = a
                     /\ Resource(k, a, r, i)[3] = r /\ Resource(k, a, r, i)[4] = i
  /\ \A a, r : ~IsLeaf(Region(a, r)) /\ Region(a, r)[1] = "region"
  /\ \A k, a, r, i : IsLeaf(Resource(k, a, r, i)) <=> k \in {"volume", "instance"}
<1>1. \A k, a, r, i : /\ Resource(k, a, r, i)[1] = k /\ Resource(k, a, r, i)[2] = a
                      /\ Resource(k, a, r, i)[3] = r /\ Resource(k, a, r, i)[4] = i
  BY DEF Resource
<1>2. \A a, r : Region(a, r)[1] = "region"
  BY DEF Region
<1>3. QED
  BY <1>1, <1>2 DEF IsLeaf

LEMMA NodeFact ==
  \A kind, a, r, users, described :
    LET n == Node(kind, a, r, users, described)
    IN n.kind = kind /\ n.location = r /\ n.users = users /\ n.described = described
  BY DEF Node

\* The node of each volume of a region is that volume's own.
LEMMA VolumeNodesFact ==
  ASSUME IsWorld(world), NEW r
  PROVE  /\ DOMAIN VolumeNodes(r) = {Volume(v) : v \in Here(world.volumes, r)}
         /\ \A v \in Here(world.volumes, r) :
              VolumeNodes(r)[Volume(v)] = Node("volume", current, r, v.attached, TRUE)
<1>1. ASSUME NEW v \in Here(world.volumes, r), NEW u \in Here(world.volumes, r), Volume(u) = Volume(v)
      PROVE  u = v
  <2>1. u.id = v.id /\ u.account = v.account /\ u.region = v.region
    BY <1>1, RefFact DEF Volume, Here
  <2>2. QED
    BY <2>1 DEF IsWorld, Here
<1>2. ASSUME NEW v \in Here(world.volumes, r)
      PROVE  VolumeNodes(r)[Volume(v)] = Node("volume", current, r, v.attached, TRUE)
  <2> DEFINE u == CHOOSE u \in Here(world.volumes, r) : Volume(v) = Volume(u)
  <2>1. u \in Here(world.volumes, r) /\ Volume(u) = Volume(v)
    OBVIOUS
  <2>2. u = v
    BY <1>1, <2>1
  <2> HIDE DEF u
  <2>3. VolumeNodes(r)[Volume(v)] = Node("volume", current, r, u.attached, TRUE)
    BY DEF VolumeNodes, u
  <2>4. QED
    BY <2>2, <2>3
<1>3. QED
  BY <1>2 DEF VolumeNodes

\* Which nodes a region adds: the old ones are still there, and a listed instance is not
\* hidden by its stub.
AddsRegion(h, r, k) ==
  LET V == Here(world.volumes, r)  I == Here(world.instances, r)
  IN /\ Bare(k)
     /\ DOMAIN k.nodes = DOMAIN h.nodes \cup {Region(current, r)} \cup {Volume(v) : v \in V}
                         \cup DOMAIN Stubs(r) \cup {Instance(i.id, r) : i \in I}
     /\ k.nodes[Region(current, r)] = Container("region", current)
     /\ \A v \in V : k.nodes[Volume(v)] = Node("volume", current, r, v.attached, TRUE)
     /\ \A i \in I : k.nodes[Instance(i.id, r)] = Node("instance", current, r, 0, TRUE)
     /\ \A n \in DOMAIN Stubs(r) :
          n \notin {Instance(i.id, r) : i \in I} => k.nodes[n] = Node("instance", current, r, 0, FALSE)
     /\ \A n \in DOMAIN h.nodes :
          n # Region(current, r) /\ ~(IsLeaf(n) /\ n[3] = r) => k.nodes[n] = h.nodes[n]

LEMMA RegionNodesFact ==
  ASSUME IsWorld(world), NEW h, Bare(h), NEW r
  PROVE  AddsRegion(h, r, RegionNodes(h, r))
<1> DEFINE k == RegionNodes(h, r)
           V == Here(world.volumes, r)
           I == Here(world.instances, r)
           listed == {Instance(i.id, r) : i \in I}
           volumes == {Volume(v) : v \in V}
<1>1. Bare(k) /\ k.nodes = Over(InstanceNodes(r), Over(VolumesAndUsers(r), h.nodes))
  <2> DEFINE first == AddNodes(h, VolumesAndUsers(r))
  <2>1. Bare(first) /\ IsGraph(first) /\ first.nodes = Over(VolumesAndUsers(r), h.nodes)
    BY AddNodesFact DEF Bare
  <2>2. k = AddNodes(first, InstanceNodes(r))
    BY DEF RegionNodes
  <2> HIDE DEF first, k
  <2>3. QED
    BY <2>1, <2>2, AddNodesFact
<1> HIDE DEF k
<1>2. /\ DOMAIN InstanceNodes(r) = listed
      /\ \A n \in listed : InstanceNodes(r)[n] = Node("instance", current, r, 0, TRUE)
      /\ \A n \in DOMAIN Stubs(r) : Stubs(r)[n] = Node("instance", current, r, 0, FALSE)
  BY DEF InstanceNodes, Stubs
<1>3. /\ DOMAIN VolumeNodes(r) = volumes
      /\ \A v \in V :
           VolumeNodes(r)[Volume(v)] = Node("volume", current, r, v.attached, TRUE)
  BY VolumeNodesFact
<1>4. /\ \A n \in listed \cup DOMAIN Stubs(r) : n[1] = "instance" /\ n[3] = r
      /\ \A n \in volumes : n[1] = "volume" /\ n[3] = r
      /\ Region(current, r)[1] = "region"
  <2>1. /\ \A i : Instance(i, r)[1] = "instance" /\ Instance(i, r)[3] = r
        /\ \A v \in V : Volume(v)[1] = "volume" /\ Volume(v)[3] = r
    BY RefFact DEF Instance, Volume, Here
  <2>2. QED
    BY <2>1, RefFact DEF Stubs
<1> HIDE DEF listed, volumes, V, I
<1>5. /\ DOMAIN VolumesAndUsers(r) = {Region(current, r)} \cup volumes \cup DOMAIN Stubs(r)
      /\ VolumesAndUsers(r)[Region(current, r)] = Container("region", current)
      /\ \A n \in volumes : VolumesAndUsers(r)[n] = VolumeNodes(r)[n]
      /\ \A n \in DOMAIN Stubs(r) : VolumesAndUsers(r)[n] = Stubs(r)[n]
  <2> DEFINE both == Over(VolumeNodes(r), Stubs(r))
  <2>1. /\ DOMAIN both = volumes \cup DOMAIN Stubs(r)
        /\ \A n \in volumes : both[n] = VolumeNodes(r)[n]
        /\ \A n \in DOMAIN Stubs(r) : both[n] = Stubs(r)[n]
    BY <1>3, <1>4 DEF Over
  <2>2. VolumesAndUsers(r) = Over(Only(Region(current, r), Container("region", current)), both)
    BY DEF VolumesAndUsers
  <2> HIDE DEF both
  <2>3. QED
    BY <1>4, <2>1, <2>2 DEF Over, Only
<1>6. /\ DOMAIN k.nodes = DOMAIN h.nodes \cup {Region(current, r)} \cup volumes \cup DOMAIN Stubs(r) \cup listed
      /\ \A n \in listed : k.nodes[n] = InstanceNodes(r)[n]
      /\ \A n \in DOMAIN VolumesAndUsers(r) \ listed : k.nodes[n] = VolumesAndUsers(r)[n]
      /\ \A n \in DOMAIN h.nodes \ (listed \cup DOMAIN VolumesAndUsers(r)) : k.nodes[n] = h.nodes[n]
  <2>1. /\ DOMAIN Over(VolumesAndUsers(r), h.nodes) = DOMAIN VolumesAndUsers(r) \cup DOMAIN h.nodes
        /\ \A n \in DOMAIN VolumesAndUsers(r) :
             Over(VolumesAndUsers(r), h.nodes)[n] = VolumesAndUsers(r)[n]
        /\ \A n \in DOMAIN h.nodes \ DOMAIN VolumesAndUsers(r) :
             Over(VolumesAndUsers(r), h.nodes)[n] = h.nodes[n]
    BY DEF Over
  <2>2. DOMAIN k.nodes = listed \cup DOMAIN VolumesAndUsers(r) \cup DOMAIN h.nodes
    BY <1>1, <1>2, <2>1 DEF Over
  <2>3. /\ \A n \in listed : k.nodes[n] = InstanceNodes(r)[n]
        /\ \A n \in (DOMAIN VolumesAndUsers(r) \cup DOMAIN h.nodes) \ listed :
             k.nodes[n] = Over(VolumesAndUsers(r), h.nodes)[n]
    BY <1>1, <1>2, <2>1 DEF Over
  <2>4. QED
    BY <1>5, <2>1, <2>2, <2>3
<1>7. k.nodes[Region(current, r)] = Container("region", current)
  BY <1>4, <1>5, <1>6
<1>8. ASSUME NEW v \in V
      PROVE  k.nodes[Volume(v)] = Node("volume", current, r, v.attached, TRUE)
  <2>1. Volume(v) \in volumes /\ Volume(v) \notin listed
    BY <1>4 DEF volumes
  <2>2. QED
    BY <1>3, <1>5, <1>6, <2>1
<1>9. \A i \in I : k.nodes[Instance(i.id, r)] = Node("instance", current, r, 0, TRUE)
  BY <1>2, <1>6 DEF listed
<1>10. \A n \in DOMAIN Stubs(r) \ listed : k.nodes[n] = Node("instance", current, r, 0, FALSE)
  BY <1>2, <1>5, <1>6
<1>11. \A n \in DOMAIN h.nodes :
         n # Region(current, r) /\ ~(IsLeaf(n) /\ n[3] = r) => k.nodes[n] = h.nodes[n]
  BY <1>4, <1>5, <1>6 DEF IsLeaf
<1>12. AddsRegion(h, r, k)
  BY <1>1, <1>6, <1>7, <1>8, <1>9, <1>10, <1>11 DEF AddsRegion, V, I, listed, volumes
<1>13. QED
  BY <1>12 DEF k

\* Besides containment a region adds the edges of its volumes' users, each to its own
\* volume.
LEMMA RegionEdgesFact ==
  ASSUME IsWorld(world), NEW r
  PROVE  /\ \A e \in RegionEdges(r) : e.kind # "contains" =>
              \E v \in Here(world.volumes, r) : e \in UserEdges(Volume(v), v.users)
         /\ \A v \in Here(world.volumes, r) :
              {e \in RegionEdges(r) : e.to = Volume(v) /\ e.kind = "attached_to"}
                = UserEdges(Volume(v), v.users)
<1> DEFINE V == Here(world.volumes, r)
           contained == {Edge(Region(current, r), Account(current), "contains")}
             \cup {Edge(n, Region(current, r), "contains") : n \in DOMAIN VolumeNodes(r) \cup DOMAIN InstanceNodes(r)}
           used(v) == {Edge(Instance(i, r), Volume(v), "attached_to") : i \in v.users}
<1>1. RegionEdges(r) = contained \cup UNION {used(v) : v \in V}
  BY DEF RegionEdges
<1>2. \A e \in contained : e.kind = "contains"
  BY DEF Edge
<1>3. \A v \in V : used(v) = UserEdges(Volume(v), v.users)
  <2> SUFFICES ASSUME NEW v \in V PROVE used(v) = UserEdges(Volume(v), v.users)
    OBVIOUS
  <2>1. Volume(v)[2] = current /\ Volume(v)[3] = r
    BY RefFact DEF Volume, Here
  <2>2. QED
    BY <2>1 DEF UserEdges, Instance
<1>4. \A v : \A e \in used(v) : e.to = Volume(v) /\ e.kind = "attached_to"
  BY DEF Edge
<1>5. \A u, v \in V : Volume(u) = Volume(v) => u = v
  <2> SUFFICES ASSUME NEW u \in V, NEW v \in V, Volume(u) = Volume(v) PROVE u = v
    OBVIOUS
  <2>1. u.id = v.id /\ u.account = v.account /\ u.region = v.region
    BY RefFact DEF Volume, Here
  <2>2. QED
    BY <2>1 DEF IsWorld, Here
<1> HIDE DEF used, contained, V
<1>6. ASSUME NEW v \in V
      PROVE  {e \in RegionEdges(r) : e.to = Volume(v) /\ e.kind = "attached_to"} = used(v)
  <2>1. ASSUME NEW e \in RegionEdges(r), e.to = Volume(v), e.kind = "attached_to"
        PROVE  e \in used(v)
    <3>1. PICK u \in V : e \in used(u)
      BY <1>1, <1>2, <2>1
    <3>2. u = v
      BY <1>4, <1>5, <2>1, <3>1
    <3>3. QED
      BY <3>1, <3>2
  <2>2. \A e \in used(v) : e \in RegionEdges(r)
    BY <1>1
  <2>3. QED
    BY <1>4, <2>1, <2>2
<1>7. QED
  BY <1>1, <1>2, <1>3, <1>6 DEF V

LEMMA HydrateStep ==
  ASSUME IInv, NEW r \in account.left, Hydrate(r)
  PROVE  IInv'
<1> DEFINE h == account.g
           E == account.edges
           k == RegionNodes(h, r)
           F == E \cup RegionEdges(r)
           V == Here(world.volumes, r)
           I == Here(world.instances, r)
           behind == account.regions \ account.left
<1>1. phase = "hydrate" /\ phase' = "hydrate"
      /\ UNCHANGED <<input, tree, entry, coverage, report, g, edges, clients>>
  BY DEF Hydrate
<1>2. /\ account' = [g |-> k, edges |-> F, regions |-> account.regions, left |-> account.left \ {r}]
  BY DEF Hydrate, IInv, Graphs
<1>3. IsWorld(world)
  BY Ground DEF IInv
<1>4. r \in account.regions /\ r # "" /\ r \notin behind
  BY DEF IInv, TypeOK, Graphs
<1>5. /\ Bare(h) /\ Placed(h.nodes)
      /\ \A n \in DOMAIN h.nodes : IsLeaf(n) =>
           n[2] = current /\ n[3] \in behind /\ RightLeaf(h.nodes, E, n)
      /\ Attached(h.nodes, E, {current})
      /\ HasAll(h.nodes, current, behind)
      /\ mode # "resource_explorer" => account.regions = Asked(creds)
  BY <1>1 DEF IInv, AccountRead
<1>6. creds = Reader(current)
  BY <1>1 DEF IInv, Progress
<1>7. /\ \A v \in V : /\ Volume(v)[1] = "volume" /\ Volume(v)[2] = current
                      /\ Volume(v)[3] = r /\ Volume(v)[4] = v.id
      /\ \A i : /\ Instance(i, r)[1] = "instance" /\ Instance(i, r)[2] = current
                /\ Instance(i, r)[3] = r /\ Instance(i, r)[4] = i
      /\ \A i : Instance(i, r) = Resource("instance", current, r, i)
      /\ \A v \in V : Volume(v) = Resource("volume", current, v.region, v.id)
  BY RefFact DEF Volume, Instance, Here
<1>8. /\ DOMAIN Stubs(r) = {Instance(i, r) : i \in UNION {v.users : v \in V}}
      /\ \A v \in V : \A i \in v.users : Instance(i, r) \in DOMAIN Stubs(r)
      /\ \A n \in DOMAIN Stubs(r) : \E v \in V : n[4] \in v.users /\ n[1] = "instance" /\ n[2] = current /\ n[3] = r
  <2>1. DOMAIN Stubs(r) = {Instance(i, r) : i \in UNION {v.users : v \in V}}
    BY DEF Stubs
  <2>2. QED
    BY <1>7, <2>1
<1>9. /\ Bare(k)
      /\ DOMAIN k.nodes = DOMAIN h.nodes \cup {Region(current, r)} \cup {Volume(v) : v \in V}
                          \cup DOMAIN Stubs(r) \cup {Instance(i.id, r) : i \in I}
      /\ k.nodes[Region(current, r)] = Container("region", current)
      /\ \A v \in V : k.nodes[Volume(v)] = Node("volume", current, r, v.attached, TRUE)
      /\ \A i \in I : k.nodes[Instance(i.id, r)] = Node("instance", current, r, 0, TRUE)
      /\ \A n \in DOMAIN Stubs(r) :
           n \notin {Instance(i.id, r) : i \in I} => k.nodes[n] = Node("instance", current, r, 0, FALSE)
      /\ \A n \in DOMAIN h.nodes :
           n # Region(current, r) /\ ~(IsLeaf(n) /\ n[3] = r) => k.nodes[n] = h.nodes[n]
  <2>1. Bare(h)
    BY <1>5
  <2> HIDE DEF h
  <2>2. AddsRegion(h, r, k)
    BY <1>3, <2>1, RegionNodesFact
  <2> HIDE DEF k
  <2>3. QED
    BY <2>2 DEF AddsRegion
<1>10. /\ \A e \in RegionEdges(r) : e.kind # "contains" => \E v \in V : e \in UserEdges(Volume(v), v.users)
       /\ \A v \in V : {e \in RegionEdges(r) : e.to = Volume(v) /\ e.kind = "attached_to"}
                         = UserEdges(Volume(v), v.users)
  BY <1>3, RegionEdgesFact
<1>11. \A n : \A e \in UserEdges(n, {}) : FALSE
  BY DEF UserEdges
<1>12. \A n, users : \A e \in UserEdges(n, users) :
         /\ e.to = n /\ e.kind = "attached_to"
         /\ \E i \in users : e.from = Resource("instance", n[2], n[3], i)
  BY DEF UserEdges, Edge
<1>13. /\ \A v \in V : v \in world.volumes /\ v.account = Reader(current) /\ v.region = r
       /\ \A i \in I : i \in world.instances /\ i.account = Reader(current) /\ i.region = r
       /\ \A v \in world.volumes : v.account = Reader(current) /\ v.region = r => v \in V
       /\ \A i \in world.instances : i.account = Reader(current) /\ i.region = r => i \in I
  BY <1>6 DEF Here
<1> HIDE DEF h, E, k, F, V, I
<1>14. ~IsLeaf(Region(current, r)) /\ Region(current, r)[1] = "region"
  BY RefFact
\* Every node of k is an old one that kept its content or one of the region.
<1>15. \A n \in DOMAIN k.nodes :
         \/ n = Region(current, r)
         \/ n \in DOMAIN h.nodes /\ k.nodes[n] = h.nodes[n] /\ ~(IsLeaf(n) /\ n[3] = r)
         \/ \E v \in V : n = Volume(v)
         \/ n \in DOMAIN Stubs(r) \cup {Instance(i.id, r) : i \in I}
  BY <1>4, <1>5, <1>9
<1>16. \A n \in DOMAIN Stubs(r) \cup {Instance(i.id, r) : i \in I} :
         /\ n[1] = "instance" /\ n[2] = current /\ n[3] = r
         /\ k.nodes[n].kind = "instance" /\ k.nodes[n].location = r
         /\ k.nodes[n].described <=> n \in {Instance(i.id, r) : i \in I}
  <2> SUFFICES ASSUME NEW n \in DOMAIN Stubs(r) \cup {Instance(i.id, r) : i \in I}
               PROVE  /\ n[1] = "instance" /\ n[2] = current /\ n[3] = r
                      /\ k.nodes[n].kind = "instance" /\ k.nodes[n].location = r
                      /\ k.nodes[n].described <=> n \in {Instance(i.id, r) : i \in I}
    OBVIOUS
  <2>1. n[1] = "instance" /\ n[2] = current /\ n[3] = r
    BY <1>7, <1>8
  <2>2. CASE n \in {Instance(i.id, r) : i \in I}
    <3>1. k.nodes[n] = Node("instance", current, r, 0, TRUE)
      BY <1>9, <2>2
    <3>2. QED
      BY <2>1, <2>2, <3>1 DEF Node
  <2>3. CASE n \notin {Instance(i.id, r) : i \in I}
    <3>1. k.nodes[n] = Node("instance", current, r, 0, FALSE)
      BY <1>9, <2>3
    <3>2. QED
      BY <2>1, <2>3, <3>1 DEF Node
  <2>4. QED
    BY <2>2, <2>3
<1>17. \A v \in V : /\ k.nodes[Volume(v)].kind = "volume" /\ k.nodes[Volume(v)].location = r
                    /\ k.nodes[Volume(v)].users = v.attached /\ k.nodes[Volume(v)].described
  <2> SUFFICES ASSUME NEW v \in V
               PROVE  /\ k.nodes[Volume(v)].kind = "volume" /\ k.nodes[Volume(v)].location = r
                      /\ k.nodes[Volume(v)].users = v.attached /\ k.nodes[Volume(v)].described
    OBVIOUS
  <2>1. k.nodes[Volume(v)] = Node("volume", current, r, v.attached, TRUE)
    BY <1>9
  <2>2. QED
    BY <2>1 DEF Node
<1>18. Placed(k.nodes)
  <2> SUFFICES ASSUME NEW n \in DOMAIN k.nodes
               PROVE  /\ k.nodes[n].kind = n[1]
                      /\ k.nodes[n].location # "" <=> IsLeaf(n)
                      /\ IsLeaf(n) => k.nodes[n].location = n[3]
    BY DEF Placed
  <2>1. CASE n = Region(current, r)
    <3>1. k.nodes[n] = Node("region", current, "", 0, TRUE)
      BY <1>9, <2>1 DEF Container
    <3>2. k.nodes[n].kind = "region" /\ k.nodes[n].location = ""
      <4>1. LET m == Node("region", current, "", 0, TRUE) IN m.kind = "region" /\ m.location = ""
        BY DEF Node
      <4>2. QED
        BY <3>1, <4>1
    <3>3. QED
      BY <1>14, <2>1, <3>2
  <2>2. CASE n \in DOMAIN h.nodes /\ k.nodes[n] = h.nodes[n]
    BY <1>5, <2>2 DEF Placed
  <2>3. CASE \E v \in V : n = Volume(v)
    BY <1>4, <1>7, <1>17, <2>3 DEF IsLeaf
  <2>4. CASE n \in DOMAIN Stubs(r) \cup {Instance(i.id, r) : i \in I}
    <3>1. /\ n[1] = "instance" /\ n[3] = r
          /\ k.nodes[n].kind = "instance" /\ k.nodes[n].location = r
      BY <1>16, <2>4
    <3>2. QED
      BY <1>4, <3>1 DEF IsLeaf
  <2>5. QED
    BY <1>15, <2>1, <2>2, <2>3, <2>4
\* The edges that lead to an old leaf are the old ones, those to a new volume are new.
<1>19. \A e \in RegionEdges(r) : e.kind # "contains" =>
         /\ e.kind = "attached_to"
         /\ \E v \in V : e.to = Volume(v)
         /\ e.from \in DOMAIN Stubs(r)
  <2> SUFFICES ASSUME NEW e \in RegionEdges(r), e.kind # "contains"
               PROVE  /\ e.kind = "attached_to"
                      /\ \E v \in V : e.to = Volume(v)
                      /\ e.from \in DOMAIN Stubs(r)
    OBVIOUS
  <2>1. PICK v \in V : e \in UserEdges(Volume(v), v.users)
    BY <1>10
  <2>2. PICK i \in v.users : e.from = Resource("instance", Volume(v)[2], Volume(v)[3], i)
    BY <1>12, <2>1
  <2>3. e.from = Instance(i, r)
    BY <1>7, <2>2
  <2>4. QED
    BY <1>8, <1>12, <2>1, <2>3
<1>20. \A e \in E : e.kind # "contains" => e.to \in DOMAIN h.nodes /\ IsLeaf(e.to) /\ e.to[3] \in behind
  BY <1>5 DEF Attached, IsLeaf
<1>21. \A n \in DOMAIN k.nodes : IsLeaf(n) =>
         n[2] = current /\ n[3] \in behind \cup {r} /\ RightLeaf(k.nodes, F, n)
  <2> SUFFICES ASSUME NEW n \in DOMAIN k.nodes, IsLeaf(n)
               PROVE  n[2] = current /\ n[3] \in behind \cup {r} /\ RightLeaf(k.nodes, F, n)
    OBVIOUS
  <2>1. CASE n \in DOMAIN h.nodes /\ k.nodes[n] = h.nodes[n]
    <3>1. n[2] = current /\ n[3] \in behind /\ RightLeaf(h.nodes, E, n)
      BY <1>5, <2>1
    <3>2. {e \in F : e.to = n /\ e.kind = "attached_to"} = {e \in E : e.to = n /\ e.kind = "attached_to"}
      <4>1. \A e \in RegionEdges(r) : e.to = n /\ e.kind = "attached_to" => FALSE
        <5> SUFFICES ASSUME NEW e \in RegionEdges(r), e.to = n, e.kind = "attached_to" PROVE FALSE
          OBVIOUS
        <5>1. PICK v \in V : e.to = Volume(v)
          BY <1>19
        <5>2. n[3] = r
          BY <1>7, <5>1
        <5>3. QED
          BY <1>4, <3>1, <5>2
      <4>2. QED
        BY <4>1 DEF F
    <3>3. ASSUME NEW v \in world.volumes, ShowsVolume(h.nodes, E, n, v)
          PROVE  ShowsVolume(k.nodes, F, n, v)
      BY <1>9, <2>1, <3>2, <3>3 DEF ShowsVolume
    <3>4. QED
      BY <2>1, <3>1, <3>3 DEF RightLeaf
  <2>2. CASE \E v \in V : n = Volume(v)
    <3>1. PICK v \in V : n = Volume(v)
      BY <2>2
    <3>2. {e \in F : e.to = n /\ e.kind = "attached_to"} = UserEdges(n, v.users)
      <4>1. \A e \in E : e.to = n /\ e.kind = "attached_to" => FALSE
        BY <1>4, <1>7, <1>20, <3>1
      <4>2. QED
        BY <1>10, <3>1, <4>1 DEF F
    <3>3. \A i \in v.users : Resource("instance", n[2], n[3], i) \in DOMAIN k.nodes
      BY <1>7, <1>8, <1>9, <3>1
    <3>4. ShowsVolume(k.nodes, F, n, v)
      BY <1>7, <1>13, <1>17, <3>1, <3>2, <3>3 DEF ShowsVolume
    <3>5. QED
      BY <1>7, <1>13, <3>1, <3>4 DEF RightLeaf
  <2>3. CASE n \in DOMAIN Stubs(r) \cup {Instance(i.id, r) : i \in I}
    <3>1. /\ n[1] = "instance" /\ n[2] = current /\ n[3] = r
          /\ k.nodes[n].described <=> n \in {Instance(i.id, r) : i \in I}
      BY <1>16, <2>3
    <3>2. n \in {Instance(i.id, r) : i \in I} <=> \E i \in world.instances : Lists(n, i)
      <4>1. ASSUME NEW i \in I, n = Instance(i.id, r) PROVE i \in world.instances /\ Lists(n, i)
        BY <1>7, <1>13, <3>1, <4>1 DEF Lists
      <4>2. ASSUME NEW i \in world.instances, Lists(n, i)
            PROVE  i \in I /\ n = Instance(i.id, r)
        <5>1. i \in I
          BY <1>13, <3>1, <4>2 DEF Lists
        <5>2. n[4] = i.id
          BY <4>2 DEF Lists
        <5>3. PICK j : n = Instance(j, r)
          BY <1>8, <2>3
        <5>4. QED
          BY <1>7, <5>1, <5>2, <5>3
      <4>3. QED
        BY <4>1, <4>2
    <3>3. n \in DOMAIN Stubs(r) => \E v \in world.volumes : Names(n, v)
      BY <1>8, <1>13, <3>1 DEF Names
    <3>4. QED
      BY <2>3, <3>1, <3>2, <3>3 DEF RightLeaf
  <2>4. QED
    BY <1>14, <1>15, <2>1, <2>2, <2>3
<1>22. Attached(k.nodes, F, {current})
  <2> SUFFICES ASSUME NEW e \in F, e.kind # "contains"
               PROVE  /\ e.kind = "attached_to"
                      /\ e.to[1] = "volume" /\ e.to[2] = current
                      /\ e.from \in DOMAIN k.nodes /\ e.to \in DOMAIN k.nodes
    BY DEF Attached
  <2>1. CASE e \in E
    BY <1>5, <1>9, <2>1 DEF Attached
  <2>2. CASE e \in RegionEdges(r)
    BY <1>7, <1>9, <1>19, <2>2
  <2>3. QED
    BY <2>1, <2>2 DEF F
<1>23. HasAll(k.nodes, current, behind \cup {r})
  <2>1. ASSUME NEW v \in world.volumes, v.account = Reader(current), v.region \in behind \cup {r}
        PROVE  Resource("volume", current, v.region, v.id) \in DOMAIN k.nodes
    <3>1. CASE v.region \in behind
      BY <1>5, <1>9, <2>1, <3>1 DEF HasAll
    <3>2. CASE v.region = r
      BY <1>7, <1>9, <1>13, <2>1, <3>2
    <3>3. QED
      BY <2>1, <3>1, <3>2
  <2>2. ASSUME NEW i \in world.instances, i.account = Reader(current), i.region \in behind \cup {r}
        PROVE  Resource("instance", current, i.region, i.id) \in DOMAIN k.nodes
    <3>1. CASE i.region \in behind
      BY <1>5, <1>9, <2>2, <3>1 DEF HasAll
    <3>2. CASE i.region = r
      BY <1>7, <1>9, <1>13, <2>2, <3>2
    <3>3. QED
      BY <2>2, <3>1, <3>2
  <2>3. QED
    BY <2>1, <2>2 DEF HasAll
<1>24. AccountRead'
  <2>1. /\ account'.g = k /\ account'.edges = F
        /\ account'.regions \ account'.left = behind \cup {r} /\ account'.regions = account.regions
        /\ UNCHANGED <<world, scope, mode, current, creds>>
    BY <1>1, <1>2, <1>4 DEF input, entry
  <2>2. Bare(account'.g) /\ Placed(account.g.nodes)'
    BY <1>9, <1>18, <2>1 DEF Placed
  <2>3. ASSUME NEW n \in DOMAIN account'.g.nodes, IsLeaf(n)
        PROVE  /\ n[2] = current' /\ n[3] \in account'.regions \ account'.left
               /\ RightLeaf(account.g.nodes, account.edges, n)'
    <3>1. n[2] = current /\ n[3] \in behind \cup {r} /\ RightLeaf(k.nodes, F, n)
      BY <1>21, <2>1, <2>3
    <3>2. QED
      BY <2>1, <3>1 DEF RightLeaf, ShowsVolume, Names, Lists, Reader, InOrganization
  <2>4. Attached(account.g.nodes, account.edges, {current})'
    BY <1>22, <2>1 DEF Attached
  <2>5. HasAll(account.g.nodes, current, account.regions \ account.left)'
    BY <1>23, <2>1 DEF HasAll, Reader, InOrganization
  <2>6. (mode # "resource_explorer" => account.regions = Asked(creds))'
    BY <1>5, <2>1 DEF Asked
  <2>7. QED
    BY <2>2, <2>3, <2>4, <2>5, <2>6 DEF AccountRead
<1>25. Graphs'
  BY <1>1, <1>2 DEF IInv, Graphs, Ready
<1>26. TypeOK'
  BY <1>1, <1>2 DEF IInv, TypeOK, Accounts, input, tree, entry, report
<1>27. Progress'
  BY <1>1 DEF IInv, Progress, Ready, InOrganization, Reader, Accounts, input, tree, entry, report
<1>28. AttachedExactly' /\ OwnClients'
  BY <1>1 DEF IInv, Progress, AttachedExactly, OwnClients, Ready
<1>29. Merged'
  <2>1. Scanned' = Scanned
    BY <1>1 DEF Scanned, report
  <2>2. QED
    BY <1>1, <2>1, MergedKept DEF IInv
<1>30. QED
  BY <1>24, <1>25, <1>26, <1>27, <1>28, <1>29 DEF IInv

-----------------------------------------------------------------------------
(* The sealed graph *)

\* One edge for each user.
LEMMA UserEdgesCount ==
  ASSUME NEW n, NEW users, IsFiniteSet(users)
  PROVE  IsFiniteSet(UserEdges(n, users)) /\ Cardinality(UserEdges(n, users)) = Cardinality(users)
<1> DEFINE edge(i) == Edge(Resource("instance", n[2], n[3], i), n, "attached_to")
           F == [i \in users |-> edge(i)]
           T == UserEdges(n, users)
<1>1. T = {edge(i) : i \in users}
  BY DEF UserEdges
<1>2. \A i, j : edge(i) = edge(j) => i = j
  <2> SUFFICES ASSUME NEW i, NEW j, edge(i) = edge(j) PROVE i = j
    OBVIOUS
  <2>1. Resource("instance", n[2], n[3], i) = Resource("instance", n[2], n[3], j)
    BY DEF Edge
  <2>2. QED
    BY <2>1, RefFact
<1> HIDE DEF edge, T
<1>3. F \in Bijection(users, T)
  BY <1>1, <1>2, Fun_IsBij
<1>4. QED
  BY <1>3, FS_Bijection, Fun_ExistsBij DEF T

\* What is asked of a sealed graph.
Tallied(h) ==
  \A n \in DOMAIN h.nodes :
    /\ h.nodes[n].kind = "volume" => \E v \in world.volumes :
         /\ <<v.account, v.region, v.id>> = <<Reader(n[2]), n[3], n[4]>>
         /\ h.nodes[n].users = v.attached
         /\ InDegree(h, n, "attached_to") = Cardinality(v.users)
    /\ h.nodes[n].kind = "instance" =>
         (h.nodes[n].described <=> \E i \in world.instances : i.id = n[4])

\* Where every leaf is right, sealing makes the edges into a volume as many as the
\* users its listing names.
LEMMA SealedRight ==
  ASSUME IsWorld(world), NEW h, Bare(h), Placed(h.nodes), NEW E,
         \A n \in DOMAIN h.nodes : IsLeaf(n) => RightLeaf(h.nodes, E, n)
  PROVE  LET s == Sealed(h, E)
         IN IsGraph(s) /\ s.nodes = h.nodes /\ s.frozen = TRUE /\ Tallied(s)
<1> DEFINE s == Sealed(h, E)
<1>0. s = Freeze(AddEdges(h, SetToBag(E)))
  BY DEF Sealed
<1> HIDE DEF s
<1>1. IsGraph(s) /\ s.nodes = h.nodes /\ s.frozen = TRUE
  BY <1>0, SealFact
<1>2. ASSUME NEW n \in DOMAIN h.nodes, h.nodes[n].kind = "volume"
      PROVE  \E v \in world.volumes :
               /\ <<v.account, v.region, v.id>> = <<Reader(n[2]), n[3], n[4]>>
               /\ h.nodes[n].users = v.attached
               /\ InDegree(s, n, "attached_to") = Cardinality(v.users)
  <2>1. n[1] = "volume" /\ IsLeaf(n)
    BY <1>2 DEF Placed, IsLeaf
  <2>2. PICK v \in world.volumes : ShowsVolume(h.nodes, E, n, v)
    BY <2>1 DEF RightLeaf
  <2> DEFINE S == UserEdges(n, v.users)
  <2>3. \A e \in S : e.from \in DOMAIN h.nodes
    BY <2>2 DEF ShowsVolume, UserEdges, Edge
  <2>4. S = {e \in E : e.to = n /\ e.kind = "attached_to"}
    BY <2>2 DEF ShowsVolume
  <2>5. IsFiniteSet(S) /\ Cardinality(S) = Cardinality(v.users)
    BY UserEdgesCount DEF IsWorld
  <2> HIDE DEF S
  <2>6. InDegree(s, n, "attached_to") = Cardinality(S)
    BY <1>0, <2>3, <2>4, <2>5, SealedDegree
  <2>7. QED
    BY <2>2, <2>5, <2>6 DEF ShowsVolume
<1>3. ASSUME NEW n \in DOMAIN h.nodes, h.nodes[n].kind = "instance"
      PROVE  h.nodes[n].described <=> \E i \in world.instances : i.id = n[4]
  <2>1. n[1] = "instance" /\ RightLeaf(h.nodes, E, n)
    BY <1>3 DEF Placed, IsLeaf
  <2>2. CASE h.nodes[n].described
    BY <2>1, <2>2 DEF RightLeaf, Lists
  <2>3. CASE ~h.nodes[n].described
    <3>1. PICK v \in world.volumes : Names(n, v)
      BY <2>1, <2>3 DEF RightLeaf
    <3>2. ASSUME NEW i \in world.instances, i.id = n[4] PROVE FALSE
      <4>1. Lists(n, i)
        BY <3>1, <3>2 DEF IsWorld, Names, Lists
      <4>2. QED
        BY <2>1, <2>3, <4>1 DEF RightLeaf
    <3>3. QED
      BY <2>3, <3>2
  <2>4. QED
    BY <2>2, <2>3
<1>4. QED
  BY <1>1, <1>2, <1>3 DEF s, Tallied

LEMMA AccountIsAllStep == IInv /\ AccountIsAll => IInv'
<1> SUFFICES ASSUME IInv, AccountIsAll PROVE IInv'
  OBVIOUS
<1>1. /\ phase = "hydrate" /\ ~InOrganization /\ phase' = "enrich"
      /\ caller' \in {world.caller, Nobody}
      /\ g' = Sealed(account.g, account.edges)
      /\ UNCHANGED <<input, tree, current, creds, resolution, statuses, clients>>
  BY DEF AccountIsAll, InOrganization
<1>2. IsWorld(world) /\ world.caller \in Accounts
  BY Ground DEF IInv, IsWorld, Accounts
<1>3. /\ Bare(account.g) /\ Placed(account.g.nodes)
      /\ \A n \in DOMAIN account.g.nodes : IsLeaf(n) => RightLeaf(account.g.nodes, account.edges, n)
  BY <1>1 DEF IInv, AccountRead
<1>4. IsGraph(g') /\ g'.nodes = account.g.nodes /\ g'.frozen = TRUE /\ Tallied(g')
  <2> DEFINE h == account.g
             E == account.edges
  <2>1. /\ Bare(h) /\ Placed(h.nodes)
        /\ \A n \in DOMAIN h.nodes : IsLeaf(n) => RightLeaf(h.nodes, E, n)
        /\ g' = Sealed(h, E)
    BY <1>1, <1>3
  <2> HIDE DEF h, E
  <2>2. IsGraph(g') /\ g'.nodes = h.nodes /\ g'.frozen = TRUE /\ Tallied(g')
    BY <1>2, <2>1, SealedRight
  <2>3. QED
    BY <2>2 DEF h
<1>5. AttachedExactly'
  BY <1>1, <1>4 DEF AttachedExactly, Tallied, Reader, InOrganization, input
<1>6. Graphs'
  BY <1>1, <1>3, <1>4 DEF IInv, Graphs, Ready, resolution
<1>7. TypeOK'
  <2>1. \A n \in DOMAIN g'.nodes : g'.nodes[n].location # "" <=> n[1] \in {"volume", "instance"}
    BY <1>3, <1>4 DEF Placed, IsLeaf
  <2>2. g'.frozen <=> phase' \in {"enrich", "done"}
    BY <1>1, <1>4
  <2>3. QED
    BY <1>1, <1>2, <2>1, <2>2 DEF IInv, TypeOK, Accounts, input, tree, resolution
<1>8. Progress'
  BY <1>1 DEF IInv, Progress, Ready, InOrganization, input, tree
<1>9. AccountRead' /\ Merged' /\ OwnClients'
  BY <1>1 DEF AccountRead, Merged, OwnClients, InOrganization, input
<1>10. QED
  BY <1>5, <1>6, <1>7, <1>8, <1>9 DEF IInv

LEMMA FinishStep == IInv /\ Finish => IInv'
<1> SUFFICES ASSUME IInv, Finish PROVE IInv'
  OBVIOUS
<1> DEFINE suspended == {a \in Accounts : Account(a) \in DOMAIN g.nodes /\ world.status[a] = "SUSPENDED"}
           late == [a \in suspended |-> Status("suspended", <<0, 0>>)]
<1>1. /\ phase = "accounts" /\ todo = {} /\ phase' = "enrich"
      /\ caller' \in {world.caller, Nobody}
      /\ statuses' = Over(statuses, late)
      /\ g' = Sealed(g, edges)
      /\ UNCHANGED <<input, tree, current, creds, resolution, edges, clients>>
  BY DEF Finish
<1>2. IsWorld(world) /\ world.caller \in Accounts /\ InOrganization
  BY <1>1, Ground DEF IInv, Progress, IsWorld, Accounts
<1>3. Bare(g) /\ Placed(g.nodes) /\ \A n \in DOMAIN g.nodes : IsLeaf(n) => RightLeaf(g.nodes, edges, n)
  BY <1>1, <1>2 DEF IInv, Graphs, Merged, Ready
<1>4. IsGraph(g') /\ g'.nodes = g.nodes /\ g'.frozen = TRUE /\ Tallied(g')
  BY <1>1, <1>2, <1>3, SealedRight
<1>5. AttachedExactly'
  BY <1>1, <1>4 DEF AttachedExactly, Tallied, Reader, InOrganization, input
<1>6. Graphs'
  BY <1>1, <1>3, <1>4 DEF IInv, Graphs, Ready, resolution
<1>7. DOMAIN statuses' \subseteq Accounts /\ Scanned' = Scanned
  <2>1. /\ DOMAIN late = suspended
        /\ \A a \in suspended : late[a].status # "scanned"
    BY DEF Status
  <2> HIDE DEF late
  <2>2. /\ DOMAIN statuses' = DOMAIN statuses \cup suspended
        /\ \A a \in DOMAIN statuses : statuses'[a] = statuses[a]
        /\ \A a \in suspended \ DOMAIN statuses : statuses'[a] = late[a]
    BY <1>1, <2>1 DEF Over
  <2>3. suspended \subseteq Accounts /\ DOMAIN statuses \subseteq Accounts
    BY DEF IInv, TypeOK
  <2> HIDE DEF suspended
  <2>4. \A a \in DOMAIN statuses' : statuses'[a].status = "scanned" <=> a \in Scanned
    BY <2>1, <2>2 DEF Scanned
  <2>5. QED
    BY <2>2, <2>3, <2>4 DEF Scanned
<1>8. TypeOK'
  <2>1. \A n \in DOMAIN g'.nodes : g'.nodes[n].location # "" <=> n[1] \in {"volume", "instance"}
    BY <1>3, <1>4 DEF Placed, IsLeaf
  <2>2. g'.frozen <=> phase' \in {"enrich", "done"}
    BY <1>1, <1>4
  <2>3. QED
    BY <1>1, <1>2, <1>7, <2>1, <2>2 DEF IInv, TypeOK, Accounts, input, tree, resolution
<1>9. Progress'
  BY <1>1, <1>2 DEF IInv, Progress, Ready, InOrganization, input, tree
<1>10. AccountRead' /\ OwnClients'
  BY <1>1 DEF IInv, Progress, AccountRead, OwnClients
<1>11. Merged'
  BY <1>1, <1>4, <1>7, MergedKept DEF IInv
<1>12. QED
  BY <1>5, <1>6, <1>8, <1>9, <1>10, <1>11 DEF IInv

LEMMA MetricClientsStep == IInv /\ MetricClients => IInv'
<1> SUFFICES ASSUME IInv, MetricClients PROVE IInv'
  OBVIOUS
<1> DEFINE listed == {r \in DOMAIN g.nodes : g.nodes[r].kind = "instance" /\ g.nodes[r].described}
           places == {<<r[2], r[3]>> : r \in listed}
<1>1. /\ phase = "enrich" /\ phase' = "done"
      /\ UNCHANGED <<input, tree, entry, resolution, report, g, edges>>
  BY DEF MetricClients
<1>2. PICK refused : clients' = [p \in places \ refused |-> IF Own(p[1]) THEN world.caller ELSE p[1]]
  BY DEF MetricClients
<1>3. OwnClients'
  <2> SUFFICES ASSUME InOrganization, NEW p \in DOMAIN clients' PROVE clients'[p] = p[1]
    BY <1>1 DEF OwnClients, InOrganization, input
  <2>1. PICK r \in DOMAIN g.nodes : g.nodes[r].kind = "instance" /\ p = <<r[2], r[3]>>
    BY <1>2
  <2>2. r[2] \in Accounts
    BY <2>1 DEF IInv, Graphs, Placed, IsLeaf, Merged, Scanned, TypeOK
  <2>3. p[1] # Nobody
    BY <2>1, <2>2, Ground DEF IInv, IsWorld, Accounts
  <2>4. clients'[p] = IF Own(p[1]) THEN world.caller ELSE p[1]
    BY <1>2
  <2>5. QED
    BY <2>3, <2>4 DEF Own, IInv, Progress
<1>4. Graphs'
  BY <1>1 DEF IInv, Graphs, Ready, resolution
<1>5. TypeOK'
  BY <1>1 DEF IInv, TypeOK, Accounts, input, tree, entry, resolution, report
<1>6. Progress'
  BY <1>1 DEF IInv, Progress, Ready, InOrganization, input, tree, entry, report
<1>7. AccountRead' /\ AttachedExactly'
  BY <1>1 DEF IInv, AccountRead, AttachedExactly, Ready, Reader, InOrganization, input
<1>8. Merged'
  <2>1. Scanned' = Scanned
    BY <1>1 DEF Scanned, report
  <2>2. QED
    BY <1>1, <2>1, MergedKept DEF IInv
<1>9. QED
  BY <1>3, <1>4, <1>5, <1>6, <1>7, <1>8 DEF IInv

LEMMA StutterStep == IInv /\ UNCHANGED vars => IInv'
<1> SUFFICES ASSUME IInv, UNCHANGED vars PROVE IInv'
  OBVIOUS
<1> USE DEF vars, input, tree, entry, resolution, report
<1>1. TypeOK' /\ Progress' /\ Graphs'
  BY DEF IInv, TypeOK, Accounts, Progress, Graphs, Ready, InOrganization, Reader
<1>2. AccountRead'
  BY DEF IInv, AccountRead, RightLeaf, ShowsVolume, Names, Lists, Reader, InOrganization, HasAll, Asked
<1>3. Merged'
  <2>1. Scanned' = Scanned
    BY DEF Scanned
  <2>2. QED
    BY <2>1, MergedKept DEF IInv
<1>4. AttachedExactly' /\ OwnClients'
  BY DEF IInv, AttachedExactly, OwnClients, Ready, Reader, InOrganization
<1>5. QED
  BY <1>1, <1>2, <1>3, <1>4 DEF IInv

-----------------------------------------------------------------------------
(* The merge *)

LEMMA MergeStep == IInv /\ Merge => IInv'
<1> SUFFICES ASSUME IInv, Merge PROVE IInv'
  OBVIOUS
<1> DEFINE M == account.g.nodes
           E == account.edges
           h == Sealed(account.g, account.edges)
           leaves == {r \in DOMAIN h.nodes : h.nodes[r].kind \in {"volume", "instance"}}
           new == [r \in leaves |-> h.nodes[r]]
           kept == {e \in DOMAIN h.out : e.from \in DOMAIN h.nodes /\ e.kind # "contains"}
           N == g'.nodes
           F == edges'
<1>1. /\ phase = "hydrate" /\ InOrganization /\ phase' = "accounts" /\ account.left = {}
      /\ g' = AddNodes(g, new) /\ F = edges \cup kept
      /\ statuses' = Over(Only(current, Status("scanned", coverage)), statuses)
      /\ UNCHANGED <<input, tree, entry, resolution, clients>>
  BY DEF Merge, InOrganization
<1>2. /\ current \in Accounts \ (todo \cup DOMAIN statuses)
      /\ creds = current /\ Reader(current) = current
  BY <1>1 DEF IInv, Progress, Reader
<1>3. /\ Bare(account.g) /\ Placed(M)
      /\ \A n \in DOMAIN M : IsLeaf(n) => n[2] = current /\ n[3] \in account.regions /\ RightLeaf(M, E, n)
      /\ Attached(M, E, {current})
      /\ HasAll(M, current, account.regions)
      /\ mode # "resource_explorer" => account.regions = Asked(current)
  <2>1. account.regions \ account.left = account.regions
    BY <1>1
  <2>2. QED
    BY <1>1, <1>2, <2>1 DEF IInv, AccountRead
<1>4. /\ \A n \in DOMAIN g.nodes : IsLeaf(n) => n[2] \in Scanned /\ RightLeaf(g.nodes, edges, n)
      /\ Attached(g.nodes, edges, Scanned)
      /\ mode # "resource_explorer" =>
           /\ \A a \in Scanned : HasAll(g.nodes, a, Asked(a))
           /\ \A n \in DOMAIN g.nodes : IsLeaf(n) => n[3] \in Asked(n[2])
  BY <1>1 DEF IInv, Merged
<1>5. current \notin Scanned /\ Scanned' = Scanned \cup {current} /\ DOMAIN statuses' = DOMAIN statuses \cup {current}
  <2>1. /\ DOMAIN statuses' = {current} \cup DOMAIN statuses
        /\ statuses'[current] = Status("scanned", coverage)
        /\ \A b \in DOMAIN statuses : statuses'[b] = statuses[b]
    BY <1>1, <1>2 DEF Over, Only
  <2>2. statuses'[current].status = "scanned"
    BY <2>1 DEF Status
  <2>3. QED
    BY <1>2, <2>1, <2>2 DEF Scanned
<1>6. h.nodes = M /\ DOMAIN h.out = {e \in E : e.to \in DOMAIN M}
  <2> DEFINE a == account.g
             s == Sealed(a, E)
  <2>1. Bare(a)
    BY <1>3
  <2> HIDE DEF a, E
  <2>2. s = Freeze(AddEdges(a, SetToBag(E)))
    BY DEF Sealed
  <2> HIDE DEF s
  <2>3. s.nodes = a.nodes /\ s.out = SetToBag({e \in E : e.to \in DOMAIN a.nodes})
    BY <2>1, <2>2, SealFact
  <2>4. s.nodes = a.nodes /\ DOMAIN s.out = {e \in E : e.to \in DOMAIN a.nodes}
    BY <2>3 DEF SetToBag
  <2>5. QED
    BY <2>4 DEF s, a, E
<1> HIDE DEF h
<1>7. leaves = {n \in DOMAIN M : IsLeaf(n)} /\ DOMAIN new = leaves /\ \A n \in leaves : new[n] = M[n]
  BY <1>3, <1>6 DEF Placed, IsLeaf
<1>8. kept = {e \in E : e.kind # "contains"}
  BY <1>3, <1>6 DEF Attached
<1> HIDE DEF M, E, leaves, new, kept, N, F
<1>9. \A n \in DOMAIN g.nodes : IsLeaf(n) => n \notin leaves
  BY <1>3, <1>4, <1>5, <1>7
<1>10. \A n \in leaves : ~(n \in DOMAIN g.nodes /\ ~IsLeaf(n))
  BY <1>7
<1>11. /\ IsGraph(g') /\ (Bare(g) => Bare(g')) /\ g'.frozen = g.frozen
       /\ N = Over(new, g.nodes)
  BY <1>1, AddNodesFact DEF IInv, Graphs, N
<1>12. /\ DOMAIN N = leaves \cup DOMAIN g.nodes
       /\ \A n \in leaves : N[n] = M[n]
       /\ \A n \in DOMAIN g.nodes : N[n] = g.nodes[n]
  BY <1>7, <1>9, <1>10, <1>11 DEF Over
<1>13. Placed(N)
  <2> SUFFICES ASSUME NEW n \in DOMAIN N
               PROVE  /\ N[n].kind = n[1]
                      /\ N[n].location # "" <=> IsLeaf(n)
                      /\ IsLeaf(n) => N[n].location = n[3]
    BY DEF Placed
  <2>1. CASE n \in leaves
    BY <1>3, <1>7, <1>12, <2>1 DEF Placed
  <2>2. CASE n \in DOMAIN g.nodes
    BY <1>12, <2>2 DEF IInv, Graphs, Placed
  <2>3. QED
    BY <1>12, <2>1, <2>2
<1>14. /\ \A n \in leaves : {e \in F : e.to = n /\ e.kind = "attached_to"}
                            = {e \in E : e.to = n /\ e.kind = "attached_to"}
       /\ \A n \in DOMAIN g.nodes : IsLeaf(n) =>
            {e \in F : e.to = n /\ e.kind = "attached_to"} = {e \in edges : e.to = n /\ e.kind = "attached_to"}
  <2>1. \A e \in edges : e.kind = "attached_to" => e.to[2] \in Scanned
    BY <1>4 DEF Attached
  <2>2. \A e \in kept : e.to[2] = current
    BY <1>3, <1>8 DEF Attached
  <2>3. \A e : e.kind = "attached_to" => (e \in F <=> e \in edges \/ e \in E)
    BY <1>1, <1>8
  <2>4. \A e \in E : e.kind = "attached_to" => e.to[2] = current
    BY <1>8, <2>2
  <2>5. ASSUME NEW n \in leaves, NEW e, e.to = n, e.kind = "attached_to"
        PROVE  e \in F <=> e \in E
    BY <1>3, <1>5, <1>7, <2>1, <2>3, <2>5
  <2>6. ASSUME NEW n \in DOMAIN g.nodes, IsLeaf(n), NEW e, e.to = n, e.kind = "attached_to"
        PROVE  e \in F <=> e \in edges
    BY <1>4, <1>5, <2>3, <2>4, <2>6
  <2>7. QED
    BY <2>5, <2>6
<1>15. \A n \in DOMAIN N : IsLeaf(n) => n[2] \in Scanned \cup {current} /\ RightLeaf(N, F, n)
  <2> SUFFICES ASSUME NEW n \in DOMAIN N, IsLeaf(n)
               PROVE  n[2] \in Scanned \cup {current} /\ RightLeaf(N, F, n)
    OBVIOUS
  <2>1. CASE n \in leaves
    <3>1. n \in DOMAIN M /\ n[2] = current /\ RightLeaf(M, E, n)
      BY <1>3, <1>7, <2>1
    <3>2. ASSUME NEW v \in world.volumes, ShowsVolume(M, E, n, v)
          PROVE  ShowsVolume(N, F, n, v)
      <4>1. \A i \in v.users : Resource("instance", n[2], n[3], i) \in leaves
        BY <1>7, <3>2, RefFact DEF ShowsVolume
      <4>2. QED
        BY <1>12, <1>14, <2>1, <3>2, <4>1 DEF ShowsVolume
    <3>3. QED
      BY <1>12, <2>1, <3>1, <3>2 DEF RightLeaf
  <2>2. CASE n \in DOMAIN g.nodes
    <3>1. n[2] \in Scanned /\ RightLeaf(g.nodes, edges, n)
      BY <1>4, <2>2
    <3>2. ASSUME NEW v \in world.volumes, ShowsVolume(g.nodes, edges, n, v)
          PROVE  ShowsVolume(N, F, n, v)
      BY <1>12, <1>14, <2>2, <3>2 DEF ShowsVolume
    <3>3. QED
      BY <1>12, <2>2, <3>1, <3>2 DEF RightLeaf
  <2>3. QED
    BY <1>12, <2>1, <2>2
<1>16. Attached(N, F, Scanned \cup {current})
  <2> SUFFICES ASSUME NEW e \in F, e.kind # "contains"
               PROVE  /\ e.kind = "attached_to"
                      /\ e.to[1] = "volume" /\ e.to[2] \in Scanned \cup {current}
                      /\ e.from \in DOMAIN N /\ e.to \in DOMAIN N
    BY DEF Attached
  <2>1. CASE e \in edges
    BY <1>4, <1>12, <2>1 DEF Attached
  <2>2. CASE e \in E
    <3>1. /\ e.kind = "attached_to" /\ e.to[1] = "volume" /\ e.to[2] = current
          /\ e.from \in DOMAIN M /\ e.to \in DOMAIN M
      BY <1>3, <2>2 DEF Attached
    <3>2. IsLeaf(e.to) /\ RightLeaf(M, E, e.to)
      BY <1>3, <3>1 DEF IsLeaf
    <3>3. PICK v \in world.volumes : ShowsVolume(M, E, e.to, v)
      BY <3>1, <3>2 DEF RightLeaf
    <3>4. e \in UserEdges(e.to, v.users)
      BY <2>2, <3>1, <3>3 DEF ShowsVolume
    <3>5. IsLeaf(e.from)
      BY <3>4, RefFact DEF UserEdges, Edge
    <3>6. QED
      BY <1>7, <1>12, <3>1, <3>2, <3>5
  <2>3. QED
    BY <1>1, <1>8, <2>1, <2>2
<1>17. mode # "resource_explorer" =>
         /\ \A a \in Scanned \cup {current} : HasAll(N, a, Asked(a))
         /\ \A n \in DOMAIN N : IsLeaf(n) => n[3] \in Asked(n[2])
  <2> SUFFICES ASSUME mode # "resource_explorer"
               PROVE  /\ \A a \in Scanned \cup {current} : HasAll(N, a, Asked(a))
                      /\ \A n \in DOMAIN N : IsLeaf(n) => n[3] \in Asked(n[2])
    OBVIOUS
  <2>1. \A a \in Scanned : HasAll(N, a, Asked(a))
    BY <1>4, <1>12 DEF HasAll
  <2>2. HasAll(N, current, Asked(current))
    <3>1. HasAll(M, current, Asked(current))
      BY <1>3
    <3>2. \A n \in DOMAIN M : IsLeaf(n) => n \in DOMAIN N
      BY <1>7, <1>12
    <3>3. QED
      BY <3>1, <3>2, RefFact DEF HasAll
  <2>3. \A n \in DOMAIN N : IsLeaf(n) => n[3] \in Asked(n[2])
    BY <1>3, <1>4, <1>7, <1>12
  <2>4. QED
    BY <2>1, <2>2, <2>3
<1>18. Merged'
  <2>1. /\ g'.nodes = N /\ edges' = F /\ UNCHANGED <<world, scope, mode>>
    BY <1>1 DEF input, N, F
  <2>2. QED
    BY <1>5, <1>15, <1>16, <1>17, <2>1
       DEF Merged, RightLeaf, ShowsVolume, Names, Lists, Reader, InOrganization, HasAll, Asked
<1>19. Graphs'
  <2>1. Placed(g'.nodes)
    BY <1>13 DEF N
  <2>2. QED
    BY <1>1, <1>11, <2>1 DEF IInv, Graphs, Ready, resolution
<1>20. TypeOK'
  <2>1. Placed(g'.nodes)
    BY <1>13 DEF N
  <2>2. QED
    BY <1>1, <1>2, <1>5, <1>11, <2>1 DEF IInv, TypeOK, Placed, IsLeaf, Accounts, input, tree, entry, resolution
<1>21. Progress'
  BY <1>1, <1>2, <1>5 DEF IInv, Progress, Ready, InOrganization, input, tree, entry
<1>22. AccountRead' /\ AttachedExactly' /\ OwnClients'
  BY <1>1 DEF IInv, Progress, AccountRead, AttachedExactly, Ready, OwnClients
<1>23. QED
  BY <1>18, <1>19, <1>20, <1>21, <1>22 DEF IInv

-----------------------------------------------------------------------------
(* The theorems *)

\* The inductive invariant holds in every state of a scan.
THEOREM Invariance == Spec => []IInv
<1>1. IInv /\ [Next]_vars => IInv'
  <2> SUFFICES ASSUME IInv, [Next]_vars PROVE IInv'
    OBVIOUS
  <2>1. ASSUME NEW p \in frontier, Walk(p) PROVE IInv'
    BY <2>1, WalkStep
  <2>2. ASSUME NEW a \in todo, Enter(a) \/ AssumeFails(a) PROVE IInv'
    BY <2>2, EnterStep, AssumeFailsStep
  <2>3. ASSUME NEW r \in account.left, Hydrate(r) PROVE IInv'
    BY <2>3, HydrateStep
  <2>4. CASE DescribeOrganization \/ TreeFails \/ TreeDone
    BY <2>4, DescribeStep, TreeFailsStep, TreeDoneStep
  <2>5. CASE ResolveExplicit \/ ResolveEnabled \/ ResolveByAggregator \/ ResolveBySweep \/ ResolveFails
    BY <2>5, ResolveExplicitStep, ResolveEnabledStep, ResolveByAggregatorStep, ResolveBySweepStep,
       ResolveFailsStep
  <2>6. CASE HydrateFails \/ AccountIsAll \/ Merge \/ Finish \/ MetricClients
    BY <2>6, HydrateFailsStep, AccountIsAllStep, MergeStep, FinishStep, MetricClientsStep
  <2>7. CASE Terminated \/ UNCHANGED vars
    BY <2>7, StutterStep DEF Terminated
  <2>8. QED
    BY <2>1, <2>2, <2>3, <2>4, <2>5, <2>6, <2>7 DEF Next
<1>2. QED
  BY <1>1, InitStep, PTL DEF Spec

\* Every variable of an AWS scan keeps its type.
THEOREM TypeCorrect == Spec => []TypeOK
<1>1. IInv => TypeOK
  BY DEF IInv
<1>2. QED
  BY <1>1, Invariance, PTL

\* No account is merged in part: ingestOrganization gives up an account that fails in
\* its last region with everything it had read, and one it reports as scanned shows
\* exactly what is in the regions that were asked for.
THEOREM WholeAccounts == Spec => []AccountsAreWhole
<1>1. IInv => AccountsAreWhole
  <2> SUFFICES ASSUME IInv, InOrganization PROVE AccountsAreWhole
    BY DEF AccountsAreWhole
  <2>1. /\ \A n \in DOMAIN g.nodes : IsLeaf(n) => n[2] \in Scanned /\ RightLeaf(g.nodes, edges, n)
        /\ mode # "resource_explorer" =>
             /\ \A a \in Scanned : HasAll(g.nodes, a, Asked(a))
             /\ \A n \in DOMAIN g.nodes : IsLeaf(n) => n[3] \in Asked(n[2])
    BY DEF IInv, Merged
  <2>2. \A a \in Accounts \ Scanned : LeavesOf(a) = {}
    BY <2>1 DEF LeavesOf, IsLeaf
  <2>3. ASSUME mode # "resource_explorer", NEW a \in Scanned
        PROVE  {r[4] : r \in {r \in LeavesOf(a) : g.nodes[r].described}}
                 = {x.id : x \in {x \in Resources(a) : x.region \in Asked(a)}}
    <3> DEFINE shown == {r \in LeavesOf(a) : g.nodes[r].described}
               asked == {x \in Resources(a) : x.region \in Asked(a)}
    <3>1. ASSUME NEW r \in shown PROVE \E x \in asked : x.id = r[4]
      <4>1. r \in DOMAIN g.nodes /\ IsLeaf(r) /\ r[2] = a /\ g.nodes[r].described
        BY <3>1 DEF LeavesOf, IsLeaf
      <4>2. RightLeaf(g.nodes, edges, r) /\ r[3] \in Asked(a) /\ Reader(a) = a
        BY <2>1, <2>3, <4>1 DEF Reader
      <4>3. CASE r[1] = "volume"
        <5>1. PICK v \in world.volumes : ShowsVolume(g.nodes, edges, r, v)
          BY <4>2, <4>3 DEF RightLeaf
        <5>2. QED
          BY <4>1, <4>2, <5>1 DEF ShowsVolume, Resources
      <4>4. CASE r[1] = "instance"
        <5>1. PICK i \in world.instances : Lists(r, i)
          BY <4>1, <4>2, <4>4 DEF RightLeaf
        <5>2. QED
          BY <4>1, <4>2, <5>1 DEF Lists, Resources
      <4>5. QED
        BY <4>1, <4>3, <4>4 DEF IsLeaf
    <3>2. ASSUME NEW x \in asked PROVE \E r \in shown : r[4] = x.id
      <4>1. Reader(a) = a /\ x.account = a /\ x.region \in Asked(a)
        BY <3>2 DEF Reader, Resources
      <4>2. HasAll(g.nodes, a, Asked(a))
        BY <2>1, <2>3
      <4>3. CASE x \in world.volumes
        <5> DEFINE r == Resource("volume", a, x.region, x.id)
        <5>1. r \in DOMAIN g.nodes
          BY <4>1, <4>2, <4>3 DEF HasAll
        <5>2. r[1] = "volume" /\ r[2] = a /\ r[4] = x.id
          BY RefFact
        <5> HIDE DEF r
        <5>3. g.nodes[r].described
          BY <2>1, <5>1, <5>2 DEF IsLeaf, RightLeaf, ShowsVolume
        <5>4. r \in LeavesOf(a)
          BY <5>1, <5>2 DEF LeavesOf
        <5>5. QED
          BY <5>2, <5>3, <5>4
      <4>4. CASE x \in world.instances
        <5> DEFINE r == Resource("instance", a, x.region, x.id)
        <5>1. r \in DOMAIN g.nodes
          BY <4>1, <4>2, <4>4 DEF HasAll
        <5>2. r[1] = "instance" /\ r[2] = a /\ r[3] = x.region /\ r[4] = x.id
          BY RefFact
        <5> HIDE DEF r
        <5>3. Lists(r, x)
          BY <4>1, <5>2 DEF Lists
        <5>4. g.nodes[r].described
          BY <2>1, <4>4, <5>1, <5>2, <5>3 DEF IsLeaf, RightLeaf
        <5>5. r \in LeavesOf(a)
          BY <5>1, <5>2 DEF LeavesOf
        <5>6. QED
          BY <5>2, <5>4, <5>5
      <4>5. QED
        BY <4>3, <4>4 DEF Resources
    <3> HIDE DEF shown, asked
    <3>3. {r[4] : r \in shown} = {x.id : x \in asked}
      BY <3>1, <3>2
    <3>4. QED
      BY <3>3 DEF shown, asked
  <2>4. QED
    BY <2>2, <2>3 DEF AccountsAreWhole, Asked
<1>2. QED
  BY <1>1, Invariance, PTL

\* A volume looks detached if and only if it names no user, and a stub never hides an
\* instance that was listed (ingestAccountWithClient, the merge and Freeze).
THEOREM Attachments == Spec => []AttachedExactly
<1>1. IInv => AttachedExactly
  BY DEF IInv
<1>2. QED
  BY <1>1, Invariance, PTL

\* In an organization, resources and metrics are read with credentials of the account
\* they are reported under, also when it is not known whose credentials are in hand.
THEOREM OwnersCredentials == Spec => []ReadWithOwnersCredentials
<1>1. IInv => ReadWithOwnersCredentials
  <2> SUFFICES ASSUME IInv, InOrganization PROVE ReadWithOwnersCredentials
    BY DEF ReadWithOwnersCredentials
  <2>1. \A n \in DOMAIN g.nodes : IsLeaf(n) => RightLeaf(g.nodes, edges, n)
    BY DEF IInv, Merged
  <2>2. ASSUME NEW a \in Accounts, NEW r \in LeavesOf(a), g.nodes[r].described
        PROVE  \E x \in Resources(a) : x.id = r[4]
    <3>1. r \in DOMAIN g.nodes /\ IsLeaf(r) /\ Reader(r[2]) = a
      BY <2>2 DEF LeavesOf, IsLeaf, Reader
    <3>2. CASE r[1] = "volume"
      <4>1. PICK v \in world.volumes : ShowsVolume(g.nodes, edges, r, v)
        BY <2>1, <3>1, <3>2 DEF RightLeaf
      <4>2. QED
        BY <3>1, <4>1 DEF ShowsVolume, Resources
    <3>3. CASE r[1] = "instance"
      <4>1. PICK i \in world.instances : Lists(r, i)
        BY <2>1, <2>2, <3>1, <3>3 DEF RightLeaf
      <4>2. QED
        BY <3>1, <4>1 DEF Lists, Resources
    <3>4. QED
      BY <3>1, <3>2, <3>3 DEF IsLeaf
  <2>3. QED
    BY <2>2 DEF IInv, OwnClients, ReadWithOwnersCredentials
<1>2. QED
  BY <1>1, Invariance, PTL
-----------------------------------------------------------------------------
(* What the summary reports                                                *)
(*                                                                         *)
(* While the tree is walked, the places that were found are under the      *)
(* scope, and what hangs off a place that is no longer on the frontier was *)
(* found; once the frontier is empty they are closed under the tree, hence *)
(* all of them.  From then on every active account is waiting, being read  *)
(* or reported.                                                            *)

\* The places the walk has come to.
Found == {p \in Places : p = Top \/ p \in DOMAIN g.nodes}

Reading == {a \in {current} : phase \in {"resolve", "hydrate"}}

Explored ==
  InOrganization =>
    /\ phase = "start" => g = NewGraph /\ todo = {}
    /\ phase = "tree" =>
         /\ frontier \subseteq Found /\ Found \subseteq PlacesUnder
         /\ \A u \in DOMAIN world.above : world.above[u] \in Found \ frontier => Unit(u) \in DOMAIN g.nodes
         /\ \A a \in Accounts :
              /\ world.parent[a] \in Found \ frontier => Account(a) \in DOMAIN g.nodes
              /\ Account(a) \in DOMAIN g.nodes => world.parent[a] \in PlacesUnder
         /\ todo = {a \in Accounts : Account(a) \in DOMAIN g.nodes /\ world.status[a] = "ACTIVE"}

Active == {a \in Due : world.status[a] = "ACTIVE"}

Visited ==
  InOrganization /\ phase \in {"accounts", "resolve", "hydrate"} =>
    /\ \A a \in Accounts : Account(a) \in DOMAIN g.nodes <=> world.parent[a] \in PlacesUnder
    /\ todo \cup Reading \cup DOMAIN statuses = Active
    /\ \A a \in DOMAIN statuses : statuses[a].status \in {"scanned", "unreachable"}

Counts(a) == <<statuses[a].enabled, statuses[a].searchable>> \in CountsOf(a)

Counted ==
  InOrganization =>
    /\ phase = "hydrate" => coverage \in CountsOf(current)
    /\ \A a \in Scanned : Counts(a)

RInv == Explored /\ Visited /\ Counted /\ AccountsAreReported

LEMMA LeastPlaces ==
  /\ Top \in PlacesUnder
  /\ \A u \in DOMAIN world.above : world.above[u] \in PlacesUnder => Unit(u) \in PlacesUnder
  /\ \A S \in SUBSET Places : Closed(S) => PlacesUnder \subseteq S
  BY DEF PlacesUnder, Places, Closed

LEMMA TagsDiffer ==
  /\ \A u, v : Unit(u) = Unit(v) => u = v
  /\ \A a, b : Account(a) = Account(b) => a = b
  /\ \A u, a : Unit(u) # Account(a)
  /\ \A a : Account(a) \notin {Root, Organization} /\ ~IsLeaf(Account(a))
  /\ \A u : Unit(u) \notin {Root, Organization}
  BY DEF Unit, Account, Root, Organization, IsLeaf

\* What is due does not change, nor how it may be counted.
LEMMA SameScope ==
  ASSUME UNCHANGED input
  PROVE  /\ Top' = Top /\ Places' = Places /\ PlacesUnder' = PlacesUnder /\ Due' = Due /\ Active' = Active
         /\ InOrganization' = InOrganization /\ Accounts' = Accounts /\ world' = world
         /\ \A a : CountsOf(a)' = CountsOf(a)
<1>1. world' = world /\ scope' = scope /\ mode' = mode
  BY DEF input
<1>2. Top' = Top /\ Places' = Places /\ PlacesUnder' = PlacesUnder
  BY <1>1 DEF Top, Places, PlacesUnder, Closed
<1>3. Due' = Due /\ Active' = Active /\ Accounts' = Accounts
  BY <1>1, <1>2 DEF Due, Active, Accounts
<1>4. \A a : CountsOf(a)' = CountsOf(a)
  BY <1>1 DEF CountsOf
<1>5. QED
  BY <1>1, <1>2, <1>3, <1>4 DEF InOrganization

\* The counts that stay when no account is added to those that were scanned.
LEMMA CountsStay ==
  ASSUME Counted, UNCHANGED input, phase' # "hydrate", Scanned' = Scanned,
         \A a \in Scanned : statuses'[a] = statuses[a]
  PROVE  Counted'
<1>1. ASSUME NEW a \in Scanned, InOrganization PROVE Counts(a)'
  BY <1>1, SameScope DEF Counted, Counts
<1>2. QED
  BY <1>1, SameScope DEF Counted
\* A step that brings no account or unit into the graph and reports nothing, while the
\* accounts that are waiting or being read stay the same.
LEMMA ReportKept ==
  ASSUME RInv, UNCHANGED <<input, statuses>>,
         phase \notin {"start", "tree"}, phase' \notin {"start", "tree"},
         Ready' => Ready,
         phase' \in {"accounts", "resolve", "hydrate"} => phase \in {"accounts", "resolve", "hydrate"},
         todo' \cup Reading' = todo \cup Reading,
         DOMAIN g'.nodes = DOMAIN g.nodes,
         phase' = "hydrate" /\ InOrganization => coverage' \in CountsOf(current')
  PROVE  RInv'
<1>1. Explored'
  BY DEF Explored
<1>2. Visited'
  BY SameScope DEF RInv, Visited
<1>3. Scanned' = Scanned /\ \A a \in Scanned : statuses'[a] = statuses[a]
  BY DEF Scanned
<1>4. Counted'
  <2>1. ASSUME NEW a \in Scanned, InOrganization PROVE Counts(a)'
    BY <1>3, <2>1, SameScope DEF RInv, Counted, Counts
  <2>2. ASSUME phase' = "hydrate", InOrganization PROVE (coverage \in CountsOf(current))'
    <3>1. world' = world /\ mode' = mode
      BY DEF input
    <3>2. QED
      BY <2>2, <3>1 DEF CountsOf
  <2>3. QED
    BY <1>3, <2>1, <2>2, SameScope DEF Counted
<1>5. AccountsAreReported'
  <2>1. CASE ~(Ready' /\ InOrganization)
    BY <2>1, SameScope DEF AccountsAreReported
  <2>2. CASE Ready /\ InOrganization
    <3>1. ASSUME NEW a \in Scanned
          PROVE  <<statuses'[a].enabled, statuses'[a].searchable>> \in CountsOf(a)'
      BY <1>3, <2>2, <3>1, SameScope DEF RInv, AccountsAreReported
    <3>2. QED
      BY <1>3, <2>2, <3>1, SameScope DEF RInv, AccountsAreReported
  <2>3. QED
    BY <2>1, <2>2
<1>6. QED
  BY <1>1, <1>2, <1>4, <1>5 DEF RInv

LEMMA ReportInit == Init => RInv
<1> SUFFICES ASSUME Init PROVE RInv
  OBVIOUS
<1>1. /\ phase = (IF scope.kind = "account" THEN "resolve" ELSE "start")
      /\ g = NewGraph /\ todo = {} /\ DOMAIN statuses = {}
  BY DEF Init
<1>2. QED
  BY <1>1 DEF RInv, Explored, Visited, Counted, AccountsAreReported, InOrganization, Ready, Scanned

\* Where the walk starts.
LEMMA ReportDescribe == IInv /\ RInv /\ DescribeOrganization => RInv'
<1> SUFFICES ASSUME IInv, RInv, DescribeOrganization PROVE RInv'
  OBVIOUS
<1> DEFINE new == [r \in {Organization, Top} \ {Root} |-> Container(r[1], "")]
<1>1. /\ g' = AddNodes(g, new) /\ phase = "start" /\ phase' = "tree" /\ frontier' = {Top}
      /\ UNCHANGED <<input, todo, entry, resolution, report, clients>>
  BY DEF DescribeOrganization, Top
<1>2. InOrganization /\ g = NewGraph /\ todo' = {}
  BY <1>1 DEF IInv, Progress, RInv, Explored
<1>3. DOMAIN g'.nodes = {Organization, Top} \ {Root}
  <2>1. g'.nodes = Over(new, g.nodes)
    BY <1>1, AddNodesFact DEF IInv, Graphs
  <2>2. QED
    BY <1>2, <2>1, NewGraphFact DEF Over
<1>4. Top \in {Root, Unit(scope.id)}
  BY DEF Top
<1>5. \A a : Account(a) \notin DOMAIN g'.nodes
  BY <1>3, <1>4, TagsDiffer
<1>6. \A u : Unit(u) \in DOMAIN g'.nodes => Unit(u) = Top
  BY <1>3, TagsDiffer
<1>7. Found' = {Top}
  <2>1. Found' = {p \in Places : p = Top \/ p \in DOMAIN g'.nodes}
    BY <1>1, SameScope DEF Found
  <2>2. QED
    BY <1>6, <2>1 DEF Places
<1>8. Explored'
  BY <1>1, <1>2, <1>5, <1>7, LeastPlaces, SameScope DEF Explored
<1>9. DOMAIN statuses' = {}
  BY <1>1 DEF IInv, Progress, report
<1>10. QED
  BY <1>1, <1>8, <1>9 DEF RInv, Visited, Counted, AccountsAreReported, Ready, Scanned

\* The places under p and the accounts in it are found, and p is left.
LEMMA ReportWalk ==
  ASSUME IInv, RInv, NEW p \in frontier, Walk(p)
  PROVE  RInv'
<1> DEFINE units == {u \in DOMAIN world.above : world.above[u] = p}
           here == {a \in Accounts : world.parent[a] = p}
           under == {Unit(u) : u \in units}
           new == [r \in under \cup {Account(a) : a \in here} |->
                     IF r[1] = "unit" THEN Container("unit", "") ELSE Container("account", r[2])]
<1>1. /\ g' = AddNodes(g, new)
      /\ phase = "tree" /\ phase' = "tree"
      /\ frontier' = (frontier \ {p}) \cup under
      /\ todo' = todo \cup {a \in here : world.status[a] = "ACTIVE"}
      /\ UNCHANGED <<input, entry, resolution, report, clients>>
  BY DEF Walk
<1>2. InOrganization
  BY <1>1 DEF IInv, Progress
<1>3. DOMAIN g'.nodes = DOMAIN g.nodes \cup under \cup {Account(a) : a \in here}
  <2>1. g'.nodes = Over(new, g.nodes)
    BY <1>1, AddNodesFact DEF IInv, Graphs
  <2>2. QED
    BY <2>1 DEF Over
<1> HIDE DEF new
<1>4. \A a \in Accounts : Account(a) \in DOMAIN g'.nodes <=> Account(a) \in DOMAIN g.nodes \/ a \in here
  BY <1>3, TagsDiffer
<1>5. \A u \in DOMAIN world.above : Unit(u) \in DOMAIN g'.nodes <=> Unit(u) \in DOMAIN g.nodes \/ u \in units
  BY <1>3, TagsDiffer
<1>6. under \subseteq Places
  BY DEF Places
<1>7. Found' = Found \cup under
  <2>1. Found' = {q \in Places : q = Top \/ q \in DOMAIN g'.nodes}
    BY <1>1, SameScope DEF Found
  <2>2. \A q \in Places : q = Top \/ (q \in DOMAIN g'.nodes <=> q \in DOMAIN g.nodes \cup under)
    BY <1>3, TagsDiffer DEF Places
  <2> HIDE DEF under
  <2>3. QED
    BY <1>6, <2>1, <2>2 DEF Found
<1>8. /\ frontier \subseteq Found /\ Found \subseteq PlacesUnder
      /\ \A u \in DOMAIN world.above : world.above[u] \in Found \ frontier => Unit(u) \in DOMAIN g.nodes
      /\ \A a \in Accounts :
           /\ world.parent[a] \in Found \ frontier => Account(a) \in DOMAIN g.nodes
           /\ Account(a) \in DOMAIN g.nodes => world.parent[a] \in PlacesUnder
      /\ todo = {a \in Accounts : Account(a) \in DOMAIN g.nodes /\ world.status[a] = "ACTIVE"}
  BY <1>1, <1>2 DEF RInv, Explored
<1>9. p \in PlacesUnder /\ under \subseteq PlacesUnder
  BY <1>8, LeastPlaces
<1>10. \A q \in Found' \ frontier' : q \in Found /\ (q = p \/ q \notin frontier)
  <2> HIDE DEF under
  <2>1. QED
    BY <1>1, <1>7
<1>11. \A u \in DOMAIN world.above : world.above[u] \in Found' \ frontier' => Unit(u) \in DOMAIN g'.nodes
  BY <1>5, <1>8, <1>10
<1>12. ASSUME NEW a \in Accounts
       PROVE  /\ world.parent[a] \in Found' \ frontier' => Account(a) \in DOMAIN g'.nodes
              /\ Account(a) \in DOMAIN g'.nodes => world.parent[a] \in PlacesUnder
  BY <1>4, <1>8, <1>9, <1>10
<1>13. todo' = {a \in Accounts : Account(a) \in DOMAIN g'.nodes /\ world.status[a] = "ACTIVE"}
  BY <1>1, <1>4, <1>8
<1>14. frontier' \subseteq Found' /\ Found' \subseteq PlacesUnder
  <2> HIDE DEF under
  <2>1. QED
    BY <1>1, <1>7, <1>8, <1>9
<1>15. Explored'
  BY <1>1, <1>11, <1>12, <1>13, <1>14, SameScope DEF Explored
<1>16. DOMAIN statuses' = {}
  BY <1>1 DEF IInv, Progress, report
<1>17. QED
  BY <1>1, <1>15, <1>16 DEF RInv, Visited, Counted, AccountsAreReported, Ready, Scanned

\* With nothing left on the frontier, what was found is closed under the tree.
LEMMA ReportTreeDone == IInv /\ RInv /\ TreeDone => RInv'
<1> SUFFICES ASSUME IInv, RInv, TreeDone PROVE RInv'
  OBVIOUS
<1>1. /\ phase = "tree" /\ frontier = {} /\ phase' = "accounts"
      /\ UNCHANGED <<input, tree, current, creds, resolution, report, g, edges, clients>>
  BY DEF TreeDone
<1>2. InOrganization /\ DOMAIN statuses = {}
  BY <1>1 DEF IInv, Progress
<1>3. /\ Found \subseteq PlacesUnder
      /\ \A u \in DOMAIN world.above : world.above[u] \in Found => Unit(u) \in DOMAIN g.nodes
      /\ \A a \in Accounts :
           /\ world.parent[a] \in Found => Account(a) \in DOMAIN g.nodes
           /\ Account(a) \in DOMAIN g.nodes => world.parent[a] \in PlacesUnder
      /\ todo = {a \in Accounts : Account(a) \in DOMAIN g.nodes /\ world.status[a] = "ACTIVE"}
  BY <1>1, <1>2 DEF RInv, Explored
<1>4. Found \in SUBSET Places /\ Closed(Found)
  BY <1>3 DEF Found, Closed, Places
<1>5. PlacesUnder = Found
  BY <1>3, <1>4, LeastPlaces
<1>6. \A a \in Accounts : Account(a) \in DOMAIN g.nodes <=> world.parent[a] \in PlacesUnder
  BY <1>3, <1>5
<1>7. todo = Active
  BY <1>3, <1>6 DEF Active, Due
<1>8. Reading' = {} /\ DOMAIN statuses' = {}
  BY <1>1, <1>2 DEF Reading, report
<1>9. Visited'
  BY <1>1, <1>6, <1>7, <1>8, SameScope DEF Visited, tree
<1>10. QED
  BY <1>1, <1>8, <1>9 DEF RInv, Explored, Counted, AccountsAreReported, Ready, Scanned

LEMMA ReportTreeFails == IInv /\ RInv /\ TreeFails => RInv'
<1> SUFFICES ASSUME IInv, RInv, TreeFails PROVE RInv'
  OBVIOUS
<1>1. phase \in {"start", "tree"} /\ phase' = "failed" /\ UNCHANGED <<input, report>>
  BY DEF TreeFails
<1>2. DOMAIN statuses' = {}
  BY <1>1 DEF IInv, Progress, report
<1>3. QED
  BY <1>1, <1>2 DEF RInv, Explored, Visited, Counted, AccountsAreReported, Ready, Scanned
\* A scan of one account has no summary.
LEMMA ReportNone ==
  ASSUME ~InOrganization, UNCHANGED input
  PROVE  RInv'
  BY SameScope DEF RInv, Explored, Visited, Counted, AccountsAreReported

LEMMA ReportEnter ==
  ASSUME IInv, RInv, NEW a \in todo, Enter(a)
  PROVE  RInv'
<1>1. /\ phase = "accounts" /\ phase' = "resolve" /\ todo' = todo \ {a} /\ current' = a
      /\ UNCHANGED <<input, resolution, report, g, edges, clients>>
  BY DEF Enter
<1>2. todo' \cup Reading' = todo \cup Reading
  BY <1>1 DEF Reading
<1>3. QED
  BY <1>1, <1>2, ReportKept DEF Ready, report

\* An account that is given up is reported, in the place of one that waits or is read.
LEMMA ReportUnreachable ==
  ASSUME RInv, InOrganization, phase \in {"accounts", "resolve", "hydrate"}, phase' = "accounts",
         NEW a, a \notin DOMAIN statuses, statuses' = Unreachable(a),
         todo' \cup {a} = todo \cup Reading, UNCHANGED <<input, g>>
  PROVE  RInv'
<1>1. DOMAIN statuses' = DOMAIN statuses \cup {a} /\ Scanned' = Scanned
  BY UnreachableFact
<1>2. /\ \A b \in DOMAIN statuses : statuses'[b] = statuses[b]
      /\ statuses'[a].status = "unreachable"
  BY DEF Unreachable, Over, Only, Status
<1>3. Explored' /\ AccountsAreReported'
  BY DEF Explored, AccountsAreReported, Ready
<1>4. Visited'
  <2>1. Reading' = {}
    BY DEF Reading
  <2>2. todo \cup Reading \cup DOMAIN statuses = Active
    BY DEF RInv, Visited
  <2>3. todo' \cup Reading' \cup DOMAIN statuses' = Active
    BY <1>1, <2>1, <2>2
  <2>4. \A b \in DOMAIN statuses' : statuses'[b].status \in {"scanned", "unreachable"}
    BY <1>1, <1>2 DEF RInv, Visited
  <2>5. QED
    BY <2>3, <2>4, SameScope DEF RInv, Visited
<1>5. Counted'
  BY <1>1, <1>2, CountsStay DEF RInv, Scanned
<1>6. QED
  BY <1>3, <1>4, <1>5 DEF RInv

LEMMA ReportAssumeFails ==
  ASSUME IInv, RInv, NEW a \in todo, AssumeFails(a)
  PROVE  RInv'
<1>1. /\ phase = "accounts" /\ phase' = "accounts" /\ todo' = todo \ {a} /\ statuses' = Unreachable(a)
      /\ UNCHANGED <<input, g>>
  BY DEF AssumeFails
<1>2. InOrganization /\ a \notin DOMAIN statuses
  BY <1>1 DEF IInv, Progress
<1>3. todo' \cup {a} = todo \cup Reading
  BY <1>1 DEF Reading
<1>4. QED
  BY <1>1, <1>2, <1>3, ReportUnreachable

LEMMA ReportAbandon ==
  ASSUME IInv, RInv, phase \in {"resolve", "hydrate"}, Abandon
  PROVE  RInv'
<1>1. /\ UNCHANGED <<input, todo, g>>
      /\ scope.kind # "account" => phase' = "accounts" /\ statuses' = Unreachable(current)
  BY DEF Abandon, tree
<1>2. CASE InOrganization
  <2>1. current \notin DOMAIN statuses
    BY <1>2 DEF IInv, Progress
  <2>2. todo' \cup {current} = todo \cup Reading
    BY <1>1 DEF Reading
  <2>3. phase' = "accounts" /\ statuses' = Unreachable(current)
    BY <1>1, <1>2 DEF InOrganization
  <2>4. QED
    BY <1>1, <1>2, <2>1, <2>2, <2>3, ReportUnreachable
<1>3. CASE ~InOrganization
  BY <1>1, <1>3, ReportNone
<1>4. QED
  BY <1>2, <1>3

LEMMA ReportProceed ==
  ASSUME IInv, RInv, phase = "resolve", NEW regions, Proceed(regions), coverage' \in CountsOf(creds)
  PROVE  RInv'
<1>1. phase' = "hydrate" /\ UNCHANGED <<input, tree, entry, report, g, edges, clients>>
  BY DEF Proceed
<1>2. InOrganization => creds = current /\ current' = current
  BY <1>1 DEF IInv, Progress, Reader, entry
<1>3. Reading' = Reading
  BY <1>1 DEF Reading, entry
<1>4. InOrganization => coverage' \in CountsOf(current')
  BY <1>2
<1>5. QED
  BY <1>1, <1>3, <1>4, ReportKept DEF Ready, report, tree

\* What is resolved of an account is counted as its own.
LEMMA ReportResolve ==
  ASSUME IInv, RInv, ResolveExplicit \/ ResolveEnabled \/ ResolveByAggregator \/ ResolveBySweep \/ ResolveFails
  PROVE  RInv'
<1>1. CASE ResolveExplicit
  <2>1. coverage' \in CountsOf(creds)
    BY <1>1 DEF ResolveExplicit, CountsOf
  <2>2. QED
    BY <1>1, <2>1, ReportProceed DEF ResolveExplicit
<1>2. CASE ResolveEnabled
  <2>1. coverage' \in CountsOf(creds)
    BY <1>2 DEF ResolveEnabled, CountsOf
  <2>2. QED
    BY <1>2, <2>1, ReportProceed DEF ResolveEnabled
<1>3. CASE ResolveByAggregator
  <2>1. coverage' \in CountsOf(creds)
    BY <1>3 DEF ResolveByAggregator, AggregatorCoverage, CountsOf
  <2>2. QED
    BY <1>3, <2>1, ReportProceed DEF ResolveByAggregator
<1>4. CASE ResolveBySweep
  <2>1. phase = "resolve" /\ mode = "resource_explorer"
    BY <1>4 DEF ResolveBySweep
  <2>2. PICK known \in BOOLEAN, listed \in BOOLEAN, silent \in SUBSET world.enabled[creds] :
          /\ known => ~world.aggregator[creds]
          /\ coverage' = <<Cardinality(world.enabled[creds]),
                           IF listed THEN Cardinality(world.enabled[creds] \cap world.indexed[creds])
                           ELSE Unknown>>
          /\ IF ~known THEN Abandon
             ELSE Proceed(IF silent = {} THEN Holding(world.enabled[creds] \cap world.indexed[creds])
                          ELSE {})
    BY <1>4 DEF ResolveBySweep
  <2>3. CASE ~known
    BY <2>1, <2>2, <2>3, ReportAbandon
  <2>4. CASE known
    <3>1. coverage' \in CountsOf(creds)
      BY <2>1, <2>2, <2>4 DEF CountsOf
    <3>2. QED
      BY <2>1, <2>2, <2>4, <3>1, ReportProceed
  <2>5. QED
    BY <2>3, <2>4
<1>5. CASE ResolveFails
  BY <1>5, ReportAbandon DEF ResolveFails
<1>6. QED
  BY <1>1, <1>2, <1>3, <1>4, <1>5

LEMMA ReportHydrate ==
  ASSUME IInv, RInv, NEW r \in account.left, Hydrate(r)
  PROVE  RInv'
<1>1. phase = "hydrate" /\ phase' = "hydrate" /\ UNCHANGED <<input, tree, entry, coverage, report, g>>
  BY DEF Hydrate
<1>2. Reading' = Reading
  BY <1>1 DEF Reading, entry
<1>3. InOrganization => coverage' \in CountsOf(current')
  BY <1>1 DEF RInv, Counted, entry
<1>4. QED
  BY <1>1, <1>2, <1>3, ReportKept DEF Ready, report, tree
\* Merge brings leaves only, and reports the account with the counts of its regions.
LEMMA ReportMerge == IInv /\ RInv /\ Merge => RInv'
<1> SUFFICES ASSUME IInv, RInv, Merge PROVE RInv'
  OBVIOUS
<1> DEFINE h == Sealed(account.g, account.edges)
           leaves == {r \in DOMAIN h.nodes : h.nodes[r].kind \in {"volume", "instance"}}
           new == [r \in leaves |-> h.nodes[r]]
<1>1. /\ phase = "hydrate" /\ phase' = "accounts" /\ InOrganization
      /\ g' = AddNodes(g, new)
      /\ statuses' = Over(Only(current, Status("scanned", coverage)), statuses)
      /\ UNCHANGED <<input, tree, entry, resolution, clients>>
  BY DEF Merge, InOrganization
<1>2. current \in Accounts \ (todo \cup DOMAIN statuses)
  BY <1>1 DEF IInv, Progress
<1>3. \A r \in leaves : IsLeaf(r)
  <2>1. Bare(account.g) /\ Placed(account.g.nodes)
    BY <1>1 DEF IInv, AccountRead
  <2>2. ASSUME NEW m, Bare(m), NEW E PROVE Sealed(m, E).nodes = m.nodes
    <3> DEFINE s == Freeze(AddEdges(m, SetToBag(E)))
    <3>1. Sealed(m, E) = s
      BY DEF Sealed
    <3> HIDE DEF s
    <3>2. s.nodes = m.nodes
      BY <2>2, SealFact DEF s
    <3>3. QED
      BY <3>1, <3>2
  <2>3. h.nodes = account.g.nodes
    BY <2>1, <2>2
  <2> HIDE DEF h
  <2>4. QED
    BY <2>1, <2>3 DEF Placed, IsLeaf
<1>4. DOMAIN new = leaves
  OBVIOUS
<1> HIDE DEF leaves, new
<1>5. DOMAIN g'.nodes = DOMAIN g.nodes \cup leaves
  <2>1. g'.nodes = Over(new, g.nodes)
    BY <1>1, AddNodesFact DEF IInv, Graphs
  <2>2. QED
    BY <1>4, <2>1 DEF Over
<1>6. \A a : Account(a) \in DOMAIN g'.nodes <=> Account(a) \in DOMAIN g.nodes
  BY <1>3, <1>5, TagsDiffer
<1>7. /\ DOMAIN statuses' = DOMAIN statuses \cup {current}
      /\ statuses'[current] = Status("scanned", coverage)
      /\ \A b \in DOMAIN statuses : statuses'[b] = statuses[b]
  BY <1>1, <1>2 DEF Over, Only
<1>8. /\ statuses'[current].status = "scanned"
      /\ statuses'[current].enabled = coverage[1] /\ statuses'[current].searchable = coverage[2]
  BY <1>7 DEF Status
<1>9. Visited'
  <2>1. Reading' = {} /\ Reading = {current} /\ todo' = todo
    BY <1>1 DEF Reading, tree
  <2>2. /\ \A a \in Accounts : Account(a) \in DOMAIN g.nodes <=> world.parent[a] \in PlacesUnder
        /\ todo \cup Reading \cup DOMAIN statuses = Active
        /\ \A a \in DOMAIN statuses : statuses[a].status \in {"scanned", "unreachable"}
    BY <1>1 DEF RInv, Visited
  <2>3. todo' \cup Reading' \cup DOMAIN statuses' = Active
    BY <1>7, <2>1, <2>2
  <2>4. \A a \in DOMAIN statuses' : statuses'[a].status \in {"scanned", "unreachable"}
    BY <1>7, <1>8, <2>2
  <2>5. QED
    BY <1>1, <1>6, <2>2, <2>3, <2>4, SameScope DEF Visited
<1>10. Counted'
  <2>1. coverage \in CountsOf(current)
    BY <1>1 DEF RInv, Counted
  <2>2. <<coverage[1], coverage[2]>> \in CountsOf(current)
    <3>1. \A c \in CountsOf(current) : \E x, y : c = <<x, y>>
      BY DEF CountsOf
    <3>2. PICK x, y : coverage = <<x, y>>
      BY <2>1, <3>1
    <3>3. QED
      BY <2>1, <3>2
  <2>3. ASSUME NEW a \in Scanned' PROVE Counts(a)'
    <3>1. CASE a = current
      BY <1>1, <1>8, <2>2, <3>1, SameScope DEF Counts
    <3>2. CASE a # current
      <4>1. a \in Scanned /\ statuses'[a] = statuses[a]
        BY <1>7, <2>3, <3>2 DEF Scanned
      <4>2. QED
        BY <1>1, <4>1, SameScope DEF RInv, Counted, Counts
    <3>3. QED
      BY <3>1, <3>2
  <2>4. QED
    BY <1>1, <2>3 DEF Counted
<1>11. QED
  BY <1>1, <1>9, <1>10 DEF RInv, Explored, AccountsAreReported, Ready

\* With no account left to read, the suspended ones complete the summary.
LEMMA ReportFinish == IInv /\ RInv /\ Finish => RInv'
<1> SUFFICES ASSUME IInv, RInv, Finish PROVE RInv'
  OBVIOUS
<1> DEFINE suspended == {a \in Accounts : Account(a) \in DOMAIN g.nodes /\ world.status[a] = "SUSPENDED"}
           late == [a \in suspended |-> Status("suspended", <<0, 0>>)]
<1>1. /\ phase = "accounts" /\ todo = {} /\ phase' = "enrich"
      /\ statuses' = Over(statuses, late)
      /\ UNCHANGED <<input, tree, current, creds, resolution, edges, clients>>
  BY DEF Finish
<1>2. InOrganization
  BY <1>1 DEF IInv, Progress
<1>3. /\ \A a \in Accounts : Account(a) \in DOMAIN g.nodes <=> world.parent[a] \in PlacesUnder
      /\ DOMAIN statuses = Active
      /\ \A a \in DOMAIN statuses : statuses[a].status \in {"scanned", "unreachable"}
  <2>1. Reading = {}
    BY <1>1 DEF Reading
  <2>2. QED
    BY <1>1, <1>2, <2>1 DEF RInv, Visited
<1>4. suspended = {a \in Due : world.status[a] = "SUSPENDED"}
  BY <1>3 DEF Due
<1>5. DOMAIN late = suspended /\ \A a \in suspended : late[a].status = "suspended"
  BY DEF Status
<1> HIDE DEF late, suspended
<1>6. /\ DOMAIN statuses' = DOMAIN statuses \cup suspended
      /\ \A a \in DOMAIN statuses : statuses'[a] = statuses[a]
      /\ \A a \in suspended \ DOMAIN statuses : statuses'[a] = late[a]
  BY <1>1, <1>5 DEF Over
<1>7. suspended \cap DOMAIN statuses = {}
  BY <1>3, <1>4 DEF Active
<1>8. DOMAIN statuses' = Due
  BY <1>3, <1>4, <1>6 DEF Due, Active
<1>9. \A a \in Due : statuses'[a].status = "suspended" <=> world.status[a] = "SUSPENDED"
  <2> SUFFICES ASSUME NEW a \in Due
               PROVE  statuses'[a].status = "suspended" <=> world.status[a] = "SUSPENDED"
    OBVIOUS
  <2>1. CASE a \in suspended
    BY <1>4, <1>5, <1>6, <1>7, <2>1
  <2>2. CASE a \in DOMAIN statuses
    <3>1. statuses'[a].status \in {"scanned", "unreachable"} /\ world.status[a] = "ACTIVE"
      BY <1>3, <1>6, <2>2 DEF Active
    <3>2. QED
      BY <3>1
  <2>3. QED
    BY <1>6, <1>8, <2>1, <2>2
<1>10. Scanned' = Scanned /\ \A a \in Scanned : statuses'[a] = statuses[a]
  <2>1. \A a \in suspended : statuses'[a].status # "scanned"
    BY <1>5, <1>6, <1>7
  <2>2. QED
    BY <1>6, <2>1 DEF Scanned
<1>11. Counted'
  BY <1>1, <1>10, CountsStay DEF RInv
<1>12. AccountsAreReported'
  <2>1. \A a \in Scanned' : Counts(a)'
    BY <1>1, <1>2, <1>11, SameScope DEF Counted
  <2>2. QED
    BY <1>1, <1>8, <1>9, <2>1, SameScope DEF AccountsAreReported, Counts
<1>13. QED
  BY <1>1, <1>11, <1>12 DEF RInv, Explored, Visited

\* The summary accounts for every active and every suspended account under the scope,
\* and no other: with the outcome it can have, and with the counts of its own regions
\* (walk, ingestOrganization, newScannedAccountStatus, setRegionCoverage).
THEOREM ReportedAccounts == Spec => []AccountsAreReported
<1>1. IInv /\ RInv /\ [Next]_vars => RInv'
  <2> SUFFICES ASSUME IInv, RInv, [Next]_vars PROVE RInv'
    OBVIOUS
  <2>1. ASSUME NEW p \in frontier, Walk(p) PROVE RInv'
    BY <2>1, ReportWalk
  <2>2. ASSUME NEW a \in todo, Enter(a) \/ AssumeFails(a) PROVE RInv'
    BY <2>2, ReportEnter, ReportAssumeFails
  <2>3. ASSUME NEW r \in account.left, Hydrate(r) PROVE RInv'
    BY <2>3, ReportHydrate
  <2>4. CASE DescribeOrganization \/ TreeFails \/ TreeDone
    BY <2>4, ReportDescribe, ReportTreeFails, ReportTreeDone
  <2>5. CASE ResolveExplicit \/ ResolveEnabled \/ ResolveByAggregator \/ ResolveBySweep \/ ResolveFails
    BY <2>5, ReportResolve
  <2>6. CASE HydrateFails
    BY <2>6, ReportAbandon DEF HydrateFails
  <2>7. CASE AccountIsAll
    <3>1. ~InOrganization /\ UNCHANGED input
      BY <2>7 DEF AccountIsAll, InOrganization
    <3>2. QED
      BY <3>1, ReportNone
  <2>8. CASE MetricClients
    <3>1. phase = "enrich" /\ phase' = "done" /\ UNCHANGED <<input, tree, entry, resolution, report, g>>
      BY <2>8 DEF MetricClients
    <3>2. Reading' = Reading
      BY <3>1 DEF Reading
    <3>3. QED
      BY <3>1, <3>2, ReportKept DEF Ready, report, tree
  <2>9. CASE Terminated \/ UNCHANGED vars
    <3>1. UNCHANGED vars
      BY <2>9 DEF Terminated
    <3>2. /\ UNCHANGED <<input, phase, frontier, todo, current, coverage, statuses, g>>
          /\ world' = world /\ scope' = scope /\ mode' = mode
      BY <3>1 DEF vars, input, tree, entry, resolution, report
    <3>3. QED
      BY <3>2, SameScope DEF RInv, Explored, Visited, Counted, Counts, AccountsAreReported, Found, Reading,
         Ready, Scanned, CountsOf
  <2>10. QED
    BY <2>1, <2>2, <2>3, <2>4, <2>5, <2>6, <2>7, <2>8, <2>9, ReportMerge, ReportFinish DEF Next
<1>2. RInv => AccountsAreReported
  BY DEF RInv
<1>3. QED
  BY <1>1, <1>2, ReportInit, Invariance, PTL DEF Spec
=============================================================================
