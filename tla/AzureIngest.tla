----------------------------- MODULE AzureIngest ----------------------------
(***************************************************************************)
(* Provider.Ingest of pkg/cloud/azure: one subscription, or those below a  *)
(* management group or a tenant's root group.  The groups are walked depth *)
(* first, one request for the children of each, while administrators may   *)
(* move groups and subscriptions; then every subscription found is asked   *)
(* for its rows page by page, its machine sizes are loaded if a rule wants *)
(* machines, and its rows become nodes.  Last, EnrichMetrics makes its     *)
(* clients.                                                                *)
(*                                                                         *)
(* A world is what Azure answers when it answers: the group each group and *)
(* subscription is in, the groups it returns without properties, the pages *)
(* of rows of each subscription with the token of the page that follows,   *)
(* and the sizes each subscription is offered.                             *)
(***************************************************************************)
EXTENDS ResourceGraph, AzureNormalize, FiniteSetsExt

CONSTANTS
  Worlds,   \* [in, bare, pages, skus]
  Scopes,   \* [kind |-> "tenant", "group" or "subscription", id |-> ..., within |-> ...]
  MaxMoves  \* bound on what administrators do during one walk

VARIABLES
  world, scope,
  wantVM,     \* whether the selected rules look at machines
  moves,
  phase,      \* "walk", "next", "query", "shapes", "rows", "seal", "enrich", "done", "failed"
  stack,      \* the groups being walked: [ref |-> ..., left |-> children]
  visited,    \* the groups whose children were asked for
  todo,       \* the subscriptions found and not yet asked
  current,    \* the one being asked
  page, seen, rows,   \* of querySubscription: the page, the tokens, the rows so far
  regions, listed,    \* of Sizer.List: the regions left, the sizes so far
  sizer,      \* [loaded, byRegion, byName]
  statuses,
  g, edges,
  clients     \* the subscriptions with a metrics client

input == <<world, scope, wantVM>>
walk == <<stack, visited>>
query == <<page, seen, rows>>
shapes == <<regions, listed, sizer>>
vars == <<input, moves, phase, walk, todo, current, query, shapes, statuses, g, edges, clients>>

Tenant(t) == <<"tenant", t>>
Group(m) == <<"group", m>>
Subscription(s) == <<"subscription", s>>
Region(s, r) == <<"region", s, r>>
Leaf(id) == <<"leaf", id>>
Nothing == <<"nothing">>

Container(kind, s, r) == [kind |-> kind, project |-> s, location |-> r]

RowsIn(pages) == UNION {pages[i].rows : i \in DOMAIN pages}

\* A page is followed by the next, by none, or by one whose token came before; rows are
\* of the subscription they were asked of, and an ARM id names one resource.
ArePages(pages) ==
  /\ DOMAIN pages \subseteq Nat \ {Unnamed}
  /\ \A s \in DOMAIN pages :
       /\ Len(pages[s]) \in Nat \ {0} /\ DOMAIN pages[s] = 1..Len(pages[s])
       /\ \A i \in DOMAIN pages[s] :
            /\ pages[s][i].next \in {IF i = Len(pages[s]) THEN 0 ELSE i + 1} \cup 2..i
            /\ IsFiniteSet(pages[s][i].rows)
  /\ \A s, t \in DOMAIN pages : \A a \in RowsIn(pages[s]), b \in RowsIn(pages[t]) :
       /\ a.owner = s /\ a.subscription \in {Unnamed, s}
       /\ a.id = b.id /\ a.id # "" => a = b

\* Azure's answers hang together: what is in something is in a group.
IsWorld(w) ==
  /\ w = [in |-> w.in, bare |-> w.bare, pages |-> w.pages, skus |-> w.skus]
  /\ w.in = [x \in DOMAIN w.in |-> Group(w.in[x][2])]
  /\ \A x \in DOMAIN w.in :
       x = Group(x[2]) \/ (x = Subscription(x[2]) /\ x[2] \in DOMAIN w.pages)
  /\ ArePages(w.pages)

ASSUME WorldAssumption == \A w \in Worlds : IsWorld(w)

ASSUME ScopeAssumption ==
  /\ \A s \in Scopes :
       /\ s.kind \in {"tenant", "group", "subscription"}
       /\ s.kind = "subscription" => \A w \in Worlds : s.id \in DOMAIN w.pages
  /\ MaxMoves \in Nat

Subscriptions == DOMAIN world.pages
None == Unnamed
Single == scope.kind = "subscription"

Init ==
  /\ world \in Worlds /\ scope \in Scopes /\ wantVM \in BOOLEAN
  /\ moves = 0
  /\ phase = IF Single THEN "query" ELSE "walk"
  /\ stack = IF Single THEN <<>>
             ELSE <<[ref |-> IF scope.kind = "tenant" THEN Tenant(scope.id) ELSE Nothing,
                     left |-> {Group(scope.id)}]>>
  /\ visited = {} /\ todo = {}
  /\ current = IF Single THEN scope.id ELSE None
  /\ page = 1 /\ seen = {} /\ rows = {}
  /\ regions = {} /\ listed = {}
  /\ sizer = [loaded |-> {}, byRegion |-> <<>>, byName |-> <<>>]
  /\ statuses = <<>>
  /\ g = CASE Single -> AddNodes(NewGraph, Only(Subscription(scope.id), Container("subscription", scope.id, "")))
           [] scope.kind = "tenant" -> AddNodes(NewGraph, Only(Tenant(scope.id), Container("organization", None, "")))
           [] OTHER -> NewGraph
  /\ edges = {} /\ clients = {}

-----------------------------------------------------------------------------
(* walkManagementGroup *)

Here == Head(stack)
Children(m) == IF m \in world.bare THEN {} ELSE {x \in DOMAIN world.in : world.in[x] = m}
Without(c) == [Here EXCEPT !.left = @ \ {c}]
Under(c) == IF Here.ref = Nothing THEN {} ELSE {Edge(c, Here.ref, "contains")}

Pending == IF stack = <<>> THEN {} ELSE Here.left
Known(c) == IF c[1] = "group" THEN c \in visited ELSE c \in DOMAIN g.nodes

\* The children of a group are asked for, and are what they are now.
Visit(c) ==
  /\ phase = "walk" /\ c \in Pending /\ c[1] = "group" /\ ~Known(c)
  /\ visited' = visited \cup {c}
  /\ stack' = <<[ref |-> c, left |-> Children(c)], Without(c)>> \o Tail(stack)
  /\ g' = AddNodes(g, Only(c, Container("folder", None, "")))
  /\ edges' = edges \cup Under(c)
  /\ UNCHANGED <<input, moves, phase, todo, current, query, shapes, statuses, clients>>

\* Any request for children that fails ends the ingestion.
VisitFails(c) ==
  /\ phase = "walk" /\ c \in Pending /\ c[1] = "group" /\ ~Known(c)
  /\ phase' = "failed"
  /\ g' = NewGraph /\ edges' = {} /\ stack' = <<>> /\ todo' = {}
  /\ UNCHANGED <<input, moves, visited, current, query, shapes, statuses, clients>>

Discover(c) ==
  /\ phase = "walk" /\ c \in Pending /\ c[1] = "subscription" /\ ~Known(c)
  /\ todo' = todo \cup {c[2]}
  /\ stack' = <<Without(c)>> \o Tail(stack)
  /\ g' = AddNodes(g, Only(c, Container("subscription", c[2], "")))
  /\ edges' = edges \cup Under(c)
  /\ UNCHANGED <<input, moves, phase, visited, current, query, shapes, statuses, clients>>

\* Slip: what is met again is hung up again.
PassOverRehung(c) ==
  /\ phase = "walk" /\ c \in Pending /\ Known(c)
  /\ stack' = <<Without(c)>> \o Tail(stack)
  /\ edges' = edges \cup Under(c)
  /\ UNCHANGED <<input, moves, phase, visited, todo, current, query, shapes, statuses, g, clients>>

\* What is met again, because it was moved, stays where it was met first.
PassOver(c) ==
  /\ phase = "walk" /\ c \in Pending /\ Known(c)
  /\ stack' = <<Without(c)>> \o Tail(stack)
  /\ UNCHANGED <<input, moves, phase, visited, todo, current, query, shapes, statuses, g, edges, clients>>

\* All children of a group are done; after the last group the walk is.
Return ==
  /\ phase = "walk" /\ Pending = {}
  /\ stack' = Tail(stack)
  /\ phase' = IF stack' = <<>> THEN "next" ELSE phase
  /\ UNCHANGED <<input, moves, visited, todo, current, query, shapes, statuses, g, edges, clients>>

\* The groups above a group, itself included.
Above(m) ==
  LET up(M) == M \cup {world.in[x] : x \in M \cap DOMAIN world.in}
  IN up(up(up({m})))

\* Meanwhile somebody moves a group or a subscription.
Move ==
  /\ phase = "walk" /\ moves < MaxMoves
  /\ \E x \in DOMAIN world.in, m \in {world.in[y] : y \in DOMAIN world.in} :
       /\ m # world.in[x] /\ x \notin Above(m)
       /\ world' = [world EXCEPT !.in[x] = m]
  /\ moves' = moves + 1
  /\ UNCHANGED <<scope, wantVM, phase, walk, todo, current, query, shapes, statuses, g, edges, clients>>

-----------------------------------------------------------------------------
(* ingestSubscriptions *)

\* In the order of their ids.
Ask ==
  /\ phase = "next" /\ todo # {}
  /\ current' = Min(todo)
  /\ todo' = todo \ {current'}
  /\ phase' = "query"
  /\ page' = 1 /\ seen' = {} /\ rows' = {}
  /\ UNCHANGED <<input, moves, walk, shapes, statuses, g, edges, clients>>

Status(s, word) == Over(Only(s, word), statuses)

\* What a subscription has that the query asks for.
Asked(all) == {row \in all : Single /\ scope.within # "" => row.group = scope.within}

\* One page of rows.  A token that came before is an error.
ReadPage ==
  LET p == world.pages[current][page]
  IN /\ phase = "query" /\ p.readable /\ p.next \notin seen
     /\ rows' = rows \cup Asked(p.rows)
     /\ IF p.next = 0 THEN phase' = "shapes" /\ UNCHANGED <<page, seen>>
        ELSE page' = p.next /\ seen' = seen \cup {p.next} /\ UNCHANGED phase
     /\ UNCHANGED <<input, moves, walk, todo, current, shapes, statuses, g, edges, clients>>

\* Slip: the rows that came before the error are kept.
PageFailsKeepingRows ==
  /\ phase = "query"
  /\ phase' = "shapes"
  /\ UNCHANGED <<input, moves, walk, todo, current, query, shapes, statuses, g, edges, clients>>

\* A page that cannot be had or read, or the token again: nothing is kept of the
\* subscription, and if it is the scope nothing at all.
PageFails ==
  /\ phase = "query"
  /\ rows' = {}
  /\ IF Single THEN phase' = "failed" /\ UNCHANGED statuses
     ELSE phase' = "next" /\ statuses' = Status(current, "unreachable")
  /\ UNCHANGED <<input, moves, walk, todo, current, page, seen, shapes, g, edges, clients>>

\* vmRegions.
MachineRegions ==
  {locationRegion(row.location) : row \in {row \in rows : row.type = "vm"}} \ {""}

\* LoadSubscription is called for machines only, and once for a subscription.
NoShapes ==
  /\ phase = "shapes" /\ regions = {}
  /\ ~wantVM \/ MachineRegions = {} \/ current \in sizer.loaded
  /\ phase' = "rows"
  /\ UNCHANGED <<input, moves, walk, todo, current, query, shapes, statuses, g, edges, clients>>

LoadShapes ==
  /\ phase = "shapes" /\ regions = {}
  /\ wantVM /\ MachineRegions # {} /\ current \notin sizer.loaded
  /\ regions' = MachineRegions /\ listed' = {}
  /\ phase' = "list"
  /\ UNCHANGED <<input, moves, walk, todo, current, query, sizer, statuses, g, edges, clients>>

\* resourceSKULocations: its locations, or else those of its location infos.
LocationsOf(sku) ==
  {locationRegion(l) : l \in IF sku.locations # {} THEN sku.locations ELSE sku.infos} \ {""}

\* machineSpecFromSKU: a machine with a name, its CPUs and its memory.
Usable(sku) ==
  sku.name # "" /\ sku.type = "virtualMachines" /\ sku.standard /\ sku.vcpu > 0 /\ sku.mem > 0
SpecOf(sku) == [vcpu |-> sku.vcpu, mem |-> sku.mem, family |-> sku.family]

\* What LoadSubscription commits of the sizes listed for a subscription.
Committed(s, skus) ==
  LET usable == {k \in skus : Usable(k)}
  IN [loaded |-> sizer.loaded \cup {s},
      byRegion |-> Over(Only(s, UNION {{<<r, k.name>> : r \in LocationsOf(k)} : k \in usable}), sizer.byRegion),
      byName |-> Over([n \in {k.name : k \in usable} |-> SpecOf(CHOOSE k \in usable : k.name = n)], sizer.byName)]

\* The sizes a subscription is offered in a region: the filter of the request.
Offered(s, r) == {k \in world.skus[s] : r \in LocationsOf(k)}

\* Slip: each region is committed as it comes.
ListRegionCommitting(r) ==
  /\ phase = "list" /\ r \in regions
  /\ regions' = regions \ {r}
  /\ listed' = listed \cup Offered(current, r)
  /\ sizer' = Committed(current, listed')
  /\ phase' = IF regions' = {} THEN "rows" ELSE phase
  /\ UNCHANGED <<input, moves, walk, todo, current, query, statuses, g, edges, clients>>

\* The sizes of one region; after the last of them they are committed.
ListRegion(r) ==
  /\ phase = "list" /\ r \in regions
  /\ regions' = regions \ {r}
  /\ listed' = listed \cup Offered(current, r)
  /\ sizer' = IF regions' = {} THEN Committed(current, listed') ELSE sizer
  /\ phase' = IF regions' = {} THEN "rows" ELSE phase
  /\ UNCHANGED <<input, moves, walk, todo, current, query, statuses, g, edges, clients>>

\* A listing that fails is a warning: the machines will have no shape.
ListRegionFails ==
  /\ phase = "list"
  /\ regions' = {} /\ listed' = {}
  /\ phase' = "rows"
  /\ UNCHANGED <<input, moves, walk, todo, current, query, sizer, statuses, g, edges, clients>>

\* addResourceRows: a machine gets the shape of its size, a gallery version its
\* references, in the one pass that makes the nodes.
Hydrated(n, row) ==
  LET spec == sizer.byName[n.attrs["vm_size"]]
  IN IF n.kind = "instance" /\ wantVM /\ n.attrs["vm_size"] \in DOMAIN sizer.byName
     THEN [n EXCEPT !.attrs = Over(@, [vcpu_count |-> spec.vcpu, memory_gib |-> spec.mem,
                                       machine_family |-> spec.family])]
     ELSE IF n.asset = "azure_gallery_image_version"
     THEN [n EXCEPT !.attrs = Over(@, [reference_count |-> CountFor(row, rows),
                                       references_complete |-> ReferencesComplete(rows)])]
     ELSE n

NodesOf(all) == UNION {{Hydrated(n, row) : n \in NormalizeResource(row)} : row \in all}

AddRows ==
  LET nodes == NodesOf(rows)
      placed == {n \in nodes : n.location # ""}
      leaf(id) == CHOOSE n \in nodes : n.id = id
  IN /\ phase = "rows"
     /\ g' = AddNodes(g, Over([r \in {Leaf(n.id) : n \in nodes} |-> leaf(r[2])],
                              [r \in {Region(current, n.location) : n \in placed} |->
                                 Container("region", r[2], r[3])]))
     /\ edges' = edges \cup UNION {{Edge(Leaf(n.id), Region(current, n.location), "contains"),
                                    Edge(Region(current, n.location), Subscription(current), "contains")} :
                                   n \in placed}
     /\ IF Single THEN phase' = "seal" /\ UNCHANGED statuses
        ELSE /\ phase' = "next"
             /\ statuses' = Status(current, IF rows = {} THEN "no_resources" ELSE "scanned")
     /\ UNCHANGED <<input, moves, walk, todo, current, query, shapes, clients>>

AllAsked ==
  /\ phase = "next" /\ todo = {}
  /\ phase' = "seal"
  /\ UNCHANGED <<input, moves, walk, todo, current, query, shapes, statuses, g, edges, clients>>

Seal ==
  /\ phase = "seal"
  /\ g' = Freeze(AddEdges(g, SetToBag(edges)))
  /\ phase' = "enrich"
  /\ UNCHANGED <<input, moves, walk, todo, current, query, shapes, statuses, edges, clients>>

\* Slip: every subscription of the graph gets a client.
OwnersFound == {r[2] : r \in {r \in DOMAIN g.nodes : r[1] = "subscription"}}

\* The subscriptions that have machines.
Owners == {g.nodes[r].project : r \in {r \in DOMAIN g.nodes : g.nodes[r].kind = "instance"}} \ {Unnamed}

\* EnrichMetrics makes a client for each, as far as they can be made.
Enrich ==
  /\ phase = "enrich"
  /\ clients' \in SUBSET Owners
  /\ phase' = "done"
  /\ UNCHANGED <<input, moves, walk, todo, current, query, shapes, statuses, g, edges>>

Provider ==
  \/ \E c \in Pending : Visit(c) \/ VisitFails(c) \/ Discover(c) \/ PassOver(c)
  \/ Return \/ Ask \/ ReadPage \/ PageFails \/ NoShapes \/ LoadShapes
  \/ (\E r \in regions : ListRegion(r)) \/ ListRegionFails
  \/ AddRows \/ AllAsked \/ Seal \/ Enrich

Terminated == phase \in {"done", "failed"} /\ UNCHANGED vars

Next == Provider \/ Move \/ Terminated

\* Every request is answered or fails: the scan's deadline sees to it.
Spec == Init /\ [][Next]_vars /\ WF_vars(Provider)
-----------------------------------------------------------------------------
(* Properties *)

Sealed == phase \in {"enrich", "done"}
Leaves == {r \in DOMAIN g.nodes : r[1] = "leaf"}

\* Every variable stays in its type; only a subscription whose rows are on the graph
\* is asked for metrics.
TypeOK ==
  /\ world.in \in [DOMAIN world.in -> {Group(m) : m \in {x[2] : x \in {world.in[y] : y \in DOMAIN world.in}}}]
  /\ moves \in 0..MaxMoves
  /\ phase \in {"walk", "next", "query", "shapes", "list", "rows", "seal", "enrich", "done", "failed"}
  /\ todo \subseteq Subscriptions /\ current \in Subscriptions \cup {None}
  /\ page \in Nat /\ seen \subseteq Nat
  /\ sizer.loaded \subseteq Subscriptions
  /\ \A s \in DOMAIN statuses : statuses[s] \in {"scanned", "no_resources", "unreachable"}
  /\ g.frozen <=> Sealed
  /\ \A s \in clients : Single \/ (s \in DOMAIN statuses /\ statuses[s] = "scanned")

Top == CASE Single -> Subscription(scope.id)
         [] scope.kind = "tenant" -> Tenant(scope.id)
         [] scope.kind = "group" -> Group(scope.id)
Up(r) == {e.to : e \in {e \in DOMAIN g.out : e.kind = "contains" /\ e.from = r}}

\* What hangs off something else.
Hung == DOMAIN g.nodes \ (Leaves \cup {Top})

\* Whatever is moved while the groups are walked, the graph is one tree: each node
\* hangs off one other, nothing goes round in circles, so every way up ends at the
\* scope, and no edge is left dangling.  If nothing is moved it is the tenant's tree,
\* with every group and subscription below the scope (hierarchy.go
\* walkManagementGroup, provider.go addResourceRows).
OneContainer ==
  Sealed =>
    /\ g.dangling = 0
    /\ \A r \in DOMAIN g.nodes :
         IF r = Top \/ (r \in Leaves /\ g.nodes[r].location = "") THEN Up(r) = {}
         ELSE Cardinality(Up(r)) = 1 /\ Up(r) \subseteq DOMAIN g.nodes \ Leaves
    /\ \A R \in SUBSET Hung : R # {} => \E r \in R : Up(r) \cap R = {}
    /\ ~Single /\ moves = 0 =>
         /\ Group(scope.id) \in DOMAIN g.nodes
         /\ \A m \in DOMAIN g.nodes : \A x \in Children(m) \ {Group(scope.id)} :
              x \in DOMAIN g.nodes /\ Up(x) = {m}

RowsOf(s) == Asked(RowsIn(world.pages[s]))
MachinesOf(s) == {row \in RowsOf(s) : row.type = "vm"}
OfferedTo(s) ==
  {k \in UNION {Offered(s, locationRegion(m.location)) : m \in MachinesOf(s)} : Usable(k)}

\* The sizes of a subscription are known for all regions of its machines or not at
\* all: a ladder that lacks the sizes of a region whose listing failed would advise
\* from what is left.  And once they are known every machine of a listed size has its
\* shape (sizer.go LoadSubscription, provider.go addResourceRows).
ShapesFromWholeLoads ==
  /\ DOMAIN sizer.byRegion = sizer.loaded
  /\ \A s \in sizer.loaded :
       /\ wantVM
       /\ sizer.byRegion[s] = UNION {{<<r, k.name>> : r \in LocationsOf(k)} : k \in OfferedTo(s)}
       /\ \A m \in MachinesOf(s) :
            Leaf(m.id) \in Leaves /\ Text(m, "vmSize") \in {k.name : k \in OfferedTo(s)}
              => "vcpu_count" \in DOMAIN g.nodes[Leaf(m.id)].attrs

Everybody == UNION {DOMAIN w.pages : w \in Worlds}

\* What the ingestion is to OwnerIngest.
Holdings ==
  [s \in Everybody |->
     IF s \in Subscriptions THEN {n.id : n \in UNION {NormalizeResource(row) : row \in RowsOf(s)}}
     ELSE {}]
Found ==
  IF phase = "failed" THEN {} ELSE IF Single THEN {scope.id}
  ELSE {r[2] : r \in {r \in DOMAIN g.nodes : r[1] = "subscription"}}
Word(status) == IF status = "unreachable" THEN status ELSE "answered"
Answers ==
  IF ~Single THEN [s \in DOMAIN statuses |-> Word(statuses[s])]
  ELSE IF phase \in {"seal", "enrich", "done"} THEN Only(scope.id, "answered") ELSE <<>>
Visible == {r[2] : r \in Leaves}
Stage == IF Sealed THEN "ready" ELSE IF phase = "failed" THEN "failed" ELSE "reading"

Ingestion == INSTANCE OwnerIngest WITH
  Owner <- Everybody, holdings <- Holdings, found <- Found, told <- Answers,
  visible <- Visible, state <- Stage

\* An ingestion gives every subscription it found in full or names it, publishes when
\* all are told of, fails as a whole only while nothing is told, and comes to an end
\* ("a tenant/management-group total is only acceptable when every omitted
\* subscription is named", provider.go ingestSubscriptions).
ImplementsOwnerIngest == Ingestion!AbsSpec
=============================================================================
