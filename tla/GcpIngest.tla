------------------------------ MODULE GcpIngest -----------------------------
(***************************************************************************)
(* A GCP inventory on its way into the graph and through a snapshot:       *)
(* Provider.Ingest (pkg/cloud/gcp/gcp.go) with its normalizer, linkers and *)
(* hierarchy builder, enrichment, --cache-file, replay and the migration   *)
(* of snapshots that predate regions.                                      *)
(*                                                                         *)
(* An asset is a record [name, type, project, owner, folders, org,         *)
(* location, disks, users, source]: project is the token of the search     *)
(* result and owner the project that the asset's name or parent spells,    *)
(* which differ for a bucket; disks, users and source are the resources it *)
(* names.  "" stands for an absent field, as in the code.                  *)
(***************************************************************************)
EXTENDS ResourceGraph

CONSTANTS
  Inventories,  \* the sets of assets a scope may hold
  Modelled,     \* the asset types with a normalizer
  Canonical     \* Canonical[l]: the region of location spelling l

Locations == DOMAIN Canonical

\* The project that contains a: the token of the search result, or else the one
\* its name spells.
Token(a) == IF a.project # "" THEN a.project ELSE a.owner

ASSUME LocationAssumption ==
  /\ "" \in Locations /\ Canonical[""] = ""
  /\ \A l \in Locations : Canonical[l] \in Locations /\ Canonical[Canonical[l]] = Canonical[l]

\* The types that links and rules are about have a normalizer, the containers none.
ASSUME ModelledAssumption ==
  /\ {"instance", "disk"} \subseteq Modelled
  /\ Modelled \cap {"project", "region", "folder", "organization"} = {}

\* Names are unique, and a project and a folder have one place in the hierarchy.
ASSUME InventoryAssumption ==
  \A inv \in Inventories :
    /\ IsFiniteSet(inv)
    /\ \A a \in inv :
         /\ a.location \in Locations
         /\ IsFiniteSet(a.folders) /\ IsFiniteSet(a.disks) /\ IsFiniteSet(a.users) /\ IsFiniteSet(a.source)
    /\ \A a, b \in inv :
         /\ a.name = b.name => a = b
         /\ Token(a) = Token(b) /\ Token(a) # "" => a.folders = b.folders /\ a.org = b.org
         /\ a.folders \cap b.folders # {} => a.org = b.org

VARIABLES
  assets,    \* the inventory
  todo,      \* the assets the listing has not delivered yet
  edges,     \* Ingest's set of edges
  g,         \* the graph
  phase,     \* "list", "failed", "enrich", "saved", "replay", "migrated"
  snapshot,  \* the cache file
  view       \* what could be read of the graph that was saved

vars == <<assets, todo, edges, g, phase, snapshot, view>>

Leaf(name) == <<"leaf", name>>
Project(p) == <<"project", p>>
Region(p, l) == <<"region", p, l>>
Folder(f) == <<"folder", f>>
Organization(o) == <<"organization", o>>

-----------------------------------------------------------------------------
(* Assets to nodes and edges *)

Normalized(a) == a.type \in Modelled

\* normalize*: one node for each asset of a known type, in its canonical region.
LeafNode(a, location) ==
  [kind |-> a.type, project |-> a.owner, location |-> location,
   users |-> Cardinality(a.users), metrics |-> {}]

Container(kind, project) ==
  [kind |-> kind, project |-> project, location |-> "", users |-> 0, metrics |-> {}]

\* The folders and the organization above the project of a.
AncestorsOf(a) ==
  {Folder(f) : f \in a.folders} \cup IF a.org = "" THEN {} ELSE {Organization(a.org)}

\* Slip: an asset without a normalizer builds its hierarchy too.
ContainerNodesOfAll(a) ==
  LET p == Token(a)
  IN IF p = "" THEN <<>>
     ELSE [r \in {Project(p)} \cup AncestorsOf(a) |-> Container(r[1], IF r[1] = "project" THEN p ELSE "")]

\* buildHierarchy: the containers of a, which must have a leaf ...
ContainerNodes(a) ==
  LET p == Token(a)  l == Canonical[a.location]
  IN IF ~Normalized(a) \/ p = "" THEN <<>>
     ELSE [r \in {Project(p)} \cup (IF l = "" THEN {} ELSE {Region(p, l)}) \cup AncestorsOf(a) |->
             Container(r[1], IF r[1] \in {"project", "region"} THEN p ELSE "")]

\* ... and the containment edges above its project: to every folder, and from
\* there, or straight from the project, to the organization.
AncestorEdges(a) ==
  LET p == Project(Token(a))  above == {Folder(f) : f \in a.folders}
  IN {Edge(p, f, "contains") : f \in above}
     \cup IF a.org = "" THEN {}
          ELSE {Edge(x, Organization(a.org), "contains") : x \in IF above = {} THEN {p} ELSE above}

\* ... and below it: by way of the region, if a has one.
ContainmentEdges(a) ==
  LET p == Token(a)  l == Canonical[a.location]
  IN IF ~Normalized(a) \/ p = "" THEN {}
     ELSE AncestorEdges(a) \cup
          IF l = "" THEN {Edge(Leaf(a.name), Project(p), "contains")}
          ELSE {Edge(Leaf(a.name), Region(p, l), "contains"),
                Edge(Region(p, l), Project(p), "contains")}

\* Link: an instance names its disks and networks; a disk names the instances that
\* use it and the snapshot or image it was made from.
LinkEdges(a) ==
  CASE a.type = "instance" ->
         {Edge(Leaf(a.name), Leaf(d), "attached_to") : d \in a.disks}
         \cup {Edge(Leaf(a.name), Leaf(n), "uses") : n \in a.source}
    [] a.type = "disk" ->
         {Edge(Leaf(u), Leaf(a.name), "attached_to") : u \in a.users}
         \cup {Edge(Leaf(a.name), Leaf(s), "created_from") : s \in a.source}
    [] OTHER -> {}

\* The nodes of the assets A, with their locations canonical or as spelled.
AsSpelled == [l \in Locations |-> l]

LeafNodes(A, region) ==
  [r \in {Leaf(a.name) : a \in A} |->
     LET a == CHOOSE a \in A : r = Leaf(a.name) IN LeafNode(a, region[a.location])]

-----------------------------------------------------------------------------

\* What release 2 wrote for these assets: locations as they were spelled, no
\* regions, and an edge from the leaf to its project.
Version2(A) ==
  LET known == {a \in A : Normalized(a)}
      owned == {a \in known : Token(a) # ""}
      containers == UNION {{r \in DOMAIN ContainerNodes(a) : r[1] # "region"} : a \in owned}
      nodes == Over(LeafNodes(known, AsSpelled),
                    [r \in containers |-> Container(r[1], IF r[1] = "project" THEN r[2] ELSE "")])
      links == UNION {LinkEdges(a) : a \in A}
      above == UNION {AncestorEdges(a) : a \in owned}
      all == links \cup above \cup {Edge(Leaf(a.name), Project(Token(a)), "contains") : a \in owned}
  IN WriteSnapshot(AddEdges(AddNodes(NewGraph, nodes), SetToBag(all)), 2)

NoSnapshot == WriteSnapshot(NewGraph, 0)

\* What rules and renderers can read of a graph.
View(h) == [nodes |-> h.nodes,
            out |-> [r \in DOMAIN h.nodes |-> Out(h, r)],
            in |-> [r \in DOMAIN h.nodes |-> In(h, r)]]

Init ==
  /\ assets \in Inventories
  /\ edges = {}
  /\ g = NewGraph
  /\ view = View(NewGraph)
  /\ \/ phase = "list" /\ todo = assets /\ snapshot = NoSnapshot
     \/ phase = "saved" /\ todo = {} /\ snapshot = Version2(assets)

\* The callback of ListAssets, for the assets in whatever order they come.
Visit(a) ==
  /\ phase = "list" /\ a \in todo
  /\ todo' = todo \ {a}
  /\ g' = AddNodes(AddNodes(g, IF Normalized(a) THEN LeafNodes({a}, Canonical) ELSE <<>>),
                   ContainerNodes(a))
  /\ edges' = edges \cup ContainmentEdges(a) \cup LinkEdges(a)
  /\ UNCHANGED <<assets, phase, snapshot, view>>

\* The listing fails, or the context is done at the next asset: no graph.
ListFails ==
  /\ phase = "list"
  /\ phase' = "failed"
  /\ g' = NewGraph
  /\ edges' = {}
  /\ todo' = {}
  /\ UNCHANGED <<assets, snapshot, view>>

\* The edges are added once each, and the graph is sealed.
Seal ==
  /\ phase = "list" /\ todo = {}
  /\ g' = Freeze(AddEdges(g, SetToBag(edges)))
  /\ edges' = {}
  /\ phase' = "enrich"
  /\ UNCHANGED <<assets, todo, snapshot, view>>

\* A value arrives for a resource that answers to the name, in the graph or not.
Enrich(a) ==
  /\ phase = "enrich"
  /\ g' = SetMetric(g, Leaf(a.name), "value")
  /\ UNCHANGED <<assets, todo, edges, phase, snapshot, view>>

\* The cache file, or graph.json of the artifacts.
Save ==
  /\ phase \in {"enrich", "migrated"}
  /\ snapshot' = WriteSnapshot(g, 3)
  /\ view' = View(g)
  /\ phase' = "saved"
  /\ g' = NewGraph
  /\ UNCHANGED <<assets, todo, edges>>

Replay ==
  /\ phase = "saved"
  /\ g' = LoadSnapshot(snapshot)
  /\ phase' = "replay"
  /\ UNCHANGED <<assets, todo, edges, snapshot, view>>

\* MigrateV2ToV3 ---------------------------------------------------------------

\* The project a leaf hangs off: by its containment edge, or else by its name.
\* The edges of a leaf to several projects do not occur.
Owners(h, r) ==
  LET by == {e.to : e \in {e \in DOMAIN Out(h, r) :
                e.kind = "contains" /\ e.to \in DOMAIN h.nodes /\ h.nodes[e.to].kind = "project"}}
  IN IF by # {} THEN by ELSE {Project(h.nodes[r].project)} \cap DOMAIN h.nodes

Leaves(h) == {r \in DOMAIN h.nodes : r[1] = "leaf"}
Located(h) == {r \in Leaves(h) : Canonical[h.nodes[r].location] # ""}

RegionOf(h, r, p) == Region(p[2], Canonical[h.nodes[r].location])
Chain(h, r, p) == {Edge(r, RegionOf(h, r, p), "contains"), Edge(RegionOf(h, r, p), p, "contains")}
CanonicalNodes(nodes) == [r \in DOMAIN nodes |-> [nodes[r] EXCEPT !.location = Canonical[@]]]
Canonicalised(h) == [h EXCEPT !.nodes = CanonicalNodes(h.nodes)]
WithRegions(h, regions) == AddNodes(Unfreeze(h), [r \in regions |-> Container("region", r[2])])

\* Slip: every leaf adds the edge of its region again.
MigratedEdgewise(h) ==
  LET placed == {x \in Located(h) \X DOMAIN h.nodes : x[2] \in Owners(h, x[1])}
  IN IF Leaves(h) = {} \/ \E r \in DOMAIN h.nodes : h.nodes[r].kind = "region" THEN h
     ELSE Freeze(AddEdges(WithRegions(Canonicalised(h), {RegionOf(h, x[1], x[2]) : x \in placed}),
                          BagUnion({SetToBag(Chain(h, x[1], x[2])) : x \in placed})))

\* Every leaf with a location gets it spelled canonically, and a region between
\* itself and its project; the added edges form a set.
Migrated(h) ==
  LET placed == {x \in Located(h) \X DOMAIN h.nodes : x[2] \in Owners(h, x[1])}
  IN IF Leaves(h) = {} \/ \E r \in DOMAIN h.nodes : h.nodes[r].kind = "region" THEN h
     ELSE Freeze(AddEdges(WithRegions(Canonicalised(h), {RegionOf(h, x[1], x[2]) : x \in placed}),
                          SetToBag(UNION {Chain(h, x[1], x[2]) : x \in placed})))

\* buildGraph migrates what is older than version 3.
Migrate ==
  /\ phase = "replay" /\ snapshot.version < 3
  /\ g' = Migrated(g)
  /\ phase' = "migrated"
  /\ UNCHANGED <<assets, todo, edges, snapshot, view>>

\* Slip: the users the disk itself names are not looked at.
UnattachedByEdges(h) ==
  {r \in Leaves(h) : h.nodes[r].kind = "disk" /\ InDegree(h, r, "attached_to") = 0}

\* Guards P2 and P3 of the detached_disk rule.
Unattached(h) ==
  {r \in Leaves(h) : /\ h.nodes[r].kind = "disk"
                     /\ InDegree(h, r, "attached_to") = 0
                     /\ h.nodes[r].users = 0}

Terminated ==
  /\ phase = "failed" \/ (phase = "replay" /\ snapshot.version = 3)
  /\ UNCHANGED vars

Next ==
  \/ \E a \in assets : Visit(a) \/ Enrich(a)
  \/ ListFails \/ Seal \/ Save \/ Replay \/ Migrate \/ Terminated

Spec == Init /\ [][Next]_vars

-----------------------------------------------------------------------------
(* Properties *)

\* Each in-edge of a node is an out-edge of another and no edge counts twice, so the
\* degree of a node is the number of its neighbours.
IndexesAgree(h) ==
  \A r, s \in DOMAIN h.nodes : \A k \in {"contains", "attached_to", "uses", "created_from"} :
    LET e == Edge(r, s, k)
    IN /\ BagIn(e, h.out) <=> BagIn(e, h.in)
       /\ BagIn(e, h.out) => h.out[e] = 1 /\ h.in[e] = 1

NodeKind == Modelled \cup {"project", "region", "folder", "organization"}

\* Every variable stays in its type; the two indexes of the graph agree and hold an edge
\* once (Graph.AddEdge, Freeze, MigrateV2ToV3).
TypeOK ==
  /\ assets \in Inventories
  /\ todo \subseteq assets
  /\ phase \in {"list", "failed", "enrich", "saved", "replay", "migrated"}
  /\ \A r \in DOMAIN g.nodes :
       /\ g.nodes[r].kind \in NodeKind
       /\ g.nodes[r].location \in Locations
       /\ g.nodes[r].metrics \subseteq {"value"}
  /\ IsABag(g.out) /\ IsABag(g.in)
  /\ g.frozen => IndexesAgree(g)
  /\ g.frozen <=> phase \in {"enrich", "replay", "migrated"}
  /\ g.dangling \in Nat
  /\ snapshot.version \in {0, 2, 3}

Known == {a \in assets : Normalized(a)}
Current == phase = "enrich" \/ (phase = "replay" /\ snapshot.version = 3) \/ phase = "migrated"

\* The containment step from r, as a relation on the nodes of h.
Above(h, R) == {e.to : e \in {e \in DOMAIN h.out : e.kind = "contains" /\ e.from \in R}}

\* Four steps lead from a leaf to its organization: region, project, folder.
Containers(h, r) ==
  LET one == Above(h, {r})  two == Above(h, one)  three == Above(h, two)
  IN one \cup two \cup three \cup Above(h, three)

\* Whatever the order of the listing: walking out from a leaf meets exactly its
\* region, project, folders and organization, all of them nodes, and there is no
\* container without a leaf under it (hierarchy.go buildHierarchy).  A migration
\* builds the tier a fresh scan has and puts every leaf in its canonical place
\* (gcp.go MigrateV2ToV3).
HierarchyIsExact ==
  Current =>
    /\ \A a \in Known : Containers(g, Leaf(a.name)) = DOMAIN ContainerNodes(a)
    /\ DOMAIN g.nodes = {Leaf(a.name) : a \in Known} \cup
                        UNION {Containers(g, Leaf(a.name)) : a \in Known}
    /\ phase = "migrated" =>
         \A a \in Known : g.nodes[Leaf(a.name)].location = Canonical[a.location]

\* A disk passes for detached if and only if neither it nor an instance of the scope
\* says otherwise: an instance outside the scope keeps it attached, and the order of
\* the listing, a replay and a migration make no difference (linker.go linkDiskUsers,
\* detached_disk guards P2 and P3).
DetachedExactly ==
  Current \/ phase = "replay" =>
    Unattached(g) = {Leaf(d.name) : d \in {d \in assets :
      /\ d.type = "disk" /\ d.users = {}
      /\ \A i \in assets : i.type = "instance" => d.name \notin i.disks}}

\* A snapshot is replayed with full fidelity: nodes, metrics and adjacency of every
\* node are what they were when it was written (snapshot.go, docs/offline.md).
ReplayPreservesView ==
  phase = "replay" /\ snapshot.version = 3 => View(g) = view

=============================================================================
