------------------------------ MODULE AwsIngest -----------------------------
(***************************************************************************)
(* Provider.Ingest of pkg/cloud/aws: one account, or the accounts of an    *)
(* organization or of one of its units.  An organization's tree is walked  *)
(* first; then each account is entered by the caller's own credentials or  *)
(* by an assumed role, its regions are resolved, each region is read, and  *)
(* what was read is merged.  Last, EnrichMetrics makes its clients.        *)
(*                                                                         *)
(* A world is what the cloud answers when it answers: the place of every   *)
(* unit and account, their status, the account the credentials belong to,  *)
(* and for each account its enabled regions, those with a Resource         *)
(* Explorer index, whether there is an aggregator, and its resources.      *)
(***************************************************************************)
EXTENDS ResourceGraph, Integers

CONSTANTS
  Worlds,    \* the clouds to scan
  Scopes,    \* [kind |-> "account", "organization" or "unit", id |-> ...]
  Modes,     \* of "explicit", "describe_regions", "resource_explorer"
  Explicit,  \* the regions of --aws-regions
  Nobody     \* an account id that is not known

ASSUME ScopeAssumption == \A s \in Scopes : s.kind \in {"account", "organization", "unit"}

\* Blank names are dropped from the list (canonicaliseRegions).
ASSUME ExplicitAssumption == IsFiniteSet(Explicit) /\ "" \notin Explicit

\* A cloud: the credentials are those of an account in it, regions are finitely many
\* and have names, a volume is known by its id in its account and region, and its users
\* are finitely many and, when they exist, instances of the same account and region.
\* A listing shows an attachment for each user; one may also name no instance.
IsWorld(w) ==
  /\ w.caller \in DOMAIN w.status /\ Nobody \notin DOMAIN w.status
  /\ \A a \in DOMAIN w.status : /\ IsFiniteSet(w.enabled[a]) /\ "" \notin w.enabled[a]
                               /\ IsFiniteSet(w.indexed[a]) /\ "" \notin w.indexed[a]
  /\ \A u, v \in w.volumes :
       <<u.account, u.region, u.id>> = <<v.account, v.region, v.id>> => u = v
  /\ \A v \in w.volumes :
       /\ IsFiniteSet(v.users)
       /\ v.attached \in Nat /\ Cardinality(v.users) <= v.attached
       /\ \A i \in w.instances : i.id \in v.users => i.account = v.account /\ i.region = v.region

ASSUME WorldAssumption == \A w \in Worlds : IsWorld(w)

VARIABLES
  world, scope, mode,
  phase,       \* "start", "tree", "accounts", "resolve", "hydrate", "enrich", "done", "failed"
  frontier,    \* the places whose children are still to be listed
  todo,        \* the active accounts not yet entered
  caller,      \* what callerAccountID answered
  current,     \* the account being ingested
  creds,       \* the account its client addresses
  account,     \* its graph so far: [g, edges, regions, left]
  unanswered,  \* the regions whose search failed
  coverage,    \* lastRegionEnabledCount and lastRegionSearchableCount
  lastRegions, statuses,
  g, edges,
  clients      \* (account, region) -> the account whose metrics its client reads

input == <<world, scope, mode>>
tree == <<frontier, todo>>
entry == <<caller, current, creds>>
resolution == <<account, unanswered, coverage>>
report == <<lastRegions, statuses>>
vars == <<input, phase, tree, entry, resolution, report, g, edges, clients>>

Unknown == -1

Accounts == DOMAIN world.status
Organization == <<"organization", world.organization>>
Unit(u) == <<"unit", u>>
Root == <<"root", "r">>
Account(a) == <<"account", a>>
Region(a, r) == <<"region", a, r>>
Resource(kind, a, r, id) == <<kind, a, r, id>>

Node(kind, a, r, users, described) ==
  [kind |-> kind, project |-> a, location |-> r, users |-> users,
   described |-> described, metrics |-> {}]

Container(kind, a) == Node(kind, a, "", 0, TRUE)

-----------------------------------------------------------------------------
(* buildOrgTree *)

Init ==
  /\ world \in Worlds /\ scope \in Scopes /\ mode \in Modes
  /\ phase = IF scope.kind = "account" THEN "resolve" ELSE "start"
  /\ frontier = {} /\ todo = {}
  /\ caller = Nobody
  /\ current = IF scope.kind = "account" THEN scope.id ELSE Nobody
  /\ creds = IF scope.kind = "account" THEN world.caller ELSE Nobody
  /\ account = [g |-> NewGraph, edges |-> {}, regions |-> {}, left |-> {}]
  /\ unanswered = {} /\ coverage = <<0, 0>>
  /\ lastRegions = {} /\ statuses = <<>>
  /\ g = NewGraph /\ edges = {} /\ clients = <<>>

\* The organization the credentials belong to must be the one that was named.  A
\* named unit stands in for the root.
DescribeOrganization ==
  LET top == IF scope.kind = "unit" THEN Unit(scope.id) ELSE Root
  IN /\ phase = "start"
     /\ scope.kind = "organization" => scope.id = world.organization
     /\ phase' = "tree"
     /\ frontier' = {top}
     /\ g' = AddNodes(g, [r \in {Organization, top} \ {Root} |-> Container(r[1], "")])
     /\ edges' = {Edge(top, Organization, "contains")}
     /\ UNCHANGED <<input, todo, entry, resolution, report, clients>>

\* walk: the units and the accounts under a place.  Only an account that is not
\* suspended hangs off it, and only an active one is scanned.
Walk(p) ==
  LET units == {u \in DOMAIN world.above : world.above[u] = p}
      here == {a \in Accounts : world.parent[a] = p}
      open == {a \in here : world.status[a] # "SUSPENDED"}
  IN /\ phase = "tree" /\ p \in frontier
     /\ frontier' = (frontier \ {p}) \cup {Unit(u) : u \in units}
     /\ g' = AddNodes(g, [r \in {Unit(u) : u \in units} \cup {Account(a) : a \in here} |->
                            IF r[1] = "unit" THEN Container("unit", "") ELSE Container("account", r[2])])
     /\ edges' = edges \cup {Edge(Unit(u), p, "contains") : u \in units}
                       \cup {Edge(Account(a), p, "contains") : a \in open}
     /\ todo' = todo \cup {a \in here : world.status[a] = "ACTIVE"}
     /\ UNCHANGED <<input, phase, entry, resolution, report, clients>>

\* Any call of the walk fails, or the organization is another: no graph at all.
TreeFails ==
  /\ phase \in {"start", "tree"}
  /\ phase' = "failed"
  /\ g' = NewGraph /\ edges' = {} /\ todo' = {} /\ frontier' = {}
  /\ UNCHANGED <<input, entry, resolution, report, clients>>

\* The tree is complete.  Whose credentials these are may stay unknown.
TreeDone ==
  /\ phase = "tree" /\ frontier = {}
  /\ phase' = "accounts"
  /\ caller' \in {world.caller, Nobody}
  /\ UNCHANGED <<input, tree, current, creds, resolution, report, g, edges, clients>>

-----------------------------------------------------------------------------
(* The accounts *)

\* Slip: an unknown caller is taken for the owner of every account.
OwnOrUnknown(a) == a = caller \/ caller = Nobody

\* The caller's own account needs no role; nobody's account is the caller's own.
Own(a) == a = caller

Enter(a) ==
  /\ phase = "accounts" /\ a \in todo
  /\ phase' = "resolve"
  /\ todo' = todo \ {a}
  /\ current' = a
  /\ creds' = IF Own(a) THEN world.caller ELSE a
  /\ UNCHANGED <<input, frontier, caller, resolution, report, g, edges, clients>>

Status(s, cover) == [status |-> s, enabled |-> cover[1], searchable |-> cover[2]]
Unreachable(a) == Over(Only(a, Status("unreachable", <<0, 0>>)), statuses)

AssumeFails(a) ==
  /\ phase = "accounts" /\ a \in todo /\ ~Own(a)
  /\ todo' = todo \ {a}
  /\ statuses' = Unreachable(a)
  /\ UNCHANGED <<input, phase, frontier, entry, resolution, lastRegions, g, edges, clients>>

\* An error before the account is complete: nothing of it is kept, and in an
\* organization the others go on.
Abandon ==
  /\ account' = [g |-> NewGraph, edges |-> {}, regions |-> {}, left |-> {}]
  /\ IF scope.kind = "account"
     THEN phase' = "failed" /\ UNCHANGED statuses
     ELSE phase' = "accounts" /\ statuses' = Unreachable(current)
  /\ UNCHANGED <<input, tree, entry, lastRegions, g, edges, clients>>

-----------------------------------------------------------------------------
(* resolveRegionsWithClient *)

Resources(a) == {x \in world.volumes \cup world.instances : x.account = a}
Holding(regions) == {r \in regions : \E x \in Resources(creds) : x.region = r}

Proceed(regions) ==
  /\ phase' = "hydrate"
  /\ account' = [g |-> AddNodes(NewGraph, Only(Account(current), Container("account", current))),
                 edges |-> {}, regions |-> regions, left |-> regions]
  /\ UNCHANGED <<input, tree, entry, report, g, edges, clients>>

ResolveExplicit ==
  /\ phase = "resolve" /\ mode = "explicit"
  /\ coverage' = <<Cardinality(Explicit), Cardinality(Explicit)>>
  /\ unanswered' = {}
  /\ Proceed(Explicit)

\* DescribeRegions; an account without regions is an error.
ResolveEnabled ==
  LET enabled == world.enabled[creds]
  IN /\ phase = "resolve" /\ mode = "describe_regions" /\ enabled # {}
     /\ coverage' = <<Cardinality(enabled), Cardinality(enabled)>>
     /\ unanswered' = {}
     /\ Proceed(enabled)

\* Slip: a list that fails leaves the counts of the account before.
AggregatorCoverageIfListed(listed) ==
  IF listed THEN <<Unknown, Cardinality(world.indexed[creds])>> ELSE coverage

\* The coverage an aggregator shows: what is enabled is not asked, and the list of
\* the indexes may fail.
AggregatorCoverage(listed) ==
  <<Unknown, IF listed THEN Cardinality(world.indexed[creds]) ELSE Unknown>>

\* An aggregator answers for every region that has an index.
ResolveByAggregator ==
  /\ phase = "resolve" /\ mode = "resource_explorer" /\ world.aggregator[creds]
  /\ \E listed \in BOOLEAN : coverage' = AggregatorCoverage(listed)
  /\ unanswered' = {}
  /\ Proceed(Holding(world.indexed[creds]))

\* Without one every enabled region is asked.  A region that does not answer makes
\* the sweep an error, but in a variable of the block; the one that is looked at
\* behind it is still that of the question whether there is an aggregator.
ResolveBySweep ==
  LET enabled == world.enabled[creds]  indexed == world.indexed[creds]
  IN /\ phase = "resolve" /\ mode = "resource_explorer" /\ enabled # {}
     /\ \E known, listed \in BOOLEAN, silent \in SUBSET enabled :
          /\ known => ~world.aggregator[creds]
          /\ coverage' = <<Cardinality(enabled),
                           IF listed THEN Cardinality(enabled \cap indexed) ELSE Unknown>>
          /\ unanswered' = silent
          /\ IF ~known THEN Abandon
             ELSE Proceed(IF silent = {} THEN Holding(enabled \cap indexed) ELSE {})

\* DescribeRegions fails, or the query of the aggregator after its coverage was set.
ResolveFails ==
  /\ phase = "resolve"
  /\ \/ mode # "explicit" /\ UNCHANGED <<coverage, unanswered>>
     \/ /\ mode = "resource_explorer" /\ world.aggregator[creds]
        /\ \E listed \in BOOLEAN : coverage' = AggregatorCoverage(listed)
        /\ UNCHANGED unanswered
  /\ Abandon

-----------------------------------------------------------------------------
(* ingestAccountWithClient *)

Here(S, r) == {x \in S : x.account = creds /\ x.region = r}
Volume(v) == Resource("volume", current, v.region, v.id)
Instance(i, r) == Resource("instance", current, r, i)

\* A volume counts the attachments listed in it, those without an instance included.
VolumeNodes(r) == [n \in {Volume(v) : v \in Here(world.volumes, r)} |->
  LET v == CHOOSE v \in Here(world.volumes, r) : n = Volume(v)
  IN Node("volume", current, r, v.attached, TRUE)]

\* What a volume names as its user becomes a node even if no instance is listed.
Stubs(r) == [n \in {Instance(i, r) : i \in UNION {v.users : v \in Here(world.volumes, r)}} |->
  Node("instance", current, r, 0, FALSE)]

InstanceNodes(r) == [n \in {Instance(i.id, r) : i \in Here(world.instances, r)} |->
  Node("instance", current, r, 0, TRUE)]

\* The region's container and what its volumes show.
VolumesAndUsers(r) ==
  Over(Only(Region(current, r), Container("region", current)), Over(VolumeNodes(r), Stubs(r)))

\* Slip: the instances are written before the volumes.
RegionNodesInstancesFirst(h, r) == AddNodes(AddNodes(h, InstanceNodes(r)), VolumesAndUsers(r))

\* The last write wins: a listed instance takes the place of its stub.
RegionNodes(h, r) == AddNodes(AddNodes(h, VolumesAndUsers(r)), InstanceNodes(r))

\* An attachment that names no instance is passed over: it has neither stub nor edge.
RegionEdges(r) ==
  {Edge(Region(current, r), Account(current), "contains")}
  \cup {Edge(n, Region(current, r), "contains") : n \in DOMAIN VolumeNodes(r) \cup DOMAIN InstanceNodes(r)}
  \cup UNION {{Edge(Instance(i, r), Volume(v), "attached_to") : i \in v.users} : v \in Here(world.volumes, r)}

Hydrate(r) ==
  /\ phase = "hydrate" /\ r \in account.left
  /\ account' = [account EXCEPT !.g = RegionNodes(@, r), !.edges = @ \cup RegionEdges(r),
                                !.left = @ \ {r}]
  /\ UNCHANGED <<input, phase, tree, entry, unanswered, coverage, report, g, edges, clients>>

\* Slip: what was read so far is all there is.
HydrateFailsQuietly ==
  /\ phase = "hydrate" /\ account.left # {}
  /\ account' = [account EXCEPT !.left = {}]
  /\ UNCHANGED <<input, phase, tree, entry, unanswered, coverage, report, g, edges, clients>>

HydrateFails ==
  /\ phase = "hydrate" /\ account.left # {}
  /\ UNCHANGED <<unanswered, coverage>>
  /\ Abandon

-----------------------------------------------------------------------------
(* The merge, the report and the metrics *)

\* Slip: the graph is handed over open.
SealedOpen(h, E) == AddEdges(h, SetToBag(E))
Sealed(h, E) == Freeze(AddEdges(h, SetToBag(E)))

RegionsSoFar(regions) == lastRegions \cup regions

\* A single account is the graph.
AccountIsAll ==
  /\ phase = "hydrate" /\ account.left = {} /\ scope.kind = "account"
  /\ g' = Sealed(account.g, account.edges)
  /\ lastRegions' = RegionsSoFar(account.regions)
  /\ phase' = "enrich"
  /\ caller' \in {world.caller, Nobody}
  /\ UNCHANGED <<input, tree, current, creds, resolution, statuses, edges, clients>>

\* Of an account of an organization the containers stay behind, and so do the edges
\* of containment.
Merge ==
  LET h == Sealed(account.g, account.edges)
      leaves == {r \in DOMAIN h.nodes : h.nodes[r].kind \in {"volume", "instance"}}
  IN /\ phase = "hydrate" /\ account.left = {} /\ scope.kind # "account"
     /\ g' = AddNodes(g, [r \in leaves |-> h.nodes[r]])
     /\ edges' = edges \cup {e \in DOMAIN h.out : e.from \in DOMAIN h.nodes /\ e.kind # "contains"}
     /\ lastRegions' = RegionsSoFar(account.regions)
     /\ statuses' = Over(Only(current, Status("scanned", coverage)), statuses)
     /\ phase' = "accounts"
     /\ UNCHANGED <<input, tree, entry, resolution, clients>>

\* The suspended accounts are reported, and the graph is sealed.
Finish ==
  LET suspended == {a \in Accounts : Account(a) \in DOMAIN g.nodes /\ world.status[a] = "SUSPENDED"}
  IN /\ phase = "accounts" /\ todo = {}
     /\ statuses' = Over(statuses, [a \in suspended |-> Status("suspended", <<0, 0>>)])
     /\ g' = Sealed(g, edges)
     /\ phase' = "enrich"
     /\ caller' \in {world.caller, Nobody}
     /\ UNCHANGED <<input, tree, current, creds, resolution, lastRegions, edges, clients>>

\* EnrichMetrics: a client for every account and region with a listed instance, of
\* the caller's own credentials or of an assumed role; a role that is refused costs
\* its client.
MetricClients ==
  LET listed == {r \in DOMAIN g.nodes : g.nodes[r].kind = "instance" /\ g.nodes[r].described}
      places == {<<r[2], r[3]>> : r \in listed}
  IN /\ phase = "enrich"
     /\ \E refused \in SUBSET {p \in places : ~Own(p[1])} :
          clients' = [p \in places \ refused |-> IF Own(p[1]) THEN world.caller ELSE p[1]]
     /\ phase' = "done"
     /\ UNCHANGED <<input, tree, entry, resolution, report, g, edges>>

Terminated == phase \in {"done", "failed"} /\ UNCHANGED vars

Next ==
  \/ DescribeOrganization \/ TreeFails \/ TreeDone
  \/ \E p \in frontier : Walk(p)
  \/ \E a \in todo : Enter(a) \/ AssumeFails(a)
  \/ ResolveExplicit \/ ResolveEnabled \/ ResolveByAggregator \/ ResolveBySweep \/ ResolveFails
  \/ \E r \in account.left : Hydrate(r)
  \/ HydrateFails \/ AccountIsAll \/ Merge \/ Finish \/ MetricClients \/ Terminated

Spec == Init /\ [][Next]_vars

-----------------------------------------------------------------------------
(* Properties *)

\* Every variable stays in its type; what an account has left to read are regions it
\* resolved.
TypeOK ==
  /\ world \in Worlds /\ scope \in Scopes /\ mode \in Modes
  /\ phase \in {"start", "tree", "accounts", "resolve", "hydrate", "enrich", "done", "failed"}
  /\ todo \subseteq Accounts /\ DOMAIN statuses \subseteq Accounts
  /\ {caller, creds} \subseteq Accounts \cup {Nobody}
  /\ current \in Accounts \cup {IF scope.kind = "account" THEN scope.id ELSE Nobody}
  /\ account.left \subseteq account.regions
  /\ coverage[1] >= Unknown /\ coverage[2] >= Unknown
  /\ g.frozen <=> phase \in {"enrich", "done"}
  /\ \A r \in DOMAIN g.nodes : g.nodes[r].location # "" <=> r[1] \in {"volume", "instance"}

Ready == phase \in {"enrich", "done"}
InOrganization == scope.kind # "account"

\* The leaves that belong to account a in the graph, by the account in their ref.
LeavesOf(a) == {r \in DOMAIN g.nodes : r[1] \in {"volume", "instance"} /\ r[2] = a}

Scanned == {a \in DOMAIN statuses : statuses[a].status = "scanned"}

\* An account is merged whole or not at all: one that fails in its last region leaves
\* nothing behind, and one that is reported as scanned brings every resource of the
\* regions that were read (provider.go ingestOrganization).
AccountsAreWhole ==
  InOrganization =>
    /\ \A a \in Accounts \ Scanned : LeavesOf(a) = {}
    /\ mode # "resource_explorer" =>
         \A a \in Scanned :
           {r[4] : r \in {r \in LeavesOf(a) : g.nodes[r].described}} =
             {x.id : x \in {x \in Resources(a) :
                x.region \in IF mode = "explicit" THEN Explicit ELSE world.enabled[a]}}

\* The place the walk starts from, and the units under it: the least set of places
\* that has the top and is closed under the tree.
Top == IF scope.kind = "unit" THEN Unit(scope.id) ELSE Root
Places == {Top} \cup {Unit(u) : u \in DOMAIN world.above}
Closed(S) == Top \in S /\ \A u \in DOMAIN world.above : world.above[u] \in S => Unit(u) \in S
PlacesUnder == {p \in Places : \A S \in SUBSET Places : Closed(S) => p \in S}

\* The active and the suspended accounts under the scope.
Due == {a \in Accounts : world.parent[a] \in PlacesUnder /\ world.status[a] \in {"ACTIVE", "SUSPENDED"}}

\* What an account's own regions can be counted as: an aggregator is not asked what is
\* enabled, and a list of indexes that fails leaves what is searchable unknown.
CountsOf(a) ==
  LET n == Cardinality(IF mode = "explicit" THEN Explicit ELSE world.enabled[a])
  IN IF mode # "resource_explorer" THEN {<<n, n>>}
     ELSE IF world.aggregator[a] THEN {<<Unknown, Cardinality(world.indexed[a])>>, <<Unknown, Unknown>>}
     ELSE {<<n, Cardinality(world.enabled[a] \cap world.indexed[a])>>, <<n, Unknown>>}

\* The summary accounts for every active and every suspended account under the scope,
\* with the outcome it can have and with region counts of its own, not of the account
\* before it (provider.go newScannedAccountStatus, setRegionCoverage).
AccountsAreReported ==
  Ready /\ InOrganization =>
    /\ DOMAIN statuses = Due
    /\ \A a \in Due : statuses[a].status = "suspended" <=> world.status[a] = "SUSPENDED"
    /\ \A a \in Scanned : <<statuses[a].enabled, statuses[a].searchable>> \in CountsOf(a)

\* The account whose credentials read what the graph shows under an account.
Reader(a) == IF InOrganization THEN a ELSE world.caller

\* The two signs by which a rule tells that a volume is detached say what the listing
\* said of that volume, though its users be gone from the list, read in another region
\* first, or merged later: the count is that of its attachments, the edges are one for
\* each user named, so that neither sign alone is enough.  And a stub never hides an
\* instance that was listed (provider.go ingestAccountWithClient, instanceNode).
AttachedExactly ==
  Ready => \A r \in DOMAIN g.nodes :
    /\ g.nodes[r].kind = "volume" => \E v \in world.volumes :
         /\ <<v.account, v.region, v.id>> = <<Reader(r[2]), r[3], r[4]>>
         /\ g.nodes[r].users = v.attached
         /\ InDegree(g, r, "attached_to") = Cardinality(v.users)
    /\ g.nodes[r].kind = "instance" =>
         (g.nodes[r].described <=> \E i \in world.instances : i.id = r[4])

\* In an organization everything is read with credentials of the account it is
\* reported under, resources and metrics, also while it is not known whose the
\* credentials in hand are (provider.go ingestOrganization, EnrichMetrics).
ReadWithOwnersCredentials ==
  InOrganization =>
    /\ \A a \in Accounts : \A r \in LeavesOf(a) : g.nodes[r].described =>
         \E x \in Resources(a) : x.id = r[4]
    /\ \A p \in DOMAIN clients : clients[p] = p[1]

\* "Each failure below is therefore an error naming its remedy -- never a shorter
\* region list, which would look exactly like a clean scan" (provider.go
\* resolveRegionsWithClient): no account is read after a search that failed.
NeverAShorterList == phase = "hydrate" => unanswered = {}
=============================================================================
