# tellury: models, checks and proofs

`tellury scan` reads a cloud inventory (GCP, AWS, Azure) into a resource graph,
fills in utilisation metrics, runs a set of read-only waste rules over the graph
and reports findings with a price each. This directory holds TLA+ models of the
parts of it that are hard to test, TLC configurations that check them on small
instances, and TLAPS proofs of most of what they check, for all instances.

Paths below are relative to the repository root.

## 1. The system

| Component | State it keeps | Operations | What makes it correct |
|---|---|---|---|
| Rule engine (`pkg/rules/engine.go`, `adapt.go`) | result (findings, tallies, errors) under one mutex, atomic progress counter, a derived context | dispatch, evaluate candidates, publish, report, join | the result does not depend on the schedule; a cut-short run reports a prefix; nothing blocks |
| Metric enrichment (`pkg/metrics/{gcp,aws,azure}/client.go`) | semaphore, collected errors, atomic counter; writes node metrics | spawn jobs, read pages, reduce and write, collect errors | bounded concurrency, failure isolation, no value from part of an answer |
| Progress (`internal/cli/progress.go`) | stored count and total of a phase, last tick | Begin, Set, End | every job is counted; the last line is the total |
| Scan pipeline (`internal/cli/scan.go`, `root.go`) | cache file, artifact directories, exit code | the twelve numbered steps of `runScan` | replay fidelity, artifacts before output, honest status and exit code |
| Resource graph (`pkg/graph`) | nodes, out-index, in-index, frozen flag, dangling counter | AddNode, AddEdge, Freeze, SetMetric, snapshots | the two indexes agree; a sealed graph keeps its topology |
| GCP ingestion (`pkg/cloud/gcp`) | the graph under construction, edge set, join index | list, normalize, link, build hierarchy, seal, enrich, migrate | order of the listing is irrelevant; containment chains are exact; a migrated snapshot equals a fresh one |
| AWS ingestion (`pkg/cloud/aws`) | organization tree, account statuses, region coverage | walk organization, assume role, resolve regions, describe, merge | no account is omitted without a status; the merge loses nothing |
| Azure ingestion (`pkg/cloud/azure`) | management group tree, subscription statuses, machine shapes by subscription | walk groups, query subscriptions page by page, list shapes by region, add rows, image references | each subscription once, whole or named as unreachable; one container for each node; shapes from whole listings only |
| Image references (all three clouds) | references with a completeness flag | collect, stamp on images | an image in use is never reported as unused |
| Pricing catalogues (`pkg/pricing/*`) | lazily loaded table, prices asked one by one, refusals, provenance of the last answers, currency | UnitPrice, InstancePrice, VMPrice, load, SetCurrency | one answer for one key, whoever asks and whatever fails; a listed price resolves; evidence names what answered |
| Rules (`pkg/rules/{gcp,aws,azure}/...`, 16 of them) | none | guards, cost, evidence | missing data is a skip and never a finding; no finding claims more than the bill without saying that it is a bound |
| Selection, plan, coverage, sort (`pkg/rules/*.go`) | the registry | Select, Plan, MetricsBlocked, SortFindings | the plan fetches what the rules read |
| Configuration (`internal/config`), renderers (`pkg/output`), other commands | none | validate, print | -- |

How they meet: `runScan` looks for the cache file, builds a provider, lets it
**ingest** the graph (which is then frozen), has it **enrich** the frozen graph
through `SetMetric` from concurrent fetch jobs, writes the **cache**, and hands
the graph to the **engine**, whose workers only read it, ask the shared **pricer**
for prices, and publish into one result. Report, artifact directory, stdout and
exit code follow sequentially. A cache hit replaces ingest and enrichment by
`LoadSnapshot` and, for old snapshots, a migration; the provider of such a scan is offline,
so it has neither the machine sizes that an ingest learns nor live prices.

What is hard: the two goroutine pools and the callbacks out of them; the scan's
deadline and signals, which every stage treats differently; partial failure of
owners, pages and files; files that outlive a scan and are shared by the next
ones; and inventories that arrive in any order and name things that are not in
them. `PROJECT.json` lists these hazards at their lines, with the properties
that watch them.

## 2. Modules

| Module | Models | State and actions |
|---|---|---|
| `RuleOutcomes` | what a rule decides for a candidate, as a table | constants only |
| `RuleEvaluation` | the engine's promise, without workers | a rule is closed once, with the findings of a prefix of its candidates |
| `RuleEngine` | `Engine.Run` and `evalNodeRule` | dispatcher (`Send`, `Drop`, `CloseJobs`, `Finish`), worker steps from `StopIterating` to `Report`, `Expire` for the context |
| `FetchPool` | `Fill`, `runFetchJobs`, `fillOne` of three clients, and the progress phase | `Spawn`, `Read`, `ReadFails`, `Write`, `Collect`, `Count`, `Set`, `Release`, `Return`, `EndPhase` |
| `Scan` | `runScan`, several scans over one disk | one action per step that reads or writes something shared or can fail; `Expire` and `Kill` at any point |
| `Tables` | Go maps: one laid over another, the map of one entry | operators |
| `ResourceGraph` | `pkg/graph` as a value | operators; no variables |
| `SealedGraph` | what the proofs say of a graph before and after `Freeze` | operators; no variables |
| `GcpIngest` | `gcp.Provider.Ingest`, `EnrichMetrics`, `MigrateV2ToV3`, and the snapshot between them | `Visit`, `ListFails`, `Seal`, `Enrich`, `Save`, `Replay`, `Migrate` |
| `AwsIngest` | `aws.Provider.Ingest` for an account, a unit or an organization, and the clients `EnrichMetrics` makes | `DescribeOrganization`, `Walk`, `TreeFails`, `TreeDone`; `Enter`, `AssumeFails`; one `Resolve...` action per region mode; `Hydrate`, `HydrateFails`; `AccountIsAll` or `Merge`, `Finish`, `MetricClients` |
| `ImageReferences` | the image, snapshot and reference inventories of the three clouds and the guards of the four rules that read them | AWS: `Begin`, `ListImages`, `ListImagesFails`, `ListSnapshots`, `ListReferences`, `Emit`; GCP: `ListTemplates`; Azure: `ReadRows`, `ReadRowsFails` |
| `RuleLadders` | the guards and the cost of the sixteen rules | operators: `Guards(rule, node)` is a ladder of named guards, `Legs(rule, node)` what is asked of the pricer and how the answers combine |
| `AwsPrices`, `GcpPrices`, `AzurePrices`, `ManagedDiskTiers` | how a vendor's listing becomes a price of a key: `indexDoc`, `matchSKU`, the retail filters, disk tiers, region fallbacks, the billing currency | operators |
| `PriceCatalogue` | the pricer the rules share: the load under `sync.Once`, lookups, evidence, currency | one record `c`; steps `Start`, `List`, `ListFails`, `ServicesFail`, `Loaded` |
| `PricedRules` | workers that walk the nodes of their rules and price them: `evalNodeRule` with its `Cost` in steps | `Settle` the currency, `Take` a rule, `Skip`, `Ask`, `UnitPrice`, `Load`, `Check` and `Fetch` of a price asked singly, `FetchFails`, `Conclude` |
| `AzureNormalize` | `normalize.go` and `image_references.go` of Azure: a row becomes a node | operators |
| `OwnerIngest` | what the ingestion of many owners promises | `Meet`, `Deliver`, `Miss`, `Publish`, `Fail` |
| `AzureIngest` | `azure.Provider.Ingest` of a subscription, a management group or a tenant, while the groups are moved about | `Visit`, `VisitFails`, `Discover`, `PassOver`, `Return`; `Move`; `Ask`, `ReadPage`, `PageFails`; `LoadShapes`, `ListRegion`, `ListRegionFails`; `AddRows`, `AllAsked`, `Seal`, `Enrich` |

`RuleEngineProofs`, `FetchPoolProofs`, `ScanProofs`, `ImageReferencesProofs`,
`AwsIngestProofs`, `GcpIngestProofs`, `AzureIngestProofs` and `PricedRulesProofs` hold the
theorems about the module of that name (section 4). The proofs of an ingestion begin with
the lemmas it needs about the operators of `ResourceGraph`.

`RuleEngine` implements `RuleEvaluation` by a refinement mapping (`Evaluation`), and
`AzureIngest` implements `OwnerIngest` (`Ingestion`): nothing of the pages, shapes and
moves of the one is in the other. `GcpIngest`, `AwsIngest` and `AzureIngest` are built on
the operators of `ResourceGraph`. `PricedRules` composes `RuleLadders` with
`PriceCatalogue`, which is built on the three modules of vendor prices; its Azure nodes
are made by `AzureNormalize` from rows, so that a field can be missing where it really
is: in the payload. `Scan` uses the two
pools as what they promise: enrichment leaves any subset of the metrics behind
(`FetchPool`), evaluation gives all findings, or any part of them when the scan
was cancelled (`RuleEvaluation`).

A definition that follows a comment `Slip:` is not part of the specification. It
is the next definition with a plausible mistake, and `PROJECT.json` ("mutants")
pairs it with the property that TLC finds violated once it takes the place of the
real one.

### What is abstracted

* In `RuleEngine` a finding is the candidate it is about, so "the same findings" means
  the same set. Amounts and evidence are in `PricedRules`; confidence and the sort
  order are left out.
* Tallies are kept for each node rather than as counts by code: this is what
  shows that no candidate is judged twice.
* A metric value is the set of reads behind it. The reduction to a percentile and
  the coverage quotient are left out. The read loops of the three clients differ
  in one respect that matters: in GCP the first metric type with data wins a
  resource, in AWS all pages count. `plan.firstWins` tells them apart.
* `Scan` judges a resource by what `Engine.Run` is given: the graph with its metrics, and
  from the rest of the `Pass` the prices, the sizer and the clock. A price is there or not
  (`opts.priced`: a replay is offline and finds prices in the price fixture or not at
  all), a smaller size is known or not (`sizes`), a resource is old enough at the clock of
  the scan or not (`opts.at`). A finding is its resource and one of two actions, `resize`
  or `remove`; `Wasteful` has those above the minimum of their rule. The GCP sizer is a
  table in the binary (`opts.embedded`); those of AWS and Azure are filled by the ingest,
  of any part of the machines as far as the listing succeeds, and are empty after a cache hit
  (`azure/provider.go:143`, `aws/provider.go:249`).
* What the filters let through (`--min-waste`, `--min-confidence`) is a set of findings
  (`opts.keeps`), so the amounts themselves are left out. `opts.narrow` is
  `--aws-use-resource-explorer`: an owner that answered may then lack any of its resources.
  Resources in `Gated` are read only if a selected rule asks for their type (all Azure
  and GCP types, images and snapshots on AWS); the others always (AWS volumes, addresses and
  instances).
* Asset names, regions and projects are model values in tuples. A location is
  canonicalised by a table (`Canonical`), which is assumed to be idempotent as
  `pricing.CanonicalRegion` is.
* In `AwsIngest` a cloud (`world`) is what the API answers when it answers, and
  every call may fail instead. The accounts of a tree may be entered in any order,
  which includes the order of the walk. Addresses and snapshots are resources
  like volumes without users and are left out; instance shapes only add attributes. A volume
  has `attached` attachments, of which those that name an instance are its `users`: an
  attachment without an instance id is counted but gets no edge
  (`normalize.go:159`, `provider.go:595`).
* In `FetchPool` a batch is written in one step. The write loops of the clients can be left half
  way by an error of `reduceTimeStat` for a reduction it does not know; every registered
  metric has one that it knows, so no job takes that way out.
* In `ImageReferences` an image reference is already parsed: it names an image, or
  the family or definition of an image with its owner, or it is unreadable. Ages
  are old enough or not. The count of a snapshot is over block devices, as in the code: one
  that two devices of an image name counts twice (`twice`) and is nobody's alone.
* In `PricedRules` prices, days and percentages are small integers, and a month has the 730 hours of `HoursPerMonth`. Rounding to cents
  is left out. A node carries, next to what the code knows, what it costs at the
  vendor's prices (`bill`), what it would cost at its full size (`full`: images and
  snapshots are priced by the size of their source) and what its rule should find
  (`saving`): these are the reference the amounts are checked against, and no action reads
  them. The `size_basis` evidence of the code is the `basis` of a finding.
* A catalogue lists services one after the other; in the model the documents of two
  services may come in any order, which contains the order of the code.
* In `AzureIngest` a row is a record of the fields the normalizer reads; the tree is
  what the service would answer at this moment, and `Move` changes it.
* The order into which `Freeze` sorts the indexes is left out; copies of an edge
  and edges with a missing end are kept, because a property is about them.

## 3. Runs

All bounds are in the `.cfg` files and the `MC*` modules.

| Run | Instance | What it shows |
|---|---|---|
| `rule_engine` | 3 rules with 3, 2 and 0 candidates, all outcome kinds, one failing rule, 2 workers, both settings of `FailFast`; 25,192 states | a run is a sequential evaluation, or a prefix of one |
| `fetch_pool` | 3 jobs over 2 slots, one plan in the shape of each client; 12,446 states | failures stay with their job, no value from part of an answer |
| `scan_pipeline` | 2 scans, 2 owners, 2 resources; three pairs of flags and environments; 683,436 states | replay, artifacts and exit code keep their promises |
| `gcp_ingest` | 3 inventories of up to 6 assets in every order, or their version 2 snapshot; 260 states | hierarchy and attachment do not depend on the order, nor on a replay |
| `aws_ingest` | 2 organizations of 4 accounts in 3 places, 2 regions, 4 scopes, 3 region modes; 19,986 states | accounts come whole or not at all, and the summary says which |
| `image_references` | 5 clouds of 2 owners with up to 4 images, 6 snapshots and 4 users; 2,060 states | what its own owner uses is never called unused |
| `priced_rules` | 9 nodes of AWS, 12 of GCP, 8 of Azure, one by region and one of two lists, live, recorded, broken and without prices, and 128 payloads with a field missing; 2 workers; 119,316 states | amounts, evidence and skips are right whatever a catalogue does |
| `azure_ingest` | 4 subscriptions under 3 groups, 2 pages, 2 regions, 2 moves, 6 scopes; 187,064 states | the ingestion implements `OwnerIngest`, with one container for each node |
| `scan_replay_status`, `scan_deadline_ok`, `aws_narrowing`, `images_other_owners` | the same instances | a sentence of the repository that the code does not live up to; see section 6 |

**rule_engine.** `ScheduleIndependent`: an uncancelled run returns, of every rule,
exactly the findings and skips of all candidates. `PrefixOnly`: at any moment the
published findings and the tallies of a rule come from one prefix.
`NothingLostAtJoin`: after the join no findings remain in a worker.
`FailFastSurfaces`: a run
that cut itself short returns an error. `RunReturns`: every schedule ends.
`ImplementsEvaluation`: refinement. Two workers suffice for every race on the
result (a third adds no new pair of steps), three rules for a worker to take a
second rule while the other is still busy, and three candidates for a prefix that is
neither empty nor whole with a skip inside.

**fetch_pool.** `TypeOK` bounds the jobs that hold a slot. `NoPartialSeries`: a value on
the graph stands for a whole batch, never for the pages before an error or a blend of
types. `FailureIsolated`: when `Fill` returns every job that did not report an error has
its values, which is why rules may read without a lock. `FillReturns`. Three jobs
over two slots make the spawning loop wait; the plans contain a batch of two
reads, a job of two batches, a job with none and two jobs that write one slot.

**scan_pipeline.** `ReplayRepeatsFindings`: whole scans of one graph say the same of what
they judge alike (`Alike`): a resource whose rule both selected, whose price both or
neither find, that is old enough to both or neither, and whose smaller sizes both or
neither know, as far as the filters of both let the finding through. It does not say that a
replay repeats a report: of an Azure machine that the live scan found too large the
replay, if it has a price, says that it could go, because no size is in a snapshot
(section 6). `ArtifactsBeforeOutput`,
`ConsecutiveScansKeepArtifacts`, `ScansEnd`. `GateVouchesForScope`: exit code 0 of a gated,
live scan with status ok means that nothing was there to flag in any owner that the
filters would have let through. A scan that Resource Explorer narrows is exempt, since a
region that it left out, or that failed the sweep (`aws_narrowing`), shows in no status. Of the
two resources, a disk is judged by its topology from the first instant on and a machine
by a metric, later, with a smaller size that may be known. The scans of a pair differ in
scope and filters, in the instant they count ages to (with sizes from the binary), or in
narrowing and rules. Two scans are enough for every pair of steps on
the cache and the directories; all scans of the model fall into one second, the
only case in which directory names meet. `MaxName` bounds the suffixes (the code
tries 99).

**gcp_ingest.** `TypeOK` (the two indexes agree and hold an edge once),
`HierarchyIsExact`, `DetachedExactly`, `ReplayPreservesView`. The inventories
hold an instance with disks that it names or that name it, a disk whose instance
is out of scope, a bucket whose owner is spelled as a number, an asset without a
location, one without a folder, one without an organization and one without a
normalizer: the cases the code branches on. Each listing order and each choice of
metrics that arrive before the save is explored. Only the deterministic end of a
listing counts for most properties, which is why the run is small.

**aws_ingest.** `AccountsAreWhole`, `AccountsAreReported`, `AttachedExactly`, `ReadWithOwnersCredentials`. The two organizations hold an
active, a suspended and a closing account, a unit in a unit, an account without
an aggregator index between two with one, regions with and without an index, a
volume attached to a listed instance, one attached to an instance that is in no
list, and one with an attachment that names no instance. `AttachedExactly` keeps the two
apart: the count is that of the attachments, the edges are one for each user named.
Four scopes: the caller's own account, the organization, a mistyped one, a unit that does or does not hold the caller's account. Two regions are enough for
an account to fail after its first, three active accounts for one to fail between
two that do not.

**image_references.** `UnusedWhereLooked`, `SnapshotBilledOnce`. On AWS two images
share a snapshot, an instance, a fleet, a template and a spot fleet name an image
each, and a second account uses an image of the first; on GCP a template names a
family, another is unreadable; on Azure a scale set names a definition and any
subset of the machines may be hidden. With every selection of the two asset types
and every call failing, before or after some of its pages.

**priced_rules.** `LookupsAgree`: two rules, or one rule twice, never get two answers for
a key, whether the catalogue loaded, failed or was still loading when they asked.
`ExcessIsABound`: a finding that claims more than the node costs, also when a price of one
of its parts could not be had, says that its size is that of a source (`size_basis`), and
is never above the price of that size. An AMI, a snapshot and an image whose
source is larger than what is stored are among the nodes; of the other thirteen rules no
finding is above the bill. `EvidenceNamesTheSource`: the region and the
substitution told are those of the entry that answered. `IgnoranceNeverFires`: a node
whose payload lacks a field is not reported unless it would be with it, apart from the
fields whose absence the rules read as a no (`SaysNo`, see the assumptions in section 4).
`ListedPricesResolve`: without failures the label is the currency of the figures, the
listed price of every node is found and the saving is exact, but for the machines of a
known gap: a GCE machine that is not covered by custom rates of its family without a region
is skipped for want of a price (`KnownGap`, after the comment at `gcp/catalog.go:782`). The
run has a predefined machine, whose rate is listed by the token of its family, and a custom one. `RulesEnd`: a load that fails
lets the others go. Each provider has a node for each of its rules, and some
that their rules should skip: attached, referenced, too cheap, with an inventory that is
not complete, with two rows that disagree. The listings hold decoys: early deletion,
archive, spot, dedicated and Windows prices, a tier above zero. With two workers one
rule asks while the other loads; a third would only wait too. The scenes with a missing
field run the rules of that one node.

**azure_ingest.** `OneContainer`: whatever is moved during the walk the graph is a tree
below the scope (one edge up from each node, and no set of nodes in which every way up
stays), and without moves it is the tenant's tree. `ShapesFromWholeLoads`: a
subscription has shapes for all regions of its machines or for none.
`ImplementsOwnerIngest`: refinement, with termination. The tree has a group in a group
in a group, and subscriptions at each level, so a move can hide something from the walk
or show it twice; `MaxMoves` = 2 is enough for one thing to be moved before a group is read
and another after. One subscription fails on its second page, one repeats a token, one
is empty, one has only machines in a scale set and a row without a name.

### Fairness

* `RuleEngine`: weak fairness of the dispatcher and of every worker. A goroutine
  that can run is scheduled; a rule's `Eval` ends because it walks a finite list
  and its price lookups run under the scan's context. Nothing is assumed about
  `Expire`.
* `FetchPool`: weak fairness of the caller and of each job. A read comes back with
  an answer or an error because it is made with the scan's context, which
  `--timeout` (default 5m) ends.
* `Scan`: weak fairness of a running scan's own steps. No fairness for `Start`,
  `Expire` and `Kill`.
* `PricedRules`: weak fairness of each worker's next step. A request of a catalogue is
  made with the scan's context, so it is answered or fails.
* `AzureIngest`: weak fairness of the provider's next step, for the same reason; none for
  `Move`. What may repeat for ever is bounded by the code: visited groups, and page
  tokens that came before.
* `GcpIngest`, `AwsIngest`, `ImageReferences`: none, and no liveness is claimed.

Deadlock is checked everywhere; `Terminated` is the stutter of a finished system.

## 4. Proofs

Everything here is checked by TLAPS for every value of the constants: any number of
rules, workers, jobs, scans, accounts, groups and resources, any order and any failure.
None of the properties is inductive. Each proof module states an inductive invariant
`IInv`, TLC checked it on the run of that module first, and `Invariance` proves it; the
other theorems follow from it. A step is split by action, and an action by conjunct.

| Module | Theorem | Property of the run |
|---|---|---|
| `RuleEngineProofs` | `TypeCorrect`, `JoinIsComplete`, `Deterministic`, `PrefixResults`, `FailFastReturnsError` | `TypeOK`, `NothingLostAtJoin`, `ScheduleIndependent`, `PrefixOnly`, `FailFastSurfaces` |
| | `Refinement` | `ImplementsEvaluation`: each step is one of `RuleEvaluation` or a stutter |
| `FetchPoolProofs` | `TypeCorrect`, `NeverPartial`, `FailuresIsolated` | `TypeOK` (the slot bound), `NoPartialSeries`, `FailureIsolated` |
| `ScanProofs` | `TypeCorrect`, `ReplaysRepeat`, `ArtifactsFirst`, `DirectoriesApart`, `GateVouches` | `TypeOK`, `ReplayRepeatsFindings`, `ArtifactsBeforeOutput`, `ConsecutiveScansKeepArtifacts`, `GateVouchesForScope` |
| `GcpIngestProofs` | `TypeCorrect`, `HierarchyExact`, `NoDiskMistaken`, `ReplayFaithful` | `TypeOK` (the indexes agree), `HierarchyIsExact`, `DetachedExactly`, `ReplayPreservesView` |
| `AwsIngestProofs` | `TypeCorrect`, `WholeAccounts`, `Attachments`, `OwnersCredentials`, `ReportedAccounts` | `TypeOK`, `AccountsAreWhole`, `AttachedExactly`, `ReadWithOwnersCredentials`, `AccountsAreReported` |
| `AzureIngestProofs` | `TypeCorrect`, `OneTree`, `WholeLoads` | `TypeOK`, `OneContainer`, `ShapesFromWholeLoads` |
| | `Refinement` | the safety half of `ImplementsOwnerIngest`: `Ingestion!AbsSafety` |
| `ImageReferencesProofs` | `TypeCorrect`, `LookedBeforeUnused`, `BilledOnce` | `TypeOK`, `UnusedWhereLooked`, `SnapshotBilledOnce` |
| `PricedRulesProofs` | `TypeCorrect`, `OnePrice`, `EvidenceTrue`, `IgnoranceSilent` | `TypeOK`, `LookupsAgree`, `EvidenceNamesTheSource`, `IgnoranceNeverFires` |

### The invariants, and why they are needed

**Rule engine.** The properties speak of published results and finished runs, but what a
worker will publish is still in its local slice. `HeldOnce`, `HeldPrefix` and
`ClosedDecided` say that a rule in evaluation is in one worker's hands and what that
worker holds is the result of the prefix it has decided; `Untouched`, `ErrorsExact`,
`CancelCause` and `Phases` tell the rest: which rules have no results yet, who is in the
error map, why the context can be done, what the join knows.

**Fetch pool.** The properties speak of values on the graph; what makes them true is in
the jobs. `HoldingOf` says that a job that reads holds exactly what the reads behind it
answered (the first answer, or all of them), `Written` that each value on the graph is
the answer of a batch that some job is past, and that no such batch is without its
values, `VerdictOf` that an error comes from inside a batch. `StartedBy` and
`completed = Cardinality(Counted)` tie the loop, the counter and the semaphore to it.

**Scan.** `Local` is about one scan: what its graph covers at each place of `runScan`,
what its report says of that graph, which artifacts exist. Scans meet in the cache file
(`Replayed`: whatever was not ingested here is what the scan it is stamped with had
saved, also if that scan has failed since) and in the artifact directories
(`EarlierOf`). With these the proof of a step looks at the scan that moves, and at the
others only for what they may have read of it.

**Resource graph.** The lemmas at the head of the three ingestion modules say what `AddNodes`, `AddEdges`, `Freeze`,
`WriteSnapshot` and `LoadSnapshot` do to a graph whose indexes hold each edge once: what
is sealed (`SealFact`), what a degree counts then (`SealedDegree`), that nothing dangles
if all edges join nodes (`NothingDangles`), what a round trip through a snapshot keeps
(`WriteFact`, `LoadFact`).

**GCP ingestion.** `Fresh` says what nodes and edges come of a set of assets, `Earlier`
what a snapshot of release 2 has of them. `Listed` has it of the assets visited so far,
which makes the order of the listing irrelevant, `Stored` and `Sealed` of the snapshot
and the graph. A migrated leaf keeps the edge to its project, so `Fresh` allows it and
`HierarchyIsExact` follows from both.

**AWS ingestion.** A leaf passes through three graphs: that of a region, of an account
and the merged one. `RightLeaf` says what is true of it in each: a volume with the edges
of all its users, an instance that is described exactly if it was listed. `AccountRead`
has it of the regions the account is behind and says that nothing else is there yet,
`Merged` of the accounts that were scanned; `Progress` says whose credentials are in
hand. `ReportedAccounts` has an invariant of its own, `RInv`: the accounts under a unit
are those in the least set of places that is closed under the tree (`PlacesUnder`).
`Explored` says that what was walked is in every closed set and that only the children of
the `frontier` are missing from it, so that a walk without frontier has found the least
one; `Visited` that an active account is then waiting, being read or reported; `Counted`
that the counts in hand are those of the account that was resolved.

**Azure ingestion.** `Building` says that what was built so far is a tree with leaves on
it (`Tree`): one edge up from each node, and in each set of nodes one whose way up leaves
the set, which is how a tree is told apart from a graph with a cycle without climbing
it. `Walking` and `Settled` speak of the stack of the walk: what is in a group that was
met is hung there or is still in a frame of the stack, as long as nothing was moved.
`Books` says that each subscription found is still to be asked, being asked, or told of,
never two of these; `Content` that a leaf shows a row of a subscription that was given;
`Reading` from which pages the rows in hand are, by the tokens seen; `Shaped` that the
sizes that were committed are those of whole subscriptions. `Refinement` uses `Books`
for what is found (`Met`) and `Reading` for what is delivered: it maps `Discover` to
`Meet`, `AddRows` to `Deliver`, `PageFails` to `Miss` (or to `Fail`, if the scope is one
subscription), `VisitFails` to `Fail`, `Seal` to `Publish`, and all other steps to stutters.

**Image references.** `Progress` follows the AWS inventory from call to call: while no
source has failed, the users of the sources behind are in. `NodesOnce` says that an image
is decided by one inventory, `NodesJudged` what its flags are worth, `NodesExclusive` and
`OrphansCounted` what goes with a snapshot.

**Priced rules.** The properties compare answers that were given at different times, to
different workers. Two facts carry them: a catalogue that is ready is never written to
again under a key it answers for (`Loading`, and the steps of `sync.Once`), and a price
asked singly is that of the vendor's list whoever asked (`ThePrice`). So an answer is a
function of the key alone (`Reply`, `Source`): `Listing` says it of the index, `Replied` of
the answers given, `Remembered` of the provenance by which evidence is rendered later,
`Weighed` of the parts a worker has added to its sum, and `Reported` of the findings. That
evidence is rendered under the region that answered, where the price was asked under
another, is the lemma behind `Remembered`: asking again under the region that answered
gives the same answer, for each of the fallbacks of the three vendors.

`IgnoranceSilent` has an invariant of its own, proved on top of the first: the nodes in
the hands of a worker are those of the graph as its rule sees them, and the one that is
priced has passed (`Traced`), so a finding is of a node whose guards all hold (`Fired`).
That the same node would pass with all its attributes is a lemma for each of the sixteen
ladders, put together in `Rising`. One node is `Fuller` than another if it has its
attributes and more; a guard that asks for an attribute then holds of it too, and a guard
that holds because an attribute is missing is one of a few, which `SaysNo` lists.

### Assumptions

They are the `ASSUME`s of the modules, and TLC evaluates each on the runs.

* `RuleOutcomes`, `RuleEngine`, `PoolAssumption`, `ScanAssumption`: types; there is a
  worker and a slot; a batch has a read (`fillOne` makes no request for nothing);
  `MaxName` is at least the number of scans, as 99 names are.
* `LocationAssumption`: canonicalizing a location twice changes nothing
  (`locationRegion`). `ModelledAssumption`: disks and instances have a normalizer and
  containers none. `InventoryAssumption`: an inventory is finite, an asset's full
  resource name identifies it, and a project is in one place of the hierarchy while it is
  listed.
* `ExplicitAssumption`: no region named on the command line is blank
  (`canonicaliseRegions` drops them). `WorldAssumption` of `AwsIngest`: the credentials
  are of an account; an id names one volume of an account and region, and a volume is
  attached to instances of its own account and region, as EBS volumes are.
* `WorldAssumption` of `AzureIngest`: what is in something is in a management group;
  a page is followed by the next, by none, or by a token that came before; the rows asked
  of a subscription are its own, and an ARM id names one resource. `ScopeAssumption`: a
  scope has one of three kinds, and one that is a subscription exists. Which worlds, and
  which scopes in them, is left open.
* `WorldAssumption` of `ImageReferences`: an image and the snapshots behind it have one
  owner, because both lists ask for `self`.
* `WorkersAssumption`: no worker is called "idle" or "done". `ScenesAssumption`: a scan
  plans rules of a provider that has some. `NodesAssumption`: the nodes of a graph have
  names of their own. `LossAssumption` says which attributes a payload may leave out: any, but
  of those that `SaysNo` lists only where the rules read the absence for what it was. The
  absence of `lifecycle`, `provisioning_model` and `preemptible` is read as "not spot", of
  the counts as zero, of `association_state` and `managed_by` as "not in use", of
  `autoclass_enabled` and `retention_locked` as "off", and of `last_detach_time` as "detached
  since its creation". So a payload that lost a yes of these is outside the theorem, as it is
  outside the run: the rules would not miss it. For those the normalizers write
  themselves (the counts), or a vendor writes only when there is something to say, that is
  sound; nothing in the rules ensures it. `PrefixAssumption` of `GcpPrices`: a multi-region
  belongs to no other, and no region's name begins with `eu-`. `RecordingAssumption`: the
  machine prices of a recording (`TELLURY_PRICE_FIXTURE`) have the form its loader makes of
  them. What it says a machine costs
  may differ from the vendor's list: `LookupsAgree` then says that each answer is of
  the one or the other (see the note on `InstancePrice` in section 6).

### What stays with TLC

* `RunReturns`, `FillReturns`, `ScansEnd`, `RulesEnd` and the half of
  `ImplementsOwnerIngest` that says an ingestion ends: liveness under fairness is beyond
  the proof system.
* `ExcessIsABound` and `ListedPricesResolve`: they compare amounts with `bill`, `full` and
  `saving`, the reference numbers of the nodes of the run, and the amounts are sums over the
  terms of a leg: induction over a sequence.

## 5. Not modelled

* Scans of a `--fixture`, and the expiry of an assumed role in the middle of a long
  account.
* Attributes that AWS and GCP normalizers copy field by field; those of Azure are in
  `AzureNormalize`.
* `StaticSizer`, the AWS sizer and `ParseCustomMachineType`: tables and the parsing of
  machine type names. What they answer is an input of `RuleLadders` (`Ladders`, and the
  shape attributes of a node).
* Confidence levels, rounding to cents, titles and evidence text of findings.
* Include and exclude lists of rules, `MetricsBlocked`, the order of findings.
* HTML, table, CSV and JSON renderers, flags, `graph`, `rules` and `version` commands,
  build scripts: pure functions of text, or I/O only.
* The hundredth scan of one scope in one second (the suffix loop ends unchecked),
  progress lines, log output.

## 6. Where the code and its documentation disagree

* `scan_replay_status`: unreachable accounts are not in the snapshot, so a replay
  of a degraded scan says `ok`; `docs/aws-setup.md:129` says `degraded` whenever
  an account could not be reached.
* `scan_deadline_ok`: a run that is cut short by the deadline reports what it has and no
  error; status `ok`, no findings and exit code 0 can mean that no rule looked at
  anything, against `pkg/output/renderer.go:234`.
* `aws_narrowing`: `enabled, err := ...` at `pkg/cloud/aws/provider.go:1168` hides the
  outer `err`, so a Resource Explorer sweep in which a region fails ends with no
  regions and a scanned account; the comment at 1122 rules out exactly that.
* `images_other_owners`: references are collected per owner and a reference from
  elsewhere is dropped (`pkg/cloud/gcp/image_references.go:195`), so an image that
  only another project or subscription uses is reported as unused. The comments on
  the Azure inventory promise to skip when in doubt
  (`pkg/cloud/azure/image_references.go:67`, `:86`).

Seen while reading and not the subject of a run:

* `Phase.Set` stores the count of whichever job calls last (`internal/cli/progress.go:177`):
  the last line of a phase can show 2 of 3, although a test says "the done line carries
  the final count" (`progress_test.go:126`).
* The edge that `linker.go:86` relies on for a disk whose instance is outside the scope is
  pruned by `Freeze` (`graph.go:143`); `detached_disk` is right all the same
  (`DetachedExactly`), by its `user_count` guard (`detached_disk/rule.go:112`).
* When `ListSkus` fails after its first page the index of that service is partial and the
  error absorbed, and `detached_disk` takes a missing price of IOPS or throughput for
  zero (`detached_disk/rule.go:171`), against "A price lookup failure MUST be returned as
  an error, never assumed to be $0" (`pkg/rules/noderule.go`). The amount is then too
  small, never too large (`ExcessIsABound`).
* Of an underutilized machine whose smaller sizes could not be priced the evidence says
  `no_smaller_size` (AWS `rule.go:225` and 338, GCP 219 and 381): there may be one.
* `InstancePrice` asks the vendor although a price recording is set, if no rule has loaded
  the catalogue yet, against the comment at `pkg/pricing/aws/catalog.go:125`, and a request
  that began before the load writes its answer over the recorded price: under a recording
  that differs from the list one machine can be told at two prices (`LookupsAgree`
  allows the two and no third). Recordings are meant for tests.
* A snapshot carries no machine sizes, and the provider of a replay lists none, so of an
  Azure machine that the price fixture lists the replay reports `stop/delete` at the full
  cost where the live scan reported a smaller size and the difference (on AWS an offline
  pricer has no machine prices at all, and the rule skips); an age is counted to the instant
  of the replay. `docs/offline.md:123` says "replayed verbatim ... same rules, same data".
* The comment at `pkg/pricing/gcp/catalog.go:782` sends predefined machine types to an
  "embedded per-instance table"; there is none (`pkg/cloud/gcp/gcp.go:99`), and they are
  skipped. A custom machine whose SKUs name a region is skipped too, because the rule
  asks for the region `default`.
* Azure asks again for a key after an outage, once for each node, where
  `pkg/pricing/azure/catalog.go:217` promises one request for each key.
* When both GCP listings fail after a page, prices in another currency are labelled USD
  (`CurrencyInfo` looks at `loaded` only), and so are those of a recording in USD with
  the currency of `--currency`, against `provenance.go:58`; the label is checked
  in scans without failures.
* The source of a recorded price is told as `live_api`, never `fixture` (`provenance.go:11`).
* A GCP price per custom core or GiB is indexed under "default" only if its SKU names no
  region, and no SKU is ever indexed as provisioned IOPS or throughput.
* A state that a payload does not carry is reported as one that is not billed
  (`unused_ami/rule.go:102`): a skip either way, under a code that says something else.
* The ladder of an Azure machine is drawn from the shapes of all subscriptions in its
  region, against `azure/sizer.go:93`.
* A subscription that is moved during the walk to a group already read is neither scanned
  nor named, against "every omitted subscription is named" (`azure/provider.go:323`).

Also: the progress callback runs while its job still holds a slot of the pool (`pkg/metrics/gcp/client.go:190`, against
the comment at 163); overlapping scans of one second can choose the same artifact
directory, because the name is looked up before the directory is made
(`scan.go:516`; consecutive ones cannot, see `ConsecutiveScansKeepArtifacts`); a
scan that was killed while it wrote the cache makes every later scan with that
cache file fail until it is removed; a cache hit does not compare its scope with
the one asked for; of an AWS organization the roots are never nodes, although
edges lead to them and the comment at `organizations.go:41` counts them in; the merge drops the region
containers of an account ("already in the org tree", `provider.go:849`, where they are
not); an account that is being closed has no status, although `AccountStatuses`
speaks of every account; a single-account scan labels what it reads with the
account that was named, whoever the credentials belong to.

## 7. Plan

Done: the rule engine with its abstract specification and proofs, the fetch pool, the
scan pipeline, the graph with GCP ingestion, AWS ingestion, the image references of the
three clouds, the price catalogues, the sixteen rules with their prices, Azure
normalization and ingestion with the abstract specification of owners.

Proved: the safety of every state machine, as far as section 4 says, and the safety half
of both refinements.

What a next step would be: `AwsIngest` as a second implementation of `OwnerIngest`, and the
scope of a cached snapshot in `Scan`.
