-------------------------------- MODULE Scan --------------------------------
(***************************************************************************)
(* A `tellury scan` from end to end: runScan of internal/cli/scan.go, and  *)
(* what several of them leave on one disk.  A scan reads the graph from    *)
(* the --cache-file or ingests and enriches it, writes the cache, runs the *)
(* rules, writes its artifact directory and renders.  Scans may follow one *)
(* another or overlap (cron, CI), be killed at any point and lose their    *)
(* context (deadline, SIGINT) at any point.                                *)
(*                                                                         *)
(* The parts with a module of their own appear here as what they promise:  *)
(* enrichment as any subset of the metrics (FetchPool), rule evaluation as *)
(* all findings of a whole run and any part of them of a cancelled one     *)
(* (RuleEvaluation).                                                       *)
(***************************************************************************)
EXTENDS Naturals, FiniteSets

CONSTANTS
  Process,     \* the scans
  Owner,       \* the accounts, subscriptions or projects in scope
  Resource,
  OwnerOf,     \* OwnerOf[r]: the owner of resource r
  Gated,       \* the resources read only for a rule that asks for their type
  NeedsMetric, \* the resources whose rule reads a metric
  Sized,       \* the machines that a smaller size of their family could carry
  OldFrom,     \* OldFrom[r]: the instant from which r is old enough for its rule
  Wasteful,    \* the findings that are worth their rule's minimum
  Flags,       \* the flags and environments the scans may run with together
  MaxName      \* bound on the artifact directories of one second

\* What a rule says of a resource: that all of it could go (stop, delete), or that a
\* smaller size would do.
Finding == [of : Resource, action : {"remove", "resize"}]

\* The flags and the environment of a scan.
\*   cache: a --cache-file;  wide: a scope walked owner by owner;  failOn: --fail-on-findings
\*   narrow: --aws-use-resource-explorer;  embedded: the sizes come with the binary (GCP)
\*   rules: the resources whose rule is selected;  priced: those it finds a price for
\*   at: the instant ages count to;  keeps: what passes --min-waste and --min-confidence
Options == [cache : BOOLEAN, wide : BOOLEAN, failOn : BOOLEAN, narrow : BOOLEAN, embedded : BOOLEAN,
            rules : SUBSET Resource, priced : SUBSET Resource, at : Nat, keeps : SUBSET Finding]

ASSUME ScanAssumption ==
  /\ OwnerOf \in [Resource -> Owner]
  /\ Gated \subseteq Resource
  /\ NeedsMetric \subseteq Resource
  /\ Sized \subseteq Resource
  /\ OldFrom \in [Resource -> Nat]
  /\ Wasteful \subseteq Finding
  /\ Flags \subseteq [Process -> Options]
  /\ MaxName \in Nat /\ MaxName >= Cardinality(Process)

VARIABLES
  cache,       \* the cache file: NoFile, Torn, or a snapshot
  made,        \* the artifact directories that exist
  disk,        \* disk[n]: who wrote each artifact of directory n; a function of file names
  opts,        \* opts[p]: the flags of scan p
  pc,          \* pc[p]: where scan p is
  cancelled,   \* cancelled[p]: its context is done, and something will look at it
  hit,         \* hit[p]: its graph is a replay
  todo,        \* todo[p]: the owners it has not visited yet
  unreachable, \* unreachable[p]: the owners the provider reports as unreachable
  graph,       \* graph[p]: its graph, a snapshot in memory
  sizes,       \* sizes[p]: the machines whose smaller sizes its provider knows
  report,      \* report[p]: the findings and the status it reports
  dir,         \* dir[p]: the artifact directory it chose; 0: none
  exit,        \* exit[p]: its exit code; "none" while it runs
  before       \* before[p]: the scans that had ended when p started

run == <<opts, cancelled, hit, before>>
files == <<made, disk>>
build == <<todo, unreachable, graph, sizes>>
vars == <<cache, made, disk, opts, pc, cancelled, hit, todo, unreachable, graph, sizes,
          report, dir, exit, before>>

\* by: the scan whose ingest it is.  The snapshot carries nodes and metrics, and
\* nothing of the owners the ingest could not reach nor of the sizes it learned.
Graphs == [by : Process, nodes : SUBSET Resource, metrics : SUBSET Resource]

\* Of the cache file only the decodable sort holds a graph.
NoFile == [kind |-> "none"]
Torn == [kind |-> "torn"]
Snapshot(g) == [kind |-> "snapshot", graph |-> g]

File == {"graph", "findings", "html"}
Reports == [findings : SUBSET Finding, status : {"ok", "no_resources", "degraded"},
            whole : BOOLEAN]

Place == {"new", "load", "ingest", "enrich", "save", "encode",
          "evaluate", "name", "mkdir", "graph", "findings", "html", "render", "done"}

\* Every variable stays in its type: a cache file is absent, torn or a snapshot,
\* and every artifact was written by a scan.
TypeOK ==
  /\ cache \in {NoFile, Torn} \/ (cache = Snapshot(cache.graph) /\ cache.graph \in Graphs)
  /\ made \subseteq 1..MaxName
  /\ DOMAIN disk = 1..MaxName
  /\ \A n \in 1..MaxName : DOMAIN disk[n] \subseteq File /\ \A f \in DOMAIN disk[n] : disk[n][f] \in Process
  /\ opts \in Flags
  /\ pc \in [Process -> Place]
  /\ cancelled \in [Process -> BOOLEAN]
  /\ hit \in [Process -> BOOLEAN]
  /\ todo \in [Process -> SUBSET Owner]
  /\ unreachable \in [Process -> SUBSET Owner]
  /\ graph \in [Process -> Graphs]
  /\ sizes \in [Process -> SUBSET Sized]
  /\ report \in [Process -> Reports]
  /\ dir \in [Process -> 0..MaxName]
  /\ exit \in [Process -> {"none", "ok", "error", "usage", "findings", "killed"}]
  /\ before \in [Process -> SUBSET Process]

Empty(p) == [by |-> p, nodes |-> {}, metrics |-> {}]
Embedded(p) == IF opts[p].embedded THEN Sized ELSE {}
NoReport == [findings |-> {}, status |-> "no_resources", whole |-> FALSE]

Init ==
  /\ cache = NoFile
  /\ made = {}
  /\ disk = [n \in 1..MaxName |-> <<>>]
  /\ opts \in Flags
  /\ pc = [p \in Process |-> "new"]
  /\ cancelled = [p \in Process |-> FALSE]
  /\ hit = [p \in Process |-> FALSE]
  /\ todo = [p \in Process |-> Owner]
  /\ unreachable = [p \in Process |-> {}]
  /\ graph = [p \in Process |-> Empty(p)]
  /\ sizes = [p \in Process |-> Embedded(p)]
  /\ report = [p \in Process |-> NoReport]
  /\ dir = [p \in Process |-> 0]
  /\ exit = [p \in Process |-> "none"]
  /\ before = [p \in Process |-> {}]

Goto(p, l) == pc' = [pc EXCEPT ![p] = l] /\ UNCHANGED exit
Exit(p, code) == pc' = [pc EXCEPT ![p] = "done"] /\ exit' = [exit EXCEPT ![p] = code]

\* The scan ends without a report: what it held in memory is gone, the disk stays.
Fail(p, code) ==
  /\ Exit(p, code)
  /\ cancelled' = [cancelled EXCEPT ![p] = FALSE]
  /\ hit' = [hit EXCEPT ![p] = FALSE]
  /\ todo' = [todo EXCEPT ![p] = {}]
  /\ unreachable' = [unreachable EXCEPT ![p] = {}]
  /\ graph' = [graph EXCEPT ![p] = Empty(p)]
  /\ sizes' = [sizes EXCEPT ![p] = {}]
  /\ report' = [report EXCEPT ![p] = NoReport]
  /\ dir' = [dir EXCEPT ![p] = 0]
  /\ UNCHANGED <<cache, opts, before>>

-----------------------------------------------------------------------------
(* Configuration and cache *)

\* Validate and Select accept the flags, and --out-dir exists or is made.
Start(p) ==
  /\ pc[p] = "new"
  /\ before' = [before EXCEPT ![p] = {q \in Process : pc[q] = "done"}]
  /\ Goto(p, "load")
  /\ UNCHANGED <<cache, files, opts, cancelled, hit, build, report, dir>>

\* They do not.
UsageFails(p) ==
  /\ pc[p] = "new"
  /\ UNCHANGED files
  /\ Fail(p, "usage")

\* cacheIfPresent: no --cache-file, or no file of that name.
CacheMiss(p) ==
  /\ pc[p] = "load"
  /\ ~opts[p].cache \/ cache = NoFile
  /\ Goto(p, "ingest")
  /\ UNCHANGED <<cache, files, run, build, report, dir>>

\* The file decodes: the graph is replayed, no client is built, nothing is
\* ingested, enriched or written back.  The sizes a live provider learns as it
\* ingests stay unknown.
CacheHit(p) ==
  /\ pc[p] = "load"
  /\ opts[p].cache /\ cache.kind = "snapshot"
  /\ hit' = [hit EXCEPT ![p] = TRUE]
  /\ graph' = [graph EXCEPT ![p] = cache.graph]
  /\ todo' = [todo EXCEPT ![p] = {}]
  /\ Goto(p, "evaluate")
  /\ UNCHANGED <<cache, files, opts, cancelled, before, unreachable, sizes, report, dir>>

\* It does not: any error but ErrNotExist stops the scan.  Or it does, and the
\* offline provider cannot be built or an old snapshot not be migrated.
CacheFails(p) ==
  /\ pc[p] = "load"
  /\ opts[p].cache /\ cache # NoFile
  /\ UNCHANGED files
  /\ Fail(p, "error")

-----------------------------------------------------------------------------
(* Ingest and enrichment *)

\* newProvider fails (credentials), or Ingest does: the listing of the scope, or
\* of a scope that is not walked owner by owner.
IngestFails(p) ==
  /\ pc[p] = "ingest" /\ todo[p] = Owner
  /\ UNCHANGED files
  /\ Fail(p, "error")

Of(S) == {r \in Resource : OwnerOf[r] \in S}

\* What is read of owners that answer: the types the selected rules ask for, and
\* some types always.
Asked(p, S) == {r \in Of(S) : r \in Gated => r \in opts[p].rules}

\* Owners answer: one, where the scope is walked owner by owner (AWS
\* organization, Azure tenant or management group), otherwise all or none.  Under
\* --aws-use-resource-explorer any of their regions may be left out.  The sizes of
\* their machines are asked for too; failing that is a warning.
OwnersAnswer(p) ==
  /\ pc[p] = "ingest" /\ todo[p] # {}
  /\ ~cancelled[p]
  /\ \E S \in IF opts[p].wide THEN {{o} : o \in todo[p]} ELSE {Owner} :
       /\ todo' = [todo EXCEPT ![p] = @ \ S]
       /\ \E N \in SUBSET Asked(p, S) :
            /\ ~opts[p].narrow => N = Asked(p, S)
            /\ graph' = [graph EXCEPT ![p].nodes = @ \cup N]
            /\ \E Z \in SUBSET (N \cap Sized) : sizes' = [sizes EXCEPT ![p] = @ \cup Z]
  /\ UNCHANGED <<cache, files, run, pc, exit, unreachable, report, dir>>

\* Slip: the owner is passed over and not recorded.
OwnerPassedOver(p) ==
  /\ pc[p] = "ingest" /\ todo[p] # {}
  /\ opts[p].wide
  /\ \E o \in todo[p] : todo' = [todo EXCEPT ![p] = @ \ {o}]
  /\ UNCHANGED <<cache, files, run, pc, exit, unreachable, graph, sizes, report, dir>>

\* Slip: the owner is tried again, without a bound.
OwnerRetried(p) ==
  /\ pc[p] = "ingest" /\ todo[p] # {}
  /\ opts[p].wide
  /\ \E o \in todo[p] : unreachable' = [unreachable EXCEPT ![p] = @ \cup {o}]
  /\ UNCHANGED <<cache, files, run, pc, exit, todo, graph, sizes, report, dir>>

\* An owner that cannot be read, for whatever reason, is recorded and passed over.
OwnerUnreachable(p) ==
  /\ pc[p] = "ingest" /\ todo[p] # {}
  /\ opts[p].wide
  /\ \E o \in todo[p] :
       /\ todo' = [todo EXCEPT ![p] = @ \ {o}]
       /\ unreachable' = [unreachable EXCEPT ![p] = @ \cup {o}]
  /\ UNCHANGED <<cache, files, run, pc, exit, graph, sizes, report, dir>>

Ingested(p) ==
  /\ pc[p] = "ingest" /\ todo[p] = {}
  /\ Goto(p, "enrich")
  /\ UNCHANGED <<cache, files, run, build, report, dir>>

\* EnrichMetrics returns; its error, if any, is logged.  What it set before the
\* error stays, and a fetched metric may have no data.
Enrich(p) ==
  /\ pc[p] = "enrich"
  /\ \E M \in SUBSET (graph[p].nodes \cap NeedsMetric \cap opts[p].rules) :
       graph' = [graph EXCEPT ![p].metrics = M]
  /\ Goto(p, IF opts[p].cache THEN "save" ELSE "evaluate")
  /\ UNCHANGED <<cache, files, run, todo, unreachable, sizes, report, dir>>

\* writeCache: os.Create truncates whatever is there by now ...
CreateCache(p) ==
  /\ pc[p] = "save"
  /\ cache' = Torn
  /\ Goto(p, "encode")
  /\ UNCHANGED <<files, run, build, report, dir>>

CreateFails(p) ==
  /\ pc[p] = "save"
  /\ Goto(p, "evaluate")
  /\ UNCHANGED <<cache, files, run, build, report, dir>>

\* Slip: the snapshot leaves the metrics out.
EncodeTopology(p) ==
  /\ pc[p] = "encode"
  /\ cache' = Snapshot([graph[p] EXCEPT !.metrics = {}])
  /\ Goto(p, "evaluate")
  /\ UNCHANGED <<files, run, build, report, dir>>

\* ... and the encoder writes the document with one call.  The decoder reads the
\* first document of the file, so what a longer one leaves behind does not matter.
EncodeCache(p) ==
  /\ pc[p] = "encode"
  /\ cache' = Snapshot(graph[p])
  /\ Goto(p, "evaluate")
  /\ UNCHANGED <<files, run, build, report, dir>>

\* The disk fills up: a warning, and what was written stays.
EncodeFails(p) ==
  /\ pc[p] = "encode"
  /\ cache' \in {cache, Torn}
  /\ Goto(p, "evaluate")
  /\ UNCHANGED <<files, run, build, report, dir>>

-----------------------------------------------------------------------------
(* Evaluation and report *)

\* What the selected rules flag on a graph: a missing metric or price is a skip, and
\* so is a resource too young for its rule or a finding below its minimum.  Where
\* no smaller size is known, the whole machine is reported.
Flagged(g, known, o) ==
  {f \in Wasteful :
     LET r == f.of IN
       /\ r \in g.nodes \cap o.rules \cap o.priced
       /\ r \in NeedsMetric => r \in g.metrics
       /\ OldFrom[r] <= o.at
       /\ f.action = IF r \in known THEN "resize" ELSE "remove"}

\* filterFindings
Kept(F, o) == F \cap o.keeps

\* scanStatus
Status(p) ==
  IF graph[p].nodes = {} THEN "no_resources"
  ELSE IF unreachable[p] # {} THEN "degraded"
  ELSE "ok"

\* Engine.Run under the scan's context: a cancelled run reports what it has, and
\* no error.
Evaluate(p) ==
  /\ pc[p] = "evaluate"
  /\ \E F \in SUBSET Flagged(graph[p], sizes[p], opts[p]) :
       /\ ~cancelled[p] => F = Flagged(graph[p], sizes[p], opts[p])
       /\ report' = [report EXCEPT ![p] =
            [findings |-> Kept(F, opts[p]), status |-> Status(p), whole |-> ~cancelled[p]]]
  /\ cancelled' = [cancelled EXCEPT ![p] = FALSE]
  /\ Goto(p, "name")
  /\ UNCHANGED <<cache, files, opts, hit, before, build, dir>>

\* CatalogueError: the live catalogue refused the currency, and the result of the
\* run is dropped.
CatalogueRejects(p) ==
  /\ pc[p] = "evaluate"
  /\ ~hit[p]
  /\ UNCHANGED files
  /\ Fail(p, "error")

-----------------------------------------------------------------------------
(* Artifacts, rendering and the exit code *)

\* Slip: the plain name is used without a look.
NameDirBlindly(p) ==
  /\ pc[p] = "name"
  /\ dir' = [dir EXCEPT ![p] = 1]
  /\ Goto(p, "mkdir")
  /\ UNCHANGED <<cache, files, run, build, report>>

\* Slip: the suffixes are tried from the number of the directories on.
NameDirOffByOne(p) ==
  /\ pc[p] = "name"
  /\ dir' = [dir EXCEPT ![p] = Cardinality(made) + 2]
  /\ Goto(p, "mkdir")
  /\ UNCHANGED <<cache, files, run, build, report>>

\* artifactDirName: the first name of this second that Stat does not find.  The
\* directory is not made yet.
NameDir(p) ==
  /\ pc[p] = "name"
  /\ \E n \in 1..MaxName \ made : /\ 1..(n - 1) \subseteq made
                                  /\ dir' = [dir EXCEPT ![p] = n]
  /\ Goto(p, "mkdir")
  /\ UNCHANGED <<cache, files, run, build, report>>

\* writeArtifacts: MkdirAll, content with a directory that exists by now,
MakeDir(p) ==
  /\ pc[p] = "mkdir"
  /\ made' = made \cup {dir[p]}
  /\ Goto(p, "graph")
  /\ UNCHANGED <<cache, disk, run, build, report, dir>>

AfterFile(f) == CASE f = "graph" -> "findings" [] f = "findings" -> "html" [] f = "html" -> "render"

Created(p) == [disk EXCEPT ![dir[p]] =
                 [f \in DOMAIN @ \cup {pc[p]} |-> IF f = pc[p] THEN p ELSE @[f]]]

\* Slip: an artifact that cannot be written is passed over.
WriteArtifactOrNot(p) ==
  /\ pc[p] \in File
  /\ disk' \in {disk, Created(p)}
  /\ Goto(p, AfterFile(pc[p]))
  /\ UNCHANGED <<cache, made, run, build, report, dir>>

\* and then graph.json, findings.json and report.html, each created over what is
\* there.
WriteArtifact(p) ==
  /\ pc[p] \in File
  /\ disk' = Created(p)
  /\ Goto(p, AfterFile(pc[p]))
  /\ UNCHANGED <<cache, made, run, build, report, dir>>

\* One of them fails, with or without a file of that name left behind.
ArtifactFails(p) ==
  /\ pc[p] \in File \cup {"mkdir"}
  /\ disk' \in {disk} \cup IF pc[p] \in File THEN {Created(p)} ELSE {}
  /\ UNCHANGED made
  /\ Fail(p, "error")

\* The report goes to stdout and Execute maps the outcome to the exit code.
Render(p) ==
  /\ pc[p] = "render"
  /\ Exit(p, IF opts[p].failOn /\ report[p].findings # {} THEN "findings" ELSE "ok")
  /\ UNCHANGED <<cache, files, run, build, report, dir>>

\* stdout is closed (a pipe).
RenderFails(p) ==
  /\ pc[p] = "render"
  /\ UNCHANGED files
  /\ Fail(p, "error")

-----------------------------------------------------------------------------
(* The outside *)

Running(p) == pc[p] \notin {"new", "done"}

\* --timeout passes, or SIGINT / SIGTERM arrives.  Nothing after the evaluation
\* looks at the context, and nothing before the ingest does.
Expire(p) ==
  /\ pc[p] \in {"ingest", "enrich", "save", "encode", "evaluate"} /\ ~cancelled[p]
  /\ cancelled' = [cancelled EXCEPT ![p] = TRUE]
  /\ UNCHANGED <<cache, files, opts, hit, before, pc, exit, build, report, dir>>

Kill(p) ==
  /\ Running(p)
  /\ UNCHANGED files
  /\ Fail(p, "killed")

Step(p) ==
  \/ CacheMiss(p) \/ CacheHit(p) \/ CacheFails(p)
  \/ IngestFails(p) \/ OwnersAnswer(p) \/ OwnerUnreachable(p)
  \/ Ingested(p) \/ Enrich(p)
  \/ CreateCache(p) \/ CreateFails(p) \/ EncodeCache(p) \/ EncodeFails(p)
  \/ Evaluate(p) \/ CatalogueRejects(p)
  \/ NameDir(p) \/ MakeDir(p) \/ WriteArtifact(p) \/ ArtifactFails(p)
  \/ Render(p) \/ RenderFails(p)

Terminated == (\A p \in Process : pc[p] = "done") /\ UNCHANGED vars

Next ==
  \/ \E p \in Process : Start(p) \/ UsageFails(p) \/ Step(p) \/ Expire(p) \/ Kill(p)
  \/ Terminated

\* A scan that runs goes on running: its calls end, by the deadline at the
\* latest.  Nobody has to start one.
Spec == Init /\ [][Next]_vars /\ \A p \in Process : WF_vars(Step(p))

-----------------------------------------------------------------------------
(* Properties *)

Answered(p) == exit[p] \in {"ok", "findings"}

\* What two scans judge alike: both selected its rule, both or neither find its
\* price, take it for old enough and know a smaller size.
Alike(p, q) ==
  {r \in opts[p].rules \cap opts[q].rules :
     /\ r \in opts[p].priced <=> r \in opts[q].priced
     /\ OldFrom[r] <= opts[p].at <=> OldFrom[r] <= opts[q].at
     /\ r \in sizes[p] <=> r \in sizes[q]}

\* "Replayed verbatim ... same rules, same data": scans of one graph that were not cut
\* short, the scan that wrote the cache and whoever replays it, say the same of every
\* resource they judge alike, as far as the filters of both let it through (scan.go
\* cacheIfPresent and writeCache; docs/offline.md).
ReplayRepeatsFindings ==
  \A p, q \in Process :
    /\ report[p].whole /\ report[q].whole
    /\ graph[p].by = graph[q].by
    => \A f \in opts[p].keeps \cap opts[q].keeps :
         f.of \in Alike(p, q) => (f \in report[p].findings <=> f \in report[q].findings)

\* Whoever has seen the report on stdout finds all three artifacts on the disk,
\* and a scan that could not write one of them has not answered (scan.go step 11).
ArtifactsBeforeOutput ==
  \A p \in Process : Answered(p) => dir[p] \in made /\ File = DOMAIN disk[dir[p]]

\* "Consecutive scans never silently overwrite each other's artifacts", although
\* all of them fall into one second: what a scan left when it ended is still its
\* own after every scan that began later, whatever other scans do meanwhile
\* (scan.go artifactDirName, uniqueSuffix).
ConsecutiveScansKeepArtifacts ==
  \A p, q \in Process :
    q \in before[p] /\ Answered(q) /\ dir[p] # 0 => dir[p] # dir[q]

\* The CI gate: a live scan that ran to its end in time, with status "ok" and exit
\* code 0, vouches for every owner of its scope: none has a resource that the
\* selected rules would have flagged, with the metrics and sizes it had, and the
\* filters let through.  Narrowed to the regions Resource Explorer names, it does not
\* (root.go exit codes, renderer.go scanStatus).
GateVouchesForScope ==
  \A p \in Process :
    /\ exit[p] = "ok" /\ opts[p].failOn /\ ~opts[p].narrow
    /\ ~hit[p] /\ report[p].whole /\ report[p].status = "ok"
    => Kept(Flagged([graph[p] EXCEPT !.nodes = Resource], sizes[p], opts[p]), opts[p]) = {}

\* Every scan that begins ends, whatever fails and however scans overlap.
ScansEnd == \A p \in Process : pc[p] = "load" ~> pc[p] = "done"

\* "`Status` is `degraded` whenever an account could not be reached"
\* (docs/aws-setup.md): also for a replay of a scan that could not reach one.
ReplayKeepsStatus ==
  \A p, q \in Process :
    Answered(p) /\ hit[p] /\ graph[p].by = q /\ unreachable[q] # {}
      => report[p].status # "ok"

\* "StatusOK: resources were scanned. An empty findings list means the scan looked
\* and found nothing wasteful" (renderer.go): nothing on the graph was there to flag.
OkMeansLooked ==
  \A p \in Process :
    Answered(p) /\ report[p].status = "ok" /\ report[p].findings = {}
      => Kept(Flagged(graph[p], sizes[p], opts[p]), opts[p]) = {}
=============================================================================
