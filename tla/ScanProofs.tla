----------------------------- MODULE ScanProofs -----------------------------
(***************************************************************************)
(* The safety of overlapping scans on one disk, for every number of scans, *)
(* owners and resources and every choice of flags.                         *)
(*                                                                         *)
(* Most of the argument is about one scan at a time (Local): what its      *)
(* graph covers, what its report says of its graph, and which artifacts    *)
(* exist, at each place of runScan.  Scans meet in three places only: the  *)
(* cache file and the graphs replayed from it (Replayed), the artifact     *)
(* directories, which only grow, and the scans that had ended before       *)
(* another began (Earlier).                                                *)
(***************************************************************************)
EXTENDS Scan, TLAPS

\* Failed: the scan ended without a report.
Failed(p) == pc[p] = "done" /\ ~Answered(p)

Unjudged == {"new", "load", "ingest", "enrich", "save", "encode", "evaluate"}
Saved == {"evaluate", "name", "mkdir", "graph", "findings", "html", "render", "done"}

\* The exit code comes with the end.
EndOf(p) == exit[p] = "none" <=> pc[p] # "done"

\* A live graph is the scan's own, and unless it was narrowed it has all that was asked
\* of every owner that was visited and could be reached.
GraphOf(p) ==
  /\ pc[p] \in Unjudged \ {"evaluate"} => ~hit[p]
  /\ ~hit[p] => graph[p].by = p
  /\ ~hit[p] /\ ~Failed(p) /\ ~opts[p].narrow =>
       Asked(p, Owner \ (todo[p] \cup unreachable[p])) \subseteq graph[p].nodes
  /\ pc[p] \notin {"new", "load", "ingest"} => todo[p] = {}

\* What a scan that is not cut short reports.
Judgement(p) == Kept(Flagged(graph[p], sizes[p], opts[p]), opts[p])

\* A report is about the graph the scan holds, and a whole one is all that the rules
\* flag on it and the filters keep.
ReportOf(p) ==
  /\ pc[p] \in Unjudged \/ Failed(p) => ~report[p].whole
  /\ report[p].whole => report[p].findings = Judgement(p)
  /\ pc[p] \notin Unjudged /\ ~Failed(p) => report[p].status = Status(p)
  /\ exit[p] = "ok" /\ opts[p].failOn => report[p].findings = {}

\* The files a scan has written by the time it is at a place.
Behind(l) ==
  CASE l = "findings" -> {"graph"}
    [] l = "html" -> {"graph", "findings"}
    [] l \in {"render", "done"} -> File
    [] OTHER -> {}

\* Its directory is chosen before it is made, and made before anything is in it.
FilesOf(p) ==
  /\ pc[p] \in Unjudged \cup {"name"} => dir[p] = 0
  /\ pc[p] = "mkdir" => dir[p] # 0
  /\ pc[p] \in File \cup {"render"} \/ Answered(p) =>
       /\ dir[p] \in made
       /\ Behind(pc[p]) \subseteq DOMAIN disk[dir[p]]

\* The scans that had ended before this one are over.
EarlierOf(p) ==
  \A q \in before[p] :
    /\ pc[q] = "done"
    /\ Answered(q) /\ dir[p] # 0 => dir[p] # dir[q]

Local(p) == EndOf(p) /\ GraphOf(p) /\ ReportOf(p) /\ FilesOf(p) /\ EarlierOf(p)

\* g is what q saved: q is behind its save, and unless it failed since, it still holds
\* the same graph.
SavedBy(q, g) == ~hit[q] /\ pc[q] \in Saved /\ (Failed(q) \/ graph[q] = g)

\* Every graph that a scan did not ingest itself, and the one in the cache file, is
\* what the scan it is stamped with saved.
Replayed ==
  /\ \A p, q \in Process : p # q /\ graph[p].by = q => SavedBy(q, graph[p])
  /\ cache.kind = "snapshot" => SavedBy(cache.graph.by, cache.graph)

\* All replays of what one scan saved are alike, and like the cache file if that is
\* still of the same scan; whatever has become of the scan itself.
Twins ==
  /\ \A p, q \in Process :
       graph[p].by = graph[q].by /\ p # graph[p].by /\ q # graph[p].by => graph[p] = graph[q]
  /\ \A p \in Process :
       cache.kind = "snapshot" /\ graph[p].by = cache.graph.by /\ p # graph[p].by => graph[p] = cache.graph

IInv == TypeOK /\ (\A p \in Process : Local(p)) /\ Replayed /\ Twins

-----------------------------------------------------------------------------
(* The steps of one scan *)

Move(p) == Start(p) \/ UsageFails(p) \/ Step(p) \/ Expire(p) \/ Kill(p)

\* A scan ends without a report by one of these.
Fails(p) ==
  \/ UsageFails(p) \/ CacheFails(p) \/ IngestFails(p) \/ CatalogueRejects(p)
  \/ ArtifactFails(p) \/ RenderFails(p) \/ Kill(p)

\* They have the same effect, and at most one more artifact on the disk.
LEMMA FailEffect ==
  ASSUME NEW p \in Process, Fails(p)
  PROVE  /\ pc[p] # "done" /\ made' = made
         /\ disk' = disk \/ (pc[p] \in File /\ disk' = Created(p))
         /\ \E code \in {"usage", "error", "killed"} : Fail(p, code)
<1>1. CASE ArtifactFails(p)
  BY <1>1 DEF ArtifactFails, File
<1>2. CASE ~ArtifactFails(p)
  BY <1>2 DEF Fails, UsageFails, CacheFails, IngestFails, CatalogueRejects, RenderFails, Kill,
     files, Running
<1> QED
  BY <1>1, <1>2

\* A scan that is over moves no more; the flags stay.
LEMMA MoveRuns ==
  ASSUME NEW p \in Process, Move(p)
  PROVE  pc[p] # "done" /\ opts' = opts
<1>1. CASE Fails(p)
  BY <1>1, FailEffect DEF Fail
<1>2. CASE ~Fails(p)
  BY <1>2 DEF Move, Fails, Step, Start, CacheMiss, CacheHit, OwnersAnswer, OwnerUnreachable,
     Ingested, Enrich, CreateCache, CreateFails, EncodeCache, EncodeFails, Evaluate, NameDir,
     MakeDir, WriteArtifact, Render, Expire, run, File
<1> QED
  BY <1>1, <1>2

\* Nor does it touch what another scan holds in memory.
LEMMA OthersKeep ==
  ASSUME TypeOK, NEW p \in Process, Move(p), NEW q \in Process, q # p
  PROVE  /\ pc'[q] = pc[q] /\ cancelled'[q] = cancelled[q] /\ hit'[q] = hit[q]
         /\ todo'[q] = todo[q] /\ unreachable'[q] = unreachable[q] /\ graph'[q] = graph[q]
         /\ sizes'[q] = sizes[q] /\ report'[q] = report[q] /\ dir'[q] = dir[q] /\ exit'[q] = exit[q]
         /\ before'[q] = before[q]
<1>1. CASE Fails(p)
  BY <1>1, FailEffect DEF Fail, Exit, TypeOK
<1>2. CASE ~Fails(p)
  <2>1. CASE Start(p) \/ CacheMiss(p) \/ CacheHit(p) \/ Ingested(p) \/ Expire(p)
    BY <2>1 DEF TypeOK, Start, CacheMiss, CacheHit, Ingested, Expire, Goto, run, build
  <2>2. CASE OwnersAnswer(p) \/ OwnerUnreachable(p) \/ Enrich(p)
    BY <2>2 DEF TypeOK, OwnersAnswer, OwnerUnreachable, Enrich, Goto, run
  <2>3. CASE CreateCache(p) \/ CreateFails(p) \/ EncodeCache(p) \/ EncodeFails(p)
    BY <2>3 DEF TypeOK, CreateCache, CreateFails, EncodeCache, EncodeFails, Goto, run, build
  <2>4. CASE Evaluate(p) \/ NameDir(p) \/ MakeDir(p) \/ WriteArtifact(p) \/ Render(p)
    BY <2>4 DEF TypeOK, Evaluate, NameDir, MakeDir, WriteArtifact, Render, Goto, Exit, run, build
  <2> QED
    BY <1>2, <2>1, <2>2, <2>3, <2>4 DEF Move, Fails, Step
<1> QED
  BY <1>1, <1>2

\* No directory and no artifact is ever removed.
LEMMA DiskGrows ==
  ASSUME TypeOK, NEW p \in Process, Move(p)
  PROVE  made \subseteq made' /\ \A n \in 1..MaxName : DOMAIN disk[n] \subseteq DOMAIN disk'[n]
<1>1. made \subseteq made' /\ (disk' = disk \/ disk' = Created(p))
  <2>1. CASE Fails(p)
    BY <2>1, FailEffect
  <2>2. CASE ~Fails(p)
    BY <2>2 DEF Move, Fails, Step, Start, CacheMiss, CacheHit, OwnersAnswer, OwnerUnreachable,
       Ingested, Enrich, CreateCache, CreateFails, EncodeCache, EncodeFails, Evaluate, NameDir,
       MakeDir, WriteArtifact, Render, Expire, files
  <2> QED
    BY <2>1, <2>2
<1>2. ASSUME NEW n \in 1..MaxName
      PROVE  DOMAIN disk[n] \subseteq DOMAIN Created(p)[n]
  BY <1>2 DEF Created, TypeOK
<1> QED
  BY <1>1, <1>2

-----------------------------------------------------------------------------
(* Types *)

LEMMA CreatedShape ==
  ASSUME TypeOK, NEW p \in Process, pc[p] \in File
  PROVE  /\ DOMAIN Created(p) = 1..MaxName
         /\ \A n \in 1..MaxName : /\ DOMAIN Created(p)[n] \subseteq File
                                  /\ \A f \in DOMAIN Created(p)[n] : Created(p)[n][f] \in Process
<1>1. DOMAIN Created(p) = 1..MaxName
  BY DEF Created, TypeOK
<1>2. ASSUME NEW n \in 1..MaxName
      PROVE  /\ DOMAIN Created(p)[n] \subseteq File
             /\ \A f \in DOMAIN Created(p)[n] : Created(p)[n][f] \in Process
  <2>1. CASE n = dir[p]
    <3>1. Created(p)[n] = [f \in DOMAIN disk[n] \cup {pc[p]} |-> IF f = pc[p] THEN p ELSE disk[n][f]]
      BY <2>1 DEF Created, TypeOK
    <3> QED
      BY <3>1 DEF TypeOK
  <2>2. CASE n # dir[p]
    BY <2>2 DEF Created, TypeOK
  <2> QED
    BY <2>1, <2>2
<1> QED
  BY <1>1, <1>2

\* The cache file holds whole snapshots of graphs, or none.
CacheOK == cache \in {NoFile, Torn} \/ (cache = Snapshot(cache.graph) /\ cache.graph \in Graphs)
DiskOK ==
  /\ made \subseteq 1..MaxName
  /\ DOMAIN disk = 1..MaxName
  /\ \A n \in 1..MaxName : DOMAIN disk[n] \subseteq File /\ \A f \in DOMAIN disk[n] : disk[n][f] \in Process

LEMMA TypeStep ==
  ASSUME TypeOK, NEW p \in Process, Move(p), FilesOf(p)
  PROVE  TypeOK'
<1> DEFINE MemoryOK ==
             /\ opts \in Flags
             /\ pc \in [Process -> Place]
             /\ cancelled \in [Process -> BOOLEAN]
             /\ hit \in [Process -> BOOLEAN]
             /\ todo \in [Process -> SUBSET Owner]
             /\ unreachable \in [Process -> SUBSET Owner]
             /\ graph \in [Process -> Graphs]
             /\ sizes \in [Process -> SUBSET Sized]
             /\ report \in [Process -> Reports]
             /\ dir \in [Process -> 0..MaxName]
             /\ exit \in [Process -> {"none", "ok", "error", "usage", "findings", "killed"}]
             /\ before \in [Process -> SUBSET Process]
<1>1. MemoryOK
  BY DEF TypeOK
<1>2. CASE Fails(p)
  <2>1. PICK code \in {"usage", "error", "killed"} : Fail(p, code)
    BY <1>2, FailEffect
  <2>2. MemoryOK'
    <3>1. Empty(p) \in Graphs /\ NoReport \in Reports /\ "done" \in Place /\ 0 \in 0..MaxName
      BY ScanAssumption DEF Empty, Graphs, NoReport, Reports, Place
    <3> QED
      BY <1>1, <2>1, <3>1 DEF Fail, Exit
  <2>3. DiskOK'
    <3>1. CASE disk' = disk
      BY <1>2, <3>1, FailEffect DEF TypeOK, DiskOK
    <3>2. CASE pc[p] \in File /\ disk' = Created(p)
      BY <1>2, <3>2, FailEffect, CreatedShape DEF TypeOK, DiskOK
    <3> QED
      BY <1>2, <3>1, <3>2, FailEffect
  <2>4. CacheOK'
    BY <2>1 DEF Fail, TypeOK, CacheOK
  <2> QED
    BY <2>2, <2>3, <2>4 DEF TypeOK, CacheOK, DiskOK
<1>3. CASE Start(p) \/ CacheMiss(p) \/ Ingested(p) \/ CreateFails(p) \/ Expire(p)
  <2>1. MemoryOK'
    <3>1. CASE Start(p)
      <4>1. {q \in Process : pc[q] = "done"} \in SUBSET Process
        OBVIOUS
      <4> QED
        BY <1>1, <3>1, <4>1 DEF Start, Goto, build, Place
    <3>2. CASE Expire(p)
      BY <1>1, <3>2 DEF Expire, build
    <3>3. CASE CacheMiss(p) \/ Ingested(p) \/ CreateFails(p)
      BY <1>1, <3>3 DEF CacheMiss, Ingested, CreateFails, Goto, run, build, Place
    <3> QED
      BY <1>3, <3>1, <3>2, <3>3
  <2> QED
    BY <1>3, <2>1 DEF TypeOK, Start, CacheMiss, Ingested, CreateFails, Expire, files
<1>4. CASE CacheHit(p)
  <2>1. cache.graph \in Graphs
    BY <1>4 DEF CacheHit, TypeOK, NoFile, Torn
  <2>2. MemoryOK'
    BY <1>1, <1>4, <2>1 DEF CacheHit, Goto, Place
  <2> QED
    BY <1>4, <2>2 DEF TypeOK, CacheHit, files
<1>5. CASE OwnersAnswer(p) \/ OwnerUnreachable(p) \/ Enrich(p)
  <2>1. MemoryOK'
    <3>1. CASE OwnersAnswer(p)
      <4>1. PICK S \in (IF opts[p].wide THEN {{o} : o \in todo[p]} ELSE {Owner}),
                 N \in SUBSET Resource, Z \in SUBSET Sized :
              /\ todo' = [todo EXCEPT ![p] = todo[p] \ S]
              /\ graph' = [graph EXCEPT ![p].nodes = graph[p].nodes \cup N]
              /\ sizes' = [sizes EXCEPT ![p] = sizes[p] \cup Z]
        BY <3>1 DEF OwnersAnswer, Asked, Of
      <4>2. [graph[p] EXCEPT !.nodes = graph[p].nodes \cup N] \in Graphs
        <5>1. graph[p] \in Graphs
          BY <1>1
        <5> QED
          BY <4>1, <5>1 DEF Graphs
      <4>3. graph' \in [Process -> Graphs]
        BY <1>1, <4>1, <4>2
      <4>4. sizes' \in [Process -> SUBSET Sized]
        BY <1>1, <4>1
      <4> QED
        BY <1>1, <3>1, <4>1, <4>3, <4>4 DEF OwnersAnswer, run
    <3>2. CASE OwnerUnreachable(p)
      BY <1>1, <3>2 DEF OwnerUnreachable, run
    <3>3. CASE Enrich(p)
      <4>1. PICK M \in SUBSET (graph[p].nodes \cap NeedsMetric) :
              graph' = [graph EXCEPT ![p].metrics = M]
        BY <3>3 DEF Enrich
      <4>2. [graph[p] EXCEPT !.metrics = M] \in Graphs
        BY <1>1, <4>1 DEF Graphs
      <4>3. graph' \in [Process -> Graphs]
        BY <1>1, <4>1, <4>2
      <4> QED
        BY <1>1, <3>3, <4>3 DEF Enrich, Goto, run, Place
    <3> QED
      BY <1>5, <3>1, <3>2, <3>3
  <2> QED
    BY <1>5, <2>1 DEF TypeOK, OwnersAnswer, OwnerUnreachable, Enrich, files
<1>6. CASE CreateCache(p) \/ EncodeCache(p) \/ EncodeFails(p)
  <2>1. MemoryOK'
    BY <1>1, <1>6 DEF CreateCache, EncodeCache, EncodeFails, Goto, run, build, Place
  <2>2. CacheOK'
    BY <1>1, <1>6 DEF CreateCache, EncodeCache, EncodeFails, TypeOK, CacheOK, Snapshot
  <2> QED
    BY <1>6, <2>1, <2>2 DEF TypeOK, CacheOK, CreateCache, EncodeCache, EncodeFails, files
<1>7. CASE Evaluate(p)
  <2>1. MemoryOK'
    <3>1. PICK F \in SUBSET Flagged(graph[p], sizes[p], opts[p]) :
            report' = [report EXCEPT ![p] =
              [findings |-> Kept(F, opts[p]), status |-> Status(p), whole |-> ~cancelled[p]]]
      BY <1>7 DEF Evaluate
    <3>2. [findings |-> Kept(F, opts[p]), status |-> Status(p), whole |-> ~cancelled[p]] \in Reports
      <4>1. Kept(F, opts[p]) \in SUBSET Finding
        BY ScanAssumption DEF Flagged, Kept
      <4>2. cancelled[p] \in BOOLEAN
        BY <1>1
      <4> QED
        BY <4>1, <4>2 DEF Status, Reports
    <3> QED
      BY <1>1, <1>7, <3>1, <3>2 DEF Evaluate, Goto, build, Place
  <2> QED
    BY <1>7, <2>1 DEF TypeOK, Evaluate, files
<1>8. CASE NameDir(p) \/ MakeDir(p) \/ WriteArtifact(p) \/ Render(p)
  <2>1. MemoryOK'
    BY <1>1, <1>8 DEF NameDir, MakeDir, WriteArtifact, Render, AfterFile, File, Goto, Exit, run, build, Place
  <2>2. DiskOK'
    <3>1. CASE NameDir(p) \/ Render(p)
      BY <3>1 DEF NameDir, Render, files, TypeOK, DiskOK
    <3>2. CASE MakeDir(p)
      <4>1. dir[p] \in 1..MaxName
        BY <1>1, <3>2, ScanAssumption DEF MakeDir, FilesOf
      <4> QED
        BY <3>2, <4>1 DEF MakeDir, TypeOK, DiskOK
    <3>3. CASE WriteArtifact(p)
      BY <3>3, CreatedShape DEF WriteArtifact, TypeOK, DiskOK
    <3> QED
      BY <1>8, <3>1, <3>2, <3>3
  <2> QED
    BY <1>8, <2>1, <2>2 DEF TypeOK, DiskOK, NameDir, MakeDir, WriteArtifact, Render
<1> QED
  BY <1>2, <1>3, <1>4, <1>5, <1>6, <1>7, <1>8 DEF Move, Fails, Step

-----------------------------------------------------------------------------
(* One scan *)

\* A scan that ends without a report leaves nothing to be explained.
LEMMA LocalFails ==
  ASSUME IInv, NEW p \in Process, Fails(p)
  PROVE  Local(p)'
<1>1. PICK code \in {"usage", "error", "killed"} : Fail(p, code)
  BY FailEffect
<1>2. /\ pc'[p] = "done" /\ exit'[p] = code /\ hit'[p] = FALSE /\ todo'[p] = {}
      /\ graph'[p] = Empty(p) /\ report'[p] = NoReport /\ dir'[p] = 0 /\ before'[p] = before[p]
      /\ pc[p] # "done"
  <2>1. pc[p] # "done"
    BY FailEffect
  <2>2. /\ pc \in [Process -> Place] /\ hit \in [Process -> BOOLEAN] /\ todo \in [Process -> SUBSET Owner]
        /\ graph \in [Process -> Graphs] /\ report \in [Process -> Reports] /\ dir \in [Process -> 0..MaxName]
        /\ exit \in [Process -> {"none", "ok", "error", "usage", "findings", "killed"}]
    BY DEF IInv, TypeOK
  <2> QED
    BY <1>1, <2>1, <2>2 DEF Fail, Exit
<1>3. EndOf(p)' /\ GraphOf(p)' /\ FilesOf(p)'
  BY <1>2 DEF EndOf, GraphOf, FilesOf, Failed, Answered, Empty, Unjudged, File
<1>4. ReportOf(p)'
  BY <1>2 DEF ReportOf, Failed, Answered, NoReport, Unjudged
<1>5. EarlierOf(p)'
  <2> SUFFICES ASSUME NEW q \in before[p]
               PROVE  pc'[q] = "done"
    BY <1>2 DEF EarlierOf
  <2> QED
    BY <1>2, OthersKeep DEF IInv, TypeOK, Local, EarlierOf, Move, Step, Fails
<1> QED
  BY <1>3, <1>4, <1>5 DEF Local

\* The graph and what is known of the owners, up to the evaluation.
LEMMA LocalIngest ==
  ASSUME IInv, NEW p \in Process,
         \/ Start(p) \/ CacheMiss(p) \/ CacheHit(p) \/ OwnersAnswer(p) \/ OwnerUnreachable(p)
         \/ Ingested(p) \/ Enrich(p) \/ Expire(p)
         \/ CreateCache(p) \/ CreateFails(p) \/ EncodeCache(p) \/ EncodeFails(p)
  PROVE  Local(p)'
<1>1. /\ TypeOK /\ Local(p) /\ opts' = opts /\ dir' = dir /\ exit' = exit /\ report' = report
      /\ pc[p] \in Unjudged /\ pc'[p] \in Unjudged
      /\ unreachable[p] \subseteq unreachable'[p]
  BY DEF IInv, TypeOK, Start, CacheMiss, CacheHit, OwnersAnswer, OwnerUnreachable, Ingested, Enrich, Expire,
     CreateCache, CreateFails, EncodeCache, EncodeFails, Goto, run, build, Unjudged
<1>2. EndOf(p)' /\ FilesOf(p)' /\ ReportOf(p)'
  BY <1>1 DEF Local, EndOf, FilesOf, ReportOf, Failed, Answered, Unjudged, File
<1>3. EarlierOf(p)'
  <2>1. CASE Start(p)
    <3>1. before'[p] = {q \in Process : pc[q] = "done"}
      BY <2>1 DEF Start, IInv, TypeOK
    <3>2. dir'[p] = 0
      BY <1>1 DEF Local, FilesOf
    <3>3. \A q \in Process : pc[q] = "done" => pc'[q] = "done"
      BY <2>1 DEF Start, Goto, IInv, TypeOK
    <3> QED
      BY <3>1, <3>2, <3>3 DEF EarlierOf
  <2>2. CASE ~Start(p)
    <3>1. before' = before
      BY <2>2 DEF CacheMiss, CacheHit, OwnersAnswer, OwnerUnreachable, Ingested, Enrich, Expire,
         CreateCache, CreateFails, EncodeCache, EncodeFails, run
    <3>2. \A q \in before[p] : pc[q] = "done" /\ q \in Process
      BY <1>1 DEF Local, EarlierOf, TypeOK
    <3>3. \A q \in Process : pc[q] = "done" => pc'[q] = "done"
      BY <1>1, OthersKeep DEF Move, Step, Unjudged
    <3>4. dir'[p] = 0
      BY <1>1 DEF Local, FilesOf
    <3> QED
      BY <3>1, <3>2, <3>3, <3>4 DEF EarlierOf
  <2> QED
    BY <2>1, <2>2
<1>4. GraphOf(p)'
  <2>1. CASE Start(p) \/ CacheMiss(p) \/ Ingested(p) \/ Expire(p) \/ CreateCache(p) \/ CreateFails(p)
             \/ EncodeCache(p) \/ EncodeFails(p)
    <3>1. /\ hit' = hit /\ graph' = graph /\ todo' = todo /\ unreachable' = unreachable
          /\ pc[p] \in {"new", "load", "ingest"} \/ pc'[p] \notin {"new", "load", "ingest"}
          /\ pc'[p] \notin {"new", "load", "ingest"} => pc[p] \notin {"new", "load"} /\ (pc[p] = "ingest" => pc'[p] = "ingest" \/ todo[p] = {})
          /\ pc[p] # "evaluate" \/ pc'[p] = "evaluate"
      BY <1>1, <2>1 DEF TypeOK, Start, CacheMiss, Ingested, Expire, CreateCache, CreateFails, EncodeCache, EncodeFails,
         Goto, run, build
    <3>2. ~Failed(p) /\ ~Failed(p)'
      BY <1>1 DEF Failed, Unjudged
    <3> QED
      BY <1>1, <3>1, <3>2 DEF Local, GraphOf, Asked, Of, Unjudged
  <2>2. CASE CacheHit(p)
    BY <1>1, <2>2 DEF CacheHit, TypeOK, Goto, GraphOf
  <2>3. CASE OwnersAnswer(p)
    <3>1. PICK S \in (IF opts[p].wide THEN {{o} : o \in todo[p]} ELSE {Owner}), N \in SUBSET Resource :
            /\ todo' = [todo EXCEPT ![p] = todo[p] \ S]
            /\ ~opts[p].narrow => N = Asked(p, S)
            /\ graph' = [graph EXCEPT ![p].nodes = graph[p].nodes \cup N]
      BY <2>3 DEF OwnersAnswer, Asked, Of
    <3>2. /\ graph'[p].by = graph[p].by /\ graph'[p].nodes = graph[p].nodes \cup N
          /\ todo'[p] = todo[p] \ S
      BY <1>1, <3>1 DEF TypeOK, Graphs
    <3>3. Asked(p, Owner \ (todo'[p] \cup unreachable[p])) \subseteq Asked(p, Owner \ (todo[p] \cup unreachable[p])) \cup Asked(p, S)
      BY <3>2 DEF Asked, Of
    <3>4. hit' = hit /\ unreachable' = unreachable /\ pc' = pc /\ pc[p] = "ingest"
      BY <2>3 DEF OwnersAnswer, run
    <3> QED
      BY <1>1, <3>1, <3>2, <3>3, <3>4 DEF Local, GraphOf, Failed, Asked
  <2>4. CASE OwnerUnreachable(p)
    <3>1. /\ todo[p] \cup unreachable[p] = todo'[p] \cup unreachable'[p]
          /\ hit' = hit /\ graph' = graph /\ pc' = pc /\ pc[p] = "ingest"
      BY <1>1, <2>4 DEF OwnerUnreachable, run, TypeOK
    <3> QED
      BY <1>1, <3>1 DEF Local, GraphOf, Asked, Failed, Of
  <2>5. CASE Enrich(p)
    <3>1. /\ graph'[p].by = graph[p].by /\ graph'[p].nodes = graph[p].nodes
          /\ hit' = hit /\ todo' = todo /\ unreachable' = unreachable /\ pc[p] = "enrich"
          /\ pc'[p] \in {"save", "evaluate"}
      BY <1>1, <2>5 DEF Enrich, Goto, run, TypeOK, Graphs
    <3> QED
      BY <1>1, <3>1 DEF Local, GraphOf, Asked, Failed, Of, Unjudged
  <2> QED
    BY <2>1, <2>2, <2>3, <2>4, <2>5
<1> QED
  BY <1>2, <1>3, <1>4 DEF Local

\* What moving on leaves of the earlier scans: the directory is the question.
LEMMA EarlierMove ==
  ASSUME IInv, NEW p \in Process, Move(p), before' = before,
         \A q \in before[p] : Answered(q) /\ dir'[p] # 0 => dir'[p] # dir[q]
  PROVE  EarlierOf(p)'
<1> SUFFICES ASSUME NEW q \in before[p]
             PROVE  pc'[q] = "done" /\ ((exit'[q] \in {"ok", "findings"}) /\ dir'[p] # 0 => dir'[p] # dir'[q])
  BY DEF EarlierOf, Answered
<1>1. q \in Process /\ pc[q] = "done" /\ q # p
  BY MoveRuns DEF IInv, TypeOK, Local, EarlierOf
<1>2. pc'[q] = pc[q] /\ exit'[q] = exit[q] /\ dir'[q] = dir[q]
  BY <1>1, OthersKeep DEF IInv
<1> QED
  BY <1>1, <1>2 DEF Answered

\* The report, the artifacts and the exit code.
LEMMA LocalJudged ==
  ASSUME IInv, NEW p \in Process,
         Evaluate(p) \/ NameDir(p) \/ MakeDir(p) \/ WriteArtifact(p) \/ Render(p)
  PROVE  Local(p)'
<1>1. /\ TypeOK /\ Local(p) /\ Move(p) /\ opts' = opts /\ hit' = hit /\ before' = before
      /\ UNCHANGED build /\ pc[p] \notin {"new", "load", "ingest", "done"} /\ ~Failed(p)
  BY DEF IInv, Evaluate, NameDir, MakeDir, WriteArtifact, Render, run, Move, Step, File, Failed
<1>2. \/ pc'[p] \notin Unjudged \cup {"done"} /\ exit' = exit
      \/ pc'[p] = "done" /\ exit'[p] \in {"ok", "findings"}
  BY <1>1 DEF TypeOK, Evaluate, NameDir, MakeDir, WriteArtifact, Render, Goto, Exit, Unjudged, AfterFile, File
<1>3. EndOf(p)' /\ GraphOf(p)'
  <2>1. EndOf(p)'
    BY <1>1, <1>2 DEF Local, EndOf, Unjudged
  <2>2. ~Failed(p)'
    BY <1>2 DEF Failed, Answered
  <2> QED
    BY <1>1, <1>2, <2>1, <2>2 DEF Local, GraphOf, Asked, Of, build, Unjudged
<1>4. ReportOf(p)'
  <2>1. CASE Evaluate(p)
    <3>1. PICK F \in SUBSET Flagged(graph[p], sizes[p], opts[p]) :
            /\ ~cancelled[p] => F = Flagged(graph[p], sizes[p], opts[p])
            /\ report' = [report EXCEPT ![p] =
                 [findings |-> Kept(F, opts[p]), status |-> Status(p), whole |-> ~cancelled[p]]]
      BY <2>1 DEF Evaluate
    <3>2. /\ report'[p].findings = Kept(F, opts[p]) /\ report'[p].status = Status(p) /\ report'[p].whole = ~cancelled[p]
          /\ pc'[p] = "name" /\ exit'[p] = "none"
      BY <1>1, <2>1, <3>1 DEF TypeOK, Evaluate, Goto, Local, EndOf
    <3>3. Status(p)' = Status(p) /\ Judgement(p)' = Judgement(p)
      BY <1>1 DEF Status, Judgement, Kept, Flagged, build
    <3> QED
      BY <1>1, <3>1, <3>2, <3>3 DEF ReportOf, Judgement, Unjudged, Failed, Answered
  <2>2. CASE ~Evaluate(p)
    <3>1. report' = report /\ pc[p] \notin Unjudged
      BY <2>2 DEF NameDir, MakeDir, WriteArtifact, Render, Unjudged, File
    <3>2. Status(p)' = Status(p) /\ Judgement(p)' = Judgement(p)
      BY <1>1, <3>1 DEF Status, Judgement, Kept, Flagged, build
    <3>3. exit'[p] = "ok" => (~opts[p].failOn \/ report[p].findings = {})
      <4>1. CASE Render(p)
        BY <1>1, <4>1 DEF Render, Exit, TypeOK
      <4>2. CASE ~Render(p)
        <5>1. exit' = exit
          BY <2>2, <4>2 DEF NameDir, MakeDir, WriteArtifact, Goto
        <5> QED
          BY <1>1, <5>1 DEF Local, EndOf
      <4> QED
        BY <4>1, <4>2
    <3> QED
      BY <1>1, <1>2, <3>1, <3>2, <3>3 DEF Local, ReportOf, Failed, Answered, Unjudged
  <2> QED
    BY <2>1, <2>2
<1>5. FilesOf(p)'
  <2>1. CASE Evaluate(p)
    BY <1>1, <2>1 DEF Evaluate, Goto, Local, EndOf, FilesOf, TypeOK, Answered, Unjudged, File
  <2>2. CASE NameDir(p)
    <3>1. PICK n \in 1..MaxName \ made : dir' = [dir EXCEPT ![p] = n]
      BY <2>2 DEF NameDir
    <3>2. dir'[p] # 0 /\ pc'[p] = "mkdir" /\ exit'[p] = "none"
      BY <1>1, <2>2, <3>1, ScanAssumption DEF NameDir, Goto, TypeOK, Local, EndOf
    <3> QED
      BY <3>2 DEF FilesOf, Answered, Unjudged, File
  <2>3. CASE MakeDir(p)
    <3>1. /\ dir' = dir /\ dir[p] \in made' /\ pc'[p] = "graph" /\ exit'[p] = "none"
      BY <1>1, <2>3 DEF MakeDir, Goto, TypeOK, Local, EndOf
    <3> QED
      BY <1>1, <3>1 DEF FilesOf, Behind, Answered, Unjudged, File
  <2>4. CASE WriteArtifact(p)
    <3>1. /\ dir' = dir /\ made' = made /\ exit'[p] = "none" /\ pc[p] \in File /\ pc'[p] = AfterFile(pc[p])
          /\ dir[p] \in made /\ Behind(pc[p]) \subseteq DOMAIN disk[dir[p]] /\ dir[p] \in 1..MaxName
      BY <1>1, <2>4 DEF WriteArtifact, Goto, TypeOK, Local, EndOf, FilesOf, File
    <3>2. DOMAIN disk'[dir[p]] = DOMAIN disk[dir[p]] \cup {pc[p]}
      BY <1>1, <2>4, <3>1 DEF WriteArtifact, Created, TypeOK
    <3>3. Behind(pc'[p]) \subseteq DOMAIN disk'[dir'[p]] /\ pc'[p] \in File \cup {"render"}
      BY <3>1, <3>2 DEF Behind, AfterFile, File
    <3> QED
      BY <3>1, <3>3 DEF FilesOf, Answered, Unjudged, File
  <2>5. CASE Render(p)
    <3>1. dir' = dir /\ made' = made /\ disk' = disk /\ pc[p] = "render" /\ pc'[p] = "done"
      BY <1>1, <2>5 DEF Render, Exit, TypeOK, files
    <3> QED
      BY <1>1, <3>1 DEF Local, FilesOf, Behind, Unjudged, File
  <2> QED
    BY <2>1, <2>2, <2>3, <2>4, <2>5
<1>6. EarlierOf(p)'
  <2>1. CASE NameDir(p)
    <3>1. PICK n \in 1..MaxName \ made : dir' = [dir EXCEPT ![p] = n]
      BY <2>1 DEF NameDir
    <3>2. dir'[p] \notin made
      BY <1>1, <3>1 DEF TypeOK
    <3>3. \A q \in Process : Answered(q) => dir[q] \in made
      BY DEF IInv, Local, FilesOf
    <3> QED
      BY <1>1, <3>2, <3>3, EarlierMove DEF TypeOK
  <2>2. CASE ~NameDir(p)
    <3>1. dir' = dir
      BY <2>2 DEF Evaluate, MakeDir, WriteArtifact, Render
    <3> QED
      BY <1>1, <3>1, EarlierMove DEF Local, EarlierOf
  <2> QED
    BY <2>1, <2>2
<1> QED
  BY <1>3, <1>4, <1>5, <1>6 DEF Local

\* The step of another scan leaves all of this alone: directories only grow, and
\* whoever had ended stays so.
LEMMA LocalOthers ==
  ASSUME IInv, NEW p \in Process, Move(p), NEW q \in Process, q # p
  PROVE  Local(q)'
<1>1. /\ pc'[q] = pc[q] /\ hit'[q] = hit[q]
      /\ todo'[q] = todo[q] /\ unreachable'[q] = unreachable[q] /\ graph'[q] = graph[q]
      /\ sizes'[q] = sizes[q] /\ report'[q] = report[q] /\ dir'[q] = dir[q] /\ exit'[q] = exit[q]
      /\ before'[q] = before[q] /\ opts' = opts /\ TypeOK /\ Local(q)
  BY OthersKeep, MoveRuns DEF IInv
<1>2. EndOf(q)' /\ GraphOf(q)' /\ ReportOf(q)'
  BY <1>1 DEF Local, EndOf, GraphOf, ReportOf, Failed, Answered, Judgement, Kept, Flagged,
     Status, Asked, Of
<1>3. FilesOf(q)'
  <2>1. dir[q] \in made => dir[q] \in 1..MaxName
    BY <1>1 DEF TypeOK
  <2> QED
    BY <1>1, <2>1, DiskGrows DEF Local, FilesOf, Answered
<1>4. EarlierOf(q)'
  <2>1. ASSUME NEW r \in before[q]
        PROVE  r \in Process /\ pc'[r] = pc[r] /\ exit'[r] = exit[r] /\ dir'[r] = dir[r]
    <3>1. r \in Process /\ r # p
      BY <1>1, MoveRuns DEF TypeOK, Local, EarlierOf
    <3> QED
      BY <1>1, <3>1, OthersKeep
  <2> QED
    BY <1>1, <2>1 DEF Local, EarlierOf, Answered
<1> QED
  BY <1>2, <1>3, <1>4 DEF Local

-----------------------------------------------------------------------------
(* What scans hand each other *)

\* What the scan that moves does to a graph it saved before: nothing, unless it fails.
LEMMA SavedStays ==
  ASSUME IInv, NEW p \in Process, Move(p), NEW q \in Process, NEW g, SavedBy(q, g)
  PROVE  ~hit'[q] /\ pc'[q] \in Saved /\ (Failed(q)' \/ graph'[q] = g)
<1>1. CASE q # p
  BY <1>1, OthersKeep DEF IInv, SavedBy, Failed, Answered
<1>2. CASE q = p /\ Fails(p)
  <2>1. PICK code \in {"usage", "error", "killed"} : Fail(p, code)
    BY <1>2, FailEffect
  <2>2. pc'[p] = "done" /\ exit'[p] = code /\ hit'[p] = FALSE
    BY <2>1 DEF Fail, Exit, IInv, TypeOK
  <2> QED
    BY <1>2, <2>2 DEF SavedBy, Saved, Failed, Answered
<1>3. CASE q = p /\ ~Fails(p)
  <2>1. pc[p] # "done" /\ pc[p] \in Saved
    BY <1>3, MoveRuns DEF SavedBy
  <2>2. Expire(p) \/ Evaluate(p) \/ NameDir(p) \/ MakeDir(p) \/ WriteArtifact(p) \/ Render(p)
    BY <1>3, <2>1 DEF Move, Fails, Step, Saved, Start, CacheMiss, CacheHit, OwnersAnswer,
       OwnerUnreachable, Ingested, Enrich, CreateCache, CreateFails, EncodeCache, EncodeFails
  <2>3. hit' = hit /\ graph' = graph /\ pc'[p] \in Saved /\ ~Failed(p)
    BY <2>1, <2>2 DEF IInv, TypeOK, Expire, Evaluate, NameDir, MakeDir, WriteArtifact, Render, Goto, Exit,
       AfterFile, File, Saved, run, build, Failed
  <2> QED
    BY <1>3, <2>3 DEF SavedBy
<1> QED
  BY <1>1, <1>2, <1>3

\* Where a graph in memory comes from: itself, the scan, or the cache file.
LEMMA GraphComes ==
  ASSUME IInv, NEW p \in Process, Move(p)
  PROVE  \/ graph'[p] = graph[p]
         \/ graph'[p].by = p
         \/ cache.kind = "snapshot" /\ graph'[p] = cache.graph
<1>1. CASE Fails(p)
  BY <1>1, FailEffect DEF Fail, Empty, IInv, TypeOK
<1>2. CASE CacheHit(p)
  BY <1>2 DEF CacheHit, IInv, TypeOK
<1>3. CASE OwnersAnswer(p) \/ Enrich(p)
  <2>1. ~hit[p] /\ graph[p].by = p
    BY <1>3 DEF OwnersAnswer, Enrich, Unjudged, IInv, Local, GraphOf
  <2>2. graph'[p].by = graph[p].by
    BY <1>3 DEF OwnersAnswer, Enrich, IInv, TypeOK, Graphs
  <2> QED
    BY <2>1, <2>2
<1>4. CASE ~Fails(p) /\ ~CacheHit(p) /\ ~OwnersAnswer(p) /\ ~Enrich(p)
  BY <1>4 DEF Move, Fails, Step, Start, CacheMiss, OwnerUnreachable, Ingested, CreateCache, CreateFails,
     EncodeCache, EncodeFails, Evaluate, NameDir, MakeDir, WriteArtifact, Render, Expire, build
<1> QED
  BY <1>1, <1>2, <1>3, <1>4

\* Where the cache file comes from: nowhere, or a scan that has just saved its graph.
LEMMA CacheComes ==
  ASSUME IInv, NEW p \in Process, Move(p)
  PROVE  \/ cache' = cache
         \/ cache' = Torn
         \/ cache' = Snapshot(graph[p]) /\ graph[p].by = p
            /\ ~hit'[p] /\ pc[p] \notin Saved /\ pc'[p] \in Saved /\ graph'[p] = graph[p]
<1>1. CASE EncodeCache(p)
  <2>1. ~hit[p] /\ graph[p].by = p
    BY <1>1 DEF EncodeCache, Unjudged, IInv, Local, GraphOf
  <2>2. hit' = hit /\ graph' = graph /\ pc'[p] = "evaluate"
    BY <1>1 DEF EncodeCache, run, build, Goto, IInv, TypeOK
  <2> QED
    BY <1>1, <2>1, <2>2 DEF EncodeCache, Saved
<1>2. CASE Fails(p)
  BY <1>2, FailEffect DEF Fail
<1>3. CASE ~EncodeCache(p) /\ ~Fails(p)
  BY <1>3 DEF Move, Fails, Step, Start, CacheMiss, CacheHit, OwnersAnswer, OwnerUnreachable, Ingested,
     Enrich, CreateCache, CreateFails, EncodeFails, Evaluate, NameDir, MakeDir, WriteArtifact, Render, Expire
<1> QED
  BY <1>1, <1>2, <1>3

LEMMA ReplayedStep ==
  ASSUME IInv, NEW p \in Process, Move(p)
  PROVE  Replayed'
<1>1. ASSUME NEW a \in Process, NEW q \in Process, a # q, graph'[a].by = q
      PROVE  ~hit'[q] /\ pc'[q] \in Saved /\ (Failed(q)' \/ graph'[q] = graph'[a])
  <2>1. SavedBy(q, graph'[a])
    <3>1. CASE graph'[a] = graph[a]
      BY <1>1, <3>1 DEF IInv, Replayed
    <3>2. CASE graph'[a] # graph[a]
      <4>1. cache.kind = "snapshot" /\ graph'[a] = cache.graph
        BY <1>1, <3>2, GraphComes, OthersKeep DEF IInv
      <4> QED
        BY <1>1, <4>1 DEF IInv, Replayed
    <3> QED
      BY <3>1, <3>2
  <2> QED
    BY <2>1, SavedStays
<1>2. ASSUME cache'.kind = "snapshot", NEW q, q = cache'.graph.by
      PROVE  ~hit'[q] /\ pc'[q] \in Saved /\ (Failed(q)' \/ graph'[q] = cache'.graph)
  <2>1. CASE cache' = cache
    <3>1. cache.graph \in Graphs
      BY <1>2, <2>1 DEF IInv, TypeOK, NoFile, Torn
    <3>2. q \in Process /\ SavedBy(q, cache.graph)
      BY <1>2, <2>1, <3>1 DEF IInv, Replayed, Graphs
    <3> QED
      BY <2>1, <3>2, SavedStays
  <2>2. CASE cache' = Torn
    BY <1>2, <2>2 DEF Torn
  <2>3. CASE cache' = Snapshot(graph[p]) /\ graph[p].by = p
             /\ ~hit'[p] /\ pc'[p] \in Saved /\ graph'[p] = graph[p]
    BY <1>2, <2>3 DEF Snapshot
  <2> QED
    BY <2>1, <2>2, <2>3, CacheComes
<1>3. cache'.kind = "snapshot" => SavedBy(cache.graph.by, cache.graph)'
  BY <1>2 DEF SavedBy
<1>4. \A a, q \in Process : a # q /\ graph'[a].by = q => SavedBy(q, graph[a])'
  BY <1>1 DEF SavedBy
<1> QED
  BY <1>3, <1>4 DEF Replayed

LEMMA TwinsStep ==
  ASSUME IInv, NEW p \in Process, Move(p)
  PROVE  Twins'
\* The replays of an earlier graph, as they are after the step.
<1>1. ASSUME NEW a \in Process, a # graph'[a].by
      PROVE  graph'[a] = graph[a] \/ (cache.kind = "snapshot" /\ graph'[a] = cache.graph)
  BY <1>1, GraphComes, OthersKeep DEF IInv
<1>2. ASSUME NEW a \in Process, NEW q \in Process, graph'[a].by = graph'[q].by,
             a # graph'[a].by, q # graph'[a].by
      PROVE  graph'[a] = graph'[q]
  BY <1>1, <1>2 DEF IInv, Twins
<1>3. ASSUME NEW a \in Process, cache'.kind = "snapshot", graph'[a].by = cache'.graph.by, a # graph'[a].by
      PROVE  graph'[a] = cache'.graph
  <2>1. CASE cache' = cache
    BY <1>1, <1>3, <2>1 DEF IInv, Twins
  <2>2. CASE cache' = Snapshot(graph[p]) /\ graph[p].by = p /\ pc[p] \notin Saved
    <3>1. graph'[a].by = p /\ a # p
      BY <1>3, <2>2 DEF Snapshot
    <3>2. graph'[a] = graph[a]
      BY <3>1, OthersKeep DEF IInv
    <3> QED
      BY <2>2, <3>1, <3>2 DEF IInv, Replayed, SavedBy
  <2> QED
    BY <1>3, <2>1, <2>2, CacheComes DEF Torn
<1> QED
  BY <1>2, <1>3 DEF Twins

-----------------------------------------------------------------------------
(* The invariant *)

LEMMA InitInv == Init => IInv
<1> SUFFICES ASSUME Init
             PROVE  IInv
  OBVIOUS
<1>1. TypeOK
  <2>1. /\ \A p \in Process : Empty(p) \in Graphs
        /\ NoReport \in Reports /\ 0 \in 0..MaxName /\ "new" \in Place
    BY ScanAssumption DEF Empty, Graphs, NoReport, Reports, Place
  <2>2. opts \in Flags /\ \A p \in Process : Embedded(p) \in SUBSET Sized
    BY DEF Init, Embedded
  <2>3. DOMAIN disk = 1..MaxName /\ \A n \in 1..MaxName : DOMAIN disk[n] = {}
    BY DEF Init
  <2> QED
    BY <2>1, <2>2, <2>3 DEF Init, TypeOK
<1>2. ASSUME NEW p \in Process
      PROVE  Local(p)
  <2>1. EndOf(p) /\ FilesOf(p) /\ EarlierOf(p) /\ ReportOf(p)
    BY DEF Init, EndOf, FilesOf, EarlierOf, ReportOf, Answered, Failed, NoReport, Unjudged, File
  <2>2. GraphOf(p)
    BY DEF Init, GraphOf, Empty, Asked, Of
  <2> QED
    BY <2>1, <2>2 DEF Local
<1>3. Replayed /\ Twins
  BY DEF Init, Replayed, Twins, Empty, NoFile
<1> QED
  BY <1>1, <1>2, <1>3 DEF IInv

LEMMA NextInv == IInv /\ [Next]_vars => IInv'
<1> SUFFICES ASSUME IInv, [Next]_vars
             PROVE  IInv'
  OBVIOUS
<1>1. CASE UNCHANGED vars
  <2>1. TypeOK'
    BY <1>1 DEF IInv, TypeOK, vars
  <2>2. ASSUME NEW p \in Process
        PROVE  Local(p)'
    BY <1>1 DEF IInv, vars, Local, EndOf, GraphOf, ReportOf, FilesOf, EarlierOf, Failed, Answered,
       Judgement, Kept, Flagged, Status, Asked, Of
  <2>3. Replayed'
    BY <1>1 DEF IInv, vars, Replayed, SavedBy, Failed, Answered
  <2>4. Twins'
    BY <1>1 DEF IInv, vars, Twins
  <2> QED
    BY <2>1, <2>2, <2>3, <2>4 DEF IInv
<1>2. ASSUME NEW p \in Process, Move(p)
      PROVE  IInv'
  <2>1. TypeOK'
    BY <1>2, TypeStep DEF IInv, Local
  <2>2. Local(p)'
    BY <1>2, LocalFails, LocalIngest, LocalJudged DEF Move, Fails, Step
  <2>3. ASSUME NEW q \in Process, q # p
        PROVE  Local(q)'
    BY <1>2, <2>3, LocalOthers
  <2> QED
    BY <1>2, <2>1, <2>2, <2>3, ReplayedStep, TwinsStep DEF IInv
<1> QED
  BY <1>1, <1>2 DEF Next, Move, Terminated

\* The invariant of overlapping scans.
THEOREM Invariance == Spec => []IInv
<1> QED
  BY InitInv, NextInv, PTL DEF Spec

-----------------------------------------------------------------------------
(* What it gives *)

\* Whatever fails and whoever interferes, the cache file is absent, torn or a whole
\* graph, and every artifact was written by a scan (writeCache, writeArtifacts).
THEOREM TypeCorrect == Spec => []TypeOK
<1>1. IInv => TypeOK
  BY DEF IInv
<1> QED
  BY <1>1, Invariance, PTL

\* Whole scans of one graph say the same of every resource they judge alike
\* (cacheIfPresent, writeCache).
THEOREM ReplaysRepeat == Spec => []ReplayRepeatsFindings
<1>1. IInv => ReplayRepeatsFindings
  <2> SUFFICES ASSUME IInv, NEW p \in Process, NEW q \in Process,
                      report[p].whole, report[q].whole, graph[p].by = graph[q].by,
                      NEW f \in opts[p].keeps \cap opts[q].keeps, f.of \in Alike(p, q)
               PROVE  f \in report[p].findings <=> f \in report[q].findings
    BY DEF ReplayRepeatsFindings
  <2>1. graph[p] = graph[q]
    <3>1. ~Failed(p) /\ ~Failed(q) /\ graph[p].by \in Process
      BY DEF IInv, TypeOK, Graphs, Local, ReportOf
    <3>2. CASE p = graph[p].by \/ q = graph[p].by
      BY <3>1, <3>2 DEF IInv, Replayed, SavedBy
    <3>3. CASE p # graph[p].by /\ q # graph[p].by
      BY <3>3 DEF IInv, Twins
    <3> QED
      BY <3>2, <3>3
  <2>2. report[p].findings = Judgement(p) /\ report[q].findings = Judgement(q)
    BY DEF IInv, Local, ReportOf
  <2>3. f \in Flagged(graph[p], sizes[p], opts[p]) <=> f \in Flagged(graph[q], sizes[q], opts[q])
    BY <2>1 DEF Flagged, Alike
  <2> QED
    BY <2>2, <2>3 DEF Judgement, Kept
<1> QED
  BY <1>1, Invariance, PTL

\* Whoever has seen the report finds all its artifacts (runScan step 11).
THEOREM ArtifactsFirst == Spec => []ArtifactsBeforeOutput
<1>1. IInv => ArtifactsBeforeOutput
  <2> SUFFICES ASSUME IInv, NEW p \in Process, Answered(p)
               PROVE  dir[p] \in made /\ File = DOMAIN disk[dir[p]]
    BY DEF ArtifactsBeforeOutput
  <2>1. pc[p] = "done" /\ dir[p] \in made /\ Behind("done") \subseteq DOMAIN disk[dir[p]]
    BY DEF IInv, Local, EndOf, FilesOf, Answered
  <2>2. DOMAIN disk[dir[p]] \subseteq File
    BY <2>1 DEF IInv, TypeOK
  <2> QED
    BY <2>1, <2>2 DEF Behind
<1> QED
  BY <1>1, Invariance, PTL

\* A scan never takes the directory of one that had ended before it began
\* (artifactDirName).
THEOREM DirectoriesApart == Spec => []ConsecutiveScansKeepArtifacts
<1>1. IInv => ConsecutiveScansKeepArtifacts
  BY DEF IInv, Local, EarlierOf, ConsecutiveScansKeepArtifacts
<1> QED
  BY <1>1, Invariance, PTL

\* A live scan that was not narrowed nor cut short, says ok and exits 0 under
\* --fail-on-findings has seen every owner of its scope and found nothing there that its
\* rules flag and its filters keep (scanStatus, filterFindings, exit codes).
THEOREM GateVouches == Spec => []GateVouchesForScope
<1>1. IInv => GateVouchesForScope
  <2> SUFFICES ASSUME IInv, NEW p \in Process, exit[p] = "ok", opts[p].failOn, ~opts[p].narrow,
                      ~hit[p], report[p].whole, report[p].status = "ok"
               PROVE  Kept(Flagged([graph[p] EXCEPT !.nodes = Resource], sizes[p], opts[p]), opts[p]) = {}
    BY DEF GateVouchesForScope
  <2>1. /\ pc[p] = "done" /\ ~Failed(p)
        /\ Judgement(p) = {} /\ Status(p) = "ok"
    BY DEF IInv, Local, EndOf, ReportOf, Failed, Answered, Unjudged
  <2>2. todo[p] = {} /\ unreachable[p] = {}
    BY <2>1 DEF IInv, Local, GraphOf, Status
  <2>3. Asked(p, Owner) \subseteq graph[p].nodes
    BY <2>1, <2>2 DEF IInv, Local, GraphOf
  <2>4. Resource \cap opts[p].rules \subseteq graph[p].nodes
    BY <2>3, ScanAssumption DEF Asked, Of
  <2>5. DEFINE all == [graph[p] EXCEPT !.nodes = Resource]
  <2>6. all.nodes = Resource /\ all.metrics = graph[p].metrics
    BY DEF IInv, TypeOK, Graphs
  <2>7. Flagged(all, sizes[p], opts[p]) \subseteq Flagged(graph[p], sizes[p], opts[p])
    <3> HIDE DEF all
    <3> QED
      BY <2>4, <2>6 DEF Flagged
  <2> QED
    BY <2>1, <2>7 DEF Judgement, Kept
<1> QED
  BY <1>1, Invariance, PTL
=============================================================================
