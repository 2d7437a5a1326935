---------------------------- MODULE PricedRules -----------------------------
(***************************************************************************)
(* The rules of a provider on a graph, priced: workers take rules from the *)
(* queue and go through the nodes of each rule's kind (pkg/rules/adapt.go); *)
(* a node that passes the guards is priced leg by leg through the shared   *)
(* pricer, and concluded as a finding or with the code it is skipped for.  *)
(***************************************************************************)
EXTENDS RuleLadders, PriceCatalogue

VARIABLES
  queue,     \* the rules no worker has taken, with what each makes of its nodes
  job,       \* what each worker is at
  findings, skips,
  answers,   \* every price and every "none" a key was answered with
  trouble    \* whether a call for prices has failed

vars == <<scene, c, queue, job, findings, skips, answers, trouble>>
results == <<findings, skips>>

\* What a rule makes of a node before it asks for a price: the code it is skipped
\* with, or the legs of its cost.  The graph is frozen by then.
Case(rule, n) ==
  LET code == FirstSkip(n, Guards(rule, n))
  IN [id |-> n.id, code |-> code, legs |-> IF code = Blank THEN Legs(rule, n) ELSE <<>>,
      basis |-> SizeBasis(rule, n)]

\* A scan plans rules of its provider.
ASSUME ScenesAssumption ==
  \A s \in {Scenes[name] : name \in DOMAIN Scenes} :
    s.provider \in {Rules[r].provider : r \in DOMAIN Rules} /\ s.rules \in Seq(DOMAIN Rules)

\* The nodes of a graph are told apart by their names.
ASSUME NodesAssumption ==
  \A s \in {Scenes[name] : name \in DOMAIN Scenes} :
    /\ s.nodes \in Seq({s.nodes[i] : i \in DOMAIN s.nodes})
    /\ \A i, j \in DOMAIN s.nodes : s.nodes[i].id = s.nodes[j].id => i = j

\* Whether nothing is lost with v: the rules take the absence of these attributes for a no,
\* a zero, or (of a last detach) for as long ago as the creation; they let no node pass for
\* the absence of any other.
SaysNo(a, v) ==
  CASE a = "lifecycle" -> v # "spot"
    [] a = "provisioning_model" -> v # "SPOT"
    [] a = "association_state" -> v = "unassociated"
    [] a \in {"preemptible", "autoclass_enabled", "retention_locked"} -> ~v
    [] a = "managed_by" -> v = Blank
    [] a = "last_detach_time" -> v >= 7
    [] a \in {"attachment_count", "user_count", "reference_count", "address_user_count",
              "accelerator_count"} -> v = 0
    [] OTHER -> TRUE

\* The texts that are there but blank when the payload has none (azure/normalize.go).
Texts == {"vm_size", "power_state_code", "os_type", "sku_name", "public_ip_allocation_method",
          "disk_state", "provisioning_state"}

\* A payload may leave out anything, of these attributes only what the rules read anyway.
ASSUME LossAssumption ==
  \A s \in {Scenes[name] : name \in DOMAIN Scenes} : \A n \in {s.nodes[i] : i \in DOMAIN s.nodes} :
    /\ {"asset", "grouped", "exempt", "attached", "metric", "attrs", "lost"} \subseteq DOMAIN n
    /\ \A a \in DOMAIN n.lost :
         \/ a \in DOMAIN n.attrs /\ n.lost[a] = n.attrs[a]
         \/ /\ a \in DOMAIN n.attrs => a \in Texts /\ n.attrs[a] = Blank
            /\ SaysNo(a, n.lost[a])

NoPrice == -1
Idle == [rule |-> "idle", nodes |-> <<>>, pricing |-> FALSE]
Currency == [Idle EXCEPT !.rule = "currency"]

\* The nodes of a rule's kind, by their place in the graph.
Plan(rule) ==
  LET seen == {i \in DOMAIN scene.nodes : rule \in Planned(scene.provider, scene.nodes[i].kind)}
  IN [Idle EXCEPT !.rule = rule, !.nodes = [i \in seen |-> Case(rule, scene.nodes[i])]]

Init ==
  /\ \E name \in DOMAIN Scenes : scene = Scenes[name]
  /\ c = NewPricer(scene)
  /\ queue = <<Currency>> \o [i \in DOMAIN scene.rules |-> Plan(scene.rules[i])]
  /\ job = [w \in Workers |-> Idle]
  /\ findings = {} /\ skips = {}
  /\ answers = <<>> /\ trouble = FALSE

\* The currency is settled before the rules start.
Settle ==
  /\ queue # <<>> /\ Head(queue) = Currency
  /\ queue' = Tail(queue)
  /\ \E answering \in SUBSET DOMAIN scene.billing : c' = ResolveCurrency(answering)
  /\ UNCHANGED <<scene, job, results, answers, trouble>>

\* A worker takes the next rule.
Take(w) ==
  /\ job[w] = Idle /\ queue # <<>> /\ Head(queue) # Currency
  /\ queue' = Tail(queue)
  /\ job' = [job EXCEPT ![w] = Head(queue)]
  /\ UNCHANGED <<scene, c, results, answers, trouble>>

At(w) == job[w].rule # "idle"
Pricing(w) == At(w) /\ job[w].pricing

\* Nodes are looked at in the order of the graph.
Todo(w) == DOMAIN job[w].nodes
NodeOf(w) == job[w].nodes[Min(Todo(w))]

Finished(w) ==
  /\ At(w) /\ Todo(w) = {}
  /\ job' = [job EXCEPT ![w] = Idle]
  /\ UNCHANGED <<scene, c, queue, results, answers, trouble>>

NextNode(w) == [Idle EXCEPT !.rule = job[w].rule, !.nodes = Restrict(job[w].nodes, Todo(w) \ {Min(Todo(w))})]

\* SkipNode, and on to the next node.
Skip(w, code) ==
  /\ skips' = skips \cup {[rule |-> job[w].rule, node |-> NodeOf(w).id, code |-> code]}
  /\ job' = [job EXCEPT ![w] = NextNode(w)]
  /\ UNCHANGED findings

\* The guards of the node; when they hold its legs are to be priced.
Ask(w) ==
  /\ At(w) /\ ~job[w].pricing /\ Todo(w) # {}
  /\ IF NodeOf(w).code # Blank THEN Skip(w, NodeOf(w).code)
     ELSE /\ job' = [job EXCEPT ![w] =
               [rule |-> @.rule, nodes |-> @.nodes, pricing |-> TRUE, legs |-> NodeOf(w).legs,
                waste |-> 0, answered |-> FALSE, parts |-> {}, asking |-> FALSE]]
          /\ UNCHANGED results
  /\ UNCHANGED <<scene, c, queue, answers, trouble>>

-----------------------------------------------------------------------------
(* The legs *)

LegOf(w) == Head(job[w].legs)
HasLeg(w) == Pricing(w) /\ job[w].legs # <<>>

\* A leg that is asked singly has one term.
Single(w) ==
  HasLeg(w) /\ LegOf(w).ways # <<>> /\ AskedSingly(LegOf(w).ways[1][1].kind)

Answered(key, figures) ==
  answers' = Put([k \in {key} |-> figures \cup (IF k \in DOMAIN answers THEN answers[k] ELSE {})], answers)

\* A leg is worth its amount to the node: what must or may be paid adds to the waste,
\* and the first candidate that has a price is what stays to be paid.
Settled(w, amount, parts) ==
  LET j == job[w]  role == LegOf(w).role
      rest == [j EXCEPT !.legs = Tail(@), !.asking = FALSE]
  IN CASE amount = NoPrice /\ role = "must" -> Skip(w, "no_price")
       [] amount = NoPrice /\ role # "must" -> job' = [job EXCEPT ![w] = rest] /\ UNCHANGED results
       [] amount # NoPrice /\ role # "instead" ->
            /\ job' = [job EXCEPT ![w] = [rest EXCEPT !.waste = @ + amount, !.parts = @ \cup parts]]
            /\ UNCHANGED results
       [] amount # NoPrice /\ role = "instead" ->
            /\ job' = [job EXCEPT ![w] = [rest EXCEPT !.legs = <<>>, !.waste = @ - amount,
                                                     !.answered = TRUE, !.parts = @ \cup parts]]
            /\ UNCHANGED results

\* A leg no lookup is made for.
Forgo(w) ==
  /\ HasLeg(w) /\ LegOf(w).ways = <<>>
  /\ Settled(w, NoPrice, {})
  /\ UNCHANGED <<scene, c, queue, answers, trouble>>

KeyOf(t) == <<t.kind, t.sku, t.region>>

Found(t) == Lookup(t.kind, t.sku, t.region)
Complete(way) == \A i \in DOMAIN way : Found(way[i]) # {}
Entry1(t) == CHOOSE e \in Found(t) : TRUE

AmountOf(way) == FoldLeft(LAMBDA sum, t : sum + t.quantity * Entry1(t).price, 0, way)

\* What is told of the terms of a way, and under which keys.
Notes(way) ==
  UNION {{[key |-> k, of |-> Provenance(Entry1(t), t.sku)] : k \in Under(t.kind, t.sku, t.region, Entry1(t))} :
         t \in {way[i] : i \in DOMAIN way}}

\* The terms of a sum are of different kinds, so no key is written by two of them.
Remember(told) == Put([k \in {m.key : m \in told} |-> (CHOOSE m \in told : m.key = k).of], c.last)

\* The parts evidence is rendered for: those that weigh in.
PartsOf(way) ==
  LET heavy == {t \in {way[i] : i \in DOMAIN way} : t.quantity * Entry1(t).price # 0}
  IN {[key |-> <<t.kind, t.sku, Entry1(t).region>>, from |-> Entry1(t)] : t \in heavy}

\* The first way whose terms all have a price, by its place.
FirstWay(leg) ==
  LET there == {i \in DOMAIN leg.ways : Complete(leg.ways[i])}
  IN {i \in there : \A j \in there : i <= j}

\* UnitPrice of a loaded catalogue.
UnitPrice(w) ==
  /\ HasLeg(w) /\ LegOf(w).ways # <<>> /\ ~Single(w)
  /\ Ready
  /\ \E asked \in {LegOf(w).ways[1][1]} :
       Answered(KeyOf(asked), IF Found(asked) = {} THEN {NoPrice} ELSE {Entry1(asked).price})
  /\ \/ /\ \A i \in DOMAIN LegOf(w).ways : ~Complete(LegOf(w).ways[i])
        /\ Settled(w, NoPrice, {})
        /\ UNCHANGED c
     \/ \E i \in FirstWay(LegOf(w)) : \E way \in {LegOf(w).ways[i]} :
          /\ \E told \in {Notes(way)} : c' = [c EXCEPT !.last = Remember(told)]
          /\ \E amount \in {AmountOf(way)}, parts \in {PartsOf(way)} : Settled(w, amount, parts)
  /\ UNCHANGED <<scene, queue, trouble>>

\* The first lookup of a catalogue loads it.
Load(w) ==
  /\ HasLeg(w) /\ LegOf(w).ways # <<>> /\ ~Single(w) /\ scene.source # "none"
  /\ \/ (Start(w) \/ StartRecorded(w)) /\ trouble' = (trouble \/ scene.source = "broken")
     \/ \E s \in DOMAIN scene.listed : List(w, s) /\ UNCHANGED trouble
     \/ \E s \in DOMAIN scene.listed : ListFails(w, s) /\ trouble' = TRUE
     \/ ServicesFail(w) /\ trouble' = TRUE
     \/ Loaded(w) /\ trouble' = (trouble \/ c'.loadErr)
  /\ UNCHANGED <<queue, job, results, answers>>

\* InstancePrice, VMPrice and the UnitPrice of Azure, up to the unlock: a price that
\* is kept, or a refusal, answers; else the vendor will be asked.
Check(w) ==
  /\ Single(w) /\ ~job[w].asking
  /\ LET t == LegOf(w).ways[1][1]
         e == Entry(t.kind, t.sku, t.region, c.index[KeyOf(t)].price)
     IN CASE KeyOf(t) \in DOMAIN c.index ->
               /\ Answered(KeyOf(t), {e.price})
               /\ c' = IF scene.provider = "azure" /\ t.kind # "vm"
                       THEN [c EXCEPT !.last = Record(@, t.kind, t.sku, t.region, e)] ELSE c
               /\ Settled(w, t.quantity * e.price, {[key |-> KeyOf(t), from |-> e]})
          [] KeyOf(t) \notin DOMAIN c.index /\ (KeyOf(t) \in c.refused \/ c.fixed \/ scene.source = "none") ->
               /\ Answered(KeyOf(t), {NoPrice})
               /\ Settled(w, NoPrice, {})
               /\ UNCHANGED c
          [] OTHER -> /\ job' = [job EXCEPT ![w].asking = TRUE]
                      /\ UNCHANGED <<c, results, answers>>
  /\ UNCHANGED <<scene, queue, trouble>>

\* The vendor, or Azure's recording, answers: the price is kept, and where no row or
\* more than one prices the key, Azure keeps that.
Fetch(w) ==
  LET t == LegOf(w).ways[1][1]
      price == Priced(t.kind, t.sku, t.region)
  IN /\ Single(w) /\ job[w].asking
     /\ scene.source = "broken" => scene.provider # "azure"
     /\ IF price = {}
        THEN /\ c' = IF scene.provider = "azure" THEN [c EXCEPT !.refused = @ \cup {KeyOf(t)}] ELSE c
             /\ Answered(KeyOf(t), {NoPrice}) /\ Settled(w, NoPrice, {})
        ELSE LET e == Entry(t.kind, t.sku, t.region, CHOOSE p \in price : TRUE)
             IN /\ c' = [c EXCEPT !.index = Put([k \in {KeyOf(t)} |-> e], @),
                                  !.last = IF scene.provider = "azure" /\ t.kind # "vm"
                                           THEN Record(@, t.kind, t.sku, t.region, e) ELSE @]
                /\ Answered(KeyOf(t), {e.price})
                /\ Settled(w, t.quantity * e.price, {[key |-> KeyOf(t), from |-> e]})
     /\ UNCHANGED <<scene, queue, trouble>>

\* The vendor does not answer; that is not remembered.  A recording of Azure that
\* cannot be read never answers.
FetchFails(w) ==
  /\ Single(w) /\ job[w].asking
  /\ ~(scene.provider = "azure" /\ scene.source = "fixture")
  /\ trouble' = TRUE
  /\ Answered(KeyOf(LegOf(w).ways[1][1]), {NoPrice})
  /\ Settled(w, NoPrice, {})
  /\ UNCHANGED <<scene, c, queue>>

-----------------------------------------------------------------------------
(* The conclusion *)

\* PriceEvidence: what the pricer remembers of the key, or that a recording answered.
EvidenceOf(part) ==
  IF part.key \in DOMAIN c.last THEN c.last[part.key]
  ELSE [source |-> "fixture", sku |-> part.key[2], region |-> part.key[3]]

\* Machines of AWS and Azure are priced without evidence.
Witnessed(w) == {p \in job[w].parts : p.key[1] \notin {"instance", "vm"}}

\* Slip: whatever is not worthless is reported.
WorthReportingAtAll(w) == job[w].waste # 0

WorthReporting(w) == job[w].waste >= Rules[job[w].rule].floor

Conclude(w) ==
  /\ Pricing(w) /\ job[w].legs = <<>>
  /\ IF ~WorthReporting(w) THEN Skip(w, "below_min_waste")
     ELSE /\ findings' = findings \cup
               {[rule |-> job[w].rule, node |-> NodeOf(w).id, waste |-> job[w].waste,
                 rightsize |-> job[w].answered, basis |-> NodeOf(w).basis,
                 label |-> Effective, in |-> ListedIn,
                 evidence |-> {[told |-> EvidenceOf(p), true |-> Provenance(p.from, p.key[2])] :
                               p \in Witnessed(w)}]}
          /\ job' = [job EXCEPT ![w] = NextNode(w)]
          /\ UNCHANGED skips
  /\ UNCHANGED <<scene, c, queue, answers, trouble>>

Work(w) ==
  \/ Take(w) \/ Finished(w) \/ Ask(w) \/ Forgo(w) \/ Load(w) \/ UnitPrice(w)
  \/ Check(w) \/ Fetch(w) \/ FetchFails(w) \/ Conclude(w)

Done == queue = <<>> /\ \A w \in Workers : job[w] = Idle

Terminated == Done /\ UNCHANGED vars

Next == Settle \/ (\E w \in Workers : Work(w)) \/ Terminated

\* Nothing but the once holds a worker back, and every call for prices ends.
Fairness == WF_vars(Settle) /\ \A w \in Workers : WF_vars(Work(w))

Spec == Init /\ [][Next]_vars /\ Fairness

-----------------------------------------------------------------------------
(* Properties *)

Nodes == {scene.nodes[i] : i \in DOMAIN scene.nodes}
NodeNamed(id) == CHOOSE n \in Nodes : n.id = id
Entire(n) == [n EXCEPT !.attrs = Put(n.lost, @)]

\* Every variable stays in its type; nothing is reported below a rule's least waste
\* (MinWasteUSD, adapt.go evalNodeRule).
TypeOK ==
  /\ scene.provider \in {Rules[r].provider : r \in DOMAIN Rules}
  /\ c.once \in {"idle", "done"} \cup Workers
  /\ \A w \in Workers : job[w].rule \in DOMAIN Rules \cup {"idle"}
  /\ \A f \in findings : f.rule \in DOMAIN Rules /\ f.waste >= Rules[f.rule].floor
  /\ \A k \in DOMAIN answers : answers[k] # {}
  /\ ~(c.loadErr /\ c.loaded)

\* Machines of AWS under a recording: until the recording is read they are asked of the
\* vendor, and then they are in the recording.
FromTwoLists(k) == k[1] = "instance" /\ scene.provider = "aws" /\ scene.source = "fixture"

Recording(k) == {m.price : m \in {m \in scene.machines : m.key = k}}

\* One price for one thing: whoever asks, and in whatever order, a key is never
\* answered with two prices; and a catalogue that was loaded, or could not be, does
\* not answer one rule and refuse the same key to another (aws/catalog.go and
\* gcp/catalog.go liveUnitPrice, azure/catalog.go cache).  Where two lists can answer,
\* no price is of neither (aws/catalog.go InstancePrice).
LookupsAgree ==
  \A k \in DOMAIN answers :
    /\ ~AskedSingly(k[1]) => Cardinality(answers[k]) = 1
    /\ IF FromTwoLists(k)
       THEN answers[k] \ {NoPrice} \subseteq Recording(k) \cup instancePrices(scene.types, k[2], k[3])
       ELSE Cardinality(answers[k] \ {NoPrice}) <= 1

\* The size bases of a bound.
Bounds == {"source_volume_size", "source_disk_size"}

\* A finding that claims more than the node is billed at the vendor's prices, whichever
\* of them could not be had, says that its figure is a bound, and claims no more than
\* the node's full size would cost (the Cost of every rule: the billable part of IOPS,
\* the price of a smaller machine, the class a bucket moves to; unused_ami,
\* orphaned_ami_snapshot and unused_custom_image, whose size is that of a source).
ExcessIsABound ==
  \A f \in findings :
    LET n == NodeNamed(f.node)
    IN f.waste <= n.full /\ (f.waste > n.bill => f.basis \in Bounds)

\* The evidence names where the price came from: the region that answered, not the
\* one that was asked, and whether it was the price of an equivalent (record in the
\* three catalogues, priceevidence.go).
EvidenceNamesTheSource ==
  \A f \in findings : \A e \in f.evidence : e.told = e.true

\* What a payload leaves out never makes a finding: a node that would be skipped with
\* all its attributes is not reported without some of them (the guards of every rule:
\* "a missing field is an unparsed payload, never an assumption").
IgnoranceNeverFires ==
  \A f \in findings :
    LET whole == Entire(NodeNamed(f.node)) IN FirstSkip(whole, Guards(f.rule, whole)) = Blank

\* Machines of GCE the live catalogue has no price for, of a family whose CPUs and
\* memory are not listed for custom machines of every region: the rule asks for the
\* whole type and names no region, while the list has predefined machines by the token
\* of their family (the KNOWN GAP of gcp/catalog.go machineFamilyFromDescription).
KnownGap(n) ==
  LET skus == UNION {{scene.listed[s][i] : i \in DOMAIN scene.listed[s]} : s \in DOMAIN scene.listed}
      everywhere(group) == {s \in skus : /\ s.family = "Compute" /\ s.group = group /\ s.usage = "OnDemand"
                                         /\ "custom" \in s.words
                                         /\ s.machine = Str(n, "machine_family")
                                         /\ s.regions \in {{}, {"global"}}}
  IN /\ scene.provider = "gcp" /\ scene.source = "live" /\ n.kind = "instance"
     /\ everywhere("cpu") = {} \/ everywhere("ram") = {}

\* If no call has failed, the figures are labelled with the currency they are in
\* ("Effective is the code the figures are actually in", provenance.go CurrencyInfo),
\* and what the vendor lists is priced in full, since the tokens the rules ask by are
\* those the catalogues index by; but for the machines of the known gap, which are
\* skipped for want of a price and never given another's.
ListedPricesResolve ==
  ~trouble =>
    /\ \A f \in findings : f.label = f.in
    /\ Done /\ scene.source # "none" =>
         \A n \in Nodes : n.saving > 0 =>
           IF KnownGap(n)
           THEN \E s \in skips : s.node = n.id /\ s.code = "no_price"
           ELSE \E f \in findings : f.node = n.id /\ f.waste = n.saving

\* Every rule comes to an end of its nodes, with a catalogue or without: a load that
\* fails lets the others go.
RulesEnd == <>Done
=============================================================================
