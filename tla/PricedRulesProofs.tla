------------------------- MODULE PricedRulesProofs --------------------------
(***************************************************************************)
(* What the rules and the pricer they share guarantee, whatever the        *)
(* workers and the vendor do: a key has one price, and evidence names the  *)
(* entry that answered.                                                    *)
(*                                                                         *)
(* Once the load is over, what a catalogue answers does not change         *)
(* (Steady): the answers that were given (Replied), what is remembered     *)
(* (Remembered) and the parts of a cost in the hands of a worker (Weighed) *)
(* can all be compared with what the catalogue would say now.              *)
(*                                                                         *)
(* And what a payload leaves out never makes a finding: a finding is of a  *)
(* node of the graph that passed the guards (Traced, Fired), and a ladder  *)
(* that holds for a node holds for it with more of its attributes (Rising).*)
(***************************************************************************)
EXTENDS PricedRules, WellFoundedInduction, FiniteSetTheorems, TLAPS

\* What is read under a key, and the one that is read.
Read(k) == Lookup(k[1], k[2], k[3])
Answer(k) == CHOOSE e \in Read(k) : TRUE
Reply(k) == IF Read(k) = {} THEN NoPrice ELSE Answer(k).price
Asked(k) == Priced(k[1], k[2], k[3])
ThePrice(k) == CHOOSE p \in Asked(k) : TRUE

\* What a key that is asked singly may be answered with: what the vendor has, and what a
\* recording of machines has.
Prices(k) == {p \in Asked(k) : p = ThePrice(k)} \cup {p \in Recording(k) : FromTwoLists(k)}

OnAzure == scene.provider = "azure"
Source(k) ==
  IF OnAzure THEN [source |-> "live_api", sku |-> k[2], region |-> k[3]]
  ELSE Provenance(Answer(k), k[2])
Unwitnessed == {"instance", "vm"}

-----------------------------------------------------------------------------
(* The invariant *)

Fields == {"once", "left", "dropped", "loadErr", "unsupported", "loaded", "currency", "index",
           "refused", "fixed", "last"}
Formed(j) ==
  /\ {"rule", "nodes", "pricing"} \subseteq DOMAIN j
  /\ j.rule \in DOMAIN Rules \cup {"idle"}
  /\ j.pricing => {"legs", "waste", "answered", "parts", "asking"} \subseteq DOMAIN j

Plans == {Plan(r) : r \in DOMAIN Rules}
Shapes ==
  /\ scene \in {Scenes[name] : name \in DOMAIN Scenes}
  /\ DOMAIN c = Fields
  /\ DOMAIN job = Workers /\ \A w \in Workers : Formed(job[w])
  /\ queue \in Seq({Currency} \cup Plans)

Loading ==
  /\ c.once \in {"idle", "done"} \cup Workers
  /\ c.once # "done" => ~c.loadErr /\ ~c.loaded
  /\ ~(c.loadErr /\ c.loaded)

Lists(k, e) ==
  IF AskedSingly(k[1]) THEN e.price \in Prices(k)
  ELSE e.region = k[3] /\ e.substitute = FALSE /\ {"region", "substitute"} \subseteq DOMAIN e

Listing == \A k \in DOMAIN c.index : Lists(k, c.index[k])

Replied ==
  \A k \in DOMAIN answers :
    IF AskedSingly(k[1]) THEN answers[k] # {} /\ answers[k] \subseteq {NoPrice} \cup Prices(k)
    ELSE Ready /\ answers[k] = {Reply(k)}

Known == OnAzure \/ Ready

Remembered ==
  \A k \in DOMAIN c.last : k[1] \notin Unwitnessed => Known /\ c.last[k] = Source(k)

Weighs(p) ==
  p.key[1] \notin Unwitnessed =>
    Known /\ p.key \in DOMAIN c.last /\ Provenance(p.from, p.key[2]) = Source(p.key)

Weighed == \A w \in Workers : job[w].pricing => \A p \in job[w].parts : Weighs(p)

Reported ==
  \A f \in findings :
    /\ f.rule \in DOMAIN Rules /\ f.waste >= Rules[f.rule].floor
    /\ \A e \in f.evidence : e.told = e.true

IInv == Shapes /\ Loading /\ Listing /\ Replied /\ Remembered /\ Weighed /\ Reported

-----------------------------------------------------------------------------
(* What is indexed *)

Catalogued(e) ==
  /\ e.key[1] # "instance" /\ e.region = e.key[3] /\ e.substitute = FALSE
  /\ {"region", "substitute"} \subseteq DOMAIN e

\* The entries of a document name their region, and none is of a machine (indexDoc,
\* indexServiceSKUs).
LEMMA AwsEntryFact ==
  ASSUME NEW doc, NEW e \in indexDoc(doc)
  PROVE  Catalogued(e)
<1> DEFINE nowhere == doc.region = ""  network == doc.service = "AmazonVPC" /\ doc.family = ""
           address == IF doc.usagetype = "PublicIPv4:InUseAddress" /\ doc.unit = "Hrs"
                      THEN {Entry("static_ip", "AdditionalAddress", doc.region, doc.price)} ELSE {}
           kinds == IF doc.volumeApiName \in awsVolumeTypes THEN kindForUnit(doc.unit) ELSE {}
           storage == {Entry(k, doc.volumeApiName, doc.region, doc.price) : k \in kinds}
           iops == IF doc.volumeApiName \in awsVolumeTypes /\ doc.group = "EBS IOPS" /\ doc.unit = "IOPS-Mo"
                   THEN {Entry("disk_iops", doc.volumeApiName, doc.region, doc.price)} ELSE {}
           throughput == IF doc.volumeApiName \in awsVolumeTypes /\ doc.unit = "GiBps-mo"
                         THEN {Entry("disk_throughput", doc.volumeApiName, doc.region, doc.price \div 1024)} ELSE {}
           snapshots == IF doc.usagetype = "EBS:SnapshotUsage" /\ doc.unit \in {"GB-Mo", "GB-month"}
                        THEN {Entry("snapshot_storage", "standard", doc.region, doc.price)} ELSE {}
<1>1. indexDoc(doc) =
        CASE nowhere -> {}
          [] network -> address
          [] doc.family = "Storage" -> storage
          [] doc.family = "System Operation" -> iops
          [] doc.family = "Provisioned Throughput" -> throughput
          [] doc.family = "Storage Snapshot" -> snapshots
          [] OTHER -> {}
  BY DEF indexDoc
<1>2. \A kind, s, region, price : kind # "instance" => Catalogued(Entry(kind, s, region, price))
  BY DEF Entry, Catalogued
<1>3. \A k \in kinds : k # "instance"
  BY DEF kindForUnit
<1> HIDE DEF nowhere, network, kinds
<1>4. /\ \A x \in address : Catalogued(x)
      /\ \A x \in storage : Catalogued(x)
      /\ \A x \in iops : Catalogued(x)
      /\ \A x \in throughput : Catalogued(x)
      /\ \A x \in snapshots : Catalogued(x)
  <2>1. \A x \in address : Catalogued(x)
    BY <1>2
  <2>2. \A x \in storage : Catalogued(x)
    BY <1>2, <1>3
  <2>3. \A x \in iops : Catalogued(x)
    BY <1>2
  <2>4. \A x \in throughput : Catalogued(x)
    BY <1>2
  <2>5. \A x \in snapshots : Catalogued(x)
    BY <1>2
  <2> HIDE DEF address, storage, iops, throughput, snapshots
  <2>6. QED
    BY <2>1, <2>2, <2>3, <2>4, <2>5
<1> HIDE DEF address, storage, iops, throughput, snapshots
<1>5. QED
  BY <1>1, <1>4

LEMMA GcpEntryFact ==
  ASSUME NEW sku, NEW e \in SkuEntries(sku)
  PROVE  Catalogued(e)
<1> DEFINE early == "early deletion" \in sku.words  regional == "regional" \in sku.words
           demand == sku.usage = "OnDemand"
           custom(kind) == IF "custom" \in sku.words THEN {<<kind, sku.machine>>} ELSE {}
           class == IF "archive" \in sku.words THEN "archive" ELSE "standard"
           snapshots == IF early THEN {} ELSE {<<"snapshot_storage", class>>}
           images == IF early THEN {} ELSE {<<"image_storage", "standard">>}
           machines == IF early THEN {} ELSE {<<"machine_image_storage", "standard">>}
           compute ==
             CASE sku.group = "n1standard" -> {<<"vm_instance", sku.machine>>}
               [] sku.group = "cpu" -> custom("vm_custom_cpu")
               [] sku.group = "ram" -> custom("vm_custom_ram")
               [] sku.group \in DOMAIN DiskGroups -> {<<"disk_capacity", <<DiskGroups[sku.group], regional>>>>}
               [] sku.group = "extremepd" -> {<<"disk_capacity", <<"pd-extreme", FALSE>>>>}
               [] sku.group \in {"iprange", "staticipaddress"} -> {<<"static_ip", "unattached">>}
               [] OTHER -> {}
           classes == {<<"gcs_storage", StorageClasses[d]>> : d \in DOMAIN StorageClasses \cap sku.words}
           other(m) == m[1] # "instance"
<1>1. matchSKU(sku) =
        CASE demand /\ sku.group = "pdsnapshot" -> snapshots
          [] demand /\ sku.group = "storageimage" -> images
          [] demand /\ sku.group = "machineimage" -> machines
          [] sku.family = "Compute" /\ demand -> compute
          [] sku.family = "Storage" -> classes
          [] OTHER -> {}
  BY DEF matchSKU
<1>2. \A kind, s : kind # "instance" => other(<<kind, s>>)
  OBVIOUS
<1> HIDE DEF other
<1>3. /\ \A m \in snapshots : other(m)
      /\ \A m \in images : other(m)
      /\ \A m \in machines : other(m)
      /\ \A m \in classes : other(m)
  <2> HIDE DEF early, class
  <2> QED BY <1>2
<1>4. \A m \in compute : other(m)
  <2>1. (\A m \in custom("vm_custom_cpu") : other(m)) /\ (\A m \in custom("vm_custom_ram") : other(m))
    BY <1>2
  <2> HIDE DEF custom, regional
  <2>2. QED
    BY <1>2, <2>1
<1> HIDE DEF snapshots, images, machines, compute, classes, demand
<1>5. \A m \in matchSKU(sku) : other(m)
  BY <1>1, <1>3, <1>4
<1>6. PICK m \in matchSKU(sku), r \in regionsOf(sku) :
        e = [key |-> <<m[1], m[2], r>>, price |-> sku.price, region |-> r, substitute |-> FALSE]
  BY DEF SkuEntries
<1>7. QED
  BY <1>5, <1>6 DEF other, Catalogued

-----------------------------------------------------------------------------
(* What is looked up *)

LEMMA FirstKey ==
  ASSUME NEW keys, DOMAIN keys \subseteq Nat \ {0}, 1 \in DOMAIN keys, keys[1] \in DOMAIN c.index
  PROVE  FirstIn(keys) = {c.index[keys[1]]}
BY DEF FirstIn

Members(s) == {s[i] : i \in DOMAIN s}

Joins(s, a, b) ==
  /\ s # <<>> /\ s[1] = a[1]
  /\ DOMAIN s \subseteq Nat \ {0} /\ 1 \in DOMAIN s
  /\ Members(s) = Members(a) \cup Members(b)

LEMMA Joined ==
  ASSUME NEW S, NEW a \in Seq(S), a # <<>>, NEW b \in Seq(S)
  PROVE  a \o b \in Seq(S) /\ Joins(a \o b, a, b)
<1>1. /\ a \o b \in Seq(S) /\ Len(a \o b) = Len(a) + Len(b)
      /\ \A i \in 1..Len(a) : (a \o b)[i] = a[i]
      /\ \A i \in 1..Len(b) : (a \o b)[Len(a) + i] = b[i]
  OBVIOUS
<1>2. \A i \in 1..Len(a \o b) : i \in 1..Len(a) \/ (i - Len(a) \in 1..Len(b) /\ i = Len(a) + (i - Len(a)))
  BY <1>1
<1>3. /\ DOMAIN (a \o b) = 1..Len(a \o b) /\ DOMAIN a = 1..Len(a) /\ DOMAIN b = 1..Len(b)
      /\ \A i \in 1..Len(a) : i \in 1..Len(a \o b)
      /\ \A i \in 1..Len(b) : Len(a) + i \in 1..Len(a \o b)
      /\ a # <<>> => 1 \in 1..Len(a)
  BY <1>1
<1> DEFINE s == a \o b
<1>4. Members(s) \subseteq Members(a) \cup Members(b)
  BY <1>1, <1>2, <1>3 DEF Members
<1>5. Members(a) \cup Members(b) \subseteq Members(s)
  <2>1. ASSUME NEW i \in DOMAIN a PROVE a[i] = s[i] /\ i \in DOMAIN s
    BY <1>1, <1>3
  <2>2. ASSUME NEW i \in DOMAIN b PROVE b[i] = s[Len(a) + i] /\ Len(a) + i \in DOMAIN s
    BY <1>1, <1>3
  <2> HIDE DEF s
  <2>3. QED
    BY <2>1, <2>2 DEF Members
<1>6. s # <<>> /\ s[1] = a[1] /\ DOMAIN s \subseteq Nat \ {0} /\ 1 \in DOMAIN s
  BY <1>1, <1>3
<1>7. QED
  BY <1>1, <1>4, <1>5, <1>6 DEF Joins

LEMMA CandidatesFact ==
  ASSUME NEW region
  PROVE  /\ DOMAIN regionCandidates(region) \subseteq Nat \ {0}
         /\ 1 \in DOMAIN regionCandidates(region) /\ regionCandidates(region)[1] = region
         /\ Members(regionCandidates(region)) =
              {region, "default", "global"} \cup (IF region = "eu" THEN {"europe"} ELSE {})
                \cup (IF region \in DOMAIN PrefixOf THEN {PrefixOf[region]} ELSE {})
<1> DEFINE own == <<region>>
           union == IF region = "eu" THEN <<"europe">> ELSE <<>>
           prefix == IF region \in DOMAIN PrefixOf THEN <<PrefixOf[region]>> ELSE <<>>
           rest == <<"default", "global">>
           S == {region, "europe", "default", "global", PrefixOf[region]}
<1>1. own \in Seq(S) /\ own # <<>> /\ Members(own) = {region} /\ own[1] = region
  BY DEF Members
<1>2. union \in Seq(S) /\ Members(union) = (IF region = "eu" THEN {"europe"} ELSE {})
  <2>1. CASE region = "eu"
    BY <2>1 DEF Members
  <2>2. CASE region # "eu"
    BY <2>2 DEF Members
  <2>3. QED
    BY <2>1, <2>2
<1>3. /\ prefix \in Seq(S)
      /\ Members(prefix) = (IF region \in DOMAIN PrefixOf THEN {PrefixOf[region]} ELSE {})
  <2>1. CASE region \in DOMAIN PrefixOf
    BY <2>1 DEF Members
  <2>2. CASE region \notin DOMAIN PrefixOf
    BY <2>2 DEF Members
  <2>3. QED
    BY <2>1, <2>2
<1>4. rest \in Seq(S) /\ Members(rest) = {"default", "global"}
  BY DEF Members
<1>5. regionCandidates(region) = ((own \o union) \o prefix) \o rest
  BY DEF regionCandidates
<1> HIDE DEF own, union, prefix, rest, S
<1> DEFINE two == own \o union  three == two \o prefix  all == three \o rest
<1>6. two \in Seq(S) /\ Joins(two, own, union)
  BY <1>1, <1>2, Joined
<1> HIDE DEF two
<1>7. three \in Seq(S) /\ Joins(three, two, prefix)
  BY <1>3, <1>6, Joined DEF Joins
<1> HIDE DEF three
<1>8. all \in Seq(S) /\ Joins(all, three, rest)
  BY <1>4, <1>7, Joined DEF Joins
<1>9. regionCandidates(region) = all
  BY <1>5 DEF two, three
<1> HIDE DEF all
<1>10. /\ DOMAIN all \subseteq Nat \ {0} /\ 1 \in DOMAIN all /\ all[1] = region
       /\ Members(all) = Members(own) \cup Members(union) \cup Members(prefix) \cup Members(rest)
  BY <1>1, <1>6, <1>7, <1>8 DEF Joins
<1>11. QED
  BY <1>1, <1>2, <1>3, <1>4, <1>9, <1>10

\* Of some numbers one is the least.
LEMMA LeastFact ==
  ASSUME NEW S, S \subseteq Nat, S # {}
  PROVE  \E i \in S : \A j \in S : i <= j
<1> DEFINE R == {ss \in Nat \X Nat : ss[1] < ss[2]}
<1>1. IsWellFoundedOn(R, Nat)
  BY NatLessThanWellFounded, Zenon DEF OpToRel, R
<1>2. \A x, y \in Nat : <<y, x>> \in R <=> y < x
  BY DEF R
<1> HIDE DEF R
<1>3. \E x \in S : \A y \in S : ~(<<y, x>> \in R)
  BY <1>1, WFMin, Zenon
<1>4. PICK x \in S : \A y \in S : ~(<<y, x>> \in R)
  BY <1>3
<1>5. \A y \in S : ~(y < x)
  BY <1>2, <1>4
<1>6. QED
  BY <1>5

LEMMA NoneIn ==
  ASSUME NEW keys, DOMAIN keys \subseteq Nat \ {0}
  PROVE  FirstIn(keys) = {} <=> \A i \in DOMAIN keys : keys[i] \notin DOMAIN c.index
<1> DEFINE there == {i \in DOMAIN keys : keys[i] \in DOMAIN c.index}
<1>1. there # {} => \E i \in there : \A j \in there : i <= j
  BY LeastFact
<1>2. QED
  BY <1>1 DEF FirstIn

\* What is asked of the load, by any of the regions of a key.
Own(kind, sku, region) ==
  IF scene.provider = "aws" THEN Keys(kind, sku, AwsRegions(region))
  ELSE Keys(kind, sku, regionCandidates(region))

LEMMA OwnFact ==
  ASSUME NEW kind, NEW sku, NEW region
  PROVE  /\ DOMAIN Own(kind, sku, region) \subseteq Nat \ {0} /\ 1 \in DOMAIN Own(kind, sku, region)
         /\ Own(kind, sku, region)[1] = <<kind, sku, region>>
         /\ \A i \in DOMAIN Own(kind, sku, region) :
              Own(kind, sku, region)[i] = <<kind, sku, Own(kind, sku, region)[i][3]>>
<1>1. CASE scene.provider = "aws"
  BY <1>1 DEF Own, Keys, AwsRegions
<1>2. CASE scene.provider # "aws"
  BY <1>2, CandidatesFact DEF Own, Keys
<1>3. QED
  BY <1>1, <1>2

\* The keys of a substitute are those of the multi-regions among the candidates.
LEMMA SubstitutesFact ==
  ASSUME NEW kind, NEW sku, NEW region
  PROVE  LET keys == multiRegionImageSubstitutes(kind, sku, region)
             candidates == regionCandidates(region)
         IN /\ DOMAIN keys \subseteq Nat \ {0}
            /\ \A i \in DOMAIN keys :
                 /\ keys[i] = <<"machine_image_storage", sku, candidates[i]>>
                 /\ i \in DOMAIN candidates /\ isMultiRegion(candidates[i])
            /\ kind = "image_storage" =>
                 \A i \in DOMAIN candidates : isMultiRegion(candidates[i]) => i \in DOMAIN keys
            /\ DOMAIN keys # {} => kind = "image_storage"
BY CandidatesFact DEF multiRegionImageSubstitutes

LEMMA LookupFact ==
  ASSUME NEW kind, NEW sku, NEW region
  PROVE  LET own == FirstIn(Own(kind, sku, region))
             others == FirstIn(multiRegionImageSubstitutes(kind, sku, region))
         IN Lookup(kind, sku, region) =
              IF c.loadErr \/ scene.source = "none" THEN {}
              ELSE IF scene.provider = "aws" \/ own # {} THEN own
              ELSE {[e EXCEPT !.substitute = TRUE] : e \in others}
BY DEF Lookup, Own

LEMMA FirstInFact ==
  ASSUME NEW keys, NEW e \in FirstIn(keys)
  PROVE  \E i \in DOMAIN keys : keys[i] \in DOMAIN c.index /\ e = c.index[keys[i]]
BY DEF FirstIn

\* The multi-regions of a region look where the region looks.
LEMMA Narrower ==
  ASSUME NEW region, NEW i \in DOMAIN regionCandidates(region),
         isMultiRegion(regionCandidates(region)[i])
  PROVE  Members(regionCandidates(regionCandidates(region)[i])) \subseteq Members(regionCandidates(region))
<1> DEFINE r == regionCandidates(region)[i]
<1>1. r \in Members(regionCandidates(region))
  BY DEF Members
<1>2. r \in {"us", "eu", "europe", "asia"} /\ r \notin DOMAIN PrefixOf
  BY PrefixAssumption DEF isMultiRegion
<1> HIDE DEF r
<1>3. Members(regionCandidates(r)) = {r, "default", "global"} \cup (IF r = "eu" THEN {"europe"} ELSE {})
  BY <1>2, CandidatesFact
<1>4. {"default", "global"} \subseteq Members(regionCandidates(region))
  BY CandidatesFact
<1>5. CASE r = "eu"
  <2>1. region = "eu"
    BY <1>1, <1>5, CandidatesFact, PrefixAssumption
  <2>2. "europe" \in Members(regionCandidates(region))
    BY <2>1, CandidatesFact
  <2>3. QED
    BY <1>1, <1>3, <1>4, <1>5, <2>2 DEF r
<1>6. CASE r # "eu"
  BY <1>1, <1>3, <1>4, <1>6 DEF r
<1>7. QED
  BY <1>5, <1>6

\* What answered for one region answers for its own region too, and is the same.
LEMMA LookupSettles ==
  ASSUME Listing, ~OnAzure, NEW kind, kind # "instance", NEW sku, NEW region,
         NEW e \in Lookup(kind, sku, region)
  PROVE  Lookup(kind, sku, e.region) = {e}
<1> DEFINE own == Own(kind, sku, region)
<1>1. ~c.loadErr /\ scene.source # "none"
  BY LookupFact
<1>2. \A k \in DOMAIN c.index : k[1] # "instance" =>
        /\ c.index[k].region = k[3] /\ c.index[k].substitute = FALSE
        /\ {"region", "substitute"} \subseteq DOMAIN c.index[k]
  BY DEF Listing, Lists, AskedSingly, OnAzure
<1>3. CASE e \in FirstIn(own)
  <2>1. PICK i \in DOMAIN own : own[i] \in DOMAIN c.index /\ e = c.index[own[i]]
    BY <1>3, FirstInFact
  <2>2. own[i] = <<kind, sku, own[i][3]>>
    BY OwnFact
  <2>3. e.region = own[i][3]
    BY <1>2, <2>1, <2>2
  <2> DEFINE there == Own(kind, sku, e.region)
  <2>4. /\ DOMAIN there \subseteq Nat \ {0} /\ 1 \in DOMAIN there
        /\ there[1] = own[i]
    BY <2>2, <2>3, OwnFact
  <2> HIDE DEF there
  <2>5. FirstIn(there) = {e}
    BY <2>1, <2>4, FirstKey
  <2>6. QED
    BY <1>1, <2>5, LookupFact DEF there
<1>4. CASE e \notin FirstIn(own)
  <2> DEFINE others == multiRegionImageSubstitutes(kind, sku, region)
             candidates == regionCandidates(region)
  <2>1. scene.provider # "aws" /\ FirstIn(own) = {}
    BY <1>1, <1>4, LookupFact
  <2>2. PICK s \in FirstIn(others) : e = [s EXCEPT !.substitute = TRUE]
    BY <1>1, <1>4, <2>1, LookupFact
  <2>3. PICK i \in DOMAIN others : others[i] \in DOMAIN c.index /\ s = c.index[others[i]]
    BY FirstInFact
  <2> DEFINE r == candidates[i]
  <2>4. /\ others[i] = <<"machine_image_storage", sku, r>>
        /\ i \in DOMAIN candidates /\ isMultiRegion(r) /\ kind = "image_storage"
    BY SubstitutesFact
  <2>5. s.region = r /\ {"region", "substitute"} \subseteq DOMAIN s
    BY <1>2, <2>3, <2>4
  <2>6. e.region = r
    BY <2>2, <2>5
  <2>7. FirstIn(Own(kind, sku, r)) = {}
    <3>1. \A j \in DOMAIN own : own[j] \notin DOMAIN c.index
      BY <2>1, OwnFact, NoneIn
    <3>2. own = [j \in DOMAIN candidates |-> <<kind, sku, candidates[j]>>]
      BY <2>1 DEF Own, Keys
    <3>3. \A x \in Members(candidates) : <<kind, sku, x>> \notin DOMAIN c.index
      BY <3>1, <3>2 DEF Members
    <3>4. Members(regionCandidates(r)) \subseteq Members(candidates)
      BY <2>4, Narrower
    <3>5. Own(kind, sku, r) = [j \in DOMAIN regionCandidates(r) |-> <<kind, sku, regionCandidates(r)[j]>>]
      BY <2>1 DEF Own, Keys
    <3>6. \A j \in DOMAIN Own(kind, sku, r) : Own(kind, sku, r)[j] \notin DOMAIN c.index
      <4> HIDE DEF r, candidates, own
      <4> QED BY <3>3, <3>4, <3>5 DEF Members
    <3>7. QED
      BY <3>6, OwnFact, NoneIn
  <2>8. FirstIn(multiRegionImageSubstitutes(kind, sku, r)) = {s}
    <3> DEFINE keys == multiRegionImageSubstitutes(kind, sku, r)
    <3> HIDE DEF r
    <3>1. /\ 1 \in DOMAIN regionCandidates(r) /\ regionCandidates(r)[1] = r
      BY CandidatesFact
    <3>2. /\ DOMAIN keys \subseteq Nat \ {0} /\ 1 \in DOMAIN keys
          /\ keys[1] = <<"machine_image_storage", sku, r>>
      BY <2>4, <3>1, SubstitutesFact
    <3> HIDE DEF keys
    <3>3. FirstIn(keys) = {s}
      BY <2>3, <2>4, <3>2, FirstKey
    <3>4. QED
      BY <3>3 DEF keys
  <2> HIDE DEF r
  <2>9. Lookup(kind, sku, r) = {[x EXCEPT !.substitute = TRUE] : x \in {s}}
    BY <1>1, <2>1, <2>7, <2>8, LookupFact
  <2>10. QED
    BY <2>2, <2>6, <2>9
<1>5. QED
  BY <1>3, <1>4

\* What is told of a term, under the region that was asked and under the one that
\* answered, is what would be told now.
LEMMA TermFact ==
  ASSUME Listing, ~OnAzure, NEW t, t.kind # "instance", Found(t) # {},
         NEW k \in Under(t.kind, t.sku, t.region, Entry1(t))
  PROVE  k[1] = t.kind /\ k[2] = t.sku /\ Source(k) = Provenance(Entry1(t), t.sku)
<1> DEFINE e == Entry1(t)
<1>1. e \in Lookup(t.kind, t.sku, t.region)
  BY DEF Entry1, Found
<1> HIDE DEF e
<1>2. Lookup(t.kind, t.sku, e.region) = {e}
  BY <1>1, LookupSettles
<1>3. CASE k = <<t.kind, t.sku, t.region>>
  BY <1>3 DEF Source, Answer, Read, Entry1, Found
<1>4. CASE k = <<t.kind, t.sku, e.region>>
  BY <1>2, <1>4 DEF Source, Answer, Read, e
<1>5. QED
  BY <1>3, <1>4 DEF Under, e

-----------------------------------------------------------------------------
(* What a step leaves alone *)

\* The index is the same but for machines.
SameIndex ==
  \A k : k[1] # "instance" =>
    /\ k \in DOMAIN c'.index <=> k \in DOMAIN c.index
    /\ k \in DOMAIN c.index => c'.index[k] = c.index[k]

SameFirst(keys) == FirstIn(keys)' = FirstIn(keys)

LEMMA FirstStays ==
  ASSUME SameIndex, NEW keys, \A i \in DOMAIN keys : keys[i][1] # "instance"
  PROVE  SameFirst(keys)
<1>1. \A i \in DOMAIN keys : keys[i] \in DOMAIN c'.index <=> keys[i] \in DOMAIN c.index
  BY DEF SameIndex
<1>2. \A i \in DOMAIN keys : keys[i] \in DOMAIN c.index => c'.index[keys[i]] = c.index[keys[i]]
  BY DEF SameIndex
<1>3. {i \in DOMAIN keys : keys[i] \in DOMAIN c'.index} = {i \in DOMAIN keys : keys[i] \in DOMAIN c.index}
  BY <1>1
<1>4. QED
  BY <1>1, <1>2, <1>3 DEF SameFirst, FirstIn

SameRead(k) == Read(k)' = Read(k)

LEMMA ReadStays ==
  ASSUME SameIndex, scene' = scene, c'.loadErr = c.loadErr, NEW k, k[1] # "instance"
  PROVE  SameRead(k)
<1> DEFINE listed == Keys(k[1], k[2], AwsRegions(k[3]))
           own == Keys(k[1], k[2], regionCandidates(k[3]))
           others == multiRegionImageSubstitutes(k[1], k[2], k[3])
<1>1. /\ \A i \in DOMAIN listed : listed[i][1] # "instance"
      /\ \A i \in DOMAIN own : own[i][1] # "instance"
  BY DEF Keys
<1>2. \A i \in DOMAIN others : others[i][1] # "instance"
  BY SubstitutesFact
<1> HIDE DEF listed, own, others
<1>3. SameFirst(listed) /\ SameFirst(own) /\ SameFirst(others)
  BY <1>1, <1>2, FirstStays
<1>4. Read(k) =
        IF c.loadErr \/ scene.source = "none" THEN {}
        ELSE IF scene.provider = "aws" THEN FirstIn(listed)
        ELSE IF FirstIn(own) # {} THEN FirstIn(own)
        ELSE {[e EXCEPT !.substitute = TRUE] : e \in FirstIn(others)}
  BY DEF Read, Lookup, listed, own, others
<1>5. Read(k)' =
        IF c'.loadErr \/ scene'.source = "none" THEN {}
        ELSE IF scene'.provider = "aws" THEN FirstIn(listed)'
        ELSE IF FirstIn(own)' # {} THEN FirstIn(own)'
        ELSE {[e EXCEPT !.substitute = TRUE] : e \in FirstIn(others)'}
  BY DEF Read, Lookup, listed, own, others
<1>6. QED
  BY <1>3, <1>4, <1>5 DEF SameRead, SameFirst

\* What a step may do without any answer changing.
Keeps ==
  /\ scene' = scene /\ (Ready => Ready') /\ (Known => Known')
  /\ DOMAIN c.last \subseteq DOMAIN c'.last
  /\ Known => \A k : k[1] # "instance" => Source(k)' = Source(k)
  /\ Ready /\ ~OnAzure => \A k : k[1] # "instance" => Reply(k)' = Reply(k)

LEMMA KeepsFact ==
  ASSUME scene' = scene, c'.once = c.once, DOMAIN c.last \subseteq DOMAIN c'.last,
         ~OnAzure => SameIndex /\ c'.loadErr = c.loadErr
  PROVE  Keeps
<1>1. (Ready' <=> Ready) /\ (Known' <=> Known) /\ (OnAzure' <=> OnAzure)
  BY DEF Ready, Known, OnAzure
<1>2. CASE OnAzure
  BY <1>1, <1>2 DEF Keeps, Source
<1>3. CASE ~OnAzure
  <2>1. ASSUME NEW k, k[1] # "instance" PROVE Source(k)' = Source(k) /\ Reply(k)' = Reply(k)
    <3>1. Read(k)' = Read(k)
      BY <1>3, <2>1, ReadStays DEF SameRead
    <3>2. Answer(k)' = Answer(k)
      BY <3>1 DEF Answer
    <3>3. QED
      BY <1>1, <1>3, <3>1, <3>2 DEF Source, Reply
  <2>2. QED
    BY <1>1, <2>1 DEF Keeps
<1>4. QED
  BY <1>2, <1>3

\* The prices of a key that is asked singly are of the scene alone.
ScenePrice(k) == Prices(k)' = Prices(k) /\ (AskedSingly(k[1]))' = AskedSingly(k[1])

LEMMA SceneFact ==
  ASSUME scene' = scene, NEW k
  PROVE  ScenePrice(k)
BY DEF ScenePrice, Prices, ThePrice, Asked, Priced, AskedSingly, FromTwoLists, Recording

-----------------------------------------------------------------------------
(* The job of a worker *)

\* A worker goes on: its parts are some of those it had and the new ones.
Moves(w, parts) ==
  /\ job' = [job EXCEPT ![w] = job'[w]]
  /\ Formed(job'[w])
  /\ job'[w].pricing =>
       \A p \in job'[w].parts : p \in parts \/ (job[w].pricing /\ p \in job[w].parts)

LEMMA NextNodeFact ==
  ASSUME NEW w \in Workers, Formed(job[w])
  PROVE  Formed(NextNode(w)) /\ NextNode(w).pricing = FALSE
BY DEF NextNode, Formed, Idle

LEMMA SkipMoves ==
  ASSUME NEW w \in Workers, Formed(job[w]), w \in DOMAIN job, NEW code, Skip(w, code), NEW parts
  PROVE  Moves(w, parts) /\ findings' = findings
<1>1. job' = [job EXCEPT ![w] = NextNode(w)] /\ findings' = findings
  BY DEF Skip
<1>2. job'[w] = NextNode(w)
  BY <1>1
<1>3. QED
  BY <1>1, <1>2, NextNodeFact DEF Moves

LEMMA SettledMoves ==
  ASSUME NEW w \in Workers, Formed(job[w]), w \in DOMAIN job, job[w].pricing,
         NEW amount, NEW parts, Settled(w, amount, parts)
  PROVE  Moves(w, parts) /\ findings' = findings
<1> DEFINE j == job[w]
           rest == [j EXCEPT !.legs = Tail(@), !.asking = FALSE]
           paid == [rest EXCEPT !.waste = @ + amount, !.parts = @ \cup parts]
           smaller == [rest EXCEPT !.legs = <<>>, !.waste = @ - amount, !.answered = TRUE, !.parts = @ \cup parts]
<1>1. \/ Skip(w, "no_price")
      \/ /\ \/ job' = [job EXCEPT ![w] = rest]
            \/ job' = [job EXCEPT ![w] = paid]
            \/ job' = [job EXCEPT ![w] = smaller]
         /\ findings' = findings
  BY Zenon DEF Settled, results
<1>2. /\ {"rule", "nodes", "pricing", "legs", "waste", "answered", "parts", "asking"} \subseteq DOMAIN j
      /\ j.rule \in DOMAIN Rules \cup {"idle"}
  BY DEF Formed
<1>3. /\ DOMAIN rest = DOMAIN j /\ rest.rule = j.rule /\ rest.parts = j.parts
  BY <1>2
<1>4. /\ DOMAIN paid = DOMAIN j /\ paid.rule = j.rule /\ paid.parts = j.parts \cup parts
      /\ DOMAIN smaller = DOMAIN j /\ smaller.rule = j.rule /\ smaller.parts = j.parts \cup parts
  BY <1>2, <1>3
<1> HIDE DEF rest, paid, smaller
<1>5. ASSUME NEW new \in {rest, paid, smaller}, job' = [job EXCEPT ![w] = new]
      PROVE  Moves(w, parts)
  <2>1. job'[w] = new
    BY <1>5
  <2>2. Formed(new) /\ new.parts \subseteq j.parts \cup parts
    BY <1>2, <1>3, <1>4 DEF Formed
  <2>3. QED
    BY <1>5, <2>1, <2>2 DEF Moves
<1>6. CASE Skip(w, "no_price")
  BY <1>6, SkipMoves
<1>7. QED
  BY <1>1, <1>5, <1>6

-----------------------------------------------------------------------------
(* What each part of the invariant asks of a step *)

LEMMA PlansFact ==
  ASSUME scene' = scene
  PROVE  Plans' = Plans
<1>1. \A r : Plan(r)' = Plan(r)
  BY DEF Plan
<1>2. QED
  BY <1>1 DEF Plans

LEMMA ShapesStays ==
  ASSUME Shapes, scene' = scene, DOMAIN c' = Fields, queue' \in Seq({Currency} \cup Plans),
         \/ job' = job
         \/ \E w \in Workers : \E parts : Moves(w, parts)
  PROVE  Shapes'
<1>1. queue' \in Seq({Currency} \cup Plans')
  BY PlansFact
<1>2. DOMAIN job' = Workers /\ \A w \in Workers : Formed(job'[w])
  BY DEF Shapes, Moves
<1>3. QED
  BY <1>1, <1>2 DEF Shapes

LEMMA WeighsStays ==
  ASSUME Keeps, NEW p, Weighs(p)
  PROVE  Weighs(p)'
BY DEF Keeps, Weighs, Unwitnessed

LEMMA WeighedStays ==
  ASSUME Shapes, Weighed, Keeps, NEW w \in Workers, NEW parts, Moves(w, parts),
         \A p \in parts : Weighs(p)'
  PROVE  Weighed'
<1> SUFFICES ASSUME NEW v \in Workers, job'[v].pricing, NEW p \in job'[v].parts
             PROVE  Weighs(p)'
  BY DEF Weighed
<1>1. CASE v = w
  BY <1>1, WeighsStays DEF Weighed, Moves
<1>2. CASE v # w
  <2>1. job'[v] = job[v]
    BY <1>2 DEF Moves, Shapes
  <2>2. QED
    BY <2>1, WeighsStays DEF Weighed
<1>3. QED
  BY <1>1, <1>2

LEMMA WeighedIdles ==
  ASSUME Weighed, Keeps, job' = job
  PROVE  Weighed'
BY WeighsStays DEF Weighed

\* An answer that may be given for a key.
Fits(key, figures) ==
  IF AskedSingly(key[1]) THEN figures # {} /\ figures \subseteq {NoPrice} \cup Prices(key)
  ELSE Ready /\ figures = {Reply(key)}

LEMMA FitsStays ==
  ASSUME Keeps, NEW key, NEW figures, Fits(key, figures)
  PROVE  Fits(key, figures)'
<1>1. Prices(key)' = Prices(key) /\ (AskedSingly(key[1]))' = AskedSingly(key[1])
  BY SceneFact DEF Keeps, ScenePrice
<1>2. CASE AskedSingly(key[1])
  BY <1>1, <1>2 DEF Fits
<1>3. CASE ~AskedSingly(key[1])
  <2>1. ~OnAzure /\ key[1] # "instance"
    BY <1>3 DEF AskedSingly, OnAzure
  <2>2. QED
    BY <1>1, <1>3, <2>1 DEF Fits, Keeps
<1>4. QED
  BY <1>2, <1>3

LEMMA RepliedStays ==
  ASSUME Replied, Keeps,
         \/ answers' = answers
         \/ \E key, figures : Answered(key, figures) /\ Fits(key, figures)
  PROVE  Replied'
<1>0. Replied <=> \A k \in DOMAIN answers : Fits(k, answers[k])
  BY DEF Replied, Fits
<1>1. SUFFICES ASSUME NEW k \in DOMAIN answers', NEW given, given = answers'[k]
               PROVE  Fits(k, given)'
  BY DEF Replied, Fits
<1>2. CASE answers' = answers
  BY <1>0, <1>1, <1>2, FitsStays
<1>3. ASSUME NEW key, NEW figures, Answered(key, figures), Fits(key, figures)
      PROVE  Fits(k, given)'
  <2>1. /\ DOMAIN answers' = DOMAIN answers \cup {key}
        /\ \A x \in DOMAIN answers : x # key => answers'[x] = answers[x]
        /\ answers'[key] = figures \cup (IF key \in DOMAIN answers THEN answers[key] ELSE {})
    BY <1>3 DEF Answered, Put
  <2>2. Fits(k, given)
    <3>1. CASE k # key
      BY <1>0, <1>1, <2>1, <3>1
    <3>2. CASE k = key /\ key \in DOMAIN answers
      BY <1>0, <1>1, <1>3, <2>1, <3>2 DEF Fits
    <3>3. CASE k = key /\ key \notin DOMAIN answers
      <4>1. given = figures
        BY <1>1, <2>1, <3>3
      <4>2. QED
        BY <1>3, <3>3, <4>1
    <3>4. QED
      BY <3>1, <3>2, <3>3
  <2>3. QED
    BY <2>2, FitsStays
<1>4. QED
  BY <1>2, <1>3

\* What is remembered of a key is what would be told of it.
Recalls(k) == k[1] \notin Unwitnessed => Known /\ c.last[k] = Source(k)

LEMMA RememberedStays ==
  ASSUME Remembered, Keeps,
         \A k \in DOMAIN c'.last :
           (k \in DOMAIN c.last /\ c'.last[k] = c.last[k]) \/ Recalls(k)'
  PROVE  Remembered'
<1> SUFFICES ASSUME NEW k \in DOMAIN c'.last, k[1] \notin Unwitnessed
             PROVE  Known' /\ c'.last[k] = Source(k)'
  BY DEF Remembered
<1>1. CASE k \in DOMAIN c.last /\ c'.last[k] = c.last[k]
  BY <1>1 DEF Remembered, Keeps, Unwitnessed
<1>2. CASE Recalls(k)'
  BY <1>2 DEF Recalls
<1>3. QED
  BY <1>1, <1>2

LEMMA ListingStays ==
  ASSUME Listing, scene' = scene, c'.index = c.index
  PROVE  Listing'
BY SceneFact DEF Listing, Lists, ScenePrice

LEMMA LoadingStays ==
  ASSUME Loading, c'.once = c.once, c'.loadErr = c.loadErr, c'.loaded = c.loaded
  PROVE  Loading'
BY DEF Loading

LEMMA ReportedStays ==
  ASSUME Reported, findings' = findings
  PROVE  Reported'
BY DEF Reported

LEMMA ListingGrows ==
  ASSUME Listing, scene' = scene, NEW new, c'.index = Put(new, c.index),
         \A k \in DOMAIN new : Lists(k, new[k])
  PROVE  Listing'
<1>1. \A k \in DOMAIN c'.index : Lists(k, c'.index[k])
  BY DEF Listing, Put
<1>2. QED
  BY <1>1, SceneFact DEF Listing, Lists, ScenePrice

\* A step that keeps what is answered keeps the invariant, if what it adds fits.
LEMMA StepFact ==
  ASSUME IInv, Keeps, DOMAIN c' = Fields, queue' \in Seq({Currency} \cup Plans),
         Loading', Listing', Reported',
         \/ job' = job
         \/ \E w \in Workers : \E parts : Moves(w, parts) /\ \A p \in parts : Weighs(p)',
         \/ answers' = answers
         \/ \E key, figures : Answered(key, figures) /\ Fits(key, figures),
         \A k \in DOMAIN c'.last :
           (k \in DOMAIN c.last /\ c'.last[k] = c.last[k]) \/ Recalls(k)'
  PROVE  IInv'
<1>1. scene' = scene
  BY DEF Keeps
<1>2. Shapes'
  BY <1>1, ShapesStays DEF IInv
<1>3. Replied'
  BY RepliedStays DEF IInv
<1>4. Remembered'
  BY RememberedStays DEF IInv
<1>5. Weighed'
  BY WeighedStays, WeighedIdles DEF IInv
<1>6. QED
  BY <1>2, <1>3, <1>4, <1>5 DEF IInv

-----------------------------------------------------------------------------
(* The steps *)

LEMMA InitInv == Init => IInv
<1> SUFFICES ASSUME Init PROVE IInv
  OBVIOUS
<1>1. PICK name \in DOMAIN Scenes : scene = Scenes[name]
  BY DEF Init
<1>2. Shapes
  <2>1. scene.rules \in Seq(DOMAIN Rules)
    BY <1>1, ScenesAssumption
  <2>2. [i \in DOMAIN scene.rules |-> Plan(scene.rules[i])] \in Seq(Plans)
    BY <2>1 DEF Plans
  <2>3. queue \in Seq({Currency} \cup Plans)
    <3> DEFINE plans == [i \in DOMAIN scene.rules |-> Plan(scene.rules[i])]
               S == {Currency} \cup Plans
    <3>1. plans \in Seq(S) /\ <<Currency>> \in Seq(S)
      BY <2>2
    <3>2. queue = <<Currency>> \o plans
      BY DEF Init
    <3> HIDE DEF plans, S
    <3>3. queue \in Seq(S)
      BY <3>1, <3>2
    <3>4. QED
      BY <3>3 DEF S
  <2>4. Formed(Idle)
    BY DEF Formed, Idle
  <2>5. DOMAIN c = Fields
    <3> QED BY Zenon DEF Init, NewPricer, Fields
  <2>6. QED
    BY <1>1, <2>3, <2>4, <2>5 DEF Shapes, Init
<1>3. c.index = <<>> /\ c.last = <<>> /\ c.once = "idle" /\ c.loadErr = FALSE /\ c.loaded = FALSE
  BY DEF Init, NewPricer
<1>4. Loading /\ Listing /\ Remembered
  BY <1>3 DEF Loading, Listing, Remembered
<1>5. Replied /\ Reported
  BY DEF Init, Replied, Reported
<1>6. Weighed
  BY DEF Init, Weighed, Idle
<1>7. QED
  BY <1>2, <1>4, <1>5, <1>6 DEF IInv

LEMMA SettleStep == IInv /\ Settle => IInv'
<1> SUFFICES ASSUME IInv, Settle PROVE IInv'
  OBVIOUS
<1>1. /\ scene' = scene /\ job' = job /\ answers' = answers /\ findings' = findings
      /\ queue # <<>> /\ queue' = Tail(queue)
  BY DEF Settle, results
<1>2. c' = [c EXCEPT !.currency = c'.currency] \/ c' = c
  BY DEF Settle, ResolveCurrency, IInv, Shapes, Fields
<1>3. /\ DOMAIN c' = Fields /\ c'.once = c.once /\ c'.loadErr = c.loadErr /\ c'.loaded = c.loaded
      /\ c'.index = c.index /\ c'.last = c.last
  BY <1>2 DEF IInv, Shapes, Fields
<1>4. queue' \in Seq({Currency} \cup Plans)
  BY <1>1 DEF IInv, Shapes
<1>5. Keeps
  BY <1>1, <1>3, KeepsFact DEF SameIndex
<1>6. Loading' /\ Listing' /\ Reported'
  BY <1>1, <1>3, LoadingStays, ListingStays, ReportedStays DEF IInv
<1>7. QED
  BY <1>1, <1>3, <1>4, <1>5, <1>6, StepFact

Quiet ==
  /\ Keeps /\ DOMAIN c' = Fields /\ Loading' /\ Listing'
  /\ \A k \in DOMAIN c'.last : (k \in DOMAIN c.last /\ c'.last[k] = c.last[k]) \/ Recalls(k)'

\* A step that leaves the pricer alone.
LEMMA QuietFact ==
  ASSUME IInv, scene' = scene, c' = c
  PROVE  Quiet
<1>1. Keeps
  BY KeepsFact DEF SameIndex
<1>2. Loading' /\ Listing'
  BY LoadingStays, ListingStays DEF IInv
<1>3. QED
  BY <1>1, <1>2 DEF Quiet, IInv, Shapes

\* A worker goes on, and the pricer is left alone.
LEMMA WorkerStep ==
  ASSUME IInv, scene' = scene, c' = c, queue' \in Seq({Currency} \cup Plans), Reported',
         answers' = answers, NEW w \in Workers, Moves(w, {})
  PROVE  IInv'
<1>1. Quiet
  BY QuietFact
<1>2. \E v \in Workers : \E parts : Moves(v, parts) /\ \A p \in parts : Weighs(p)'
  <2> DEFINE Fine(v, parts) == Moves(v, parts) /\ \A p \in parts : Weighs(p)'
  <2>1. Fine(w, {})
    OBVIOUS
  <2> HIDE DEF Fine
  <2>2. \E v \in Workers : \E parts : Fine(v, parts)
    BY <2>1
  <2>3. QED
    BY <2>2 DEF Fine
<1>3. QED
  BY <1>1, <1>2, StepFact DEF Quiet

LEMMA JobFact ==
  ASSUME IInv, NEW w \in Workers
  PROVE  w \in DOMAIN job /\ Formed(job[w])
BY DEF IInv, Shapes

LEMMA TakeStep ==
  ASSUME IInv, NEW w \in Workers, Take(w)
  PROVE  IInv'
<1>1. /\ scene' = scene /\ c' = c /\ answers' = answers /\ findings' = findings
      /\ queue # <<>> /\ queue' = Tail(queue) /\ Head(queue) # Currency
      /\ job' = [job EXCEPT ![w] = Head(queue)]
  BY DEF Take, results
<1>2. queue' \in Seq({Currency} \cup Plans) /\ Head(queue) \in {Currency} \cup Plans
  BY <1>1 DEF IInv, Shapes
<1>3. Formed(Head(queue)) /\ Head(queue).pricing = FALSE
  BY <1>1, <1>2 DEF Plans, Plan, Idle, Formed
<1>4. Moves(w, {})
  BY <1>1, <1>3, JobFact DEF Moves
<1>5. Reported'
  BY <1>1, ReportedStays DEF IInv
<1>6. QED
  BY <1>1, <1>2, <1>4, <1>5, WorkerStep

\* What a worker does to the queue and the findings in most of its steps.
LEMMA RestFact ==
  ASSUME IInv, UNCHANGED <<queue, findings>>, scene' = scene
  PROVE  queue' \in Seq({Currency} \cup Plans) /\ Reported'
BY ReportedStays DEF IInv, Shapes

LEMMA FinishedStep ==
  ASSUME IInv, NEW w \in Workers, Finished(w)
  PROVE  IInv'
<1>1. /\ scene' = scene /\ c' = c /\ answers' = answers /\ UNCHANGED <<queue, findings>>
      /\ job' = [job EXCEPT ![w] = Idle]
  BY DEF Finished, results
<1>2. Formed(Idle) /\ Idle.pricing = FALSE
  BY DEF Idle, Formed
<1>3. Moves(w, {})
  BY <1>1, <1>2, JobFact DEF Moves
<1>4. QED
  BY <1>1, <1>3, RestFact, WorkerStep

LEMMA AskStep ==
  ASSUME IInv, NEW w \in Workers, Ask(w)
  PROVE  IInv'
<1>1. scene' = scene /\ c' = c /\ answers' = answers /\ queue' = queue
  BY DEF Ask
<1>2. CASE Skip(w, NodeOf(w).code)
  BY <1>1, <1>2, JobFact, SkipMoves, RestFact, WorkerStep
<1>3. CASE ~Skip(w, NodeOf(w).code)
  <2> DEFINE new == [rule |-> job[w].rule, nodes |-> job[w].nodes, pricing |-> TRUE, legs |-> NodeOf(w).legs,
                     waste |-> 0, answered |-> FALSE, parts |-> {}, asking |-> FALSE]
  <2>1. job' = [job EXCEPT ![w] = new] /\ findings' = findings
    BY <1>3, Zenon DEF Ask, results
  <2>2. Formed(new) /\ new.parts = {}
    BY JobFact DEF Formed
  <2> HIDE DEF new
  <2>3. Moves(w, {})
    BY <2>1, <2>2, JobFact DEF Moves
  <2>4. QED
    BY <1>1, <2>1, <2>3, RestFact, WorkerStep
<1>4. QED
  BY <1>2, <1>3

LEMMA ForgoStep ==
  ASSUME IInv, NEW w \in Workers, Forgo(w)
  PROVE  IInv'
<1>1. /\ scene' = scene /\ c' = c /\ answers' = answers /\ queue' = queue
      /\ Settled(w, NoPrice, {}) /\ job[w].pricing
  BY DEF Forgo, HasLeg, Pricing
<1>2. Moves(w, {}) /\ findings' = findings
  BY <1>1, JobFact, SettledMoves
<1>3. QED
  BY <1>1, <1>2, RestFact, WorkerStep

\* A finding names the source of every part it is made of: what is remembered of a
\* part is what its price came from.
LEMMA ConcludeStep ==
  ASSUME IInv, NEW w \in Workers, Conclude(w)
  PROVE  IInv'
<1>1. /\ scene' = scene /\ c' = c /\ answers' = answers /\ queue' = queue
      /\ job[w].pricing /\ job[w].rule # "idle"
  BY DEF Conclude, Pricing, At
<1>2. CASE ~WorthReporting(w)
  <2>1. Skip(w, "below_min_waste")
    BY <1>2 DEF Conclude
  <2>2. QED
    BY <1>1, <2>1, JobFact, SkipMoves, RestFact, WorkerStep
<1>3. CASE WorthReporting(w)
  <2> DEFINE evidence == {[told |-> EvidenceOf(p), true |-> Provenance(p.from, p.key[2])] : p \in Witnessed(w)}
             f == [rule |-> job[w].rule, node |-> NodeOf(w).id, waste |-> job[w].waste,
                   rightsize |-> job[w].answered, basis |-> NodeOf(w).basis,
                   label |-> Effective, in |-> ListedIn, evidence |-> evidence]
  <2>1. findings' = findings \cup {f} /\ job' = [job EXCEPT ![w] = NextNode(w)]
    BY <1>3 DEF Conclude
  <2>2. \A e \in evidence : e.told = e.true
    <3>1. ASSUME NEW p \in Witnessed(w)
          PROVE  EvidenceOf(p) = Provenance(p.from, p.key[2])
      <4>1. p \in job[w].parts /\ p.key[1] \notin Unwitnessed
        BY <3>1 DEF Witnessed, Unwitnessed
      <4>2. p.key \in DOMAIN c.last /\ Provenance(p.from, p.key[2]) = Source(p.key)
        BY <1>1, <4>1 DEF IInv, Weighed, Weighs
      <4>3. c.last[p.key] = Source(p.key)
        BY <4>1, <4>2 DEF IInv, Remembered
      <4>4. QED
        BY <4>2, <4>3 DEF EvidenceOf
    <3>2. QED
      BY <3>1
  <2>3. f.rule \in DOMAIN Rules /\ f.waste >= Rules[f.rule].floor /\ f.evidence = evidence
    BY <1>1, <1>3, JobFact DEF Formed, WorthReporting
  <2> HIDE DEF f, evidence
  <2>4. Reported'
    BY <2>1, <2>2, <2>3 DEF Reported, IInv
  <2>5. Moves(w, {})
    BY <2>1, JobFact, NextNodeFact DEF Moves
  <2>6. queue' \in Seq({Currency} \cup Plans)
    BY <1>1 DEF IInv, Shapes
  <2>7. QED
    BY <1>1, <2>4, <2>5, <2>6, WorkerStep
<1>4. QED
  BY <1>2, <1>3

-----------------------------------------------------------------------------
(* The load *)

LEMMA EntriesFact ==
  ASSUME ~OnAzure, NEW doc, NEW e \in EntriesOf(doc)
  PROVE  Lists(e.key, e)
<1>1. Catalogued(e)
  BY AwsEntryFact, GcpEntryFact DEF EntriesOf
<1>2. QED
  BY <1>1 DEF Catalogued, Lists, AskedSingly, OnAzure

LEMMA MachinesFact ==
  ASSUME Shapes, ~OnAzure, scene.source = "fixture", NEW m \in scene.machines
  PROVE  Lists(m.key, m)
<1>1. /\ m = Entry(m.key[1], m.key[2], m.key[3], m.price)
      /\ m.key[1] = IF scene.provider = "aws" THEN "instance" ELSE "vm_instance"
  BY RecordingAssumption DEF Shapes
<1>2. CASE scene.provider = "aws"
  <2>1. m.price \in Recording(m.key) /\ FromTwoLists(m.key)
    BY <1>1, <1>2 DEF Recording, FromTwoLists
  <2>2. m.price \in Prices(m.key)
    BY <2>1 DEF Prices
  <2>3. QED
    BY <1>1, <1>2, <2>2 DEF Lists, AskedSingly
<1>3. CASE scene.provider # "aws"
  <2>1. ~AskedSingly(m.key[1])
    BY <1>1, <1>3 DEF AskedSingly, OnAzure
  <2>2. m.region = m.key[3] /\ m.substitute = FALSE /\ {"region", "substitute"} \subseteq DOMAIN m
    BY <1>1 DEF Entry
  <2>3. QED
    BY <2>1, <2>2 DEF Lists
<1>4. QED
  BY <1>2, <1>3

LEMMA IndexedFact ==
  ASSUME NEW entries, \A e \in entries : Lists(e.key, e)
  PROVE  \A k \in DOMAIN Indexed(entries) : Lists(k, Indexed(entries)[k])
<1> SUFFICES ASSUME NEW k \in {e.key : e \in entries}
             PROVE  Lists(k, CHOOSE e \in entries : e.key = k)
  BY DEF Indexed
<1>1. \E e \in entries : e.key = k
  OBVIOUS
<1> DEFINE e == CHOOSE e \in entries : e.key = k
<1>2. e \in entries /\ e.key = k
  BY <1>1
<1>3. QED
  BY <1>2

\* What a step of the load leaves of the pricer.
Grows(new) ==
  /\ scene' = scene /\ DOMAIN c' = Fields /\ c'.last = c.last
  /\ Loading'
  /\ c'.index = c.index \/ (c'.index = Put(new, c.index) /\ \A k \in DOMAIN new : Lists(k, new[k]))

LEMMA LoadGrows ==
  ASSUME IInv, NEW w \in Workers, Load(w), ~OnAzure
  PROVE  c.once # "done" /\ \E new : Grows(new)
<1>1. w # "idle" /\ w # "done"
  BY WorkersAssumption
<1>2. DOMAIN c = Fields /\ scene.source # "none"
  BY DEF Load, IInv, Shapes
<1>3. CASE Start(w)
  <2>1. Grows(<<>>)
    BY <1>1, <1>2, <1>3 DEF Start, Grows, IInv, Loading, Fields
  <2>2. QED
    BY <1>3, <2>1 DEF Start
<1>4. CASE StartRecorded(w)
  <2> DEFINE docs == UNION {{scene.listed[s][i] : i \in DOMAIN scene.listed[s]} : s \in DOMAIN scene.listed}
             found == scene.machines \cup UNION {EntriesOf(d) : d \in docs}
             new == Indexed(found)
  <2>1. /\ c.once = "idle" /\ scene' = scene
        /\ c' = IF scene.source = "broken" THEN [c EXCEPT !.once = "done", !.loadErr = TRUE]
                ELSE [c EXCEPT !.once = "done", !.loaded = found # {}, !.fixed = scene.provider = "aws",
                               !.index = Put(new, @)]
    BY <1>4 DEF StartRecorded
  <2>2. scene.source # "broken" => \A e \in found : Lists(e.key, e)
    <3> SUFFICES ASSUME scene.source # "broken", NEW e \in found
                 PROVE  Lists(e.key, e)
      OBVIOUS
    <3>1. scene.source = "fixture"
      BY <1>4 DEF StartRecorded, Recorded
    <3>2. CASE e \in scene.machines
      BY <3>1, <3>2, MachinesFact DEF IInv
    <3>3. CASE \E d \in docs : e \in EntriesOf(d)
      BY <3>3, EntriesFact
    <3>4. QED
      BY <3>2, <3>3
  <2> HIDE DEF found
  <2>3. scene.source # "broken" => \A k \in DOMAIN new : Lists(k, new[k])
    BY <2>2, IndexedFact
  <2> HIDE DEF new
  <2>4. ~c.loadErr /\ ~c.loaded
    BY <2>1 DEF IInv, Loading
  <2>5. CASE scene.source = "broken"
    <3>1. /\ DOMAIN c' = Fields /\ c'.last = c.last /\ c'.index = c.index
          /\ c'.once = "done" /\ c'.loaded = c.loaded
      BY <1>2, <2>1, <2>5 DEF Fields
    <3>2. Grows(new)
      BY <2>1, <2>4, <3>1 DEF Grows, Loading
    <3>3. QED
      BY <2>1, <3>2
  <2>6. CASE scene.source # "broken"
    <3>1. /\ DOMAIN c' = Fields /\ c'.last = c.last /\ c'.index = Put(new, c.index)
          /\ c'.once = "done" /\ c'.loadErr = c.loadErr
      BY <1>2, <2>1, <2>6 DEF Fields
    <3>2. Grows(new)
      BY <2>1, <2>3, <2>4, <2>6, <3>1 DEF Grows, Loading
    <3>3. QED
      BY <2>1, <3>2
  <2>7. QED
    BY <2>5, <2>6
<1>5. ASSUME NEW s, List(w, s) PROVE c.once # "done" /\ \E new : Grows(new)
  <2> DEFINE entries == EntriesOf(Head(c.left[s]))
             new == Indexed(entries)
  <2>1. /\ c.once = w /\ scene' = scene
        /\ c' = [c EXCEPT !.left[s] = Tail(@), !.index = Put(new, @)]
    BY <1>5 DEF List
  <2>2. \A k \in DOMAIN new : Lists(k, new[k])
    <3>1. \A e \in entries : Lists(e.key, e)
      BY EntriesFact
    <3> HIDE DEF entries
    <3>2. QED
      BY <3>1, IndexedFact
  <2> HIDE DEF new
  <2>3. /\ DOMAIN c' = Fields /\ c'.last = c.last /\ c'.index = Put(new, c.index)
        /\ c'.once = c.once /\ c'.loadErr = c.loadErr /\ c'.loaded = c.loaded
    BY <1>2, <2>1 DEF Fields
  <2>4. Grows(new)
    BY <2>1, <2>2, <2>3, LoadingStays DEF Grows, IInv
  <2>5. QED
    BY <1>1, <2>1, <2>4
<1>6. ASSUME c.once = w, c' = Abandoned \/ c' = [Abandoned EXCEPT !.unsupported = TRUE], scene' = scene
      PROVE  Grows(<<>>)
  <2>1. /\ DOMAIN c' = Fields /\ c'.last = c.last /\ c'.index = c.index
        /\ c'.once = "done" /\ c'.loadErr = TRUE /\ c'.loaded = c.loaded
    BY <1>2, <1>6 DEF Abandoned, Fields
  <2>2. ~c.loaded
    BY <1>1, <1>6 DEF IInv, Loading
  <2>3. QED
    BY <1>6, <2>1, <2>2 DEF Grows, Loading
<1>7. ASSUME NEW s, ListFails(w, s) PROVE c.once # "done" /\ Grows(<<>>)
  <2>1. c.once = w /\ scene' = scene
    BY <1>7 DEF ListFails
  <2>2. CASE c' = [c EXCEPT !.left[s] = <<>>, !.dropped = @ \cup {s}]
    <3>1. /\ DOMAIN c' = Fields /\ c'.last = c.last /\ c'.index = c.index
          /\ c'.once = c.once /\ c'.loadErr = c.loadErr /\ c'.loaded = c.loaded
      BY <1>2, <2>2 DEF Fields
    <3>2. QED
      BY <1>1, <2>1, <3>1, LoadingStays DEF Grows, IInv
  <2>3. CASE c' # [c EXCEPT !.left[s] = <<>>, !.dropped = @ \cup {s}]
    BY <1>1, <1>6, <1>7, <2>1, <2>3 DEF ListFails
  <2>4. QED
    BY <2>2, <2>3
<1>8. CASE ServicesFail(w)
  BY <1>1, <1>6, <1>8 DEF ServicesFail
<1>9. CASE Loaded(w)
  <2>1. c.once = w /\ scene' = scene
    BY <1>9 DEF Loaded
  <2>2. CASE c' = Abandoned
    BY <1>1, <1>6, <2>1, <2>2
  <2>3. CASE c' # Abandoned
    <3>1. c' = [c EXCEPT !.once = "done", !.loaded = Counted # {}, !.left = <<>>]
      BY <1>9, <2>3 DEF Loaded
    <3>2. /\ DOMAIN c' = Fields /\ c'.last = c.last /\ c'.index = c.index
          /\ c'.once = "done" /\ c'.loadErr = c.loadErr
      BY <1>2, <3>1 DEF Fields
    <3>3. ~c.loadErr
      BY <1>1, <2>1 DEF IInv, Loading
    <3>4. Grows(<<>>)
      BY <2>1, <3>2, <3>3 DEF Grows, Loading
    <3>5. QED
      BY <1>1, <2>1, <3>4
  <2>4. QED
    BY <2>2, <2>3
<1>10. QED
  BY <1>3, <1>4, <1>5, <1>7, <1>8, <1>9 DEF Load

LEMMA LoadStep ==
  ASSUME IInv, NEW w \in Workers, Load(w)
  PROVE  IInv'
<1>1. /\ ~OnAzure /\ scene.source # "none"
      /\ UNCHANGED <<queue, job, findings, answers>>
  BY DEF Load, Single, HasLeg, AskedSingly, OnAzure, results
<1>2. c.once # "done"
  BY <1>1, LoadGrows
<1>3. PICK new : Grows(new)
  BY <1>1, LoadGrows
<1>4. ~Ready /\ ~Known
  BY <1>1, <1>2 DEF Ready, Known
<1>5. Keeps
  BY <1>3, <1>4 DEF Keeps, Grows
<1>6. Listing'
  BY <1>3, ListingStays, ListingGrows DEF IInv, Grows
<1>7. queue' \in Seq({Currency} \cup Plans) /\ Reported'
  BY <1>1, <1>3, RestFact DEF Grows
<1>8. QED
  BY <1>1, <1>3, <1>5, <1>6, <1>7, StepFact DEF Grows

-----------------------------------------------------------------------------
(* The prices *)

\* A worker settles a leg, and the pricer remembers at most where the price came from.
LEMMA SettledStep ==
  ASSUME IInv, Quiet, scene' = scene, queue' = queue, NEW w \in Workers, job[w].pricing,
         NEW amount, NEW parts, Settled(w, amount, parts), \A p \in parts : Weighs(p)',
         \E key, figures : Answered(key, figures) /\ Fits(key, figures)
  PROVE  IInv'
<1>1. Moves(w, parts) /\ findings' = findings
  BY JobFact, SettledMoves
<1>2. queue' \in Seq({Currency} \cup Plans) /\ Reported'
  BY <1>1, RestFact
<1>3. QED
  BY <1>1, <1>2, StepFact DEF Quiet

\* The pricer remembers more, and answers as it did.
LEMMA RecallFact ==
  ASSUME IInv, scene' = scene, NEW new, c' = [c EXCEPT !.last = Put(new, @)],
         \A k \in DOMAIN new : k[1] \notin Unwitnessed => Known /\ new[k] = Source(k)
  PROVE  Quiet /\ DOMAIN new \subseteq DOMAIN c'.last
<1>1. /\ DOMAIN c' = Fields /\ c'.last = Put(new, c.last) /\ c'.index = c.index
      /\ c'.once = c.once /\ c'.loadErr = c.loadErr /\ c'.loaded = c.loaded
  BY DEF IInv, Shapes, Fields
<1>2. DOMAIN c'.last = DOMAIN new \cup DOMAIN c.last
  BY <1>1 DEF Put
<1>3. Keeps
  BY <1>1, <1>2, KeepsFact DEF SameIndex
<1>4. Loading' /\ Listing'
  BY <1>1, LoadingStays, ListingStays DEF IInv
<1>5. ASSUME NEW k \in DOMAIN c'.last, ~(k \in DOMAIN c.last /\ c'.last[k] = c.last[k]),
             k[1] \notin Unwitnessed
      PROVE  Known' /\ c'.last[k] = Source(k)'
  <2>1. k \in DOMAIN new /\ c'.last[k] = new[k]
    BY <1>1, <1>2, <1>5 DEF Put
  <2>2. Known /\ new[k] = Source(k) /\ k[1] # "instance"
    BY <1>5, <2>1 DEF Unwitnessed
  <2>3. QED
    BY <1>3, <2>1, <2>2 DEF Keeps
<1>6. QED
  BY <1>1, <1>2, <1>3, <1>4, <1>5 DEF Quiet, Recalls

\* What a lookup leaves to be remembered is where its price came from, under every
\* key it is left under.
LEMMA NotesFact ==
  ASSUME IInv, ~OnAzure, NEW way, Complete(way), NEW m \in Notes(way),
         m.key[1] # "instance"
  PROVE  m.of = Source(m.key)
<1>0. PICK t \in {way[i] : i \in DOMAIN way} :
        \E k \in Under(t.kind, t.sku, t.region, Entry1(t)) :
          m = [key |-> k, of |-> Provenance(Entry1(t), t.sku)]
  BY DEF Notes
<1>1. PICK k \in Under(t.kind, t.sku, t.region, Entry1(t)) :
        m = [key |-> k, of |-> Provenance(Entry1(t), t.sku)]
  BY <1>0
<1>2. Found(t) # {} /\ k[1] = t.kind
  BY DEF Complete, Under
<1>3. QED
  BY <1>1, <1>2, TermFact DEF IInv

LEMMA PartsFact ==
  ASSUME NEW way, NEW p \in PartsOf(way)
  PROVE  \E m \in Notes(way) : m.key = p.key /\ m.of = Provenance(p.from, p.key[2])
<1>1. PICK t \in {way[i] : i \in DOMAIN way} : p = [key |-> <<t.kind, t.sku, Entry1(t).region>>, from |-> Entry1(t)]
  BY DEF PartsOf
<1>2. p.key \in Under(t.kind, t.sku, t.region, Entry1(t))
  BY <1>1 DEF Under
<1>3. [key |-> p.key, of |-> Provenance(Entry1(t), t.sku)] \in Notes(way)
  BY <1>2 DEF Notes
<1>4. QED
  BY <1>1, <1>3

LEMMA UnitPriceStep ==
  ASSUME IInv, NEW w \in Workers, UnitPrice(w)
  PROVE  IInv'
<1>1. /\ ~OnAzure /\ Ready /\ Known /\ scene' = scene /\ queue' = queue /\ job[w].pricing
      /\ ~AskedSingly(LegOf(w).ways[1][1].kind)
  BY DEF UnitPrice, Single, HasLeg, Pricing, AskedSingly, OnAzure, Known
<1>2. \E key, figures : Answered(key, figures) /\ Fits(key, figures)
  <2> DEFINE t == LegOf(w).ways[1][1]
             figures == IF Found(t) = {} THEN {NoPrice} ELSE {Entry1(t).price}
  <2>1. Answered(KeyOf(t), figures)
    BY DEF UnitPrice
  <2>2. figures = {Reply(KeyOf(t))}
    BY DEF Reply, Read, Answer, KeyOf, Found, Entry1
  <2>3. KeyOf(t)[1] = t.kind
    BY DEF KeyOf
  <2> HIDE DEF t, figures
  <2>4. Fits(KeyOf(t), figures)
    BY <1>1, <2>2, <2>3 DEF Fits, t
  <2>5. QED
    BY <2>1, <2>4
<1>3. CASE Settled(w, NoPrice, {}) /\ UNCHANGED c
  <2>1. Quiet
    BY <1>1, <1>3, QuietFact
  <2>2. QED
    BY <1>1, <1>2, <1>3, <2>1, SettledStep
<1>4. ASSUME NEW i \in FirstWay(LegOf(w)), NEW way, way = LegOf(w).ways[i],
             c' = [c EXCEPT !.last = Remember(Notes(way))],
             NEW amount, Settled(w, amount, PartsOf(way))
      PROVE  IInv'
  <2> DEFINE told == Notes(way)
             new == [k \in {m.key : m \in told} |-> (CHOOSE m \in told : m.key = k).of]
  <2>1. c' = [c EXCEPT !.last = Put(new, @)]
    BY <1>4 DEF Remember, IInv, Shapes, Fields
  <2>2. Complete(way)
    BY <1>4 DEF FirstWay
  <2>3. ASSUME NEW m \in told, m.key[1] # "instance"
        PROVE  new[m.key] = m.of /\ m.of = Source(m.key)
    <3> DEFINE chosen == CHOOSE x \in told : x.key = m.key
    <3>1. chosen \in told /\ chosen.key = m.key
      OBVIOUS
    <3>2. new[m.key] = chosen.of
      OBVIOUS
    <3> HIDE DEF chosen, new
    <3>3. QED
      BY <1>1, <2>2, <2>3, <3>1, <3>2, NotesFact
  <2>4. \A k \in DOMAIN new : k[1] \notin Unwitnessed => Known /\ new[k] = Source(k)
    BY <1>1, <2>3 DEF Unwitnessed
  <2>5. DOMAIN new = {m.key : m \in told}
    OBVIOUS
  <2> HIDE DEF new, told
  <2>6. Quiet /\ DOMAIN new \subseteq DOMAIN c'.last
    BY <1>1, <2>1, <2>4, RecallFact
  <2>7. ASSUME NEW p \in PartsOf(way) PROVE Weighs(p)'
    <3> SUFFICES ASSUME p.key[1] \notin Unwitnessed
                 PROVE  Known' /\ p.key \in DOMAIN c'.last /\ Provenance(p.from, p.key[2]) = Source(p.key)'
      BY DEF Weighs
    <3>1. PICK m \in told : m.key = p.key /\ m.of = Provenance(p.from, p.key[2])
      BY PartsFact DEF told
    <3>2. p.key \in DOMAIN c'.last
      BY <2>5, <2>6, <3>1
    <3>3. m.of = Source(p.key) /\ p.key[1] # "instance"
      BY <2>3, <3>1 DEF Unwitnessed
    <3>4. QED
      BY <1>1, <2>6, <3>1, <3>2, <3>3 DEF Quiet, Keeps
  <2>8. QED
    BY <1>1, <1>2, <1>4, <2>6, <2>7, SettledStep
<1>5. QED
  BY <1>3, <1>4 DEF UnitPrice

\* What is asked singly is of machines, or of Azure; there evidence names the region
\* that was asked.
AzureSource(k) == [source |-> "live_api", sku |-> k[2], region |-> k[3]]

LEMMA SinglyFact ==
  ASSUME NEW t, AskedSingly(t.kind)
  PROVE  /\ AskedSingly(KeyOf(t)[1]) /\ KeyOf(t) = <<t.kind, t.sku, t.region>>
         /\ KeyOf(t)[1] \notin Unwitnessed => OnAzure /\ t.kind # "vm"
BY DEF KeyOf, AskedSingly, Unwitnessed, OnAzure

\* The part of a price that was asked singly is remembered on Azure.
Told(t, e) ==
  /\ e = Entry(t.kind, t.sku, t.region, e.price)
  /\ IF OnAzure /\ t.kind # "vm"
     THEN c'.last = Record(c.last, t.kind, t.sku, t.region, e)
     ELSE c'.last = c.last

LEMMA RecordFact ==
  ASSUME NEW t, NEW e, e = Entry(t.kind, t.sku, t.region, e.price), NEW last
  PROVE  Record(last, t.kind, t.sku, t.region, e) =
           Put([k \in {KeyOf(t)} |-> AzureSource(KeyOf(t))], last)
<1>1. e.region = t.region /\ e.substitute = FALSE
  BY DEF Entry
<1>2. Under(t.kind, t.sku, t.region, e) = {KeyOf(t)}
  BY <1>1 DEF Under, KeyOf
<1>3. Provenance(e, t.sku) = AzureSource(KeyOf(t))
  BY <1>1 DEF Provenance, AzureSource, KeyOf
<1>4. QED
  BY <1>2, <1>3 DEF Record

LEMMA SingleFact ==
  ASSUME IInv, Keeps, DOMAIN c' = Fields, Loading', Listing', NEW t, AskedSingly(t.kind),
         NEW e, Told(t, e)
  PROVE  Quiet /\ Weighs([key |-> KeyOf(t), from |-> e])'
<1>1. OnAzure' = OnAzure
  BY DEF Keeps, OnAzure
<1>2. CASE OnAzure /\ t.kind # "vm"
  <2>1. c'.last = Put([k \in {KeyOf(t)} |-> AzureSource(KeyOf(t))], c.last)
    BY <1>2, RecordFact DEF Told
  <2>2. KeyOf(t) \in DOMAIN c'.last /\ c'.last[KeyOf(t)] = AzureSource(KeyOf(t))
    BY <2>1 DEF Put
  <2>3. \A k \in DOMAIN c'.last : k # KeyOf(t) => k \in DOMAIN c.last /\ c'.last[k] = c.last[k]
    BY <2>1 DEF Put
  <2>4. Recalls(KeyOf(t))'
    BY <1>1, <1>2, <2>2 DEF Recalls, Known, Source, AzureSource
  <2>5. Quiet
    BY <2>3, <2>4 DEF Quiet
  <2>6. Provenance(e, t.sku) = AzureSource(KeyOf(t)) /\ KeyOf(t)[2] = t.sku
    BY DEF Told, Entry, Provenance, AzureSource, KeyOf
  <2>7. QED
    BY <1>1, <1>2, <2>2, <2>5, <2>6 DEF Weighs, Known, Source, AzureSource
<1>3. CASE ~(OnAzure /\ t.kind # "vm")
  <2>1. c'.last = c.last /\ KeyOf(t)[1] \in Unwitnessed
    BY <1>3, SinglyFact DEF Told
  <2>2. QED
    BY <2>1 DEF Quiet, Weighs, Unwitnessed
<1>4. QED
  BY <1>2, <1>3

LEMMA CheckStep ==
  ASSUME IInv, NEW w \in Workers, Check(w)
  PROVE  IInv'
<1>0. PICK t : t = LegOf(w).ways[1][1]
  OBVIOUS
<1>1. scene' = scene /\ queue' = queue /\ job[w].pricing /\ AskedSingly(t.kind)
  BY <1>0 DEF Check, Single, HasLeg, Pricing
<1>2. AskedSingly(KeyOf(t)[1])
  BY <1>1, SinglyFact
<1>3. CASE KeyOf(t) \in DOMAIN c.index
  <2>0. PICK e : e = Entry(t.kind, t.sku, t.region, c.index[KeyOf(t)].price)
    OBVIOUS
  <2>1. /\ Answered(KeyOf(t), {e.price})
        /\ c' = (IF scene.provider = "azure" /\ t.kind # "vm"
                 THEN [c EXCEPT !.last = Record(@, t.kind, t.sku, t.region, e)] ELSE c)
        /\ Settled(w, t.quantity * e.price, {[key |-> KeyOf(t), from |-> e]})
    BY <1>0, <1>3, <2>0 DEF Check
  <2>2. e.price \in Prices(KeyOf(t)) /\ e = Entry(t.kind, t.sku, t.region, e.price)
    BY <1>2, <1>3, <2>0 DEF IInv, Listing, Lists, Entry
  <2>3. Fits(KeyOf(t), {e.price})
    BY <1>2, <2>2 DEF Fits
  <2>4. /\ DOMAIN c' = Fields /\ c'.once = c.once /\ c'.loadErr = c.loadErr /\ c'.loaded = c.loaded
        /\ c'.index = c.index
        /\ c'.last = IF OnAzure /\ t.kind # "vm" THEN Record(c.last, t.kind, t.sku, t.region, e) ELSE c.last
    BY <2>1 DEF IInv, Shapes, Fields, OnAzure
  <2>5. DOMAIN c.last \subseteq DOMAIN c'.last
    BY <2>4 DEF Record, Put
  <2>6. Keeps
    BY <1>1, <2>4, <2>5, KeepsFact DEF SameIndex
  <2>7. Loading' /\ Listing'
    BY <1>1, <2>4, LoadingStays, ListingStays DEF IInv
  <2>8. Told(t, e)
    BY <2>2, <2>4 DEF Told
  <2>9. Quiet /\ Weighs([key |-> KeyOf(t), from |-> e])'
    BY <1>1, <2>4, <2>6, <2>7, <2>8, SingleFact
  <2>10. \A p \in {[key |-> KeyOf(t), from |-> e]} : Weighs(p)'
    BY <2>9
  <2>11. QED
    BY <1>1, <2>1, <2>3, <2>9, <2>10, SettledStep
<1>4. CASE KeyOf(t) \notin DOMAIN c.index /\ (KeyOf(t) \in c.refused \/ c.fixed \/ scene.source = "none")
  <2>1. Answered(KeyOf(t), {NoPrice}) /\ Settled(w, NoPrice, {}) /\ c' = c
    BY <1>0, <1>4 DEF Check
  <2>2. Fits(KeyOf(t), {NoPrice})
    BY <1>2 DEF Fits
  <2>3. Quiet
    BY <1>1, <2>1, QuietFact
  <2>4. QED
    BY <1>1, <2>1, <2>2, <2>3, SettledStep
<1>5. CASE KeyOf(t) \notin DOMAIN c.index /\ ~(KeyOf(t) \in c.refused \/ c.fixed \/ scene.source = "none")
  <2>1. /\ job' = [job EXCEPT ![w].asking = TRUE]
        /\ c' = c /\ UNCHANGED <<findings, answers>>
    BY <1>0, <1>5 DEF Check, results
  <2> DEFINE new == [job[w] EXCEPT !.asking = TRUE]
  <2>2. Formed(new) /\ new.parts = job[w].parts
    BY <1>1, JobFact DEF Formed
  <2>3. job' = [job EXCEPT ![w] = new]
    BY <2>1
  <2> HIDE DEF new
  <2>4. Moves(w, {})
    BY <1>1, <2>2, <2>3, JobFact DEF Moves
  <2>5. QED
    BY <1>1, <2>1, <2>4, RestFact, WorkerStep
<1>6. QED
  BY <1>3, <1>4, <1>5

LEMMA FetchStep ==
  ASSUME IInv, NEW w \in Workers, Fetch(w)
  PROVE  IInv'
<1>0. PICK t : t = LegOf(w).ways[1][1]
  OBVIOUS
<1> DEFINE price == Priced(t.kind, t.sku, t.region)
<1>1. scene' = scene /\ queue' = queue /\ job[w].pricing /\ AskedSingly(t.kind)
  BY <1>0 DEF Fetch, Single, HasLeg, Pricing
<1>2. AskedSingly(KeyOf(t)[1]) /\ (~OnAzure => KeyOf(t)[1] = "instance")
  BY <1>1, SinglyFact DEF AskedSingly, OnAzure, KeyOf
<1>3. CASE price = {}
  <2>1. /\ Answered(KeyOf(t), {NoPrice}) /\ Settled(w, NoPrice, {})
        /\ c' = IF scene.provider = "azure" THEN [c EXCEPT !.refused = @ \cup {KeyOf(t)}] ELSE c
    BY <1>0, <1>3 DEF Fetch
  <2> HIDE DEF price
  <2>2. /\ DOMAIN c' = Fields /\ c'.once = c.once /\ c'.loadErr = c.loadErr /\ c'.loaded = c.loaded
        /\ c'.index = c.index /\ c'.last = c.last
    BY <2>1 DEF IInv, Shapes, Fields
  <2>3. Quiet
    BY <1>1, <2>2, KeepsFact, LoadingStays, ListingStays DEF SameIndex, Quiet, IInv
  <2>4. Fits(KeyOf(t), {NoPrice})
    BY <1>2 DEF Fits
  <2>5. QED
    BY <1>1, <2>1, <2>3, <2>4, SettledStep
<1>4. CASE price # {}
  <2>0. PICK e : e = Entry(t.kind, t.sku, t.region, CHOOSE p \in price : TRUE)
    OBVIOUS
  <2>1. /\ c' = [c EXCEPT !.index = Put([k \in {KeyOf(t)} |-> e], @),
                          !.last = IF scene.provider = "azure" /\ t.kind # "vm"
                                   THEN Record(@, t.kind, t.sku, t.region, e) ELSE @]
        /\ Answered(KeyOf(t), {e.price})
        /\ Settled(w, t.quantity * e.price, {[key |-> KeyOf(t), from |-> e]})
    BY <1>0, <1>4, <2>0 DEF Fetch
  <2>2. e.price \in Prices(KeyOf(t)) /\ e = Entry(t.kind, t.sku, t.region, e.price)
    BY <1>4, <2>0 DEF Prices, ThePrice, Asked, KeyOf, Entry
  <2> HIDE DEF price
  <2>3. Fits(KeyOf(t), {e.price})
    BY <1>2, <2>2 DEF Fits
  <2>4. /\ DOMAIN c' = Fields /\ c'.once = c.once /\ c'.loadErr = c.loadErr /\ c'.loaded = c.loaded
        /\ c'.index = Put([k \in {KeyOf(t)} |-> e], c.index)
        /\ c'.last = IF OnAzure /\ t.kind # "vm" THEN Record(c.last, t.kind, t.sku, t.region, e) ELSE c.last
    BY <2>1 DEF IInv, Shapes, Fields, OnAzure
  <2>5. DOMAIN c.last \subseteq DOMAIN c'.last
    BY <2>4 DEF Record, Put
  <2>6. ~OnAzure => SameIndex
    BY <1>2, <2>4 DEF SameIndex, Put
  <2>7. Keeps
    BY <1>1, <2>4, <2>5, <2>6, KeepsFact
  <2>8. Loading' /\ Listing'
    <3>1. \A k \in {KeyOf(t)} : Lists(k, e)
      BY <1>2, <2>2 DEF Lists
    <3>2. QED
      BY <1>1, <2>4, <3>1, LoadingStays, ListingGrows DEF IInv
  <2>9. Told(t, e)
    BY <2>2, <2>4 DEF Told
  <2>10. Quiet /\ Weighs([key |-> KeyOf(t), from |-> e])'
    BY <1>1, <2>4, <2>7, <2>8, <2>9, SingleFact
  <2>11. \A p \in {[key |-> KeyOf(t), from |-> e]} : Weighs(p)'
    BY <2>10
  <2>12. QED
    BY <1>1, <2>1, <2>3, <2>10, <2>11, SettledStep
<1>5. QED
  BY <1>3, <1>4

LEMMA FetchFailsStep ==
  ASSUME IInv, NEW w \in Workers, FetchFails(w)
  PROVE  IInv'
<1> DEFINE t == LegOf(w).ways[1][1]
<1>1. /\ scene' = scene /\ queue' = queue /\ c' = c /\ job[w].pricing /\ AskedSingly(t.kind)
      /\ Answered(KeyOf(t), {NoPrice}) /\ Settled(w, NoPrice, {})
  BY DEF FetchFails, Single, HasLeg, Pricing
<1>2. Fits(KeyOf(t), {NoPrice})
  BY <1>1, SinglyFact DEF Fits
<1>3. Quiet
  BY <1>1, QuietFact
<1>4. QED
  BY <1>1, <1>2, <1>3, SettledStep

-----------------------------------------------------------------------------
(* The theorems *)

LEMMA StepInv == IInv /\ [Next]_vars => IInv'
<1> SUFFICES ASSUME IInv, [Next]_vars PROVE IInv'
  OBVIOUS
<1>1. CASE Settle
  BY <1>1, SettleStep
<1>2. ASSUME NEW w \in Workers, Work(w) PROVE IInv'
  BY <1>2, TakeStep, FinishedStep, AskStep, ForgoStep, LoadStep, UnitPriceStep, CheckStep,
     FetchStep, FetchFailsStep, ConcludeStep DEF Work
<1>3. CASE UNCHANGED vars
  <2>1. /\ UNCHANGED <<queue, findings>> /\ scene' = scene /\ c' = c
        /\ job' = job /\ answers' = answers
    BY <1>3 DEF vars, results
  <2>2. QED
    BY <2>1, RestFact, QuietFact, StepFact DEF Quiet
<1>4. QED
  BY <1>1, <1>2, <1>3 DEF Next, Terminated

\* The shared pricer keeps its invariant, whatever the rules ask and the vendor answers.
THEOREM Invariance == Spec => []IInv
BY InitInv, StepInv, PTL DEF Spec

\* Every variable stays in its type: nothing is reported below a rule's least waste
\* (adapt.go evalNodeRule), and a catalogue that could not be loaded counts as not
\* loaded (loadCatalogue).
THEOREM TypeCorrect == Spec => []TypeOK
<1>1. IInv => TypeOK
  <2> SUFFICES ASSUME IInv PROVE TypeOK
    OBVIOUS
  <2>1. scene.provider \in {Rules[r].provider : r \in DOMAIN Rules}
    BY ScenesAssumption DEF IInv, Shapes
  <2>2. \A w \in Workers : job[w].rule \in DOMAIN Rules \cup {"idle"}
    BY JobFact DEF Formed
  <2>3. \A k \in DOMAIN answers : answers[k] # {}
    BY DEF IInv, Replied
  <2>4. QED
    BY <2>1, <2>2, <2>3 DEF TypeOK, IInv, Loading, Reported
<1>2. QED
  BY <1>1, Invariance, PTL

\* One price for one thing, whoever asks and in whatever order the catalogue is loaded,
\* fails to load and is asked (liveUnitPrice, VMPrice); but for the machines of AWS under
\* a recording, which have the price of the vendor or of the recording, and no other
\* (InstancePrice), whatever the two lists say.
THEOREM OnePrice == Spec => []LookupsAgree
<1>1. IInv => LookupsAgree
  <2> SUFFICES ASSUME IInv, NEW k \in DOMAIN answers
               PROVE  /\ ~AskedSingly(k[1]) => Cardinality(answers[k]) = 1
                      /\ FromTwoLists(k) =>
                           answers[k] \ {NoPrice}
                             \subseteq Recording(k) \cup instancePrices(scene.types, k[2], k[3])
                      /\ ~FromTwoLists(k) => Cardinality(answers[k] \ {NoPrice}) <= 1
    BY DEF LookupsAgree
  <2>1. \A x : Cardinality({x}) = 1
    BY FS_Singleton
  <2>2. Cardinality({}) = 0
    BY FS_EmptySet
  <2>3. CASE AskedSingly(k[1])
    <3>1. answers[k] \subseteq {NoPrice} \cup Prices(k)
      BY <2>3 DEF IInv, Replied
    <3>2. CASE FromTwoLists(k)
      <4>1. Asked(k) = instancePrices(scene.types, k[2], k[3])
        BY <2>3, <3>2, <3>1 DEF FromTwoLists, Asked, Priced
      <4>2. Prices(k) \subseteq Recording(k) \cup instancePrices(scene.types, k[2], k[3])
        BY <4>1 DEF Prices
      <4>3. QED
        BY <2>3, <3>1, <3>2, <4>2
    <3>3. CASE ~FromTwoLists(k)
      <4>1. Prices(k) \subseteq {ThePrice(k)}
        BY <3>3 DEF Prices
      <4>2. answers[k] \ {NoPrice} = {} \/ answers[k] \ {NoPrice} = {ThePrice(k)}
        BY <3>1, <4>1
      <4>3. Cardinality(answers[k] \ {NoPrice}) \in {0, 1}
        BY <2>1, <2>2, <4>2, Zenon
      <4>4. QED
        BY <2>3, <3>3, <4>3
    <3>4. QED
      BY <3>2, <3>3
  <2>4. CASE ~AskedSingly(k[1])
    <3>1. answers[k] = {Reply(k)}
      BY <2>4 DEF IInv, Replied
    <3>2. answers[k] \ {NoPrice} = {} \/ answers[k] \ {NoPrice} = {Reply(k)}
      BY <3>1
    <3>3. Cardinality(answers[k] \ {NoPrice}) \in {0, 1}
      BY <2>1, <2>2, <3>2, Zenon
    <3>4. Cardinality(answers[k]) = 1
      BY <2>1, <3>1, Zenon
    <3>5. ~FromTwoLists(k)
      BY <2>4 DEF FromTwoLists, AskedSingly
    <3>6. QED
      BY <2>4, <3>3, <3>4, <3>5
  <2>5. QED
    BY <2>3, <2>4
<1>2. QED
  BY <1>1, Invariance, PTL

\* The evidence of a finding names the region and the item its price came from, though
\* other rules have asked, and written to what is remembered, since (record,
\* priceevidence.go PriceEvidence).
THEOREM EvidenceTrue == Spec => []EvidenceNamesTheSource
<1>1. IInv => EvidenceNamesTheSource
  BY DEF IInv, Reported, EvidenceNamesTheSource
<1>2. QED
  BY <1>1, Invariance, PTL

-----------------------------------------------------------------------------
(* The ladders: what passes with less passes with more *)

\* The codes a node is skipped with, and the words the guards ask for.
Codes == {"exempt_label", "unknown_machine_type", "missing_attribute", "too_young", "no_metric",
          "below_overprovision_threshold", "references_unknown", "in_use", "managed_by_asg", "managed_by_mig",
          "managed_by_vmss", "not_running", "spot", "non_billing_status", "recently_detached",
          "not_target_asset_type", "not_ami_created_snapshot", "internal_address", "accelerator_present",
          "has_lifecycle", "not_standard_class", "autoclass_enabled", "retention_locked", "below_min_bytes"}
Words == {"running", "available", "completed", "RUNNING", "READY", "FAILED", "RESTORING", "UNAVAILABLE",
          "vpc", "standard", "EXTERNAL", "RESERVED", "STANDARD", "PowerState/running", "Unattached",
          "Standard", "Succeeded", "spot", "SPOT", "MULTI_REGIONAL", "REGIONAL",
          "DURABLE_REDUCED_AVAILABILITY"}

\* No word and no code is blank.
LEMMA BlankFact == Blank \notin Codes /\ Blank \notin Words
BY Zenon DEF Blank, Codes, Words

\* A ladder, and a ladder all of whose guards hold.
Ladder(l) == l \in Seq(Members(l)) /\ \A i \in DOMAIN l : l[i].code \in Codes
Holds(l) == \A i \in DOMAIN l : l[i].holds

\* Two ladders hold, one after the other, if each does.
LEMMA JoinFact ==
  ASSUME NEW a, Ladder(a), NEW b, Ladder(b)
  PROVE  Ladder(a \o b) /\ (Holds(a \o b) <=> Holds(a) /\ Holds(b))
<1> DEFINE S == Members(a) \cup Members(b)  s == a \o b
<1>1. a \in Seq(S) /\ b \in Seq(S)
  BY DEF Ladder
<1> HIDE DEF S
<1>2. /\ s \in Seq(S) /\ Len(s) = Len(a) + Len(b)
      /\ \A i \in 1..Len(a) : s[i] = a[i]
      /\ \A i \in 1..Len(b) : s[Len(a) + i] = b[i]
  BY <1>1
<1>3. /\ DOMAIN s = 1..Len(s) /\ DOMAIN a = 1..Len(a) /\ DOMAIN b = 1..Len(b)
      /\ \A i \in 1..Len(a) : i \in 1..Len(s)
      /\ \A i \in 1..Len(b) : Len(a) + i \in 1..Len(s)
  BY <1>1, <1>2
<1>4. \A i \in DOMAIN s : (i \in DOMAIN a /\ s[i] = a[i]) \/ (\E j \in DOMAIN b : s[i] = b[j])
  <2> SUFFICES ASSUME NEW i \in 1..Len(s), i \notin 1..Len(a) PROVE \E j \in 1..Len(b) : s[i] = b[j]
    BY <1>2, <1>3
  <2>1. i - Len(a) \in 1..Len(b) /\ i = Len(a) + (i - Len(a))
    BY <1>1, <1>2
  <2>2. QED
    BY <1>2, <2>1
<1> HIDE DEF s
<1>5. Holds(s) => Holds(a) /\ Holds(b)
  BY <1>2, <1>3 DEF Holds
<1>6. Holds(a) /\ Holds(b) => Holds(s)
  BY <1>4 DEF Holds
<1>7. \A i \in DOMAIN s : s[i].code \in Codes
  BY <1>4 DEF Ladder
<1>8. s \in Seq(Members(s))
  BY <1>2 DEF Members
<1>9. QED
  BY <1>5, <1>6, <1>7, <1>8 DEF Ladder, s

\* A node that passes has no guard that fails.
LEMMA SkipFact ==
  ASSUME NEW n, NEW l, Ladder(l)
  PROVE  FirstSkip(n, l) = Blank <=> ~n.exempt /\ Holds(l)
<1> DEFINE failing == {i \in DOMAIN l : ~l[i].holds}
<1>1. failing = {} <=> Holds(l)
  BY DEF Holds
<1>2. ASSUME failing # {} PROVE l[Min(failing)].code \in Codes
  <2>1. \E i \in failing : \A j \in failing : i <= j
    <3>1. failing \subseteq Nat
      BY DEF Ladder
    <3>2. QED
      BY <1>2, <3>1, LeastFact
  <2>2. Min(failing) \in failing
    BY <2>1, Zenon DEF Min
  <2>3. QED
    BY <2>2 DEF Ladder
<1>3. "exempt_label" \in Codes
  BY DEF Codes
<1>4. FirstSkip(n, l) = IF n.exempt THEN "exempt_label"
                        ELSE IF failing = {} THEN Blank ELSE l[Min(failing)].code
  BY DEF FirstSkip
<1> HIDE DEF failing
<1>5. QED
  BY <1>1, <1>2, <1>3, <1>4, BlankFact

\* n is m with attributes that m lacks, or has blank; what it has more of is no yes that
\* would be missed.
Fuller(n, m) ==
  /\ n.asset = m.asset /\ n.grouped = m.grouped /\ n.exempt = m.exempt
  /\ n.attached = m.attached /\ n.metric = m.metric
  /\ \A a \in DOMAIN m.attrs :
       a \in DOMAIN n.attrs /\ (n.attrs[a] = m.attrs[a] \/ (a \in Texts /\ m.attrs[a] = Blank))
  /\ \A a \in DOMAIN n.attrs \ DOMAIN m.attrs : SaysNo(a, n.attrs[a])

\* What is read of a node is read of a fuller one.
LEMMA FullerFact ==
  ASSUME NEW n, NEW m, Fuller(n, m)
  PROVE  /\ \A a : Has(m, a) => Has(n, a)
         /\ \A a : Named(m, a) => Named(n, a) /\ Str(n, a) = Str(m, a)
         /\ \A a : \A v \in Words : Str(m, a) = v => Str(n, a) = v
         /\ \A a : Is(m, a) /\ a \notin Texts => Is(n, a)
         /\ \A a : Positive(m, a) /\ a \notin Texts => Positive(n, a)
         /\ \A a : Has(m, a) /\ a \notin Texts =>
              Num(n, a) = Num(m, a) /\ Str(n, a) = Str(m, a) /\ n.attrs[a] = m.attrs[a]
         /\ \A a : \A d \in Nat \ {0} : Num(m, a) >= d /\ a \notin Texts => Num(n, a) >= d
         /\ \A a : ~Has(m, a) => ~Has(n, a) \/ SaysNo(a, n.attrs[a])
<1>1. \A a : Has(m, a) => Has(n, a)
  BY DEF Fuller, Has
<1>2. \A a : Named(m, a) => Named(n, a) /\ Str(n, a) = Str(m, a)
  BY DEF Fuller, Has, Named, Str
<1>3. \A a : \A v \in Words : Str(m, a) = v => Named(m, a)
  BY BlankFact DEF Named, Str
<1>4. \A a : Has(m, a) /\ a \notin Texts =>
        Num(n, a) = Num(m, a) /\ Str(n, a) = Str(m, a) /\ n.attrs[a] = m.attrs[a]
  BY DEF Fuller, Has, Num, Str
<1>5. \A a : Is(m, a) /\ a \notin Texts => Is(n, a)
  BY <1>1, <1>4 DEF Is
<1>6. \A a : Positive(m, a) => Has(m, a)
  BY DEF Positive, Num
<1>7. \A a : ~Has(m, a) => ~Has(n, a) \/ SaysNo(a, n.attrs[a])
  BY DEF Fuller, Has
<1>8. \A a : \A d \in Nat \ {0} : Num(m, a) >= d => Has(m, a)
  BY DEF Num
<1>9. QED
  BY <1>1, <1>2, <1>3, <1>4, <1>5, <1>6, <1>7, <1>8 DEF Positive

\* The second ladder holds if the first does.
Rises(x, y) == Ladder(x) /\ Ladder(y) /\ (Holds(x) => Holds(y))

\* The attributes whose absence is taken for a zero, and for a no.
Counts == {"attachment_count", "user_count", "reference_count", "address_user_count", "accelerator_count"}
Denials == {"preemptible", "autoclass_enabled", "retention_locked"}

\* What a rule takes the absence of an attribute for stays so.
LEMMA SilenceFact ==
  ASSUME NEW n, NEW m, Fuller(n, m)
  PROVE  /\ \A a \in Counts : Num(m, a) = 0 => Num(n, a) = 0
         /\ \A a \in Denials : ~Is(m, a) => ~Is(n, a)
         /\ Str(m, "lifecycle") # "spot" => Str(n, "lifecycle") # "spot"
         /\ Str(m, "provisioning_model") # "SPOT" => Str(n, "provisioning_model") # "SPOT"
         /\ Str(m, "managed_by") = Blank => Str(n, "managed_by") = Blank
         /\ (Has(m, "association_state") => Str(m, "association_state") = "unassociated")
             => (Has(n, "association_state") => Str(n, "association_state") = "unassociated")
         /\ DetachedDays(m) >= 7 => DetachedDays(n) >= 7
<1>1. \A a \in Counts \cup Denials \cup {"lifecycle", "provisioning_model", "managed_by", "association_state",
                                      "last_detach_time", "creation_timestamp"} : a \notin Texts
  BY DEF Counts, Denials, Texts
<1>2. /\ \A a \in Counts : \A v : SaysNo(a, v) => v = 0
      /\ \A a \in Denials : \A v : SaysNo(a, v) => ~v
  BY DEF Counts, Denials, SaysNo
<1>3. \A v : /\ SaysNo("lifecycle", v) => v # "spot"
             /\ SaysNo("provisioning_model", v) => v # "SPOT"
             /\ SaysNo("association_state", v) => v = "unassociated"
             /\ SaysNo("managed_by", v) => v = Blank
             /\ SaysNo("last_detach_time", v) => v >= 7
  BY DEF SaysNo
<1>4. \A a \in Counts : Num(m, a) = 0 => Num(n, a) = 0
  BY <1>1, <1>2, FullerFact DEF Num
<1>5. \A a \in Denials : ~Is(m, a) => ~Is(n, a)
  BY <1>1, <1>2, FullerFact DEF Is
<1>6. /\ Str(m, "lifecycle") # "spot" => Str(n, "lifecycle") # "spot"
      /\ Str(m, "provisioning_model") # "SPOT" => Str(n, "provisioning_model") # "SPOT"
  <2>1. Blank # "spot" /\ Blank # "SPOT"
    BY BlankFact DEF Words
  <2>2. QED
    BY <1>1, <1>3, <2>1, FullerFact DEF Str
<1>7. Str(m, "managed_by") = Blank => Str(n, "managed_by") = Blank
  BY <1>1, <1>3, FullerFact DEF Str
<1>8. (Has(m, "association_state") => Str(m, "association_state") = "unassociated")
        => (Has(n, "association_state") => Str(n, "association_state") = "unassociated")
  BY <1>1, <1>3, FullerFact DEF Str
<1>9. DetachedDays(m) >= 7 => DetachedDays(n) >= 7
  <2>1. Num(m, "creation_timestamp") >= 7 => Num(n, "creation_timestamp") >= 7
    BY <1>1, FullerFact
  <2>2. QED
    BY <1>1, <1>3, <2>1, FullerFact DEF DetachedDays, Num
<1>10. QED
  BY <1>4, <1>5, <1>6, <1>7, <1>8, <1>9

-----------------------------------------------------------------------------
(* Of each ladder: it holds for a fuller node.  A guard that passes without an *)
(* attribute passes with it, or the attribute is one whose absence is a no.    *)

LEMMA ShapeRises ==
  ASSUME NEW n, NEW m, Fuller(n, m), NEW type
  PROVE  Rises(Shape(m, type), Shape(n, type))
<1> DEFINE l(k) == Shape(k, type)
           fine(k) == /\ Named(k, type) /\ Num(k, "vcpu_count") >= 1 /\ Positive(k, "memory_gib")
                      /\ Named(k, "machine_family")
<1>1. \A k : DOMAIN l(k) = 1..4
  BY DEF Shape
<1>2. \A k : Ladder(l(k))
  BY DEF Shape, Ladder, Members, Guard, Codes
<1>3. \A k : fine(k) <=> /\ l(k)[1].holds /\ l(k)[2].holds /\ l(k)[3].holds /\ l(k)[4].holds
  BY DEF Shape, Guard
<1>4. fine(m) => fine(n)
  BY FullerFact, SilenceFact DEF Fuller, Texts, Words, Counts
<1> HIDE DEF l, fine
<1>5. \A k : Holds(l(k)) <=> fine(k)
  BY <1>1, <1>3 DEF Holds
<1>6. QED
  BY <1>2, <1>4, <1>5 DEF l, Rises

LEMMA OldEnoughRises ==
  ASSUME NEW n, NEW m, Fuller(n, m), NEW attr, attr \notin Texts, NEW days \in Nat \ {0}
  PROVE  Rises(OldEnough(m, attr, days), OldEnough(n, attr, days))
<1> DEFINE l(k) == OldEnough(k, attr, days)
           fine(k) == /\ Has(k, attr) /\ Num(k, attr) >= days
<1>1. \A k : DOMAIN l(k) = 1..2
  BY DEF OldEnough
<1>2. \A k : Ladder(l(k))
  BY DEF OldEnough, Ladder, Members, Guard, Codes
<1>3. \A k : fine(k) <=> /\ l(k)[1].holds /\ l(k)[2].holds
  BY DEF OldEnough, Guard
<1>4. fine(m) => fine(n)
  BY FullerFact, SilenceFact DEF Fuller, Texts, Words, Counts
<1> HIDE DEF l, fine
<1>5. \A k : Holds(l(k)) <=> fine(k)
  BY <1>1, <1>3 DEF Holds
<1>6. QED
  BY <1>2, <1>4, <1>5 DEF l, Rises

LEMMA OverprovisionedRises ==
  ASSUME NEW n, NEW m, Fuller(n, m)
  PROVE  Rises(Overprovisioned(m), Overprovisioned(n))
<1> DEFINE l(k) == Overprovisioned(k)
           fine(k) == /\ MetricOK(k, 168, 50) /\ 100 - k.metric.value > 40
<1>1. \A k : DOMAIN l(k) = 1..2
  BY DEF Overprovisioned
<1>2. \A k : Ladder(l(k))
  BY DEF Overprovisioned, Ladder, Members, Guard, Codes
<1>3. \A k : fine(k) <=> /\ l(k)[1].holds /\ l(k)[2].holds
  BY DEF Overprovisioned, Guard
<1>4. fine(m) => fine(n)
  BY FullerFact, SilenceFact DEF Fuller, MetricOK
<1> HIDE DEF l, fine
<1>5. \A k : Holds(l(k)) <=> fine(k)
  BY <1>1, <1>3 DEF Holds
<1>6. QED
  BY <1>2, <1>4, <1>5 DEF l, Rises

LEMMA UnreferencedRises ==
  ASSUME NEW n, NEW m, Fuller(n, m)
  PROVE  Rises(Unreferenced(m), Unreferenced(n))
<1> DEFINE l(k) == Unreferenced(k)
           fine(k) == /\ Is(k, "references_complete") /\ Num(k, "reference_count") = 0
<1>1. \A k : DOMAIN l(k) = 1..2
  BY DEF Unreferenced
<1>2. \A k : Ladder(l(k))
  BY DEF Unreferenced, Ladder, Members, Guard, Codes
<1>3. \A k : fine(k) <=> /\ l(k)[1].holds /\ l(k)[2].holds
  BY DEF Unreferenced, Guard
<1>4. fine(m) => fine(n)
  BY FullerFact, SilenceFact DEF Fuller, Texts, Words, Counts
<1> HIDE DEF l, fine
<1>5. \A k : Holds(l(k)) <=> fine(k)
  BY <1>1, <1>3 DEF Holds
<1>6. QED
  BY <1>2, <1>4, <1>5 DEF l, Rises

LEMMA UnattachedEbsVolumeRises ==
  ASSUME NEW n, NEW m, Fuller(n, m)
  PROVE  Rises(UnattachedEbsVolume(m), UnattachedEbsVolume(n))
<1> DEFINE l(k) == UnattachedEbsVolume(k)
           fine(k) == /\ Positive(k, "size_gb") /\ Named(k, "volume_type") /\ Named(k, "state")
                      /\ Has(k, "create_time") /\ Num(k, "attachment_count") = 0 /\ k.attached = 0
                      /\ Str(k, "state") = "available" /\ Num(k, "create_time") >= 7
<1>1. \A k : DOMAIN l(k) = 1..7
  BY DEF UnattachedEbsVolume
<1>2. \A k : Ladder(l(k))
  BY DEF UnattachedEbsVolume, Ladder, Members, Guard, Codes
<1>3. \A k : fine(k) <=> /\ l(k)[1].holds /\ l(k)[2].holds /\ l(k)[3].holds /\ l(k)[4].holds
                          /\ l(k)[5].holds /\ l(k)[6].holds /\ l(k)[7].holds
  BY DEF UnattachedEbsVolume, Guard
<1>4. fine(m) => fine(n)
  BY FullerFact, SilenceFact DEF Fuller, Texts, Words, Counts
<1> HIDE DEF l, fine
<1>5. \A k : Holds(l(k)) <=> fine(k)
  BY <1>1, <1>3 DEF Holds
<1>6. QED
  BY <1>2, <1>4, <1>5 DEF l, Rises

LEMMA OrphanedAmiSnapshotRises ==
  ASSUME NEW n, NEW m, Fuller(n, m)
  PROVE  Rises(OrphanedAmiSnapshot(m), OrphanedAmiSnapshot(n))
<1> DEFINE l(k) == OrphanedAmiSnapshot(k)
           fine(k) == /\ k.asset = "aws_snapshot" /\ Named(k, "snapshot_id")
                      /\ Positive(k, "volume_size_gb") /\ Has(k, "creation_timestamp")
                      /\ Str(k, "state") = "completed" /\ Is(k, "ami_created")
                      /\ Is(k, "ami_reference_complete") /\ Has(k, "referenced_by_ami_count")
                      /\ Num(k, "referenced_by_ami_count") = 0 /\ Num(k, "creation_timestamp") >= 90
<1>1. \A k : DOMAIN l(k) = 1..9
  BY DEF OrphanedAmiSnapshot
<1>2. \A k : Ladder(l(k))
  BY DEF OrphanedAmiSnapshot, Ladder, Members, Guard, Codes
<1>3. \A k : fine(k) <=> /\ l(k)[1].holds /\ l(k)[2].holds /\ l(k)[3].holds /\ l(k)[4].holds
                          /\ l(k)[5].holds /\ l(k)[6].holds /\ l(k)[7].holds /\ l(k)[8].holds
                          /\ l(k)[9].holds
  <2>1. \A k : /\ l(k)[1].holds = (k.asset = "aws_snapshot")
               /\ l(k)[2].holds = Named(k, "snapshot_id")
               /\ l(k)[3].holds = Positive(k, "volume_size_gb")
               /\ l(k)[4].holds = Has(k, "creation_timestamp")
               /\ l(k)[5].holds = (Str(k, "state") = "completed")
    BY DEF OrphanedAmiSnapshot, Guard
  <2>2. \A k : /\ l(k)[6].holds = Is(k, "ami_created")
               /\ l(k)[7].holds = Is(k, "ami_reference_complete")
               /\ l(k)[8].holds = (Has(k, "referenced_by_ami_count") /\ Num(k, "referenced_by_ami_count") = 0)
               /\ l(k)[9].holds = (Num(k, "creation_timestamp") >= 90)
    BY DEF OrphanedAmiSnapshot, Guard
  <2> HIDE DEF l
  <2>3. QED
    BY <2>1, <2>2
<1>4. fine(m) => fine(n)
  <2>1. "completed" \in Words
    BY DEF Words
  <2>2. \A a \in {"volume_size_gb", "creation_timestamp", "ami_created", "ami_reference_complete",
                "referenced_by_ami_count"} : a \notin Texts
    BY DEF Texts
  <2>3. QED
    BY <2>1, <2>2, FullerFact DEF Fuller
<1> HIDE DEF l, fine
<1>5. \A k : Holds(l(k)) <=> fine(k)
  BY <1>1, <1>3 DEF Holds
<1>6. QED
  BY <1>2, <1>4, <1>5 DEF l, Rises

LEMMA UnassociatedEipRises ==
  ASSUME NEW n, NEW m, Fuller(n, m)
  PROVE  Rises(UnassociatedEip(m), UnassociatedEip(n))
<1> DEFINE l(k) == UnassociatedEip(k)
           fine(k) == /\ Named(k, "domain") /\ Str(k, "domain") \in {"vpc", "standard"}
                      /\ (Has(k, "association_state") => Str(k, "association_state") = "unassociated")
<1>1. \A k : DOMAIN l(k) = 1..3
  BY DEF UnassociatedEip
<1>2. \A k : Ladder(l(k))
  BY DEF UnassociatedEip, Ladder, Members, Guard, Codes
<1>3. \A k : fine(k) <=> /\ l(k)[1].holds /\ l(k)[2].holds /\ l(k)[3].holds
  BY DEF UnassociatedEip, Guard
<1>4. fine(m) => fine(n)
  BY FullerFact, SilenceFact DEF Fuller, Texts, Words, Counts, Denials
<1> HIDE DEF l, fine
<1>5. \A k : Holds(l(k)) <=> fine(k)
  BY <1>1, <1>3 DEF Holds
<1>6. QED
  BY <1>2, <1>4, <1>5 DEF l, Rises

LEMMA DetachedDiskRises ==
  ASSUME NEW n, NEW m, Fuller(n, m)
  PROVE  Rises(DetachedDisk(m), DetachedDisk(n))
<1> DEFINE l(k) == DetachedDisk(k)
           fine(k) == /\ Positive(k, "size_gb") /\ Named(k, "disk_type") /\ Named(k, "status")
                      /\ Has(k, "creation_timestamp") /\ k.attached = 0 /\ Num(k, "user_count") = 0
                      /\ Str(k, "status") \in BillingStatuses /\ DetachedDays(k) >= 7
<1>1. \A k : DOMAIN l(k) = 1..8
  BY DEF DetachedDisk
<1>2. \A k : Ladder(l(k))
  BY DEF DetachedDisk, Ladder, Members, Guard, Codes
<1>3. \A k : fine(k) <=> /\ l(k)[1].holds /\ l(k)[2].holds /\ l(k)[3].holds /\ l(k)[4].holds
                          /\ l(k)[5].holds /\ l(k)[6].holds /\ l(k)[7].holds /\ l(k)[8].holds
  BY DEF DetachedDisk, Guard
<1>4. fine(m) => fine(n)
  BY FullerFact, SilenceFact DEF Fuller, Texts, Words, Counts, BillingStatuses
<1> HIDE DEF l, fine
<1>5. \A k : Holds(l(k)) <=> fine(k)
  BY <1>1, <1>3 DEF Holds
<1>6. QED
  BY <1>2, <1>4, <1>5 DEF l, Rises

LEMMA OldMachineImageRises ==
  ASSUME NEW n, NEW m, Fuller(n, m)
  PROVE  Rises(OldMachineImage(m), OldMachineImage(n))
<1> DEFINE l(k) == OldMachineImage(k)
           fine(k) == /\ k.asset = "gcp_machine_image" /\ Has(k, "storage_bytes")
                      /\ Has(k, "creation_timestamp") /\ Str(k, "status") = "READY"
                      /\ Named(k, "storage_location") /\ Num(k, "creation_timestamp") >= 90
<1>1. \A k : DOMAIN l(k) = 1..6
  BY DEF OldMachineImage
<1>2. \A k : Ladder(l(k))
  BY DEF OldMachineImage, Ladder, Members, Guard, Codes
<1>3. \A k : fine(k) <=> /\ l(k)[1].holds /\ l(k)[2].holds /\ l(k)[3].holds /\ l(k)[4].holds
                          /\ l(k)[5].holds /\ l(k)[6].holds
  BY DEF OldMachineImage, Guard
<1>4. fine(m) => fine(n)
  BY FullerFact, SilenceFact DEF Fuller, Texts, Words, Counts
<1> HIDE DEF l, fine
<1>5. \A k : Holds(l(k)) <=> fine(k)
  BY <1>1, <1>3 DEF Holds
<1>6. QED
  BY <1>2, <1>4, <1>5 DEF l, Rises

LEMMA OldSnapshotRises ==
  ASSUME NEW n, NEW m, Fuller(n, m)
  PROVE  Rises(OldSnapshot(m), OldSnapshot(n))
<1> DEFINE l(k) == OldSnapshot(k)
           fine(k) == /\ Has(k, "creation_timestamp") /\ Has(k, "storage_bytes")
                      /\ Num(k, "creation_timestamp") >= 90
<1>1. \A k : DOMAIN l(k) = 1..3
  BY DEF OldSnapshot
<1>2. \A k : Ladder(l(k))
  BY DEF OldSnapshot, Ladder, Members, Guard, Codes
<1>3. \A k : fine(k) <=> /\ l(k)[1].holds /\ l(k)[2].holds /\ l(k)[3].holds
  BY DEF OldSnapshot, Guard
<1>4. fine(m) => fine(n)
  BY FullerFact, SilenceFact DEF Fuller, Texts, Words, Counts
<1> HIDE DEF l, fine
<1>5. \A k : Holds(l(k)) <=> fine(k)
  BY <1>1, <1>3 DEF Holds
<1>6. QED
  BY <1>2, <1>4, <1>5 DEF l, Rises

LEMMA UnusedReservedIpRises ==
  ASSUME NEW n, NEW m, Fuller(n, m)
  PROVE  Rises(UnusedReservedIp(m), UnusedReservedIp(n))
<1> DEFINE l(k) == UnusedReservedIp(k)
           fine(k) == /\ Named(k, "address_type") /\ Named(k, "status")
                      /\ Str(k, "address_type") = "EXTERNAL" /\ Str(k, "status") # "IN_USE"
                      /\ Str(k, "status") = "RESERVED" /\ Num(k, "address_user_count") = 0
<1>1. \A k : DOMAIN l(k) = 1..6
  BY DEF UnusedReservedIp
<1>2. \A k : Ladder(l(k))
  BY DEF UnusedReservedIp, Ladder, Members, Guard, Codes
<1>3. \A k : fine(k) <=> /\ l(k)[1].holds /\ l(k)[2].holds /\ l(k)[3].holds /\ l(k)[4].holds
                          /\ l(k)[5].holds /\ l(k)[6].holds
  BY DEF UnusedReservedIp, Guard
<1>4. fine(m) => fine(n)
  BY FullerFact, SilenceFact DEF Fuller, Texts, Words, Counts
<1> HIDE DEF l, fine
<1>5. \A k : Holds(l(k)) <=> fine(k)
  BY <1>1, <1>3 DEF Holds
<1>6. QED
  BY <1>2, <1>4, <1>5 DEF l, Rises

LEMMA NoLifecyclePolicyRises ==
  ASSUME NEW n, NEW m, Fuller(n, m)
  PROVE  Rises(NoLifecyclePolicy(m), NoLifecyclePolicy(n))
<1> DEFINE l(k) == NoLifecyclePolicy(k)
           fine(k) == /\ Named(k, "bucket_name") /\ Has(k, "lifecycle_rule_count")
                      /\ Named(k, "storage_class") /\ Num(k, "lifecycle_rule_count") = 0
                      /\ Str(k, "storage_class") \in StandardClasses /\ ~Is(k, "autoclass_enabled")
                      /\ ~Is(k, "retention_locked") /\ MetricOK(k, 7, 20) /\ k.metric.value >= 10
<1>1. \A k : DOMAIN l(k) = 1..9
  BY DEF NoLifecyclePolicy
<1>2. \A k : Ladder(l(k))
  BY DEF NoLifecyclePolicy, Ladder, Members, Guard, Codes
<1>3. \A k : fine(k) <=> /\ l(k)[1].holds /\ l(k)[2].holds /\ l(k)[3].holds /\ l(k)[4].holds
                          /\ l(k)[5].holds /\ l(k)[6].holds /\ l(k)[7].holds /\ l(k)[8].holds
                          /\ l(k)[9].holds
  BY DEF NoLifecyclePolicy, Guard
<1>4. fine(m) => fine(n)
  <2>1. StandardClasses \subseteq Words
    BY DEF StandardClasses, Words
  <2>2. \A v \in StandardClasses : Str(m, "storage_class") = v => Str(n, "storage_class") = v
    BY <2>1, FullerFact
  <2>3. QED
    BY <2>2, FullerFact, SilenceFact DEF Fuller, Texts, Counts, Denials, MetricOK
<1> HIDE DEF l, fine
<1>5. \A k : Holds(l(k)) <=> fine(k)
  BY <1>1, <1>3 DEF Holds
<1>6. QED
  BY <1>2, <1>4, <1>5 DEF l, Rises

LEMMA UnattachedManagedDiskRises ==
  ASSUME NEW n, NEW m, Fuller(n, m)
  PROVE  Rises(UnattachedManagedDisk(m), UnattachedManagedDisk(n))
<1> DEFINE l(k) == UnattachedManagedDisk(k)
           fine(k) == /\ Positive(k, "disk_size_gb") /\ Named(k, "sku_name")
                      /\ Named(k, "disk_state") /\ Has(k, "time_created")
                      /\ Str(k, "disk_state") # "Attached" /\ Str(k, "managed_by") = Blank
                      /\ Str(k, "disk_state") = "Unattached" /\ Num(k, "time_created") >= 7
<1>1. \A k : DOMAIN l(k) = 1..7
  BY DEF UnattachedManagedDisk
<1>2. \A k : Ladder(l(k))
  BY DEF UnattachedManagedDisk, Ladder, Members, Guard, Codes
<1>3. \A k : fine(k) <=> /\ l(k)[1].holds /\ l(k)[2].holds /\ l(k)[3].holds /\ l(k)[4].holds
                          /\ l(k)[5].holds /\ l(k)[6].holds /\ l(k)[7].holds
  BY DEF UnattachedManagedDisk, Guard
<1>4. fine(m) => fine(n)
  BY FullerFact, SilenceFact DEF Fuller, Texts, Words, Counts, Denials
<1> HIDE DEF l, fine
<1>5. \A k : Holds(l(k)) <=> fine(k)
  BY <1>1, <1>3 DEF Holds
<1>6. QED
  BY <1>2, <1>4, <1>5 DEF l, Rises

LEMMA UnassociatedPublicIpRises ==
  ASSUME NEW n, NEW m, Fuller(n, m)
  PROVE  Rises(UnassociatedPublicIp(m), UnassociatedPublicIp(n))
<1> DEFINE l(k) == UnassociatedPublicIp(k)
           fine(k) == /\ Named(k, "sku_name") /\ Named(k, "public_ip_allocation_method")
                      /\ Str(k, "sku_name") = "Standard" /\ Has(k, "ip_configuration_count")
                      /\ Num(k, "ip_configuration_count") = 0
<1>1. \A k : DOMAIN l(k) = 1..5
  BY DEF UnassociatedPublicIp
<1>2. \A k : Ladder(l(k))
  BY DEF UnassociatedPublicIp, Ladder, Members, Guard, Codes
<1>3. \A k : fine(k) <=> /\ l(k)[1].holds /\ l(k)[2].holds /\ l(k)[3].holds /\ l(k)[4].holds
                          /\ l(k)[5].holds
  BY DEF UnassociatedPublicIp, Guard
<1>4. fine(m) => fine(n)
  BY FullerFact, SilenceFact DEF Fuller, Texts, Words, Counts
<1> HIDE DEF l, fine
<1>5. \A k : Holds(l(k)) <=> fine(k)
  BY <1>1, <1>3 DEF Holds
<1>6. QED
  BY <1>2, <1>4, <1>5 DEF l, Rises

\* The ladders that are made of several.
LEMMA JoinRises ==
  ASSUME NEW a, NEW b, Rises(a, b), NEW x, NEW y, Rises(x, y)
  PROVE  Rises(a \o x, b \o y)
BY JoinFact DEF Rises

\* The images, once nothing refers to them, are reported by their age.
Aged(n) == <<Guard("too_young", Num(n, "creation_timestamp") >= 90)>>

LEMMA AgedRises ==
  ASSUME NEW n, NEW m, Fuller(n, m)
  PROVE  Rises(Aged(m), Aged(n))
<1> DEFINE fine(k) == Num(k, "creation_timestamp") >= 90
<1>1. \A k : DOMAIN Aged(k) = 1..1
  BY DEF Aged
<1>2. \A k : Ladder(Aged(k))
  BY DEF Aged, Ladder, Members, Guard, Codes
<1>3. fine(m) => fine(n)
  <2>1. "creation_timestamp" \notin Texts
    BY DEF Texts
  <2>2. 90 \in Nat \ {0}
    OBVIOUS
  <2>3. QED
    BY <2>1, <2>2, FullerFact
<1>4. \A k : Aged(k)[1].holds = fine(k)
  BY DEF Aged, Guard
<1> HIDE DEF fine
<1>5. \A k : Holds(Aged(k)) <=> fine(k)
  BY <1>1, <1>4 DEF Holds
<1>6. QED
  BY <1>2, <1>3, <1>5 DEF Rises

LEMMA UnderutilizedEc2Rises ==
  ASSUME NEW n, NEW m, Fuller(n, m)
  PROVE  Rises(UnderutilizedEc2(m), UnderutilizedEc2(n))
<1> DEFINE head(k) == <<Guard("managed_by_asg", ~k.grouped),
                        Guard("missing_attribute", Named(k, "state")),
                        Guard("not_running", Str(k, "state") = "running"),
                        Guard("spot", Str(k, "lifecycle") # "spot")>>
<1>1. Rises(head(m), head(n))
  <2> DEFINE fine(k) == /\ ~k.grouped /\ Named(k, "state") /\ Str(k, "state") = "running"
                        /\ Str(k, "lifecycle") # "spot"
  <2>1. \A k : DOMAIN head(k) = 1..4
    OBVIOUS
  <2>2. \A k : Ladder(head(k))
    BY DEF Ladder, Members, Guard, Codes
  <2>3. \A k : fine(k) <=> /\ head(k)[1].holds /\ head(k)[2].holds /\ head(k)[3].holds
                           /\ head(k)[4].holds
    BY DEF Guard
  <2>4. fine(m) => fine(n)
    BY FullerFact, SilenceFact DEF Fuller, Texts, Words, Counts, Denials
  <2> HIDE DEF head, fine
  <2>5. \A k : Holds(head(k)) <=> fine(k)
    BY <2>1, <2>3 DEF Holds
  <2>6. QED
    BY <2>2, <2>4, <2>5 DEF Rises
<1>2. \A k : UnderutilizedEc2(k) = 
        head(k) \o Shape(k, "instance_type") \o OldEnough(k, "launch_time", 7) \o Overprovisioned(k)
  BY DEF UnderutilizedEc2
<1> HIDE DEF head
<1>3. Rises(head(m) \o Shape(m, "instance_type"),
            head(n) \o Shape(n, "instance_type"))
  BY <1>1, ShapeRises, JoinRises
<1>4. Rises(head(m) \o Shape(m, "instance_type") \o OldEnough(m, "launch_time", 7),
            head(n) \o Shape(n, "instance_type") \o OldEnough(n, "launch_time", 7))
  BY <1>3, OldEnoughRises, JoinRises DEF Texts
<1>5. Rises(head(m) \o Shape(m, "instance_type") \o OldEnough(m, "launch_time", 7) \o Overprovisioned(m),
            head(n) \o Shape(n, "instance_type") \o OldEnough(n, "launch_time", 7) \o Overprovisioned(n))
  BY <1>4, OverprovisionedRises, JoinRises
<1>6. QED
  BY <1>2, <1>5

LEMMA UnusedAmiRises ==
  ASSUME NEW n, NEW m, Fuller(n, m)
  PROVE  Rises(UnusedAmi(m), UnusedAmi(n))
<1> DEFINE head(k) == <<Guard("not_target_asset_type", k.asset = "aws_image"),
                        Guard("missing_attribute", Named(k, "image_id")),
                        Guard("missing_attribute", Has(k, "creation_timestamp")),
                        Guard("non_billing_status", Str(k, "state") = "available"),
                        Guard("missing_attribute", Is(k, "backing_complete"))>>
<1>1. Rises(head(m), head(n))
  <2> DEFINE fine(k) == /\ k.asset = "aws_image" /\ Named(k, "image_id")
                        /\ Has(k, "creation_timestamp") /\ Str(k, "state") = "available"
                        /\ Is(k, "backing_complete")
  <2>1. \A k : DOMAIN head(k) = 1..5
    OBVIOUS
  <2>2. \A k : Ladder(head(k))
    BY DEF Ladder, Members, Guard, Codes
  <2>3. \A k : fine(k) <=> /\ head(k)[1].holds /\ head(k)[2].holds /\ head(k)[3].holds
                           /\ head(k)[4].holds /\ head(k)[5].holds
    BY DEF Guard
  <2>4. fine(m) => fine(n)
    BY FullerFact, SilenceFact DEF Fuller, Texts, Words, Counts, Denials
  <2> HIDE DEF head, fine
  <2>5. \A k : Holds(head(k)) <=> fine(k)
    BY <2>1, <2>3 DEF Holds
  <2>6. QED
    BY <2>2, <2>4, <2>5 DEF Rises
<1>2. \A k : UnusedAmi(k) = head(k) \o Unreferenced(k) \o Aged(k)
  BY DEF UnusedAmi, Aged
<1> HIDE DEF head
<1>3. Rises(head(m) \o Unreferenced(m),
            head(n) \o Unreferenced(n))
  BY <1>1, UnreferencedRises, JoinRises
<1>4. Rises(head(m) \o Unreferenced(m) \o Aged(m),
            head(n) \o Unreferenced(n) \o Aged(n))
  BY <1>3, AgedRises, JoinRises
<1>5. QED
  BY <1>2, <1>4

LEMMA UnderutilizedInstanceRises ==
  ASSUME NEW n, NEW m, Fuller(n, m)
  PROVE  Rises(UnderutilizedInstance(m), UnderutilizedInstance(n))
<1> DEFINE head(k) == <<Guard("managed_by_mig", ~k.grouped)>>
           state(k) == <<Guard("missing_attribute", Named(k, "status")),
                         Guard("not_running", Str(k, "status") = "RUNNING"),
                         Guard("spot", Str(k, "provisioning_model") # "SPOT" /\ ~Is(k, "preemptible")),
                         Guard("accelerator_present", Num(k, "accelerator_count") = 0)>>
<1>1. Rises(head(m), head(n))
  <2> DEFINE fine(k) == /\ ~k.grouped
  <2>1. \A k : DOMAIN head(k) = 1..1
    OBVIOUS
  <2>2. \A k : Ladder(head(k))
    BY DEF Ladder, Members, Guard, Codes
  <2>3. \A k : fine(k) <=> /\ head(k)[1].holds
    BY DEF Guard
  <2>4. fine(m) => fine(n)
    BY FullerFact, SilenceFact DEF Fuller, Texts, Words, Counts, Denials
  <2> HIDE DEF head, fine
  <2>5. \A k : Holds(head(k)) <=> fine(k)
    BY <2>1, <2>3 DEF Holds
  <2>6. QED
    BY <2>2, <2>4, <2>5 DEF Rises
<1>2. Rises(state(m), state(n))
  <2> DEFINE fine(k) == /\ Named(k, "status") /\ Str(k, "status") = "RUNNING"
                        /\ Str(k, "provisioning_model") # "SPOT" /\ ~Is(k, "preemptible")
                        /\ Num(k, "accelerator_count") = 0
  <2>1. \A k : DOMAIN state(k) = 1..4
    OBVIOUS
  <2>2. \A k : Ladder(state(k))
    BY DEF Ladder, Members, Guard, Codes
  <2>3. \A k : fine(k) <=> /\ state(k)[1].holds /\ state(k)[2].holds /\ state(k)[3].holds
                           /\ state(k)[4].holds
    BY DEF Guard
  <2>4. fine(m) => fine(n)
    BY FullerFact, SilenceFact DEF Fuller, Texts, Words, Counts, Denials
  <2> HIDE DEF state, fine
  <2>5. \A k : Holds(state(k)) <=> fine(k)
    BY <2>1, <2>3 DEF Holds
  <2>6. QED
    BY <2>2, <2>4, <2>5 DEF Rises
<1>3. \A k : UnderutilizedInstance(k) = 
        head(k) \o Shape(k, "machine_type") \o state(k) \o OldEnough(k, "creation_timestamp", 7) \o Overprovisioned(k)
  BY DEF UnderutilizedInstance
<1> HIDE DEF head, state
<1>4. Rises(head(m) \o Shape(m, "machine_type"),
            head(n) \o Shape(n, "machine_type"))
  BY <1>1, ShapeRises, JoinRises
<1>5. Rises(head(m) \o Shape(m, "machine_type") \o state(m),
            head(n) \o Shape(n, "machine_type") \o state(n))
  BY <1>4, <1>2, JoinRises
<1>6. Rises(head(m) \o Shape(m, "machine_type") \o state(m) \o OldEnough(m, "creation_timestamp", 7),
            head(n) \o Shape(n, "machine_type") \o state(n) \o OldEnough(n, "creation_timestamp", 7))
  BY <1>5, OldEnoughRises, JoinRises DEF Texts
<1>7. Rises(head(m) \o Shape(m, "machine_type") \o state(m) \o OldEnough(m, "creation_timestamp", 7)
              \o Overprovisioned(m),
            head(n) \o Shape(n, "machine_type") \o state(n) \o OldEnough(n, "creation_timestamp", 7)
              \o Overprovisioned(n))
  BY <1>6, OverprovisionedRises, JoinRises
<1>8. QED
  BY <1>3, <1>7

LEMMA UnusedCustomImageRises ==
  ASSUME NEW n, NEW m, Fuller(n, m)
  PROVE  Rises(UnusedCustomImage(m), UnusedCustomImage(n))
<1> DEFINE head(k) == <<Guard("not_target_asset_type", k.asset = "gcp_image"),
                        Guard("missing_attribute", Has(k, "storage_bytes") \/ Positive(k, "source_disk_size_gb")),
                        Guard("missing_attribute", Has(k, "creation_timestamp")),
                        Guard("non_billing_status", Str(k, "status") = "READY"),
                        Guard("missing_attribute", Named(k, "storage_location"))>>
<1>1. Rises(head(m), head(n))
  <2> DEFINE fine(k) == /\ k.asset = "gcp_image"
                        /\ (Has(k, "storage_bytes") \/ Positive(k, "source_disk_size_gb"))
                        /\ Has(k, "creation_timestamp") /\ Str(k, "status") = "READY"
                        /\ Named(k, "storage_location")
  <2>1. \A k : DOMAIN head(k) = 1..5
    OBVIOUS
  <2>2. \A k : Ladder(head(k))
    BY DEF Ladder, Members, Guard, Codes
  <2>3. \A k : fine(k) <=> /\ head(k)[1].holds /\ head(k)[2].holds /\ head(k)[3].holds
                           /\ head(k)[4].holds /\ head(k)[5].holds
    BY DEF Guard
  <2>4. fine(m) => fine(n)
    BY FullerFact, SilenceFact DEF Fuller, Texts, Words, Counts, Denials
  <2> HIDE DEF head, fine
  <2>5. \A k : Holds(head(k)) <=> fine(k)
    BY <2>1, <2>3 DEF Holds
  <2>6. QED
    BY <2>2, <2>4, <2>5 DEF Rises
<1>2. \A k : UnusedCustomImage(k) = head(k) \o Unreferenced(k) \o Aged(k)
  BY DEF UnusedCustomImage, Aged
<1> HIDE DEF head
<1>3. Rises(head(m) \o Unreferenced(m),
            head(n) \o Unreferenced(n))
  BY <1>1, UnreferencedRises, JoinRises
<1>4. Rises(head(m) \o Unreferenced(m) \o Aged(m),
            head(n) \o Unreferenced(n) \o Aged(n))
  BY <1>3, AgedRises, JoinRises
<1>5. QED
  BY <1>2, <1>4

LEMMA UnderutilizedVmRises ==
  ASSUME NEW n, NEW m, Fuller(n, m)
  PROVE  Rises(UnderutilizedVm(m), UnderutilizedVm(n))
<1> DEFINE head(k) == <<Guard("missing_attribute", Has(k, "virtual_machine_scale_set_id")),
                        Guard("managed_by_vmss", Str(k, "virtual_machine_scale_set_id") = Blank)>>
           state(k) == <<Guard("missing_attribute", Named(k, "power_state_code")),
                         Guard("not_running", Str(k, "power_state_code") = "PowerState/running"),
                         Guard("missing_attribute", Has(k, "priority")),
                         Guard("spot", Str(k, "priority") # "Spot"),
                         Guard("missing_attribute", Named(k, "os_type"))>>
<1>1. Rises(head(m), head(n))
  <2> DEFINE fine(k) == /\ Has(k, "virtual_machine_scale_set_id")
                        /\ Str(k, "virtual_machine_scale_set_id") = Blank
  <2>1. \A k : DOMAIN head(k) = 1..2
    OBVIOUS
  <2>2. \A k : Ladder(head(k))
    BY DEF Ladder, Members, Guard, Codes
  <2>3. \A k : fine(k) <=> /\ head(k)[1].holds /\ head(k)[2].holds
    BY DEF Guard
  <2>4. fine(m) => fine(n)
    BY FullerFact, SilenceFact DEF Fuller, Texts, Words, Counts, Denials
  <2> HIDE DEF head, fine
  <2>5. \A k : Holds(head(k)) <=> fine(k)
    BY <2>1, <2>3 DEF Holds
  <2>6. QED
    BY <2>2, <2>4, <2>5 DEF Rises
<1>2. Rises(state(m), state(n))
  <2> DEFINE fine(k) == /\ Named(k, "power_state_code")
                        /\ Str(k, "power_state_code") = "PowerState/running" /\ Has(k, "priority")
                        /\ Str(k, "priority") # "Spot" /\ Named(k, "os_type")
  <2>1. \A k : DOMAIN state(k) = 1..5
    OBVIOUS
  <2>2. \A k : Ladder(state(k))
    BY DEF Ladder, Members, Guard, Codes
  <2>3. \A k : fine(k) <=> /\ state(k)[1].holds /\ state(k)[2].holds /\ state(k)[3].holds
                           /\ state(k)[4].holds /\ state(k)[5].holds
    BY DEF Guard
  <2>4. fine(m) => fine(n)
    BY FullerFact, SilenceFact DEF Fuller, Texts, Words, Counts, Denials
  <2> HIDE DEF state, fine
  <2>5. \A k : Holds(state(k)) <=> fine(k)
    BY <2>1, <2>3 DEF Holds
  <2>6. QED
    BY <2>2, <2>4, <2>5 DEF Rises
<1>3. \A k : UnderutilizedVm(k) = 
        head(k) \o Shape(k, "vm_size") \o state(k) \o OldEnough(k, "time_created", 7) \o Overprovisioned(k)
  BY DEF UnderutilizedVm
<1> HIDE DEF head, state
<1>4. Rises(head(m) \o Shape(m, "vm_size"),
            head(n) \o Shape(n, "vm_size"))
  BY <1>1, ShapeRises, JoinRises
<1>5. Rises(head(m) \o Shape(m, "vm_size") \o state(m),
            head(n) \o Shape(n, "vm_size") \o state(n))
  BY <1>4, <1>2, JoinRises
<1>6. Rises(head(m) \o Shape(m, "vm_size") \o state(m) \o OldEnough(m, "time_created", 7),
            head(n) \o Shape(n, "vm_size") \o state(n) \o OldEnough(n, "time_created", 7))
  BY <1>5, OldEnoughRises, JoinRises DEF Texts
<1>7. Rises(head(m) \o Shape(m, "vm_size") \o state(m) \o OldEnough(m, "time_created", 7) \o Overprovisioned(m),
            head(n) \o Shape(n, "vm_size") \o state(n) \o OldEnough(n, "time_created", 7) \o Overprovisioned(n))
  BY <1>6, OverprovisionedRises, JoinRises
<1>8. QED
  BY <1>3, <1>7

LEMMA UnusedGalleryImageVersionRises ==
  ASSUME NEW n, NEW m, Fuller(n, m)
  PROVE  Rises(UnusedGalleryImageVersion(m), UnusedGalleryImageVersion(n))
<1> DEFINE head(k) == <<Guard("not_target_asset_type", k.asset = "azure_gallery_image_version"),
                        Guard("missing_attribute", Positive(k, "size_bytes")),
                        Guard("missing_attribute", Has(k, "creation_timestamp")),
                        Guard("non_billing_status", Str(k, "provisioning_state") = "Succeeded"),
                        Guard("missing_attribute", Has(k, "replica_regions") /\ k.attrs["replica_regions"] # <<>>)>>
<1>1. Rises(head(m), head(n))
  <2> DEFINE fine(k) == /\ k.asset = "azure_gallery_image_version" /\ Positive(k, "size_bytes")
                        /\ Has(k, "creation_timestamp")
                        /\ Str(k, "provisioning_state") = "Succeeded" /\ Has(k, "replica_regions")
                        /\ k.attrs["replica_regions"] # <<>>
  <2>1. \A k : DOMAIN head(k) = 1..5
    OBVIOUS
  <2>2. \A k : Ladder(head(k))
    BY DEF Ladder, Members, Guard, Codes
  <2>3. \A k : fine(k) <=> /\ head(k)[1].holds /\ head(k)[2].holds /\ head(k)[3].holds
                           /\ head(k)[4].holds /\ head(k)[5].holds
    BY DEF Guard
  <2>4. fine(m) => fine(n)
    BY FullerFact, SilenceFact DEF Fuller, Texts, Words, Counts, Denials
  <2> HIDE DEF head, fine
  <2>5. \A k : Holds(head(k)) <=> fine(k)
    BY <2>1, <2>3 DEF Holds
  <2>6. QED
    BY <2>2, <2>4, <2>5 DEF Rises
<1>2. \A k : UnusedGalleryImageVersion(k) = head(k) \o Unreferenced(k) \o Aged(k)
  BY DEF UnusedGalleryImageVersion, Aged
<1> HIDE DEF head
<1>3. Rises(head(m) \o Unreferenced(m),
            head(n) \o Unreferenced(n))
  BY <1>1, UnreferencedRises, JoinRises
<1>4. Rises(head(m) \o Unreferenced(m) \o Aged(m),
            head(n) \o Unreferenced(n) \o Aged(n))
  BY <1>3, AgedRises, JoinRises
<1>5. QED
  BY <1>2, <1>4

\* What a rule lets through with less it lets through with more.
LEMMA Rising ==
  ASSUME NEW rule \in DOMAIN Rules, NEW n, NEW m, Fuller(n, m)
  PROVE  Rises(Guards(rule, m), Guards(rule, n))
<1>1. CASE rule = "underutilized_ec2"
  BY <1>1, UnderutilizedEc2Rises DEF Guards
<1>2. CASE rule = "unattached_ebs_volume"
  BY <1>2, UnattachedEbsVolumeRises DEF Guards
<1>3. CASE rule = "unused_ami"
  BY <1>3, UnusedAmiRises DEF Guards
<1>4. CASE rule = "orphaned_ami_snapshot"
  BY <1>4, OrphanedAmiSnapshotRises DEF Guards
<1>5. CASE rule = "unassociated_eip"
  BY <1>5, UnassociatedEipRises DEF Guards
<1>6. CASE rule = "underutilized_instance"
  BY <1>6, UnderutilizedInstanceRises DEF Guards
<1>7. CASE rule = "detached_disk"
  BY <1>7, DetachedDiskRises DEF Guards
<1>8. CASE rule = "unused_custom_image"
  BY <1>8, UnusedCustomImageRises DEF Guards
<1>9. CASE rule = "old_machine_image"
  BY <1>9, OldMachineImageRises DEF Guards
<1>10. CASE rule = "old_snapshot"
  BY <1>10, OldSnapshotRises DEF Guards
<1>11. CASE rule = "unused_reserved_ip"
  BY <1>11, UnusedReservedIpRises DEF Guards
<1>12. CASE rule = "no_lifecycle_policy"
  BY <1>12, NoLifecyclePolicyRises DEF Guards
<1>13. CASE rule = "underutilized_vm"
  BY <1>13, UnderutilizedVmRises DEF Guards
<1>14. CASE rule = "unattached_managed_disk"
  BY <1>14, UnattachedManagedDiskRises DEF Guards
<1>15. CASE rule = "unassociated_public_ip"
  BY <1>15, UnassociatedPublicIpRises DEF Guards
<1>16. CASE rule = "unused_gallery_image_version"
  BY <1>16, UnusedGalleryImageVersionRises DEF Guards
<1>17. rule \in {"underutilized_ec2", "unattached_ebs_volume", "unused_ami", "orphaned_ami_snapshot",
                 "unassociated_eip", "underutilized_instance", "detached_disk", "unused_custom_image",
                 "old_machine_image", "old_snapshot", "unused_reserved_ip", "no_lifecycle_policy",
                 "underutilized_vm", "unattached_managed_disk", "unassociated_public_ip",
                 "unused_gallery_image_version"}
  BY DEF Rules
<1>18. QED
  BY <1>1, <1>2, <1>3, <1>4, <1>5, <1>6, <1>7, <1>8, <1>9, <1>10, <1>11, <1>12, <1>13, <1>14, <1>15, <1>16, <1>17
-----------------------------------------------------------------------------
(* What is not known never makes a finding *)

\* The nodes of a job are those of the graph as its rule sees them, and the one that
\* is priced has passed.
Traces(j) ==
  /\ j.rule \in DOMAIN Rules =>
       \A i \in DOMAIN j.nodes : i \in DOMAIN scene.nodes /\ j.nodes[i] = Case(j.rule, scene.nodes[i])
  /\ j.pricing => DOMAIN j.nodes # {} /\ j.nodes[Min(DOMAIN j.nodes)].code = Blank

Traced == \A w \in Workers : Traces(job[w])

\* A finding is of a node of the graph that passed the guards of its rule.
Passed(rule, id) ==
  \E i \in DOMAIN scene.nodes :
    scene.nodes[i].id = id /\ FirstSkip(scene.nodes[i], Guards(rule, scene.nodes[i])) = Blank

Fired == \A f \in findings : Passed(f.rule, f.node)

FInv == Traced /\ Fired

\* A worker goes on with nodes of the graph.
Follows(w) == \E j : job' = [job EXCEPT ![w] = j] /\ Traces(j)

\* A job as it is planned.
LEMMA IdleTraces ==
  /\ Traces(Idle) /\ Traces(Currency)
  /\ \A rule \in DOMAIN Rules : Traces(Plan(rule))
<1>1. "idle" \notin DOMAIN Rules /\ "currency" \notin DOMAIN Rules
  BY DEF Rules
<1>2. Idle.rule = "idle" /\ Idle.pricing = FALSE /\ Currency.rule = "currency" /\ Currency.pricing = FALSE
  BY DEF Idle, Currency
<1>3. ASSUME NEW rule \in DOMAIN Rules PROVE Traces(Plan(rule))
  <2> DEFINE seen == {i \in DOMAIN scene.nodes : rule \in Planned(scene.provider, scene.nodes[i].kind)}
  <2>1. /\ Plan(rule).rule = rule /\ Plan(rule).pricing = FALSE
        /\ Plan(rule).nodes = [i \in seen |-> Case(rule, scene.nodes[i])]
    BY DEF Plan, Idle
  <2>2. \A i \in seen : i \in DOMAIN scene.nodes
    OBVIOUS
  <2> HIDE DEF seen
  <2>3. QED
    BY <2>1, <2>2 DEF Traces
<1>4. QED
  BY <1>1, <1>2, <1>3 DEF Traces

LEMMA NextTraces ==
  ASSUME NEW w \in Workers, Traces(job[w])
  PROVE  Traces(NextNode(w))
<1>1. /\ NextNode(w).rule = job[w].rule /\ NextNode(w).pricing = FALSE
      /\ NextNode(w).nodes = Restrict(job[w].nodes, Todo(w) \ {Min(Todo(w))})
  BY DEF NextNode, Idle
<1>2. \A i \in DOMAIN NextNode(w).nodes :
        i \in DOMAIN job[w].nodes /\ NextNode(w).nodes[i] = job[w].nodes[i]
  BY <1>1 DEF Restrict, Todo
<1>3. QED
  BY <1>1, <1>2 DEF Traces

LEMMA SkipFollows ==
  ASSUME NEW w \in Workers, Traces(job[w]), NEW code, Skip(w, code)
  PROVE  Follows(w) /\ findings' = findings
BY NextTraces DEF Skip, Follows

LEMMA SettledFollows ==
  ASSUME NEW w \in Workers, Formed(job[w]), job[w].pricing, Traces(job[w]),
         NEW amount, NEW parts, Settled(w, amount, parts)
  PROVE  Follows(w) /\ findings' = findings
<1> DEFINE j == job[w]
           rest == [j EXCEPT !.legs = Tail(@), !.asking = FALSE]
           paid == [rest EXCEPT !.waste = @ + amount, !.parts = @ \cup parts]
           smaller == [rest EXCEPT !.legs = <<>>, !.waste = @ - amount, !.answered = TRUE, !.parts = @ \cup parts]
<1>1. \/ Skip(w, "no_price")
      \/ /\ \/ job' = [job EXCEPT ![w] = rest]
            \/ job' = [job EXCEPT ![w] = paid]
            \/ job' = [job EXCEPT ![w] = smaller]
         /\ findings' = findings
  BY Zenon DEF Settled, results
<1>2. {"rule", "nodes", "pricing", "legs", "waste", "answered", "parts", "asking"} \subseteq DOMAIN j
  BY DEF Formed
<1>3. DOMAIN rest = DOMAIN j /\ rest.rule = j.rule /\ rest.nodes = j.nodes /\ rest.pricing = j.pricing
  BY <1>2
<1>4. /\ paid.rule = j.rule /\ paid.nodes = j.nodes /\ paid.pricing = j.pricing
      /\ smaller.rule = j.rule /\ smaller.nodes = j.nodes /\ smaller.pricing = j.pricing
  BY <1>2, <1>3
<1> HIDE DEF rest, paid, smaller
<1>5. Traces(rest) /\ Traces(paid) /\ Traces(smaller)
  BY <1>3, <1>4 DEF Traces
<1>6. QED
  BY <1>1, <1>5, SkipFollows DEF Follows

LEMMA TracedStays ==
  ASSUME Traced, scene' = scene, DOMAIN job = Workers,
         \/ job' = job
         \/ \E w \in Workers : Follows(w)
  PROVE  Traced'
<1>1. (\A v \in Workers : Traces(job'[v])) => Traced'
  BY DEF Traced, Traces
<1>2. CASE job' = job
  BY <1>1, <1>2 DEF Traced
<1>3. ASSUME NEW w \in Workers, Follows(w) PROVE Traced'
  <2>1. PICK j : job' = [job EXCEPT ![w] = j] /\ Traces(j)
    BY <1>3 DEF Follows
  <2>2. \A v \in Workers : job'[v] = j \/ job'[v] = job[v]
    BY <2>1
  <2>3. QED
    BY <1>1, <2>1, <2>2 DEF Traced
<1>4. QED
  BY <1>2, <1>3

\* Most steps report nothing.
LEMMA FollowsFact ==
  ASSUME IInv, FInv, scene' = scene, findings' = findings,
         \/ job' = job
         \/ \E w \in Workers : Follows(w)
  PROVE  FInv'
<1>1. Traced'
  BY TracedStays DEF FInv, IInv, Shapes
<1>2. Fired'
  BY DEF FInv, Fired, Passed
<1>3. QED
  BY <1>1, <1>2 DEF FInv

\* What is priced has passed.
LEMMA PassedFact ==
  ASSUME IInv, FInv, NEW w \in Workers, job[w].pricing, job[w].rule # "idle"
  PROVE  Passed(job[w].rule, NodeOf(w).id)
<1> DEFINE j == job[w]  least == Min(DOMAIN j.nodes)
<1>1. j.rule \in DOMAIN Rules /\ Traces(j)
  BY JobFact DEF Formed, FInv, Traced
<1>2. \A i \in DOMAIN j.nodes : i \in DOMAIN scene.nodes /\ j.nodes[i] = Case(j.rule, scene.nodes[i])
  BY <1>1 DEF Traces
<1>3. DOMAIN scene.nodes \subseteq Nat
  BY NodesAssumption DEF IInv, Shapes
<1>4. \E i \in DOMAIN j.nodes : \A k \in DOMAIN j.nodes : i <= k
  BY <1>1, <1>2, <1>3, LeastFact DEF Traces
<1>5. least \in DOMAIN j.nodes
  BY <1>4, Zenon DEF Min
<1>6. j.nodes[least].code = Blank
  BY <1>1 DEF Traces
<1>7. NodeOf(w) = j.nodes[least]
  BY DEF NodeOf, Todo
<1> HIDE DEF least
<1>8. NodeOf(w) = Case(j.rule, scene.nodes[least])
  BY <1>2, <1>5, <1>7
<1>9. /\ NodeOf(w).id = scene.nodes[least].id
      /\ NodeOf(w).code = FirstSkip(scene.nodes[least], Guards(j.rule, scene.nodes[least]))
  BY <1>8 DEF Case
<1>10. QED
  BY <1>2, <1>5, <1>6, <1>7, <1>9 DEF Passed

LEMMA InitFInv == Init => FInv
BY IdleTraces DEF Init, FInv, Traced, Fired

LEMMA ConcludeFires ==
  ASSUME IInv, FInv, NEW w \in Workers, Conclude(w)
  PROVE  FInv'
<1>1. scene' = scene /\ job[w].pricing /\ job[w].rule # "idle"
  BY DEF Conclude, Pricing, At
<1>2. Traces(job[w])
  BY DEF FInv, Traced
<1>3. CASE ~WorthReporting(w)
  <2>1. Skip(w, "below_min_waste")
    BY <1>3 DEF Conclude
  <2>2. QED
    BY <1>1, <1>2, <2>1, SkipFollows, FollowsFact
<1>4. CASE WorthReporting(w)
  <2> DEFINE evidence == {[told |-> EvidenceOf(p), true |-> Provenance(p.from, p.key[2])] : p \in Witnessed(w)}
             f == [rule |-> job[w].rule, node |-> NodeOf(w).id, waste |-> job[w].waste,
                   rightsize |-> job[w].answered, basis |-> NodeOf(w).basis,
                   label |-> Effective, in |-> ListedIn, evidence |-> evidence]
  <2>1. findings' = findings \cup {f} /\ job' = [job EXCEPT ![w] = NextNode(w)]
    BY <1>4 DEF Conclude
  <2> HIDE DEF evidence
  <2>2. f.rule = job[w].rule /\ f.node = NodeOf(w).id
    OBVIOUS
  <2> HIDE DEF f
  <2>3. Follows(w)
    BY <1>2, <2>1, NextTraces DEF Follows
  <2>4. Traced'
    BY <1>1, <2>3, TracedStays DEF FInv, IInv, Shapes
  <2>5. Passed(f.rule, f.node)
    BY <1>1, <2>2, PassedFact
  <2>6. Fired'
    BY <1>1, <2>1, <2>5 DEF FInv, Fired, Passed
  <2>7. QED
    BY <2>4, <2>6 DEF FInv
<1>5. QED
  BY <1>3, <1>4

LEMMA TakeFollows ==
  ASSUME IInv, NEW w \in Workers, Take(w)
  PROVE  Follows(w) /\ findings' = findings /\ scene' = scene
<1>1. /\ scene' = scene /\ findings' = findings /\ queue # <<>> /\ Head(queue) # Currency
      /\ job' = [job EXCEPT ![w] = Head(queue)]
  BY DEF Take, results
<1>2. Head(queue) \in {Currency} \cup Plans
  BY <1>1 DEF IInv, Shapes
<1>3. Traces(Head(queue))
  BY <1>1, <1>2, IdleTraces DEF Plans
<1>4. QED
  BY <1>1, <1>3 DEF Follows

LEMMA AskFollows ==
  ASSUME IInv, FInv, NEW w \in Workers, Ask(w)
  PROVE  Follows(w) /\ findings' = findings /\ scene' = scene
<1>1. scene' = scene /\ Traces(job[w])
  BY DEF Ask, FInv, Traced
<1>2. CASE NodeOf(w).code # Blank
  <2>1. Skip(w, NodeOf(w).code)
    BY <1>2 DEF Ask
  <2>2. QED
    BY <1>1, <2>1, SkipFollows
<1>3. CASE NodeOf(w).code = Blank
  <2> DEFINE new == [rule |-> job[w].rule, nodes |-> job[w].nodes, pricing |-> TRUE, legs |-> NodeOf(w).legs,
                     waste |-> 0, answered |-> FALSE, parts |-> {}, asking |-> FALSE]
  <2>1. job' = [job EXCEPT ![w] = new] /\ findings' = findings /\ Todo(w) # {}
    BY <1>3, Zenon DEF Ask, results
  <2>2. new.rule = job[w].rule /\ new.nodes = job[w].nodes
    OBVIOUS
  <2> HIDE DEF new
  <2>3. Traces(new)
    BY <1>1, <1>3, <2>1, <2>2 DEF Traces, NodeOf, Todo
  <2>4. QED
    BY <1>1, <2>1, <2>3 DEF Follows
<1>4. QED
  BY <1>2, <1>3

\* A worker that asks for a price goes on with the same nodes.
LEMMA PriceFollows ==
  ASSUME IInv, FInv, NEW w \in Workers, Forgo(w) \/ UnitPrice(w) \/ Check(w) \/ Fetch(w) \/ FetchFails(w)
  PROVE  Follows(w) /\ findings' = findings /\ scene' = scene
<1>1. scene' = scene /\ job[w].pricing /\ Formed(job[w]) /\ Traces(job[w])
  BY JobFact DEF Forgo, UnitPrice, Check, Fetch, FetchFails, Single, HasLeg, Pricing, FInv, Traced
<1>2. ASSUME NEW amount, NEW parts, Settled(w, amount, parts)
      PROVE  Follows(w) /\ findings' = findings
  BY <1>1, <1>2, SettledFollows
<1>3. CASE Forgo(w)
  BY <1>1, <1>2, <1>3 DEF Forgo
<1>4. CASE UnitPrice(w)
  BY <1>1, <1>2, <1>4 DEF UnitPrice
<1>5. CASE Check(w)
  <2>1. \/ \E amount, parts : Settled(w, amount, parts)
        \/ job' = [job EXCEPT ![w].asking = TRUE] /\ findings' = findings
    BY <1>5 DEF Check, results
  <2> DEFINE new == [job[w] EXCEPT !.asking = TRUE]
  <2>2. job' = [job EXCEPT ![w] = new] \/ ~(job' = [job EXCEPT ![w].asking = TRUE])
    OBVIOUS
  <2>3. new.rule = job[w].rule /\ new.nodes = job[w].nodes /\ new.pricing = job[w].pricing
    BY <1>1 DEF Formed
  <2> HIDE DEF new
  <2>4. Traces(new)
    BY <1>1, <2>3 DEF Traces
  <2>5. QED
    BY <1>1, <1>2, <2>1, <2>2, <2>4 DEF Follows
<1>6. CASE Fetch(w)
  BY <1>1, <1>2, <1>6 DEF Fetch
<1>7. CASE FetchFails(w)
  BY <1>1, <1>2, <1>7 DEF FetchFails
<1>8. QED
  BY <1>1, <1>3, <1>4, <1>5, <1>6, <1>7

LEMMA StepFInv == IInv /\ FInv /\ [Next]_vars => FInv'
<1> SUFFICES ASSUME IInv, FInv, [Next]_vars PROVE FInv'
  OBVIOUS
<1>1. CASE Settle
  BY <1>1, FollowsFact DEF Settle, results
<1>2. ASSUME NEW w \in Workers, Work(w) PROVE FInv'
  <2>1. CASE Load(w)
    <3>1. scene' = scene
      BY <2>1 DEF Load, Start, StartRecorded, List, ListFails, ServicesFail, Loaded
    <3>2. QED
      BY <2>1, <3>1, FollowsFact DEF Load, results
  <2>2. CASE Finished(w)
    BY <2>2, IdleTraces, FollowsFact DEF Finished, Follows, results
  <2>3. CASE Conclude(w)
    BY <2>3, ConcludeFires
  <2>4. CASE Take(w) \/ Ask(w)
    BY <2>4, TakeFollows, AskFollows, FollowsFact
  <2>5. CASE Forgo(w) \/ UnitPrice(w) \/ Check(w) \/ Fetch(w) \/ FetchFails(w)
    BY <2>5, PriceFollows, FollowsFact
  <2>6. QED
    BY <1>2, <2>1, <2>2, <2>3, <2>4, <2>5 DEF Work
<1>3. CASE UNCHANGED vars
  BY <1>3, FollowsFact DEF vars, results
<1>4. QED
  BY <1>1, <1>2, <1>3 DEF Next, Terminated

\* All the attributes of a node, and those its payload has.
LEMMA EntireFact ==
  ASSUME scene \in {Scenes[name] : name \in DOMAIN Scenes}, NEW i \in DOMAIN scene.nodes
  PROVE  Fuller(Entire(scene.nodes[i]), scene.nodes[i]) /\ Entire(scene.nodes[i]).exempt = scene.nodes[i].exempt
<1> DEFINE n == scene.nodes[i]  all == Put(n.lost, n.attrs)
<1>1. /\ {"asset", "grouped", "exempt", "attached", "metric", "attrs", "lost"} \subseteq DOMAIN n
      /\ \A a \in DOMAIN n.lost :
           \/ a \in DOMAIN n.attrs /\ n.lost[a] = n.attrs[a]
           \/ /\ a \in DOMAIN n.attrs => a \in Texts /\ n.attrs[a] = Blank
              /\ SaysNo(a, n.lost[a])
  BY LossAssumption
<1>2. Entire(n) = [n EXCEPT !.attrs = all]
  BY DEF Entire
<1> HIDE DEF n
<1>3. /\ DOMAIN all = DOMAIN n.lost \cup DOMAIN n.attrs
      /\ \A a \in DOMAIN n.lost : all[a] = n.lost[a]
      /\ \A a \in DOMAIN n.attrs \ DOMAIN n.lost : all[a] = n.attrs[a]
  BY DEF Put
<1> HIDE DEF all
<1>4. /\ Entire(n).attrs = all /\ Entire(n).asset = n.asset /\ Entire(n).grouped = n.grouped
      /\ Entire(n).exempt = n.exempt /\ Entire(n).attached = n.attached /\ Entire(n).metric = n.metric
  BY <1>1, <1>2
<1>5. \A a \in DOMAIN n.attrs :
        a \in DOMAIN all /\ (all[a] = n.attrs[a] \/ (a \in Texts /\ n.attrs[a] = Blank))
  BY <1>1, <1>3
<1>6. \A a \in DOMAIN all \ DOMAIN n.attrs : SaysNo(a, all[a])
  BY <1>1, <1>3
<1>7. Fuller(Entire(n), n)
  BY <1>4, <1>5, <1>6 DEF Fuller
<1>8. QED
  BY <1>4, <1>7 DEF n

\* The findings are of nodes that passed the guards of their rule.
THEOREM Firing == Spec => []FInv
BY Invariance, InitFInv, StepFInv, PTL DEF Spec

\* What a payload leaves out never makes a finding: whichever of its attributes a node
\* lacks, it is reported only if it would be with all of them (the guards of the
\* sixteen rules).
THEOREM IgnoranceSilent == Spec => []IgnoranceNeverFires
<1>1. IInv /\ FInv => IgnoranceNeverFires
  <2> SUFFICES ASSUME IInv, FInv, NEW f \in findings, NEW whole, whole = Entire(NodeNamed(f.node))
               PROVE  FirstSkip(whole, Guards(f.rule, whole)) = Blank
    BY DEF IgnoranceNeverFires
  <2>1. PICK i \in DOMAIN scene.nodes :
          scene.nodes[i].id = f.node /\ FirstSkip(scene.nodes[i], Guards(f.rule, scene.nodes[i])) = Blank
    BY DEF FInv, Fired, Passed
  <2> DEFINE n == scene.nodes[i]
  <2>2. scene \in {Scenes[name] : name \in DOMAIN Scenes} /\ f.rule \in DOMAIN Rules
    BY DEF IInv, Shapes, Reported
  <2>3. NodeNamed(f.node) = n
    <3>1. n \in Nodes /\ n.id = f.node
      BY <2>1 DEF Nodes
    <3>2. \A k \in Nodes : k.id = f.node => k = n
      BY <2>1, <2>2, NodesAssumption DEF Nodes
    <3> HIDE DEF n
    <3>3. QED
      BY <3>1, <3>2 DEF NodeNamed
  <2>4. Fuller(whole, n) /\ whole.exempt = n.exempt
    BY <2>2, <2>3, EntireFact
  <2> HIDE DEF n
  <2>5. Rises(Guards(f.rule, n), Guards(f.rule, whole))
    BY <2>2, <2>4, Rising
  <2>6. FirstSkip(n, Guards(f.rule, n)) = Blank
    BY <2>1 DEF n
  <2>7. QED
    BY <2>4, <2>5, <2>6, SkipFact DEF Rises
<1>2. QED
  BY <1>1, Invariance, Firing, PTL
=============================================================================
