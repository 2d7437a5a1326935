--------------------------- MODULE PriceCatalogue ---------------------------
(***************************************************************************)
(* The pricers of pkg/pricing as the rules share them: a catalogue that is *)
(* loaded once, by whoever asks first, and prices that are asked for one   *)
(* by one and kept.  What a pricer keeps is one record, c, like the        *)
(* receiver of its methods.                                                *)
(*                                                                         *)
(* A scene is what a scan meets: its provider, whether prices come from    *)
(* the vendor ("live"), from a recording ("fixture", "broken") or from     *)
(* nowhere ("none"), and what the vendor lists, in the order it lists it.  *)
(***************************************************************************)
EXTENDS AwsPrices, GcpPrices, AzurePrices, FiniteSets, TLC

CONSTANTS
  Workers,
  Scenes   \* the scenes by name

ASSUME WorkersAssumption == Workers \cap {"idle", "done"} = {}

\* A recording has machines by their type and an address in the table of their provider.
\* Their prices need not be the vendor's.
ASSUME RecordingAssumption ==
  \A s \in {Scenes[name] : name \in DOMAIN Scenes} : \A m \in s.machines :
    /\ m = Entry(m.key[1], m.key[2], m.key[3], m.price)
    /\ m.key[1] = IF s.provider = "aws" THEN "instance" ELSE "vm_instance"

VARIABLES
  scene,  \* what the scan meets
  c  \* [once, left, dropped, loadErr, unsupported, loaded, currency, index, refused, fixed, last]

NewPricer(s) ==
  [once |-> "idle",         \* "idle", the worker that loads, or "done"
   left |-> <<>>,           \* what is still to be listed, by service
   dropped |-> {},          \* the services that were not listed to their end
   loadErr |-> FALSE, unsupported |-> FALSE, loaded |-> FALSE,
   currency |-> s.flag,     \* asked for; "" is the default, USD
   index |-> <<>>,          \* the entries, and the prices that were asked one by one
   refused |-> {},          \* the keys no row prices
   fixed |-> FALSE,         \* instancePricesLoaded
   last |-> <<>>]           \* provenance, by key

Recorded == scene.source \in {"fixture", "broken"}

\* A currency other than the default was settled on.
InCurrency == c.currency # ""

Keys(kind, sku, regions) == [i \in DOMAIN regions |-> <<kind, sku, regions[i]>>]

\* What prices of these are asked one by one.
AskedSingly(kind) ==
  kind = "instance" \/ scene.provider = "azure"

EntriesOf(doc) == IF scene.provider = "aws" THEN indexDoc(doc) ELSE SkuEntries(doc)

Indexed(entries) == [k \in {e.key : e \in entries} |-> CHOOSE e \in entries : e.key = k]

\* A map with the new entries written to it.
Put(new, map) == [k \in DOMAIN new \cup DOMAIN map |-> IF k \in DOMAIN new THEN new[k] ELSE map[k]]

-----------------------------------------------------------------------------
(* The load: loadCatalogue under sync.Once *)

\* The first to ask loads; the others wait for it.
Start(w) ==
  /\ c.once = "idle" /\ ~Recorded
  /\ c' = [c EXCEPT !.once = w, !.left = scene.listed]
  /\ UNCHANGED scene

\* A recording is read whole or not at all.
StartRecorded(w) ==
  /\ c.once = "idle" /\ Recorded
  /\ c' = LET docs == UNION {{scene.listed[s][i] : i \in DOMAIN scene.listed[s]} : s \in DOMAIN scene.listed}
              found == scene.machines \cup UNION {EntriesOf(d) : d \in docs}
          IN IF scene.source = "broken" THEN [c EXCEPT !.once = "done", !.loadErr = TRUE]
             ELSE [c EXCEPT !.once = "done", !.loaded = found # {}, !.fixed = scene.provider = "aws",
                            !.index = Put(Indexed(found), @)]
  /\ UNCHANGED scene

\* One document of a service is read and indexed.
List(w, s) ==
  /\ c.once = w /\ c.left[s] # <<>>
  /\ c' = [c EXCEPT !.left[s] = Tail(@), !.index = Put(Indexed(EntriesOf(Head(c.left[s]))), @)]
  /\ UNCHANGED scene

\* Slip: after a load that failed the next to ask loads again.
AbandonedForNow == [c EXCEPT !.once = "idle", !.left = <<>>]

\* The load fails for all who ask, now and later.  What was indexed stays.
Abandoned == [c EXCEPT !.once = "done", !.loadErr = TRUE, !.left = <<>>]

\* A service cannot be read on.  AWS gives up; GCP goes on with the other services
\* and does not count this one, unless it was the currency that was refused.
ListFails(w, s) ==
  /\ c.once = w /\ c.left[s] # <<>>
  /\ \/ scene.provider = "aws" /\ c' = Abandoned
     \/ scene.provider = "gcp" /\ c' = [c EXCEPT !.left[s] = <<>>, !.dropped = @ \cup {s}]
     \/ scene.provider = "gcp" /\ InCurrency /\ c' = [Abandoned EXCEPT !.unsupported = TRUE]
  /\ UNCHANGED scene

\* The services of GCP cannot be listed.
ServicesFail(w) ==
  /\ c.once = w /\ scene.provider = "gcp" /\ c.left = scene.listed
  /\ c' = Abandoned
  /\ UNCHANGED scene

Counted == UNION {UNION {EntriesOf(scene.listed[s][i]) : i \in DOMAIN scene.listed[s]} :
                  s \in DOMAIN scene.listed \ c.dropped}

\* AWS asks once more, without the families, if there was nothing; that may fail.
Loaded(w) ==
  /\ c.once = w /\ \A s \in DOMAIN c.left : c.left[s] = <<>>
  /\ \/ c' = [c EXCEPT !.once = "done", !.loaded = Counted # {}, !.left = <<>>]
     \/ scene.provider = "aws" /\ Counted = {} /\ c' = Abandoned
  /\ UNCHANGED scene

-----------------------------------------------------------------------------
(* Asking *)

\* Slip: it is enough that somebody has started to load.
ReadyOnceStarted == c.once # "idle" \/ scene.source = "none"

Ready == c.once = "done" \/ scene.source = "none"

\* What is indexed under the first of the keys that is there.
FirstIn(keys) ==
  LET there == {i \in DOMAIN keys : keys[i] \in DOMAIN c.index}
  IN {c.index[keys[i]] : i \in {i \in there : \A j \in there : i <= j}}

\* liveUnitPrice after the load: the entry that answers, if one does.
Lookup(kind, sku, region) ==
  IF c.loadErr \/ scene.source = "none" THEN {}
  ELSE IF scene.provider = "aws" THEN FirstIn(Keys(kind, sku, AwsRegions(region)))
  ELSE LET own == FirstIn(Keys(kind, sku, regionCandidates(region)))
       IN IF own # {} THEN own
          ELSE {[e EXCEPT !.substitute = TRUE] :
                  e \in FirstIn(multiRegionImageSubstitutes(kind, sku, region))}

\* Which entry answered: its region, and the token it is indexed by in the place of the
\* vendor's number of its SKU.
Provenance(e, sku) ==
  [source |-> IF e.substitute THEN "equivalent_sku" ELSE "live_api", sku |-> sku, region |-> e.region]

\* Slip: only the region that was asked for is remembered.
UnderAsked(kind, sku, region, e) == {<<kind, sku, region>>}

\* What answered is remembered under the region that was asked and the one that
\* answered: evidence is rendered with the second.
Under(kind, sku, region, e) == {<<kind, sku, region>>, <<kind, sku, e.region>>}

Record(last, kind, sku, region, e) ==
  Put([k \in Under(kind, sku, region, e) |-> Provenance(e, sku)], last)

\* The price of a key that is asked singly, as the vendor or the recording has it.
Priced(kind, sku, region) ==
  IF scene.source = "none" THEN {}
  ELSE IF scene.provider = "azure" THEN selectPrice(scene.rows, kind, sku, region)
  ELSE instancePrices(scene.types, sku, region)

\* The currency the pricer says its answers are in.
Effective == IF scene.provider = "gcp" /\ c.loaded /\ InCurrency THEN c.currency ELSE "USD"

\* The currency a listed price is in.
ListedIn == IF scene.provider = "gcp" /\ scene.source = "live" /\ InCurrency THEN c.currency ELSE "USD"

\* resolveScanCurrency: without a flag, the currency of the first project that tells;
\* offline nobody is asked.
ResolveCurrency(answering) ==
  IF scene.flag # "" \/ scene.source # "live" \/ scene.provider # "gcp" THEN c
  ELSE [c EXCEPT !.currency = DetectCurrency(scene.billing, answering)]
=============================================================================
