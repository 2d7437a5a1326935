----------------------------- MODULE GcpPrices ------------------------------
(***************************************************************************)
(* How the Cloud Billing catalogue is read (pkg/pricing/gcp/catalog.go).   *)
(* A SKU has a resource family and group, a usage type, the telling words  *)
(* of its description, the machine family that its first word makes with   *)
(* "standard" or "custom", regions and a price.                            *)
(***************************************************************************)
EXTENDS Integers, Sequences

DiskGroups ==
  [ssd |-> "pd-ssd", pdssd |-> "pd-ssd", storagepdcapacity |-> "pd-standard",
   pdstandard |-> "pd-standard"]

StorageClasses ==
  [standard |-> "STANDARD", nearline |-> "NEARLINE", coldline |-> "COLDLINE", archive |-> "ARCHIVE"]

\* The kind and the SKU token a listed SKU prices, if any.  Only what is paid on
\* demand counts, except in Cloud Storage.
matchSKU(sku) ==
  LET demand == sku.usage = "OnDemand"
      early == "early deletion" \in sku.words
      regional == "regional" \in sku.words
      custom(kind) == IF "custom" \in sku.words THEN {<<kind, sku.machine>>} ELSE {}
  IN CASE demand /\ sku.group = "pdsnapshot" ->
            IF early THEN {}
            ELSE {<<"snapshot_storage", IF "archive" \in sku.words THEN "archive" ELSE "standard">>}
       [] demand /\ sku.group = "storageimage" -> IF early THEN {} ELSE {<<"image_storage", "standard">>}
       [] demand /\ sku.group = "machineimage" -> IF early THEN {} ELSE {<<"machine_image_storage", "standard">>}
       [] sku.family = "Compute" /\ demand ->
            CASE sku.group = "n1standard" -> {<<"vm_instance", sku.machine>>}
              [] sku.group = "cpu" -> custom("vm_custom_cpu")
              [] sku.group = "ram" -> custom("vm_custom_ram")
              [] sku.group \in DOMAIN DiskGroups -> {<<"disk_capacity", <<DiskGroups[sku.group], regional>>>>}
              [] sku.group = "extremepd" -> {<<"disk_capacity", <<"pd-extreme", FALSE>>>>}
              [] sku.group \in {"iprange", "staticipaddress"} -> {<<"static_ip", "unattached">>}
              [] OTHER -> {}
       [] sku.family = "Storage" ->
            {<<"gcs_storage", StorageClasses[c]>> : c \in DOMAIN StorageClasses \cap sku.words}
       [] OTHER -> {}

regionsOf(sku) == IF sku.regions = {} THEN {"default"} ELSE sku.regions

SkuEntries(sku) ==
  {[key |-> <<m[1], m[2], r>>, price |-> sku.price, region |-> r, substitute |-> FALSE] :
     m \in matchSKU(sku), r \in regionsOf(sku)}

isMultiRegion(region) == region \in {"us", "eu", "europe", "asia"}

\* The multi-region a region belongs to by its name: "us" of "us-central1".  A name
\* without a dash has none, and no name of a region begins with "eu-".
CONSTANT PrefixOf
ASSUME PrefixAssumption ==
  \A r \in DOMAIN PrefixOf : ~isMultiRegion(r) /\ PrefixOf[r] # "eu"

\* The regions a price is looked for in, in this order.
regionCandidates(region) ==
  <<region>> \o (IF region = "eu" THEN <<"europe">> ELSE <<>>)
             \o (IF region \in DOMAIN PrefixOf THEN <<PrefixOf[region]>> ELSE <<>>)
             \o <<"default", "global">>

\* An image in a multi-region that has no price of its own is priced as a machine
\* image of that multi-region.
multiRegionImageSubstitutes(kind, sku, region) ==
  LET candidates == regionCandidates(region)
      multi == {i \in DOMAIN candidates : kind = "image_storage" /\ isMultiRegion(candidates[i])}
  IN [i \in multi |-> <<"machine_image_storage", sku, candidates[i]>>]

\* DetectCurrency: the first project whose two billing calls are answered and whose
\* account has a currency; "" if there is none.
DetectCurrency(billing, answering) ==
  LET told == {i \in DOMAIN billing : i \in answering /\ billing[i] # ""}
  IN IF told = {} THEN "" ELSE billing[CHOOSE i \in told : \A j \in told : i <= j]
=============================================================================
