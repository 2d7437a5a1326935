--------------------------- MODULE AzureNormalize ---------------------------
(***************************************************************************)
(* What becomes of a row of Azure Resource Graph (pkg/cloud/azure).  A row *)
(* has its id, its type, the subscription it names and the one its id      *)
(* names, a location as Azure spells it, and the fields its payload has.   *)
(* Some attributes are written whatever the payload says, others only when *)
(* there is something to write: a rule tells "no" from "not known" by it.  *)
(***************************************************************************)
EXTENDS Integers, SequencesExt, Tables

CONSTANT Spelling  \* the region each spelling of a location names; "" names none

ASSUME SpellingAssumption ==
  \A l \in DOMAIN Spelling : Spelling[l] \in DOMAIN Spelling => Spelling[Spelling[l]] = Spelling[l]

locationRegion(location) == Spelling[location]

Unnamed == 0

\* The subscription a resource belongs to: the row's, or else the one in its ARM id.
SubscriptionOf(row) == IF row.subscription # Unnamed THEN row.subscription ELSE row.owner

Text(row, field) == IF field \in DOMAIN row.fields THEN row.fields[field] ELSE ""
Told(row, field, attr) == IF field \in DOMAIN row.fields THEN Only(attr, row.fields[field]) ELSE <<>>
Size(row, field) ==
  IF field \in DOMAIN row.fields /\ row.fields[field] > 0 THEN {row.fields[field]} ELSE {}

ResourceNode(row, kind, asset, attrs) ==
  [id |-> row.id, kind |-> kind, asset |-> asset, project |-> SubscriptionOf(row),
   location |-> locationRegion(row.location), attrs |-> attrs]

NormalizeDisk(row) ==
  ResourceNode(row, "disk", "azure_disk",
    Over([sku_name |-> Text(row, "sku"), disk_state |-> Text(row, "diskState"),
          managed_by |-> Text(row, "managedBy")],
         Over([a \in {"disk_size_gb" : s \in Size(row, "diskSizeGB")} |-> row.fields["diskSizeGB"]],
              Told(row, "timeCreated", "time_created"))))

\* The number of configurations is always known: none or one.
NormalizePublicIP(row) ==
  ResourceNode(row, "address", "azure_address",
    [sku_name |-> Text(row, "sku"), public_ip_allocation_method |-> Text(row, "publicIPAllocationMethod"),
     ip_configuration_count |-> IF "ipConfiguration" \in DOMAIN row.fields THEN 1 ELSE 0])

\* No priority and no scale set are what a regular machine by itself has.
NormalizeVM(row) ==
  ResourceNode(row, "instance", "azure_instance",
    Over([vm_size |-> Text(row, "vmSize"), power_state_code |-> Text(row, "powerState"),
          priority |-> Text(row, "priority"), os_type |-> Text(row, "osType"),
          virtual_machine_scale_set_id |-> Text(row, "virtualMachineScaleSet")],
         Told(row, "timeCreated", "time_created")))

\* A target without a region is none; it has one copy of standard storage unless it
\* says otherwise.
replicaRegionsFromTargets(targets) ==
  LET named == SelectSeq(targets, LAMBDA t : locationRegion(t.name) # "")
  IN [i \in DOMAIN named |->
        [region |-> locationRegion(named[i].name),
         sku |-> IF named[i].sku = "" THEN "Standard_LRS" ELSE named[i].sku,
         count |-> IF named[i].count > 0 THEN named[i].count ELSE 1]]

\* The system disk and the data disks together, if the system disk has a size.
VersionSize(row) ==
  LET data == IF "dataDisks" \in DOMAIN row.fields THEN row.fields["dataDisks"] ELSE <<>>
  IN {FoldLeft(LAMBDA sum, d : IF d > 0 THEN sum + d ELSE sum, s, data) : s \in Size(row, "osDisk")}

NormalizeGalleryImageVersion(row) ==
  LET targets == IF "targetRegions" \in DOMAIN row.fields THEN row.fields["targetRegions"] ELSE <<>>
      replicas == replicaRegionsFromTargets(targets)
  IN ResourceNode(row, "image", "azure_gallery_image_version",
       Over([provisioning_state |-> Text(row, "provisioningState")],
       Over([a \in {"size_bytes" : s \in VersionSize(row)} |-> CHOOSE s \in VersionSize(row) : TRUE],
       Over(Told(row, "publishedDate", "creation_timestamp"),
            [a \in {"replica_regions" : r \in {r \in {replicas} : r # <<>>}} |-> replicas]))))

\* The node of a row, if it is of a type the graph knows and has an id.
NormalizeResource(row) ==
  IF row.id = "" THEN {}
  ELSE CASE row.type = "disk" -> {NormalizeDisk(row)}
         [] row.type = "publicIP" -> {NormalizePublicIP(row)}
         [] row.type = "vm" -> {NormalizeVM(row)}
         [] row.type = "galleryImageVersion" -> {NormalizeGalleryImageVersion(row)}
         [] OTHER -> {}

-----------------------------------------------------------------------------
(* The references of one answer *)

Compute(rows) == {row \in rows : row.type \in {"vm", "vmss"}}

\* No machine at all may also be a reader who may not see them.
ReferencesComplete(rows) ==
  Compute(rows) # {} /\ \A row \in Compute(rows) : "storageProfile" \in DOMAIN row.fields

\* The machines that name the version, or the definition it is a version of.
CountFor(row, rows) ==
  Cardinality({m \in Compute(rows) :
    {"storageProfile", "imageReference"} \subseteq DOMAIN m.fields
    /\ m.fields["imageReference"] \in {<<"version", row.id>>, <<"definition", row.fields["definition"]>>}})
=============================================================================
