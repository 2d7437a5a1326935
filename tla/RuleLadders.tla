----------------------------- MODULE RuleLadders ----------------------------
(***************************************************************************)
(* The sixteen rules of pkg/rules: of each its ladder of guards and the    *)
(* prices its cost is made of.                                             *)
(*                                                                         *)
(* A node has attributes under their names in the graph, only those the    *)
(* normalizer wrote.  A time is an attribute that holds the age in days,   *)
(* and is absent when it is missing or cannot be parsed.  Ratios are in    *)
(* percent and money is in thousandths of a dollar.                        *)
(***************************************************************************)
EXTENDS ManagedDiskTiers, FiniteSetsExt

\* The sizes of a machine family, ascending: <<[name, vcpu, mem]>>.
CONSTANT Ladders

ASSUME LaddersAscend ==
  \A f \in DOMAIN Ladders : \A i, j \in DOMAIN Ladders[f] :
    i < j => Ladders[f][i].vcpu <= Ladders[f][j].vcpu

HoursPerMonth == 730

-----------------------------------------------------------------------------
(* Reading a node *)

\* No text: the zero of a string.
Blank == ""

Has(n, a) == a \in DOMAIN n.attrs
Str(n, a) == IF Has(n, a) THEN n.attrs[a] ELSE Blank
Num(n, a) == IF Has(n, a) THEN n.attrs[a] ELSE 0
Is(n, a) == Has(n, a) /\ n.attrs[a]
Named(n, a) == Has(n, a) /\ n.attrs[a] # Blank
Positive(n, a) == Num(n, a) > 0
MetricOK(n, samples, coverage) ==
  n.metric.samples >= samples /\ n.metric.coverage >= coverage

RegionOf(n) == IF n.location = Blank THEN "default" ELSE n.location

Guard(code, holds) == [code |-> code, holds |-> holds]

\* The code of the first guard that fails; none if all hold.  The exemption label is
\* asked before every guard.
FirstSkip(n, ladder) ==
  LET failing == {i \in DOMAIN ladder : ~ladder[i].holds}
  IN IF n.exempt THEN "exempt_label"
     ELSE IF failing = {} THEN Blank ELSE ladder[Min(failing)].code

\* What several rules ask in the same words.
Shape(n, type) ==
  <<Guard("unknown_machine_type", Named(n, type)),
    Guard("unknown_machine_type", Num(n, "vcpu_count") >= 1),
    Guard("unknown_machine_type", Positive(n, "memory_gib")),
    Guard("unknown_machine_type", Named(n, "machine_family"))>>
OldEnough(n, attr, days) ==
  <<Guard("missing_attribute", Has(n, attr)), Guard("too_young", Num(n, attr) >= days)>>
Overprovisioned(n) ==
  <<Guard("no_metric", MetricOK(n, 168, 50)),
    Guard("below_overprovision_threshold", 100 - n.metric.value > 40)>>
\* Slip: what is not said about the references is taken for a yes.
UnreferencedIfTold(n) ==
  <<Guard("references_unknown", Has(n, "references_complete") => Is(n, "references_complete")),
    Guard("in_use", Num(n, "reference_count") = 0)>>

Unreferenced(n) ==
  <<Guard("references_unknown", Is(n, "references_complete")),
    Guard("in_use", Num(n, "reference_count") = 0)>>

-----------------------------------------------------------------------------
(* The guards of AWS *)

UnderutilizedEc2(n) ==
  <<Guard("managed_by_asg", ~n.grouped),
    Guard("missing_attribute", Named(n, "state")),
    Guard("not_running", Str(n, "state") = "running"),
    Guard("spot", Str(n, "lifecycle") # "spot")>>
  \o Shape(n, "instance_type") \o OldEnough(n, "launch_time", 7) \o Overprovisioned(n)

UnattachedEbsVolume(n) ==
  <<Guard("missing_attribute", Positive(n, "size_gb")),
    Guard("missing_attribute", Named(n, "volume_type")),
    Guard("missing_attribute", Named(n, "state")),
    Guard("missing_attribute", Has(n, "create_time")),
    Guard("in_use", Num(n, "attachment_count") = 0 /\ n.attached = 0),
    Guard("non_billing_status", Str(n, "state") = "available"),
    Guard("recently_detached", Num(n, "create_time") >= 7)>>

UnusedAmi(n) ==
  <<Guard("not_target_asset_type", n.asset = "aws_image"),
    Guard("missing_attribute", Named(n, "image_id")),
    Guard("missing_attribute", Has(n, "creation_timestamp")),
    Guard("non_billing_status", Str(n, "state") = "available"),
    Guard("missing_attribute", Is(n, "backing_complete"))>>
  \o Unreferenced(n)
  \o <<Guard("too_young", Num(n, "creation_timestamp") >= 90)>>

OrphanedAmiSnapshot(n) ==
  <<Guard("not_target_asset_type", n.asset = "aws_snapshot"),
    Guard("missing_attribute", Named(n, "snapshot_id")),
    Guard("missing_attribute", Positive(n, "volume_size_gb")),
    Guard("missing_attribute", Has(n, "creation_timestamp")),
    Guard("non_billing_status", Str(n, "state") = "completed"),
    Guard("not_ami_created_snapshot", Is(n, "ami_created")),
    Guard("references_unknown", Is(n, "ami_reference_complete")),
    Guard("in_use", Has(n, "referenced_by_ami_count") /\ Num(n, "referenced_by_ami_count") = 0),
    Guard("too_young", Num(n, "creation_timestamp") >= 90)>>

UnassociatedEip(n) ==
  <<Guard("missing_attribute", Named(n, "domain")),
    Guard("internal_address", Str(n, "domain") \in {"vpc", "standard"}),
    Guard("in_use", Has(n, "association_state") => Str(n, "association_state") = "unassociated")>>

-----------------------------------------------------------------------------
(* The guards of GCP *)

UnderutilizedInstance(n) ==
  <<Guard("managed_by_mig", ~n.grouped)>>
  \o Shape(n, "machine_type")
  \o <<Guard("missing_attribute", Named(n, "status")),
       Guard("not_running", Str(n, "status") = "RUNNING"),
       Guard("spot", Str(n, "provisioning_model") # "SPOT" /\ ~Is(n, "preemptible")),
       Guard("accelerator_present", Num(n, "accelerator_count") = 0)>>
  \o OldEnough(n, "creation_timestamp", 7) \o Overprovisioned(n)

BillingStatuses == {"READY", "FAILED", "RESTORING", "UNAVAILABLE"}

\* The days since the last detach, or since the creation.
DetachedDays(n) ==
  IF Has(n, "last_detach_time") THEN Num(n, "last_detach_time") ELSE Num(n, "creation_timestamp")

DetachedDisk(n) ==
  <<Guard("missing_attribute", Positive(n, "size_gb")),
    Guard("missing_attribute", Named(n, "disk_type")),
    Guard("missing_attribute", Named(n, "status")),
    Guard("missing_attribute", Has(n, "creation_timestamp")),
    Guard("in_use", n.attached = 0),
    Guard("in_use", Num(n, "user_count") = 0),
    Guard("non_billing_status", Str(n, "status") \in BillingStatuses),
    Guard("recently_detached", DetachedDays(n) >= 7)>>

\* The archive's size counts when it is there, zero too; else the disk's, if positive.
ImageSize(n) ==
  IF Has(n, "storage_bytes") THEN Num(n, "storage_bytes") ELSE Num(n, "source_disk_size_gb")

UnusedCustomImage(n) ==
  <<Guard("not_target_asset_type", n.asset = "gcp_image"),
    Guard("missing_attribute", Has(n, "storage_bytes") \/ Positive(n, "source_disk_size_gb")),
    Guard("missing_attribute", Has(n, "creation_timestamp")),
    Guard("non_billing_status", Str(n, "status") = "READY"),
    Guard("missing_attribute", Named(n, "storage_location"))>>
  \o Unreferenced(n)
  \o <<Guard("too_young", Num(n, "creation_timestamp") >= 90)>>

OldMachineImage(n) ==
  <<Guard("not_target_asset_type", n.asset = "gcp_machine_image"),
    Guard("missing_attribute", Has(n, "storage_bytes")),
    Guard("missing_attribute", Has(n, "creation_timestamp")),
    Guard("non_billing_status", Str(n, "status") = "READY"),
    Guard("missing_attribute", Named(n, "storage_location")),
    Guard("too_young", Num(n, "creation_timestamp") >= 90)>>

OldSnapshot(n) ==
  <<Guard("missing_attribute", Has(n, "creation_timestamp")),
    Guard("missing_attribute", Has(n, "storage_bytes")),
    Guard("too_young", Num(n, "creation_timestamp") >= 90)>>

UnusedReservedIp(n) ==
  <<Guard("missing_attribute", Named(n, "address_type")),
    Guard("missing_attribute", Named(n, "status")),
    Guard("internal_address", Str(n, "address_type") = "EXTERNAL"),
    Guard("in_use", Str(n, "status") # "IN_USE"),
    Guard("non_billing_status", Str(n, "status") = "RESERVED"),
    Guard("in_use", Num(n, "address_user_count") = 0)>>

\* normalizeStorageClass: the classes that are STANDARD, three of them by old names.
StandardClasses == {"STANDARD", "MULTI_REGIONAL", "REGIONAL", "DURABLE_REDUCED_AVAILABILITY"}

NoLifecyclePolicy(n) ==
  <<Guard("missing_attribute", Named(n, "bucket_name")),
    Guard("missing_attribute", Has(n, "lifecycle_rule_count")),
    Guard("missing_attribute", Named(n, "storage_class")),
    Guard("has_lifecycle", Num(n, "lifecycle_rule_count") = 0),
    Guard("not_standard_class", Str(n, "storage_class") \in StandardClasses),
    Guard("autoclass_enabled", ~Is(n, "autoclass_enabled")),
    Guard("retention_locked", ~Is(n, "retention_locked")),
    Guard("no_metric", MetricOK(n, 7, 20)),
    Guard("below_min_bytes", n.metric.value >= 10)>>

-----------------------------------------------------------------------------
(* The guards of Azure *)

UnderutilizedVm(n) ==
  <<Guard("missing_attribute", Has(n, "virtual_machine_scale_set_id")),
    Guard("managed_by_vmss", Str(n, "virtual_machine_scale_set_id") = Blank)>>
  \o Shape(n, "vm_size")
  \o <<Guard("missing_attribute", Named(n, "power_state_code")),
       Guard("not_running", Str(n, "power_state_code") = "PowerState/running"),
       Guard("missing_attribute", Has(n, "priority")),
       Guard("spot", Str(n, "priority") # "Spot"),
       Guard("missing_attribute", Named(n, "os_type"))>>
  \o OldEnough(n, "time_created", 7) \o Overprovisioned(n)

UnattachedManagedDisk(n) ==
  <<Guard("missing_attribute", Positive(n, "disk_size_gb")),
    Guard("missing_attribute", Named(n, "sku_name")),
    Guard("missing_attribute", Named(n, "disk_state")),
    Guard("missing_attribute", Has(n, "time_created")),
    Guard("in_use", Str(n, "disk_state") # "Attached" /\ Str(n, "managed_by") = Blank),
    Guard("non_billing_status", Str(n, "disk_state") = "Unattached"),
    Guard("recently_detached", Num(n, "time_created") >= 7)>>

UnassociatedPublicIp(n) ==
  <<Guard("missing_attribute", Named(n, "sku_name")),
    Guard("missing_attribute", Named(n, "public_ip_allocation_method")),
    Guard("non_billing_status", Str(n, "sku_name") = "Standard"),
    Guard("missing_attribute", Has(n, "ip_configuration_count")),
    Guard("in_use", Num(n, "ip_configuration_count") = 0)>>

UnusedGalleryImageVersion(n) ==
  <<Guard("not_target_asset_type", n.asset = "azure_gallery_image_version"),
    Guard("missing_attribute", Positive(n, "size_bytes")),
    Guard("missing_attribute", Has(n, "creation_timestamp")),
    Guard("non_billing_status", Str(n, "provisioning_state") = "Succeeded"),
    Guard("missing_attribute", Has(n, "replica_regions") /\ n.attrs["replica_regions"] # <<>>)>>
  \o Unreferenced(n)
  \o <<Guard("too_young", Num(n, "creation_timestamp") >= 90)>>

-----------------------------------------------------------------------------
(* What a finding costs.  A leg of the cost is a sum of terms, or the first of  *)
(* several sums that can be had.  A leg that must be answered leaves the node   *)
(* unpriced when it is not; one that may be is worth nothing then; and of the   *)
(* candidates for a smaller machine the first that is answered is what is left  *)
(* to pay.                                                                      *)

Term(kind, sku, region, quantity) ==
  [kind |-> kind, sku |-> sku, region |-> region, quantity |-> quantity]
Leg(role, ways) == [role |-> role, ways |-> ways]
One(role, kind, sku, region, quantity) == Leg(role, <<<<Term(kind, sku, region, quantity)>>>>)
Must(kind, sku, region, quantity) == <<One("must", kind, sku, region, quantity)>>
Unpriceable == <<Leg("must", <<>>)>>

\* A GCE machine is priced by its type, or else by its family's CPUs and memory, and
\* without its region.
GceWays(type, family, vcpu, mem) ==
  <<<<Term("vm_instance", type, "default", HoursPerMonth)>>,
    <<Term("vm_custom_cpu", family, "default", vcpu * HoursPerMonth),
      Term("vm_custom_ram", family, "default", mem * HoursPerMonth)>>>>

\* The operating system an EC2 platform is priced as.  The code folds the case of the
\* platform, so here its names are in lower case.
awsOSForPlatform(platform) ==
  CASE platform \in {Blank, "linux/unix"} -> "Linux"
    [] platform = "windows" -> "Windows"
    [] platform = "rhel" -> "RHEL"
    [] platform = "suse" -> "SUSE"
    [] OTHER -> platform

\* What a machine of a type costs, per provider.
MachineWays(n, provider, type, vcpu, mem) ==
  CASE provider = "gcp" -> GceWays(type, Str(n, "machine_family"), vcpu, mem)
    [] provider = "aws" -> <<<<Term("instance", <<type, awsOSForPlatform(Str(n, "platform"))>>,
                                    RegionOf(n), HoursPerMonth)>>>>
    [] provider = "azure" -> <<<<Term("vm", <<type, Str(n, "os_type")>>, RegionOf(n), HoursPerMonth)>>>>

\* findCandidate: the smaller sizes that keep the load at or below 60 percent.
Candidates(n) ==
  LET ladder == IF Str(n, "machine_family") \in DOMAIN Ladders THEN Ladders[Str(n, "machine_family")] ELSE <<>>
  IN SelectSeq(ladder, LAMBDA c : /\ c.vcpu >= 1 /\ c.mem >= 1
                                  /\ c.vcpu < Num(n, "vcpu_count")
                                  /\ n.metric.value * Num(n, "vcpu_count") <= 60 * c.vcpu)

MachineLegs(n, provider, type) ==
  LET candidates == Candidates(n)
  IN <<Leg("must", MachineWays(n, provider, type, Num(n, "vcpu_count"), Num(n, "memory_gib")))>>
     \o [i \in DOMAIN candidates |->
           Leg("instead", MachineWays(n, provider, candidates[i].name,
                                      candidates[i].vcpu, candidates[i].mem))]

\* What is provisioned above the included allowance.
billableAbove(provisioned, included) == Max({0, provisioned - included})
includedIOPS(sku) == IF sku = "gp3" THEN 3000 ELSE 0
includedThroughputMBps(sku) == IF sku = "gp3" THEN 125 ELSE 0

\* Capacity, and what is provisioned on top of it.
DiskLegs(sku, region, size, iops, throughput) ==
  <<One("must", "disk_capacity", sku, region, size),
    One("may", "disk_iops", sku, region, iops),
    One("may", "disk_throughput", sku, region, throughput)>>

\* Slip: what is included is billed too.
EbsLegsInFull(n) ==
  DiskLegs(Str(n, "volume_type"), RegionOf(n), Num(n, "size_gb"), Num(n, "iops"), Num(n, "throughput"))

EbsLegs(n) ==
  LET sku == Str(n, "volume_type")
  IN DiskLegs(sku, RegionOf(n), Num(n, "size_gb"),
              billableAbove(Num(n, "iops"), includedIOPS(sku)),
              billableAbove(Num(n, "throughput"), includedThroughputMBps(sku)))

\* diskSKU: a disk replicated in two zones is another SKU.
PersistentDiskLegs(n) ==
  DiskLegs(<<Str(n, "disk_type"), Num(n, "replica_zone_count") >= 2>>, RegionOf(n), Num(n, "size_gb"),
           Num(n, "provisioned_iops"), Num(n, "provisioned_throughput_mbps"))

\* What is stored, by its size; of an AMI only what no other image needs.
StorageLegs(n, kind, size) == Must(kind, "standard", RegionOf(n), size)
AmiLegs(n) == StorageLegs(n, "snapshot_storage", Num(n, "backing_exclusive_size_gb"))
AmiSnapshotLegs(n) == StorageLegs(n, "snapshot_storage", Num(n, "volume_size_gb"))
SnapshotLegs(n) == StorageLegs(n, "snapshot_storage", Num(n, "storage_bytes"))
CustomImageLegs(n) == StorageLegs(n, "image_storage", ImageSize(n))
MachineImageLegs(n) == StorageLegs(n, "machine_image_storage", Num(n, "storage_bytes"))

\* size_basis: what an amount was made from, as the finding says.  The size of a source
\* volume or disk is above what is stored and billed.
SizeBasis(rule, n) ==
  CASE rule \in {"unused_ami", "orphaned_ami_snapshot"} -> "source_volume_size"
    [] rule = "unused_custom_image" ->
         IF Has(n, "storage_bytes") THEN "archive_size_bytes" ELSE "source_disk_size"
    [] rule = "old_machine_image" -> "total_storage_bytes"
    [] OTHER -> Blank

\* An address that nobody uses, by the hour.
AddressLegs(n, sku) == Must("static_ip", sku, RegionOf(n), HoursPerMonth)
EipLegs(n) == AddressLegs(n, "AdditionalAddress")
ReservedIpLegs(n) == AddressLegs(n, "unattached")
PublicIpLegs(n) == AddressLegs(n, "Standard")

\* Of a terabyte, 60 percent becomes cold: both classes must be priced.
BucketLegs(n) ==
  <<One("must", "gcs_storage", "STANDARD", RegionOf(n), 60 * n.metric.value),
    One("must", "gcs_storage", "NEARLINE", RegionOf(n), -60 * n.metric.value)>>

ManagedDiskLegs(n) ==
  LET tiers == ManagedDiskTierSKU(Str(n, "sku_name"), Num(n, "disk_size_gb"))
  IN IF tiers = {} THEN Unpriceable
     ELSE Must("managed_disk", CHOOSE t \in tiers : TRUE, RegionOf(n), 1)

\* A copy in every region of the list; one that is incomplete leaves all unpriced.
GalleryLegs(n) ==
  LET replicas == n.attrs["replica_regions"]
  IN [i \in DOMAIN replicas |->
       IF replicas[i].region = Blank \/ replicas[i].sku = Blank \/ replicas[i].count <= 0
       THEN Leg("must", <<>>)
       ELSE One("must", "gallery_image_storage", replicas[i].sku, replicas[i].region,
                Num(n, "size_bytes") * replicas[i].count)]

-----------------------------------------------------------------------------
(* The rules: the kind of node they look at, the ladder, the legs and the least *)
(* waste that is reported.                                                      *)

Rules ==
  [underutilized_ec2 |-> [provider |-> "aws", kind |-> "instance", floor |-> 1000],
   unattached_ebs_volume |-> [provider |-> "aws", kind |-> "disk", floor |-> 100],
   unused_ami |-> [provider |-> "aws", kind |-> "image", floor |-> 100],
   orphaned_ami_snapshot |-> [provider |-> "aws", kind |-> "snapshot", floor |-> 100],
   unassociated_eip |-> [provider |-> "aws", kind |-> "address", floor |-> 100],
   underutilized_instance |-> [provider |-> "gcp", kind |-> "instance", floor |-> 1000],
   detached_disk |-> [provider |-> "gcp", kind |-> "disk", floor |-> 100],
   unused_custom_image |-> [provider |-> "gcp", kind |-> "image", floor |-> 100],
   old_machine_image |-> [provider |-> "gcp", kind |-> "image", floor |-> 100],
   old_snapshot |-> [provider |-> "gcp", kind |-> "snapshot", floor |-> 100],
   unused_reserved_ip |-> [provider |-> "gcp", kind |-> "address", floor |-> 100],
   no_lifecycle_policy |-> [provider |-> "gcp", kind |-> "bucket", floor |-> 0],
   underutilized_vm |-> [provider |-> "azure", kind |-> "instance", floor |-> 1000],
   unattached_managed_disk |-> [provider |-> "azure", kind |-> "disk", floor |-> 100],
   unassociated_public_ip |-> [provider |-> "azure", kind |-> "address", floor |-> 100],
   unused_gallery_image_version |-> [provider |-> "azure", kind |-> "image", floor |-> 100]]

Guards(rule, n) ==
  CASE rule = "underutilized_ec2" -> UnderutilizedEc2(n)
    [] rule = "unattached_ebs_volume" -> UnattachedEbsVolume(n)
    [] rule = "unused_ami" -> UnusedAmi(n)
    [] rule = "orphaned_ami_snapshot" -> OrphanedAmiSnapshot(n)
    [] rule = "unassociated_eip" -> UnassociatedEip(n)
    [] rule = "underutilized_instance" -> UnderutilizedInstance(n)
    [] rule = "detached_disk" -> DetachedDisk(n)
    [] rule = "unused_custom_image" -> UnusedCustomImage(n)
    [] rule = "old_machine_image" -> OldMachineImage(n)
    [] rule = "old_snapshot" -> OldSnapshot(n)
    [] rule = "unused_reserved_ip" -> UnusedReservedIp(n)
    [] rule = "no_lifecycle_policy" -> NoLifecyclePolicy(n)
    [] rule = "underutilized_vm" -> UnderutilizedVm(n)
    [] rule = "unattached_managed_disk" -> UnattachedManagedDisk(n)
    [] rule = "unassociated_public_ip" -> UnassociatedPublicIp(n)
    [] rule = "unused_gallery_image_version" -> UnusedGalleryImageVersion(n)

Legs(rule, n) ==
  CASE rule = "underutilized_ec2" -> MachineLegs(n, "aws", Str(n, "instance_type"))
    [] rule = "underutilized_instance" -> MachineLegs(n, "gcp", Str(n, "machine_type"))
    [] rule = "underutilized_vm" -> MachineLegs(n, "azure", Str(n, "vm_size"))
    [] rule = "unattached_ebs_volume" -> EbsLegs(n)
    [] rule = "detached_disk" -> PersistentDiskLegs(n)
    [] rule = "unused_ami" -> AmiLegs(n)
    [] rule = "orphaned_ami_snapshot" -> AmiSnapshotLegs(n)
    [] rule = "old_snapshot" -> SnapshotLegs(n)
    [] rule = "unused_custom_image" -> CustomImageLegs(n)
    [] rule = "old_machine_image" -> MachineImageLegs(n)
    [] rule = "unassociated_eip" -> EipLegs(n)
    [] rule = "unused_reserved_ip" -> ReservedIpLegs(n)
    [] rule = "unassociated_public_ip" -> PublicIpLegs(n)
    [] rule = "no_lifecycle_policy" -> BucketLegs(n)
    [] rule = "unattached_managed_disk" -> ManagedDiskLegs(n)
    [] rule = "unused_gallery_image_version" -> GalleryLegs(n)

\* The rules a scan of a provider plans for a kind of node.
Planned(provider, kind) == {r \in DOMAIN Rules : Rules[r].provider = provider /\ Rules[r].kind = kind}
=============================================================================
