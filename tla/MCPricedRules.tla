---------------------------- MODULE MCPricedRules ---------------------------
(* Of each provider a scan with a node for every rule, priced from the vendor *)
(* with every failure, from a recording, and from nowhere; and, from a        *)
(* recording, the same nodes with one attribute missing from their payload.   *)
(* The nodes of Azure are made from rows, and it is the row that lacks it.    *)
EXTENDS PricedRules, AzureNormalize

None == [samples |-> 0, coverage |-> 0, value |-> 0]
Cpu(p95) == [samples |-> 168, coverage |-> 90, value |-> p95]

\* A node that is billed, and of which its rule should find the saving: no more than the
\* bill, or for a source's size a bound above it.
N(id, kind, asset, location, attrs, bill, saving) ==
  [id |-> id, kind |-> kind, asset |-> asset, location |-> location, grouped |-> FALSE, exempt |-> FALSE,
   attached |-> 0, metric |-> None, attrs |-> attrs, lost |-> <<>>, bill |-> bill,
   full |-> bill, saving |-> saving]
\* A node of which less is stored than its size, and billed.
Compressed(n, bill) == [n EXCEPT !.bill = bill]
Measured(n, metric) == [n EXCEPT !.metric = metric]

MCLadders ==
  [m5 |-> <<[name |-> "m5.nano", vcpu |-> 0, mem |-> 1], [name |-> "m5.medium", vcpu |-> 1, mem |-> 4],
            [name |-> "m5.large", vcpu |-> 2, mem |-> 8], [name |-> "m5.xlarge", vcpu |-> 4, mem |-> 16]>>,
   dsv5 |-> <<[name |-> "D2s_v5", vcpu |-> 2, mem |-> 8], [name |-> "D4s_v5", vcpu |-> 4, mem |-> 16]>>]

MCPrefixOf == ("us-east1" :> "us") @@ ("europe-west1" :> "europe")

-----------------------------------------------------------------------------
(* AWS *)

Doc(family, api, usage, unit, region, price) ==
  [service |-> IF family = "" THEN "AmazonVPC" ELSE "AmazonEC2", family |-> family, volumeApiName |-> api,
   group |-> "EBS IOPS", usagetype |-> usage, unit |-> unit, region |-> region, price |-> price]

AwsListed ==
  [AmazonEC2 |-> <<Doc("Storage", "gp3", "", "GB-Mo", "r1", 80),
                   Doc("System Operation", "gp3", "", "IOPS-Mo", "r1", 5),
                   Doc("Provisioned Throughput", "gp3", "", "GiBps-mo", "r1", 40960),
                   Doc("Storage Snapshot", "", "EBS:SnapshotArchive", "GB-Mo", "r1", 12),
                   Doc("Storage Snapshot", "", "EBS:SnapshotUsage", "GB-Mo", "r1", 50)>>,
   AmazonVPC |-> <<Doc("", "", "PublicIPv4:IdleAddress", "Hrs", "r1", 7),
                   Doc("", "", "PublicIPv4:InUseAddress", "Hrs", "r1", 5)>>]

Type(name, os, tenancy, price) ==
  [service |-> "AmazonEC2", family |-> "Compute Instance", instanceType |-> name, operatingSystem |-> os,
   region |-> "r1", tenancy |-> tenancy, capacitystatus |-> "Used", preInstalledSw |-> "NA",
   licenseModel |-> "No License required", unit |-> "Hrs", price |-> price]
AwsTypes == {Type("m5.xlarge", "Linux", "Shared", 192), Type("m5.xlarge", "Linux", "Dedicated", 204),
             Type("m5.large", "Linux", "Shared", 96), Type("m5.xlarge", "Windows", "Shared", 376)}

Volume(id, size, iops, throughput, users, bill) ==
  N(id, "disk", "aws_volume", "r1",
    [size_gb |-> size, volume_type |-> "gp3", state |-> IF users = 0 THEN "available" ELSE "in-use",
     create_time |-> 30, attachment_count |-> users, iops |-> iops, throughput |-> throughput],
    bill, IF users = 0 THEN bill ELSE 0)
Image(id, complete, references) ==
  Compressed(N(id, "image", "aws_image", "r1",
    [image_id |-> id, creation_timestamp |-> 100, state |-> "available", backing_complete |-> TRUE,
     references_complete |-> complete, reference_count |-> references, backing_exclusive_size_gb |-> 10],
    500, IF complete /\ references = 0 THEN 500 ELSE 0), 200)
AmiSnapshot(id, references) ==
  Compressed(N(id, "snapshot", "aws_snapshot", "r1",
    [snapshot_id |-> id, volume_size_gb |-> 8, creation_timestamp |-> 100, state |-> "completed",
     ami_created |-> TRUE, ami_reference_complete |-> TRUE, referenced_by_ami_count |-> references],
    400, IF references = 0 THEN 400 ELSE 0), 150)
Eip(id, state) ==
  N(id, "address", "aws_address", "r1", [domain |-> "vpc", association_state |-> state],
    3650, IF state = "unassociated" THEN 3650 ELSE 0)
Ec2(id, p95, saving) ==
  Measured(N(id, "instance", "aws_instance", "r1",
    [state |-> "running", instance_type |-> "m5.xlarge", vcpu_count |-> 4, memory_gib |-> 16,
     machine_family |-> "m5", launch_time |-> 30, lifecycle |-> "", platform |-> ""],
    192 * 730, saving), Cpu(p95))

\* Of two unattached volumes one is too cheap to be reported.
AwsNodes == <<Volume("v1", 100, 4000, 225, 0, 17000), Volume("v2", 10, 0, 0, 1, 800),
              [Volume("v3", 1, 0, 0, 0, 80) EXCEPT !.saving = 0], Image("i1", TRUE, 0),
              Image("i2", FALSE, 0), AmiSnapshot("s1", 0), AmiSnapshot("s2", 1),
              Eip("e1", "unassociated"), Ec2("m1", 20, 96 * 730)>>
AwsRules == <<"orphaned_ami_snapshot", "unassociated_eip", "unattached_ebs_volume",
              "underutilized_ec2", "unused_ami">>

-----------------------------------------------------------------------------
(* GCP *)

Sku(family, group, usage, words, regions, price) ==
  [family |-> family, group |-> group, usage |-> usage,
   machine |-> IF "custom" \in words THEN "n1-custom" ELSE "n1-standard", words |-> words,
   regions |-> regions, price |-> price]

\* No price of an image in "us", and the early deletion of one dearer than its storage.
GcpListed ==
  ("Compute Engine" :>
     <<Sku("Storage", "pdsnapshot", "OnDemand", {}, {"us", "us-east1"}, 26),
       Sku("Storage", "storageimage", "OnDemand", {}, {"us-east1"}, 50),
       Sku("Storage", "machineimage", "OnDemand", {}, {"us"}, 55),
       Sku("Storage", "machineimage", "OnDemand", {"early deletion"}, {"us"}, 90),
       Sku("Compute", "pdssd", "OnDemand", {}, {"us-east1"}, 170),
       Sku("Compute", "pdssd", "OnDemand", {"regional"}, {"us-east1"}, 340),
       Sku("Compute", "cpu", "Preemptible", {"custom"}, {}, 10),
       Sku("Compute", "cpu", "OnDemand", {"custom"}, {}, 30),
       Sku("Compute", "ram", "OnDemand", {"custom"}, {}, 4),
       Sku("Compute", "n1standard", "OnDemand", {}, {"us-east1"}, 32),
       [Sku("Compute", "cpu", "OnDemand", {"custom"}, {"us-east1"}, 33) EXCEPT !.machine = "n2-custom"],
       [Sku("Compute", "ram", "OnDemand", {"custom"}, {"us-east1"}, 4) EXCEPT !.machine = "n2-custom"],
       Sku("Network", "iprange", "OnDemand", {}, {"global"}, 9),
       Sku("Compute", "staticipaddress", "OnDemand", {}, {"global"}, 10)>>)
  @@ ("Cloud Storage" :> <<Sku("Storage", "", "", {"standard"}, {"us"}, 20),
                           Sku("Storage", "", "", {"nearline"}, {"us"}, 10)>>)

Disk(id, zones, users, bill) ==
  N(id, "disk", "gcp_disk", "us-east1",
    [size_gb |-> 10, disk_type |-> "pd-ssd", status |-> "READY", creation_timestamp |-> 30,
     user_count |-> users, replica_zone_count |-> zones],
    bill, IF users = 0 THEN bill ELSE 0)
GcpImage(id, asset, location, bytes, complete, bill) ==
  N(id, "image", asset, location,
    [storage_bytes |-> bytes, creation_timestamp |-> 100, status |-> "READY", storage_location |-> location,
     references_complete |-> complete, reference_count |-> 0],
    bill, IF complete THEN bill ELSE 0)
Gce(id, type, family, saving) ==
  Measured(N(id, "instance", "gcp_instance", "us-east1",
    [machine_type |-> type, vcpu_count |-> 4, memory_gib |-> 8, machine_family |-> family,
     status |-> "RUNNING", provisioning_model |-> "STANDARD", accelerator_count |-> 0,
     creation_timestamp |-> 30], 152 * 730, saving), Cpu(20))
Bucket(id, class) ==
  Measured(N(id, "bucket", "gcp_bucket", "us",
    [bucket_name |-> id, lifecycle_rule_count |-> 0, storage_class |-> class,
     autoclass_enabled |-> FALSE, retention_locked |-> FALSE], 100 * 20 * 20, 60 * 20 * 10),
    [samples |-> 7, coverage |-> 20, value |-> 20])

\* Of the images one has only the size of its source disk; of the machines one is
\* predefined and one of a family that is listed by region.
GcpNodes ==
  <<Disk("d1", 2, 0, 3400), Disk("d2", 1, 1, 1700), GcpImage("i1", "gcp_image", "us", 10, TRUE, 550),
    GcpImage("i2", "gcp_image", "us-east1", 10, FALSE, 500),
    GcpImage("x1", "gcp_machine_image", "us", 10, TRUE, 550),
    N("s1", "snapshot", "gcp_snapshot", "us", [creation_timestamp |-> 100, storage_bytes |-> 10], 260, 260),
    N("a1", "address", "gcp_address", "", [address_type |-> "EXTERNAL", status |-> "RESERVED",
                                           address_user_count |-> 0], 7300, 7300),
    Compressed(N("i3", "image", "gcp_image", "us",
      [source_disk_size_gb |-> 10, creation_timestamp |-> 100, status |-> "READY", storage_location |-> "us",
       references_complete |-> TRUE, reference_count |-> 0], 550, 550), 200),
    Bucket("b1", "STANDARD"), Bucket("b2", "REGIONAL"),
    Gce("m1", "custom-4-8", "n1-custom", 152 * 730), Gce("m2", "n1-standard-4", "n1-standard", 150 * 730)>>
GcpRegional == Gce("m3", "n2-custom-4-8", "n2-custom", 152 * 730)
GcpRules == <<"detached_disk", "no_lifecycle_policy", "old_machine_image", "old_snapshot", "underutilized_instance",
              "unused_custom_image", "unused_reserved_ip">>

-----------------------------------------------------------------------------
(* Azure *)

Row(service, product, sku, meter, unit, price) ==
  [serviceName |-> service, productName |-> product, skuName |-> sku, meterName |-> meter,
   armRegionName |-> "eastus", armSkuName |-> "", type |-> "Consumption", tierMinimumUnits |-> 0,
   isPrimaryMeterRegion |-> TRUE, unitOfMeasure |-> unit, price |-> price, marks |-> {}]
VmRow(size, name, marks, price) ==
  [Row("Virtual Machines", "Virtual Machines Series", <<name>>, "", "1 Hour", price) EXCEPT
     !.armSkuName = size, !.marks = marks]

AzureRows ==
  {Row("Storage", "Premium SSD", <<"P", "LRS", 10>>, "Disk", "1/Month", 19710),
   [Row("Storage", "Premium SSD", <<"P", "LRS", 10>>, "Disk", "1/Month", 17000) EXCEPT !.tierMinimumUnits = 1],
   Row("Storage", "Premium SSD", <<"P", "LRS", 20>>, "Disk", "1/Month", 73000),
   Row("Storage", "Premium SSD", <<"P", "LRS", 20>>, "Disk", "1/Month", 74000),
   Row("Virtual Network", "IP Addresses", <<"Standard">>, "Standard IPv4 Static Public IP", "1 Hour", 5),
   Row("Storage", "Standard HDD", <<"Snapshots", "LRS">>, "Snapshots", "1 GiB/Month", 50),
   VmRow("D4s_v5", "D4s v5", {}, 192), VmRow("D4s_v5", "D4s v5", {"windows"}, 376),
   VmRow("D4s_v5", "D4s v5 Spot", {"spot"}, 30), VmRow("D2s_v5", "D2s v5", {}, 96)}

MCSpelling == ("" :> "") @@ ("East US" :> "eastus") @@ ("eastus" :> "eastus")

\* A row, what is hydrated onto its node, and what it is worth.
Thing(id, type, fields, more, bill, saving) ==
  [row |-> [id |-> id, type |-> type, subscription |-> 1, owner |-> 1, location |-> "East US", fields |-> fields],
   more |-> more, bill |-> bill, saving |-> saving]

FromRow(row, more, metric, bill, saving) ==
  LET n == CHOOSE n \in NormalizeResource(row) : TRUE
  IN Measured(N(n.id, n.kind, n.asset, n.location, n.attrs @@ more, bill, saving), metric)

ManagedDisk(id, size, manager, bill, saving) ==
  Thing(id, "disk",
    [diskSizeGB |-> size, sku |-> "Premium_LRS", managedBy |-> manager,
     diskState |-> IF manager = "" THEN "Unattached" ELSE "Attached", timeCreated |-> 30], <<>>, bill, saving)
Version(id, complete, targets, saving) ==
  Thing(id, "galleryImageVersion",
    [osDisk |-> 8, dataDisks |-> <<2, 0>>, publishedDate |-> 100, provisioningState |-> "Succeeded",
     targetRegions |-> targets],
    [references_complete |-> complete, reference_count |-> 0], 1000, saving)
Target(region, sku, count) == [name |-> region, sku |-> sku, count |-> count]

AzureThings ==
  <<ManagedDisk("d1", 128, "", 19710, 19710), ManagedDisk("d2", 512, "", 73000, 0),
    ManagedDisk("d3", 100, "", 19710, 0), ManagedDisk("d4", 128, "vm", 19710, 0),
    Thing("p1", "publicIP", [sku |-> "Standard", publicIPAllocationMethod |-> "Static"], <<>>, 3650, 3650),
    Version("g1", TRUE, <<Target("East US", "", 0), Target("eastus", "Standard_LRS", 1), Target("", "", 1)>>, 1000),
    Version("g2", FALSE, <<Target("eastus", "", 2)>>, 0),
    Thing("m1", "vm",
      [vmSize |-> "D4s_v5", powerState |-> "PowerState/running", osType |-> "linux", timeCreated |-> 30],
      [vcpu_count |-> 4, memory_gib |-> 16, machine_family |-> "dsv5"], 192 * 730, 96 * 730)>>

MetricOf(t) == IF t.row.type = "vm" THEN Cpu(20) ELSE None
AzureNodes ==
  [i \in DOMAIN AzureThings |->
     LET t == AzureThings[i] IN FromRow(t.row, t.more, MetricOf(t), t.bill, t.saving)]
AzureRules == <<"unassociated_public_ip", "unattached_managed_disk", "underutilized_vm",
                "unused_gallery_image_version">>

-----------------------------------------------------------------------------
(* The scenes *)

Scene(provider, source, rules, nodes) ==
  [provider |-> provider, source |-> source, rules |-> rules, nodes |-> nodes, flag |-> "", billing |-> <<>>,
   listed |-> CASE provider = "aws" -> AwsListed [] provider = "gcp" -> GcpListed [] OTHER -> <<>>,
   types |-> AwsTypes, rows |-> AzureRows,
   machines |-> CASE provider = "aws" ->
                       {Entry("instance", <<t.instanceType, t.operatingSystem>>, t.region, t.price) :
                        t \in {t \in AwsTypes : t.tenancy = "Shared"}}
                  [] provider = "gcp" -> {Entry("vm_instance", "n1-standard-4", "default", 150)}
                  [] OTHER -> {}]

Aws(source) == Scene("aws", source, AwsRules, AwsNodes)
Gcp(source) == Scene("gcp", source, GcpRules, GcpNodes)
Azure(source) == Scene("azure", source, AzureRules, AzureNodes)

\* A recording whose prices are not the vendor's: what is saved depends on whether the
\* recording has been read.
TwoLists ==
  [Aws("fixture") EXCEPT !.machines = {Entry("instance", <<"m5.xlarge", "Linux">>, "r1", 150),
                                       Entry("instance", <<"m5.large", "Linux">>, "r1", 60)},
                         !.nodes = <<Eip("e1", "unassociated"), Ec2("m1", 20, 0)>>]

AwsRecorded == Aws("fixture")
GcpRecorded == Gcp("fixture")
AzureRecorded == Azure("fixture")

\* A payload without one of its attributes: the node is found for no less.
Without(n, a) ==
  [n EXCEPT !.attrs = <<>> @@ [b \in DOMAIN n.attrs \ {a} |-> n.attrs[b]], !.lost = a :> n.attrs[a],
            !.saving = 0]

\* The counts that are written whatever the payload says.
AlwaysWritten ==
  {"attachment_count", "user_count", "reference_count", "address_user_count", "accelerator_count"}

\* One rule for each service is enough where the currency is in question.
Foreign ==
  [Gcp("live") EXCEPT !.rules = <<"no_lifecycle_policy", "old_snapshot">>,
                      !.nodes = SelectSeq(@, LAMBDA n : n.kind \in {"bucket", "snapshot"})]

Whole ==
  (<<"aws", "live", "">> :> Aws("live")) @@ (<<"gcp", "live", "">> :> Gcp("live"))
  @@ (<<"azure", "live", "">> :> Azure("live"))
  @@ (<<"gcp", "live", "by region">> :> [Gcp("live") EXCEPT !.nodes = <<GcpRegional>>,
                                                         !.rules = <<"underutilized_instance">>])
  @@ (<<"aws", "fixture", "two lists">> :> TwoLists)
  @@ (<<"gcp", "live", "detected">> :> [Foreign EXCEPT !.billing = <<"", "EUR">>])
  @@ (<<"gcp", "live", "flag">> :> [Foreign EXCEPT !.flag = "EUR"])
  @@ (<<"aws", "live", "nothing">> :> [Aws("live") EXCEPT !.listed = [AmazonEC2 |-> <<>>, AmazonVPC |-> <<>>],
                                                      !.nodes = <<Eip("e1", "associated")>>])
  @@ [n \in {"aws", "gcp", "azure"} \X {"none", "broken", "fixture"} \X {""} |->
        CASE n[1] = "aws" -> Aws(n[2]) [] n[1] = "gcp" -> Gcp(n[2]) [] n[1] = "azure" -> Azure(n[2])]

Lossy(s) ==
  LET losses == {p \in (DOMAIN s.nodes) \X UNION {DOMAIN s.nodes[i].attrs : i \in DOMAIN s.nodes} :
                   p[2] \in DOMAIN s.nodes[p[1]].attrs \ AlwaysWritten}
  IN [name \in {<<s.provider, s.nodes[p[1]].id, p[2]>> : p \in losses} |->
        LET i == CHOOSE i \in DOMAIN s.nodes : s.nodes[i].id = name[2]
        IN [s EXCEPT !.nodes = <<Without(s.nodes[i], name[3])>>,
                     !.rules = SelectSeq(@, LAMBDA r : r \in Planned(s.provider, s.nodes[i].kind))]]

\* A row without one of its fields, of those whose absence does not say no.
Unsaid(row, field) == [row EXCEPT !.fields = <<>> @@ [f \in DOMAIN row.fields \ {field} |-> row.fields[f]]]
LossyRows ==
  LET losses == {p \in (DOMAIN AzureThings) \X UNION {DOMAIN AzureThings[i].row.fields : i \in DOMAIN AzureThings} :
                   p[2] \in DOMAIN AzureThings[p[1]].row.fields \ {"managedBy", "dataDisks"}}
  IN [name \in {<<"azure", AzureThings[p[1]].row.id, p[2]>> : p \in losses} |->
        LET i == CHOOSE i \in DOMAIN AzureThings : AzureThings[i].row.id = name[2]
            t == AzureThings[i]
            n == FromRow(Unsaid(t.row, name[3]), t.more, MetricOf(t), t.bill, 0)
        IN [AzureRecorded EXCEPT !.nodes = <<[n EXCEPT !.lost = AzureNodes[i].attrs]>>,
                                 !.rules = SelectSeq(@, LAMBDA r : r \in Planned("azure", n.kind))]]

\* Nor is what could not be hydrated assumed.
LossyShapes ==
  [name \in {<<"azure", "m1", a>> : a \in {"vcpu_count", "memory_gib", "machine_family"}} |->
     LET i == CHOOSE i \in DOMAIN AzureNodes : AzureNodes[i].id = name[2]
     IN [AzureRecorded EXCEPT !.nodes = <<Without(AzureNodes[i], name[3])>>, !.rules = <<"underutilized_vm">>]]

MCScenes == Whole @@ Lossy(AwsRecorded) @@ Lossy(GcpRecorded) @@ LossyRows @@ LossyShapes

Everyone == {"w1", "w2"}
=============================================================================
