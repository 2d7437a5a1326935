----------------------------- MODULE AwsPrices ------------------------------
(***************************************************************************)
(* How the AWS price list is read (pkg/pricing/aws/catalog.go).  A document *)
(* has the service and family it is listed under, the attributes of its     *)
(* product and one on-demand price with its unit.  A key is <<kind, sku,    *)
(* region>>, an entry a key with its price.                                 *)
(***************************************************************************)
EXTENDS Integers, Sequences

Entry(kind, sku, region, price) ==
  [key |-> <<kind, sku, region>>, price |-> price, region |-> region, substitute |-> FALSE]

awsVolumeTypes == {"gp2", "gp3", "io1", "io2", "st1", "sc1", "standard"}

\* The price of a unit of each measure of a volume.
kindForUnit(unit) ==
  CASE unit \in {"GB-Mo", "GB-month"} -> {"disk_capacity"}
    [] unit = "IOPS-Mo" -> {"disk_iops"}
    [] unit \in {"MBps-Mo", "GiBps-mo"} -> {"disk_throughput"}
    [] OTHER -> {}

\* Slip: the allowance of a gibibyte is taken for one of a mebibyte.
indexDocPerGiB(doc) ==
  IF doc.family = "Provisioned Throughput"
  THEN {Entry("disk_throughput", doc.volumeApiName, doc.region, doc.price)}
  ELSE {Entry(k, doc.volumeApiName, doc.region, doc.price) : k \in kindForUnit(doc.unit)}

\* The entries of a document; none for what no rule asks.
indexDoc(doc) ==
  CASE doc.region = "" -> {}
    [] doc.service = "AmazonVPC" /\ doc.family = "" ->
         IF doc.usagetype = "PublicIPv4:InUseAddress" /\ doc.unit = "Hrs"
         THEN {Entry("static_ip", "AdditionalAddress", doc.region, doc.price)} ELSE {}
    [] doc.family = "Storage" ->
         {Entry(k, doc.volumeApiName, doc.region, doc.price) :
            k \in IF doc.volumeApiName \in awsVolumeTypes THEN kindForUnit(doc.unit) ELSE {}}
    [] doc.family = "System Operation" ->
         IF doc.volumeApiName \in awsVolumeTypes /\ doc.group = "EBS IOPS" /\ doc.unit = "IOPS-Mo"
         THEN {Entry("disk_iops", doc.volumeApiName, doc.region, doc.price)} ELSE {}
    [] doc.family = "Provisioned Throughput" ->
         IF doc.volumeApiName \in awsVolumeTypes /\ doc.unit = "GiBps-mo"
         THEN {Entry("disk_throughput", doc.volumeApiName, doc.region, doc.price \div 1024)} ELSE {}
    [] doc.family = "Storage Snapshot" ->
         IF doc.usagetype = "EBS:SnapshotUsage" /\ doc.unit \in {"GB-Mo", "GB-month"}
         THEN {Entry("snapshot_storage", "standard", doc.region, doc.price)} ELSE {}
    [] OTHER -> {}

\* The regions a price is looked for in, in this order.
AwsRegions(region) == <<region, "default">>

\* The documents of an instance type: shared tenancy, used capacity, nothing
\* preinstalled, no license brought.
instanceFilters(doc, sku, region) ==
  /\ doc.service = "AmazonEC2" /\ doc.family = "Compute Instance"
  /\ doc.instanceType = sku[1] /\ doc.operatingSystem = sku[2] /\ doc.region = region
  /\ doc.tenancy = "Shared" /\ doc.capacitystatus = "Used"
  /\ doc.preInstalledSw = "NA" /\ doc.licenseModel = "No License required"
  /\ doc.unit = "Hrs"

instancePrices(types, sku, region) ==
  {doc.price : doc \in {doc \in types : instanceFilters(doc, sku, region)}}
=============================================================================
