---------------------------- MODULE MCGcpIngest -----------------------------
(* A folder-owned project with an instance, the disks it names or that name   *)
(* it, and a bucket whose owner is spelled as a number; a disk of an instance *)
(* that is out of scope; a project straight under the organization; one with  *)
(* nothing but an unmodelled asset.                                           *)
EXTENDS GcpIngest

Asset(name, type, location) ==
  [name |-> name, type |-> type, project |-> "alpha", owner |-> "alpha", folders |-> {"f1", "f2"},
   org |-> "o", location |-> location, disks |-> {}, users |-> {}, source |-> {}]

VM == [Asset("vm", "instance", "us-central1-a") EXCEPT !.disks = {"boot", "gone"}, !.source = {"net"}]
Boot == Asset("boot", "disk", "us-central1-a")
Data == [Asset("data", "disk", "us-central1-b") EXCEPT !.users = {"vm"}]
Foreign == [Asset("foreign", "disk", "us-central1") EXCEPT !.users = {"elsewhere"}, !.source = {"snap"}]
Spare == [Asset("spare", "disk", "us-central1-a") EXCEPT
            !.project = "", !.owner = "beta", !.folders = {}, !.source = {"boot", "lost"}]
Bucket == [Asset("bucket", "bucket", "US") EXCEPT !.owner = "3496"]
Nowhere == [Asset("nowhere", "bucket", "") EXCEPT !.folders = {}, !.project = "gamma", !.org = ""]
Unmodelled == [Asset("net", "network", "global") EXCEPT !.project = "delta", !.owner = "delta"]

MCInventories ==
  {{}, {VM, Boot, Data, Spare, Bucket, Unmodelled}, {VM, Foreign, Spare, Nowhere, Unmodelled}}

MCModelled == {"instance", "disk", "bucket"}

MCCanonical ==
  [l \in {"", "us-central1-a", "us-central1-b", "us-central1", "US", "us", "global"} |->
     CASE l \in {"us-central1-a", "us-central1-b"} -> "us-central1"
       [] l = "US" -> "us"
       [] OTHER -> l]
=============================================================================
