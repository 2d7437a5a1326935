------------------------------- MODULE MCScan -------------------------------
(* Two owners; a wasteful resource judged by its topology in one of them, a  *)
(* machine judged by a metric, which a smaller size could carry, in the      *)
(* other.  A disk is judged from the first instant on, a machine later.      *)
EXTENDS Scan

MCResource == {"disk", "vm"}
MCOwnerOf == [r \in MCResource |-> IF r = "disk" THEN "prod" ELSE "dev"]
MCOldFrom == [r \in MCResource |-> IF r = "disk" THEN 0 ELSE 1]

Remove(r) == [of |-> r, action |-> "remove"]
Resize(r) == [of |-> r, action |-> "resize"]
MCWasteful == {Remove("disk"), Remove("vm"), Resize("vm")}

MCProcess == {1, 2}
Organization ==
  [cache |-> TRUE, wide |-> TRUE, failOn |-> TRUE, narrow |-> FALSE, embedded |-> FALSE,
   rules |-> MCResource, priced |-> MCResource, at |-> 1, keeps |-> MCWasteful]
SingleScope == [Organization EXCEPT !.wide = FALSE, !.failOn = FALSE]
Filtered == [SingleScope EXCEPT !.keeps = {Remove("disk"), Remove("vm")}]
Embedded1 == [SingleScope EXCEPT !.embedded = TRUE, !.failOn = TRUE]
Embedded0 == [SingleScope EXCEPT !.embedded = TRUE, !.at = 0]
Narrowed == [SingleScope EXCEPT !.narrow = TRUE, !.failOn = TRUE]
DiskRules == [SingleScope EXCEPT !.rules = {"disk"}]

\* Two scans share a cache file.  An organization, and what somebody filters for
\* the large amounts; two scans of sizes known from the binary, at different instants; one
\* narrowed to the regions Resource Explorer names and one of fewer rules.
MCFlags == {<<Organization, Filtered>>, <<Embedded1, Embedded0>>, <<Narrowed, DiskRules>>}
=============================================================================
