--------------------------- MODULE ImageReferences --------------------------
(***************************************************************************)
(* Who uses an image: the inventories behind unused_ami,                   *)
(* unused_custom_image, unused_gallery_image_version and                   *)
(* orphaned_ami_snapshot, and what the rules conclude from them.  An owner *)
(* is an account in a region, a project or a subscription; each is         *)
(* inventoried by itself.                                                  *)
(*                                                                         *)
(* A user [owner, by, names] is whatever names an image, as by says: an    *)
(* instance, a template, a fleet, a scale set.  It names the image itself, *)
(* or the family or definition it is a member of, or something unreadable. *)
(* Of the snapshots of an image some are those of two of its block devices *)
(* (twice).                                                                *)
(***************************************************************************)
EXTENDS Naturals, FiniteSets, Sequences

CONSTANT Worlds  \* records [provider, owners, images, users, snapshots]

None == "none"
Malformed == <<"malformed">>

\* The sources of references on AWS beside the instances, in the order they are read.
Sources == <<"launch_template", "launch_configuration", "ec2_fleet", "spot_fleet">>
SourceSet == {Sources[k] : k \in DOMAIN Sources}

\* Everything belongs to an owner, and a user on AWS is of a kind EC2 has.  Snapshots
\* are keyed by their id, and a self-owned image is backed by self-owned snapshots: the
\* counts of hydrateImages rest on both.
ASSUME WorldAssumption ==
  \A w \in Worlds :
    /\ w.provider \in {"aws", "gcp", "azure"}
    /\ None \notin w.owners
    /\ IsFiniteSet(w.images)
    /\ \A x \in w.images \cup w.users \cup w.snapshots : x.owner \in w.owners
    /\ w.provider = "aws" => \A u \in w.users : u.by \in {"instance"} \cup SourceSet
    /\ \A s, t \in w.snapshots : s.id = t.id => s = t
    /\ \A i \in w.images, s \in w.snapshots : s.id \in i.snapshots => s.owner = i.owner

VARIABLES
  world,
  wanted,   \* the asset types the selected rules ask for: "image", "snapshot"
  left,     \* the owners not yet inventoried
  owner,    \* the one whose inventory is being taken, or none
  step,     \* "idle", or the call that comes next
  inv,      \* the imageInventory
  seen,     \* the users that came in an answer
  nodes,    \* the image nodes
  orphans   \* the snapshot nodes

vars == <<world, wanted, left, owner, step, inv, seen, nodes, orphans>>

Inventory ==
  [images : SUBSET world.images, snapshots : SUBSET world.snapshots, snapshotsComplete : BOOLEAN,
   complete : BOOLEAN, references : SUBSET world.users]

EmptyInventory ==
  [images |-> {}, snapshots |-> {}, snapshotsComplete |-> TRUE, complete |-> TRUE, references |-> {}]

ImagesOf(o) == {i \in world.images : i.owner = o}
UsersOf(o) == {u \in world.users : u.owner = o}
SnapshotsOf(o) == {s \in world.snapshots : s.owner = o}

Names(u, i) == u.names \in {<<"image", i.id>>, <<"group", i.owner, i.group>>}
ReferencesTo(i, users) == {u \in users : Names(u, i)}

Init ==
  /\ world \in Worlds
  /\ wanted \in (SUBSET {"image", "snapshot"}) \ {{}}
  /\ left = world.owners /\ owner = None /\ step = "idle"
  /\ inv = EmptyInventory
  /\ seen = {} /\ nodes = {} /\ orphans = {}

-----------------------------------------------------------------------------
(* AWS: hydrateImages *)

Begin(o) ==
  /\ world.provider = "aws" /\ step = "idle" /\ o \in left
  /\ left' = left \ {o}
  /\ owner' = o
  /\ step' = "images"
  /\ inv' = EmptyInventory
  /\ UNCHANGED <<world, wanted, seen, nodes, orphans>>

ListImages ==
  /\ step = "images"
  /\ inv' = [inv EXCEPT !.images = ImagesOf(owner)]
  /\ step' = "snapshots"
  /\ UNCHANGED <<world, wanted, left, owner, seen, nodes, orphans>>

\* The images are what all the rest is about: without them the account fails.
ListImagesFails ==
  /\ step = "images"
  /\ step' = "idle" /\ owner' = None
  /\ UNCHANGED <<world, wanted, left, inv, seen, nodes, orphans>>

NextSource(s) ==
  IF s = Sources[Len(Sources)] THEN "emit"
  ELSE LET k == CHOOSE k \in DOMAIN Sources : Sources[k] = s IN Sources[k + 1]

By(s) == {u \in UsersOf(owner) : u.by = s}

\* Slip: the pages that came before the failure are kept.
PagesListed(all) == IF all THEN SnapshotsOf(owner) ELSE {s \in SnapshotsOf(owner) : s.ami}

\* A listing that fails on any page leaves no snapshots.
SnapshotsListed(all) == IF all THEN SnapshotsOf(owner) ELSE {}

\* The references of the instances are in hand from DescribeInstances.
ListSnapshots ==
  /\ step = "snapshots"
  /\ \E all \in BOOLEAN :
       IF "image" \in wanted
       THEN /\ inv' = [inv EXCEPT !.snapshots = SnapshotsListed(all), !.snapshotsComplete = all,
                                  !.references = By("instance")]
            /\ seen' = seen \cup By("instance")
            /\ step' = Sources[1]
       ELSE /\ inv' = [inv EXCEPT !.snapshots = SnapshotsListed(all), !.snapshotsComplete = all]
            /\ step' = "emit"
            /\ UNCHANGED seen
  /\ UNCHANGED <<world, wanted, left, owner, nodes, orphans>>

\* Slip: each source sets the flag anew.
CompleteSoFarForgotten(failed) == ~failed

\* A source that fails, or has no client, makes the set incomplete for good; what it
\* yielded before stays.
CompleteSoFar(failed) == inv.complete /\ ~failed

ListReferences ==
  /\ step \in SourceSet
  /\ \E failed \in BOOLEAN : \E read \in IF failed THEN SUBSET By(step) ELSE {By(step)} :
       /\ inv' = [inv EXCEPT !.references = @ \cup read, !.complete = CompleteSoFar(failed)]
       /\ seen' = seen \cup read
  /\ step' = NextSource(step)
  /\ UNCHANGED <<world, wanted, left, owner, nodes, orphans>>

\* How many block devices of the account's images are of a snapshot, used or not.
RefCount(s) ==
  Cardinality({i \in inv.images : s \in i.snapshots}) + Cardinality({i \in inv.images : s \in i.twice})
Listed(i) == {s.id : s \in {s \in inv.snapshots : s.id \in i.snapshots}}

\* Slip: every backing snapshot goes with the image.
AllBacking(i) == Listed(i)

\* What goes with the image if it is deleted: snapshots no other image names, and the
\* image itself by one block device.
Exclusive(i) == {s \in Listed(i) : RefCount(s) = 1}

ImageNode(i, referenced, complete, backed, exclusive) ==
  [image |-> i, referenced |-> referenced, complete |-> complete,
   backed |-> backed, exclusive |-> exclusive]

\* NormalizeImage and NormalizeSnapshot, for what was asked for.
Emit ==
  /\ step = "emit"
  /\ nodes' = nodes \cup IF "image" \notin wanted THEN {}
       ELSE {ImageNode(i, ReferencesTo(i, inv.references) # {}, inv.complete,
                       inv.snapshotsComplete /\ Listed(i) = i.snapshots, Exclusive(i)) : i \in inv.images}
  /\ orphans' = orphans \cup IF "snapshot" \notin wanted THEN {}
       ELSE {[snapshot |-> s, count |-> RefCount(s.id)] : s \in inv.snapshots}
  /\ step' = "idle" /\ owner' = None
  /\ UNCHANGED <<world, wanted, left, inv, seen>>

-----------------------------------------------------------------------------
(* GCP: enrichImageReferences.  Azure: collectImageReferences *)

\* A template may boot from a project's own images alone; one whose reference cannot
\* be read spoils the project, as does a listing that fails or cannot be made.
ListTemplates(o) ==
  /\ world.provider = "gcp" /\ o \in left /\ "image" \in wanted
  /\ left' = left \ {o}
  /\ \E answered \in BOOLEAN :
       LET users == IF answered THEN UsersOf(o) ELSE {}
           complete == answered /\ \A u \in users : u.names # Malformed
       IN /\ nodes' = nodes \cup {ImageNode(i, complete /\ ReferencesTo(i, users) # {},
                                            complete, TRUE, {}) : i \in ImagesOf(o)}
          /\ seen' = seen \cup users
  /\ UNCHANGED <<world, wanted, owner, step, inv, orphans>>

\* An answer without a single machine is not trusted, nor one that cannot be read.
Trusted(rows) == rows # {} /\ \A u \in rows : u.names # Malformed

\* One answer brings images and machines; it omits what the identity may not read.
ReadRows(o) ==
  /\ world.provider = "azure" /\ o \in left /\ "image" \in wanted
  /\ left' = left \ {o}
  /\ \E rows \in SUBSET UsersOf(o), images \in {{}, ImagesOf(o)} :
       /\ nodes' = nodes \cup {ImageNode(i, ReferencesTo(i, rows) # {}, Trusted(rows), TRUE, {}) : i \in images}
       /\ seen' = seen \cup rows
  /\ UNCHANGED <<world, wanted, owner, step, inv, orphans>>

\* A subscription that cannot be read is left out.
ReadRowsFails(o) ==
  /\ world.provider = "azure" /\ o \in left
  /\ left' = left \ {o}
  /\ UNCHANGED <<world, wanted, owner, step, inv, seen, nodes, orphans>>

Terminated ==
  /\ step = "idle" /\ (left = {} \/ (world.provider # "aws" /\ "image" \notin wanted))
  /\ UNCHANGED vars

Next ==
  \/ \E o \in left : Begin(o) \/ ListTemplates(o) \/ ReadRows(o) \/ ReadRowsFails(o)
  \/ ListImages \/ ListImagesFails \/ ListSnapshots \/ ListReferences \/ Emit
  \/ Terminated

Spec == Init /\ [][Next]_vars

-----------------------------------------------------------------------------
(* The rules *)

\* The guards of unused_ami, unused_custom_image and unused_gallery_image_version.
Unused == {n \in nodes : n.backed /\ n.complete /\ ~n.referenced /\ n.image.old}

\* The guards of orphaned_ami_snapshot.
Orphaned == {n \in orphans : n.snapshot.ami /\ n.count = 0 /\ n.snapshot.old}

-----------------------------------------------------------------------------
(* Properties *)

\* Every variable stays in its type; an inventory holds what its own cloud has, and a
\* snapshot listing that failed leaves none.
TypeOK ==
  /\ world \in Worlds /\ wanted \subseteq {"image", "snapshot"}
  /\ left \subseteq world.owners /\ owner \in (world.owners \ left) \cup {None}
  /\ step \in {"idle", "images", "snapshots", "emit"} \cup SourceSet
  /\ inv \in Inventory /\ inv.references \subseteq seen /\ seen \subseteq world.users
  /\ inv.snapshotsComplete \/ inv.snapshots = {}
  /\ \A n \in nodes : n.image \in world.images /\ n.exclusive \subseteq n.image.snapshots

\* "Deleting a snapshot still backing a live AMI destroys the AMI": an image is called
\* unused only if nothing of its own account, project or subscription names it, however
\* the calls failed, also where it names it as a member of its family; of Azure, which
\* leaves out what may not be read, only machines that were not shown can, and some
\* were shown (provider.go hydrateImages, image_references.go).
UnusedWhereLooked ==
  \A n \in Unused : \A u \in UsersOf(n.image.owner) : Names(u, n.image) =>
    /\ world.provider = "azure"
    /\ u \notin seen
    /\ seen \cap UsersOf(n.image.owner) # {}

\* A snapshot is billed to one finding at most, of either rule, and only if no image
\* that stays needs it (normalize.go NormalizeImage, snapshotRefCounts).
SnapshotBilledOnce ==
  \A s \in {s.id : s \in world.snapshots} :
    LET images == {n \in Unused : s \in n.exclusive}
        alone == {n \in Orphaned : n.snapshot.id = s}
    IN /\ Cardinality(images) + Cardinality(alone) <= 1
       /\ \A i \in world.images : s \in i.snapshots => alone = {} /\ \A n \in images : n.image = i

\* "The rule skips with SkipReferencesUnknown rather than concluding an image is
\* unreferenced ... a missed finding costs money, a false one costs an outage"
\* (azure/image_references.go); "Custom image is not referenced by any instance
\* template" (unused_custom_image): what any owner of the scope uses is not unused.
UnusedIsUnused == \A n \in Unused : ReferencesTo(n.image, world.users) = {}
=============================================================================
