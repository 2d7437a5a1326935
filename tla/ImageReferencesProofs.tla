------------------------ MODULE ImageReferencesProofs -----------------------
(***************************************************************************)
(* What the image rules conclude is safe, for every cloud: any number of   *)
(* owners, images, users and snapshots, and any pattern of failing calls.  *)
(*                                                                         *)
(* An owner is inventoried once (left, owner), so every node is decided by *)
(* one inventory; the argument is that this inventory is what its flags    *)
(* say.  Progress follows the AWS inventory from call to call: while no    *)
(* source has failed, the users of every source already read are in.       *)
(***************************************************************************)
EXTENDS ImageReferences, FiniteSetTheorems, TLAPS

Images(o, s) == {i \in ImagesOf(o) : s \in i.snapshots}
Doubles(o, s) == {i \in ImagesOf(o) : s \in i.twice}

\* The sources an AWS inventory is behind, at each of its calls.
ReadBy(l) ==
  CASE l = "launch_template" -> {"instance"}
    [] l = "launch_configuration" -> {"instance", "launch_template"}
    [] l = "ec2_fleet" -> {"instance", "launch_template", "launch_configuration"}
    [] l = "spot_fleet" -> {"instance", "launch_template", "launch_configuration", "ec2_fleet"}
    [] l = "emit" -> {"instance"} \cup SourceSet
    [] OTHER -> {}

Progress ==
  /\ step = "idle" <=> owner = None
  /\ step # "idle" => world.provider = "aws"
  /\ step \in SourceSet => "image" \in wanted
  /\ step \notin {"idle", "images"} => inv.images = ImagesOf(owner)
  /\ step \notin {"idle"} => inv.snapshots \subseteq SnapshotsOf(owner)
  /\ step \in {"images", "snapshots"} => inv.references = {}
  /\ step \in SourceSet \cup {"emit"} /\ "image" \in wanted /\ inv.complete =>
       \A u \in UsersOf(owner) : u.by \in ReadBy(step) => u \in inv.references
  /\ world.provider = "azure" => \A u \in seen : u.owner \notin left

\* One node per image, and only of owners whose inventory is over.
NodesOnce ==
  /\ \A n \in nodes : n.image \in world.images /\ n.image.owner \notin left \cup {owner}
  /\ \A n, m \in nodes : n.image = m.image => n = m

\* Complete references decide; on Azure they are what was shown.
NodesJudged ==
  \A n \in nodes : LET own == UsersOf(n.image.owner) IN
    /\ world.provider # "azure" /\ n.complete /\ ~n.referenced => \A u \in own : ~Names(u, n.image)
    /\ world.provider = "azure" /\ ~n.referenced => \A u \in own \cap seen : ~Names(u, n.image)
    /\ world.provider = "azure" /\ n.complete => own \cap seen # {}

\* What goes with an image is named by no other of its owner.
NodesExclusive ==
  \A n \in nodes : \A s \in n.exclusive :
    /\ s \in n.image.snapshots
    /\ \E t \in world.snapshots : t.id = s
    /\ Images(n.image.owner, s) = {n.image}

\* A count is of the block devices of the images of the snapshot's owner.
OrphansCounted ==
  \A n \in orphans :
    /\ n \in [snapshot : world.snapshots, count : Nat]
    /\ n.snapshot.owner \notin left \cup {owner}
    /\ n.count >= Cardinality(Images(n.snapshot.owner, n.snapshot.id))

IInv == TypeOK /\ Progress /\ NodesOnce /\ NodesJudged /\ NodesExclusive /\ OrphansCounted

-----------------------------------------------------------------------------
(* The calls of an AWS inventory *)

LEMMA NextSourceReads ==
  ASSUME NEW s \in SourceSet
  PROVE  /\ NextSource(s) \in SourceSet \cup {"emit"} /\ s \notin {"idle", "images", "snapshots", "emit"}
         /\ ReadBy(NextSource(s)) = ReadBy(s) \cup {s}
<1>1. /\ DOMAIN Sources = 1..4 /\ Len(Sources) = 4
      /\ Sources[1] = "launch_template" /\ Sources[2] = "launch_configuration"
      /\ Sources[3] = "ec2_fleet" /\ Sources[4] = "spot_fleet"
  BY DEF Sources
<1>2. SourceSet = {"launch_template", "launch_configuration", "ec2_fleet", "spot_fleet"}
  BY <1>1 DEF SourceSet
<1>3. \A k \in 1..3 : NextSource(Sources[k]) = Sources[k + 1]
  <2> SUFFICES ASSUME NEW k \in 1..3
               PROVE  NextSource(Sources[k]) = Sources[k + 1]
    OBVIOUS
  <2>1. \A j \in 1..4 : Sources[j] = Sources[k] => j = k
    BY <1>1
  <2>2. (CHOOSE j \in DOMAIN Sources : Sources[j] = Sources[k]) = k
    BY <1>1, <2>1
  <2>3. Sources[k] # Sources[4]
    BY <1>1
  <2> QED
    BY <1>1, <2>2, <2>3 DEF NextSource
<1>4. /\ NextSource("launch_template") = "launch_configuration"
      /\ NextSource("launch_configuration") = "ec2_fleet"
      /\ NextSource("ec2_fleet") = "spot_fleet" /\ NextSource("spot_fleet") = "emit"
  BY <1>1, <1>3 DEF NextSource
<1> QED
  BY <1>2, <1>4 DEF ReadBy

\* What a step leaves of the nodes, as long as it adds none.
LEMMA NodesStay ==
  ASSUME IInv, UNCHANGED <<world, nodes, orphans>>,
         left' \cup {owner'} \subseteq left \cup {owner, None},
         world.provider # "azure" \/ seen' = seen
  PROVE  NodesOnce' /\ NodesJudged' /\ NodesExclusive' /\ OrphansCounted'
<1>1. None \notin world.owners /\ \A x \in world.images \cup world.snapshots : x.owner \in world.owners
  BY WorldAssumption DEF IInv, TypeOK
<1>2. NodesOnce'
  BY <1>1 DEF IInv, NodesOnce
<1>3. NodesJudged'
  BY DEF IInv, NodesJudged, UsersOf, Names
<1>4. NodesExclusive'
  BY DEF IInv, NodesExclusive, Images, ImagesOf
<1>5. OrphansCounted'
  BY <1>1 DEF IInv, OrphansCounted, Images, ImagesOf
<1> QED
  BY <1>2, <1>3, <1>4, <1>5

LEMMA BeginStep ==
  ASSUME IInv, NEW o \in left, Begin(o)
  PROVE  IInv'
<1>1. TypeOK'
  BY DEF IInv, TypeOK, Begin, EmptyInventory, Inventory
<1>2. Progress'
  <2>1. o \in world.owners /\ o # None
    BY WorldAssumption DEF IInv, TypeOK
  <2>2. "images" \notin SourceSet \cup {"idle", "emit"}
    BY NextSourceReads
  <2> QED
    BY <2>1, <2>2 DEF Begin, Progress, EmptyInventory
<1>3. NodesOnce' /\ NodesJudged' /\ NodesExclusive' /\ OrphansCounted'
  BY NodesStay DEF Begin
<1> QED
  BY <1>1, <1>2, <1>3 DEF IInv

LEMMA ListImagesStep ==
  ASSUME IInv, ListImages \/ ListImagesFails
  PROVE  IInv'
<1>1. "snapshots" \notin SourceSet /\ "idle" \notin SourceSet /\ "images" \notin SourceSet
  BY NextSourceReads
<1>2. TypeOK'
  BY DEF IInv, TypeOK, ListImages, ListImagesFails, ImagesOf, Inventory
<1>3. Progress'
  BY <1>1 DEF IInv, TypeOK, ListImages, ListImagesFails, Progress, Inventory, ImagesOf, SnapshotsOf
<1>4. NodesOnce' /\ NodesJudged' /\ NodesExclusive' /\ OrphansCounted'
  BY NodesStay DEF ListImages, ListImagesFails
<1> QED
  BY <1>2, <1>3, <1>4 DEF IInv

LEMMA ListSnapshotsStep ==
  ASSUME IInv, ListSnapshots
  PROVE  IInv'
<1>1. /\ "launch_template" \in SourceSet /\ Sources[1] = "launch_template"
      /\ "snapshots" \notin SourceSet /\ "emit" \notin SourceSet
      /\ world.provider = "aws" /\ step = "snapshots"
  BY NextSourceReads DEF SourceSet, Sources, IInv, Progress, ListSnapshots
<1>2. PICK all \in BOOLEAN :
        /\ inv' = IF "image" \in wanted
                  THEN [inv EXCEPT !.snapshots = SnapshotsListed(all), !.snapshotsComplete = all,
                                   !.references = By("instance")]
                  ELSE [inv EXCEPT !.snapshots = SnapshotsListed(all), !.snapshotsComplete = all]
        /\ seen' = IF "image" \in wanted THEN seen \cup By("instance") ELSE seen
        /\ step' = IF "image" \in wanted THEN Sources[1] ELSE "emit"
  BY DEF ListSnapshots
<1>3. /\ SnapshotsListed(all) \subseteq SnapshotsOf(owner) /\ SnapshotsOf(owner) \subseteq world.snapshots
      /\ (all \/ SnapshotsListed(all) = {}) /\ By("instance") \subseteq UsersOf(owner)
      /\ UsersOf(owner) \subseteq world.users
  BY DEF SnapshotsListed, SnapshotsOf, By, UsersOf
<1>4. /\ inv' \in Inventory /\ inv'.images = inv.images /\ inv'.snapshots = SnapshotsListed(all)
      /\ inv'.snapshotsComplete = all
      /\ inv'.references = IF "image" \in wanted THEN By("instance") ELSE inv.references
      /\ UNCHANGED <<world, wanted, left, owner, nodes, orphans>>
  BY <1>2, <1>3 DEF IInv, TypeOK, Inventory, ListSnapshots
<1>5. TypeOK'
  BY <1>1, <1>2, <1>3, <1>4 DEF IInv, TypeOK, Inventory
<1>6. Progress'
  <2>1. ReadBy("launch_template") = {"instance"}
    BY DEF ReadBy
  <2> QED
    BY <1>1, <1>2, <1>3, <1>4, <2>1 DEF IInv, Progress, By, ImagesOf, SnapshotsOf, UsersOf
<1>7. NodesOnce' /\ NodesJudged' /\ NodesExclusive' /\ OrphansCounted'
  BY <1>1, <1>4, NodesStay
<1> QED
  BY <1>4, <1>5, <1>6, <1>7 DEF IInv

LEMMA ListReferencesStep ==
  ASSUME IInv, ListReferences
  PROVE  IInv'
<1>1. /\ step \in SourceSet /\ step \notin {"idle", "images", "snapshots", "emit"}
      /\ NextSource(step) \in SourceSet \cup {"emit"} /\ ReadBy(NextSource(step)) = ReadBy(step) \cup {step}
      /\ world.provider = "aws"
  BY NextSourceReads DEF IInv, Progress, ListReferences
<1>2. PICK failed \in BOOLEAN, read \in SUBSET By(step) :
        /\ ~failed => read = By(step)
        /\ inv' = [inv EXCEPT !.references = inv.references \cup read, !.complete = CompleteSoFar(failed)]
        /\ seen' = seen \cup read
        /\ step' = NextSource(step)
  BY DEF ListReferences
<1>3. By(step) \subseteq UsersOf(owner) /\ UsersOf(owner) \subseteq world.users
  BY DEF By, UsersOf
<1>4. /\ inv' \in Inventory /\ inv'.images = inv.images /\ inv'.snapshots = inv.snapshots
      /\ inv'.snapshotsComplete = inv.snapshotsComplete /\ inv'.references = inv.references \cup read
      /\ inv'.complete = (inv.complete /\ ~failed)
      /\ UNCHANGED <<world, wanted, left, owner, nodes, orphans>>
  BY <1>2, <1>3 DEF IInv, TypeOK, Inventory, ListReferences, CompleteSoFar
<1>5. TypeOK'
  BY <1>1, <1>2, <1>3, <1>4 DEF IInv, TypeOK, Inventory
<1>6. Progress'
  <2>1. step' \notin {"idle", "images", "snapshots"} /\ ("image" \in wanted)
    BY <1>1, <1>2, NextSourceReads DEF IInv, Progress
  <2>2. ASSUME inv'.complete, NEW u \in UsersOf(owner), u.by \in ReadBy(step')
        PROVE  u \in inv'.references
    <3>1. u.by \in ReadBy(step) \/ u.by = step
      BY <1>1, <1>2, <2>2
    <3>2. inv.complete /\ read = By(step)
      BY <1>2, <1>4, <2>2
    <3> QED
      BY <1>1, <1>4, <2>1, <3>1, <3>2 DEF IInv, Progress, By
  <2>3. owner' = owner /\ UsersOf(owner)' = UsersOf(owner)
    BY <1>4 DEF UsersOf
  <2> QED
    BY <1>1, <1>4, <2>1, <2>2, <2>3 DEF IInv, Progress, ImagesOf, SnapshotsOf
<1>7. NodesOnce' /\ NodesJudged' /\ NodesExclusive' /\ OrphansCounted'
  BY <1>1, <1>4, NodesStay
<1> QED
  BY <1>4, <1>5, <1>6, <1>7 DEF IInv

-----------------------------------------------------------------------------
(* The nodes of one inventory *)

LEMMA ImagesFinite ==
  ASSUME IInv, NEW o, NEW s
  PROVE  /\ IsFiniteSet(Images(o, s)) /\ Cardinality(Images(o, s)) \in Nat
         /\ Cardinality(Doubles(o, s)) \in Nat
<1>1. /\ IsFiniteSet(world.images)
      /\ Images(o, s) \in SUBSET world.images /\ Doubles(o, s) \in SUBSET world.images
  BY WorldAssumption DEF IInv, TypeOK, Images, Doubles, ImagesOf
<1> QED
  BY <1>1, FS_Subset, FS_CardinalityType

\* Nodes of one owner, judged alike by what was seen of it, join those of others.
LEMMA NodesJoin ==
  ASSUME IInv, UNCHANGED world, NEW o \in world.owners, o \in left \cup {owner},
         o \notin left' \cup {owner'}, left' \cup {owner'} \subseteq left \cup {owner, None},
         NEW new, nodes' = nodes \cup new,
         \A n \in new : n.image \in ImagesOf(o),
         \A n, m \in new : n.image = m.image => n = m,
         world.provider # "azure" \/ (seen \subseteq seen' /\ \A u \in seen' \ seen : u.owner = o)
  PROVE  /\ NodesOnce'
         /\ \A n \in nodes : n.image.owner # o /\ UsersOf(n.image.owner)' = UsersOf(n.image.owner)
                             /\ (world.provider = "azure" =>
                                   UsersOf(n.image.owner) \cap seen' = UsersOf(n.image.owner) \cap seen)
<1>1. None \notin world.owners /\ \A x \in world.images \cup world.snapshots : x.owner \in world.owners
  BY WorldAssumption DEF IInv, TypeOK
<1>2. \A n \in new : n.image \in world.images /\ n.image.owner = o
  BY DEF ImagesOf
<1>3. \A n \in nodes : n.image \in world.images /\ n.image.owner \notin left \cup {owner} /\ n.image.owner # o
  BY DEF IInv, NodesOnce
<1>4. NodesOnce'
  <2>1. ASSUME NEW n \in nodes'
        PROVE  n.image \in world.images /\ n.image.owner \notin left' \cup {owner'}
    BY <1>1, <1>2, <1>3
  <2>2. ASSUME NEW n \in nodes', NEW m \in nodes', n.image = m.image
        PROVE  n = m
    <3>1. (n \in nodes /\ m \in nodes) \/ (n \in new /\ m \in new)
      BY <1>2, <1>3, <2>2
    <3> QED
      BY <2>2, <3>1 DEF IInv, NodesOnce
  <2> QED
    BY <2>1, <2>2 DEF NodesOnce
<1> QED
  BY <1>3, <1>4 DEF UsersOf

LEMMA EmitStep ==
  ASSUME IInv, Emit
  PROVE  IInv'
<1> DEFINE fresh == IF "image" \notin wanted THEN {}
             ELSE {ImageNode(i, ReferencesTo(i, inv.references) # {}, inv.complete,
                             inv.snapshotsComplete /\ Listed(i) = i.snapshots, Exclusive(i)) : i \in inv.images}
           loose == IF "snapshot" \notin wanted THEN {}
             ELSE {[snapshot |-> s, count |-> RefCount(s.id)] : s \in inv.snapshots}
<1>1. /\ step = "emit" /\ nodes' = nodes \cup fresh /\ orphans' = orphans \cup loose
      /\ step' = "idle" /\ owner' = None /\ UNCHANGED <<world, wanted, left, inv, seen>>
      /\ world.provider = "aws" /\ inv.images = ImagesOf(owner) /\ inv.snapshots \subseteq SnapshotsOf(owner)
      /\ owner # None
  BY DEF Emit, IInv, Progress
<1>2. owner \in world.owners /\ owner \notin left' \cup {owner'} /\ None \notin world.owners
  BY <1>1, WorldAssumption DEF IInv, TypeOK
<1>3. \A i : RefCount(i) = Cardinality(Images(owner, i)) + Cardinality(Doubles(owner, i))
  BY <1>1 DEF Images, Doubles, RefCount
<1>4. ASSUME NEW n \in fresh
      PROVE  /\ n.image \in ImagesOf(owner) /\ "image" \in wanted
             /\ n = ImageNode(n.image, ReferencesTo(n.image, inv.references) # {}, inv.complete,
                              inv.snapshotsComplete /\ Listed(n.image) = n.image.snapshots, Exclusive(n.image))
             /\ n.complete = inv.complete /\ n.exclusive = Exclusive(n.image)
             /\ n.referenced = (ReferencesTo(n.image, inv.references) # {})
  BY <1>1 DEF ImageNode
<1> HIDE DEF fresh
<1>5. /\ NodesOnce'
      /\ \A n \in nodes : n.image.owner # owner /\ UsersOf(n.image.owner)' = UsersOf(n.image.owner)
  <2>1. /\ UNCHANGED world /\ nodes' = nodes \cup fresh /\ world.provider # "azure"
        /\ left' \cup {owner'} \subseteq left \cup {owner, None}
    BY <1>1
  <2>2. /\ \A n \in fresh : n.image \in ImagesOf(owner)
        /\ \A n, m \in fresh : n.image = m.image => n = m
    BY <1>4
  <2>3. owner \in world.owners /\ owner \in left \cup {owner} /\ owner \notin left' \cup {owner'}
    BY <1>2
  <2> QED
    BY ONLY IInv, <2>1, <2>2, <2>3, NodesJoin
<1>6. NodesJudged'
  <2>1. ASSUME NEW n \in fresh, n.complete, ~n.referenced, NEW u \in UsersOf(n.image.owner)
        PROVE  ~Names(u, n.image)
    <3>1. n.image.owner = owner /\ u \in world.users
      BY <1>4 DEF ImagesOf, UsersOf
    <3>2. u.by \in ReadBy("emit")
      BY <1>1, <3>1, WorldAssumption DEF ReadBy, IInv, TypeOK
    <3>3. u \in inv.references
      BY <1>1, <1>4, <2>1, <3>1, <3>2 DEF IInv, Progress
    <3> QED
      BY <1>4, <2>1, <3>3 DEF ReferencesTo
  <2>2. \A n \in nodes : n.complete /\ ~n.referenced => \A u \in UsersOf(n.image.owner) : ~Names(u, n.image)
    BY <1>1 DEF IInv, NodesJudged
  <2>3. \A o : UsersOf(o)' = UsersOf(o)
    BY <1>1 DEF UsersOf
  <2>4. world'.provider = "aws"
    BY <1>1
  <2>5. \A n \in nodes' : n.complete /\ ~n.referenced => \A u \in UsersOf(n.image.owner)' : ~Names(u, n.image)
    BY <1>1, <2>1, <2>2, <2>3
  <2> QED
    BY <2>4, <2>5 DEF NodesJudged
<1>7. NodesExclusive'
  <2>1. ASSUME NEW n \in fresh, NEW s \in n.exclusive
        PROVE  /\ s \in n.image.snapshots
               /\ \E t \in world.snapshots : t.id = s
               /\ Images(n.image.owner, s) = {n.image}
    <3>1. s \in Listed(n.image) /\ RefCount(s) = 1
      BY <1>4, <2>1 DEF Exclusive
    <3>2. s \in n.image.snapshots /\ \E t \in world.snapshots : t.id = s
      BY <1>1, <3>1 DEF Listed, SnapshotsOf
    <3>3. n.image \in Images(owner, s) /\ n.image.owner = owner
      BY <1>4, <3>2 DEF Images, ImagesOf
    <3>4. Cardinality(Images(owner, s)) = 1
      <4>1. Cardinality(Images(owner, s)) + Cardinality(Doubles(owner, s)) = 1
        BY <1>3, <3>1
      <4>2. Cardinality(Images(owner, s)) # 0
        BY <3>3, ImagesFinite, FS_EmptySet
      <4> QED
        BY <4>1, <4>2, ImagesFinite
    <3>5. \E x : Images(owner, s) = {x}
      BY <3>4, ImagesFinite, FS_Singleton
    <3> QED
      BY <3>2, <3>3, <3>5
  <2>2. \A o, s : Images(o, s)' = Images(o, s)
    BY <1>1 DEF Images, ImagesOf
  <2> QED
    BY <1>1, <2>1, <2>2 DEF IInv, NodesExclusive
<1>8. OrphansCounted'
  <2>1. ASSUME NEW n \in loose
        PROVE  /\ n \in [snapshot : world.snapshots, count : Nat]
               /\ n.snapshot.owner = owner
               /\ n.count >= Cardinality(Images(n.snapshot.owner, n.snapshot.id))
    <3>1. PICK s \in inv.snapshots : n = [snapshot |-> s, count |-> RefCount(s.id)]
      OBVIOUS
    <3>2. s \in world.snapshots /\ s.owner = owner
      BY <1>1 DEF SnapshotsOf
    <3>3. RefCount(s.id) >= Cardinality(Images(owner, s.id)) /\ RefCount(s.id) \in Nat
      BY <1>3, ImagesFinite
    <3> QED
      BY <3>1, <3>2, <3>3
  <2>2. \A o, s : Images(o, s)' = Images(o, s)
    BY <1>1 DEF Images, ImagesOf
  <2>3. \A n \in orphans : n.snapshot.owner \in world.owners
    BY WorldAssumption DEF IInv, TypeOK, OrphansCounted
  <2> HIDE DEF loose
  <2> QED
    BY <1>1, <1>2, <2>1, <2>2, <2>3 DEF IInv, OrphansCounted
<1>9. TypeOK' /\ Progress'
  <2>1. \A n \in fresh : n.image \in world.images /\ n.exclusive \subseteq n.image.snapshots
    <3> SUFFICES ASSUME NEW n \in fresh
                 PROVE  n.image \in world.images /\ n.exclusive \subseteq n.image.snapshots
      OBVIOUS
    <3>1. \A i : Listed(i) \subseteq i.snapshots
      BY DEF Listed
    <3>2. \A i : Exclusive(i) \subseteq Listed(i)
      BY DEF Exclusive
    <3> QED
      BY <1>4, <3>1, <3>2 DEF ImagesOf
  <2>2. "idle" \notin SourceSet \cup {"emit"}
    BY NextSourceReads
  <2>3. TypeOK'
    BY <1>1, <1>2, <2>1 DEF IInv, TypeOK, Inventory
  <2>4. Progress'
    BY <1>1, <1>2, <2>2 DEF IInv, Progress
  <2> QED
    BY <2>3, <2>4
<1> QED
  BY <1>5, <1>6, <1>7, <1>8, <1>9 DEF IInv

\* An owner of GCP: the nodes are decided by the one answer.
LEMMA ListTemplatesStep ==
  ASSUME IInv, NEW o \in left, ListTemplates(o)
  PROVE  IInv'
<1>1. PICK answered \in BOOLEAN :
        LET users == IF answered THEN UsersOf(o) ELSE {}
            complete == answered /\ \A u \in users : u.names # Malformed
        IN /\ nodes' = nodes \cup {ImageNode(i, complete /\ ReferencesTo(i, users) # {},
                                             complete, TRUE, {}) : i \in ImagesOf(o)}
           /\ seen' = seen \cup users
  BY DEF ListTemplates
<1> DEFINE users == IF answered THEN UsersOf(o) ELSE {}
           complete == answered /\ \A u \in users : u.names # Malformed
           fresh == {ImageNode(i, complete /\ ReferencesTo(i, users) # {}, complete, TRUE, {}) : i \in ImagesOf(o)}
<1>2. /\ nodes' = nodes \cup fresh /\ seen' = seen \cup users /\ left' = left \ {o} /\ world.provider = "gcp"
      /\ UNCHANGED <<world, wanted, owner, step, inv, orphans>> /\ o \in world.owners
      /\ owner = None /\ None \notin world.owners /\ users \subseteq world.users
  BY <1>1, WorldAssumption DEF ListTemplates, IInv, TypeOK, Progress, UsersOf
<1>3. ASSUME NEW n \in fresh
      PROVE  /\ n.image \in ImagesOf(o) /\ n.complete = complete /\ n.exclusive = {}
             /\ n = ImageNode(n.image, complete /\ ReferencesTo(n.image, users) # {}, complete, TRUE, {})
             /\ n.referenced = (complete /\ ReferencesTo(n.image, users) # {})
  BY DEF ImageNode
<1> HIDE DEF fresh, users
<1>4. NodesOnce'
  <2>1. /\ o \notin left' \cup {owner'} /\ left' \cup {owner'} \subseteq left \cup {owner, None}
        /\ \A n \in fresh : n.image \in ImagesOf(o)
        /\ \A n, m \in fresh : n.image = m.image => n = m
    BY <1>2, <1>3
  <2> QED
    BY <1>2, <2>1, NodesJoin
<1>5. NodesJudged'
  <2>1. ASSUME NEW n \in fresh, n.complete, ~n.referenced, NEW u \in UsersOf(n.image.owner)
        PROVE  ~Names(u, n.image)
    BY <1>3, <2>1 DEF users, ReferencesTo, ImagesOf
  <2>2. \A n \in nodes : n.complete /\ ~n.referenced => \A u \in UsersOf(n.image.owner) : ~Names(u, n.image)
    BY <1>2 DEF IInv, NodesJudged
  <2>3. \A x : UsersOf(x)' = UsersOf(x)
    BY <1>2 DEF UsersOf
  <2>4. world'.provider = "gcp"
    BY <1>2
  <2>5. \A n \in nodes' : n.complete /\ ~n.referenced => \A u \in UsersOf(n.image.owner)' : ~Names(u, n.image)
    BY <1>2, <2>1, <2>2, <2>3
  <2> QED
    BY <2>4, <2>5 DEF NodesJudged
<1>6. NodesExclusive' /\ OrphansCounted'
  <2>1. \A x, s : Images(x, s)' = Images(x, s)
    BY <1>2 DEF Images, ImagesOf
  <2> QED
    BY <1>2, <1>3, <2>1 DEF IInv, NodesExclusive, OrphansCounted
<1>7. TypeOK'
  BY <1>2, <1>3 DEF IInv, TypeOK, Inventory, ImagesOf
<1>8. Progress'
  <2>1. "idle" \notin SourceSet
    BY NextSourceReads
  <2> QED
    BY <1>2, <2>1 DEF IInv, Progress
<1> QED
  BY <1>4, <1>5, <1>6, <1>7, <1>8 DEF IInv

\* An owner of Azure: the nodes are decided by the machines that were shown.
LEMMA ReadRowsStep ==
  ASSUME IInv, NEW o \in left, ReadRows(o)
  PROVE  IInv'
<1>1. PICK rows \in SUBSET UsersOf(o), images \in {{}, ImagesOf(o)} :
        /\ nodes' = nodes \cup {ImageNode(i, ReferencesTo(i, rows) # {}, Trusted(rows), TRUE, {}) : i \in images}
        /\ seen' = seen \cup rows
  BY DEF ReadRows
<1> DEFINE fresh == {ImageNode(i, ReferencesTo(i, rows) # {}, Trusted(rows), TRUE, {}) : i \in images}
<1>2. /\ nodes' = nodes \cup fresh /\ seen' = seen \cup rows /\ left' = left \ {o} /\ world.provider = "azure"
      /\ UNCHANGED <<world, wanted, owner, step, inv, orphans>> /\ o \in world.owners
      /\ owner = None /\ None \notin world.owners /\ UsersOf(o) \subseteq world.users
      /\ \A u \in rows : u.owner = o
  BY <1>1, WorldAssumption DEF ReadRows, IInv, TypeOK, Progress, UsersOf
<1>3. ASSUME NEW n \in fresh
      PROVE  /\ n.image \in ImagesOf(o) /\ n.complete = Trusted(rows) /\ n.exclusive = {}
             /\ n = ImageNode(n.image, ReferencesTo(n.image, rows) # {}, Trusted(rows), TRUE, {})
             /\ n.referenced = (ReferencesTo(n.image, rows) # {})
  BY <1>1 DEF ImageNode
<1> HIDE DEF fresh
<1>4. /\ NodesOnce'
      /\ \A n \in nodes : n.image.owner # o /\ UsersOf(n.image.owner) \cap seen' = UsersOf(n.image.owner) \cap seen
  <2>1. /\ o \notin left' \cup {owner'} /\ left' \cup {owner'} \subseteq left \cup {owner, None}
        /\ \A n \in fresh : n.image \in ImagesOf(o)
        /\ \A n, m \in fresh : n.image = m.image => n = m
        /\ seen \subseteq seen' /\ \A u \in seen' \ seen : u.owner = o
    BY <1>2, <1>3
  <2> QED
    BY <1>2, <2>1, NodesJoin
<1>5. NodesJudged'
  <2>1. ASSUME NEW n \in fresh
        PROVE  UsersOf(n.image.owner) \cap seen' = rows
    <3>1. UsersOf(o) \cap seen = {}
      BY <1>2 DEF IInv, Progress, UsersOf
    <3> QED
      BY <1>1, <1>2, <1>3, <3>1 DEF ImagesOf
  <2>2. ASSUME NEW n \in nodes'
        PROVE  LET own == UsersOf(n.image.owner) IN
               /\ ~n.referenced => \A u \in own \cap seen' : ~Names(u, n.image)
               /\ n.complete => own \cap seen' # {}
    <3>1. CASE n \in fresh
      BY <1>3, <2>1, <3>1 DEF ReferencesTo, Trusted
    <3>2. CASE n \in nodes
      BY <1>2, <1>4, <3>2 DEF IInv, NodesJudged
    <3> QED
      BY <1>2, <3>1, <3>2
  <2>3. \A x : UsersOf(x)' = UsersOf(x)
    BY <1>2 DEF UsersOf
  <2>4. world'.provider = "azure"
    BY <1>2
  <2> QED
    BY <2>2, <2>3, <2>4 DEF NodesJudged
<1>6. NodesExclusive' /\ OrphansCounted'
  <2>1. \A x, s : Images(x, s)' = Images(x, s)
    BY <1>2 DEF Images, ImagesOf
  <2> QED
    BY <1>2, <1>3, <2>1 DEF IInv, NodesExclusive, OrphansCounted
<1>7. TypeOK'
  <2>1. seen' \subseteq world.users
    BY <1>1, <1>2 DEF IInv, TypeOK
  <2> QED
    BY <1>2, <1>3, <2>1 DEF IInv, TypeOK, Inventory, ImagesOf
<1>8. Progress'
  <2>1. "idle" \notin SourceSet
    BY NextSourceReads
  <2> QED
    BY <1>2, <2>1 DEF IInv, Progress
<1> QED
  BY <1>4, <1>5, <1>6, <1>7, <1>8 DEF IInv

LEMMA ReadRowsFailsStep ==
  ASSUME IInv, NEW o \in left, ReadRowsFails(o)
  PROVE  IInv'
<1>1. TypeOK' /\ Progress'
  BY DEF IInv, TypeOK, Inventory, ReadRowsFails, Progress, ImagesOf, SnapshotsOf, UsersOf
<1>2. NodesOnce' /\ NodesJudged' /\ NodesExclusive' /\ OrphansCounted'
  BY NodesStay DEF ReadRowsFails
<1> QED
  BY <1>1, <1>2 DEF IInv

-----------------------------------------------------------------------------
(* The invariant *)

LEMMA InitInv == Init => IInv
<1> SUFFICES ASSUME Init
             PROVE  IInv
  OBVIOUS
<1>1. TypeOK
  BY DEF Init, TypeOK, EmptyInventory, Inventory
<1>2. "idle" \notin SourceSet
  BY NextSourceReads
<1>3. Progress
  BY <1>2 DEF Init, Progress
<1> QED
  BY <1>1, <1>3 DEF Init, IInv, NodesOnce, NodesJudged, NodesExclusive, OrphansCounted

LEMMA NextInv == IInv /\ [Next]_vars => IInv'
<1> SUFFICES ASSUME IInv, [Next]_vars
             PROVE  IInv'
  OBVIOUS
<1>1. CASE UNCHANGED vars
  BY <1>1 DEF vars, IInv, TypeOK, Inventory, Progress, NodesOnce, NodesJudged, NodesExclusive, OrphansCounted,
     ImagesOf, SnapshotsOf, UsersOf, Images
<1>2. CASE \E o \in left : Begin(o) \/ ListTemplates(o) \/ ReadRows(o) \/ ReadRowsFails(o)
  BY <1>2, BeginStep, ListTemplatesStep, ReadRowsStep, ReadRowsFailsStep
<1>3. CASE ListImages \/ ListImagesFails \/ ListSnapshots \/ ListReferences \/ Emit
  BY <1>3, ListImagesStep, ListSnapshotsStep, ListReferencesStep, EmitStep
<1> QED
  BY <1>1, <1>2, <1>3 DEF Next, Terminated

\* The invariant of the inventories.
THEOREM Invariance == Spec => []IInv
<1> QED
  BY InitInv, NextInv, PTL DEF Spec

-----------------------------------------------------------------------------
(* What it gives *)

\* An inventory holds what its own cloud has, and a snapshot listing that failed leaves
\* none (hydrateImages).
THEOREM TypeCorrect == Spec => []TypeOK
<1>1. IInv => TypeOK
  BY DEF IInv
<1> QED
  BY <1>1, Invariance, PTL

\* What an account, project or subscription uses itself is never called unused,
\* whatever calls fail; on Azure, if the identity was shown the user (unused_ami,
\* unused_custom_image, unused_gallery_image_version).
THEOREM LookedBeforeUnused == Spec => []UnusedWhereLooked
<1>1. IInv => UnusedWhereLooked
  <2> SUFFICES ASSUME IInv, NEW n \in Unused, NEW u \in UsersOf(n.image.owner), Names(u, n.image)
               PROVE  /\ world.provider = "azure"
                      /\ u \notin seen
                      /\ seen \cap UsersOf(n.image.owner) # {}
    BY DEF UnusedWhereLooked
  <2> QED
    BY DEF IInv, NodesJudged, Unused
<1> QED
  BY <1>1, Invariance, PTL

\* No snapshot is in two findings, and none in a finding that an image left behind
\* needs (NormalizeImage, orphaned_ami_snapshot).
THEOREM BilledOnce == Spec => []SnapshotBilledOnce
<1>1. IInv => SnapshotBilledOnce
  <2> SUFFICES ASSUME IInv, NEW t \in world.snapshots
               PROVE  LET s == t.id
                          images == {n \in Unused : s \in n.exclusive}
                          alone == {n \in Orphaned : n.snapshot.id = s}
                      IN /\ Cardinality(images) + Cardinality(alone) <= 1
                         /\ \A i \in world.images : s \in i.snapshots => alone = {} /\ \A n \in images : n.image = i
    BY DEF SnapshotBilledOnce
  <2> DEFINE s == t.id
             images == {n \in Unused : s \in n.exclusive}
             alone == {n \in Orphaned : n.snapshot.id = s}
  <2>1. /\ \A x \in world.snapshots : x.id = s => x = t
        /\ \A i \in world.images : s \in i.snapshots => i.owner = t.owner
    BY WorldAssumption DEF IInv, TypeOK
  <2>2. ASSUME NEW n \in images
        PROVE  n \in nodes /\ n.image \in world.images /\ Images(t.owner, s) = {n.image}
    <3>1. /\ n \in nodes /\ n.image \in world.images /\ s \in n.image.snapshots
          /\ Images(n.image.owner, s) = {n.image}
      BY <2>2 DEF IInv, TypeOK, NodesExclusive, Unused
    <3> QED
      BY <2>1, <3>1
  <2>3. ASSUME NEW n \in alone
        PROVE  n = [snapshot |-> t, count |-> 0] /\ Images(t.owner, s) = {}
    <3>1. n \in [snapshot : world.snapshots, count : Nat] /\ n.snapshot = t /\ n.count = 0
          /\ n.count >= Cardinality(Images(t.owner, s))
      BY <2>1, <2>3 DEF IInv, OrphansCounted, Orphaned
    <3> QED
      BY <3>1, ImagesFinite, FS_EmptySet
  <2>4. ASSUME NEW n \in images, NEW m \in images
        PROVE  n = m
    BY <2>2, <2>4 DEF IInv, NodesOnce
  <2>5. Cardinality({}) = 0 /\ \A x : Cardinality({x}) = 1
    BY FS_EmptySet, FS_Singleton
  <2>6. images = {} \/ alone = {}
    BY <2>2, <2>3
  <2>7. images = {} \/ \E x : images = {x}
    BY <2>4
  <2>8. alone = {} \/ \E x : alone = {x}
    BY <2>3
  <2>9. Cardinality(images) + Cardinality(alone) <= 1
    <3> HIDE DEF images, alone
    <3>1. ASSUME NEW S, S = {} \/ \E x : S = {x}
          PROVE  Cardinality(S) = 0 \/ Cardinality(S) = 1
      BY <2>5, <3>1
    <3>2. /\ Cardinality(images) = 0 \/ Cardinality(images) = 1
          /\ Cardinality(alone) = 0 \/ Cardinality(alone) = 1
      BY <2>7, <2>8, <3>1
    <3>3. Cardinality(images) = 0 \/ Cardinality(alone) = 0
      BY <2>5, <2>6
    <3> QED
      BY <3>2, <3>3
  <2>10. ASSUME NEW i \in world.images, s \in i.snapshots
         PROVE  alone = {} /\ \A n \in images : n.image = i
    <3>1. i \in Images(t.owner, s)
      BY <2>1, <2>10 DEF Images, ImagesOf
    <3> QED
      BY <2>2, <2>3, <3>1
  <2> QED
    BY <2>9, <2>10
<1> QED
  BY <1>1, Invariance, PTL
=============================================================================
