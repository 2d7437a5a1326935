-------------------------- MODULE MCImageReferences -------------------------
(* Two owners in each cloud.  On AWS two images share a snapshot, one of them *)
(* in use by a fleet, and one has two block devices of one; on GCP a family   *)
(* and a template of the other project; on Azure a definition and a scale set *)
(* of the other subscription.                                                 *)
EXTENDS ImageReferences

Image(id, o, group, snapshots, old) ==
  [id |-> id, owner |-> o, group |-> group, snapshots |-> snapshots, twice |-> {}, old |-> old]
Twice(i) == [i EXCEPT !.twice = i.snapshots]
User(o, by, names) == [owner |-> o, by |-> by, names |-> names]
Snap(id, o, ami, old) == [id |-> id, owner |-> o, ami |-> ami, old |-> old]

Aws ==
  [provider |-> "aws", owners |-> {"a", "b"},
   images |-> {Image("web", "a", "", {"s1", "s2"}, TRUE), Image("base", "a", "", {"s2"}, TRUE),
               Image("new", "a", "", {"s3"}, FALSE), Image("other", "b", "", {"s9"}, TRUE),
               Twice(Image("pair", "a", "", {"s6"}, TRUE))},
   users |-> {User("a", "instance", <<"image", "new">>), User("a", "ec2_fleet", <<"image", "web">>),
              User("b", "launch_template", <<"image", "base">>), User("b", "spot_fleet", <<"image", "other">>)},
   snapshots |-> {Snap("s1", "a", TRUE, TRUE), Snap("s2", "a", TRUE, TRUE), Snap("s3", "a", TRUE, TRUE),
                  Snap("s4", "a", TRUE, TRUE), Snap("s5", "a", FALSE, TRUE),
                  Snap("s6", "a", TRUE, TRUE)}]

\* Nobody uses the two images that share a snapshot.
Shared == [Aws EXCEPT !.users = {User("a", "launch_configuration", <<"image", "new">>)}]

Gcp ==
  [provider |-> "gcp", owners |-> {"a", "b"},
   images |-> {Image("web", "a", "f", {}, TRUE), Image("old", "a", "f", {}, TRUE),
               Image("base", "a", "", {}, TRUE), Image("lone", "b", "", {}, TRUE)},
   users |-> {User("a", "instance_template", <<"group", "a", "f">>), User("b", "instance_template", <<"image", "base">>),
              User("b", "instance_template", Malformed)},
   snapshots |-> {}]

Readable == [Gcp EXCEPT !.users = @ \ {User("b", "instance_template", Malformed)}]

Azure ==
  [provider |-> "azure", owners |-> {"a", "b"},
   images |-> {Image("v1", "a", "def", {}, TRUE), Image("v2", "a", "def", {}, TRUE),
               Image("w1", "a", "alone", {}, TRUE), Image("x1", "b", "x", {}, TRUE)},
   users |-> {User("a", "vmss", <<"group", "a", "def">>), User("a", "vm", <<"image", "other">>), User("b", "vm", <<"image", "w1">>),
              User("b", "vm", Malformed)},
   snapshots |-> {}]

MCWorlds == {Aws, Shared, Gcp, Readable, Azure}
=============================================================================
