----------------------------- MODULE MCAwsIngest ----------------------------
(* A management account, a unit with a member and a suspended account, a unit *)
(* below it with an account that is being closed.                            *)
EXTENDS AwsIngest

\* A volume with its users and, beside them, attachments that name no instance.
Vol(id, a, r, users, nameless) ==
  [id |-> id, account |-> a, region |-> r, users |-> users, attached |-> Cardinality(users) + nameless]
Ins(id, a, r) == [id |-> id, account |-> a, region |-> r]

World ==
  [organization |-> "o",
   status |-> [m |-> "ACTIVE", x |-> "ACTIVE", s |-> "SUSPENDED", c |-> "PENDING_CLOSURE"],
   parent |-> [m |-> Root, x |-> Unit("u"), s |-> Unit("u"), c |-> Unit("w")],
   above |-> [u |-> Root, w |-> Unit("u")],
   caller |-> "m",
   enabled |-> [m |-> {"r1"}, x |-> {"r1", "r2"}, s |-> {"r1"}, c |-> {"r1"}],
   indexed |-> [m |-> {"r1"}, x |-> {"r2"}, s |-> {}, c |-> {}],
   aggregator |-> [m |-> FALSE, x |-> TRUE, s |-> FALSE, c |-> FALSE],
   volumes |-> {Vol("v1", "m", "r1", {"i1"}, 0), Vol("v2", "x", "r1", {"gone"}, 0),
                Vol("v3", "x", "r2", {}, 0), Vol("v5", "x", "r1", {}, 1)},
   instances |-> {Ins("i1", "m", "r1"), Ins("i2", "x", "r2")}]

\* Two active accounts below the unit, and the management account there too.
Moved == [World EXCEPT !.status.c = "ACTIVE", !.parent.m = Unit("u"), !.aggregator.c = TRUE,
                       !.indexed.c = {"r1", "r2"}, !.enabled.c = {"r1", "r2"},
                       !.volumes = @ \cup {Vol("v4", "c", "r1", {"i3", "gone"}, 1)},
                       !.instances = @ \cup {Ins("i3", "c", "r1")}]

MCWorlds == {World, Moved}
MCScopes == {[kind |-> "account", id |-> "m"], [kind |-> "organization", id |-> "o"],
             [kind |-> "organization", id |-> "typo"], [kind |-> "unit", id |-> "u"]}
MCModes == {"explicit", "describe_regions", "resource_explorer"}
MCExplicit == {"r1", "r2"}
=============================================================================
