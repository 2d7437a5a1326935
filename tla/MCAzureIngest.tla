---------------------------- MODULE MCAzureIngest ---------------------------
(* A tenant with a group below a group.  One subscription has machines in two *)
(* regions, on two pages, one has only a scale set and a nameless row, one is *)
(* empty, and one repeats its token.                                          *)
EXTENDS AzureIngest

MCSpelling == ("" :> "") @@ ("East US" :> "eastus") @@ ("eastus" :> "eastus") @@ ("westeurope" :> "westeurope")

Row(id, type, s, group, location, fields) ==
  [id |-> id, type |-> type, subscription |-> Unnamed, owner |-> s, group |-> group,
   location |-> location, fields |-> fields]
Vm(id, s, group, location, size) ==
  Row(id, "vm", s, group, location,
      [vmSize |-> size, storageProfile |-> TRUE, imageReference |-> <<"definition", "d">>])
Disk(id, s, location) == Row(id, "disk", s, "rg1", location, [sku |-> "Premium_LRS", diskSizeGB |-> 0])

Page(content, next) == [rows |-> content, next |-> next, readable |-> TRUE]

Sku(name, vcpu, locations, infos) ==
  [name |-> name, type |-> "virtualMachines", standard |-> TRUE, vcpu |-> vcpu, mem |-> 8,
   family |-> "f", locations |-> locations, infos |-> infos]
Skus == {Sku("D2", 2, {"East US"}, {}), Sku("D4", 4, {}, {"westeurope"}), Sku("D0", 0, {"eastus"}, {}),
         [Sku("P10", 1, {"eastus"}, {}) EXCEPT !.type = "disks"]}

World ==
  [in |-> (Group("a") :> Group("t")) @@ (Group("b") :> Group("a")) @@ (Subscription(1) :> Group("a"))
          @@ (Subscription(2) :> Group("b")) @@ (Subscription(3) :> Group("t")) @@ (Subscription(4) :> Group("t")),
   bare |-> {},
   pages |-> <<
     <<Page({Vm("m1", 1, "rg1", "East US", "D2"), Disk("k1", 1, "eastus")}, 2),
       Page({Vm("m2", 1, "rg2", "westeurope", "D4"),
             [Row("v1", "galleryImageVersion", 1, "rg2", "eastus",
                  [definition |-> "d", osDisk |-> 10, publishedDate |-> 100]) EXCEPT !.subscription = 1]}, 0)>>,
     <<Page({Row("x1", "vmss", 2, "rg1", "eastus", [name |-> ""]), Row("", "disk", 2, "rg1", "eastus", [name |-> ""]),
             Vm("m3", 2, "rg1", "eastus", "D2"), Disk("k2", 2, "")}, 0)>>,
     <<Page({}, 0)>>,
     <<Page({Disk("k3", 4, "eastus")}, 2), Page({Disk("k4", 4, "eastus")}, 2)>>>>,
   skus |-> [s \in 1..4 |-> Skus]]

\* The properties of a group may not be shown, and a page may not be an array.
Dim == [World EXCEPT !.bare = {Group("b")}, !.pages[1][2].readable = FALSE]

MCWorlds == {World, Dim}
MCScopes == {[kind |-> "tenant", id |-> "t", within |-> ""], [kind |-> "group", id |-> "a", within |-> ""]}
            \cup [kind : {"subscription"}, id : {1, 4}, within : {"", "rg1"}]
=============================================================================
