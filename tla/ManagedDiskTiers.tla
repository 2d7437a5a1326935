-------------------------- MODULE ManagedDiskTiers --------------------------
(***************************************************************************)
(* The tiers Azure bills a managed disk by (pkg/pricing/azure/             *)
(* managed_disk.go): a tier is a letter for the product, a redundancy and  *)
(* a number, and its sizes double from one number to the next.             *)
(***************************************************************************)
EXTENDS Integers, Sequences, SequencesExt

Numbers == <<1, 2, 3, 4, 6, 10, 15, 20, 30, 40, 50, 60, 70, 80>>
SizeOf(i) == 4 * 2^(i - 1)

\* What an ARM disk SKU is sold as, and its smallest tier: the fourth for disks that
\* spin, sold from 32 GiB.
managedDiskFamilies ==
  LET family(product, letter, redundancy, first) ==
        [product |-> product, letter |-> letter, redundancy |-> redundancy, first |-> first]
  IN [Premium_LRS |-> family("Premium SSD", "P", "LRS", 1),
      Premium_ZRS |-> family("Premium SSD", "P", "ZRS", 1),
      StandardSSD_LRS |-> family("Standard SSD", "E", "LRS", 1),
      StandardSSD_ZRS |-> family("Standard SSD", "E", "ZRS", 1),
      Standard_LRS |-> family("Standard HDD", "S", "LRS", 4)]

Tier(family, i) == <<family.letter, family.redundancy, Numbers[i]>>

\* The tiers that stand for a SKU and a size: one, if the size is exactly a tier's,
\* and none otherwise; a disk between two tiers is not priced.
ManagedDiskTierSKU(sku, size) ==
  IF sku \notin DOMAIN managedDiskFamilies THEN {}
  ELSE LET family == managedDiskFamilies[sku]
       IN {Tier(family, i) : i \in {i \in family.first..Len(Numbers) : SizeOf(i) = size}}

\* The product a tier is listed under.
managedDiskProduct(tier) ==
  {managedDiskFamilies[sku].product : sku \in
     {sku \in DOMAIN managedDiskFamilies :
        LET family == managedDiskFamilies[sku]
        IN \E i \in family.first..Len(Numbers) : tier = Tier(family, i)}}
=============================================================================
