---------------------------- MODULE AzurePrices -----------------------------
(***************************************************************************)
(* How the Azure Retail Prices are read (pkg/pricing/azure).  A row has a  *)
(* service, a product, an SKU, a meter, a region, a type, a unit of        *)
(* measure and a price.  Its exclusions are marks on the row: "spot" also  *)
(* for low priority, "windows".                                            *)
(***************************************************************************)
EXTENDS ManagedDiskTiers

HoursOfMonth == 730

Listed(row, region) ==
  row.armRegionName = region /\ row.type = "Consumption" /\ row.tierMinimumUnits = 0

\* The product a gallery image's storage is sold under.
galleryImageStorageProduct ==
  [Standard_LRS |-> "Standard HDD", StandardSSD_LRS |-> "Standard SSD", Premium_LRS |-> "Premium SSD"]

\* The rows that price a key, of all the rows there are.  The server is sent as many
\* of the predicates as it takes and the client applies all.
managedDiskRows(rows, sku, region) ==
  {row \in rows : /\ Listed(row, region) /\ row.isPrimaryMeterRegion
                  /\ row.serviceName = "Storage" /\ row.skuName = sku
                  /\ row.productName \in managedDiskProduct(sku)
                  /\ row.meterName = "Disk" /\ row.marks = {}}

galleryImageStorageRows(rows, sku, region) ==
  {row \in rows : /\ sku \in DOMAIN galleryImageStorageProduct
                  /\ Listed(row, region) /\ row.isPrimaryMeterRegion
                  /\ row.serviceName = "Storage" /\ row.skuName = <<"Snapshots", "LRS">>
                  /\ row.productName = galleryImageStorageProduct[sku]
                  /\ row.meterName = "Snapshots"}

staticIPRows(rows, sku, region) ==
  {row \in rows : /\ sku = "Standard" /\ Listed(row, region)
                  /\ row.serviceName = "Virtual Network" /\ row.skuName = <<"Standard">>
                  /\ row.productName = "IP Addresses"
                  /\ row.meterName = "Standard IPv4 Static Public IP" /\ row.marks = {}}

\* Windows has its own rows, and an operating system that is neither has none.
vmRows(rows, sku, region) ==
  {row \in rows : /\ sku[2] \in {"linux", "windows"} /\ Listed(row, region)
                  /\ row.armSkuName = sku[1]
                  /\ row.productName = "Virtual Machines Series"
                  /\ row.marks = IF sku[2] = "windows" THEN {"windows"} ELSE {}}

matchFilters(rows, kind, sku, region) ==
  CASE region = "" -> {}
    [] kind = "managed_disk" -> managedDiskRows(rows, sku, region)
    [] kind = "gallery_image_storage" -> galleryImageStorageRows(rows, sku, region)
    [] kind = "static_ip" -> staticIPRows(rows, sku, region)
    [] kind = "vm" -> vmRows(rows, sku, region)
    [] OTHER -> {}

\* The price per the unit the kind is asked in, if the unit of measure is one of its.
normalizeUnitPrice(kind, row) ==
  LET monthly == kind = "managed_disk"
  IN CASE kind = "gallery_image_storage" ->
            IF row.unitOfMeasure = "1 GiB/Month" THEN {row.price}
            ELSE IF row.unitOfMeasure = "1 GB/Month" THEN {(row.price * 1073741824) \div 1000000000} ELSE {}
       [] row.unitOfMeasure = "1 Hour" -> {IF monthly THEN row.price * HoursOfMonth ELSE row.price}
       [] row.unitOfMeasure = "1/Month" -> {IF monthly THEN row.price ELSE row.price \div HoursOfMonth}
       [] OTHER -> {}

\* The price of the one SKU whose rows agree; rows that differ leave none.
selectPrice(rows, kind, sku, region) ==
  LET found == UNION {normalizeUnitPrice(kind, row) \X {row.skuName} :
                      row \in matchFilters(rows, kind, sku, region)}
  IN IF \E f \in found : found = {f} THEN {f[1] : f \in found} ELSE {}
=============================================================================
