------------------------ MODULE MCInventoryExport ------------------------
(* Instances of InventoryExport for TLC; the configurations give the constants. *)
EXTENDS InventoryExport, TLC
=============================================================================
