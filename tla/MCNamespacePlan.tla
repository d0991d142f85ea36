-------------------------- MODULE MCNamespacePlan --------------------------
(***************************************************************************)
(* A machine with one disk, the disk's claim and two that nobody uses.     *)
(***************************************************************************)
EXTENDS NamespacePlan

MCSources == {"vm", "disk"}
MCPVCs == {"pvc", "spare", "scratch"}
MCWeight == [s \in MCSources |-> IF s = "vm" THEN 1 ELSE 2]
MCUses == [s \in MCSources |-> IF s = "vm" THEN {"disk"} ELSE {}]
MCClaim == [s \in MCSources |-> IF s = "disk" THEN {"pvc"} ELSE {}]
MCBeginnings == {Objects, Objects \ {"vm"}, Objects \ {"disk"}}
=============================================================================
