--------------------------- MODULE MCFleetHealth ---------------------------
(***************************************************************************)
(* Small instances of FleetHealth for TLC.                                 *)
(***************************************************************************)
EXTENDS FleetHealth, TLC

CONSTANTS a1, a2, known, second, stray, north, south

(* One decoy of the inventory, which reports no site, and one that only    *)
(* shows up.                                                               *)
MCDecoys == {known, stray}
MCExpected == {known}
MCSites == {north, south, Unknown}
MCInventory == known :> north
MCReported == (known :> Unknown) @@ (stray :> south)

(* Two decoys of the inventory, which report no site.  A heartbeat of one  *)
(* leaves its site to be restored and the other's row inserted but not     *)
(* refreshed: then the fleet page, which refreshes first, and the worker,  *)
(* which reconciles first, lock the two in opposite orders.                *)
TwoExpected == {known, second}
InventoryOfTwo == [d \in TwoExpected |-> north]
ReportedOfTwo == [d \in TwoExpected |-> Unknown]

OneApi == {a1}
TwoApis == {a1, a2}

(* The requests being served are interchangeable. *)
Symmetry == Permutations(Apis)
=============================================================================
