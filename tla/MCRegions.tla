----------------------------- MODULE MCRegions -----------------------------
(***************************************************************************)
(* Regions on a small instance: two regions with unequal floors, a hub in  *)
(* each.                                                                   *)
(***************************************************************************)
EXTENDS Regions, TLC

CONSTANTS east, west, eastHub, westHub
RegionsOfHubs == [h \in Hubs |-> IF h = westHub THEN west ELSE east]
FloorShares == (east :> 30) @@ (west :> 45)
\* Bound: the regions' clocks are at most one tick apart.
RegionsScope == \A r, q \in Regions : clock[r] - clock[q] <= 1
=============================================================================
