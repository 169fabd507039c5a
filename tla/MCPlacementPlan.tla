--------------------------- MODULE MCPlacementPlan ---------------------------
(***************************************************************************)
(* Small instance of PlacementPlan: every arrangement of cameras on two    *)
(* sites, of current boxes and of pins.  Two restrictions cut what differs *)
(* in name only: the sites are interchangeable, so the first camera is on  *)
(* HomeSite; and an unhealthy box, a box of no site and a box of capacity  *)
(* 0 are alike to the planner (Usable), so each box is one way unusable.   *)
(***************************************************************************)
EXTENDS PlacementPlan

CONSTANT HomeSite

MCInit ==
    /\ Init
    /\ cameras[1].site = HomeSite
    /\ agents[1].healthy = (agents[1].site # None)
    /\ agents[1].site = None => agents[1].capacity = 1
    /\ agents[2].site # None
    /\ ~agents[2].healthy => agents[2].site = HomeSite /\ agents[2].capacity = 1

MCSpec == MCInit /\ [][Next]_vars

==============================================================================
