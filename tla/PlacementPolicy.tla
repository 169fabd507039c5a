--------------------------- MODULE PlacementPolicy ---------------------------
(***************************************************************************)
(* What a placement of cameras on edge boxes must satisfy, as the policy   *)
(* of backend/app/services/camera_placement.py defines it.  A placement is *)
(* a function from camera ids to an agent or None ("unassigned").          *)
(*                                                                         *)
(*   cams[c]   = [site, current, pinned]     (CameraSlot)                  *)
(*   agents[a] = [site, capacity, healthy]   (AgentSlot)                   *)
(*                                                                         *)
(* The operators take the inputs as parameters because two modules use     *)
(* them: PlacementPlan, whose algorithm is shown to satisfy them, and      *)
(* Fleet, whose transactions apply a placement that does.                  *)
(***************************************************************************)
EXTENDS Integers, FiniteSets

CONSTANT None    \* Python's None: no agent, no site, no pin

\* An agent the planner may use at all (the `usable` dictionary).
Usable(agents, a) ==
    /\ agents[a].healthy
    /\ agents[a].site # None
    /\ agents[a].capacity > 0

\* The agents that can reach camera c: usable, and on the LAN of its site.
Hosts(cams, agents, c) ==
    {a \in DOMAIN agents : Usable(agents, a) /\ agents[a].site = cams[c].site}

Held(asg, a) == {c \in DOMAIN asg : asg[c] = a}

\* The cameras on a that a pin put there.
PinnedTo(cams, asg, a) == {c \in Held(asg, a) : cams[c].pinned = a}

\* The cameras on a with a prior claim: pinned to it, or running there before.
Residents(cams, asg, a) ==
    {c \in Held(asg, a) : \/ cams[c].pinned = a
                          \/ cams[c].pinned = None /\ cams[c].current = a}

------------------------------------------------------------------------------
\* Site affinity is absolute: nothing is placed on a box that cannot reach it.
AffinityKept(cams, agents, asg) ==
    \A c \in DOMAIN asg : asg[c] # None => asg[c] \in Hosts(cams, agents, c)

\* No box is given more cameras than it reported it can run.
CapacityKept(cams, agents, asg) ==
    \A a \in DOMAIN agents : Cardinality(Held(asg, a)) <= agents[a].capacity

\* A pin is honoured or the camera stays unplaced; it is never re-packed, and
\* only other pins to the same box can crowd it out.
PinsKept(cams, agents, asg) ==
    \A c \in DOMAIN asg :
        LET a == cams[c].pinned IN
        a # None =>
            /\ asg[c] \in {a, None}
            /\ asg[c] = None /\ a \in Hosts(cams, agents, c)
                => Cardinality(PinnedTo(cams, asg, a)) >= agents[a].capacity

\* A camera leaves a box that could still serve it only when pinned cameras and
\* cameras already running there fill that box: newcomers displace nobody.
MovesJustified(cams, agents, asg) ==
    \A c \in DOMAIN asg :
        LET a == cams[c].current IN
        (cams[c].pinned = None /\ a \in Hosts(cams, agents, c) /\ asg[c] # a)
            => Cardinality(Residents(cams, asg, a)) >= agents[a].capacity

\* Overflow: a camera is unassigned only when every box of its site is full.
OverflowJustified(cams, agents, asg) ==
    \A c \in DOMAIN asg :
        (cams[c].pinned = None /\ asg[c] = None) =>
            \A a \in Hosts(cams, agents, c) :
                Cardinality(Held(asg, a)) >= agents[a].capacity

\* New placements spread: a box that received one holds at most one camera
\* more than any box of the site that still has room.
NewcomersSpread(cams, agents, asg) ==
    \A c \in DOMAIN asg :
        (cams[c].pinned = None /\ asg[c] # None /\ asg[c] # cams[c].current) =>
            \A b \in Hosts(cams, agents, c) :
                \/ Cardinality(Held(asg, asg[c])) <= Cardinality(Held(asg, b)) + 1
                \/ Cardinality(Held(asg, b)) >= agents[b].capacity

Policy(cams, agents, asg) ==
    /\ AffinityKept(cams, agents, asg)
    /\ CapacityKept(cams, agents, asg)
    /\ PinsKept(cams, agents, asg)
    /\ MovesJustified(cams, agents, asg)
    /\ OverflowJustified(cams, agents, asg)
    /\ NewcomersSpread(cams, agents, asg)

==============================================================================
