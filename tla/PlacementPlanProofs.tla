------------------------- MODULE PlacementPlanProofs -------------------------
(***************************************************************************)
(* plan_placement satisfies the placement policy for every set of cameras, *)
(* agents, sites and capacities.  The argument is the loop invariant       *)
(* PlanInv: it holds initially, each way a camera is settled preserves it  *)
(* (Place, Drop, HandOn), and at "done" it says the plan obeys the policy. *)
(***************************************************************************)
EXTENDS PlacementPlan, FiniteSetTheorems, TLAPS

(***************************************************************************)
(* The three passes differ only in when they place, drop or hand on.       *)
(***************************************************************************)
HandsOn(p, c) ==
    /\ Visit(p, c) /\ HandOn(c)
    /\ \/ p = "pins" /\ cameras[c].pinned = None
       \/ p = "sticky" /\ ~CanHost(cameras[c].current, c)

Places(p, c, a) ==
    /\ Visit(p, c) /\ Place(c, a)
    /\ a \in Agents /\ CanHost(a, c)
    /\ \/ p = "pins" /\ cameras[c].pinned = a
       \/ p = "sticky" /\ cameras[c].current = a
       \/ p = "new" /\ LeastLoaded(a, c)

Drops(p, c) ==
    /\ Visit(p, c) /\ Drop(c)
    /\ \/ p = "pins" /\ cameras[c].pinned # None /\ ~CanHost(cameras[c].pinned, c)
       \/ p = "new" /\ Candidates(c) = {}

LEMMA CameraStep ==
  ASSUME TypeOK, NEW c \in Cameras, PlacePinned(c) \/ KeepSticky(c) \/ PlaceNew(c)
  PROVE  \E p \in {"pins", "sticky", "new"} :
           HandsOn(p, c) \/ (\E a \in Agents : Places(p, c, a)) \/ Drops(p, c)
<1>0. cameras[c].current \in Agents \cup {None} /\ cameras[c].pinned \in Agents \cup {None}
  BY DEF TypeOK, CameraSlot
<1>1. CASE PlacePinned(c)
  <2> DEFINE pin == cameras[c].pinned
  <2>1. CASE pin = None /\ HandOn(c)
    BY <1>1, <2>1 DEF PlacePinned, HandsOn
  <2>2. CASE pin # None /\ CanHost(pin, c) /\ Place(c, pin)
    BY <1>0, <1>1, <2>2 DEF PlacePinned, Places
  <2>3. CASE pin # None /\ ~CanHost(pin, c) /\ Drop(c)
    BY <1>1, <2>3 DEF PlacePinned, Drops
  <2>4. QED BY <1>1, <2>1, <2>2, <2>3 DEF PlacePinned
<1>2. CASE KeepSticky(c)
  <2> DEFINE here == cameras[c].current
  <2>1. CASE CanHost(here, c) /\ Place(c, here)
    <3>1. here \in Agents
      BY <1>0, <2>1 DEF CanHost
    <3>2. QED BY <1>2, <2>1, <3>1 DEF KeepSticky, Places
  <2>2. CASE ~CanHost(here, c) /\ HandOn(c)
    BY <1>2, <2>2 DEF KeepSticky, HandsOn
  <2>3. QED BY <1>2, <2>1, <2>2 DEF KeepSticky
<1>3. CASE PlaceNew(c)
  <2>1. ASSUME NEW a \in Agents, LeastLoaded(a, c), Place(c, a)
        PROVE  Places("new", c, a)
    BY <1>3, <2>1 DEF PlaceNew, Places, LeastLoaded, Candidates
  <2>2. CASE Candidates(c) = {} /\ Drop(c)
    BY <1>3, <2>2 DEF PlaceNew, Drops
  <2>3. QED BY <1>3, <2>1, <2>2 DEF PlaceNew
<1>4. QED BY <1>1, <1>2, <1>3

(***************************************************************************)
(* Type correctness.                                                       *)
(***************************************************************************)
LEMMA TypeOfPlaces ==
  ASSUME TypeOK, NEW p, NEW c \in Cameras, NEW a \in Agents, Places(p, c, a)
  PROVE  TypeOK'
<1>1. load' \in [Agents -> Nat]
  BY DEF TypeOK, Places, Place
<1>2. assignments' \in [Cameras -> Agents \cup {None}]
  BY DEF TypeOK, Places, Place
<1>3. moved' \subseteq Cameras
  BY DEF TypeOK, Places, Place
<1>4. QED BY <1>1, <1>2, <1>3 DEF TypeOK, Places, Place, Visit

LEMMA TypeOfDrops ==
  ASSUME TypeOK, NEW p, NEW c \in Cameras, Drops(p, c)
  PROVE  TypeOK'
<1>1. assignments' \in [Cameras -> Agents \cup {None}]
  BY DEF TypeOK, Drops, Drop
<1>2. moved' \subseteq Cameras
  BY DEF TypeOK, Drops, Drop
<1>3. QED BY <1>1, <1>2 DEF TypeOK, Drops, Drop, Visit

LEMMA TypeOfHandsOn ==
  ASSUME TypeOK, NEW p, NEW c \in Cameras, HandsOn(p, c)
  PROVE  TypeOK'
BY DEF TypeOK, HandsOn, HandOn, Visit, plan

LEMMA TypeOfNextPass ==
  ASSUME TypeOK, NEW p, NEW q \in {"sticky", "new", "done"}, NextPass(p, q)
  PROVE  TypeOK'
BY DEF TypeOK, NextPass

LEMMA TypeOfReapply ==
  ASSUME TypeOK, Reapply
  PROVE  TypeOK'
<1>1. cameras' \in [Cameras -> CameraSlot]
  <2>1. ASSUME NEW c \in Cameras
        PROVE  [cameras[c] EXCEPT !.current = assignments[c]] \in CameraSlot
    BY DEF TypeOK, CameraSlot
  <2>2. QED BY <2>1 DEF TypeOK, Reapply
<1>2. round' \in 1 .. MaxRounds
  BY PlanAssumption DEF TypeOK, Reapply
<1>3. agents' \in [Agents -> AgentSlot] /\ pass' \in {"pins", "sticky", "new", "done"}
  BY DEF TypeOK, Reapply
<1>4. load' \in [Agents -> Nat] /\ assignments' \in [Cameras -> Agents \cup {None}]
  BY DEF Reapply
<1>5. todo' \subseteq Cameras /\ later' \subseteq Cameras /\ moved' \subseteq Cameras /\ unassigned' \subseteq Cameras
  BY DEF Reapply
<1>6. QED BY <1>1, <1>2, <1>3, <1>4, <1>5 DEF TypeOK

LEMMA TypeOfNext == TypeOK /\ [Next]_vars => TypeOK'
<1> SUFFICES ASSUME TypeOK, [Next]_vars PROVE TypeOK'
  OBVIOUS
<1>1. ASSUME NEW c \in Cameras, PlacePinned(c) \/ KeepSticky(c) \/ PlaceNew(c)
      PROVE  TypeOK'
  BY <1>1, CameraStep, TypeOfPlaces, TypeOfDrops, TypeOfHandsOn
<1>2. CASE NextPass("pins", "sticky") \/ NextPass("sticky", "new") \/ NextPass("new", "done")
  BY <1>2, TypeOfNextPass
<1>3. CASE Reapply
  BY <1>3, TypeOfReapply
<1>4. CASE UNCHANGED vars
  BY <1>4 DEF TypeOK, vars
<1>5. QED BY <1>1, <1>2, <1>3, <1>4 DEF Next

\* The variables stay in their types: in particular nothing but a known agent,
\* or None, is ever assigned (camera_placement.py:128-140).
THEOREM TypeCorrect == Spec => []TypeOK
<1>1. Init => TypeOK
  BY PlanAssumption DEF Init, TypeOK
<1>2. QED BY <1>1, TypeOfNext, PTL DEF Spec

(***************************************************************************)
(* What the steps do to the cameras a box holds.                           *)
(***************************************************************************)
LEMMA DomainFacts ==
  ASSUME TypeOK
  PROVE  /\ DOMAIN agents = Agents /\ DOMAIN assignments = Cameras
         /\ \A c \in Cameras, a \in Agents :
               CanHost(a, c) <=> a \in Hosts(cameras, agents, c) /\ load[a] < agents[a].capacity
         /\ \A c \in Cameras : Hosts(cameras, agents, c) \subseteq Agents
         /\ \A a \in Agents : agents[a].capacity \in Nat /\ load[a] \in Nat
         /\ \A a \in Agents : a # None
BY PlanAssumption DEF TypeOK, CanHost, Hosts, AgentSlot

LEMMA HeldFinite ==
  ASSUME TypeOK, NEW a, NEW S \in SUBSET Held(assignments, a)
  PROVE  IsFiniteSet(S) /\ Cardinality(S) \in Nat
<1>1. S \in SUBSET Cameras
  BY DEF TypeOK, Held
<1>2. IsFiniteSet(S)
  BY <1>1, FS_Subset, PlanAssumption
<1>3. QED BY <1>2, FS_CardinalityType

LEMMA HeldAfterPlace ==
  ASSUME TypeOK, Bookkeeping, NEW p, NEW c \in Cameras, NEW a \in Agents, Places(p, c, a)
  PROVE  /\ c \notin Held(assignments, a)
         /\ Held(assignments', a) = Held(assignments, a) \cup {c}
         /\ \A b \in Agents \ {a} : Held(assignments', b) = Held(assignments, b)
         /\ \A b \in Agents : load'[b] = Cardinality(Held(assignments', b))
<1>1. assignments[c] = None /\ a # None /\ DOMAIN assignments' = Cameras
  BY PlanAssumption DEF Bookkeeping, Places, Visit, Place, TypeOK
<1>2. c \notin Held(assignments, a)
  BY <1>1 DEF Held
<1>3. Held(assignments', a) = Held(assignments, a) \cup {c}
  BY <1>1 DEF Held, Places, Place, TypeOK
<1>4. ASSUME NEW b \in Agents \ {a} PROVE Held(assignments', b) = Held(assignments, b)
  BY <1>1, PlanAssumption DEF Held, Places, Place, TypeOK
<1>5. Cardinality(Held(assignments', a)) = Cardinality(Held(assignments, a)) + 1
  BY <1>2, <1>3, HeldFinite, FS_AddElement
<1>6. \A b \in Agents : load'[b] = Cardinality(Held(assignments', b))
  BY <1>4, <1>5 DEF Bookkeeping, Places, Place, TypeOK
<1>7. QED BY <1>2, <1>3, <1>4, <1>6

\* Prior claims to a box only grow.
LEMMA ClaimsGrow ==
  ASSUME TypeOK, Bookkeeping, NEW p, NEW c \in Cameras, NEW a \in Agents, Places(p, c, a),
         NEW b \in Agents
  PROVE  /\ Cardinality(Residents(cameras, assignments', b))
              >= Cardinality(Residents(cameras, assignments, b))
         /\ Cardinality(PinnedTo(cameras, assignments', b))
              >= Cardinality(PinnedTo(cameras, assignments, b))
         /\ Cardinality(Residents(cameras, assignments', b)) \in Nat
         /\ Cardinality(PinnedTo(cameras, assignments', b)) \in Nat
<1>1. Held(assignments, b) \subseteq Held(assignments', b)
  BY HeldAfterPlace
<1>2. TypeOK'
  BY TypeOfPlaces
<1>3. Residents(cameras, assignments, b) \subseteq Residents(cameras, assignments', b)
  BY <1>1 DEF Residents
<1>4. PinnedTo(cameras, assignments, b) \subseteq PinnedTo(cameras, assignments', b)
  BY <1>1 DEF PinnedTo
<1>5. Held(assignments', b) \subseteq Cameras
  BY <1>2 DEF Held, TypeOK
<1>6. /\ IsFiniteSet(Residents(cameras, assignments', b))
      /\ IsFiniteSet(PinnedTo(cameras, assignments', b))
  <2>1. Residents(cameras, assignments', b) \in SUBSET Cameras
    BY <1>5 DEF Residents
  <2>2. PinnedTo(cameras, assignments', b) \in SUBSET Cameras
    BY <1>5 DEF PinnedTo
  <2>3. QED BY <2>1, <2>2, FS_Subset, PlanAssumption
<1>7. /\ Cardinality(Residents(cameras, assignments, b))
           <= Cardinality(Residents(cameras, assignments', b))
      /\ Cardinality(PinnedTo(cameras, assignments, b))
           <= Cardinality(PinnedTo(cameras, assignments', b))
  BY <1>3, <1>4, <1>6, FS_Subset
<1>8. /\ Cardinality(Residents(cameras, assignments, b)) \in Nat
      /\ Cardinality(PinnedTo(cameras, assignments, b)) \in Nat
  BY HeldFinite DEF Residents, PinnedTo
<1>9. /\ Cardinality(Residents(cameras, assignments', b)) \in Nat
      /\ Cardinality(PinnedTo(cameras, assignments', b)) \in Nat
  BY <1>6, FS_CardinalityType
<1>10. QED BY <1>7, <1>8, <1>9

\* While only pins have been placed a box holds nothing but pinned cameras, and
\* until the last pass nothing but residents.
LEMMA OnlyClaims ==
  ASSUME TypeOK, Bookkeeping, PassOrder, PinsSoFar, NEW a \in Agents
  PROVE  /\ pass = "pins" => PinnedTo(cameras, assignments, a) = Held(assignments, a)
         /\ pass \in {"pins", "sticky"} =>
               Residents(cameras, assignments, a) = Held(assignments, a)
<1>1. ASSUME NEW c \in Held(assignments, a)
      PROVE  c \in Planned /\ assignments[c] = a /\ a # None
  BY PlanAssumption DEF Held, Planned, Bookkeeping, TypeOK
<1>2. ASSUME pass = "pins"
      PROVE  PinnedTo(cameras, assignments, a) = Held(assignments, a)
  <2>1. ASSUME NEW c \in Held(assignments, a)
        PROVE  cameras[c].pinned = a
    BY <1>1, <1>2, <2>1 DEF PassOrder, PinsSoFar
  <2>2. QED BY <2>1 DEF PinnedTo
<1>3. ASSUME pass \in {"pins", "sticky"}
      PROVE  Residents(cameras, assignments, a) = Held(assignments, a)
  <2>1. ASSUME NEW c \in Held(assignments, a)
        PROVE  \/ cameras[c].pinned = a
               \/ cameras[c].pinned = None /\ cameras[c].current = a
    BY <1>1, <1>3, <2>1 DEF PassOrder, PinsSoFar
  <2>2. QED BY <2>1 DEF Residents
<1>4. QED BY <1>2, <1>3

(***************************************************************************)
(* Placing a camera preserves the loop invariant.                          *)
(***************************************************************************)
LEMMA PlacesPreserves ==
  ASSUME PlanInv, NEW p \in {"pins", "sticky", "new"}, NEW c \in Cameras, NEW a \in Agents,
         Places(p, c, a)
  PROVE  PlanInv'
<1> USE DEF PlanInv
<1>1. TypeOK'
  BY TypeOfPlaces
<1>2. /\ UNCHANGED <<cameras, agents, pass, later, unassigned>>
      /\ pass = p /\ c \in todo /\ todo' = todo \ {c}
      /\ assignments' = [assignments EXCEPT ![c] = a]
      /\ load' = [load EXCEPT ![a] = @ + 1]
  BY DEF Places, Visit, Place
<1>3. /\ assignments' \in [Cameras -> Agents \cup {None}] /\ assignments'[c] = a
      /\ \A d \in Cameras \ {c} : assignments'[d] = assignments[d]
      /\ a # None
      /\ c \notin later /\ assignments[c] = None
  BY <1>2, PlanAssumption DEF TypeOK, Bookkeeping
<1>4. Planned' = Planned \cup {c} /\ c \notin Planned
  BY <1>2, <1>3 DEF Planned
<1>5. a \in Hosts(cameras, agents, c) /\ load[a] < agents[a].capacity
  BY DomainFacts DEF Places
<1>6a. \A b \in Agents : load'[b] = Cardinality(Held(assignments', b))
  BY HeldAfterPlace
<1>6. Bookkeeping'
  <2>1. (todo \cap later = {})' /\ (pass = "new" => later = {})' /\ (Done => todo \cup later = {})'
    BY <1>2 DEF Bookkeeping, Done
  <2>2. (\A d \in todo \cup later : assignments[d] = None)'
    BY <1>2, <1>3 DEF Bookkeeping, TypeOK
  <2>3. (moved = {d \in Planned : assignments[d] # cameras[d].current})'
    <3>1. \A d \in Planned : assignments'[d] = assignments[d] /\ cameras'[d] = cameras[d]
      BY <1>2, <1>3, <1>4 DEF Planned
    <3>2. CASE cameras[c].current # a
      <4>1. moved' = moved \cup {c}
        BY <3>2 DEF Places, Place
      <4>2. QED BY <3>1, <3>2, <4>1, <1>2, <1>3, <1>4 DEF Bookkeeping
    <3>3. CASE cameras[c].current = a
      <4>1. moved' = moved
        BY <3>3 DEF Places, Place
      <4>2. QED BY <3>1, <3>3, <4>1, <1>2, <1>3, <1>4 DEF Bookkeeping
    <3>4. QED BY <3>2, <3>3
  <2>4. (unassigned = {d \in Planned : assignments[d] = None})'
    <3>1. \A d \in Planned : assignments'[d] = assignments[d]
      BY <1>3, <1>4 DEF Planned
    <3>2. QED BY <3>1, <1>2, <1>3, <1>4 DEF Bookkeeping
  <2>5. (\A b \in Agents : load[b] = Cardinality(Held(assignments, b)))'
    BY <1>6a
  <2>6. QED BY <2>1, <2>2, <2>3, <2>4, <2>5 DEF Bookkeeping
<1>7. PassOrder'
  <2>1. p = "pins" => cameras[c].pinned = a
    BY DEF Places
  <2>2. p = "sticky" => cameras[c].current = a
    BY DEF Places
  <2>3. \A d \in Planned : assignments'[d] = assignments[d]
    BY <1>3, <1>4 DEF Planned
  <2>4. QED BY <1>2, <1>3, <1>4, <2>1, <2>2, <2>3 DEF PassOrder
<1>8. AffinityKept(cameras, agents, assignments)'
  <2>1. ASSUME NEW d \in Cameras, assignments'[d] # None
        PROVE  assignments'[d] \in Hosts(cameras, agents, d)
    BY <1>3, <1>5, <2>1, DomainFacts DEF AffinityKept
  <2>2. QED BY <2>1, <1>2, <1>3 DEF AffinityKept
<1>9. CapacityKept(cameras, agents, assignments)'
  <2>1. ASSUME NEW b \in Agents
        PROVE  load'[b] <= agents[b].capacity
    <3>1. load[b] <= agents[b].capacity
      BY DomainFacts DEF CapacityKept, Bookkeeping
    <3>2. QED BY <3>1, <1>2, <1>5, DomainFacts DEF TypeOK
  <2>2. DOMAIN agents' = Agents
    BY <1>2, DomainFacts
  <2>3. QED BY <2>1, <2>2, <1>2, <1>6a DEF CapacityKept
<1>10. PinsSoFar'
  <2>1. ASSUME NEW d \in Planned, NEW b \in Agents, cameras[d].pinned = b,
               assignments'[d] = None, b \in Hosts(cameras, agents, d)
        PROVE  Cardinality(PinnedTo(cameras, assignments', b)) >= agents[b].capacity
    <3>1. Cardinality(PinnedTo(cameras, assignments, b)) >= agents[b].capacity
      BY <2>1, <1>3, <1>4, PlanAssumption DEF PinsSoFar, Planned
    <3>2. Cardinality(PinnedTo(cameras, assignments, b)) \in Nat
      BY HeldFinite DEF PinnedTo
    <3>3. QED BY <3>1, <3>2, ClaimsGrow, DomainFacts
  <2>2. \A d \in Planned : assignments'[d] = assignments[d]
    BY <1>3, <1>4 DEF Planned
  <2>3. cameras[c].pinned # None => assignments'[c] = cameras[c].pinned
    BY <1>2, <1>3 DEF Places, PassOrder
  <2>4. \A d \in Cameras : cameras[d].pinned \in Agents \cup {None}
    BY DEF TypeOK, CameraSlot
  <2>5. ASSUME NEW d \in Planned', cameras[d].pinned # None
        PROVE  /\ assignments'[d] \in {cameras[d].pinned, None}
               /\ assignments'[d] = None /\ cameras[d].pinned \in Hosts(cameras, agents, d)
                   => Cardinality(PinnedTo(cameras, assignments', cameras[d].pinned))
                         >= agents[cameras[d].pinned].capacity
    <3>1. CASE d = c
      BY <3>1, <2>3, <2>5
    <3>2. CASE d \in Planned
      <4>1. assignments'[d] \in {cameras[d].pinned, None}
        BY <3>2, <2>2, <2>5 DEF PinsSoFar
      <4>2. QED BY <4>1, <3>2, <2>1, <2>4, <2>5 DEF Planned
    <3>3. QED BY <3>1, <3>2, <1>4
  <2>6. QED BY <2>5, <1>2 DEF PinsSoFar
<1>11. MovesSoFar'
  <2>1. ASSUME NEW d \in Cameras, NEW b \in Agents, cameras[d].current = b,
               cameras[d].pinned = None,
               b \in Hosts(cameras, agents, d), assignments'[d] # b,
               pass \in {"new", "done"} \/ (pass = "sticky" /\ d \in later)
        PROVE  Cardinality(Residents(cameras, assignments', b)) >= agents[b].capacity
    <3>1. assignments[d] # b
      BY <2>1, <1>3, PlanAssumption
    <3>2. Cardinality(Residents(cameras, assignments, b)) >= agents[b].capacity
      BY <2>1, <3>1 DEF MovesSoFar
    <3>3. Cardinality(Residents(cameras, assignments, b)) \in Nat
      BY HeldFinite DEF Residents
    <3>4. QED BY <3>2, <3>3, ClaimsGrow, DomainFacts
  <2>2. QED BY <2>1, <1>2, DomainFacts DEF MovesSoFar
<1>12. OverflowSoFar'
  <2>1. ASSUME NEW b \in Agents, load[b] >= agents[b].capacity PROVE load'[b] >= agents[b].capacity
    BY <2>1, <1>2, DomainFacts DEF TypeOK
  <2>2. QED BY <2>1, <1>2, DomainFacts DEF OverflowSoFar, TypeOK
<1>13. NewcomersSpread(cameras, agents, assignments)'
  <2>1. ASSUME NEW d \in Cameras, cameras[d].pinned = None, assignments'[d] # None,
               assignments'[d] # cameras[d].current, NEW b \in Hosts(cameras, agents, d)
        PROVE  load'[assignments'[d]] <= load'[b] + 1 \/ load'[b] >= agents[b].capacity
    <3>1. b \in Agents /\ assignments'[d] \in Agents
      BY <1>3, <2>1, DomainFacts
    <3>2. CASE d = c
      <4>1. p = "new" /\ LeastLoaded(a, c)
        BY <1>2, <1>3, <2>1, <3>2 DEF Places
      <4>2. CASE load[b] < agents[b].capacity
        <5>1. b \in Candidates(c)
          BY <4>2, <3>1, <3>2, DomainFacts DEF Candidates
        <5>2. load[a] <= load[b]
          BY <4>1, <5>1, <3>1, DomainFacts DEF LeastLoaded
        <5>3. QED BY <5>2, <3>1, <3>2, <1>2, <1>3, DomainFacts DEF TypeOK
      <4>3. CASE load[b] >= agents[b].capacity
        BY <4>3, <3>1, <1>2, DomainFacts DEF TypeOK
      <4>4. QED BY <4>2, <4>3, <3>1, DomainFacts
    <3>3. CASE d # c
      <4> DEFINE e == assignments[d]
      <4>1. e = assignments'[d] /\ e \in Agents
        BY <3>1, <3>3, <1>3
      <4>2. load[e] <= load[b] + 1 \/ load[b] >= agents[b].capacity
        BY <2>1, <4>1, <3>1, <1>3 DEF NewcomersSpread, Bookkeeping, TypeOK
      <4>3. CASE e # a
        BY <4>1, <4>2, <4>3, <3>1, <1>2, DomainFacts DEF TypeOK
      <4>4. CASE e = a
        <5>1. p = "new"
          <6>1. d \in Planned
            BY <4>1, <1>3, PlanAssumption DEF Planned, Bookkeeping
          <6>2. QED BY <6>1, <1>2, <2>1, <4>1 DEF PassOrder
        <5>2. LeastLoaded(a, c) /\ cameras[d].site = cameras[c].site
          <6>1. a \in Hosts(cameras, agents, d)
            BY <4>1, <4>4, <1>3, DomainFacts DEF AffinityKept
          <6>2. cameras[d].site = cameras[c].site
            BY <6>1, <1>5 DEF Hosts
          <6>3. LeastLoaded(a, c)
            BY <5>1 DEF Places
          <6>4. QED BY <6>2, <6>3
        <5>3. CASE load[b] < agents[b].capacity
          <6>1. b \in Candidates(c)
            BY <5>2, <5>3, <3>1, <2>1, DomainFacts DEF Candidates, Hosts
          <6>2. load[a] <= load[b]
            BY <5>2, <6>1, <3>1, DomainFacts DEF LeastLoaded
          <6>3. QED BY <6>2, <4>1, <4>4, <3>1, <1>2, DomainFacts DEF TypeOK
        <5>4. CASE load[b] >= agents[b].capacity
          BY <5>4, <3>1, <1>2, DomainFacts DEF TypeOK
        <5>5. QED BY <5>3, <5>4, <3>1, DomainFacts
      <4>5. QED BY <4>3, <4>4
    <3>4. QED BY <3>2, <3>3
  <2>2. ASSUME NEW d \in Cameras, assignments'[d] # None PROVE assignments'[d] \in Agents
    BY <2>2, <1>3
  <2>3. \A d \in Cameras : Hosts(cameras, agents, d) \subseteq Agents
    BY DomainFacts
  <2>4. ASSUME NEW d \in Cameras, cameras[d].pinned = None, assignments'[d] # None,
               assignments'[d] # cameras[d].current, NEW b \in Hosts(cameras, agents, d)
        PROVE  \/ Cardinality(Held(assignments', assignments'[d]))
                     <= Cardinality(Held(assignments', b)) + 1
               \/ Cardinality(Held(assignments', b)) >= agents[b].capacity
    BY <2>1, <2>2, <2>3, <2>4, <1>6a
  <2>5. DOMAIN assignments' = Cameras
    BY <1>3
  <2>6. QED BY <2>4, <2>5, <1>2 DEF NewcomersSpread
<1>14. QED BY <1>1, <1>6, <1>7, <1>8, <1>9, <1>10, <1>11, <1>12, <1>13

(***************************************************************************)
(* Dropping a camera preserves it: no box's cameras change.                *)
(***************************************************************************)
LEMMA DropsPreserves ==
  ASSUME PlanInv, NEW p \in {"pins", "sticky", "new"}, NEW c \in Cameras, Drops(p, c)
  PROVE  PlanInv'
<1> USE DEF PlanInv
<1>1. TypeOK'
  BY TypeOfDrops
<1>2. /\ UNCHANGED <<cameras, agents, pass, later, load>>
      /\ pass = p /\ c \in todo /\ todo' = todo \ {c} /\ unassigned' = unassigned \cup {c}
      /\ p \in {"pins", "new"}
  BY DEF Drops, Visit, Drop
<1>3. assignments[c] = None /\ c \notin later
  BY <1>2 DEF Bookkeeping
<1>4. assignments' = assignments
  BY <1>3 DEF Drops, Drop, TypeOK
<1>5. Planned' = Planned \cup {c} /\ c \notin Planned
  BY <1>2, <1>3 DEF Planned
<1>6. Bookkeeping'
  <2>1. (todo \cap later = {})' /\ (pass = "new" => later = {})' /\ (Done => todo \cup later = {})'
    BY <1>2 DEF Bookkeeping, Done
  <2>2. (\A d \in todo \cup later : assignments[d] = None)'
    BY <1>2, <1>4 DEF Bookkeeping
  <2>3. (moved = {d \in Planned : assignments[d] # cameras[d].current})'
    <3>1. CASE cameras[c].current # None
      <4>1. moved' = moved \cup {c}
        BY <3>1 DEF Drops, Drop
      <4>2. QED BY <3>1, <4>1, <1>2, <1>3, <1>4, <1>5 DEF Bookkeeping
    <3>2. CASE cameras[c].current = None
      <4>1. moved' = moved
        BY <3>2 DEF Drops, Drop
      <4>2. QED BY <3>2, <4>1, <1>2, <1>3, <1>4, <1>5 DEF Bookkeeping
    <3>3. QED BY <3>1, <3>2
  <2>4. (unassigned = {d \in Planned : assignments[d] = None})'
    BY <1>2, <1>3, <1>4, <1>5 DEF Bookkeeping
  <2>5. (\A b \in Agents : load[b] = Cardinality(Held(assignments, b)))'
    BY <1>2, <1>4 DEF Bookkeeping
  <2>6. QED BY <2>1, <2>2, <2>3, <2>4, <2>5 DEF Bookkeeping
<1>7. PassOrder'
  <2>1. p = "pins" => cameras[c].pinned # None
    BY DEF Drops
  <2>2. QED BY <1>2, <1>3, <1>4, <1>5, <2>1 DEF PassOrder
<1>8. PinsSoFar'
  <2>1. ASSUME NEW a \in Agents, cameras[c].pinned = a, a \in Hosts(cameras, agents, c)
        PROVE  Cardinality(PinnedTo(cameras, assignments, a)) >= agents[a].capacity
    <3>1. p = "pins"
      BY <1>2, <2>1, PlanAssumption DEF PassOrder
    <3>2. ~CanHost(a, c)
      BY <2>1, <3>1 DEF Drops
    <3>3. load[a] >= agents[a].capacity
      BY <3>2, <2>1, DomainFacts
    <3>4. PinnedTo(cameras, assignments, a) = Held(assignments, a)
      BY <3>1, <1>2, OnlyClaims
    <3>5. QED BY <3>3, <3>4 DEF Bookkeeping
  <2>2. cameras[c].pinned \in Agents \cup {None}
    BY DEF TypeOK, CameraSlot
  <2>3. QED BY <2>1, <2>2, <1>2, <1>3, <1>4, <1>5 DEF PinsSoFar
<1>9. AffinityKept(cameras, agents, assignments)' /\ CapacityKept(cameras, agents, assignments)'
      /\ NewcomersSpread(cameras, agents, assignments)'
  BY <1>2, <1>4 DEF AffinityKept, CapacityKept, NewcomersSpread
<1>10. MovesSoFar'
  BY <1>2, <1>4 DEF MovesSoFar
<1>11. OverflowSoFar'
  <2>1. ASSUME cameras[c].pinned = None, NEW a \in Hosts(cameras, agents, c)
        PROVE  load[a] >= agents[a].capacity
    <3>1. Candidates(c) = {}
      BY <2>1 DEF Drops
    <3>2. QED BY <3>1, DomainFacts DEF Candidates
  <2>2. QED BY <2>1, <1>2 DEF OverflowSoFar
<1>12. QED BY <1>1, <1>6, <1>7, <1>8, <1>9, <1>10, <1>11

(***************************************************************************)
(* Handing a camera on preserves it: this is where a full box justifies    *)
(* that a camera running there may have to move.                           *)
(***************************************************************************)
LEMMA HandsOnPreserves ==
  ASSUME PlanInv, NEW p \in {"pins", "sticky", "new"}, NEW c \in Cameras, HandsOn(p, c)
  PROVE  PlanInv'
<1> USE DEF PlanInv
<1>1. TypeOK'
  BY TypeOfHandsOn
<1>2. /\ UNCHANGED <<cameras, agents, pass, load, assignments, moved, unassigned>>
      /\ pass = p /\ c \in todo /\ todo' = todo \ {c} /\ later' = later \cup {c}
      /\ p \in {"pins", "sticky"}
  BY DEF HandsOn, Visit, HandOn, plan
<1>3. Planned' = Planned /\ assignments[c] = None
  BY <1>2 DEF Planned, Bookkeeping
<1>4. cameras[c].pinned = None
  BY <1>2 DEF HandsOn, PassOrder
<1>5. Bookkeeping'
  BY <1>2, <1>3 DEF Bookkeeping, Done
<1>6. PassOrder'
  BY <1>2, <1>3, <1>4 DEF PassOrder
<1>7. PinsSoFar' /\ OverflowSoFar'
  BY <1>2, <1>3 DEF PinsSoFar, OverflowSoFar
<1>8. AffinityKept(cameras, agents, assignments)' /\ CapacityKept(cameras, agents, assignments)'
      /\ NewcomersSpread(cameras, agents, assignments)'
  BY <1>2 DEF AffinityKept, CapacityKept, NewcomersSpread
<1>9. MovesSoFar'
  <2>1. ASSUME NEW a \in Agents, cameras[c].current = a, a \in Hosts(cameras, agents, c),
               p = "sticky"
        PROVE  Cardinality(Residents(cameras, assignments, a)) >= agents[a].capacity
    <3>1. load[a] >= agents[a].capacity
      BY <2>1, DomainFacts DEF HandsOn
    <3>2. Residents(cameras, assignments, a) = Held(assignments, a)
      BY <2>1, <1>2, OnlyClaims
    <3>3. QED BY <3>1, <3>2 DEF Bookkeeping
  <2>2. QED BY <2>1, <1>2, DomainFacts DEF MovesSoFar
<1>10. QED BY <1>1, <1>5, <1>6, <1>7, <1>8, <1>9

LEMMA NextPassPreserves ==
  ASSUME PlanInv, NextPass("pins", "sticky") \/ NextPass("sticky", "new") \/ NextPass("new", "done")
  PROVE  PlanInv'
<1> USE DEF PlanInv
<1>1. TypeOK'
  BY TypeOfNextPass
<1>2. /\ UNCHANGED <<cameras, agents, load, assignments, moved, unassigned>>
      /\ todo = {} /\ todo' = later /\ later' = {}
      /\ \/ pass = "pins" /\ pass' = "sticky"
         \/ pass = "sticky" /\ pass' = "new"
         \/ pass = "new" /\ pass' = "done"
  BY DEF NextPass
<1>3. Planned' = Planned
  BY <1>2 DEF Planned
<1>4. Bookkeeping'
  BY <1>2, <1>3 DEF Bookkeeping, Done
<1>5. PassOrder'
  BY <1>2, <1>3 DEF PassOrder
<1>6. PinsSoFar' /\ OverflowSoFar'
  BY <1>2, <1>3 DEF PinsSoFar, OverflowSoFar
<1>7. AffinityKept(cameras, agents, assignments)' /\ CapacityKept(cameras, agents, assignments)'
      /\ NewcomersSpread(cameras, agents, assignments)'
  BY <1>2 DEF AffinityKept, CapacityKept, NewcomersSpread
<1>8. MovesSoFar'
  <2>1. ASSUME pass = "sticky", pass' = "new",
               NEW d \in Cameras, cameras[d].pinned = None,
               cameras[d].current \in Hosts(cameras, agents, d),
               assignments[d] # cameras[d].current
        PROVE  d \in later
    <3>1. cameras[d].current # None
      BY <2>1, DomainFacts
    <3>2. ASSUME d \in Planned PROVE FALSE
      <4>1. CASE assignments[d] = None
        BY <4>1, <3>2, <2>1 DEF Bookkeeping, PassOrder
      <4>2. CASE assignments[d] # None
        BY <4>2, <3>1, <3>2, <2>1 DEF PassOrder
      <4>3. QED BY <4>1, <4>2
    <3>3. QED BY <3>2, <1>2 DEF Planned
  <2>2. QED BY <2>1, <1>2 DEF MovesSoFar
<1>9. QED BY <1>1, <1>4, <1>5, <1>6, <1>7, <1>8

\* The planner starts, or starts again: nothing is planned yet.
StartsEmpty ==
    /\ pass = "pins" /\ todo = Cameras /\ later = {}
    /\ load = [a \in Agents |-> 0] /\ assignments = [c \in Cameras |-> None]
    /\ moved = {} /\ unassigned = {}

LEMMA EmptyPlan == TypeOK /\ StartsEmpty => PlanInv
<1> SUFFICES ASSUME TypeOK, StartsEmpty PROVE PlanInv
  OBVIOUS
<1> USE DEF StartsEmpty
<1>1. Planned = {} /\ DOMAIN assignments = Cameras /\ DOMAIN agents = Agents
  BY DEF Planned, TypeOK
<1>2. \A a \in Agents : Held(assignments, a) = {}
  BY PlanAssumption DEF Held
<1>3. \A a \in Agents : Cardinality(Held(assignments, a)) = 0
  BY <1>2, FS_EmptySet
<1>4. Bookkeeping
  BY <1>1, <1>3 DEF Bookkeeping, Done
<1>5. PassOrder /\ PinsSoFar /\ MovesSoFar /\ OverflowSoFar
  BY <1>1 DEF PassOrder, PinsSoFar, MovesSoFar, OverflowSoFar
<1>6. CapacityKept(cameras, agents, assignments)
  BY <1>1, <1>3, DomainFacts DEF CapacityKept
<1>7. AffinityKept(cameras, agents, assignments) /\ NewcomersSpread(cameras, agents, assignments)
  BY <1>1 DEF AffinityKept, NewcomersSpread
<1>8. QED BY <1>4, <1>5, <1>6, <1>7 DEF PlanInv

LEMMA ReapplyPreserves ==
  ASSUME PlanInv, Reapply
  PROVE  PlanInv'
<1>1. TypeOK'
  BY TypeOfReapply DEF PlanInv
<1>2. StartsEmpty'
  BY DEF Reapply, StartsEmpty
<1>3. (TypeOK /\ StartsEmpty => PlanInv)'
  BY EmptyPlan, PTL
<1>4. QED BY <1>1, <1>2, <1>3

LEMMA PlanInvStep == PlanInv /\ [Next]_vars => PlanInv'
<1> SUFFICES ASSUME PlanInv, [Next]_vars PROVE PlanInv'
  OBVIOUS
<1>1. ASSUME NEW c \in Cameras, PlacePinned(c) \/ KeepSticky(c) \/ PlaceNew(c)
      PROVE  PlanInv'
  <2>1. PICK p \in {"pins", "sticky", "new"} :
              HandsOn(p, c) \/ (\E a \in Agents : Places(p, c, a)) \/ Drops(p, c)
    BY <1>1, CameraStep DEF PlanInv
  <2>2. QED BY <2>1, PlacesPreserves, DropsPreserves, HandsOnPreserves
<1>2. CASE NextPass("pins", "sticky") \/ NextPass("sticky", "new") \/ NextPass("new", "done")
  BY <1>2, NextPassPreserves
<1>3. CASE Reapply
  BY <1>3, ReapplyPreserves
<1>4. CASE UNCHANGED vars
  BY <1>4 DEF vars, PlanInv, TypeOK, Bookkeeping, PassOrder, PinsSoFar, MovesSoFar,
              OverflowSoFar, Planned, Done, AffinityKept, CapacityKept, NewcomersSpread
<1>5. QED BY <1>1, <1>2, <1>3, <1>4 DEF Next

(***************************************************************************)
(* The theorems.                                                           *)
(***************************************************************************)

\* The loop invariant of plan_placement's three passes.
THEOREM LoopInvariant == Spec => []PlanInv
<1>1. Init => PlanInv
  <2>1. Init => TypeOK /\ StartsEmpty
    BY PlanAssumption DEF Init, TypeOK, StartsEmpty
  <2>2. QED BY <2>1, EmptyPlan
<1>2. QED BY <1>1, PlanInvStep, PTL DEF Spec

LEMMA PlanInvMeetsPolicy == PlanInv => PolicyWhenDone
<1> SUFFICES ASSUME PlanInv, Done PROVE Policy(cameras, agents, assignments)
  BY DEF PolicyWhenDone
<1> USE DEF PlanInv
<1>1. Planned = Cameras /\ DOMAIN assignments = Cameras /\ DOMAIN agents = Agents
  BY DEF Planned, Bookkeeping, TypeOK
<1>2. PinsKept(cameras, agents, assignments)
  BY <1>1 DEF PinsKept, PinsSoFar
<1>3. MovesJustified(cameras, agents, assignments)
  BY <1>1 DEF MovesJustified, MovesSoFar, Done
<1>4. OverflowJustified(cameras, agents, assignments)
  <2>1. ASSUME NEW c \in Cameras, cameras[c].pinned = None, assignments[c] = None,
               NEW a \in Hosts(cameras, agents, c)
        PROVE  Cardinality(Held(assignments, a)) >= agents[a].capacity
    <3>1. c \in unassigned /\ a \in Agents
      BY <2>1, <1>1, DomainFacts DEF Bookkeeping
    <3>2. load[a] >= agents[a].capacity
      BY <3>1, <2>1 DEF OverflowSoFar
    <3>3. QED BY <3>1, <3>2 DEF Bookkeeping
  <2>2. QED BY <2>1, <1>1 DEF OverflowJustified
<1>5. QED BY <1>2, <1>3, <1>4 DEF Policy

\* Whatever the cameras and agents, the plan plan_placement returns keeps site
\* affinity and capacity, honours pins, moves a running camera only off a box
\* filled by prior claims, leaves a camera unassigned only at a full site, and
\* spreads new placements (camera_placement.py:14-31).
THEOREM PlanMeetsPolicy == Spec => []PolicyWhenDone
BY LoopInvariant, PlanInvMeetsPolicy, PTL

LEMMA InitImplements == Init => Promise!Init
BY DEF Init, Promise!Init, Done

LEMMA StepImplements == PlanInv /\ PlanInv' /\ [Next]_vars => [Promise!Next]_Promise!vars
<1> SUFFICES ASSUME PlanInv, PlanInv', [Next]_vars PROVE [Promise!Next]_Promise!vars
  OBVIOUS
<1> DEFINE answer == IF Done THEN <<assignments>> ELSE <<>>
<1>1. ASSUME NEW c \in Cameras, PlacePinned(c) \/ KeepSticky(c) \/ PlaceNew(c)
      PROVE  UNCHANGED Promise!vars
  BY <1>1 DEF PlacePinned, KeepSticky, PlaceNew, Visit, Promise!vars, Done
<1>2. CASE NextPass("pins", "sticky") \/ NextPass("sticky", "new")
  BY <1>2 DEF NextPass, Promise!vars, Done
<1>3. CASE NextPass("new", "done")
  <2>1. /\ UNCHANGED <<cameras, agents, assignments>> /\ ~Done /\ Done'
    BY <1>3 DEF NextPass, Done
  <2>2. Policy(cameras, agents, assignments)
    <3>1. (PlanInv => PolicyWhenDone)'
      BY PlanInvMeetsPolicy, PTL
    <3>2. PolicyWhenDone'
      BY <3>1
    <3>3. Done' => Policy(cameras', agents', assignments')
      BY <3>2 DEF PolicyWhenDone
    <3>4. QED BY <3>3, <2>1
  <2>3. assignments \in Promise!Placements
    BY DEF PlanInv, TypeOK, Promise!Placements
  <2>4. Promise!Answer
    BY <2>1, <2>2, <2>3 DEF Promise!Answer
  <2>5. QED BY <2>4 DEF Promise!Next
<1>4. CASE Reapply
  <2>1. Done /\ ~Done' /\ agents' = agents
    BY <1>4 DEF Reapply, Done
  <2>2. ASSUME NEW c \in Cameras
        PROVE  cameras'[c] = [cameras[c] EXCEPT !.current = assignments[c]]
    <3>1. CASE c \in moved
      BY <3>1, <1>4 DEF Reapply
    <3>2. CASE c \notin moved
      <4>1. assignments[c] = cameras[c].current
        BY <3>2, <2>1 DEF PlanInv, Bookkeeping, Planned
      <4>2. cameras'[c] = cameras[c]
        BY <3>2, <1>4 DEF Reapply
      <4>3. QED BY <4>1, <4>2 DEF PlanInv, TypeOK, CameraSlot
    <3>3. QED BY <3>1, <3>2
  <2>3. cameras' = [c \in Cameras |-> [cameras[c] EXCEPT !.current = assignments[c]]]
    BY <2>2, <1>4 DEF Reapply
  <2>4. answer = <<assignments>> /\ answer[1] = assignments /\ answer' = <<>>
    BY <2>1
  <2>5. Promise!AskAgain
    BY <2>1, <2>3, <2>4 DEF Promise!AskAgain
  <2>6. QED BY <2>5 DEF Promise!Next
<1>5. CASE UNCHANGED vars
  BY <1>5 DEF vars, Promise!vars, Done
<1>6. QED BY <1>1, <1>2, <1>3, <1>4, <1>5 DEF Next

\* plan_placement implements the abstract planner for every instance: until it
\* returns nothing is visible, and what it returns is one policy placement.
THEOREM PlanRefinesPromise == Spec => ImplementsPromise
<1>1. PlanInv /\ PlanInv' /\ [Next]_vars => [Promise!Next]_Promise!vars
  BY StepImplements
<1>2. QED BY <1>1, InitImplements, LoopInvariant, PTL DEF Spec, ImplementsPromise, Promise!Spec

(***************************************************************************)
(* Planning again on the plan's own result moves nothing.  What a finished *)
(* plan leaves behind is Applied; a second run of the loops finds every    *)
(* camera where it already is, because the pins claim their boxes in id    *)
(* order in both (PinsInOrder) and no box has lost room since (Unmoved).   *)
(***************************************************************************)
EarlierPins(a, c) == {d \in PinnedTo(cameras, assignments, a) : d < c}

\* Pins are visited in id order: the pins that filled a box came before the one
\* it had no room for.
PinsInOrder ==
    /\ pass = "pins" => \A c \in Planned \cup later, d \in todo : c < d
    /\ \A c \in Planned, a \in Agents :
          /\ cameras[c].pinned = a
          /\ assignments[c] = None
          /\ a \in Hosts(cameras, agents, c)
          => Cardinality(EarlierPins(a, c)) >= agents[a].capacity

Running(a) == {d \in Cameras : cameras[d].current = a}

\* The cameras run where a finished plan put them.
Applied ==
    /\ \A c \in Cameras : cameras[c].current # None =>
          cameras[c].current \in Hosts(cameras, agents, c)
    /\ \A a \in Agents : Cardinality(Running(a)) <= agents[a].capacity
    /\ \A c \in Cameras : cameras[c].pinned # None =>
          cameras[c].current \in {cameras[c].pinned, None}
    /\ \A c \in Cameras, a \in Agents :
          /\ cameras[c].pinned = a
          /\ cameras[c].current = None
          /\ a \in Hosts(cameras, agents, c)
          => Cardinality({d \in Running(a) : cameras[d].pinned = a /\ d < c}) >= agents[a].capacity
    /\ \A c \in Cameras, a \in Agents :
          /\ cameras[c].pinned = None
          /\ cameras[c].current = None
          /\ a \in Hosts(cameras, agents, c)
          => Cardinality(Running(a)) >= agents[a].capacity

\* Every camera planned so far keeps its box, and only cameras that run nowhere
\* are left for the last pass.
Unmoved ==
    /\ \A c \in Planned : assignments[c] = cameras[c].current
    /\ pass = "sticky" => \A c \in later : cameras[c].current = None
    /\ pass \in {"new", "done"} => \A c \in todo : cameras[c].current = None

ReplanInv == PinsInOrder /\ (round > 1 => Applied /\ Unmoved)

LEMMA CamerasFinite ==
  ASSUME NEW S \in SUBSET Cameras
  PROVE  IsFiniteSet(S) /\ Cardinality(S) \in Nat
BY FS_Subset, FS_CardinalityType, PlanAssumption

LEMMA FewerAtMost ==
  ASSUME NEW T \in SUBSET Cameras, NEW S \in SUBSET T
  PROVE  Cardinality(S) <= Cardinality(T) /\ Cardinality(S) \in Nat /\ Cardinality(T) \in Nat
<1>1. IsFiniteSet(T) /\ S \in SUBSET Cameras
  BY CamerasFinite
<1>2. QED BY <1>1, FS_Subset, CamerasFinite

LEMMA EarlierPinsOrder ==
  ASSUME PlanInv, PinsInOrder, NEW c \in Cameras, PlacePinned(c) \/ KeepSticky(c) \/ PlaceNew(c)
  PROVE  PinsInOrder'
<1>0. TypeOK /\ Bookkeeping /\ PassOrder /\ PinsSoFar
  BY DEF PlanInv
<1>1. PICK p \in {"pins", "sticky", "new"} :
            HandsOn(p, c) \/ (\E a \in Agents : Places(p, c, a)) \/ Drops(p, c)
  BY <1>0, CameraStep
<1>2. /\ pass = p /\ UNCHANGED <<cameras, agents, pass>>
      /\ c \in todo /\ todo' = todo \ {c} /\ \A d \in todo : c <= d
      /\ todo \subseteq Cameras /\ Cameras \subseteq Nat
  BY <1>0, <1>1, PlanAssumption DEF HandsOn, Places, Drops, Visit, TypeOK
<1>3. /\ Planned' \cup later' \subseteq Planned \cup later \cup {c}
      /\ Planned' \subseteq Planned \cup {c}
  BY <1>1 DEF HandsOn, Places, Drops, Visit, Place, Drop, HandOn, Planned
<1>4. pass' = "pins" => \A d \in Planned' \cup later', e \in todo' : d < e
  <2>1. \A e \in todo' : c < e
    BY <1>2
  <2>2. QED BY <1>2, <1>3, <2>1 DEF PinsInOrder
<1>5. \A a \in Agents : Held(assignments, a) \subseteq Held(assignments', a)
  <2>1. CASE HandsOn(p, c)
    BY <2>1 DEF HandsOn, HandOn, plan
  <2>2. CASE \E b \in Agents : Places(p, c, b)
    BY <1>0, <2>2, HeldAfterPlace
  <2>3. CASE Drops(p, c)
    <3>1. assignments' = assignments
      BY <1>0, <2>3 DEF Drops, Drop, Visit, TypeOK, Bookkeeping
    <3>2. QED BY <3>1
  <2>4. QED BY <1>1, <2>1, <2>2, <2>3
<1>5b. assignments' \in [Cameras -> Agents \cup {None}]
  BY <1>0, <1>1, TypeOfPlaces, TypeOfDrops, TypeOfHandsOn DEF TypeOK
<1>6. ASSUME NEW d \in Planned', NEW a \in Agents, cameras[d].pinned = a,
             assignments'[d] = None, a \in Hosts(cameras, agents, d)
      PROVE  Cardinality(EarlierPins(a, d)') >= agents[a].capacity
  <2>1. /\ EarlierPins(a, d) \in SUBSET EarlierPins(a, d)'
        /\ EarlierPins(a, d)' \in SUBSET Cameras
    BY <1>2, <1>5, <1>5b DEF EarlierPins, PinnedTo, Held
  <2>2. /\ Cardinality(EarlierPins(a, d)) <= Cardinality(EarlierPins(a, d)')
        /\ Cardinality(EarlierPins(a, d)) \in Nat /\ Cardinality(EarlierPins(a, d)') \in Nat
    BY <2>1, FewerAtMost
  <2>3. agents[a].capacity \in Nat /\ a # None
    BY <1>0, DomainFacts
  <2>4. CASE d \in Planned
    <3>1. assignments[d] = None
      BY <1>0, <1>1, <1>2, <1>6, <2>3, <2>4
         DEF HandsOn, Places, Drops, Place, Drop, HandOn, plan, Planned, TypeOK
    <3>2. Cardinality(EarlierPins(a, d)) >= agents[a].capacity
      BY <1>6, <2>4, <3>1 DEF PinsInOrder
    <3>3. QED BY <2>2, <2>3, <3>2
  <2>5. CASE d \notin Planned
    <3>1. d = c /\ ~HandsOn(p, c)
      BY <1>0, <1>2, <1>3, <1>6, <2>5 DEF HandsOn, HandOn, Visit, Planned
    <3>2. ~ \E b \in Agents : Places(p, c, b)
      BY <1>0, <1>6, <2>3, <3>1, DomainFacts DEF Places, Place, TypeOK
    <3>3. Drops(p, c) /\ p = "pins" /\ ~CanHost(a, c)
      BY <1>0, <1>1, <1>2, <1>6, <2>3, <3>1, <3>2 DEF Drops, PassOrder
    <3>4. load[a] >= agents[a].capacity
      BY <1>0, <1>6, <3>1, <3>3, DomainFacts
    <3>5. PinnedTo(cameras, assignments, a) = Held(assignments, a)
      BY <1>0, <1>2, <3>3, OnlyClaims
    <3>6. \A e \in Held(assignments, a) : e < c
      BY <1>0, <1>2, <2>3, <3>3 DEF Held, Planned, PinsInOrder, Bookkeeping, TypeOK
    <3>7. EarlierPins(a, d) = Held(assignments, a)
      BY <3>1, <3>5, <3>6 DEF EarlierPins
    <3>8. Cardinality(EarlierPins(a, d)) >= agents[a].capacity
      BY <1>0, <3>4, <3>7 DEF Bookkeeping
    <3>9. QED BY <2>2, <2>3, <3>8
  <2>6. QED BY <2>4, <2>5
<1>7. QED BY <1>2, <1>4, <1>6 DEF PinsInOrder

\* A camera not yet planned that runs on a box finds room there.
LEMMA RoomAtHome ==
  ASSUME PlanInv, Applied, Unmoved, NEW c \in todo, cameras[c].current # None
  PROVE  CanHost(cameras[c].current, c)
<1> DEFINE a == cameras[c].current
<1>0. TypeOK /\ Bookkeeping
  BY DEF PlanInv
<1>1. c \in Cameras /\ a \in Agents /\ a # None /\ a \in Hosts(cameras, agents, c)
  BY <1>0, PlanAssumption DEF TypeOK, CameraSlot, Applied
<1>2. Held(assignments, a) \in SUBSET (Running(a) \ {c})
  <2>1. \A d \in Held(assignments, a) : d \in Planned /\ d # c
    BY <1>0, <1>1 DEF Held, Planned, Bookkeeping, TypeOK
  <2>2. QED BY <2>1 DEF Held, Unmoved, Running, Planned
<1>3. /\ Running(a) \in SUBSET Cameras /\ c \in Running(a)
      /\ IsFiniteSet(Running(a))
  BY <1>1, CamerasFinite DEF Running
<1>4. Cardinality(Running(a) \ {c}) = Cardinality(Running(a)) - 1
  BY <1>3, FS_RemoveElement
<1>5. /\ Cardinality(Held(assignments, a)) <= Cardinality(Running(a) \ {c})
      /\ Cardinality(Held(assignments, a)) \in Nat
      /\ Cardinality(Running(a)) \in Nat
  <2>1. Running(a) \ {c} \in SUBSET Cameras
    BY <1>3
  <2>2. QED BY <1>2, <1>3, <2>1, FewerAtMost, CamerasFinite
<1>6. Cardinality(Running(a)) <= agents[a].capacity /\ agents[a].capacity \in Nat
  BY <1>0, <1>1, DomainFacts DEF Applied
<1>7. load[a] < agents[a].capacity
  <2>1. load[a] = Cardinality(Held(assignments, a))
    BY <1>0, <1>1 DEF Bookkeeping
  <2> HIDE DEF a
  <2>2. QED BY <1>4, <1>5, <1>6, <2>1
<1>8. QED BY <1>0, <1>1, <1>7, DomainFacts

\* A box with room for the next camera of the first or the last pass is the one
\* it runs on.
LEMMA NoRoomElsewhere ==
  ASSUME PlanInv, PinsInOrder, Applied, Unmoved, NEW p \in {"pins", "sticky", "new"},
         NEW c \in Cameras, NEW a \in Agents, Places(p, c, a)
  PROVE  cameras[c].current = a
<1>0. TypeOK /\ Bookkeeping /\ PassOrder
  BY DEF PlanInv
<1>1. /\ pass = p /\ c \in todo /\ \A d \in todo : c <= d
      /\ a \in Hosts(cameras, agents, c) /\ load[a] < agents[a].capacity
      /\ agents[a].capacity \in Nat /\ load[a] = Cardinality(Held(assignments, a)) /\ a # None
  BY <1>0, DomainFacts DEF Places, Visit, Bookkeeping
<1>2. Held(assignments, a) \in SUBSET Cameras
  BY <1>0 DEF Held, TypeOK
<1>3. CASE p = "pins"
  <2> SUFFICES ASSUME cameras[c].current # a PROVE FALSE
    OBVIOUS
  <2>1. cameras[c].pinned = a /\ cameras[c].current = None
    BY <1>1, <1>3 DEF Places, Applied
  <2> DEFINE D == {d \in Running(a) : cameras[d].pinned = a /\ d < c}
  <2>2. Cardinality(D) >= agents[a].capacity
    BY <1>1, <2>1 DEF Applied
  <2>3. ASSUME NEW d \in D PROVE d \in Held(assignments, a)
    <3>1. d \in Cameras /\ cameras[d].current = a /\ cameras[d].pinned = a /\ d < c
      BY DEF Running
    <3>2. d \notin todo
      BY <1>1, <3>1, PlanAssumption
    <3>3. d \notin later
      BY <1>0, <1>1, <3>1 DEF PassOrder
    <3>4. assignments[d] = a
      BY <3>1, <3>2, <3>3 DEF Planned, Unmoved
    <3>5. QED BY <1>0, <3>1, <3>4 DEF Held, TypeOK
  <2>4. Cardinality(D) <= Cardinality(Held(assignments, a)) /\ Cardinality(D) \in Nat
    BY <1>2, <2>3, FewerAtMost
  <2>5. Cardinality(Held(assignments, a)) \in Nat
    BY <1>2, CamerasFinite
  <2> HIDE DEF D
  <2>6. QED BY <1>1, <2>2, <2>4, <2>5
<1>4. CASE p = "sticky"
  BY <1>4 DEF Places
<1>5. CASE p = "new"
  <2>1. cameras[c].current = None /\ cameras[c].pinned = None
    BY <1>0, <1>1, <1>5 DEF Unmoved, PassOrder
  <2>2. Cardinality(Running(a)) >= agents[a].capacity
    BY <1>1, <2>1 DEF Applied
  <2>3. ASSUME NEW d \in Running(a) PROVE d \in Held(assignments, a)
    <3>1. d \in Cameras /\ cameras[d].current = a
      BY DEF Running
    <3>2. d \notin todo \cup later
      BY <1>0, <1>1, <1>5, <3>1 DEF Unmoved, Bookkeeping
    <3>3. assignments[d] = a
      BY <3>1, <3>2 DEF Planned, Unmoved
    <3>4. QED BY <1>0, <3>1, <3>3 DEF Held, TypeOK
  <2>4. Cardinality(Running(a)) <= Cardinality(Held(assignments, a)) /\ Cardinality(Running(a)) \in Nat
    BY <1>2, <2>3, FewerAtMost
  <2>5. Cardinality(Held(assignments, a)) \in Nat
    BY <1>2, CamerasFinite
  <2>6. QED BY <1>1, <2>2, <2>4, <2>5
<1>6. QED BY <1>3, <1>4, <1>5

LEMMA StaysUnmoved ==
  ASSUME PlanInv, PinsInOrder, Applied, Unmoved,
         NEW c \in Cameras, PlacePinned(c) \/ KeepSticky(c) \/ PlaceNew(c)
  PROVE  Unmoved'
<1>0. TypeOK /\ Bookkeeping /\ PassOrder
  BY DEF PlanInv
<1>1. PICK p \in {"pins", "sticky", "new"} :
            HandsOn(p, c) \/ (\E a \in Agents : Places(p, c, a)) \/ Drops(p, c)
  BY <1>0, CameraStep
<1>2. /\ pass = p /\ UNCHANGED <<cameras, agents, pass>>
      /\ c \in todo /\ todo' = todo \ {c} /\ c \notin Planned
  BY <1>1 DEF HandsOn, Places, Drops, Visit, Planned
<1>3. CASE HandsOn(p, c)
  <2>1. Planned' = Planned /\ assignments' = assignments /\ later' = later \cup {c}
    BY <1>2, <1>3 DEF HandsOn, HandOn, plan, Planned
  <2>2. p = "sticky" => cameras[c].current = None
    BY <1>2, <1>3, RoomAtHome DEF HandsOn
  <2>3. QED BY <1>2, <2>1, <2>2 DEF Unmoved
<1>4. ASSUME NEW a \in Agents, Places(p, c, a) PROVE Unmoved'
  <2>1. cameras[c].current = a
    BY <1>4, NoRoomElsewhere
  <2>2. /\ assignments' = [assignments EXCEPT ![c] = a] /\ later' = later
        /\ Planned' \subseteq Planned \cup {c}
    BY <1>2, <1>4 DEF Places, Place, Planned
  <2>3. \A d \in Planned' : assignments'[d] = cameras[d].current
    BY <1>0, <1>2, <2>1, <2>2 DEF Unmoved, TypeOK, Planned
  <2>4. QED BY <1>2, <2>2, <2>3 DEF Unmoved
<1>5. CASE Drops(p, c)
  <2>1. cameras[c].current = None
    <3>1. CASE p = "new"
      BY <1>2, <3>1 DEF Unmoved
    <3>2. CASE p # "new"
      <4>1. p = "pins" /\ cameras[c].pinned # None /\ ~CanHost(cameras[c].pinned, c)
        BY <1>5, <3>2 DEF Drops
      <4>2. cameras[c].current \in {cameras[c].pinned, None}
        BY <4>1 DEF Applied
      <4>3. QED BY <1>2, <4>1, <4>2, RoomAtHome
    <3>3. QED BY <3>1, <3>2
  <2>2. /\ assignments' = [assignments EXCEPT ![c] = None] /\ later' = later
        /\ Planned' \subseteq Planned \cup {c}
    BY <1>2, <1>5 DEF Drops, Drop, Planned
  <2>3. \A d \in Planned' : assignments'[d] = cameras[d].current
    BY <1>0, <1>2, <2>1, <2>2 DEF Unmoved, TypeOK, Planned
  <2>4. QED BY <1>2, <2>2, <2>3 DEF Unmoved
<1>6. QED BY <1>1, <1>3, <1>4, <1>5

\* Applying a plan: each camera runs where the plan has it.
LEMMA CurrentAfterReapply ==
  ASSUME PlanInv, Reapply, NEW c \in Cameras
  PROVE  /\ cameras'[c] = [cameras[c] EXCEPT !.current = assignments[c]]
         /\ cameras'[c].current = assignments[c] /\ cameras'[c].pinned = cameras[c].pinned
         /\ cameras'[c].site = cameras[c].site
<1>1. Done /\ TypeOK /\ Bookkeeping
  BY DEF Reapply, Done, PlanInv
<1>2. cameras'[c] = [cameras[c] EXCEPT !.current = assignments[c]]
  <2>1. CASE c \in moved
    BY <2>1 DEF Reapply
  <2>2. CASE c \notin moved
    <3>1. assignments[c] = cameras[c].current /\ cameras'[c] = cameras[c]
      BY <1>1, <2>2 DEF Bookkeeping, Planned, Reapply
    <3>2. QED BY <1>1, <3>1 DEF TypeOK, CameraSlot
  <2>3. QED BY <2>1, <2>2
<1>3. QED BY <1>1, <1>2 DEF TypeOK, CameraSlot

LEMMA ReapplyApplies ==
  ASSUME PlanInv, PinsInOrder, Reapply
  PROVE  Applied' /\ Unmoved' /\ PinsInOrder'
<1>0. /\ TypeOK /\ Bookkeeping /\ PinsSoFar /\ OverflowSoFar /\ Done
      /\ AffinityKept(cameras, agents, assignments) /\ CapacityKept(cameras, agents, assignments)
  BY DEF Reapply, Done, PlanInv
<1>1. Planned = Cameras /\ DOMAIN assignments = Cameras /\ DOMAIN agents = Agents
  BY <1>0 DEF Planned, Bookkeeping, TypeOK
<1>2. /\ agents' = agents
      /\ \A c \in Cameras : /\ cameras'[c].current = assignments[c]
                            /\ cameras'[c].pinned = cameras[c].pinned
                            /\ cameras'[c].site = cameras[c].site
  BY CurrentAfterReapply DEF Reapply
<1>3. \A c \in Cameras : Hosts(cameras', agents', c) = Hosts(cameras, agents, c)
  BY <1>2 DEF Hosts
<1>4. \A a : Running(a)' = Held(assignments, a)
  BY <1>1, <1>2 DEF Running, Held
<1>5. \A a, c : {d \in Running(a)' : cameras'[d].pinned = a /\ d < c} = EarlierPins(a, c)
  <2>1. \A a : \A d \in Held(assignments, a) : cameras'[d].pinned = cameras[d].pinned
    BY <1>1, <1>2 DEF Held
  <2>2. QED BY <1>4, <2>1 DEF EarlierPins, PinnedTo
<1>6. Applied'
  <2>1. \A c \in Cameras : cameras'[c].current # None =>
            cameras'[c].current \in Hosts(cameras', agents', c)
    BY <1>0, <1>1, <1>2, <1>3 DEF AffinityKept
  <2>2. \A a \in Agents : Cardinality(Running(a)') <= agents'[a].capacity
    BY <1>0, <1>1, <1>2, <1>4 DEF CapacityKept
  <2>3. \A c \in Cameras : cameras'[c].pinned # None =>
            cameras'[c].current \in {cameras'[c].pinned, None}
    BY <1>0, <1>1, <1>2 DEF PinsSoFar
  <2>4. ASSUME NEW c \in Cameras, NEW a \in Agents, cameras'[c].pinned = a,
               cameras'[c].current = None, a \in Hosts(cameras', agents', c)
        PROVE  Cardinality({d \in Running(a)' : cameras'[d].pinned = a /\ d < c})
                  >= agents'[a].capacity
    <3>1. Cardinality(EarlierPins(a, c)) >= agents[a].capacity
      BY <1>1, <1>2, <1>3, <2>4 DEF PinsInOrder
    <3>2. QED BY <1>2, <1>5, <3>1
  <2>5. ASSUME NEW c \in Cameras, NEW a \in Agents, cameras'[c].pinned = None,
               cameras'[c].current = None, a \in Hosts(cameras', agents', c)
        PROVE  Cardinality(Running(a)') >= agents'[a].capacity
    <3>1. c \in unassigned /\ cameras[c].pinned = None
      BY <1>0, <1>1, <1>2, <2>5 DEF Bookkeeping
    <3>2. load[a] >= agents[a].capacity /\ load[a] = Cardinality(Held(assignments, a))
      BY <1>0, <1>3, <2>5, <3>1 DEF OverflowSoFar, Bookkeeping
    <3>3. QED BY <1>2, <1>4, <3>2
  <2>6. QED BY <2>1, <2>2, <2>3, <2>4, <2>5 DEF Applied
<1>7. Planned' = {} /\ later' = {} /\ pass' = "pins"
  BY DEF Reapply, Planned
<1>8. QED BY <1>6, <1>7 DEF Unmoved, PinsInOrder

LEMMA ReplanStep == PlanInv /\ ReplanInv /\ [Next]_vars => ReplanInv'
<1> SUFFICES ASSUME PlanInv, ReplanInv, [Next]_vars PROVE ReplanInv'
  OBVIOUS
<1>1. ASSUME NEW c \in Cameras, PlacePinned(c) \/ KeepSticky(c) \/ PlaceNew(c)
      PROVE  ReplanInv'
  <2>1. PinsInOrder'
    BY <1>1, EarlierPinsOrder DEF ReplanInv
  <2>2. UNCHANGED <<cameras, agents, round>>
    BY <1>1 DEF PlacePinned, KeepSticky, PlaceNew, Visit
  <2>3. Applied => Applied'
    BY <2>2 DEF Applied, Running
  <2>4. round > 1 => Unmoved'
    BY <1>1, StaysUnmoved DEF ReplanInv
  <2>5. QED BY <2>1, <2>2, <2>3, <2>4 DEF ReplanInv
<1>2. CASE NextPass("pins", "sticky") \/ NextPass("sticky", "new") \/ NextPass("new", "done")
  <2>1. /\ UNCHANGED <<cameras, agents, assignments, round>>
        /\ todo = {} /\ todo' = later /\ later' = {} /\ Planned' = Planned
        /\ \/ pass = "pins" /\ pass' = "sticky"
           \/ pass = "sticky" /\ pass' = "new"
           \/ pass = "new" /\ pass' = "done" /\ later = {}
    BY <1>2 DEF NextPass, Planned, PlanInv, Bookkeeping
  <2>2. PinsInOrder'
    BY <2>1 DEF ReplanInv, PinsInOrder, EarlierPins
  <2>3. Applied => Applied'
    BY <2>1 DEF Applied, Running
  <2>4. Unmoved => Unmoved'
    BY <2>1 DEF Unmoved
  <2>5. QED BY <2>1, <2>2, <2>3, <2>4 DEF ReplanInv
<1>3. CASE Reapply
  BY <1>3, ReapplyApplies DEF ReplanInv
<1>4. CASE UNCHANGED vars
  BY <1>4 DEF vars, ReplanInv, PinsInOrder, EarlierPins, Applied, Running, Unmoved, Planned
<1>5. QED BY <1>1, <1>2, <1>3, <1>4 DEF Next

\* Applying a plan and planning again moves no camera, whatever the cameras,
\* the pins and the boxes (camera_placement.py:32-34): a rebalance tick on an
\* unchanged site restarts no stream.
THEOREM ReplanMovesNothing == Spec => []Idempotent
<1>1. Init => ReplanInv
  <2> SUFFICES ASSUME Init PROVE ReplanInv
    OBVIOUS
  <2>1. Planned = {} /\ later = {} /\ ~(round > 1)
    BY DEF Init, Planned
  <2>2. QED BY <2>1 DEF ReplanInv, PinsInOrder
<1>2. PlanInv /\ ReplanInv => Idempotent
  <2> SUFFICES ASSUME PlanInv, ReplanInv, Done, round > 1 PROVE moved = {}
    BY DEF Idempotent
  <2>1. moved = {c \in Planned : assignments[c] # cameras[c].current}
    BY DEF PlanInv, Bookkeeping
  <2>2. \A c \in Planned : assignments[c] = cameras[c].current
    BY DEF ReplanInv, Unmoved
  <2>3. QED BY <2>1, <2>2
<1>3. QED BY <1>1, <1>2, LoopInvariant, ReplanStep, PTL DEF Spec

==============================================================================
