---------------------------- MODULE PlacementPlan ----------------------------
(***************************************************************************)
(* plan_placement (backend/app/services/camera_placement.py), one camera   *)
(* per step: pass "pins" places or drops the pinned cameras, pass "sticky" *)
(* keeps cameras where they run, pass "new" places the rest on the least   *)
(* loaded box.  Each pass visits its cameras in id order and hands the     *)
(* ones it does not settle on to the next.  Reapply then applies the plan, *)
(* as reconcile_site does, and plans once more on the result.              *)
(***************************************************************************)
EXTENDS PlacementPolicy

CONSTANTS Cameras,     \* camera ids, numbered in the order of str(camera_id)
          Agents,      \* agent ids, numbered in the order of str(agent_id)
          Sites,
          Capacities,  \* the capacities agents may report
          MaxRounds    \* bound: how often the plan is applied and made again

ASSUME PlanAssumption ==
    /\ Cameras \subseteq Nat /\ IsFiniteSet(Cameras)
    /\ Agents \subseteq Nat
    /\ Capacities \subseteq Nat
    /\ None \notin Agents /\ None \notin Sites
    /\ MaxRounds \in Nat \ {0}

CameraSlot == [site : Sites, current : Agents \cup {None}, pinned : Agents \cup {None}]
AgentSlot == [site : Sites \cup {None}, capacity : Capacities, healthy : BOOLEAN]

VARIABLES cameras, agents,           \* the arguments
          pass, todo, later,         \* the loop: this pass's cameras, the next one's
          load, assignments, moved, unassigned,   \* load and the PlacementPlan
          round

plan == <<load, assignments, moved, unassigned>>
vars == <<cameras, agents, pass, todo, later, load, assignments, moved, unassigned, round>>

TypeOK ==
    /\ cameras \in [Cameras -> CameraSlot]
    /\ agents \in [Agents -> AgentSlot]
    /\ pass \in {"pins", "sticky", "new", "done"}
    /\ todo \subseteq Cameras
    /\ later \subseteq Cameras
    /\ load \in [Agents -> Nat]
    /\ assignments \in [Cameras -> Agents \cup {None}]
    /\ moved \subseteq Cameras
    /\ unassigned \subseteq Cameras
    /\ round \in 1 .. MaxRounds

Init ==
    /\ cameras \in [Cameras -> CameraSlot]
    /\ agents \in [Agents -> AgentSlot]
    /\ pass = "pins"
    /\ todo = Cameras
    /\ later = {}
    /\ load = [a \in Agents |-> 0]
    /\ assignments = [c \in Cameras |-> None]
    /\ moved = {}
    /\ unassigned = {}
    /\ round = 1

------------------------------------------------------------------------------
\* Mutant: one camera too many.
CanHostOneMore(a, c) ==
    /\ a # None
    /\ Usable(agents, a)
    /\ agents[a].site = cameras[c].site
    /\ load[a] <= agents[a].capacity

\* Mutant: any box of the organisation.
CanHostAnySite(a, c) ==
    /\ a # None
    /\ Usable(agents, a)
    /\ load[a] < agents[a].capacity

\* can_host: site affinity and capacity, the two hard constraints.
CanHost(a, c) ==
    /\ a # None
    /\ Usable(agents, a)
    /\ agents[a].site = cameras[c].site
    /\ load[a] < agents[a].capacity

Place(c, a) ==
    /\ load' = [load EXCEPT ![a] = @ + 1]
    /\ assignments' = [assignments EXCEPT ![c] = a]
    /\ moved' = IF cameras[c].current # a THEN moved \cup {c} ELSE moved
    /\ UNCHANGED <<unassigned, later>>

Drop(c) ==
    /\ assignments' = [assignments EXCEPT ![c] = None]
    /\ unassigned' = unassigned \cup {c}
    /\ moved' = IF cameras[c].current # None THEN moved \cup {c} ELSE moved
    /\ UNCHANGED <<load, later>>

\* remaining.append / still_homeless.append
HandOn(c) == later' = later \cup {c} /\ UNCHANGED plan

\* The loops run over cameras sorted by id.
Visit(p, c) ==
    /\ pass = p
    /\ c \in todo
    /\ \A d \in todo : c <= d
    /\ todo' = todo \ {c}
    /\ UNCHANGED <<cameras, agents, pass, round>>

PlacePinned(c) ==
    LET pin == cameras[c].pinned IN
    /\ Visit("pins", c)
    /\ \/ pin = None /\ HandOn(c)
       \/ pin # None /\ CanHost(pin, c) /\ Place(c, pin)
       \/ pin # None /\ ~CanHost(pin, c) /\ Drop(c)

\* Mutant: no sticky pass, every unpinned camera is packed again.
RepackAll(c) == Visit("sticky", c) /\ HandOn(c)

KeepSticky(c) ==
    LET here == cameras[c].current IN
    /\ Visit("sticky", c)
    /\ \/ CanHost(here, c) /\ Place(c, here)
       \/ ~CanHost(here, c) /\ HandOn(c)

Candidates(c) == {a \in Agents : CanHost(a, c)}

\* min(candidates, key = (load, id))
LeastLoaded(a, c) ==
    /\ a \in Candidates(c)
    /\ \A b \in Candidates(c) : load[a] < load[b] \/ (load[a] = load[b] /\ a <= b)

PlaceNew(c) ==
    /\ Visit("new", c)
    /\ \/ \E a \in Agents : LeastLoaded(a, c) /\ Place(c, a)
       \/ Candidates(c) = {} /\ Drop(c)

NextPass(p, q) ==
    /\ pass = p
    /\ todo = {}
    /\ pass' = q
    /\ todo' = later
    /\ later' = {}
    /\ UNCHANGED <<cameras, agents, load, assignments, moved, unassigned, round>>

\* Mutant: a camera that lost its box keeps its agent_id.
ReapplyPlacedOnly ==
    /\ pass = "done"
    /\ round < MaxRounds
    /\ round' = round + 1
    /\ cameras' = [c \in Cameras |->
                      IF c \in moved \ unassigned
                      THEN [cameras[c] EXCEPT !.current = assignments[c]]
                      ELSE cameras[c]]
    /\ pass' = "pins"
    /\ todo' = Cameras
    /\ later' = {}
    /\ load' = [a \in Agents |-> 0]
    /\ assignments' = [c \in Cameras |-> None]
    /\ moved' = {}
    /\ unassigned' = {}
    /\ UNCHANGED agents

\* reconcile_site writes camera.agent_id for the moved cameras only; a later
\* event plans again from there.
Reapply ==
    /\ pass = "done"
    /\ round < MaxRounds
    /\ round' = round + 1
    /\ cameras' = [c \in Cameras |->
                      IF c \in moved THEN [cameras[c] EXCEPT !.current = assignments[c]]
                      ELSE cameras[c]]
    /\ pass' = "pins"
    /\ todo' = Cameras
    /\ later' = {}
    /\ load' = [a \in Agents |-> 0]
    /\ assignments' = [c \in Cameras |-> None]
    /\ moved' = {}
    /\ unassigned' = {}
    /\ UNCHANGED agents

Next ==
    \/ \E c \in Cameras : PlacePinned(c) \/ KeepSticky(c) \/ PlaceNew(c)
    \/ NextPass("pins", "sticky")
    \/ NextPass("sticky", "new")
    \/ NextPass("new", "done")
    \/ Reapply

Spec == Init /\ [][Next]_vars

------------------------------------------------------------------------------
Done == pass = "done"
Planned == Cameras \ (todo \cup later)

\* The plan's four fields agree with one another after every step of the loops.
Bookkeeping ==
    /\ todo \cap later = {}
    /\ pass = "new" => later = {}
    /\ Done => todo \cup later = {}
    /\ \A c \in todo \cup later : assignments[c] = None
    /\ moved = {c \in Planned : assignments[c] # cameras[c].current}
    /\ unassigned = {c \in Planned : assignments[c] = None}
    /\ \A a \in Agents : load[a] = Cardinality(Held(assignments, a))

\* Pins are all settled before the first sticky camera, and newcomers come last:
\* until then every camera on a box has a prior claim to it, and only cameras
\* whose pin cannot be honoured have been dropped.
PassOrder ==
    /\ \A c \in later : cameras[c].pinned = None
    /\ pass # "pins" => \A c \in todo : cameras[c].pinned = None
    /\ pass = "pins" => \A c \in Planned : cameras[c].pinned # None
    /\ pass \in {"pins", "sticky"} =>
          \A c \in Planned : assignments[c] # None =>
              assignments[c] \in {cameras[c].pinned, cameras[c].current}
    /\ pass \in {"pins", "sticky"} => \A c \in unassigned : cameras[c].pinned # None

PinsSoFar ==
    \A c \in Planned :
        LET a == cameras[c].pinned IN
        a # None =>
            /\ assignments[c] \in {a, None}
            /\ assignments[c] = None /\ a \in Hosts(cameras, agents, c)
                => Cardinality(PinnedTo(cameras, assignments, a)) >= agents[a].capacity

\* MovesJustified, for the cameras the sticky pass has handed on or was past.
MovesSoFar ==
    \A c \in Cameras :
        LET a == cameras[c].current IN
        /\ cameras[c].pinned = None
        /\ a \in Hosts(cameras, agents, c)
        /\ assignments[c] # a
        /\ pass \in {"new", "done"} \/ (pass = "sticky" /\ c \in later)
        => Cardinality(Residents(cameras, assignments, a)) >= agents[a].capacity

OverflowSoFar ==
    \A c \in unassigned :
        cameras[c].pinned = None =>
            \A a \in Hosts(cameras, agents, c) : load[a] >= agents[a].capacity

\* The inductive invariant of the three loops.
PlanInv ==
    /\ TypeOK
    /\ Bookkeeping
    /\ PassOrder
    /\ AffinityKept(cameras, agents, assignments)
    /\ CapacityKept(cameras, agents, assignments)
    /\ PinsSoFar
    /\ MovesSoFar
    /\ OverflowSoFar
    /\ NewcomersSpread(cameras, agents, assignments)

\* When the planner returns, its plan satisfies the placement policy of the
\* module docstring (camera_placement.py:14-30), for any cameras and agents.
PolicyWhenDone == Done => Policy(cameras, agents, assignments)

\* "Applying a plan then re-planning yields no further moves"
\* (camera_placement.py:32-34).
Idempotent == Done /\ round > 1 => moved = {}

\* plan_placement implements the abstract planner, which answers each request
\* with one placement the policy allows and touches none of its inputs.
Promise == INSTANCE PlacementPromise WITH
              Allowed <- Policy,
              answer <- IF Done THEN <<assignments>> ELSE <<>>
ImplementsPromise == Promise!Spec

==============================================================================
