-------------------------------- MODULE Fleet --------------------------------
(***************************************************************************)
(* The backend as the authority on which edge box runs which camera, and   *)
(* the boxes that follow it: one organisation with one site.               *)
(*                                                                         *)
(* A request or scheduled sweep is a database transaction: it reads the    *)
(* rows it needs, computes (reconcile_site among others), and commits only *)
(* the columns it changed, each as the absolute value it computed.  That   *)
(* is SQLAlchemy over PostgreSQL's READ COMMITTED, so transactions of the  *)
(* four server processes interleave between one's read and its commit.     *)
(* A box polls GET /internal/assignments with the ETag it last saw, runs   *)
(* what it is told, and reports in with heartbeats.                        *)
(***************************************************************************)
EXTENDS PlacementPolicy

CONSTANTS Cameras, Agents, Site,
          Capacities,      \* what a box may measure its capacity to be
          DefaultCapacity, \* DEFAULT_CAPACITY: assumed before the first heartbeat
          Workers,         \* transactions that may be open at once
          Operations,      \* the operator's requests this instance allows
          Outages,         \* the ways a box may be out: "off", "cut", "headless"
          FirstSites,      \* what agent.site_id may be when the run starts
          FirstCameras,    \* cameras created before any box was paired
          MaxEvents        \* bound: operator requests, outages and rollbacks in a run

ASSUME FleetAssumption ==
    /\ Cameras \subseteq Nat /\ Agents \subseteq Nat
    /\ IsFiniteSet(Cameras) /\ IsFiniteSet(Agents)
    /\ Capacities \subseteq Nat /\ DefaultCapacity \in Capacities
    /\ None \notin Agents \cup Nat /\ Site # None /\ FirstSites \subseteq {Site, None}
    /\ FirstCameras \subseteq Cameras
    /\ Operations \subseteq {"create", "register", "update", "delete", "restore", "pin"}
    /\ Outages \subseteq {"off", "cut", "headless"}
    /\ MaxEvents \in Nat

VARIABLES camera,   \* table cameras
          agent,    \* table agents; `fresh`: last_seen_at is within FAILOVER_AFTER
          box,      \* the edge boxes; `running`: the config each camera runs with
          txn,      \* the open transactions
          events    \* how much of MaxEvents is used

vars == <<camera, agent, box, txn, events>>

CameraRow == [state : {"absent", "live", "deleted"}, agent : Agents \cup {None},
              pinned : Agents \cup {None}, config : 0 .. MaxEvents,
              status : {"offline", "online", "unassigned"}]
AgentRow == [site : {Site, None}, online : BOOLEAN, capacity : Capacities,
             version : Nat \ {0}, fresh : BOOLEAN]
Box == [mode : {"up", "off", "cut", "headless"},
        running : [Cameras -> 0 .. MaxEvents \cup {None}],
        etag : Nat \cup {None}, reply : Nat \cup {None}]
Tables == [camera : [Cameras -> CameraRow], agent : [Agents -> AgentRow]]

Idle == [open |-> FALSE]
Open == [open : {TRUE}, base : Tables, view : Tables,
         stale : SUBSET Agents, beat : Agents \cup {None}]

TypeOK ==
    /\ camera \in [Cameras -> CameraRow]
    /\ agent \in [Agents -> AgentRow]
    /\ box \in [Agents -> Box]
    /\ txn \in [Workers -> Open \cup {Idle}]
    /\ events \in 0 .. MaxEvents

Nothing == [c \in Cameras |-> None]

\* Boxes just paired (pair_agent and the provision claim both set "online").  A
\* camera created while there was no box is not moved by its placement pass and
\* keeps the status it was created with.
Init ==
    /\ camera = [c \in Cameras |->
                    [state |-> IF c \in FirstCameras THEN "live" ELSE "absent",
                     agent |-> None, pinned |-> None, config |-> 0, status |-> "offline"]]
    /\ agent \in [Agents -> [site : FirstSites, online : {TRUE},
                             capacity : {DefaultCapacity}, version : {1}, fresh : {TRUE}]]
    /\ box = [a \in Agents |-> [mode |-> "up", running |-> Nothing,
                                etag |-> None, reply |-> None]]
    /\ txn = [w \in Workers |-> Idle]
    /\ events = 0

------------------------------------------------------------------------------
(* reconcile_site, on the rows a transaction has in its session. *)

Live(rows) == {c \in Cameras : rows.camera[c].state = "live"}

\* WHERE agents.site_id = :site, or every agent of the organisation.
InScope(rows, site) == {a \in Agents : site # None => rows.agent[a].site = site}

\* Every placement plan_placement may answer with, tabulated by its arguments.
CameraSlots == [site : {Site}, current : Agents \cup {None}, pinned : Agents \cup {None}]
AgentSlots == [site : {Site, None}, capacity : Capacities, healthy : BOOLEAN]
Slots == UNION {[L -> CameraSlots] : L \in SUBSET Cameras}
Boxes == UNION {[A -> AgentSlots] : A \in SUBSET Agents}
Placements ==
    [args \in Slots \X Boxes |->
        {asg \in [DOMAIN args[1] -> Agents \cup {None}] : Policy(args[1], args[2], asg)}]

\* What plan_placement is asked: the site's live cameras and the boxes in scope.
CameraArgs(rows) ==
    [c \in Live(rows) |-> [site |-> Site, current |-> rows.camera[c].agent,
                           pinned |-> rows.camera[c].pinned]]
AgentArgs(rows, site) ==
    [a \in InScope(rows, site) |->
        [site |-> rows.agent[a].site, capacity |-> rows.agent[a].capacity,
         healthy |-> rows.agent[a].online]]

\* Mutant: the planner is not told of the pins.
PlansWithoutPins(rows, site) ==
    Placements[<<[c \in Live(rows) |-> [CameraArgs(rows)[c] EXCEPT !.pinned = None]],
                 AgentArgs(rows, site)>>]

Plans(rows, site) == Placements[<<CameraArgs(rows), AgentArgs(rows, site)>>]

Moved(rows, asg) == {c \in DOMAIN asg : asg[c] # rows.camera[c].agent}

\* Mutant: only the box a camera moves to is told.
TouchedNew(rows, site, asg) ==
    {a \in InScope(rows, site) : \E c \in Moved(rows, asg) : a = asg[c]}

\* Bump the agents whose set changed, those loaded in this session only.
Touched(rows, site, asg) ==
    {a \in InScope(rows, site) :
        \E c \in Moved(rows, asg) : a \in {rows.camera[c].agent, asg[c]}}

\* Mutant: the placement is stored as the status.
StatusOfPlacement(now, a) == IF a = None THEN None ELSE now

PlacedStatus(now, a) ==
    IF a = None THEN "unassigned" ELSE IF now = "unassigned" THEN "offline" ELSE now

Applied(rows, site, asg) ==
    [camera |-> [c \in Cameras |->
                    IF c \in Moved(rows, asg)
                    THEN [rows.camera[c] EXCEPT !.agent = asg[c],
                                                !.status = PlacedStatus(@, asg[c])]
                    ELSE rows.camera[c]],
     agent |-> [a \in Agents |->
                    IF a \in Touched(rows, site, asg)
                    THEN [rows.agent[a] EXCEPT !.version = @ + 1]
                    ELSE rows.agent[a]]]

------------------------------------------------------------------------------
(* Transactions. *)

Committed == [camera |-> camera, agent |-> agent]

Begin(w, view, stale, beat) ==
    /\ ~txn[w].open
    /\ txn' = [txn EXCEPT ![w] = [open |-> TRUE, base |-> Committed, view |-> view,
                                  stale |-> stale, beat |-> beat]]
    /\ UNCHANGED <<camera, agent, box>>

\* Mutant: a heartbeat runs no placement pass.
BeginReconciledRequest(w, rows, site, beat) ==
    IF beat = None
    THEN \E asg \in Plans(rows, site) : Begin(w, Applied(rows, site, asg), {}, beat)
    ELSE Begin(w, rows, {}, beat)

\* Begin with a placement pass over `rows` for `site`.
BeginReconciled(w, rows, site, beat) ==
    \E asg \in Plans(rows, site) : Begin(w, Applied(rows, site, asg), {}, beat)

\* An UPDATE names the columns whose value differs from the one loaded.
Merged(now, base, view) ==
    [k \in DOMAIN now |-> [f \in DOMAIN now[k] |->
        IF view[k][f] # base[k][f] THEN view[k][f] ELSE now[k][f]]]

Commit(w) ==
    /\ txn[w].open
    /\ txn[w].stale = {}
    /\ camera' = Merged(camera, txn[w].base.camera, txn[w].view.camera)
    /\ agent' = Merged(agent, txn[w].base.agent, txn[w].view.agent)
    /\ txn' = [txn EXCEPT ![w] = Idle]
    /\ UNCHANGED <<box, events>>

\* Costs one of the bounded events.
Event == events < MaxEvents /\ events' = events + 1

\* A database error (two transactions deadlock on each other's agent rows) or
\* the death of the server process: nothing of the transaction is kept, the
\* health update of a heartbeat included.
Rollback(w) ==
    /\ txn[w].open
    /\ Event
    /\ txn' = [txn EXCEPT ![w] = Idle]
    /\ UNCHANGED <<camera, agent, box>>

------------------------------------------------------------------------------
(* The operator's requests. *)

Request(op) == op \in Operations /\ Event

With(c, row) == [Committed EXCEPT !.camera[c] = row]

CreateCamera(w, c) ==
    /\ Request("create")
    /\ camera[c].state = "absent"
    /\ BeginReconciled(w, With(c, [camera[c] EXCEPT !.state = "live"]), Site, None)

\* The wizard's path: the camera is put on the box that found it, with no
\* placement pass.
RegisterCamera(w, c, a) ==
    /\ Request("register")
    /\ camera[c].state = "absent"
    /\ Begin(w, With(c, [camera[c] EXCEPT !.state = "live", !.agent = a]), {}, None)

UpdateCamera(w, c) ==
    /\ Request("update")
    /\ camera[c].state = "live"
    /\ Begin(w, With(c, [camera[c] EXCEPT !.config = @ + 1]), {}, None)

DeleteCamera(w, c) ==
    /\ Request("delete")
    /\ camera[c].state = "live"
    /\ BeginReconciled(w, With(c, [camera[c] EXCEPT !.state = "deleted"]), Site, None)

RestoreCamera(w, c) ==
    /\ Request("restore")
    /\ camera[c].state = "deleted"
    /\ Begin(w, With(c, [camera[c] EXCEPT !.state = "live"]), {}, None)

PinCamera(w, c, a) ==
    /\ Request("pin")
    /\ camera[c].state = "live"
    /\ a # None => agent[a].site = Site
    /\ BeginReconciled(w, With(c, [camera[c] EXCEPT !.pinned = a]), Site, None)

------------------------------------------------------------------------------
(* The boxes' reports, and the sweep that notices their absence. *)

\* POST /internal/heartbeat, batched.  Every camera the box runs is reported
\* "online", whoever it is assigned to.
Heartbeat(w, a, cap) ==
    LET reported == {c \in Cameras : box[a].running[c] # None /\ camera[c].state = "live"}
        adopted == IF agent[a].site = None /\ \E c \in reported : camera[c].agent = a
                   THEN Site ELSE agent[a].site
        rows == [camera |-> [c \in Cameras |->
                                IF c \in reported THEN [camera[c] EXCEPT !.status = "online"]
                                ELSE camera[c]],
                 agent |-> [agent EXCEPT ![a].online = TRUE, ![a].fresh = TRUE,
                                         ![a].capacity = cap, ![a].site = adopted]]
    IN /\ box[a].mode = "up"
       /\ \A v \in Workers : txn[v].open => txn[v].beat # a
       /\ IF cap = agent[a].capacity THEN UNCHANGED events ELSE Event
       /\ BeginReconciled(w, rows, adopted, a)

\* POST /api/agents/me/discovered, by the Go agent's LAN scan every minute
\* whether or not its analysis pipeline is running.
PushDiscovered(a) ==
    /\ box[a].mode \in {"up", "headless"}
    /\ agent' = [agent EXCEPT ![a].online = TRUE, ![a].fresh = TRUE]
    /\ UNCHANGED <<camera, box, txn, events>>

\* FAILOVER_AFTER (5 minutes) passes without a report.
GoStale(a) ==
    /\ box[a].mode \in {"off", "cut"}
    /\ agent[a].fresh
    /\ \A w \in Workers : txn[w].open => txn[w].beat # a
    /\ agent' = [agent EXCEPT ![a].fresh = FALSE]
    /\ UNCHANGED <<camera, box, txn, events>>

BeginSweep(w) ==
    LET stale == {a \in Agents : agent[a].online /\ ~agent[a].fresh} IN
    /\ stale # {}
    /\ Begin(w, Committed, stale, None)
    /\ UNCHANGED events

\* Mutant: the sweep flips the status and leaves the cameras where they are.
SweepStatusOnly(w, a) ==
    /\ txn[w].open
    /\ a \in txn[w].stale
    /\ txn' = [txn EXCEPT ![w].view.agent[a].online = FALSE, ![w].stale = @ \ {a}]
    /\ UNCHANGED <<camera, agent, box, events>>

\* The sweep's loop: flip one agent, reconcile its site, go on to the next.
SweepAgent(w, a) ==
    /\ txn[w].open
    /\ a \in txn[w].stale
    /\ LET rows == [txn[w].view EXCEPT !.agent[a].online = FALSE]
           site == rows.agent[a].site
       IN \E asg \in Plans(rows, site) :
             txn' = [txn EXCEPT ![w].view = Applied(rows, site, asg),
                                ![w].stale = @ \ {a}]
    /\ UNCHANGED <<camera, agent, box, events>>

------------------------------------------------------------------------------
(* The boxes. *)

\* What GET /internal/assignments lists for agent a.
Desired(a) ==
    [c \in Cameras |-> IF camera[c].state = "live" /\ camera[c].agent = a
                       THEN camera[c].config ELSE None]

\* The first query of the request reads the agent row.  An ETag that matches is
\* answered 304 and the box keeps what it has: no step.
PollVersion(a) ==
    /\ box[a].mode = "up"
    /\ box[a].reply = None
    /\ box[a].etag # agent[a].version
    /\ box' = [box EXCEPT ![a].reply = agent[a].version]
    /\ UNCHANGED <<camera, agent, txn, events>>

\* The second query reads the cameras; the box reconciles to the answer.
PollCameras(a) ==
    /\ box[a].mode = "up"
    /\ box[a].reply # None
    /\ box' = [box EXCEPT ![a].running = Desired(a), ![a].etag = box[a].reply,
                          ![a].reply = None]
    /\ UNCHANGED <<camera, agent, txn, events>>

\* "cut" boxes keep running what they ran; "headless" ones have lost their
\* pipeline but not their Go agent; "off" ones have lost both.
Outage(a, how) ==
    /\ how \in Outages
    /\ box[a].mode = "up"
    /\ Event
    /\ box' = [box EXCEPT ![a].mode = how, ![a].reply = None,
                          ![a].running = IF how = "cut" THEN @ ELSE Nothing,
                          ![a].etag = IF how = "cut" THEN @ ELSE None]
    /\ UNCHANGED <<camera, agent, txn>>

Recover(a) ==
    /\ box[a].mode # "up"
    /\ Event
    /\ box' = [box EXCEPT ![a].mode = "up"]
    /\ UNCHANGED <<camera, agent, txn>>

Operator(w) ==
    \E c \in Cameras :
        \/ CreateCamera(w, c)
        \/ UpdateCamera(w, c)
        \/ DeleteCamera(w, c)
        \/ RestoreCamera(w, c)
        \/ \E a \in Agents : RegisterCamera(w, c, a)
        \/ \E a \in Agents \cup {None} : PinCamera(w, c, a)

Beat(a) == \E w \in Workers, cap \in Capacities : Heartbeat(w, a, cap)
Sweep == \E w \in Workers : BeginSweep(w)
SweepStep(w) == \E a \in Agents : SweepAgent(w, a)

Next ==
    \/ \E w \in Workers : Operator(w) \/ Commit(w) \/ Rollback(w) \/ SweepStep(w)
    \/ Sweep
    \/ \E a \in Agents :
          \/ Beat(a) \/ PushDiscovered(a) \/ GoStale(a)
          \/ PollVersion(a) \/ PollCameras(a)
          \/ Recover(a) \/ \E how \in Outages : Outage(a, how)

Spec == Init /\ [][Next]_vars

\* The boxes' loops and the scheduler run for ever; a transaction ends.  Strong
\* fairness where a model worker must be free: the server has no such limit.
Fairness ==
    /\ \A w \in Workers : WF_vars(Commit(w)) /\ WF_vars(SweepStep(w))
    /\ SF_vars(Sweep)
    /\ \A a \in Agents :
          /\ SF_vars(Beat(a))
          /\ WF_vars(PushDiscovered(a))
          /\ WF_vars(GoStale(a))
          /\ WF_vars(PollVersion(a)) /\ WF_vars(PollCameras(a))

FairSpec == Spec /\ Fairness

------------------------------------------------------------------------------
\* A 304 tells the truth: a box whose ETag matches its agent row's version runs
\* exactly the cameras assigned to it, with their current configuration.  The
\* column comment says the version is "bumped whenever this agent's assignment
\* set changes" (models/agent.py:59-60).
EtagSound ==
    \A a \in Agents : box[a].etag = agent[a].version /\ box[a].reply = None
                        => box[a].running = Desired(a)

\* What every state of the fleet keeps.
FleetSound == TypeOK /\ EtagSound

\* A site with room is never left with an unpinned camera nobody watches: "a
\* site with unassigned cameras and a box with spare capacity resolves itself
\* on the next beat" (internal.py:174-178).
NoAvoidableGap ==
    \A c \in Live(Committed) : camera[c].pinned = None /\ camera[c].agent = None =>
        \A a \in Agents : agent[a].online /\ agent[a].site = Site =>
            Cardinality({d \in Live(Committed) : camera[d].agent = a}) >= agent[a].capacity
SelfHealing == <>[]NoAvoidableGap

\* Boxes that have left the fleet do not keep cameras, and boxes in it run
\* theirs: every assigned camera is really watched by its own box in the end,
\* and by no other box the backend can reach.
Watched ==
    \A c \in Live(Committed), a \in Agents :
        /\ camera[c].agent = a => box[a].running[c] = camera[c].config
        /\ camera[c].agent # a /\ box[a].mode = "up" => box[a].running[c] = None
WatchedEventually == <>[]Watched

\* No lasting overload, and no camera lasting on a box its pin does not name.
Settled ==
    /\ \A a \in Agents :
          agent[a].online =>
              Cardinality({c \in Live(Committed) : camera[c].agent = a}) <= agent[a].capacity
    /\ \A c \in Live(Committed) :
          camera[c].pinned # None => camera[c].agent \in {camera[c].pinned, None}
SettlesEventually == <>[]Settled

\* Lost updates and lost beats are made good, and where the boxes poll, what the
\* backend settled on is what they run.
HealsItself == SelfHealing /\ SettlesEventually
ConvergesWatched == HealsItself /\ WatchedEventually

\* A camera no box is assigned to must not show as online: "the camera may be
\* perfectly healthy -- nobody is watching it.  The UI must not conflate the
\* two" (camera_placement.py:246-247).
UnwatchedShown ==
    \A c \in Live(Committed) : camera[c].agent = None => camera[c].status # "online"
UnwatchedShownEventually == <>[]UnwatchedShown

==============================================================================
