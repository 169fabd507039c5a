----------------------------- MODULE FleetProofs -----------------------------
(***************************************************************************)
(* The fleet, for any number of cameras, boxes and events: its types, and  *)
(* when a 304 is true.  EtagSound is not inductive: it needs that what an  *)
(* open transaction is about to commit has a later version for every box   *)
(* whose set it changes.  That needs one transaction at a time, since a    *)
(* version is committed as an absolute value, and requests that place what *)
(* they change, since register_camera, update_camera, delete_camera and    *)
(* restore_camera bump nothing.                                            *)
(***************************************************************************)
EXTENDS Fleet, TLAPS

-----------------------------------------------------------------------------
(* Types.                                                                     *)

\* A plan places live cameras, on boxes that are in scope and at the site, or nowhere.
LEMMA PlansPlace ==
  ASSUME NEW rows \in Tables, NEW site \in {Site, None}, NEW asg \in Plans(rows, site)
  PROVE  /\ asg \in [Live(rows) -> Agents \cup {None}]
         /\ \A c \in Live(rows) : asg[c] # None =>
               asg[c] \in InScope(rows, site) /\ rows.agent[asg[c]].site = Site
<1> DEFINE cams == CameraArgs(rows)
           boxes == AgentArgs(rows, site)
<1>1. /\ rows.camera \in [Cameras -> CameraRow] /\ rows.agent \in [Agents -> AgentRow]
      /\ Live(rows) \in SUBSET Cameras /\ InScope(rows, site) \in SUBSET Agents
  BY DEF Tables, Live, InScope
<1>2. cams \in Slots
  <2>1. cams \in [Live(rows) -> CameraSlots]
    BY <1>1 DEF CameraRow, CameraArgs, CameraSlots
  <2> QED
    BY <1>1, <2>1 DEF Slots
<1>3. boxes \in Boxes
  <2>1. boxes \in [InScope(rows, site) -> AgentSlots]
    BY <1>1 DEF AgentRow, AgentArgs, AgentSlots
  <2> QED
    BY <1>1, <2>1 DEF Boxes
<1>4. Plans(rows, site) = Placements[<<cams, boxes>>]
  BY DEF Plans
<1> HIDE DEF cams, boxes
<1>5. Placements[<<cams, boxes>>] = {x \in [DOMAIN cams -> Agents \cup {None}] : Policy(cams, boxes, x)}
  <2>1. PICK p : p = <<cams, boxes>>
    OBVIOUS
  <2>2. p[1] = cams /\ p[2] = boxes
    BY <2>1
  <2>3. p \in Slots \X Boxes
    BY <1>2, <1>3, <2>1
  <2>4. Placements[p] = {x \in [DOMAIN p[1] -> Agents \cup {None}] : Policy(p[1], p[2], x)}
    BY <2>3 DEF Placements
  <2> QED
    BY <2>1, <2>2, <2>4
<1>6. asg \in [DOMAIN cams -> Agents \cup {None}] /\ AffinityKept(cams, boxes, asg)
  BY <1>4, <1>5 DEF Policy
<1>7. DOMAIN cams = Live(rows) /\ DOMAIN boxes = InScope(rows, site)
      /\ \A c \in Live(rows) : cams[c].site = Site
      /\ \A a \in InScope(rows, site) : boxes[a].site = rows.agent[a].site
  BY DEF cams, boxes, CameraArgs, AgentArgs
<1> QED
  BY <1>6, <1>7 DEF AffinityKept, Hosts

\* A row as Merged writes it.
MergedRow(now, base, view) == [f \in DOMAIN now |-> IF view[f] # base[f] THEN view[f] ELSE now[f]]

\* A camera's row as it is merged is a row, with a configuration of one of the two.
LEMMA MergedCamera ==
  ASSUME NEW now \in CameraRow, NEW base \in CameraRow, NEW view \in CameraRow
  PROVE  /\ MergedRow(now, base, view) \in CameraRow
         /\ MergedRow(now, base, view).config \in {now.config, view.config}
<1>1. PICK r : r = MergedRow(now, base, view)
  OBVIOUS
<1>2. DOMAIN now = {"state", "agent", "pinned", "config", "status"}
  BY DEF CameraRow
<1>3. /\ r.state \in {now.state, view.state} /\ r.agent \in {now.agent, view.agent}
      /\ r.pinned \in {now.pinned, view.pinned} /\ r.config \in {now.config, view.config}
      /\ r.status \in {now.status, view.status}
  BY <1>1, <1>2 DEF MergedRow
<1>4. r = [state |-> r.state, agent |-> r.agent, pinned |-> r.pinned, config |-> r.config, status |-> r.status]
  BY <1>1, <1>2 DEF MergedRow
<1>5. /\ r.state \in {"absent", "live", "deleted"} /\ r.agent \in Agents \cup {None}
      /\ r.pinned \in Agents \cup {None} /\ r.config \in 0 .. MaxEvents
      /\ r.status \in {"offline", "online", "unassigned"}
  BY <1>3 DEF CameraRow
<1> QED
  BY <1>1, <1>3, <1>4, <1>5 DEF CameraRow

\* A box's row as it is merged is a row, with the version and site last written.
LEMMA MergedAgent ==
  ASSUME NEW now \in AgentRow, NEW base \in AgentRow, NEW view \in AgentRow
  PROVE  /\ MergedRow(now, base, view) \in AgentRow
         /\ MergedRow(now, base, view).version = IF view.version # base.version THEN view.version ELSE now.version
         /\ MergedRow(now, base, view).site = IF view.site # base.site THEN view.site ELSE now.site
<1>1. PICK r : r = MergedRow(now, base, view)
  OBVIOUS
<1>2. DOMAIN now = {"site", "online", "capacity", "version", "fresh"}
  BY DEF AgentRow
<1>3. /\ r.site \in {now.site, view.site} /\ r.online \in {now.online, view.online}
      /\ r.capacity \in {now.capacity, view.capacity} /\ r.version \in {now.version, view.version}
      /\ r.fresh \in {now.fresh, view.fresh}
  BY <1>1, <1>2 DEF MergedRow
<1>4. r = [site |-> r.site, online |-> r.online, capacity |-> r.capacity, version |-> r.version, fresh |-> r.fresh]
  BY <1>1, <1>2 DEF MergedRow
<1>5. /\ r.site \in {Site, None} /\ r.online \in BOOLEAN /\ r.capacity \in Capacities
      /\ r.version \in Nat \ {0} /\ r.fresh \in BOOLEAN
  BY <1>3 DEF AgentRow
<1>6. r \in AgentRow
  BY <1>4, <1>5 DEF AgentRow
<1>7. /\ r.version = IF view.version # base.version THEN view.version ELSE now.version
      /\ r.site = IF view.site # base.site THEN view.site ELSE now.site
  BY <1>1, <1>2 DEF MergedRow
<1> QED
  BY <1>1, <1>6, <1>7

\* A placement applied leaves rows, and no configuration changed.
LEMMA AppliedRows ==
  ASSUME NEW rows \in Tables, NEW site \in {Site, None}, NEW asg \in Plans(rows, site)
  PROVE  /\ Applied(rows, site, asg) \in Tables
         /\ \A c \in Cameras : Applied(rows, site, asg).camera[c].config = rows.camera[c].config
<1>1. rows.camera \in [Cameras -> CameraRow] /\ rows.agent \in [Agents -> AgentRow]
  BY DEF Tables
<1>2. asg \in [Live(rows) -> Agents \cup {None}]
  BY PlansPlace
<1>3. ASSUME NEW c \in Cameras, c \in Moved(rows, asg)
      PROVE  /\ [rows.camera[c] EXCEPT !.agent = asg[c], !.status = PlacedStatus(@, asg[c])] \in CameraRow
             /\ [rows.camera[c] EXCEPT !.agent = asg[c], !.status = PlacedStatus(@, asg[c])].config = rows.camera[c].config
  <2>1. asg[c] \in Agents \cup {None}
    BY <1>2, <1>3 DEF Moved
  <2>2. rows.camera[c] \in CameraRow /\ PlacedStatus(rows.camera[c].status, asg[c]) \in {"offline", "online", "unassigned"}
    BY <1>1 DEF PlacedStatus, CameraRow
  <2> QED
    BY <2>1, <2>2 DEF CameraRow
<1>4. ASSUME NEW a \in Agents
      PROVE  [rows.agent[a] EXCEPT !.version = @ + 1] \in AgentRow
  BY <1>1 DEF AgentRow
<1>5. Applied(rows, site, asg).camera \in [Cameras -> CameraRow]
      /\ \A c \in Cameras : Applied(rows, site, asg).camera[c].config = rows.camera[c].config
  BY <1>1, <1>3 DEF Applied
<1>6. Applied(rows, site, asg).agent \in [Agents -> AgentRow]
  BY <1>1, <1>4 DEF Applied
<1>7. Applied(rows, site, asg) = [camera |-> Applied(rows, site, asg).camera, agent |-> Applied(rows, site, asg).agent]
  BY DEF Applied
<1> QED
  BY <1>5, <1>6, <1>7 DEF Tables

\* A configuration's number grows by one with an operator's request.
ConfigsBounded ==
    /\ \A c \in Cameras : camera[c].config \in 0 .. events
    /\ \A w \in Workers : txn[w].open =>
          \A c \in Cameras : txn[w].base.camera[c].config \in 0 .. events /\ txn[w].view.camera[c].config \in 0 .. events

FleetTypes == TypeOK /\ ConfigsBounded

\* The tables, boxes and transactions a run starts with have their types.
LEMMA TypesStart == Init => FleetTypes
<1> SUFFICES ASSUME Init PROVE FleetTypes
  OBVIOUS
<1>1. camera \in [Cameras -> CameraRow]
  BY FleetAssumption DEF Init, CameraRow
<1>2. agent \in [Agents -> AgentRow]
  <2>1. PICK slots : /\ slots = [site : FirstSites, online : {TRUE}, capacity : {DefaultCapacity},
                                 version : {1}, fresh : {TRUE}]
                     /\ agent \in [Agents -> slots]
    BY DEF Init
  <2>2. ASSUME NEW s \in slots PROVE s \in AgentRow
    <3>1. /\ s = [site |-> s.site, online |-> s.online, capacity |-> s.capacity,
                  version |-> s.version, fresh |-> s.fresh]
          /\ s.site \in FirstSites /\ s.online = TRUE /\ s.capacity = DefaultCapacity
          /\ s.version = 1 /\ s.fresh = TRUE
      BY <2>1
    <3>2. /\ s.site \in {Site, None} /\ s.online \in BOOLEAN /\ s.capacity \in Capacities
          /\ s.version \in Nat \ {0} /\ s.fresh \in BOOLEAN
      <4>1. s.site \in {Site, None} /\ s.capacity \in Capacities
        BY <3>1, FleetAssumption
      <4>2. s.version \in Nat \ {0}
        BY <3>1
      <4>3. s.online \in BOOLEAN /\ s.fresh \in BOOLEAN
        BY <3>1, Zenon
      <4> QED
        BY <4>1, <4>2, <4>3
    <3> QED
      BY <3>1, <3>2 DEF AgentRow
  <2> QED
    BY <2>1, <2>2
<1>3. box \in [Agents -> Box]
  BY FleetAssumption DEF Init, Box, Nothing
<1>4. txn \in [Workers -> Open \cup {Idle}] /\ \A w \in Workers : ~txn[w].open
  BY DEF Init, Idle
<1>5. events \in 0 .. MaxEvents /\ \A c \in Cameras : camera[c].config \in 0 .. events
  BY FleetAssumption DEF Init
<1> QED
  BY <1>1, <1>2, <1>3, <1>4, <1>5 DEF FleetTypes, TypeOK, ConfigsBounded

\* A transaction that is open has its tables.
LEMMA OpenTxn ==
  ASSUME TypeOK, NEW w \in Workers, txn[w].open
  PROVE  txn[w] \in Open
BY DEF TypeOK, Idle

\* A transaction begins with tables, and configurations the events account for.
LEMMA BeginTypes ==
  ASSUME FleetTypes, NEW w \in Workers, NEW view \in Tables, NEW stale \in SUBSET Agents,
         NEW beat \in Agents \cup {None}, Begin(w, view, stale, beat),
         events' \in 0 .. MaxEvents, events <= events',
         \A c \in Cameras : view.camera[c].config \in 0 .. events'
  PROVE  FleetTypes'
<1>1. PICK t : /\ t = [open |-> TRUE, base |-> Committed, view |-> view, stale |-> stale, beat |-> beat]
               /\ txn' = [txn EXCEPT ![w] = t] /\ UNCHANGED <<camera, agent, box>>
  BY DEF Begin
<1>2. Committed \in Tables
  BY DEF FleetTypes, TypeOK, Committed, Tables
<1>3. t \in Open /\ t.base = Committed /\ t.view = view
  BY <1>1, <1>2 DEF Open
<1>4. txn' \in [Workers -> Open \cup {Idle}]
  BY <1>1, <1>3 DEF FleetTypes, TypeOK
<1>5. TypeOK'
  BY <1>1, <1>4 DEF FleetTypes, TypeOK
<1>6. events \in Int /\ events' \in Int
  BY DEF FleetTypes, TypeOK
<1>7. \A c \in Cameras : camera'[c].config \in 0 .. events'
  BY <1>1, <1>6 DEF FleetTypes, ConfigsBounded
<1>8. ASSUME NEW v \in Workers, txn'[v].open, NEW c \in Cameras
      PROVE  txn'[v].base.camera[c].config \in 0 .. events' /\ txn'[v].view.camera[c].config \in 0 .. events'
  <2>1. CASE v = w
    <3>1. txn'[v] = t
      BY <1>1, <2>1 DEF FleetTypes, TypeOK
    <3>2. t.base.camera[c] = camera[c]
      BY <1>3 DEF Committed
    <3> QED
      BY <1>1, <1>3, <1>7, <3>1, <3>2
  <2>2. CASE v # w
    <3>1. txn'[v] = txn[v]
      BY <1>1, <2>2 DEF FleetTypes, TypeOK
    <3>2. /\ txn[v].base.camera[c].config \in 0 .. events
          /\ txn[v].view.camera[c].config \in 0 .. events
      BY <1>8, <3>1 DEF FleetTypes, ConfigsBounded
    <3> QED
      BY <1>6, <3>1, <3>2
  <2> QED
    BY <2>1, <2>2
<1> QED
  BY <1>5, <1>7, <1>8 DEF FleetTypes, ConfigsBounded

\* So does one with a placement pass.
LEMMA ReconciledTypes ==
  ASSUME FleetTypes, NEW w \in Workers, NEW rows \in Tables, NEW site \in {Site, None},
         NEW beat \in Agents \cup {None}, BeginReconciled(w, rows, site, beat),
         events' \in 0 .. MaxEvents, events <= events',
         \A c \in Cameras : rows.camera[c].config \in 0 .. events'
  PROVE  FleetTypes'
<1>1. PICK asg \in Plans(rows, site) : Begin(w, Applied(rows, site, asg), {}, beat)
  BY DEF BeginReconciled
<1>2. PICK view : view = Applied(rows, site, asg)
  OBVIOUS
<1>3. view \in Tables /\ \A c \in Cameras : view.camera[c].config \in 0 .. events'
  BY <1>2, AppliedRows
<1>4. {} \in SUBSET Agents /\ Begin(w, view, {}, beat)
  BY <1>1, <1>2
<1> QED
  BY <1>3, <1>4, BeginTypes

\* A commit writes rows, each column from one of the two.
LEMMA CommitTypes ==
  ASSUME FleetTypes, NEW w \in Workers, Commit(w)
  PROVE  FleetTypes'
<1>1. PICK t \in Open : t = txn[w]
  BY OpenTxn DEF Commit, FleetTypes
<1>2. /\ camera' = Merged(camera, t.base.camera, t.view.camera)
      /\ agent' = Merged(agent, t.base.agent, t.view.agent)
      /\ txn' = [txn EXCEPT ![w] = Idle] /\ UNCHANGED <<box, events>>
  BY <1>1 DEF Commit
<1>3. /\ camera \in [Cameras -> CameraRow] /\ agent \in [Agents -> AgentRow] /\ events \in Int
      /\ t.base.camera \in [Cameras -> CameraRow] /\ t.view.camera \in [Cameras -> CameraRow]
      /\ t.base.agent \in [Agents -> AgentRow] /\ t.view.agent \in [Agents -> AgentRow]
  BY DEF FleetTypes, TypeOK, Open, Tables
<1>4. camera' = [c \in Cameras |-> MergedRow(camera[c], t.base.camera[c], t.view.camera[c])]
  BY <1>2, <1>3 DEF Merged, MergedRow
<1>5. agent' = [a \in Agents |-> MergedRow(agent[a], t.base.agent[a], t.view.agent[a])]
  BY <1>2, <1>3 DEF Merged, MergedRow
<1>6. ASSUME NEW c \in Cameras PROVE camera'[c] \in CameraRow /\ camera'[c].config \in 0 .. events'
  <2>1. camera'[c] \in CameraRow /\ camera'[c].config \in {camera[c].config, t.view.camera[c].config}
    BY <1>3, <1>4, MergedCamera
  <2>2. camera[c].config \in 0 .. events /\ t.view.camera[c].config \in 0 .. events
    BY <1>1 DEF Commit, FleetTypes, ConfigsBounded
  <2> QED
    BY <1>2, <2>1, <2>2
<1>7. camera' \in [Cameras -> CameraRow]
  BY <1>4, <1>6
<1>8. agent' \in [Agents -> AgentRow]
  <2>1. \A a \in Agents : MergedRow(agent[a], t.base.agent[a], t.view.agent[a]) \in AgentRow
    BY <1>3, MergedAgent
  <2> QED
    BY <1>5, <2>1
<1>9. /\ txn' \in [Workers -> Open \cup {Idle}]
      /\ \A v \in Workers : txn'[v].open => txn'[v] = txn[v] /\ txn[v].open
  BY <1>2 DEF FleetTypes, TypeOK, Idle
<1> QED
  BY <1>2, <1>6, <1>7, <1>8, <1>9 DEF FleetTypes, TypeOK, ConfigsBounded

\* A rollback keeps nothing of the transaction.
LEMMA RollbackTypes ==
  ASSUME FleetTypes, NEW w \in Workers, Rollback(w)
  PROVE  FleetTypes'
<1>1. /\ txn' = [txn EXCEPT ![w] = Idle] /\ UNCHANGED <<camera, agent, box>>
      /\ events' = events + 1 /\ events' \in 0 .. MaxEvents /\ events \in Int
  BY FleetAssumption DEF Rollback, Event, FleetTypes, TypeOK
<1>2. /\ txn' \in [Workers -> Open \cup {Idle}]
      /\ \A v \in Workers : txn'[v].open => txn'[v] = txn[v] /\ txn[v].open
  BY <1>1 DEF FleetTypes, TypeOK, Idle
<1>3. TypeOK'
  BY <1>1, <1>2 DEF FleetTypes, TypeOK
<1>4. \A c \in Cameras : camera[c].config \in 0 .. (events + 1)
  BY <1>1 DEF FleetTypes, TypeOK, ConfigsBounded
<1>5. ASSUME NEW v \in Workers, txn[v].open, NEW c \in Cameras
      PROVE  txn[v].base.camera[c].config \in 0 .. (events + 1) /\ txn[v].view.camera[c].config \in 0 .. (events + 1)
  BY <1>1, <1>5 DEF FleetTypes, ConfigsBounded
<1> QED
  BY <1>1, <1>2, <1>3, <1>4, <1>5 DEF FleetTypes, ConfigsBounded

\* A step that opens no transaction and writes no camera.
LEMMA OtherTypes ==
  ASSUME FleetTypes, UNCHANGED <<camera, txn>>, events' \in {events, events + 1}, events' \in 0 .. MaxEvents,
         agent' \in [Agents -> AgentRow], box' \in [Agents -> Box]
  PROVE  FleetTypes'
<1>1. events \in Int
  BY DEF FleetTypes, TypeOK
<1>2. ASSUME NEW c \in Cameras PROVE camera[c].config \in 0 .. events'
  BY <1>1 DEF FleetTypes, TypeOK, ConfigsBounded
<1>3. ASSUME NEW v \in Workers, txn[v].open, NEW c \in Cameras
      PROVE  txn[v].base.camera[c].config \in 0 .. events' /\ txn[v].view.camera[c].config \in 0 .. events'
  BY <1>1, <1>3 DEF FleetTypes, ConfigsBounded
<1> QED
  BY <1>2, <1>3 DEF FleetTypes, TypeOK, ConfigsBounded

\* A request that changes one row of the cameras and places them.
LEMMA WithRow ==
  ASSUME FleetTypes, NEW c \in Cameras, NEW row \in CameraRow, events' \in 0 .. MaxEvents, events <= events',
         row.config \in 0 .. events'
  PROVE  /\ With(c, row) \in Tables
         /\ \A d \in Cameras : With(c, row).camera[d].config \in 0 .. events'
         /\ With(c, row).agent = agent
         /\ \A d \in Cameras : With(c, row).camera[d] = IF d = c THEN row ELSE camera[d]
<1>1. camera \in [Cameras -> CameraRow] /\ agent \in [Agents -> AgentRow] /\ events \in Int
  BY DEF FleetTypes, TypeOK
<1>2. With(c, row) = [camera |-> [camera EXCEPT ![c] = row], agent |-> agent]
  BY <1>1 DEF With, Committed
<1>3. [camera EXCEPT ![c] = row] \in [Cameras -> CameraRow]
  BY <1>1
<1>4. \A d \in Cameras : camera[d].config \in 0 .. events'
  BY <1>1 DEF FleetTypes, ConfigsBounded
<1> QED
  BY <1>1, <1>2, <1>3, <1>4 DEF Tables

\* A request uses one of the bounded events.
LEMMA RequestCosts ==
  ASSUME FleetTypes, Event
  PROVE  events' = events + 1 /\ events' \in 0 .. MaxEvents /\ events <= events' /\ events \in Int
BY FleetAssumption DEF FleetTypes, TypeOK, Event

\* Each of the operator's requests keeps the types.
LEMMA OperatorTypes ==
  ASSUME FleetTypes, NEW w \in Workers, Operator(w)
  PROVE  FleetTypes'
<1>0. Event /\ events' = events + 1 /\ events' \in 0 .. MaxEvents /\ events <= events' /\ events \in Int
  BY RequestCosts DEF Operator, CreateCamera, RegisterCamera, UpdateCamera, DeleteCamera, RestoreCamera,
                      PinCamera, Request
<1>1. /\ camera \in [Cameras -> CameraRow]
      /\ \A c \in Cameras : camera[c].config \in 0 .. events /\ camera[c].config \in 0 .. events'
  BY <1>0 DEF FleetTypes, TypeOK, ConfigsBounded
<1>2. ASSUME NEW c \in Cameras, NEW row \in CameraRow, row.config = camera[c].config,
             BeginReconciled(w, With(c, row), Site, None)
      PROVE  FleetTypes'
  <2>1. PICK rows : rows = With(c, row)
    OBVIOUS
  <2>2. rows \in Tables /\ \A d \in Cameras : rows.camera[d].config \in 0 .. events'
    BY <1>0, <1>1, <1>2, <2>1, WithRow
  <2>3. BeginReconciled(w, rows, Site, None)
    BY <1>2, <2>1
  <2> QED
    BY <1>0, <2>2, <2>3, ReconciledTypes
<1>3. ASSUME NEW c \in Cameras, NEW row \in CameraRow, row.config \in 0 .. events', Begin(w, With(c, row), {}, None)
      PROVE  FleetTypes'
  <2>1. PICK rows : rows = With(c, row)
    OBVIOUS
  <2>2. rows \in Tables /\ \A d \in Cameras : rows.camera[d].config \in 0 .. events'
    BY <1>0, <1>3, <2>1, WithRow
  <2>3. Begin(w, rows, {}, None)
    BY <1>3, <2>1
  <2> QED
    BY <1>0, <2>2, <2>3, BeginTypes
<1>4. ASSUME NEW c \in Cameras, CreateCamera(w, c) PROVE FleetTypes'
  <2>1. PICK row : row = [camera[c] EXCEPT !.state = "live"]
    OBVIOUS
  <2>2. row \in CameraRow /\ row.config = camera[c].config
    BY <1>1, <2>1 DEF CameraRow
  <2> QED
    BY <1>2, <1>4, <2>1, <2>2 DEF CreateCamera
<1>5. ASSUME NEW c \in Cameras, NEW a \in Agents, RegisterCamera(w, c, a) PROVE FleetTypes'
  <2>1. PICK row : row = [camera[c] EXCEPT !.state = "live", !.agent = a]
    OBVIOUS
  <2>2. row \in CameraRow /\ row.config = camera[c].config
    BY <1>1, <2>1 DEF CameraRow
  <2> QED
    BY <1>1, <1>3, <1>5, <2>1, <2>2 DEF RegisterCamera
<1>6. ASSUME NEW c \in Cameras, UpdateCamera(w, c) PROVE FleetTypes'
  <2>1. PICK row : row = [camera[c] EXCEPT !.config = @ + 1]
    OBVIOUS
  <2>2. camera[c] \in CameraRow /\ camera[c].config \in 0 .. events
    BY <1>1
  <2>3. PICK n : n = camera[c].config + 1 /\ n \in 0 .. events' /\ n \in 0 .. MaxEvents
    BY <1>0, <2>2, FleetAssumption
  <2>4. row = [camera[c] EXCEPT !.config = n]
    BY <2>1, <2>3
  <2>5. row \in CameraRow /\ row.config \in 0 .. events'
    BY <2>2, <2>3, <2>4 DEF CameraRow
  <2> QED
    BY <1>3, <1>6, <2>1, <2>5 DEF UpdateCamera
<1>7. ASSUME NEW c \in Cameras, DeleteCamera(w, c) PROVE FleetTypes'
  <2>1. PICK row : row = [camera[c] EXCEPT !.state = "deleted"]
    OBVIOUS
  <2>2. row \in CameraRow /\ row.config = camera[c].config
    BY <1>1, <2>1 DEF CameraRow
  <2> QED
    BY <1>2, <1>7, <2>1, <2>2 DEF DeleteCamera
<1>8. ASSUME NEW c \in Cameras, RestoreCamera(w, c) PROVE FleetTypes'
  <2>1. PICK row : row = [camera[c] EXCEPT !.state = "live"]
    OBVIOUS
  <2>2. row \in CameraRow /\ row.config = camera[c].config
    BY <1>1, <2>1 DEF CameraRow
  <2> QED
    BY <1>1, <1>3, <1>8, <2>1, <2>2 DEF RestoreCamera
<1>9. ASSUME NEW c \in Cameras, NEW a \in Agents \cup {None}, PinCamera(w, c, a) PROVE FleetTypes'
  <2>1. PICK row : row = [camera[c] EXCEPT !.pinned = a]
    OBVIOUS
  <2>2. row \in CameraRow /\ row.config = camera[c].config
    BY <1>1, <2>1 DEF CameraRow
  <2> QED
    BY <1>2, <1>9, <2>1, <2>2 DEF PinCamera
<1> QED
  BY <1>4, <1>5, <1>6, <1>7, <1>8, <1>9 DEF Operator

\* What a heartbeat has in its session before its placement pass.
Reported(a) == {c \in Cameras : box[a].running[c] # None /\ camera[c].state = "live"}
Adopted(a) == IF agent[a].site = None /\ \E c \in Reported(a) : camera[c].agent = a
              THEN Site ELSE agent[a].site
BeatRows(a, cap) ==
    [camera |-> [c \in Cameras |-> IF c \in Reported(a) THEN [camera[c] EXCEPT !.status = "online"]
                                   ELSE camera[c]],
     agent |-> [agent EXCEPT ![a].online = TRUE, ![a].fresh = TRUE, ![a].capacity = cap, ![a].site = Adopted(a)]]

\* A report assigns no camera, bumps no version and moves no box from the site.
LEMMA BeatRowsAre ==
  ASSUME TypeOK, NEW a \in Agents, NEW cap \in Capacities
  PROVE  /\ BeatRows(a, cap) \in Tables /\ Adopted(a) \in {Site, None}
         /\ \A c \in Cameras : /\ BeatRows(a, cap).camera[c].config = camera[c].config
                               /\ BeatRows(a, cap).camera[c].state = camera[c].state
                               /\ BeatRows(a, cap).camera[c].agent = camera[c].agent
         /\ \A b \in Agents : /\ BeatRows(a, cap).agent[b].version = agent[b].version
                              /\ agent[b].site = Site => BeatRows(a, cap).agent[b].site = Site
<1>1. camera \in [Cameras -> CameraRow] /\ agent \in [Agents -> AgentRow]
  BY DEF TypeOK
<1>2. Adopted(a) \in {Site, None} /\ (agent[a].site = Site => Adopted(a) = Site)
  BY <1>1 DEF Adopted, AgentRow
<1>3. PICK cams : cams = [c \in Cameras |-> IF c \in Reported(a) THEN [camera[c] EXCEPT !.status = "online"]
                                            ELSE camera[c]]
  OBVIOUS
<1>4. ASSUME NEW c \in Cameras
      PROVE  /\ cams[c] \in CameraRow /\ cams[c].config = camera[c].config
             /\ cams[c].state = camera[c].state /\ cams[c].agent = camera[c].agent
  BY <1>1, <1>3 DEF CameraRow
<1>5. cams \in [Cameras -> CameraRow]
  BY <1>3, <1>4
<1>6. PICK row : row = [agent[a] EXCEPT !.online = TRUE, !.fresh = TRUE, !.capacity = cap, !.site = Adopted(a)]
  OBVIOUS
<1>7. row \in AgentRow /\ row.version = agent[a].version /\ row.site = Adopted(a)
  BY <1>1, <1>2, <1>6 DEF AgentRow
<1>8. PICK ags : ags = [agent EXCEPT ![a] = row]
  OBVIOUS
<1>9. BeatRows(a, cap) = [camera |-> cams, agent |-> ags]
  BY <1>1, <1>3, <1>6, <1>8 DEF BeatRows
<1>10. ags \in [Agents -> AgentRow]
       /\ \A b \in Agents : ags[b].version = agent[b].version /\ (agent[b].site = Site => ags[b].site = Site)
  BY <1>1, <1>2, <1>7, <1>8
<1> QED
  BY <1>2, <1>4, <1>5, <1>9, <1>10 DEF Tables

\* A heartbeat is a placement pass over those rows.
LEMMA HeartbeatIs ==
  ASSUME NEW w \in Workers, NEW a \in Agents, NEW cap \in Capacities, Heartbeat(w, a, cap)
  PROVE  /\ BeginReconciled(w, BeatRows(a, cap), Adopted(a), a)
         /\ events' = events \/ Event
BY DEF Heartbeat, BeatRows, Adopted, Reported

\* A heartbeat keeps the types.
LEMMA BeatTypes ==
  ASSUME FleetTypes, NEW w \in Workers, NEW a \in Agents, NEW cap \in Capacities, Heartbeat(w, a, cap)
  PROVE  FleetTypes'
<1>1. events' \in 0 .. MaxEvents /\ events <= events' /\ events \in Int
  BY HeartbeatIs, RequestCosts DEF FleetTypes, TypeOK
<1>2. PICK rows, site : rows = BeatRows(a, cap) /\ site = Adopted(a)
  OBVIOUS
<1>3. BeginReconciled(w, rows, site, a)
  BY <1>2, HeartbeatIs
<1>4. TypeOK /\ \A c \in Cameras : camera[c].config \in 0 .. events'
  BY <1>1 DEF FleetTypes, ConfigsBounded
<1>5. rows \in Tables /\ site \in {Site, None} /\ \A c \in Cameras : rows.camera[c].config \in 0 .. events'
  BY <1>2, <1>4, BeatRowsAre
<1> QED
  BY <1>1, <1>3, <1>5, ReconciledTypes

\* A sweep begins with what is committed.
LEMMA SweepTypes ==
  ASSUME FleetTypes, NEW w \in Workers, BeginSweep(w)
  PROVE  FleetTypes'
<1>1. PICK stale, view : stale \in SUBSET Agents /\ view = Committed /\ Begin(w, view, stale, None)
  BY DEF BeginSweep
<1>2. events' = events /\ events \in 0 .. MaxEvents
  BY DEF BeginSweep, FleetTypes, TypeOK
<1>3. view \in Tables /\ \A c \in Cameras : view.camera[c].config \in 0 .. events'
  BY <1>1, <1>2 DEF FleetTypes, TypeOK, ConfigsBounded, Committed, Tables
<1> QED
  BY <1>1, <1>2, <1>3, BeginTypes

\* The rows of a sweep when it has found one box silent.
SilentRows(t, a) == [t.view EXCEPT !.agent[a].online = FALSE]

\* They differ in that box's health only.
LEMMA SilentRowsAre ==
  ASSUME NEW t \in Open, NEW a \in Agents
  PROVE  /\ SilentRows(t, a) \in Tables /\ SilentRows(t, a).agent[a].site \in {Site, None}
         /\ SilentRows(t, a).camera = t.view.camera
         /\ \A b \in Agents : /\ SilentRows(t, a).agent[b].version = t.view.agent[b].version
                              /\ SilentRows(t, a).agent[b].site = t.view.agent[b].site
<1>1. t.view \in Tables /\ t.view = [camera |-> t.view.camera, agent |-> t.view.agent]
      /\ t.view.camera \in [Cameras -> CameraRow] /\ t.view.agent \in [Agents -> AgentRow]
  BY DEF Open, Tables
<1>2. PICK ags : ags = [t.view.agent EXCEPT ![a].online = FALSE]
  OBVIOUS
<1>3. ags \in [Agents -> AgentRow]
      /\ \A b \in Agents : ags[b].version = t.view.agent[b].version /\ ags[b].site = t.view.agent[b].site
  BY <1>1, <1>2 DEF AgentRow
<1>4. SilentRows(t, a) = [camera |-> t.view.camera, agent |-> ags]
  <2>1. PICK v, cams, old : /\ v = t.view /\ v = [camera |-> cams, agent |-> old]
                            /\ cams = t.view.camera /\ old = t.view.agent
    BY <1>1
  <2>2. SilentRows(t, a) = [v EXCEPT !.agent[a].online = FALSE] /\ v.agent = old
    BY <2>1 DEF SilentRows
  <2>3. [v EXCEPT !.agent[a].online = FALSE] = [v EXCEPT !.agent = [v.agent EXCEPT ![a].online = FALSE]]
    OBVIOUS
  <2>4. [v EXCEPT !.agent = ags] = [camera |-> cams, agent |-> ags]
    BY <2>1
  <2>5. ags = [v.agent EXCEPT ![a].online = FALSE]
    BY <1>2, <2>1, <2>2
  <2> QED
    BY <2>1, <2>2, <2>3, <2>4, <2>5
<1> QED
  BY <1>1, <1>3, <1>4 DEF Tables, AgentRow

\* A round of the sweep is a placement over them.
LEMMA SweepAgentIs ==
  ASSUME TypeOK, NEW w \in Workers, NEW a \in Agents, SweepAgent(w, a)
  PROVE  \E t \in Open, site \in {Site, None} :
           /\ t = txn[w] /\ site = SilentRows(t, a).agent[a].site
           /\ \E asg \in Plans(SilentRows(t, a), site) :
                 txn' = [txn EXCEPT ![w] = [t EXCEPT !.view = Applied(SilentRows(t, a), site, asg),
                                                     !.stale = t.stale \ {a}]]
           /\ UNCHANGED <<camera, agent, box, events>>
<1>1. PICK t \in Open : t = txn[w]
  BY OpenTxn DEF SweepAgent
<1>2. PICK site \in {Site, None} : site = SilentRows(t, a).agent[a].site
  BY SilentRowsAre
<1>3. PICK asg \in Plans(SilentRows(t, a), site) :
        txn' = [txn EXCEPT ![w].view = Applied(SilentRows(t, a), site, asg), ![w].stale = @ \ {a}]
  BY <1>1, <1>2 DEF SweepAgent, SilentRows
<1>4. PICK view : view = Applied(SilentRows(t, a), site, asg)
  OBVIOUS
<1>5. txn' = [txn EXCEPT ![w] = [t EXCEPT !.view = view, !.stale = t.stale \ {a}]]
  <2>1. txn' = [txn EXCEPT ![w].view = view, ![w].stale = @ \ {a}]
    BY <1>3, <1>4
  <2>2. txn \in [Workers -> Open \cup {Idle}]
    BY DEF TypeOK
  <2> QED
    BY <1>1, <2>1, <2>2 DEF Open
<1>6. UNCHANGED <<camera, agent, box, events>>
  BY DEF SweepAgent
<1> QED
  BY <1>1, <1>2, <1>4, <1>5, <1>6

\* A round of the sweep keeps the types.
LEMMA SweepAgentTypes ==
  ASSUME FleetTypes, NEW w \in Workers, NEW a \in Agents, SweepAgent(w, a)
  PROVE  FleetTypes'
<1>1. PICK t \in Open, site \in {Site, None} :
        /\ t = txn[w] /\ site = SilentRows(t, a).agent[a].site
        /\ \E asg \in Plans(SilentRows(t, a), site) :
              txn' = [txn EXCEPT ![w] = [t EXCEPT !.view = Applied(SilentRows(t, a), site, asg),
                                                  !.stale = t.stale \ {a}]]
        /\ UNCHANGED <<camera, agent, box, events>>
  <2>1. TypeOK
    BY DEF FleetTypes
  <2> QED
    BY <2>1, SweepAgentIs
<1>2. PICK rows : rows = SilentRows(t, a) /\ rows \in Tables /\ rows.camera = t.view.camera
  BY SilentRowsAre
<1>3. PICK asg, view :
        /\ asg \in Plans(rows, site) /\ view = Applied(rows, site, asg)
        /\ txn' = [txn EXCEPT ![w] = [t EXCEPT !.view = view, !.stale = t.stale \ {a}]]
  <2>1. PICK asg \in Plans(SilentRows(t, a), site) :
          txn' = [txn EXCEPT ![w] = [t EXCEPT !.view = Applied(SilentRows(t, a), site, asg), !.stale = t.stale \ {a}]]
    BY <1>1
  <2>2. PICK view : view = Applied(SilentRows(t, a), site, asg)
    OBVIOUS
  <2>3. view = Applied(rows, site, asg) /\ asg \in Plans(rows, site)
    BY <1>2, <2>2
  <2>4. txn' = [txn EXCEPT ![w] = [t EXCEPT !.view = view, !.stale = t.stale \ {a}]]
    BY <2>1, <2>2
  <2> QED
    BY <2>3, <2>4
<1>4. view \in Tables /\ \A c \in Cameras : view.camera[c].config = t.view.camera[c].config
  BY <1>2, <1>3, AppliedRows
<1>5. PICK u : u = [t EXCEPT !.view = view, !.stale = t.stale \ {a}]
  OBVIOUS
<1>6. u \in Open /\ u.base = t.base /\ u.view = view
  BY <1>4, <1>5 DEF Open
<1>7. txn' \in [Workers -> Open \cup {Idle}] /\ txn' = [txn EXCEPT ![w] = u] /\ txn \in [Workers -> Open \cup {Idle}]
  BY <1>3, <1>5, <1>6 DEF FleetTypes, TypeOK
<1>8. ASSUME NEW v \in Workers, txn'[v].open, NEW c \in Cameras
      PROVE  txn'[v].base.camera[c].config \in 0 .. events /\ txn'[v].view.camera[c].config \in 0 .. events
  <2>1. t.open
    BY DEF Open
  <2>2. CASE v = w
    BY <1>1, <1>4, <1>6, <1>7, <2>1, <2>2 DEF FleetTypes, ConfigsBounded
  <2>3. CASE v # w
    BY <1>7, <1>8, <2>3 DEF FleetTypes, ConfigsBounded
  <2> QED
    BY <2>2, <2>3
<1> QED
  BY <1>1, <1>7, <1>8 DEF FleetTypes, TypeOK, ConfigsBounded

\* Every step keeps the types.
LEMMA TypesStep ==
  ASSUME FleetTypes, [Next]_vars
  PROVE  FleetTypes'
<1>0. TypeOK /\ events \in 0 .. MaxEvents
  BY DEF FleetTypes, TypeOK
<1>1. ASSUME NEW a \in Agents, PushDiscovered(a) \/ GoStale(a) PROVE FleetTypes'
  <2>1. agent' \in [Agents -> AgentRow] /\ UNCHANGED <<camera, box, txn, events>>
    <3>1. agent \in [Agents -> AgentRow]
      BY <1>0 DEF TypeOK
    <3>2. [agent[a] EXCEPT !.online = TRUE, !.fresh = TRUE] \in AgentRow /\ [agent[a] EXCEPT !.fresh = FALSE] \in AgentRow
      BY <3>1 DEF AgentRow
    <3>3. CASE PushDiscovered(a)
      <4>1. agent' = [agent EXCEPT ![a] = [agent[a] EXCEPT !.online = TRUE, !.fresh = TRUE]]
        BY <3>1, <3>3 DEF PushDiscovered
      <4> QED
        BY <3>1, <3>2, <3>3, <4>1 DEF PushDiscovered
    <3>4. CASE GoStale(a)
      <4>1. agent' = [agent EXCEPT ![a] = [agent[a] EXCEPT !.fresh = FALSE]]
        BY <3>1, <3>4 DEF GoStale
      <4> QED
        BY <3>1, <3>2, <3>4, <4>1 DEF GoStale
    <3> QED
      BY <1>1, <3>3, <3>4
  <2> QED
    BY <1>0, <2>1, OtherTypes DEF TypeOK
<1>2. ASSUME NEW a \in Agents, PollVersion(a) \/ PollCameras(a) PROVE FleetTypes'
  <2>1. Desired(a) \in [Cameras -> 0 .. MaxEvents \cup {None}]
    BY <1>0 DEF Desired, TypeOK, CameraRow
  <2>2. agent[a].version \in Nat /\ box[a] \in Box
    BY <1>0 DEF TypeOK, AgentRow
  <2>3. UNCHANGED <<camera, agent, txn, events>> /\ box' \in [Agents -> Box]
    <3>1. box \in [Agents -> Box]
      BY <1>0 DEF TypeOK
    <3>2. CASE PollVersion(a)
      <4>1. box' = [box EXCEPT ![a] = [box[a] EXCEPT !.reply = agent[a].version]]
        BY <3>1, <3>2 DEF PollVersion
      <4>2. [box[a] EXCEPT !.reply = agent[a].version] \in Box
        BY <2>2 DEF Box
      <4> QED
        BY <3>1, <3>2, <4>1, <4>2 DEF PollVersion
    <3>3. CASE PollCameras(a)
      <4>1. box' = [box EXCEPT ![a] = [box[a] EXCEPT !.running = Desired(a), !.etag = box[a].reply, !.reply = None]]
        BY <3>1, <3>3 DEF PollCameras
      <4>2. [box[a] EXCEPT !.running = Desired(a), !.etag = box[a].reply, !.reply = None] \in Box
        BY <2>1, <2>2 DEF Box
      <4> QED
        BY <3>1, <3>3, <4>1, <4>2 DEF PollCameras
    <3> QED
      BY <1>2, <3>2, <3>3
  <2> QED
    BY <1>0, <2>3, OtherTypes DEF TypeOK
<1>3. ASSUME NEW a \in Agents, Recover(a) PROVE FleetTypes'
  <2>1. UNCHANGED <<camera, agent, txn>> /\ box' \in [Agents -> Box] /\ Event
    BY <1>0, <1>3 DEF Recover, TypeOK, Box
  <2> QED
    BY <1>0, <2>1, OtherTypes, RequestCosts DEF TypeOK
<1>4. ASSUME NEW a \in Agents, NEW how \in Outages, Outage(a, how) PROVE FleetTypes'
  <2>1. Nothing \in [Cameras -> 0 .. MaxEvents \cup {None}] /\ how \in {"off", "cut", "headless"}
    BY FleetAssumption DEF Nothing
  <2>2. box[a] \in Box
    BY <1>0 DEF TypeOK
  <2>3. UNCHANGED <<camera, agent, txn>> /\ box' \in [Agents -> Box] /\ Event
    BY <1>0, <1>4, <2>1, <2>2 DEF Outage, TypeOK, Box
  <2> QED
    BY <1>0, <2>3, OtherTypes, RequestCosts DEF TypeOK
<1>5. ASSUME UNCHANGED vars PROVE FleetTypes'
  BY <1>5 DEF vars, FleetTypes, TypeOK, ConfigsBounded
<1> QED
  BY <1>1, <1>2, <1>3, <1>4, <1>5, OperatorTypes, CommitTypes, RollbackTypes, BeatTypes, SweepTypes, SweepAgentTypes
     DEF Next, Beat, Sweep, SweepStep

(***************************************************************************)
(* Whatever requests, outages and transactions overlap, the tables hold    *)
(* rows of their types: configurations are bounded by the events that      *)
(* change them.                                                            *)
(***************************************************************************)
THEOREM FleetIsTyped == Spec => []TypeOK
<1>1. FleetTypes /\ [Next]_vars => FleetTypes'
  BY TypesStep
<1>2. FleetTypes => TypeOK
  BY DEF FleetTypes
<1> QED
  BY TypesStart, <1>1, <1>2, PTL DEF Spec

-----------------------------------------------------------------------------
(* When a 304 is true.                                                        *)

\* What GET /internal/assignments would list from these rows.
DesiredOf(rows, a) ==
    [c \in Cameras |-> IF rows.camera[c].state = "live" /\ rows.camera[c].agent = a
                       THEN rows.camera[c].config ELSE None]

\* A camera is on a box of its site, and one not created yet is on none.
Placed(rows) ==
    \A c \in Cameras :
        /\ \A a \in Agents : rows.camera[c].agent = a => rows.agent[a].site = Site
        /\ rows.camera[c].state = "absent" => rows.camera[c].agent = None

\* Versions do not go back, and whose set differs has a later one.
Told(base, rows) ==
    \A a \in Agents :
        /\ rows.agent[a].version >= base.agent[a].version
        /\ DesiredOf(rows, a) # DesiredOf(base, a) => rows.agent[a].version > base.agent[a].version

\* An open transaction read what is committed, but for reports, and tells whom it moves.
TxnTells(t) ==
    /\ t.base.camera = camera
    /\ \A a \in Agents : t.base.agent[a].version = agent[a].version /\ t.base.agent[a].site = agent[a].site
    /\ Told(t.base, t.view) /\ Placed(t.view)

\* A box has seen no version later than its row's, and is answered only when it has not
\* seen the latest.
EtagsBehind ==
    \A a \in Agents : /\ box[a].etag # None => box[a].etag <= agent[a].version
                      /\ box[a].reply # None => /\ box[a].reply <= agent[a].version
                                                /\ box[a].etag # agent[a].version

FleetInv ==
    /\ FleetTypes
    /\ Placed(Committed)
    /\ \A w \in Workers : txn[w].open => TxnTells(txn[w])
    /\ EtagsBehind /\ EtagSound

\* What the route lists is what the committed rows assign.
LEMMA DesiredIsOf == ASSUME NEW a PROVE Desired(a) = DesiredOf(Committed, a)
BY DEF Desired, DesiredOf, Committed

\* A placement tells whom it moves: both boxes of a camera that moves are in scope.
LEMMA AppliedTells ==
  ASSUME NEW base \in Tables, NEW rows \in Tables, NEW site \in {Site, None}, NEW asg \in Plans(rows, site),
         Told(base, rows), Placed(rows)
  PROVE  Told(base, Applied(rows, site, asg)) /\ Placed(Applied(rows, site, asg))
<1>0. PICK new : new = Applied(rows, site, asg)
  OBVIOUS
<1>1. /\ rows.camera \in [Cameras -> CameraRow] /\ rows.agent \in [Agents -> AgentRow]
      /\ base.agent \in [Agents -> AgentRow]
  BY DEF Tables
<1>2. /\ asg \in [Live(rows) -> Agents \cup {None}]
      /\ \A c \in Live(rows) : asg[c] # None =>
            asg[c] \in InScope(rows, site) /\ rows.agent[asg[c]].site = Site
  BY PlansPlace
<1>3. \A c \in Moved(rows, asg) : c \in Live(rows) /\ c \in Cameras
  BY <1>2 DEF Moved, Live
<1>4. ASSUME NEW c \in Cameras
      PROVE  /\ new.camera[c].state = rows.camera[c].state /\ new.camera[c].config = rows.camera[c].config
             /\ c \in Moved(rows, asg) => new.camera[c].agent = asg[c]
             /\ c \notin Moved(rows, asg) => new.camera[c].agent = rows.camera[c].agent
  <2>1. rows.camera[c] \in CameraRow
    BY <1>1
  <2>2. CASE c \in Moved(rows, asg)
    <3>1. PICK s : s = PlacedStatus(rows.camera[c].status, asg[c])
      OBVIOUS
    <3>2. new.camera[c] = [rows.camera[c] EXCEPT !.agent = asg[c], !.status = s]
      BY <1>0, <2>2, <3>1 DEF Applied
    <3> QED
      BY <2>1, <2>2, <3>2 DEF CameraRow
  <2>3. CASE c \notin Moved(rows, asg)
    <3>1. new.camera[c] = rows.camera[c]
      BY <1>0, <2>3 DEF Applied
    <3> QED
      BY <2>3, <3>1
  <2> QED
    BY <2>2, <2>3
<1>5. ASSUME NEW a \in Agents
      PROVE  /\ new.agent[a].site = rows.agent[a].site
             /\ a \in Touched(rows, site, asg) => new.agent[a].version = rows.agent[a].version + 1
             /\ a \notin Touched(rows, site, asg) => new.agent[a].version = rows.agent[a].version
  <2>1. rows.agent[a] \in AgentRow
    BY <1>1
  <2>2. CASE a \in Touched(rows, site, asg)
    <3>1. new.agent[a] = [rows.agent[a] EXCEPT !.version = @ + 1]
      BY <1>0, <2>2 DEF Applied
    <3> QED
      BY <2>1, <2>2, <3>1 DEF AgentRow
  <2>3. CASE a \notin Touched(rows, site, asg)
    <3>1. new.agent[a] = rows.agent[a]
      BY <1>0, <2>3 DEF Applied
    <3> QED
      BY <2>3, <3>1
  <2> QED
    BY <2>2, <2>3
<1>6. ASSUME NEW a \in Agents
      PROVE  base.agent[a].version \in Int /\ rows.agent[a].version \in Int
  BY <1>1 DEF AgentRow
<1>7. ASSUME NEW a \in Agents, DesiredOf(new, a) # DesiredOf(rows, a)
      PROVE  a \in Touched(rows, site, asg)
  <2>1. PICK c \in Cameras :
          (new.camera[c].state = "live" /\ new.camera[c].agent = a)
             # (rows.camera[c].state = "live" /\ rows.camera[c].agent = a)
    <3>1. SUFFICES ASSUME \A c \in Cameras : (new.camera[c].state = "live" /\ new.camera[c].agent = a)
                                        = (rows.camera[c].state = "live" /\ rows.camera[c].agent = a)
                   PROVE FALSE
      OBVIOUS
    <3> QED
      BY <1>4, <1>7, <3>1 DEF DesiredOf
  <2>2. c \in Moved(rows, asg) /\ (rows.camera[c].agent = a \/ asg[c] = a)
    BY <1>4, <2>1
  <2>3. a \in InScope(rows, site)
    <3>1. CASE asg[c] = a
      BY <1>2, <1>3, <2>2, <3>1, FleetAssumption
    <3>2. CASE rows.camera[c].agent = a
      BY <3>2 DEF Placed, InScope
    <3> QED
      BY <2>2, <3>1, <3>2
  <2> QED
    BY <2>2, <2>3 DEF Touched
<1>8. Told(base, new)
  <2> SUFFICES ASSUME NEW a \in Agents
               PROVE  /\ new.agent[a].version >= base.agent[a].version
                      /\ DesiredOf(new, a) # DesiredOf(base, a) => new.agent[a].version > base.agent[a].version
    BY DEF Told
  <2>1. rows.agent[a].version >= base.agent[a].version
    BY DEF Told
  <2>2. CASE a \in Touched(rows, site, asg)
    BY <1>5, <1>6, <2>1, <2>2
  <2>3. CASE a \notin Touched(rows, site, asg)
    BY <1>5, <1>7, <2>1, <2>3 DEF Told
  <2> QED
    BY <2>2, <2>3
<1>9. Placed(new)
  <2> SUFFICES ASSUME NEW c \in Cameras
               PROVE  /\ \A a \in Agents : new.camera[c].agent = a => new.agent[a].site = Site
                      /\ new.camera[c].state = "absent" => new.camera[c].agent = None
    BY DEF Placed
  <2>1. CASE c \in Moved(rows, asg)
    <3>1. c \in Live(rows) /\ new.camera[c].state = "live"
      BY <1>3, <1>4, <2>1 DEF Live
    <3> QED
      BY <1>2, <1>4, <1>5, <2>1, <3>1, FleetAssumption
  <2>2. CASE c \notin Moved(rows, asg)
    BY <1>4, <1>5, <2>2 DEF Placed
  <2> QED
    BY <2>1, <2>2
<1> QED
  BY <1>0, <1>8, <1>9

\* A transaction that begins with rows that tell, alone.
LEMMA BeginTells ==
  ASSUME FleetInv, \A v, w \in Workers : v = w,
         NEW w \in Workers, NEW view \in Tables, NEW stale \in SUBSET Agents, NEW beat \in Agents \cup {None},
         Begin(w, view, stale, beat), Told(Committed, view), Placed(view), FleetTypes'
  PROVE  FleetInv'
<1>1. PICK t : /\ t = [open |-> TRUE, base |-> Committed, view |-> view, stale |-> stale, beat |-> beat]
               /\ txn' = [txn EXCEPT ![w] = t] /\ UNCHANGED <<camera, agent, box>>
  BY DEF Begin
<1>2. t.base = Committed /\ t.view = view /\ txn'[w] = t
  BY <1>1 DEF FleetInv, FleetTypes, TypeOK
<1>3. TxnTells(t)
  BY <1>2 DEF TxnTells, Committed
<1>4. TxnTells(t)'
  BY <1>1, <1>3 DEF TxnTells
<1>5. (\A v \in Workers : txn[v].open => TxnTells(txn[v]))'
  BY <1>2, <1>4
<1>6. Placed(Committed)' /\ EtagsBehind' /\ EtagSound'
  BY <1>1 DEF FleetInv, Placed, Committed, EtagsBehind, EtagSound, Desired
<1> QED
  BY <1>5, <1>6 DEF FleetInv

\* A placement pass over rows that tell is one.
LEMMA ReconciledTells ==
  ASSUME FleetInv, \A v, w \in Workers : v = w,
         NEW w \in Workers, NEW rows \in Tables, NEW site \in {Site, None}, NEW beat \in Agents \cup {None},
         BeginReconciled(w, rows, site, beat), Told(Committed, rows), Placed(rows), FleetTypes'
  PROVE  FleetInv'
<1>1. PICK asg \in Plans(rows, site) : Begin(w, Applied(rows, site, asg), {}, beat)
  BY DEF BeginReconciled
<1>2. Committed \in Tables
  BY DEF FleetInv, FleetTypes, TypeOK, Committed, Tables
<1>3. PICK view : view = Applied(rows, site, asg)
  OBVIOUS
<1>4. view \in Tables /\ Told(Committed, view) /\ Placed(view)
  BY <1>2, <1>3, AppliedRows, AppliedTells
<1>5. {} \in SUBSET Agents /\ Begin(w, view, {}, beat)
  BY <1>1, <1>3
<1> QED
  BY <1>4, <1>5, BeginTells

\* Rows that assign what is committed are told of nothing.
LEMMA SameRowsTell ==
  ASSUME TypeOK, Placed(Committed), NEW rows \in Tables,
         \A c \in Cameras : /\ rows.camera[c].agent = camera[c].agent
                            /\ rows.camera[c].config = camera[c].config
                            /\ rows.camera[c].state = camera[c].state \/
                                 (camera[c].state = "absent" /\ rows.camera[c].state = "live"),
         \A a \in Agents : /\ rows.agent[a].version = agent[a].version
                           /\ agent[a].site = Site => rows.agent[a].site = Site
  PROVE  Told(Committed, rows) /\ Placed(rows)
<1>1. Placed(rows)
  BY DEF Placed, Committed
<1>2. ASSUME NEW a \in Agents PROVE DesiredOf(rows, a) = DesiredOf(Committed, a)
  <2>1. ASSUME NEW c \in Cameras
        PROVE  (rows.camera[c].state = "live" /\ rows.camera[c].agent = a)
                  = (camera[c].state = "live" /\ camera[c].agent = a)
    <3>1. CASE rows.camera[c].state = camera[c].state
      BY <3>1
    <3>2. CASE camera[c].state = "absent"
      <4>1. camera[c].agent = None /\ a # None
        BY <3>2, FleetAssumption DEF Placed, Committed
      <4> QED
        BY <4>1
    <3> QED
      BY <3>1, <3>2
  <2> QED
    BY <2>1 DEF DesiredOf, Committed
<1>3. \A a \in Agents : agent[a].version \in Int
  BY DEF TypeOK, AgentRow
<1> QED
  BY <1>1, <1>2, <1>3 DEF Told, Committed

\* A run starts with no camera assigned and no version seen.
LEMMA FleetStarts == Init => FleetInv
<1> SUFFICES ASSUME Init PROVE FleetInv
  OBVIOUS
<1>1. FleetTypes
  BY TypesStart
<1>2. \A c \in Cameras : camera[c].agent = None
  BY DEF Init
<1>3. Placed(Committed)
  BY <1>2, FleetAssumption DEF Placed, Committed
<1>4. \A a \in Agents : box[a].etag = None /\ box[a].reply = None
  BY DEF Init
<1>5. EtagsBehind
  BY <1>4 DEF EtagsBehind
<1>6. EtagSound
  <2>1. \A a \in Agents : agent[a].version \in Nat
    BY <1>1 DEF FleetTypes, TypeOK, AgentRow
  <2> QED
    BY <1>4, <2>1, FleetAssumption DEF EtagSound
<1>7. \A w \in Workers : ~txn[w].open
  BY DEF Init, Idle
<1> QED
  BY <1>1, <1>3, <1>5, <1>6, <1>7 DEF FleetInv

\* Alone, a commit writes what the transaction computed, so an ETag that still matches
\* was not moved by it.
LEMMA CommitTells ==
  ASSUME FleetInv, NEW w \in Workers, Commit(w), \A u, v \in Workers : u = v
  PROVE  FleetInv'
<1>0. FleetTypes'
  BY CommitTypes DEF FleetInv
<1>1. PICK t \in Open : t = txn[w] /\ t.open /\ TxnTells(t)
  BY OpenTxn DEF Commit, FleetInv, FleetTypes
<1>2. /\ camera' = Merged(camera, t.base.camera, t.view.camera)
      /\ agent' = Merged(agent, t.base.agent, t.view.agent)
      /\ txn' = [txn EXCEPT ![w] = Idle] /\ UNCHANGED <<box, events>>
  BY <1>1 DEF Commit
<1>3. /\ camera \in [Cameras -> CameraRow] /\ agent \in [Agents -> AgentRow]
      /\ t.view.camera \in [Cameras -> CameraRow]
      /\ t.base.agent \in [Agents -> AgentRow] /\ t.view.agent \in [Agents -> AgentRow]
  BY DEF FleetInv, FleetTypes, TypeOK, Open, Tables
<1>4. ASSUME NEW c \in Cameras
      PROVE  /\ camera'[c].state = t.view.camera[c].state /\ camera'[c].agent = t.view.camera[c].agent
             /\ camera'[c].config = t.view.camera[c].config
  <2>1. camera'[c] = MergedRow(camera[c], camera[c], t.view.camera[c])
    BY <1>1, <1>2, <1>3 DEF Merged, MergedRow, TxnTells
  <2>2. camera[c] \in CameraRow /\ t.view.camera[c] \in CameraRow
    BY <1>3
  <2> QED
    BY <2>1, <2>2 DEF MergedRow, CameraRow
<1>5. ASSUME NEW a \in Agents
      PROVE  agent'[a].version = t.view.agent[a].version /\ agent'[a].site = t.view.agent[a].site
  <2>1. agent'[a] = MergedRow(agent[a], t.base.agent[a], t.view.agent[a])
    BY <1>2, <1>3 DEF Merged, MergedRow
  <2>2. /\ agent'[a].version = IF t.view.agent[a].version # t.base.agent[a].version
                               THEN t.view.agent[a].version ELSE agent[a].version
        /\ agent'[a].site = IF t.view.agent[a].site # t.base.agent[a].site
                            THEN t.view.agent[a].site ELSE agent[a].site
    BY <1>3, <2>1, MergedAgent
  <2>3. t.base.agent[a].version = agent[a].version /\ t.base.agent[a].site = agent[a].site
    BY <1>1 DEF TxnTells
  <2> QED
    BY <2>2, <2>3
<1>6. Placed(Committed)'
  BY <1>1, <1>4, <1>5 DEF Placed, Committed, TxnTells
<1>7. ~txn'[w].open /\ \A v \in Workers : ~txn'[v].open
  BY <1>2 DEF FleetInv, FleetTypes, TypeOK, Idle
<1>8. ASSUME NEW a \in Agents
      PROVE  /\ agent[a].version \in Int /\ agent'[a].version \in Int /\ agent'[a].version >= agent[a].version
             /\ Desired(a)' # Desired(a) => agent'[a].version > agent[a].version
  <2>1. Desired(a)' = DesiredOf(t.view, a)
    BY <1>4 DEF Desired, DesiredOf
  <2>2. Desired(a) = DesiredOf(t.base, a)
    BY <1>1 DEF Desired, DesiredOf, TxnTells
  <2>3. agent[a].version \in Int /\ t.view.agent[a].version \in Int
    BY <1>3 DEF AgentRow
  <2> QED
    BY <1>1, <1>5, <2>1, <2>2, <2>3 DEF TxnTells, Told
<1>9. \A a \in Agents : /\ box[a].etag # None => box[a].etag \in Int
                        /\ box[a].reply # None => box[a].reply \in Int
  BY DEF FleetInv, FleetTypes, TypeOK, Box
<1>10. EtagsBehind'
  <2> SUFFICES ASSUME NEW a \in Agents
               PROVE  /\ box[a].etag # None => box[a].etag <= agent'[a].version
                      /\ box[a].reply # None => /\ box[a].reply <= agent'[a].version
                                                /\ box[a].etag # agent'[a].version
    BY <1>2 DEF EtagsBehind
  <2>1. /\ box[a].etag # None => box[a].etag <= agent[a].version
        /\ box[a].reply # None => /\ box[a].reply <= agent[a].version
                                  /\ box[a].etag # agent[a].version
    BY DEF FleetInv, EtagsBehind
  <2>2. agent'[a].version # None
    BY <1>8, <1>0, FleetAssumption DEF FleetTypes, TypeOK, AgentRow
  <2>3. CASE box[a].etag = None
    BY <1>8, <1>9, <2>1, <2>2, <2>3
  <2>4. CASE box[a].etag # None
    BY <1>8, <1>9, <2>1, <2>4
  <2> QED
    BY <2>3, <2>4
<1>11. EtagSound'
  <2> SUFFICES ASSUME NEW a \in Agents, box[a].etag = agent'[a].version, box[a].reply = None
               PROVE  box[a].running = Desired(a)'
    BY <1>2 DEF EtagSound
  <2>1. box[a].etag # None
    <3>1. agent'[a].version \in Nat
      BY <1>0 DEF FleetTypes, TypeOK, AgentRow
    <3> QED
      BY <3>1, FleetAssumption
  <2> QED
    BY <1>8, <1>9, <2>1 DEF FleetInv, EtagsBehind, EtagSound
<1> QED
  BY <1>0, <1>6, <1>7, <1>10, <1>11 DEF FleetInv

\* A round of the sweep tells on top of the rounds before it.
LEMMA SweepAgentTells ==
  ASSUME FleetInv, NEW w \in Workers, NEW a \in Agents, SweepAgent(w, a)
  PROVE  FleetInv'
<1>0. FleetTypes' /\ FleetTypes
  BY SweepAgentTypes DEF FleetInv
<1>1. PICK t \in Open, site \in {Site, None} :
        /\ t = txn[w] /\ site = SilentRows(t, a).agent[a].site
        /\ \E asg \in Plans(SilentRows(t, a), site) :
              txn' = [txn EXCEPT ![w] = [t EXCEPT !.view = Applied(SilentRows(t, a), site, asg),
                                                  !.stale = t.stale \ {a}]]
        /\ UNCHANGED <<camera, agent, box, events>>
  <2>1. TypeOK
    BY <1>0 DEF FleetTypes
  <2> QED
    BY <2>1, SweepAgentIs
<1>2. PICK rows : rows = SilentRows(t, a)
  OBVIOUS
<1>3. /\ rows \in Tables /\ rows.camera = t.view.camera
      /\ \A b \in Agents : /\ rows.agent[b].version = t.view.agent[b].version
                           /\ rows.agent[b].site = t.view.agent[b].site
  BY <1>2, SilentRowsAre
<1>4. t.open /\ TxnTells(t)
  BY <1>1 DEF FleetInv, Open
<1>5. Told(t.base, rows) /\ Placed(rows)
  <2>1. \A b \in Agents : DesiredOf(rows, b) = DesiredOf(t.view, b)
    BY <1>3 DEF DesiredOf
  <2> QED
    BY <1>3, <1>4, <2>1 DEF TxnTells, Told, Placed
<1>6. PICK asg, view :
        /\ asg \in Plans(rows, site) /\ view = Applied(rows, site, asg)
        /\ txn' = [txn EXCEPT ![w] = [t EXCEPT !.view = view, !.stale = t.stale \ {a}]]
  <2>1. PICK asg \in Plans(SilentRows(t, a), site) :
          txn' = [txn EXCEPT ![w] = [t EXCEPT !.view = Applied(SilentRows(t, a), site, asg), !.stale = t.stale \ {a}]]
    BY <1>1
  <2>2. PICK view : view = Applied(SilentRows(t, a), site, asg)
    OBVIOUS
  <2>3. view = Applied(rows, site, asg) /\ asg \in Plans(rows, site)
    BY <1>2, <2>2
  <2>4. txn' = [txn EXCEPT ![w] = [t EXCEPT !.view = view, !.stale = t.stale \ {a}]]
    BY <2>1, <2>2
  <2> QED
    BY <2>3, <2>4
<1>7. Told(t.base, view) /\ Placed(view)
  <2>1. t.base \in Tables
    BY DEF Open
  <2> QED
    BY <1>3, <1>5, <1>6, <2>1, AppliedTells
<1>8. PICK u : u = [t EXCEPT !.view = view, !.stale = t.stale \ {a}]
  OBVIOUS
<1>9. u.base = t.base /\ u.view = view
  BY <1>8 DEF Open
<1>10. TxnTells(u)'
  BY <1>1, <1>4, <1>7, <1>9 DEF TxnTells
<1>11. txn'[w] = u /\ \A v \in Workers : v # w => txn'[v] = txn[v]
  BY <1>0, <1>6, <1>8 DEF FleetTypes, TypeOK
<1>12. (\A v \in Workers : txn[v].open => TxnTells(txn[v]))'
  <2> SUFFICES ASSUME NEW v \in Workers, txn'[v].open PROVE TxnTells(txn[v])'
    OBVIOUS
  <2>1. CASE v = w
    BY <1>10, <1>11, <2>1 DEF TxnTells
  <2>2. CASE v # w
    <3>1. TxnTells(txn[v]) /\ txn'[v] = txn[v]
      BY <1>11, <2>2 DEF FleetInv
    <3> QED
      BY <1>1, <3>1, ZenonT(30) DEF TxnTells
  <2> QED
    BY <2>1, <2>2
<1>13. Placed(Committed)' /\ EtagsBehind' /\ EtagSound'
  BY <1>1 DEF FleetInv, Placed, Committed, EtagsBehind, EtagSound, Desired
<1> QED
  BY <1>0, <1>12, <1>13 DEF FleetInv

\* Reports, silence and the end of a transaction move no camera and bump no version.
LEMMA NothingMoves ==
  ASSUME FleetInv, UNCHANGED <<camera, box>>, FleetTypes',
         \A a \in Agents : agent'[a].version = agent[a].version /\ agent'[a].site = agent[a].site,
         \A w \in Workers : txn'[w].open => txn[w].open /\ txn'[w] = txn[w]
  PROVE  FleetInv'
<1>1. (\A w \in Workers : txn[w].open => TxnTells(txn[w]))'
  BY DEF FleetInv, TxnTells
<1>2. Placed(Committed)' /\ EtagsBehind' /\ EtagSound'
  BY DEF FleetInv, Placed, Committed, EtagsBehind, EtagSound, Desired
<1> QED
  BY <1>1, <1>2 DEF FleetInv

\* What a box does moves no camera.
LEMMA BoxMoves ==
  ASSUME FleetInv, UNCHANGED <<camera, agent, txn>>, FleetTypes', NEW a \in Agents,
         \A b \in Agents : b # a => box'[b] = box[b],
         \/ box'[a].etag = box[a].etag /\ box'[a].reply = agent[a].version /\ box[a].etag # agent[a].version
         \/ box'[a].etag = box[a].reply /\ box'[a].reply = None /\ box'[a].running = Desired(a)
         \/ box'[a].etag = box[a].etag /\ box'[a].reply = None /\ box'[a].running = box[a].running
         \/ box'[a].etag = None /\ box'[a].reply = None
         \/ box'[a].etag = box[a].etag /\ box'[a].reply = box[a].reply /\ box'[a].running = box[a].running
  PROVE  FleetInv'
<1>1. agent[a].version \in Nat /\ agent[a].version # None
  BY FleetAssumption DEF FleetInv, FleetTypes, TypeOK, AgentRow
<1>2. /\ box[a].etag # None => box[a].etag <= agent[a].version
      /\ box[a].reply # None => box[a].reply <= agent[a].version /\ box[a].etag # agent[a].version
      /\ box[a].etag = agent[a].version /\ box[a].reply = None => box[a].running = Desired(a)
  BY DEF FleetInv, EtagsBehind, EtagSound
<1>3. /\ box'[a].etag # None => box'[a].etag <= agent[a].version
      /\ box'[a].reply # None => box'[a].reply <= agent[a].version /\ box'[a].etag # agent[a].version
      /\ box'[a].etag = agent[a].version /\ box'[a].reply = None => box'[a].running = Desired(a)
  BY <1>1, <1>2
<1>4. \A b \in Agents : Desired(b)' = Desired(b)
  BY DEF Desired
<1>5. EtagsBehind' /\ EtagSound'
  BY <1>3, <1>4 DEF FleetInv, EtagsBehind, EtagSound
<1>6. Placed(Committed)' /\ (\A w \in Workers : txn[w].open => TxnTells(txn[w]))'
  BY DEF FleetInv, Placed, Committed, TxnTells
<1> QED
  BY <1>5, <1>6 DEF FleetInv

-----------------------------------------------------------------------------
\* Transactions do not overlap, and no request changes an assignment without a pass.
OneAtATime == \A v, w \in Workers : v = w
PlacementsOnly == Operations \subseteq {"create", "pin"}

\* The operator's two requests place what they change.
LEMMA OperatorTells ==
  ASSUME FleetInv, OneAtATime, PlacementsOnly, NEW w \in Workers, Operator(w)
  PROVE  FleetInv'
<1>0. FleetTypes /\ FleetTypes' /\ TypeOK /\ Placed(Committed)
  BY OperatorTypes DEF FleetInv, FleetTypes
<1>1. camera \in [Cameras -> CameraRow] /\ \A c \in Cameras : camera[c].config \in 0 .. events
  BY <1>0 DEF FleetTypes, TypeOK, ConfigsBounded
<1>2. ASSUME NEW c \in Cameras, NEW row \in CameraRow, Event,
             row.config = camera[c].config, row.agent = camera[c].agent,
             row.state = camera[c].state \/ (camera[c].state = "absent" /\ row.state = "live"),
             BeginReconciled(w, With(c, row), Site, None)
      PROVE  FleetInv'
  <2>1. events' \in 0 .. MaxEvents /\ events <= events' /\ row.config \in 0 .. events'
    <3>1. events' = events + 1 /\ events' \in 0 .. MaxEvents /\ events <= events' /\ events \in Int
      BY <1>0, <1>2, RequestCosts
    <3> QED
      BY <1>1, <1>2, <3>1
  <2>2. PICK rows : rows = With(c, row)
    OBVIOUS
  <2>3. /\ rows \in Tables /\ rows.agent = agent
        /\ \A d \in Cameras : rows.camera[d] = IF d = c THEN row ELSE camera[d]
    BY <1>0, <2>1, <2>2, WithRow
  <2>4. /\ \A d \in Cameras : /\ rows.camera[d].agent = camera[d].agent
                              /\ rows.camera[d].config = camera[d].config
                              /\ rows.camera[d].state = camera[d].state \/
                                   (camera[d].state = "absent" /\ rows.camera[d].state = "live")
        /\ \A a \in Agents : /\ rows.agent[a].version = agent[a].version
                             /\ agent[a].site = Site => rows.agent[a].site = Site
    BY <1>2, <2>3
  <2>5. Told(Committed, rows) /\ Placed(rows)
    BY <1>0, <2>3, <2>4, SameRowsTell
  <2>6. BeginReconciled(w, rows, Site, None)
    BY <1>2, <2>2
  <2> QED
    BY <1>0, <2>3, <2>5, <2>6, ReconciledTells DEF OneAtATime
<1>3. ASSUME NEW c \in Cameras, CreateCamera(w, c) PROVE FleetInv'
  <2>1. PICK row : row = [camera[c] EXCEPT !.state = "live"]
    OBVIOUS
  <2>2. camera[c].state = "absent" /\ Event /\ BeginReconciled(w, With(c, row), Site, None)
    BY <1>3, <2>1 DEF CreateCamera, Request
  <2>3. row \in CameraRow /\ row.config = camera[c].config /\ row.agent = camera[c].agent /\ row.state = "live"
    BY <1>1, <2>1 DEF CameraRow
  <2> QED
    BY <1>2, <2>2, <2>3
<1>4. ASSUME NEW c \in Cameras, NEW a \in Agents \cup {None}, PinCamera(w, c, a) PROVE FleetInv'
  <2>1. PICK row : row = [camera[c] EXCEPT !.pinned = a]
    OBVIOUS
  <2>2. Event /\ BeginReconciled(w, With(c, row), Site, None)
    BY <1>4, <2>1 DEF PinCamera, Request
  <2>3. /\ row \in CameraRow /\ row.config = camera[c].config /\ row.agent = camera[c].agent
        /\ row.state = camera[c].state
    BY <1>1, <2>1 DEF CameraRow
  <2> QED
    BY <1>2, <2>2, <2>3
<1>5. \A op \in {"register", "update", "delete", "restore"} : ~Request(op)
  BY DEF PlacementsOnly, Request
<1> QED
  BY <1>3, <1>4, <1>5 DEF Operator, RegisterCamera, UpdateCamera, DeleteCamera, RestoreCamera

\* A heartbeat places what it reports.
LEMMA BeatTells ==
  ASSUME FleetInv, OneAtATime, NEW w \in Workers, NEW a \in Agents, NEW cap \in Capacities, Heartbeat(w, a, cap)
  PROVE  FleetInv'
<1>0. FleetTypes /\ FleetTypes' /\ TypeOK /\ Placed(Committed)
  BY BeatTypes DEF FleetInv, FleetTypes
<1>1. PICK rows, site : rows = BeatRows(a, cap) /\ site = Adopted(a)
  OBVIOUS
<1>2. BeginReconciled(w, rows, site, a)
  BY <1>1, HeartbeatIs
<1>3. /\ rows \in Tables /\ site \in {Site, None}
      /\ \A c \in Cameras : /\ rows.camera[c].config = camera[c].config
                            /\ rows.camera[c].state = camera[c].state
                            /\ rows.camera[c].agent = camera[c].agent
      /\ \A b \in Agents : /\ rows.agent[b].version = agent[b].version
                           /\ agent[b].site = Site => rows.agent[b].site = Site
  BY <1>0, <1>1, BeatRowsAre
<1>4. Told(Committed, rows) /\ Placed(rows)
  BY <1>0, <1>3, SameRowsTell
<1> QED
  BY <1>0, <1>2, <1>3, <1>4, ReconciledTells DEF OneAtATime

\* A sweep begins with rows that tell of nothing.
LEMMA SweepTells ==
  ASSUME FleetInv, OneAtATime, NEW w \in Workers, BeginSweep(w)
  PROVE  FleetInv'
<1>0. FleetTypes /\ FleetTypes' /\ TypeOK /\ Placed(Committed)
  BY SweepTypes DEF FleetInv, FleetTypes
<1>1. PICK stale, view : stale \in SUBSET Agents /\ view = Committed /\ Begin(w, view, stale, None)
  BY DEF BeginSweep
<1>2. view \in Tables /\ view.camera = camera /\ view.agent = agent
  BY <1>0, <1>1 DEF TypeOK, Committed, Tables
<1>3. Told(Committed, view) /\ Placed(view)
  BY <1>0, <1>2, SameRowsTell
<1> QED
  BY <1>0, <1>1, <1>2, <1>3, BeginTells DEF OneAtATime

\* Every step keeps the invariant.
LEMMA FleetStep ==
  ASSUME FleetInv, OneAtATime, PlacementsOnly, [Next]_vars
  PROVE  FleetInv'
<1>0. FleetTypes /\ FleetTypes' /\ TypeOK
  BY TypesStep DEF FleetInv, FleetTypes
<1>1. ASSUME NEW a \in Agents, PushDiscovered(a) \/ GoStale(a) PROVE FleetInv'
  <2>1. agent \in [Agents -> AgentRow]
    BY <1>0 DEF TypeOK
  <2>2. \A b \in Agents : agent'[b].version = agent[b].version /\ agent'[b].site = agent[b].site
    BY <1>1, <2>1 DEF PushDiscovered, GoStale, AgentRow
  <2>3. UNCHANGED <<camera, box, txn>>
    BY <1>1 DEF PushDiscovered, GoStale
  <2> QED
    BY <1>0, <2>2, <2>3, NothingMoves
<1>2. ASSUME NEW w \in Workers, Rollback(w) PROVE FleetInv'
  <2>1. UNCHANGED <<camera, agent, box>> /\ txn' = [txn EXCEPT ![w] = Idle]
    BY <1>2 DEF Rollback
  <2>2. \A v \in Workers : txn'[v].open => txn[v].open /\ txn'[v] = txn[v]
    BY <1>0, <2>1 DEF TypeOK, Idle
  <2> QED
    BY <1>0, <2>1, <2>2, NothingMoves
<1>3. ASSUME NEW a \in Agents, PollVersion(a) \/ PollCameras(a) \/ Recover(a) \/ \E how \in Outages : Outage(a, how)
      PROVE  FleetInv'
  <2>1. box \in [Agents -> Box] /\ box[a] \in Box
    BY <1>0 DEF TypeOK
  <2>2. CASE PollVersion(a)
    <3>1. box' = [box EXCEPT ![a] = [box[a] EXCEPT !.reply = agent[a].version]]
      BY <2>1, <2>2 DEF PollVersion
    <3>2. box'[a].etag = box[a].etag /\ box'[a].reply = agent[a].version
      BY <2>1, <3>1 DEF Box
    <3>3. \A b \in Agents : b # a => box'[b] = box[b]
      BY <2>1, <3>1
    <3>4. box[a].etag # agent[a].version /\ UNCHANGED <<camera, agent, txn>>
      BY <2>2 DEF PollVersion
    <3> QED
      BY <1>0, <3>2, <3>3, <3>4, BoxMoves
  <2>3. CASE PollCameras(a)
    <3>1. box' = [box EXCEPT ![a] = [box[a] EXCEPT !.running = Desired(a), !.etag = box[a].reply, !.reply = None]]
      BY <2>1, <2>3 DEF PollCameras
    <3>2. box'[a].etag = box[a].reply /\ box'[a].reply = None /\ box'[a].running = Desired(a)
      BY <2>1, <3>1 DEF Box
    <3>3. \A b \in Agents : b # a => box'[b] = box[b]
      BY <2>1, <3>1
    <3>4. UNCHANGED <<camera, agent, txn>>
      BY <2>3 DEF PollCameras
    <3> QED
      BY <1>0, <3>2, <3>3, <3>4, BoxMoves
  <2>4. CASE Recover(a)
    <3>1. box' = [box EXCEPT ![a] = [box[a] EXCEPT !.mode = "up"]]
      BY <2>1, <2>4 DEF Recover
    <3>2. box'[a].etag = box[a].etag /\ box'[a].reply = box[a].reply /\ box'[a].running = box[a].running
      BY <2>1, <3>1 DEF Box
    <3>3. \A b \in Agents : b # a => box'[b] = box[b]
      BY <2>1, <3>1
    <3>4. UNCHANGED <<camera, agent, txn>>
      BY <2>4 DEF Recover
    <3> QED
      BY <1>0, <3>2, <3>3, <3>4, BoxMoves
  <2>5. ASSUME NEW how \in Outages, Outage(a, how) PROVE FleetInv'
    <3>1. PICK kept, seen :
            /\ kept = IF how = "cut" THEN box[a].running ELSE Nothing
            /\ seen = IF how = "cut" THEN box[a].etag ELSE None
      OBVIOUS
    <3>2. box' = [box EXCEPT ![a] = [box[a] EXCEPT !.mode = how, !.reply = None, !.running = kept, !.etag = seen]]
      BY <2>1, <2>5, <3>1 DEF Outage
    <3>3. box'[a].etag = seen /\ box'[a].reply = None /\ box'[a].running = kept
      BY <2>1, <3>2 DEF Box
    <3>4. \A b \in Agents : b # a => box'[b] = box[b]
      BY <2>1, <3>2
    <3>5. UNCHANGED <<camera, agent, txn>>
      BY <2>5 DEF Outage
    <3>6. \/ box'[a].etag = box[a].etag /\ box'[a].reply = None /\ box'[a].running = box[a].running
          \/ box'[a].etag = None /\ box'[a].reply = None
      BY <3>1, <3>3
    <3> QED
      BY <1>0, <3>4, <3>5, <3>6, BoxMoves
  <2> QED
    BY <1>3, <2>2, <2>3, <2>4, <2>5
<1>4. ASSUME UNCHANGED vars PROVE FleetInv'
  BY <1>0, <1>4, NothingMoves DEF vars
<1>5. ASSUME NEW w \in Workers, Commit(w) PROVE FleetInv'
  BY <1>5, CommitTells DEF OneAtATime
<1> QED
  BY <1>1, <1>2, <1>3, <1>4, <1>5, OperatorTells, BeatTells, SweepTells, SweepAgentTells
     DEF Next, Beat, Sweep, SweepStep

(***************************************************************************)
(* One transaction at a time, and with requests that place what they       *)
(* change, a 304 is true: a box that has the version of its row runs       *)
(* exactly the cameras assigned to it, for any number of cameras and boxes *)
(* and through outages, adoptions and sweeps.                              *)
(***************************************************************************)
THEOREM NotModifiedIsTrue ==
  ASSUME OneAtATime, PlacementsOnly
  PROVE  Spec => []FleetSound
<1>1. FleetInv /\ [Next]_vars => FleetInv'
  BY FleetStep
<1>2. FleetInv => FleetSound
  BY DEF FleetInv, FleetTypes, FleetSound
<1> QED
  BY FleetStarts, <1>1, <1>2, PTL DEF Spec
=============================================================================
