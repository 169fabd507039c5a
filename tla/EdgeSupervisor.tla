---------------------------- MODULE EdgeSupervisor ----------------------------
(***************************************************************************)
(* The edge box's WorkerSupervisor (agent/pipeline/supervisor.py): two     *)
(* asyncio tasks, the reconcile loop (every 10 s) and the health loop      *)
(* (every 30 s), share the dictionary self.workers.  A task runs alone     *)
(* between two suspensions, so an action is the code from one suspension   *)
(* to the next.  The suspensions are the HTTP request of the poll, the     *)
(* stop of a worker and the HTTP request of the heartbeat; starting a      *)
(* worker suspends nowhere (StreamIngest.start only forks ffmpeg).         *)
(***************************************************************************)
EXTENDS Integers, FiniteSets

CONSTANTS None,
          Cameras,      \* camera ids, numbered in the order of their strings
          Configs,      \* stream signatures: a worker whose signature changed is restarted
          MaxCameras,   \* config.max_cameras, the operator's ceiling
          MaxChanges,   \* bound: changes of the backend's assignment
          MaxFaults     \* bound: lost streams and failed starts

ASSUME SupervisorAssumption ==
    /\ Cameras \subseteq Nat /\ IsFiniteSet(Cameras)
    /\ None \notin Configs
    /\ MaxCameras \in Nat \ {0} /\ MaxChanges \in Nat /\ MaxFaults \in Nat

VARIABLES assigned,    \* the backend's answer to GET /internal/assignments
          workers,     \* self.workers
          strays,      \* how many running workers of a camera are in no dictionary
          rejected,    \* self.rejected
          reconcile,   \* the reconcile task and the locals it holds across a suspension
          health,      \* the health loop; `dead` is its list dead_workers
          changes, faults

vars == <<assigned, workers, strays, rejected, reconcile, health, changes, faults>>

Worker == [config : Configs, alive : BOOLEAN]
Assignment == [Cameras -> Configs \cup {None}]
Asleep == [at |-> "sleep"]

TypeOK ==
    /\ assigned \in Assignment
    /\ workers \in [Cameras -> Worker \cup {None}]
    /\ strays \in [Cameras -> Nat]
    /\ rejected \subseteq Cameras
    /\ reconcile \in {Asleep} \cup
          [at : {"stopping"}, gone : SUBSET Cameras, due : SUBSET Cameras,
           new : SUBSET Cameras, again : SUBSET Cameras, desired : Assignment]
    /\ health \in {Asleep} \cup [at : {"beating"}, dead : SUBSET Cameras] \cup [at : {"died"}]
    /\ changes \in 0 .. MaxChanges /\ faults \in 0 .. MaxFaults

Running(ws) == {c \in Cameras : ws[c] # None}
Wanted(asg) == {c \in Cameras : asg[c] # None}

------------------------------------------------------------------------------
\* Mutant: one worker too many.
FullAtOneMore(before) == Cardinality(before) > MaxCameras

\* hard_ceiling is max(capacity, max_cameras), and the measured capacity never
\* exceeds max_cameras.
Full(before) == Cardinality(before) >= MaxCameras

\* _start_worker for the cameras of `new` and then those of `again`, each in the
\* order of the ids.  One that runs is left alone; one that meets a full
\* dictionary is rejected; `broken` are the starts that raise, which is logged
\* and nothing else.  A start meets the workers that ran before and those
\* started ahead of it: all that were to start ahead, if it is not full.
Ahead(c, new, again) ==
    IF c \in new THEN {d \in new : d < c} ELSE new \cup {d \in again : d < c}
Admission(ws, new, again, broken) ==
    LET waiting == (new \cup again) \ Running(ws)
        refused == {c \in waiting :
                      Full(Running(ws) \cup ((waiting \ broken) \cap Ahead(c, new, again)))}
    IN [refused |-> refused, started |-> waiting \ (refused \cup broken)]

\* Mutant: no rejected.discard after a start.
StartAllStillRejected(ws, rej, new, again, config, broken) ==
    LET outcome == Admission(ws, new, again, broken)
    IN [workers |-> [c \in Cameras |->
                        IF c \in outcome.started THEN [config |-> config[c], alive |-> TRUE]
                        ELSE ws[c]],
        rejected |-> rej \cup outcome.refused]

StartAll(ws, rej, new, again, config, broken) ==
    LET outcome == Admission(ws, new, again, broken)
    IN [workers |-> [c \in Cameras |->
                        IF c \in outcome.started THEN [config |-> config[c], alive |-> TRUE]
                        ELSE ws[c]],
        rejected |-> (rej \cup outcome.refused) \ outcome.started]

\* The faults of one step: each costs one of MaxFaults.
Breaking(broken, among) ==
    /\ broken \in SUBSET among
    /\ faults + Cardinality(broken) <= MaxFaults
    /\ faults' = faults + Cardinality(broken)

\* Cold start: what the backend assigns, or nothing (no cameras.json) when it
\* cannot be reached.
Init ==
    /\ assigned \in Assignment
    /\ \E first \in {assigned, [c \in Cameras |-> None]} :
          LET s == StartAll([c \in Cameras |-> None], {}, Wanted(first), {}, first, {})
          IN workers = s.workers /\ rejected = s.rejected
    /\ strays = [c \in Cameras |-> 0]
    /\ reconcile = Asleep
    /\ health = Asleep
    /\ changes = 0 /\ faults = 0

------------------------------------------------------------------------------
(* The environment. *)

Reassign(c, cfg) ==
    /\ changes < MaxChanges
    /\ assigned[c] # cfg
    /\ assigned' = [assigned EXCEPT ![c] = cfg]
    /\ changes' = changes + 1
    /\ UNCHANGED <<workers, strays, rejected, reconcile, health, faults>>

\* ffmpeg cannot be started again (StreamIngest.reconnect returns False): the
\* worker's task ends.
LoseStream(c) ==
    /\ faults < MaxFaults
    /\ workers[c] # None
    /\ workers[c].alive
    /\ workers' = [workers EXCEPT ![c].alive = FALSE]
    /\ faults' = faults + 1
    /\ UNCHANGED <<assigned, strays, rejected, reconcile, health, changes>>

------------------------------------------------------------------------------
(* The reconcile task. *)

\* compute_diff.  A camera to update keeps its worker: its signature is the same.
ToStart(desired) == Wanted(desired) \ Running(workers)
ToStop(desired) == Running(workers) \ Wanted(desired)
ToRestart(desired) ==
    {c \in Running(workers) \cap Wanted(desired) : workers[c].config # desired[c]}
ToUpdate(desired) == (Running(workers) \cap Wanted(desired)) \ ToRestart(desired)

\* After the last stop: drop the rejections of cameras no longer assigned, then
\* start what is to start.
Finish(new, again, desired) ==
    /\ \E broken \in SUBSET (new \cup again) :
          LET s == StartAll(workers, rejected \cap Wanted(desired), new, again, desired, broken)
          IN Breaking(broken, new \cup again) /\ workers' = s.workers /\ rejected' = s.rejected
    /\ reconcile' = Asleep

\* _stop_worker pops the worker from the dictionary and waits for it to end:
\* first the cameras that are `gone`, then those `due` for a restart.
Continue(gone, due, new, again, desired) ==
    /\ \/ gone \cup due = {} /\ Finish(new, again, desired)
       \/ /\ \E c \in IF gone # {} THEN gone ELSE due :
                /\ \A d \in IF gone # {} THEN gone ELSE due : c <= d
                /\ workers' = [workers EXCEPT ![c] = None]
                /\ reconcile' = [at |-> "stopping", gone |-> gone \ {c},
                                 due |-> IF gone # {} THEN due ELSE due \ {c},
                                 new |-> new, again |-> again, desired |-> desired]
          /\ UNCHANGED <<rejected, faults>>
    /\ UNCHANGED <<assigned, strays, health, changes>>

\* The poll is answered.  (An unreachable backend: no step.)
ReconcileOnce ==
    /\ reconcile.at = "sleep"
    /\ ToStart(assigned) \cup ToStop(assigned) \cup ToRestart(assigned) \cup ToUpdate(assigned) # {}
    /\ Continue(ToStop(assigned), ToRestart(assigned),
                ToStart(assigned), ToRestart(assigned), assigned)

WorkerStopped ==
    /\ reconcile.at = "stopping"
    /\ Continue(reconcile.gone, reconcile.due, reconcile.new, reconcile.again, reconcile.desired)

------------------------------------------------------------------------------
(* The health loop. *)

BeginHealthCheck ==
    /\ health.at = "sleep"
    /\ health' = [at |-> "beating",
                  dead |-> {c \in Running(workers) : ~workers[c].alive}]
    /\ UNCHANGED <<assigned, workers, strays, rejected, reconcile, changes, faults>>

\* Mutant: a dead worker is left in the dictionary.
RestartNothing ==
    /\ health.at = "beating"
    /\ health' = Asleep
    /\ UNCHANGED <<assigned, workers, strays, rejected, reconcile, changes, faults>>

\* Each camera of `done` is popped, whatever the dictionary holds for it by now,
\* and started again with its configuration.  A worker that is alive by now runs
\* on outside the dictionary.
PopAndStart(done) ==
    /\ \E broken \in SUBSET done :
          LET popped == [c \in Cameras |-> IF c \in done THEN None ELSE workers[c]]
              config == [c \in done |-> workers[c].config]
              s == StartAll(popped, rejected, {}, done, config, broken)
          IN Breaking(broken, done) /\ workers' = s.workers /\ rejected' = s.rejected
    /\ strays' = [c \in Cameras |->
                    IF c \in done /\ workers[c].alive THEN strays[c] + 1 ELSE strays[c]]

\* The heartbeat is answered: the cameras of the list are restarted.
RestartDead ==
    /\ health.at = "beating"
    /\ health.dead \subseteq Running(workers)
    /\ PopAndStart(health.dead)
    /\ health' = Asleep
    /\ UNCHANGED <<assigned, reconcile, changes>>

\* self.workers.pop(camera_id) raises KeyError: the reconcile task has taken a
\* camera of the list away meanwhile, after those that stand before it in the
\* dictionary's order were restarted.  run() ends with it; main() goes on waiting
\* for a signal, so the process, its reconcile task and its workers live on.
HealthLoopDies ==
    /\ health.at = "beating"
    /\ ~(health.dead \subseteq Running(workers))
    /\ \E done \in SUBSET (health.dead \cap Running(workers)) : PopAndStart(done)
    /\ health' = [at |-> "died"]
    /\ UNCHANGED <<assigned, reconcile, changes>>

Next ==
    \/ \E c \in Cameras : LoseStream(c) \/ \E cfg \in Configs \cup {None} : Reassign(c, cfg)
    \/ ReconcileOnce
    \/ WorkerStopped
    \/ BeginHealthCheck
    \/ RestartDead
    \/ HealthLoopDies

Spec == Init /\ [][Next]_vars

\* Both loops poll for ever; every request is answered or times out (15 s), and
\* every stop ends (ffmpeg is killed after 5 s).
Fairness ==
    /\ WF_vars(ReconcileOnce) /\ WF_vars(WorkerStopped)
    /\ WF_vars(BeginHealthCheck) /\ WF_vars(RestartDead) /\ WF_vars(HealthLoopDies)

FairSpec == Spec /\ Fairness

------------------------------------------------------------------------------
\* The box never decodes more cameras from its dictionary than the operator
\* allows, across every interleaving of restarts and reassignments.
CeilingKept == Cardinality(Running(workers)) <= MaxCameras

\* A heartbeat never reports one camera both as running and as rejected: the
\* backend would show a watched camera as unassigned (internal.py:214-215).
RejectedApart == rejected \cap Running(workers) = {}

\* Both at once: whom the box admits and what it says of the others.
AdmissionHolds == TypeOK /\ CeilingKept /\ RejectedApart

\* A rejection ends when there is room: "its earlier rejection may have been a
\* capacity condition that has since cleared" (supervisor.py:181-183).
RejectedOnlyWhenFull ==
    <>[](\A c \in rejected : assigned[c] # None => Cardinality(Running(workers)) = MaxCameras)

\* Every camera the box is told to run is running or reported as rejected.
Served ==
    \A c \in Cameras :
        assigned[c] # None =>
            \/ c \in rejected
            \/ workers[c] # None /\ workers[c].alive /\ workers[c].config = assigned[c]
ServedWhileHealthLives == <>[](health.at = "died" \/ Served)

\* Together: every assigned camera is watched or, for want of room alone, rejected.
SettlesServed == RejectedOnlyWhenFull /\ ServedWhileHealthLives

\* "Restart dead workers" (supervisor.py:360): no lost stream is final, and no
\* camera is watched twice or by a worker nobody can stop ("Worker already
\* running for", supervisor.py:276).
ServedOnce == <>[](Served /\ \A c \in Cameras : strays[c] = 0)

==============================================================================
