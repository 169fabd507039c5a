----------------------------- MODULE WatchProofs -----------------------------
(***************************************************************************)
(* What the box and its supervisor promise for any number of cameras,      *)
(* workers, events and rows: the ceiling on its workers (EdgeSupervisor),  *)
(* what the offline queue owes every event (EventDelivery), and what the   *)
(* operators are told of the alerts nobody acknowledged (AlertLadder).     *)
(***************************************************************************)
EXTENDS EdgeSupervisor, EventDelivery, AlertLadder, FiniteSetTheorems, WellFoundedInduction, TLAPS

\* A nonempty finite set of numbers has a greatest one.
LEMMA GreatestExists ==
    ASSUME NEW S, S \subseteq Nat, IsFiniteSet(S), S # {}
    PROVE  \E m \in S : \A x \in S : x <= m
<1> DEFINE Bad == {A \in SUBSET S : A # {} /\ ~ \E m \in A : \A x \in A : x <= m}
<1> SUFFICES ASSUME S \in Bad PROVE FALSE
  OBVIOUS
<1>1. IsWellFoundedOn(StrictSubsetOrdering(S), SUBSET S)
  BY FS_StrictSubsetOrderingWellFounded, FS_FiniteSubsetsOfFinite
<1>2. PICK A \in Bad : \A B \in Bad : ~(<<B, A>> \in StrictSubsetOrdering(S))
  <2>1. Bad \subseteq SUBSET S /\ Bad # {}
    OBVIOUS
  <2> HIDE DEF Bad
  <2>2. QED BY <1>1, <2>1, WFMin
<1>3. PICK a \in A : TRUE
  OBVIOUS
<1>4. CASE A \ {a} = {}
  <2>1. \A x \in A : x <= a
    BY <1>3, <1>4
  <2>2. QED BY <2>1, <1>3
<1>5. CASE A \ {a} # {}
  <2>1. <<A \ {a}, A>> \in StrictSubsetOrdering(S)
    BY <1>3 DEF StrictSubsetOrdering
  <2>2. A \ {a} \notin Bad
    BY <2>1, <1>2
  <2>3. PICK m \in A \ {a} : \A x \in A \ {a} : x <= m
    BY <2>2, <1>5
  <2>4. CASE a <= m
    <3>1. \A x \in A : x <= m
      BY <2>3, <2>4
    <3>2. QED BY <3>1, <1>2
  <2>5. CASE ~(a <= m)
    <3>1. \A x \in A : x <= a
      BY <2>3, <2>5, <1>3
    <3>2. QED BY <3>1, <1>2, <1>3
  <2>6. QED BY <2>4, <2>5
<1>6. QED BY <1>4, <1>5

-----------------------------------------------------------------------------
(***************************************************************************)
(* EdgeSupervisor.  The ceiling needs the last camera that was started: it *)
(* met fewer than MaxCameras workers, and every other start was ahead of   *)
(* it.                                                                     *)
(***************************************************************************)
\* However many cameras are to start, the dictionary does not outgrow the ceiling.
LEMMA StartsKeepCeiling ==
    ASSUME NEW ws, NEW new \in SUBSET Cameras, NEW again \in SUBSET Cameras, NEW broken,
           Cardinality(Running(ws)) <= MaxCameras
    PROVE  Cardinality(Running(ws) \cup Admission(ws, new, again, broken).started) <= MaxCameras
<1> DEFINE R == Running(ws)
           E == ((new \cup again) \ R) \ broken
           Before(c) == E \cap Ahead(c, new, again)
           S == {c \in E : ~Full(R \cup Before(c))}
<1>1. Admission(ws, new, again, broken).started = S
  BY DEF Admission
<1>2. /\ IsFiniteSet(Cameras) /\ Cameras \subseteq Nat /\ MaxCameras \in Nat
      /\ R \subseteq Cameras /\ E \subseteq Cameras /\ S \subseteq E
  BY SupervisorAssumption DEF Running
<1>3. IsFiniteSet(R) /\ IsFiniteSet(S)
  BY <1>2, FS_Subset
<1>4. ASSUME NEW c \in S, \A d \in S : d = c \/ d \in Ahead(c, new, again)
      PROVE  Cardinality(R \cup S) <= MaxCameras
  <2> DEFINE B == R \cup Before(c)
  <2>1. B \subseteq Cameras /\ IsFiniteSet(B) /\ IsFiniteSet(B \cup {c})
    BY <1>2, <1>4, FS_Subset
  <2>2. Cardinality(B) \in Nat /\ ~(Cardinality(B) >= MaxCameras)
    BY <1>4, <2>1, FS_CardinalityType DEF Full
  <2>3. Cardinality(B \cup {c}) <= Cardinality(B) + 1 /\ Cardinality(B \cup {c}) \in Nat
    BY <2>1, <2>2, FS_AddElement, FS_CardinalityType
  <2>4. R \cup S \subseteq B \cup {c}
    BY <1>2, <1>4
  <2>5. Cardinality(R \cup S) <= Cardinality(B \cup {c}) /\ Cardinality(R \cup S) \in Nat
    <3> HIDE DEF B, S, R
    <3>1. QED BY <2>1, <2>4, FS_Subset, FS_CardinalityType
  <2>6. QED BY <2>2, <2>3, <2>5, <1>2
<1>5. CASE S = {}
  BY <1>1, <1>5
<1>6. CASE S # {} /\ S \subseteq new
  <2>1. PICK c \in S : \A d \in S : d <= c
    <3> HIDE DEF S
    <3>1. QED BY <1>2, <1>3, <1>6, GreatestExists
  <2>2. \A d \in S : d = c \/ d \in Ahead(c, new, again)
    BY <2>1, <1>2, <1>6 DEF Ahead
  <2>3. QED BY <1>1, <1>4, <2>2
<1>7. CASE ~(S \subseteq new)
  <2>1. S \ new # {} /\ IsFiniteSet(S \ new) /\ S \ new \subseteq Nat
    BY <1>2, <1>3, <1>7, FS_Subset
  <2>2. PICK c \in S \ new : \A d \in S \ new : d <= c
    <3> HIDE DEF S
    <3>1. QED BY <2>1, GreatestExists
  <2>3. \A d \in S : d = c \/ d \in Ahead(c, new, again)
    BY <2>2, <1>2 DEF Ahead
  <2>4. QED BY <1>1, <1>4, <2>3
<1>8. QED BY <1>5, <1>6, <1>7

\* What _start_worker keeps of the two dictionaries.
Admitted(ws, rej) ==
    /\ ws \in [Cameras -> Worker \cup {None}] /\ rej \subseteq Cameras
    /\ Cardinality(Running(ws)) <= MaxCameras
    /\ rej \cap Running(ws) = {}

\* Fewer workers are admitted where more were.
LEMMA FewerAdmitted ==
    ASSUME NEW ws, NEW rej, Admitted(ws, rej),
           NEW fewer \in [Cameras -> Worker \cup {None}], Running(fewer) \subseteq Running(ws)
    PROVE  Admitted(fewer, rej)
<1>1. IsFiniteSet(Running(ws))
  BY SupervisorAssumption, FS_Subset DEF Running
<1>2. Cardinality(Running(fewer)) <= Cardinality(Running(ws))
  BY <1>1, FS_Subset
<1>3. Cardinality(Running(fewer)) \in Nat /\ Cardinality(Running(ws)) \in Nat
  BY <1>1, FS_Subset, FS_CardinalityType
<1>4. QED BY <1>2, <1>3, SupervisorAssumption DEF Admitted

\* Starting them keeps both dictionaries apart and below the ceiling.
LEMMA StartAllAdmits ==
    ASSUME NEW ws, NEW rej, Admitted(ws, rej), NEW config, NEW broken,
           NEW new \in SUBSET Cameras, NEW again \in SUBSET Cameras,
           \A c \in new \cup again : config[c] \in Configs
    PROVE  Admitted(StartAll(ws, rej, new, again, config, broken).workers,
                    StartAll(ws, rej, new, again, config, broken).rejected)
<1> DEFINE A == Admission(ws, new, again, broken)
           s == StartAll(ws, rej, new, again, config, broken)
<1>1. /\ A.started \subseteq new \cup again /\ A.refused \subseteq new \cup again
      /\ A.started \cap A.refused = {} /\ A.refused \cap Running(ws) = {}
  BY DEF Admission
<1>2. /\ s.workers = [c \in Cameras |->
                        IF c \in A.started THEN [config |-> config[c], alive |-> TRUE] ELSE ws[c]]
      /\ s.rejected = (rej \cup A.refused) \ A.started
  BY DEF StartAll
<1> HIDE DEF A, s
<1>3. s.workers \in [Cameras -> Worker \cup {None}]
  <2>1. \A c \in A.started : [config |-> config[c], alive |-> TRUE] \in Worker
    BY <1>1 DEF Worker
  <2>2. QED BY <1>2, <2>1 DEF Admitted
<1>4. s.rejected \subseteq Cameras
  BY <1>1, <1>2 DEF Admitted
<1>5. Running(s.workers) \subseteq Running(ws) \cup A.started
  BY <1>2 DEF Running
<1>6. s.rejected \cap Running(s.workers) = {}
  BY <1>1, <1>2, <1>5 DEF Admitted
<1>7. Cardinality(Running(s.workers)) <= MaxCameras
  <2>1. Cardinality(Running(ws) \cup A.started) <= MaxCameras
    BY StartsKeepCeiling DEF Admitted, A
  <2>2. /\ IsFiniteSet(Running(ws) \cup A.started)
        /\ Running(ws) \cup A.started \subseteq Cameras
    BY <1>1, SupervisorAssumption, FS_Subset DEF Running
  <2>3. Cardinality(Running(s.workers)) <= Cardinality(Running(ws) \cup A.started)
    BY <1>5, <2>2, FS_Subset
  <2>4. /\ Cardinality(Running(s.workers)) \in Nat
        /\ Cardinality(Running(ws) \cup A.started) \in Nat
    BY <1>5, <2>2, FS_Subset, FS_CardinalityType
  <2>5. QED BY <2>1, <2>3, <2>4, SupervisorAssumption
<1>8. QED BY <1>3, <1>4, <1>6, <1>7 DEF Admitted, s

\* A stopping reconcile starts only what it was told to run.
PlanIsWanted ==
    reconcile.at = "stopping" =>
        reconcile.new \cup reconcile.again \subseteq Wanted(reconcile.desired)

SupervisorInv == AdmissionHolds /\ PlanIsWanted

\* A step breaks finitely many starts.
LEMMA BreakingBounded ==
    ASSUME TypeOK, NEW among \in SUBSET Cameras, NEW broken, Breaking(broken, among)
    PROVE  faults' \in 0 .. MaxFaults
<1>1. IsFiniteSet(broken)
  BY SupervisorAssumption, FS_Subset DEF Breaking
<1>2. QED BY <1>1, FS_CardinalityType, SupervisorAssumption DEF Breaking, TypeOK

\* It holds once the supervisor has started.
LEMMA SupervisorInit == Init => SupervisorInv
<1> SUFFICES ASSUME Init PROVE SupervisorInv
  OBVIOUS
<1>1. PICK first \in {assigned, [c \in Cameras |-> None]} :
          /\ workers = StartAll([c \in Cameras |-> None], {}, Wanted(first), {}, first, {}).workers
          /\ rejected = StartAll([c \in Cameras |-> None], {}, Wanted(first), {}, first, {}).rejected
  BY DEF Init
<1>2. Admitted([c \in Cameras |-> None], {})
  <2>1. Running([c \in Cameras |-> None]) = {}
    BY DEF Running
  <2>2. Cardinality({}) = 0 /\ 0 <= MaxCameras
    BY FS_EmptySet, SupervisorAssumption
  <2>3. QED BY <2>1, <2>2 DEF Admitted
<1>3. first \in Assignment
  BY DEF Init, Assignment
<1>4. Wanted(first) \in SUBSET Cameras /\ \A c \in Wanted(first) \cup {} : first[c] \in Configs
  BY <1>3 DEF Wanted, Assignment
<1>5. Admitted(workers, rejected)
  BY <1>1, <1>2, <1>4, StartAllAdmits
<1>6. TypeOK
  <2>1. reconcile = Asleep /\ health = Asleep /\ strays \in [Cameras -> Nat]
    BY DEF Init
  <2>2. changes \in 0 .. MaxChanges /\ faults \in 0 .. MaxFaults
    BY SupervisorAssumption DEF Init
  <2>3. assigned \in Assignment
    BY DEF Init
  <2>4. QED BY <1>5, <2>1, <2>2, <2>3 DEF TypeOK, Admitted
<1>7. PlanIsWanted
  BY DEF Init, PlanIsWanted, Asleep
<1>8. QED BY <1>5, <1>6, <1>7 DEF SupervisorInv, AdmissionHolds, CeilingKept, RejectedApart, Admitted

\* One suspension of the reconcile task to the next keeps the invariant.
LEMMA ContinueKeeps ==
    ASSUME SupervisorInv,
           NEW gone \in SUBSET Cameras, NEW left \in SUBSET Cameras, NEW new \in SUBSET Cameras,
           NEW again \in SUBSET Cameras, NEW desired \in Assignment,
           new \cup again \subseteq Wanted(desired), Continue(gone, left, new, again, desired)
    PROVE  SupervisorInv'
<1> USE DEF SupervisorInv, AdmissionHolds, CeilingKept, RejectedApart
<1>1. CASE Finish(new, again, desired)
  <2>1. PICK broken \in SUBSET (new \cup again) :
            /\ Breaking(broken, new \cup again)
            /\ workers' = StartAll(workers, rejected \cap Wanted(desired), new, again, desired, broken).workers
            /\ rejected' = StartAll(workers, rejected \cap Wanted(desired), new, again, desired, broken).rejected
    BY <1>1 DEF Finish
  <2>2. Admitted(workers, rejected \cap Wanted(desired))
    BY DEF Admitted, TypeOK
  <2>3. \A c \in new \cup again : desired[c] \in Configs
    BY DEF Wanted, Assignment
  <2>4. Admitted(workers', rejected')
    BY <2>1, <2>2, <2>3, StartAllAdmits
  <2>5. faults' \in 0 .. MaxFaults
    BY <2>1, BreakingBounded
  <2>6. reconcile' = Asleep
    BY <1>1 DEF Finish
  <2>7. TypeOK'
    BY <2>4, <2>5, <2>6 DEF Continue, Admitted, TypeOK
  <2>8. QED BY <2>4, <2>6, <2>7 DEF Admitted, PlanIsWanted, Asleep
<1>2. ASSUME NEW c \in Cameras, workers' = [workers EXCEPT ![c] = None],
             reconcile' = [at |-> "stopping", gone |-> gone \ {c},
                           due |-> IF gone # {} THEN left ELSE left \ {c},
                           new |-> new, again |-> again, desired |-> desired],
             UNCHANGED <<rejected, faults>>
      PROVE  SupervisorInv'
  <2>1. workers' \in [Cameras -> Worker \cup {None}]
    BY <1>2 DEF TypeOK
  <2>2. Running(workers') \subseteq Running(workers)
    BY <1>2 DEF TypeOK, Running
  <2>3. Admitted(workers', rejected)
    BY <2>1, <2>2, FewerAdmitted DEF Admitted, TypeOK
  <2>4. (reconcile \in {Asleep} \cup
          [at : {"stopping"}, gone : SUBSET Cameras, due : SUBSET Cameras,
           new : SUBSET Cameras, again : SUBSET Cameras, desired : Assignment])'
    BY <1>2
  <2>5. TypeOK'
    BY <1>2, <2>1, <2>4 DEF Continue, TypeOK
  <2>6. PlanIsWanted'
    BY <1>2 DEF PlanIsWanted, Wanted
  <2>7. QED BY <1>2, <2>3, <2>5, <2>6 DEF Admitted
<1>3. QED BY <1>1, <1>2 DEF Continue

\* So does the restart of any of the dead.
LEMMA PopAndStartKeeps ==
    ASSUME SupervisorInv, NEW done \in SUBSET Cameras, done \subseteq Running(workers),
           PopAndStart(done)
    PROVE  /\ Admitted(workers', rejected')
           /\ faults' \in 0 .. MaxFaults /\ strays' \in [Cameras -> Nat]
<1> DEFINE popped == [c \in Cameras |-> IF c \in done THEN None ELSE workers[c]]
           config == [c \in done |-> workers[c].config]
<1> USE DEF SupervisorInv, AdmissionHolds, CeilingKept, RejectedApart
<1>1. PICK broken \in SUBSET done :
          /\ Breaking(broken, done)
          /\ workers' = StartAll(popped, rejected, {}, done, config, broken).workers
          /\ rejected' = StartAll(popped, rejected, {}, done, config, broken).rejected
  BY DEF PopAndStart
<1>2. popped \in [Cameras -> Worker \cup {None}] /\ Running(popped) \subseteq Running(workers)
  BY DEF TypeOK, Running
<1>3. Admitted(popped, rejected)
  <2> HIDE DEF popped
  <2>1. QED BY <1>2, FewerAdmitted DEF Admitted, TypeOK
<1>4. \A c \in {} \cup done : config[c] \in Configs
  BY DEF TypeOK, Running, Worker
<1>5. Admitted(workers', rejected')
  <2> HIDE DEF popped, config
  <2>1. QED BY <1>1, <1>3, <1>4, StartAllAdmits
<1>6. strays' \in [Cameras -> Nat]
  BY DEF PopAndStart, TypeOK
<1>7. QED BY <1>1, <1>5, <1>6, BreakingBounded

\* Every loop keeps it.
LEMMA SupervisorStep == SupervisorInv /\ [Next]_vars => SupervisorInv'
<1> SUFFICES ASSUME SupervisorInv, [Next]_vars PROVE SupervisorInv'
  OBVIOUS
<1> USE DEF SupervisorInv, AdmissionHolds, CeilingKept, RejectedApart
<1>1. ASSUME NEW c \in Cameras, LoseStream(c) PROVE SupervisorInv'
  <2>1. workers' \in [Cameras -> Worker \cup {None}]
    BY <1>1 DEF LoseStream, TypeOK, Worker
  <2>2. Running(workers') \subseteq Running(workers)
    BY <1>1 DEF LoseStream, TypeOK, Running
  <2>3. Admitted(workers', rejected)
    BY <2>1, <2>2, FewerAdmitted DEF Admitted, TypeOK
  <2>4. TypeOK'
    BY <1>1, <2>1, SupervisorAssumption DEF LoseStream, TypeOK
  <2>5. QED BY <1>1, <2>3, <2>4 DEF LoseStream, Admitted, PlanIsWanted
<1>2. ASSUME NEW c \in Cameras, NEW cfg \in Configs \cup {None}, Reassign(c, cfg)
      PROVE  SupervisorInv'
  <2>1. TypeOK'
    BY <1>2, SupervisorAssumption DEF Reassign, TypeOK, Assignment
  <2>2. QED BY <1>2, <2>1 DEF Reassign, PlanIsWanted
<1>3. CASE ReconcileOnce
  <2>1. /\ ToStop(assigned) \in SUBSET Cameras /\ ToRestart(assigned) \in SUBSET Cameras
        /\ ToStart(assigned) \in SUBSET Cameras /\ assigned \in Assignment
        /\ ToStart(assigned) \cup ToRestart(assigned) \subseteq Wanted(assigned)
    BY DEF ToStop, ToRestart, ToStart, Running, Wanted, TypeOK
  <2>2. QED BY <1>3, <2>1, ContinueKeeps DEF ReconcileOnce
<1>4. CASE WorkerStopped
  <2>1. /\ reconcile.gone \in SUBSET Cameras /\ reconcile.due \in SUBSET Cameras
        /\ reconcile.new \in SUBSET Cameras /\ reconcile.again \in SUBSET Cameras
        /\ reconcile.desired \in Assignment
    BY <1>4 DEF WorkerStopped, TypeOK, Asleep
  <2>2. reconcile.new \cup reconcile.again \subseteq Wanted(reconcile.desired)
    BY <1>4 DEF WorkerStopped, PlanIsWanted
  <2>3. Continue(reconcile.gone, reconcile.due, reconcile.new, reconcile.again,
                 reconcile.desired)
    BY <1>4 DEF WorkerStopped
  <2> HIDE DEF SupervisorInv
  <2>4. QED BY <2>1, <2>2, <2>3, ContinueKeeps
<1>5. CASE BeginHealthCheck
  <2>1. TypeOK'
    BY <1>5 DEF BeginHealthCheck, TypeOK, Running
  <2>2. QED BY <1>5, <2>1 DEF BeginHealthCheck, PlanIsWanted
<1>6. CASE RestartDead
  <2>1. health.dead \in SUBSET Cameras
    BY <1>6 DEF RestartDead, TypeOK, Asleep
  <2>2. /\ Admitted(workers', rejected')
        /\ faults' \in 0 .. MaxFaults /\ strays' \in [Cameras -> Nat]
    BY <1>6, <2>1, PopAndStartKeeps DEF RestartDead
  <2>3. TypeOK'
    BY <1>6, <2>2 DEF RestartDead, TypeOK, Admitted
  <2>4. QED BY <1>6, <2>2, <2>3 DEF RestartDead, Admitted, PlanIsWanted
<1>7. CASE HealthLoopDies
  <2>1. health.dead \in SUBSET Cameras
    BY <1>7 DEF HealthLoopDies, TypeOK, Asleep
  <2>2. /\ Admitted(workers', rejected')
        /\ faults' \in 0 .. MaxFaults /\ strays' \in [Cameras -> Nat]
    BY <1>7, <2>1, PopAndStartKeeps DEF HealthLoopDies
  <2>3. TypeOK'
    BY <1>7, <2>2 DEF HealthLoopDies, TypeOK, Admitted
  <2>4. QED BY <1>7, <2>2, <2>3 DEF HealthLoopDies, Admitted, PlanIsWanted
<1>8. CASE UNCHANGED vars
  BY <1>8 DEF vars, TypeOK, PlanIsWanted
<1>9. QED BY <1>1, <1>2, <1>3, <1>4, <1>5, <1>6, <1>7, <1>8 DEF Next

\* A box never runs more cameras than its operator allows and never reports one
\* both as running and as rejected, however polls, stops, heartbeats, lost
\* streams and failed starts interleave (supervisor.py, both loops).
THEOREM AdmissionIsSafe == Spec => []AdmissionHolds
<1>1. Init => SupervisorInv
  BY SupervisorInit
<1>2. SupervisorInv /\ [Next]_vars => SupervisorInv'
  BY SupervisorStep
<1>3. SupervisorInv => AdmissionHolds
  BY DEF SupervisorInv
<1>4. QED BY <1>1, <1>2, <1>3, PTL DEF Spec

-----------------------------------------------------------------------------
(***************************************************************************)
(* EventDelivery. Types; each event in one hand and one row; rows done in  *)
(* the order of their ids; nothing pending out of sight; the bound; and    *)
(* the duplicates.                                                         *)
(***************************************************************************)

\* A nonempty set of numbers has a least one.
LEMMA LeastExists ==
    ASSUME NEW S, S \subseteq Nat, S # {}
    PROVE  \E m \in S : \A x \in S : m <= x
<1>1. PICK n \in S : TRUE
  OBVIOUS
<1> DEFINE T == {n - x : x \in {y \in S : y <= n}}
<1>2. T \subseteq Nat /\ T # {} /\ \A t \in T : t <= n
  <2>1. n \in {y \in S : y <= n} /\ n \in Nat
    BY <1>1
  <2>2. n - n \in T
    BY <2>1
  <2>3. \A x \in {y \in S : y <= n} : n - x \in Nat /\ n - x <= n
    BY <2>1
  <2>4. QED BY <2>2, <2>3
<1>3. IsFiniteSet(T)
  <2> HIDE DEF T
  <2>1. n \in Nat /\ T \in SUBSET Nat
    BY <1>1, <1>2
  <2>2. QED BY <1>2, <2>1, FS_BoundedSetOfNaturals
<1>4. PICK g \in T : \A t \in T : t <= g
  <2> HIDE DEF T
  <2>1. QED BY <1>2, <1>3, GreatestExists
<1>5. PICK m \in S : m <= n /\ g = n - m
  OBVIOUS
<1>6. ASSUME NEW x \in S PROVE m <= x
  <2>1. CASE x <= n
    <3>1. n - x \in T
      BY <2>1
    <3>2. n - x <= n - m
      BY <3>1, <1>4, <1>5
    <3>3. QED BY <1>5, <3>2, <2>1
  <2>2. CASE ~(x <= n)
    BY <1>5, <2>2
  <2>3. QED BY <2>1, <2>2
<1>7. QED BY <1>6

\* A commit counts.
LEMMA CommitTyped ==
    ASSUME received \in [Events -> Nat], NEW e, Commit(e)
    PROVE  received' \in [Events -> Nat]
<1>1. CASE e \in Events
  BY <1>1 DEF Commit
<1>2. CASE e \notin Events
  BY <1>2 DEF Commit
<1>3. QED BY <1>1, <1>2

\* The row a drain is at.
LEMMA CurrentIsLeast ==
    ASSUME DeliveryTypeOK, NEW c \in All, drain[c].at = "posting"
    PROVE  /\ CurrentRow(c) \in drain[c].rest /\ CurrentRow(c) \in DOMAIN arrival
           /\ \A j \in drain[c].rest : CurrentRow(c) <= j
           /\ Current(c) \in Events /\ Current(c) = arrival[CurrentRow(c)]
           /\ drain[c].rest \in SUBSET DOMAIN arrival /\ drain[c].sent \in SUBSET DOMAIN arrival
<1>1. /\ drain[c].rest \in SUBSET DOMAIN arrival /\ drain[c].rest # {}
      /\ drain[c].sent \in SUBSET DOMAIN arrival
  <2>1. drain[c] \in {AtRest}
            \cup [at : {"posting"}, rest : (SUBSET DOMAIN arrival) \ {{}}, sent : SUBSET DOMAIN arrival]
            \cup [at : {"deleting"}, sent : SUBSET DOMAIN arrival]
    BY DEF DeliveryTypeOK
  <2>2. drain[c] \in [at : {"posting"}, rest : (SUBSET DOMAIN arrival) \ {{}},
                     sent : SUBSET DOMAIN arrival]
    BY <2>1 DEF AtRest
  <2>3. drain[c].rest \in (SUBSET DOMAIN arrival) \ {{}} /\ drain[c].sent \in SUBSET DOMAIN arrival
    BY <2>2
  <2>4. QED BY <2>3
<1>2. arrival \in Seq(Events) /\ DOMAIN arrival = 1 .. Len(arrival) /\ Len(arrival) \in Nat
  BY DEF DeliveryTypeOK
<1>3. \E i \in drain[c].rest : \A j \in drain[c].rest : i <= j
  <2>1. drain[c].rest \subseteq Nat
    BY <1>1, <1>2
  <2>2. QED BY <1>1, <2>1, LeastExists
<1>4. /\ CurrentRow(c) \in drain[c].rest
      /\ \A j \in drain[c].rest : CurrentRow(c) <= j
  BY <1>3 DEF CurrentRow
<1>5. QED BY <1>1, <1>2, <1>4 DEF Current

\* What a queue of finitely many rows holds, and what a reader of its head gets.
LEMMA RowsAreFinite ==
    ASSUME DeliveryTypeOK, NEW S \in SUBSET DOMAIN arrival
    PROVE  IsFiniteSet(S) /\ Cardinality(S) \in Nat /\ S \subseteq Nat
<1>1. arrival \in Seq(Events) /\ DOMAIN arrival = 1 .. Len(arrival) /\ Len(arrival) \in Nat
  BY DEF DeliveryTypeOK
<1>2. IsFiniteSet(1 .. Len(arrival))
  BY <1>1, FS_Interval
<1>3. QED BY <1>1, <1>2, FS_Subset, FS_CardinalityType

\* The batch a drain takes.
LEMMA OldestIsHead ==
    ASSUME DeliveryTypeOK, NEW n \in Nat \ {0}
    PROVE  /\ Oldest(n) \subseteq queue
           /\ queue # {} => Oldest(n) # {}
           /\ \A i \in queue, j \in Oldest(n) : i < j => i \in Oldest(n)
<1>1. queue \in SUBSET DOMAIN arrival /\ queue \subseteq Nat
  BY RowsAreFinite DEF DeliveryTypeOK
<1>2. ASSUME queue # {} PROVE Oldest(n) # {}
  <2>1. PICK m \in queue : \A x \in queue : m <= x
    BY <1>1, <1>2, LeastExists
  <2>2. {j \in queue : j < m} = {}
    BY <1>1, <2>1
  <2>3. Cardinality({j \in queue : j < m}) < n
    BY <2>2, FS_EmptySet
  <2>4. QED BY <2>1, <2>3 DEF Oldest
<1>3. ASSUME NEW i \in queue, NEW j \in Oldest(n), i < j PROVE i \in Oldest(n)
  <2> DEFINE I == {k \in queue : k < i}
             J == {k \in queue : k < j}
  <2>1. j \in queue /\ Cardinality(J) < n
    BY <1>3 DEF Oldest
  <2>2. I \subseteq J
    BY <1>1, <1>3, <2>1
  <2>3. IsFiniteSet(J) /\ Cardinality(J) \in Nat /\ Cardinality(I) \in Nat
    <3>1. J \in SUBSET DOMAIN arrival /\ I \in SUBSET DOMAIN arrival
      BY <1>1
    <3> HIDE DEF I, J
    <3>2. QED BY <3>1, RowsAreFinite
  <2>4. Cardinality(I) <= Cardinality(J)
    <3> HIDE DEF I, J
    <3>1. QED BY <2>2, <2>3, FS_Subset
  <2>5. QED BY <2>1, <2>3, <2>4 DEF Oldest
<1>4. QED BY <1>2, <1>3 DEF Oldest

DrainTypes ==
    {AtRest} \cup [at : {"posting"}, rest : (SUBSET DOMAIN arrival) \ {{}}, sent : SUBSET DOMAIN arrival]
             \cup [at : {"deleting"}, sent : SUBSET DOMAIN arrival]
PostTypes ==
    {AtRest} \cup [at : {"posting", "inserting", "counting"}, event : Events]
             \cup [at : {"trimming"}, excess : Nat \ {0}]

\* Every step is typed.
LEMMA DeliveryTypesKept ==
    ASSUME DeliveryTypeOK, [DeliveryNext]_deliveryVars
    PROVE  DeliveryTypeOK'
<1> USE DeliveryAssumption
<1>0. /\ arrival \in Seq(Events) /\ queue \subseteq DOMAIN arrival
      /\ post \in [Clients -> PostTypes] /\ drain \in [All -> DrainTypes]
      /\ due \subseteq All /\ received \in [Events -> Nat]
      /\ fate \in [Events -> {"new", "pending", "accepted", "refused", "dropped", "abandoned"}]
      /\ replayed \subseteq Events /\ losses \in 0 .. MaxLosses /\ losses \in Nat
  BY DEF DeliveryTypeOK, PostTypes, DrainTypes
<1>00. ASSUME /\ (arrival \in Seq(Events) /\ queue \subseteq DOMAIN arrival)'
              /\ (post \in [Clients -> PostTypes] /\ drain \in [All -> DrainTypes])'
              /\ (due \subseteq All /\ received \in [Events -> Nat])'
              /\ (fate \in [Events -> {"new", "pending", "accepted", "refused", "dropped", "abandoned"}])'
              /\ (replayed \subseteq Events /\ losses \in 0 .. MaxLosses)'
       PROVE  DeliveryTypeOK'
  BY <1>00 DEF DeliveryTypeOK, PostTypes, DrainTypes
<1>1. ASSUME NEW c \in Clients, PostAccepted(c) PROVE DeliveryTypeOK'
  <2>1. post[c].event \in Events
    BY <1>0, <1>1 DEF PostAccepted, PostTypes, AtRest
  <2>2. (post \in [Clients -> PostTypes])'
    BY <1>0, <1>1 DEF PostAccepted, PostTypes
  <2>3. (drain \in [All -> DrainTypes])'
    BY <1>0, <1>1 DEF PostAccepted, DrainTypes
  <2>4. (received \in [Events -> Nat])'
    BY <1>0, <1>1, CommitTyped DEF PostAccepted
  <2>5. QED BY <1>0, <1>00, <1>1, <2>1, <2>2, <2>3, <2>4 DEF PostAccepted, All
<1>2. ASSUME NEW c \in Clients, PostRefused(c) PROVE DeliveryTypeOK'
  <2>1. post[c].event \in Events
    BY <1>0, <1>2 DEF PostRefused, PostTypes, AtRest
  <2>2. (post \in [Clients -> PostTypes])'
    BY <1>0, <1>2 DEF PostRefused, PostTypes
  <2>3. (drain \in [All -> DrainTypes])'
    BY <1>0, <1>2 DEF PostRefused, DrainTypes
  <2>4. QED BY <1>0, <1>00, <1>2, <2>1, <2>2, <2>3 DEF PostRefused, Fault
<1>3. ASSUME NEW c \in Clients, PostFailed(c) PROVE DeliveryTypeOK'
  <2>1. post[c] \in [at : {"posting", "inserting", "counting"}, event : Events]
    BY <1>0, <1>3 DEF PostFailed, PostTypes, AtRest
  <2>2. (post \in [Clients -> PostTypes])'
    BY <1>0, <1>3, <2>1 DEF PostFailed, PostTypes
  <2>3. (drain \in [All -> DrainTypes])'
    BY <1>0, <1>3 DEF PostFailed, DrainTypes
  <2>4. (received \in [Events -> Nat])'
    BY <1>0, <1>3, CommitTyped DEF PostFailed, Failed
  <2>5. QED BY <1>0, <1>00, <1>3, <2>1, <2>2, <2>3, <2>4, SMTT(30) DEF PostFailed, Failed, Fault
<1>4. ASSUME NEW c \in Clients, Insert(c) PROVE DeliveryTypeOK'
  <2>1. post[c] \in [at : {"posting", "inserting", "counting"}, event : Events]
    BY <1>0, <1>4 DEF Insert, PostTypes, AtRest
  <2>2. (post \in [Clients -> PostTypes])'
    BY <1>0, <1>4, <2>1 DEF Insert, PostTypes
  <2>3. /\ arrival' \in Seq(Events) /\ Len(arrival') = Len(arrival) + 1 /\ Len(arrival) \in Nat
        /\ DOMAIN arrival = 1 .. Len(arrival) /\ DOMAIN arrival' = 1 .. Len(arrival')
    BY <1>0, <1>4, <2>1 DEF Insert
  <2>4. DOMAIN arrival \subseteq DOMAIN arrival' /\ (queue \subseteq DOMAIN arrival)'
    BY <1>0, <1>4, <2>3 DEF Insert
  <2>5. (drain \in [All -> DrainTypes])'
    BY <1>0, <1>4, <2>4 DEF Insert, DrainTypes
  <2>6. QED BY <1>0, <1>00, <1>4, <2>2, <2>3, <2>4, <2>5 DEF Insert
<1>5. ASSUME NEW c \in Clients, Count(c) PROVE DeliveryTypeOK'
  <2>1. Cardinality(queue) \in Nat
    BY RowsAreFinite DEF DeliveryTypeOK
  <2>2. (post \in [Clients -> PostTypes])'
    BY <1>0, <1>5, <2>1 DEF Count, PostTypes
  <2>3. (drain \in [All -> DrainTypes])'
    BY <1>0, <1>5 DEF Count, DrainTypes
  <2>4. QED BY <1>0, <1>00, <1>5, <2>2, <2>3 DEF Count
<1>6. ASSUME NEW c \in Clients, Trim(c) PROVE DeliveryTypeOK'
  <2>1. (post \in [Clients -> PostTypes])'
    BY <1>0, <1>6 DEF Trim, PostTypes
  <2>2. (drain \in [All -> DrainTypes])'
    BY <1>0, <1>6 DEF Trim, DrainTypes
  <2>3. QED BY <1>0, <1>00, <1>6, <2>1, <2>2 DEF Trim
<1>7. ASSUME NEW c \in Clients, StopWorker(c) PROVE DeliveryTypeOK'
  <2>1. post[c] # AtRest => post[c].event \in Events
    BY <1>0, <1>7 DEF StopWorker, PostTypes, AtRest
  <2>2. (post \in [Clients -> PostTypes])'
    BY <1>0, <1>7 DEF StopWorker, PostTypes
  <2>3. (drain \in [All -> DrainTypes])'
    BY <1>0, <1>7 DEF StopWorker, DrainTypes
  <2>4. (fate \in [Events -> {"new", "pending", "accepted", "refused", "dropped", "abandoned"}])'
    BY <1>0, <1>7, <2>1 DEF StopWorker
  <2>5. (received \in [Events -> Nat] /\ replayed \subseteq Events)'
    <3>1. drain[c].at = "posting" => Current(c) \in Events
      BY CurrentIsLeast DEF All
    <3>2. (received \in [Events -> Nat])'
      BY <1>0, <1>7, CommitTyped DEF StopWorker
    <3>3. QED BY <1>0, <1>7, <3>1, <3>2 DEF StopWorker
  <2>6. QED BY <1>0, <1>00, <1>7, <2>2, <2>3, <2>4, <2>5 DEF StopWorker, Fault
<1>8. ASSUME NEW c \in Clients, NEW e \in Events, Detect(c, e) PROVE DeliveryTypeOK'
  <2>1. (post \in [Clients -> PostTypes])'
    BY <1>0, <1>8 DEF Detect, PostTypes
  <2>2. (drain \in [All -> DrainTypes])'
    BY <1>0, <1>8 DEF Detect, DrainTypes
  <2>3. QED BY <1>0, <1>00, <1>8, <2>1, <2>2 DEF Detect
<1>9. ASSUME NEW c \in All, BeginDrain(c) PROVE DeliveryTypeOK'
  <2>1. queue # {} => Oldest(Batch) # {} /\ Oldest(Batch) \subseteq queue
    BY OldestIsHead
  <2>2. (post \in [Clients -> PostTypes])'
    BY <1>0, <1>9 DEF BeginDrain, PostTypes
  <2>3. ASSUME queue # {} PROVE [at |-> "posting", rest |-> Oldest(Batch), sent |-> {}] \in DrainTypes
    <3>1. Oldest(Batch) \in (SUBSET DOMAIN arrival) \ {{}} /\ {} \in SUBSET DOMAIN arrival
      BY <1>0, <2>1, <2>3
    <3>2. QED BY <3>1 DEF DrainTypes
  <2>4. (drain \in [All -> DrainTypes])'
    <3>1. drain' \in [All -> DrainTypes]
      BY <1>0, <1>9, <2>3 DEF BeginDrain
    <3>2. QED BY <3>1, <1>9 DEF BeginDrain, DrainTypes
  <2>5. QED BY <1>0, <1>00, <1>9, <2>2, <2>4 DEF BeginDrain
<1>10. ASSUME NEW c \in All, drain[c].at = "posting", Advance(c), UNCHANGED arrival
       PROVE  (drain \in [All -> DrainTypes])'
  <2> DEFINE rest == drain[c].rest \ {CurrentRow(c)}
             done == drain[c].sent \cup {CurrentRow(c)}
  <2>1. rest \in SUBSET DOMAIN arrival /\ done \in SUBSET DOMAIN arrival
    BY <1>10, CurrentIsLeast
  <2>2. drain' = [drain EXCEPT ![c] = IF rest = {} THEN [at |-> "deleting", sent |-> done]
                                      ELSE [at |-> "posting", rest |-> rest, sent |-> done]]
    BY <1>10 DEF Advance
  <2> HIDE DEF rest, done
  <2>3. ASSUME rest # {} PROVE [at |-> "posting", rest |-> rest, sent |-> done] \in DrainTypes
    <3>1. rest \in (SUBSET DOMAIN arrival) \ {{}}
      BY <2>1, <2>3
    <3>2. QED BY <2>1, <3>1 DEF DrainTypes
  <2>4. [at |-> "deleting", sent |-> done] \in DrainTypes
    BY <2>1 DEF DrainTypes
  <2>5. drain' \in [All -> DrainTypes]
    BY <1>0, <2>2, <2>3, <2>4
  <2>6. QED BY <1>10, <2>5 DEF DrainTypes
<1>11. ASSUME NEW c \in All, DrainAccepted(c) PROVE DeliveryTypeOK'
  <2>1. (post \in [Clients -> PostTypes])'
    BY <1>0, <1>11 DEF DrainAccepted, PostTypes
  <2>2. (drain \in [All -> DrainTypes])'
    BY <1>10, <1>11 DEF DrainAccepted
  <2>3. Current(c) \in Events
    BY <1>11, CurrentIsLeast DEF DrainAccepted
  <2>4. (received \in [Events -> Nat])'
    BY <1>0, <1>11, CommitTyped DEF DrainAccepted
  <2>5. QED BY <1>0, <1>00, <1>11, <2>1, <2>2, <2>3, <2>4 DEF DrainAccepted
<1>12. ASSUME NEW c \in All, DrainRefused(c) PROVE DeliveryTypeOK'
  <2>1. (post \in [Clients -> PostTypes])'
    BY <1>0, <1>12 DEF DrainRefused, PostTypes
  <2>2. (drain \in [All -> DrainTypes])'
    BY <1>10, <1>12 DEF DrainRefused
  <2>3. (fate \in [Events -> {"new", "pending", "accepted", "refused", "dropped", "abandoned"}])'
    BY <1>0, <1>12 DEF DrainRefused
  <2>4. QED BY <1>0, <1>00, <1>12, <2>1, <2>2, <2>3 DEF DrainRefused, Fault
<1>13. ASSUME NEW c \in All, DrainHalted(c) PROVE DeliveryTypeOK'
  <2>1. (post \in [Clients -> PostTypes])'
    BY <1>0, <1>13 DEF DrainHalted, PostTypes
  <2>2. drain[c].sent \in SUBSET DOMAIN arrival
    BY <1>13, CurrentIsLeast DEF DrainHalted
  <2>3. (drain \in [All -> DrainTypes])'
    BY <1>0, <1>13, <2>2 DEF DrainHalted, DrainTypes
  <2>4. (received \in [Events -> Nat])'
    BY <1>0, <1>13, CommitTyped DEF DrainHalted, Failed
  <2>5. QED BY <1>0, <1>00, <1>13, <2>1, <2>3, <2>4 DEF DrainHalted, Failed, Fault
<1>14. ASSUME NEW c \in All, DeleteSent(c) PROVE DeliveryTypeOK'
  <2>1. (post \in [Clients -> PostTypes])'
    BY <1>0, <1>14 DEF DeleteSent, PostTypes
  <2>2. (drain \in [All -> DrainTypes])'
    BY <1>0, <1>14 DEF DeleteSent, DrainTypes
  <2>3. QED BY <1>0, <1>00, <1>14, <2>1, <2>2 DEF DeleteSent
<1>15. CASE Heartbeat \/ UNCHANGED deliveryVars
  <2>1. (post \in [Clients -> PostTypes] /\ drain \in [All -> DrainTypes])'
    BY <1>0, <1>15 DEF Heartbeat, deliveryVars, PostTypes, DrainTypes
  <2>2. QED BY <1>0, <1>00, <1>15, <2>1 DEF Heartbeat, deliveryVars, All
<1>16. QED
  BY <1>1, <1>2, <1>3, <1>4, <1>5, <1>6, <1>7, <1>8, <1>9, <1>11, <1>12, <1>13, <1>14, <1>15
  DEF DeliveryNext, Post, Drain

(***************************************************************************)
(* The hands: an event that a worker still posts or enqueues is in its     *)
(* hands alone, pending and never queued before; so no event is queued     *)
(* twice.                                                                  *)
(***************************************************************************)
Handed(c) == post[c].at \in {"posting", "inserting"}
HandsApart ==
    /\ \A c \in Clients :
          Handed(c) => fate[post[c].event] = "pending" /\ post[c].event \notin Held(DOMAIN arrival)
    /\ \A c, d \in Clients : Handed(c) /\ Handed(d) /\ post[c].event = post[d].event => c = d
    /\ \A i \in DOMAIN arrival : fate[arrival[i]] # "new"
    /\ \A i, j \in DOMAIN arrival : arrival[i] = arrival[j] => i = j

\* An insert is the newest row.
LEMMA InsertAppends ==
    ASSUME DeliveryTypeOK, NEW c \in Clients, Insert(c)
    PROVE  /\ post[c].event \in Events /\ arrival \in Seq(Events) /\ Len(arrival) \in Nat
           /\ DOMAIN arrival = 1 .. Len(arrival)
           /\ Len(arrival') = Len(arrival) + 1
           /\ DOMAIN arrival' = DOMAIN arrival \cup {Len(arrival')}
           /\ Len(arrival') \notin DOMAIN arrival
           /\ arrival'[Len(arrival')] = post[c].event
           /\ \A i \in DOMAIN arrival : arrival'[i] = arrival[i]
           /\ queue' = queue \cup {Len(arrival')}
<1>1. post[c] \in [at : {"posting", "inserting", "counting"}, event : Events]
  BY DEF DeliveryTypeOK, Insert, AtRest
<1>2. arrival \in Seq(Events) /\ arrival' = Append(arrival, post[c].event)
  BY DEF DeliveryTypeOK, Insert
<1>3. /\ Len(arrival) \in Nat /\ Len(arrival') = Len(arrival) + 1
      /\ DOMAIN arrival = 1 .. Len(arrival) /\ DOMAIN arrival' = 1 .. Len(arrival')
      /\ arrival'[Len(arrival) + 1] = post[c].event
      /\ \A i \in 1 .. Len(arrival) : arrival'[i] = arrival[i]
  BY <1>1, <1>2
<1>4. QED BY <1>1, <1>2, <1>3 DEF Insert

\* What has a row is an event.
LEMMA EventsArrive ==
    ASSUME DeliveryTypeOK
    PROVE  \A i \in DOMAIN arrival : arrival[i] \in Events
BY DEF DeliveryTypeOK

\* Nobody else's hands are touched by a step that takes c's event off its hands.
LEMMA HandsOff ==
    ASSUME DeliveryTypeOK, HandsApart, NEW c \in Clients, UNCHANGED arrival,
           ~Handed(c)', \A d \in Clients : d # c => post'[d] = post[d],
           \A e \in Events : Handed(c) /\ e = post[c].event => fate'[e] # "new",
           \A e \in Events : ~(Handed(c) /\ e = post[c].event) =>
               fate'[e] = fate[e] \/ (e \in Held(DOMAIN arrival) /\ fate'[e] # "new")
    PROVE  HandsApart'
<1>1. \A d \in Clients : Handed(d)' => d # c /\ Handed(d) /\ post'[d] = post[d]
  BY DEF Handed
<1>2. \A d \in Clients : Handed(d) => post[d].event \in Events
  BY DEF Handed, DeliveryTypeOK, AtRest
<1>3. ASSUME NEW d \in Clients, Handed(d)'
      PROVE  fate'[post'[d].event] = "pending" /\ post'[d].event \notin Held(DOMAIN arrival)'
  <2>1. fate[post[d].event] = "pending" /\ post[d].event \notin Held(DOMAIN arrival)
    BY <1>1, <1>3 DEF HandsApart
  <2>2. ~(Handed(c) /\ post[d].event = post[c].event)
    BY <1>1, <1>3 DEF HandsApart
  <2>3. fate'[post[d].event] = fate[post[d].event]
    BY <1>1, <1>2, <1>3, <2>1, <2>2
  <2>4. QED BY <1>1, <1>3, <2>1, <2>3 DEF Held
<1>4. \A d, f \in Clients : Handed(d)' /\ Handed(f)' /\ post'[d].event = post'[f].event => d = f
  BY <1>1 DEF HandsApart
<1>5. \A i \in DOMAIN arrival : fate'[arrival[i]] # "new"
  BY EventsArrive DEF HandsApart
<1>6. QED BY <1>3, <1>4, <1>5 DEF HandsApart

\* Nor by one that changes the fate of queued events alone.
LEMMA HandsStay ==
    ASSUME DeliveryTypeOK, HandsApart, UNCHANGED <<post, arrival>>,
           \A e \in Events :
               fate'[e] = fate[e] \/ (e \in Held(DOMAIN arrival) /\ fate'[e] # "new")
    PROVE  HandsApart'
<1>1. \A d \in Clients : Handed(d) => post[d].event \in Events
  BY DEF Handed, DeliveryTypeOK, AtRest
<1>2. \A d \in Clients : Handed(d)' <=> Handed(d)
  BY DEF Handed
<1>3. ASSUME NEW d \in Clients, Handed(d)
      PROVE  fate'[post[d].event] = "pending" /\ post[d].event \notin Held(DOMAIN arrival)
  BY <1>1, <1>3 DEF HandsApart
<1>4. \A i \in DOMAIN arrival : fate'[arrival[i]] # "new"
  BY EventsArrive DEF HandsApart
<1>5. QED BY <1>2, <1>3, <1>4 DEF HandsApart, Held

\* An event is in one hand at most, and has one row at most.
LEMMA HandsKept ==
    ASSUME DeliveryTypeOK, HandsApart, [DeliveryNext]_deliveryVars
    PROVE  HandsApart'
<1>1. ASSUME NEW c \in Clients, PostAccepted(c) \/ PostRefused(c) \/ StopWorker(c) PROVE HandsApart'
  <2>1. post' = [post EXCEPT ![c] = AtRest] /\ UNCHANGED arrival /\ post \in [Clients -> PostTypes]
    BY <1>1 DEF PostAccepted, PostRefused, StopWorker, DeliveryTypeOK, PostTypes
  <2>2. \/ fate' = [fate EXCEPT ![post[c].event] = "accepted"]
        \/ fate' = [fate EXCEPT ![post[c].event] = "refused"]
        \/ fate' = [fate EXCEPT ![post[c].event] = "abandoned"]
        \/ fate' = fate /\ post[c] = AtRest
    BY <1>1 DEF PostAccepted, PostRefused, StopWorker
  <2>3. Handed(c) \/ post[c] = AtRest
    BY <1>1 DEF PostAccepted, PostRefused, StopWorker, Handed, DeliveryTypeOK, AtRest
  <2>4. ~Handed(c)' /\ \A d \in Clients : d # c => post'[d] = post[d]
    BY <2>1 DEF Handed, AtRest
  <2>5. post[c] = AtRest => ~Handed(c)
    BY DEF Handed, AtRest
  <2>6. fate \in [Events -> {"new", "pending", "accepted", "refused", "dropped", "abandoned"}]
    BY DEF DeliveryTypeOK
  <2>7. post[c] = AtRest => fate' = fate
    BY <1>1 DEF PostAccepted, PostRefused, StopWorker, AtRest
  <2>8. \A e \in Events : Handed(c) /\ e = post[c].event => fate'[e] # "new"
    BY <2>2, <2>5, <2>6
  <2>9. \A e \in Events : ~(Handed(c) /\ e = post[c].event) => fate'[e] = fate[e]
    BY <2>2, <2>3, <2>6, <2>7
  <2>10. UNCHANGED arrival
    BY <2>1
  <2>11. QED BY <2>4, <2>8, <2>9, <2>10, HandsOff
<1>2. ASSUME NEW c \in Clients, Insert(c) PROVE HandsApart'
  <2>1. /\ post[c].event \in Events /\ DOMAIN arrival' = DOMAIN arrival \cup {Len(arrival')}
        /\ Len(arrival') \notin DOMAIN arrival /\ arrival'[Len(arrival')] = post[c].event
        /\ \A i \in DOMAIN arrival : arrival'[i] = arrival[i]
    BY <1>2, InsertAppends
  <2>2. Handed(c) /\ UNCHANGED fate
    BY <1>2 DEF Insert, Handed
  <2>3. \A d \in Clients : Handed(d)' => d # c /\ Handed(d) /\ post'[d] = post[d]
    BY <1>2 DEF Insert, Handed, DeliveryTypeOK
  <2>4. Held(DOMAIN arrival)' = Held(DOMAIN arrival) \cup {post[c].event}
    BY <2>1 DEF Held
  <2>5. \A d \in Clients :
            Handed(d)' => fate'[post'[d].event] = "pending" /\ post'[d].event \notin Held(DOMAIN arrival)'
    BY <2>2, <2>3, <2>4 DEF HandsApart
  <2>6. \A d, f \in Clients : Handed(d)' /\ Handed(f)' /\ post'[d].event = post'[f].event => d = f
    BY <2>3 DEF HandsApart
  <2>7. \A i \in DOMAIN arrival' : fate'[arrival'[i]] # "new"
    BY <2>1, <2>2 DEF HandsApart
  <2>8. \A i, j \in DOMAIN arrival' : arrival'[i] = arrival'[j] => i = j
    <3>1. \A i \in DOMAIN arrival : arrival[i] # post[c].event
      BY <2>2 DEF HandsApart, Held
    <3>2. QED BY <2>1, <3>1 DEF HandsApart
  <2>9. QED BY <2>5, <2>6, <2>7, <2>8 DEF HandsApart
<1>3. ASSUME NEW c \in Clients, PostFailed(c) PROVE HandsApart'
  <2>1. \A d \in Clients : (Handed(d)' <=> Handed(d)) /\ (Handed(d) => post'[d].event = post[d].event)
    BY <1>3 DEF PostFailed, Handed, DeliveryTypeOK, AtRest
  <2>2. UNCHANGED <<fate, arrival>>
    BY <1>3 DEF PostFailed
  <2>3. QED BY <2>1, <2>2 DEF HandsApart, Held
<1>4. ASSUME NEW c \in Clients, Count(c) PROVE HandsApart'
  <2>1. \A d \in Clients : (Handed(d)' <=> Handed(d)) /\ (Handed(d) => post'[d].event = post[d].event)
    BY <1>4 DEF Count, Handed, DeliveryTypeOK, AtRest
  <2>2. UNCHANGED <<fate, arrival>>
    BY <1>4 DEF Count
  <2>3. QED BY <2>1, <2>2 DEF HandsApart, Held
<1>5. ASSUME NEW c \in Clients, Trim(c) PROVE HandsApart'
  <2>1. ~Handed(c)' /\ ~Handed(c) /\ \A d \in Clients : d # c => post'[d] = post[d]
    BY <1>5 DEF Trim, Handed, DeliveryTypeOK, AtRest
  <2>2. \A e \in Events : fate'[e] = fate[e] \/ (e \in Held(DOMAIN arrival) /\ fate'[e] # "new")
    <3>1. Held(Oldest(post[c].excess)) \subseteq Held(DOMAIN arrival)
      BY DEF Oldest, Held, DeliveryTypeOK
    <3>2. QED BY <1>5, <3>1 DEF Trim
  <2>3. QED BY <1>5, <2>1, <2>2, HandsOff DEF Trim
<1>6. ASSUME NEW c \in Clients, NEW e \in Events, Detect(c, e) PROVE HandsApart'
  <2>1. /\ post' = [post EXCEPT ![c] = [at |-> "posting", event |-> e]]
        /\ fate' = [fate EXCEPT ![e] = "pending"] /\ fate[e] = "new" /\ UNCHANGED arrival
        /\ post \in [Clients -> PostTypes]
        /\ fate \in [Events -> {"new", "pending", "accepted", "refused", "dropped", "abandoned"}]
    BY <1>6 DEF Detect, DeliveryTypeOK, PostTypes
  <2>2. \A d \in Clients : d # c /\ Handed(d)' => Handed(d) /\ post'[d] = post[d]
    BY <2>1 DEF Handed
  <2>3. post'[c].event = e
    BY <2>1
  <2>4. e \notin Held(DOMAIN arrival)
    BY <2>1 DEF HandsApart, Held
  <2>5. \A d \in Clients : d # c /\ Handed(d) => post[d].event # e
    BY <2>1 DEF HandsApart
  <2>6. \A d \in Clients : Handed(d) => post[d].event \in Events
    BY DEF Handed, DeliveryTypeOK, AtRest
  <2>7. \A d \in Clients :
            Handed(d)' => fate'[post'[d].event] = "pending" /\ post'[d].event \notin Held(DOMAIN arrival)
    BY <2>1, <2>2, <2>3, <2>4, <2>5, <2>6 DEF HandsApart
  <2>8. \A d, f \in Clients : Handed(d)' /\ Handed(f)' /\ post'[d].event = post'[f].event => d = f
    BY <2>2, <2>3, <2>5 DEF HandsApart
  <2>9. \A i \in DOMAIN arrival : fate'[arrival[i]] # "new"
    BY <2>1, EventsArrive DEF HandsApart
  <2>10. QED BY <2>1, <2>7, <2>8, <2>9 DEF HandsApart, Held
<1>7. ASSUME NEW c \in All, DrainRefused(c) PROVE HandsApart'
  <2>1. Current(c) \in Held(DOMAIN arrival)
    BY <1>7, CurrentIsLeast DEF DrainRefused, Held
  <2>2. \A e \in Events : fate'[e] = fate[e] \/ (e \in Held(DOMAIN arrival) /\ fate'[e] # "new")
    <3>1. fate \in [Events -> {"new", "pending", "accepted", "refused", "dropped", "abandoned"}]
      BY DEF DeliveryTypeOK
    <3>2. QED BY <1>7, <2>1, <3>1 DEF DrainRefused
  <2>3. QED BY <1>7, <2>2, HandsStay DEF DrainRefused
<1>8. ASSUME NEW c \in All, DeleteSent(c) PROVE HandsApart'
  <2>1. \A e \in Events : fate'[e] = fate[e] \/ (fate'[e] = "accepted" /\ e \in Held(drain[c].sent))
    BY <1>8 DEF DeleteSent
  <2>2. drain[c].sent \subseteq DOMAIN arrival
    BY <1>8 DEF DeleteSent, DeliveryTypeOK, AtRest
  <2>3. Held(drain[c].sent) \subseteq Held(DOMAIN arrival)
    BY <2>2 DEF Held
  <2>4. \A e \in Events : fate'[e] = fate[e] \/ (e \in Held(DOMAIN arrival) /\ fate'[e] # "new")
    BY <2>1, <2>3
  <2>5. UNCHANGED <<post, arrival>>
    BY <1>8 DEF DeleteSent
  <2>6. QED BY <2>4, <2>5, HandsStay
<1>9. ASSUME UNCHANGED <<post, fate, arrival>> PROVE HandsApart'
  <2>1. \A e \in Events : fate'[e] = fate[e]
    BY <1>9
  <2>2. UNCHANGED <<post, arrival>>
    BY <1>9
  <2>3. QED BY <2>1, <2>2, HandsStay
<1>10. QED
  BY <1>1, <1>2, <1>3, <1>4, <1>5, <1>6, <1>7, <1>8, <1>9
  DEF DeliveryNext, Post, Drain, BeginDrain, DrainAccepted, DrainHalted, Heartbeat, deliveryVars

(***************************************************************************)
(* The rows: one that has left the table was replayed, refused or dropped. *)
(* A drain reads the head of the table, so what stands before a row of its *)
(* batch is in the batch or done; that makes the replay first in, first    *)
(* out.                                                                    *)
(***************************************************************************)
Done(i) == arrival[i] \in replayed \/ fate[arrival[i]] \in {"refused", "dropped"}

DrainSound(c) ==
    /\ drain[c].at = "posting" =>
          \A j \in drain[c].rest, i \in DOMAIN arrival : i < j => i \in drain[c].rest \/ Done(i)
    /\ drain[c].at \in {"posting", "deleting"} => \A i \in drain[c].sent : Done(i)

RowsDone ==
    /\ \A i \in DOMAIN arrival : i \in queue \/ Done(i)
    /\ \A c \in All : DrainSound(c)
    /\ \A i, j \in DOMAIN arrival : i < j /\ arrival[j] \in replayed => Done(i)
    /\ replayed \subseteq Held(DOMAIN arrival)
    /\ \A e \in replayed : received[e] > 0

\* No step touches what a queued event has come to, unless it ends it.
LEMMA QueuedFatesStay ==
    ASSUME DeliveryTypeOK, HandsApart, [DeliveryNext]_deliveryVars
    PROVE  /\ \A i \in DOMAIN arrival : i \in DOMAIN arrival' /\ arrival'[i] = arrival[i]
           /\ \A i \in DOMAIN arrival :
                 \/ fate'[arrival[i]] = fate[arrival[i]]
                 \/ fate'[arrival[i]] \in {"refused", "dropped"}
                 \/ fate[arrival[i]] = "pending"
           /\ replayed \subseteq replayed'
           /\ \A e \in Events : received'[e] >= received[e]
<1>0. /\ fate \in [Events -> {"new", "pending", "accepted", "refused", "dropped", "abandoned"}]
      /\ received \in [Events -> Nat] /\ \A i \in DOMAIN arrival : arrival[i] \in Events
  BY EventsArrive DEF DeliveryTypeOK
<1>1. \A c \in Clients : Handed(c) => \A i \in DOMAIN arrival : arrival[i] # post[c].event
  BY DEF HandsApart, Held
<1>2. ASSUME NEW e, Commit(e) PROVE \A f \in Events : received'[f] >= received[f]
  BY <1>0, <1>2 DEF Commit
<1>3. ASSUME NEW c \in Clients, PostAccepted(c) \/ PostRefused(c) \/ PostFailed(c)
      PROVE  /\ UNCHANGED <<arrival, replayed>> /\ \A e \in Events : received'[e] >= received[e]
             /\ \A i \in DOMAIN arrival : fate'[arrival[i]] = fate[arrival[i]]
  <2>1. Handed(c)
    BY <1>3 DEF PostAccepted, PostRefused, PostFailed, Handed
  <2>2. QED BY <1>0, <1>1, <1>2, <1>3, <2>1 DEF PostAccepted, PostRefused, PostFailed, Failed
<1>4. ASSUME NEW c \in Clients, StopWorker(c)
      PROVE  /\ UNCHANGED arrival /\ replayed \subseteq replayed'
             /\ \A e \in Events : received'[e] >= received[e]
             /\ \A i \in DOMAIN arrival : fate'[arrival[i]] = fate[arrival[i]]
  <2>1. Handed(c) \/ post[c] = AtRest
    BY <1>4 DEF StopWorker, Handed, DeliveryTypeOK, AtRest
  <2>2. \A e \in Events : received'[e] >= received[e]
    BY <1>0, <1>2, <1>4 DEF StopWorker
  <2>3. \A i \in DOMAIN arrival : fate'[arrival[i]] = fate[arrival[i]]
    BY <1>0, <1>1, <1>4, <2>1 DEF StopWorker
  <2>4. QED BY <1>4, <2>2, <2>3 DEF StopWorker
<1>5. ASSUME NEW c \in Clients, Insert(c)
      PROVE  /\ \A i \in DOMAIN arrival : i \in DOMAIN arrival' /\ arrival'[i] = arrival[i]
             /\ UNCHANGED <<fate, replayed, received>>
  BY <1>5, InsertAppends DEF Insert
<1>6. ASSUME NEW c \in Clients, NEW e \in Events, Detect(c, e)
      PROVE  /\ UNCHANGED <<arrival, replayed, received>>
             /\ \A i \in DOMAIN arrival : fate'[arrival[i]] = fate[arrival[i]]
  BY <1>0, <1>6 DEF Detect, HandsApart
<1>7. ASSUME NEW c \in Clients, Trim(c)
      PROVE  /\ UNCHANGED <<arrival, replayed, received>>
             /\ \A e \in Events : fate'[e] = fate[e] \/ fate'[e] = "dropped"
  BY <1>0, <1>7 DEF Trim
<1>8. ASSUME NEW c \in All, DrainAccepted(c) \/ DrainRefused(c) \/ DrainHalted(c)
      PROVE  /\ UNCHANGED arrival /\ replayed \subseteq replayed'
             /\ \A e \in Events : received'[e] >= received[e]
             /\ \A e \in Events : fate'[e] = fate[e] \/ fate'[e] = "refused"
  BY <1>0, <1>2, <1>8 DEF DrainAccepted, DrainRefused, DrainHalted, Failed
<1>9. ASSUME NEW c \in All, DeleteSent(c)
      PROVE  /\ UNCHANGED <<arrival, replayed, received>>
             /\ \A e \in Events : fate'[e] = fate[e] \/ fate[e] = "pending"
  BY <1>0, <1>9 DEF DeleteSent
<1>10. ASSUME UNCHANGED <<arrival, replayed, received, fate>>
       PROVE  \A e \in Events : received'[e] >= received[e] /\ fate'[e] = fate[e]
  BY <1>0, <1>10
<1>11. \A e \in Events : received[e] >= received[e]
  BY <1>0
<1>12. CASE \E c \in Clients : Post(c)
  <2>1. PICK c \in Clients : Post(c)
    BY <1>12
  <2>2. CASE PostAccepted(c) \/ PostRefused(c) \/ PostFailed(c)
    BY <1>0, <1>3, <2>2
  <2>3. CASE Insert(c)
    BY <1>0, <1>5, <1>11, <2>3
  <2>4. CASE Count(c)
    BY <1>0, <1>10, <2>4 DEF Count
  <2>5. CASE Trim(c)
    BY <1>0, <1>7, <1>11, <2>5
  <2>6. QED BY <2>1, <2>2, <2>3, <2>4, <2>5 DEF Post
<1>13. CASE \E c \in Clients : StopWorker(c) \/ \E e \in Events : Detect(c, e)
  <2>1. CASE \E c \in Clients : StopWorker(c)
    BY <1>0, <1>4, <2>1
  <2>2. CASE \E c \in Clients, e \in Events : Detect(c, e)
    BY <1>0, <1>6, <1>11, <2>2
  <2>3. QED BY <1>13, <2>1, <2>2
<1>14. CASE \E c \in All : BeginDrain(c) \/ Drain(c)
  <2>1. PICK c \in All : BeginDrain(c) \/ Drain(c)
    BY <1>14
  <2>2. CASE DrainAccepted(c) \/ DrainRefused(c) \/ DrainHalted(c)
    BY <1>0, <1>8, <2>2
  <2>3. CASE DeleteSent(c)
    BY <1>0, <1>9, <1>11, <2>3
  <2>4. CASE BeginDrain(c)
    BY <1>0, <1>10, <2>4 DEF BeginDrain
  <2>5. QED BY <2>1, <2>2, <2>3, <2>4 DEF Drain
<1>15. CASE Heartbeat \/ UNCHANGED deliveryVars
  BY <1>0, <1>10, <1>15 DEF Heartbeat, deliveryVars
<1>16. QED BY <1>12, <1>13, <1>14, <1>15 DEF DeliveryNext

\* What is done stays done.
LEMMA DoneStays ==
    ASSUME DeliveryTypeOK, HandsApart, [DeliveryNext]_deliveryVars
    PROVE  \A i \in DOMAIN arrival : Done(i) => Done(i)'
BY QueuedFatesStay DEF Done

\* What a step must show of the rows it moves.
LEMMA RowsMove ==
    ASSUME DeliveryTypeOK, HandsApart, RowsDone, [DeliveryNext]_deliveryVars, UNCHANGED arrival,
           \A i \in queue : i \in queue' \/ Done(i)',
           \A c \in All : drain'[c] # drain[c] => DrainSound(c)',
           \A j \in DOMAIN arrival : arrival[j] \in replayed' =>
               arrival[j] \in replayed \/ \A i \in DOMAIN arrival : i < j => Done(i),
           replayed' \subseteq Held(DOMAIN arrival),
           \A e \in replayed' : e \in replayed \/ received'[e] > 0
    PROVE  RowsDone'
<1>1. \A i \in DOMAIN arrival : Done(i) => Done(i)'
  BY DoneStays
<1>2. \A i \in DOMAIN arrival' : (i \in queue \/ Done(i))'
  BY <1>1 DEF RowsDone
<1>3. ASSUME NEW c \in All PROVE DrainSound(c)'
  <2>1. CASE drain'[c] # drain[c]
    BY <2>1
  <2>2. CASE drain'[c] = drain[c]
    <3>1. DrainSound(c)
      BY DEF RowsDone
    <3>2. drain[c].at \in {"posting", "deleting"} => drain[c].sent \subseteq DOMAIN arrival
      BY DEF DeliveryTypeOK, AtRest
    <3>3. QED BY <1>1, <2>2, <3>1, <3>2 DEF DrainSound
  <2>3. QED BY <2>1, <2>2
<1>4. \A i, j \in DOMAIN arrival' : i < j /\ arrival'[j] \in replayed' => Done(i)'
  BY <1>1 DEF RowsDone
<1>5. \A e \in replayed' : received'[e] > 0
  <2>1. \A e \in replayed : received[e] > 0 /\ received[e] \in Nat /\ received'[e] >= received[e]
        /\ received'[e] \in Nat
    BY QueuedFatesStay, DeliveryTypesKept DEF RowsDone, DeliveryTypeOK
  <2>2. QED BY <2>1
<1>6. QED BY <1>2, <1>3, <1>4, <1>5 DEF RowsDone, Held

\* A row drained and answered is done, so the drain stays sound as it advances.
LEMMA AdvanceSound ==
    ASSUME DeliveryTypeOK, RowsDone, NEW c \in All, drain[c].at = "posting", Advance(c),
           UNCHANGED arrival,
           \A i \in DOMAIN arrival : i = CurrentRow(c) => Done(i)', \A i \in DOMAIN arrival : Done(i) => Done(i)'
    PROVE  DrainSound(c)' /\ \A d \in All : d # c => drain'[d] = drain[d]
<1> DEFINE rest == drain[c].rest \ {CurrentRow(c)}
           done == drain[c].sent \cup {CurrentRow(c)}
<1>1. drain' = [drain EXCEPT ![c] = IF rest = {} THEN [at |-> "deleting", sent |-> done]
                                    ELSE [at |-> "posting", rest |-> rest, sent |-> done]]
  BY DEF Advance
<1>2. \A i \in done : Done(i)'
  BY CurrentIsLeast DEF RowsDone, DrainSound
<1>3. \A j \in rest, i \in DOMAIN arrival : i < j => i \in rest \/ Done(i)'
  BY DEF RowsDone, DrainSound
<1>4. \/ drain'[c] = [at |-> "deleting", sent |-> done]
      \/ drain'[c] = [at |-> "posting", rest |-> rest, sent |-> done]
  BY <1>1 DEF DeliveryTypeOK
<1> HIDE DEF rest, done
<1>5. DrainSound(c)'
  BY <1>2, <1>3, <1>4 DEF DrainSound
<1>6. QED BY <1>1, <1>5 DEF DeliveryTypeOK

\* What comes before the row a drain is at is done.
LEMMA BeforeCurrent ==
    ASSUME DeliveryTypeOK, RowsDone, NEW c \in All, drain[c].at = "posting"
    PROVE  \A j \in DOMAIN arrival : j = CurrentRow(c) => \A i \in DOMAIN arrival : i < j => Done(i)
<1>1. /\ CurrentRow(c) \in drain[c].rest /\ \A j \in drain[c].rest : CurrentRow(c) <= j
      /\ drain[c].rest \subseteq Nat /\ drain[c].rest \subseteq DOMAIN arrival
  BY CurrentIsLeast, RowsAreFinite
<1>2. QED BY <1>1 DEF RowsDone, DrainSound

\* The rows of a step that commits the current row of a drain.
LEMMA CurrentCommitted ==
    ASSUME DeliveryTypeOK, HandsApart, RowsDone, NEW c \in All, drain[c].at = "posting",
           Commit(Current(c)), replayed' = replayed \cup {Current(c)}
    PROVE  /\ \A j \in DOMAIN arrival : arrival[j] \in replayed' =>
                 arrival[j] \in replayed \/ \A i \in DOMAIN arrival : i < j => Done(i)
           /\ replayed' \subseteq Held(DOMAIN arrival)
           /\ \A e \in replayed' : e \in replayed \/ received'[e] > 0
<1>1. Current(c) \in Events /\ Current(c) = arrival[CurrentRow(c)] /\ CurrentRow(c) \in DOMAIN arrival
  BY CurrentIsLeast
<1>2. received'[Current(c)] > 0
  BY <1>1 DEF Commit, DeliveryTypeOK
<1>3. \A j \in DOMAIN arrival : arrival[j] = Current(c) => j = CurrentRow(c)
  BY <1>1 DEF HandsApart
<1>4. QED BY <1>1, <1>2, <1>3, BeforeCurrent DEF RowsDone, Held

\* Rows are answered in the order they were queued.
LEMMA RowsKept ==
    ASSUME DeliveryTypeOK, HandsApart, RowsDone, [DeliveryNext]_deliveryVars
    PROVE  RowsDone'
<1>0. \A i \in DOMAIN arrival : Done(i) => Done(i)'
  BY DoneStays
<1>00. \A j \in DOMAIN arrival : arrival[j] \in replayed =>
            arrival[j] \in replayed \/ \A i \in DOMAIN arrival : i < j => Done(i)
  OBVIOUS
<1>000. replayed \subseteq Held(DOMAIN arrival)
  BY DEF RowsDone
<1>1. CASE \E c \in Clients : PostAccepted(c) \/ PostRefused(c) \/ PostFailed(c) \/ Count(c)
              \/ \E e \in Events : Detect(c, e)
  <2>1. UNCHANGED <<queue, drain, arrival, replayed>>
    BY <1>1 DEF PostAccepted, PostRefused, PostFailed, Count, Detect
  <2>2. QED BY <2>1, <1>00, <1>000, RowsMove
<1>2. CASE Heartbeat \/ UNCHANGED deliveryVars
  <2>1. UNCHANGED <<queue, drain, arrival, replayed>>
    BY <1>2 DEF Heartbeat, deliveryVars
  <2>2. QED BY <2>1, <1>00, <1>000, RowsMove
<1>3. ASSUME NEW c \in Clients, Insert(c) PROVE RowsDone'
  <2>1. /\ post[c].event \in Events /\ DOMAIN arrival = 1 .. Len(arrival) /\ Len(arrival) \in Nat
        /\ Len(arrival') = Len(arrival) + 1
        /\ DOMAIN arrival' = DOMAIN arrival \cup {Len(arrival')}
        /\ arrival'[Len(arrival')] = post[c].event
        /\ \A i \in DOMAIN arrival : arrival'[i] = arrival[i]
        /\ queue' = queue \cup {Len(arrival')}
    BY <1>3, InsertAppends
  <2>2. UNCHANGED <<drain, replayed, received>>
    BY <1>3 DEF Insert
  <2>3. post[c].event \notin replayed
    <3>1. post[c].event \notin Held(DOMAIN arrival)
      BY <1>3 DEF HandsApart, Handed, Insert
    <3>2. QED BY <3>1, <1>000
  <2>4. \A i \in DOMAIN arrival' : (i \in queue \/ Done(i))'
    BY <2>1, <1>0 DEF RowsDone
  <2>5. ASSUME NEW d \in All PROVE DrainSound(d)'
    <3>1. DrainSound(d)
      BY DEF RowsDone
    <3>2. drain[d].at \in {"posting", "deleting"} => drain[d].sent \subseteq DOMAIN arrival
      BY DEF DeliveryTypeOK, AtRest
    <3>3. drain[d].at = "posting" => drain[d].rest \subseteq DOMAIN arrival
      BY CurrentIsLeast
    <3>4. \A j \in DOMAIN arrival, i \in DOMAIN arrival' : i < j => i \in DOMAIN arrival
      BY <2>1
    <3>5. QED BY <1>0, <2>2, <3>1, <3>2, <3>3, <3>4 DEF DrainSound
  <2>6. \A i, j \in DOMAIN arrival' : i < j /\ arrival'[j] \in replayed' => Done(i)'
    <3>1. ASSUME NEW i \in DOMAIN arrival', NEW j \in DOMAIN arrival', i < j,
                 arrival'[j] \in replayed'
          PROVE  Done(i)'
      <4>1. j \in DOMAIN arrival /\ i \in DOMAIN arrival
        BY <2>1, <2>2, <2>3, <3>1
      <4>2. QED BY <1>0, <2>1, <2>2, <3>1, <4>1 DEF RowsDone
    <3>2. QED BY <3>1
  <2>7. replayed' \subseteq Held(DOMAIN arrival)'
    <3>1. Held(DOMAIN arrival) \subseteq Held(DOMAIN arrival)'
      BY <2>1 DEF Held
    <3>2. QED BY <3>1, <1>000, <2>2
  <2>8. \A e \in replayed' : received'[e] > 0
    BY <2>2 DEF RowsDone
  <2>9. QED BY <2>4, <2>5, <2>6, <2>7, <2>8 DEF RowsDone
<1>4. ASSUME NEW c \in Clients, Trim(c) PROVE RowsDone'
  <2>1. UNCHANGED <<drain, arrival, replayed>>
    BY <1>4 DEF Trim
  <2>2. \A i \in queue : i \in queue' \/ Done(i)'
    <3>1. ASSUME NEW i \in queue, i \notin queue' PROVE Done(i)'
      <4>1. i \in Oldest(post[c].excess) /\ arrival[i] \in Events
        BY <1>4, <3>1, EventsArrive DEF Trim, DeliveryTypeOK
      <4>2. fate'[arrival[i]] = "dropped"
        BY <1>4, <4>1 DEF Trim, Held
      <4>3. QED BY <4>2, <2>1 DEF Done
    <3>2. QED BY <3>1
  <2>3. QED BY <2>1, <2>2, <1>00, <1>000, RowsMove
<1>5. ASSUME NEW c \in All, BeginDrain(c) PROVE RowsDone'
  <2>1. UNCHANGED <<queue, arrival, replayed>>
    BY <1>5 DEF BeginDrain
  <2>2. ASSUME NEW d \in All, drain'[d] # drain[d] PROVE DrainSound(d)'
    <3>1. d = c /\ drain'[c] = [at |-> "posting", rest |-> Oldest(Batch), sent |-> {}]
      BY <1>5, <2>2 DEF BeginDrain, DeliveryTypeOK
    <3>2. Oldest(Batch) \subseteq queue
          /\ \A i \in queue, j \in Oldest(Batch) : i < j => i \in Oldest(Batch)
      BY OldestIsHead, DeliveryAssumption
    <3>3. \A j \in Oldest(Batch), i \in DOMAIN arrival : i < j => i \in Oldest(Batch) \/ Done(i)
      BY <3>2 DEF RowsDone
    <3>4. QED BY <1>0, <2>1, <3>1, <3>3 DEF DrainSound
  <2>3. QED BY <2>1, <2>2, <1>00, <1>000, RowsMove
<1>6. ASSUME NEW c \in All, DrainAccepted(c) PROVE RowsDone'
  <2>1. /\ drain[c].at = "posting" /\ Commit(Current(c)) /\ Advance(c)
        /\ replayed' = replayed \cup {Current(c)} /\ UNCHANGED <<queue, arrival>>
    BY <1>6 DEF DrainAccepted
  <2>2. \A i \in DOMAIN arrival : i = CurrentRow(c) => Done(i)'
    BY <2>1, CurrentIsLeast DEF Done
  <2>3. DrainSound(c)' /\ \A d \in All : d # c => drain'[d] = drain[d]
    BY <1>0, <2>1, <2>2, AdvanceSound
  <2>4. QED BY <2>1, <2>3, CurrentCommitted, RowsMove
<1>7. ASSUME NEW c \in All, DrainRefused(c) PROVE RowsDone'
  <2>1. /\ drain[c].at = "posting" /\ Advance(c) /\ UNCHANGED <<queue, arrival, replayed>>
        /\ fate' = [fate EXCEPT ![Current(c)] = "refused"]
    BY <1>7 DEF DrainRefused
  <2>2. \A i \in DOMAIN arrival : i = CurrentRow(c) => Done(i)'
    BY <2>1, CurrentIsLeast DEF Done, DeliveryTypeOK
  <2>3. DrainSound(c)' /\ \A d \in All : d # c => drain'[d] = drain[d]
    BY <1>0, <2>1, <2>2, AdvanceSound
  <2>4. QED BY <2>1, <2>3, <1>00, <1>000, RowsMove
<1>8. ASSUME NEW c \in All, DrainHalted(c) PROVE RowsDone'
  <2>1. UNCHANGED <<queue, arrival, replayed>>
    BY <1>8 DEF DrainHalted
  <2>2. ASSUME NEW d \in All, drain'[d] # drain[d] PROVE DrainSound(d)'
    <3>1. d = c /\ drain'[c] = [at |-> "deleting", sent |-> drain[c].sent] /\ drain[c].at = "posting"
      BY <1>8, <2>2 DEF DrainHalted, DeliveryTypeOK
    <3>2. \A i \in drain[c].sent : i \in DOMAIN arrival /\ Done(i)
      BY <3>1, CurrentIsLeast DEF RowsDone, DrainSound
    <3>3. QED BY <1>0, <3>1, <3>2 DEF DrainSound
  <2>3. QED BY <2>1, <2>2, <1>00, <1>000, RowsMove
<1>9. ASSUME NEW c \in All, DeleteSent(c) PROVE RowsDone'
  <2>1. UNCHANGED <<arrival, replayed>>
    BY <1>9 DEF DeleteSent
  <2>2. \A i \in drain[c].sent : i \in DOMAIN arrival /\ Done(i)
    BY <1>9 DEF DeleteSent, DeliveryTypeOK, AtRest, RowsDone, DrainSound
  <2>3. \A i \in queue : i \in queue' \/ Done(i)'
    BY <1>0, <1>9, <2>2 DEF DeleteSent
  <2>4. ASSUME NEW d \in All, drain'[d] # drain[d] PROVE DrainSound(d)'
    BY <1>9, <2>4 DEF DeleteSent, DeliveryTypeOK, DrainSound, AtRest
  <2>5. QED BY <2>1, <2>3, <2>4, <1>00, <1>000, RowsMove
<1>10. ASSUME NEW c \in Clients, StopWorker(c) PROVE RowsDone'
  <2>1. UNCHANGED <<queue, arrival>>
    BY <1>10 DEF StopWorker
  <2>2. ASSUME NEW d \in All, drain'[d] # drain[d] PROVE DrainSound(d)'
    BY <1>10, <2>2 DEF StopWorker, DeliveryTypeOK, DrainSound, AtRest
  <2>3. CASE UNCHANGED replayed
    BY <2>1, <2>2, <2>3, <1>00, <1>000, RowsMove
  <2>4. CASE /\ drain[c].at = "posting" /\ Commit(Current(c))
             /\ replayed' = replayed \cup {Current(c)}
    <3>1. c \in All
      BY DEF All
    <3>2. QED BY <2>1, <2>2, <2>4, <3>1, CurrentCommitted, RowsMove
  <2>5. QED BY <1>10, <2>3, <2>4 DEF StopWorker
<1>11. QED
  BY <1>1, <1>2, <1>3, <1>4, <1>5, <1>6, <1>7, <1>8, <1>9, <1>10 DEF DeliveryNext, Post, Drain

(***************************************************************************)
(* What is pending is queued, in hand or committed: a row is deleted after *)
(* its answer alone.                                                       *)
(***************************************************************************)
LEMMA AccountsKept ==
    ASSUME DeliveryTypeOK, HandsApart, RowsDone, Accounted, [DeliveryNext]_deliveryVars
    PROVE  Accounted'
<1>0. /\ \A e \in Events : received'[e] >= received[e] /\ received[e] \in Nat /\ received'[e] \in Nat
      /\ fate \in [Events -> {"new", "pending", "accepted", "refused", "dropped", "abandoned"}]
      /\ \A i \in DOMAIN arrival : i \in DOMAIN arrival' /\ arrival'[i] = arrival[i]
  BY QueuedFatesStay, DeliveryTypesKept DEF DeliveryTypeOK
<1>1. ASSUME \A e \in Events : received[e] = 0 /\ received'[e] = 0 =>
                  /\ fate'[e] # "accepted" \/ fate[e] = "accepted"
                  /\ fate'[e] = "pending" /\ fate[e] = "pending" /\ e \in Held(queue) =>
                        e \in Held(queue)'
                  /\ fate'[e] = "pending" /\ fate[e] = "pending" /\ InHand(e) =>
                        e \in Held(queue)' \/ InHand(e)'
                  /\ fate'[e] = "pending" /\ fate[e] # "pending" => InHand(e)'
      PROVE  Accounted'
  <2>1. ASSUME NEW e \in Events, received'[e] = 0
        PROVE  /\ fate'[e] = "pending" => e \in Held(queue)' \/ InHand(e)'
               /\ fate'[e] # "accepted"
    <3>1. received[e] = 0
      BY <1>0, <2>1
    <3>2. QED BY <1>1, <2>1, <3>1 DEF Accounted
  <2>2. \A e \in Events : received'[e] = 0 \/ received'[e] > 0
    BY <1>0
  <2>3. QED BY <2>1, <2>2, <1>0 DEF Accounted
<1>2. ASSUME NEW c \in Clients, PostAccepted(c) \/ PostRefused(c) \/ StopWorker(c) PROVE Accounted'
  <2>1. post' = [post EXCEPT ![c] = AtRest] /\ UNCHANGED <<queue, arrival>>
        /\ post \in [Clients -> PostTypes]
    BY <1>2 DEF PostAccepted, PostRefused, StopWorker, DeliveryTypeOK, PostTypes
  <2>2. Handed(c) \/ post[c] = AtRest
    BY <1>2 DEF PostAccepted, PostRefused, StopWorker, Handed, DeliveryTypeOK, AtRest
  <2>3. Handed(c) => post[c].event \in Events
    BY DEF Handed, DeliveryTypeOK, AtRest
  <2>4. Handed(c) => \/ fate' = [fate EXCEPT ![post[c].event] = "accepted"] /\ Commit(post[c].event)
                     \/ fate' = [fate EXCEPT ![post[c].event] = "refused"]
                     \/ fate' = [fate EXCEPT ![post[c].event] = "abandoned"]
    BY <1>2 DEF PostAccepted, PostRefused, StopWorker, Handed, AtRest
  <2>5. ~Handed(c) => UNCHANGED fate
    BY <1>2, <2>2 DEF PostAccepted, PostRefused, StopWorker, Handed, AtRest
  <2>6. \A e \in Events : InHand(e) => InHand(e)' \/ (Handed(c) /\ e = post[c].event)
    BY <2>1 DEF InHand, Handed
  <2>7. \A e \in Events : Handed(c) /\ e = post[c].event =>
            fate'[e] # "pending" /\ (fate'[e] = "accepted" => received'[e] > 0)
    BY <1>0, <2>3, <2>4 DEF Commit, DeliveryTypeOK
  <2>8. \A e \in Events : ~(Handed(c) /\ e = post[c].event) => fate'[e] = fate[e]
    BY <1>0, <2>3, <2>4, <2>5
  <2>9. Held(queue)' = Held(queue)
    BY <2>1 DEF Held
  <2>10. QED BY <1>0, <1>1, <2>6, <2>7, <2>8, <2>9
<1>3. ASSUME NEW c \in Clients, Insert(c) PROVE Accounted'
  <2>1. Held(queue) \subseteq Held(queue)' /\ post[c].event \in Held(queue)'
    BY <1>3, <1>0, InsertAppends, SMTT(30) DEF Held, DeliveryTypeOK
  <2>2. \A e \in Events : InHand(e) => InHand(e)' \/ e = post[c].event
    BY <1>3 DEF Insert, InHand, DeliveryTypeOK
  <2>3. QED BY <1>0, <1>1, <1>3, <2>1, <2>2 DEF Insert
<1>4. ASSUME NEW c \in Clients, PostFailed(c) \/ Count(c) \/ (\E e \in Events : Detect(c, e))
      PROVE  Accounted'
  <2>1. UNCHANGED <<queue, arrival>> /\ post \in [Clients -> PostTypes]
    BY <1>4 DEF PostFailed, Count, Detect, DeliveryTypeOK, PostTypes
  <2>2. \A e \in Events : InHand(e) => InHand(e)'
    BY <1>4, <2>1 DEF PostFailed, Count, Detect, InHand, AtRest, PostTypes
  <2>3. \A e \in Events : fate'[e] = fate[e] \/ (fate'[e] = "pending" /\ InHand(e)')
    BY <1>0, <1>4, <2>1 DEF PostFailed, Count, Detect, InHand
  <2>4. Held(queue)' = Held(queue)
    BY <2>1 DEF Held
  <2>5. QED BY <1>0, <1>1, <2>2, <2>3, <2>4
<1>5. ASSUME NEW c \in Clients, Trim(c) PROVE Accounted'
  <2>1. \A e \in Events : InHand(e) => InHand(e)'
    BY <1>5 DEF Trim, InHand, DeliveryTypeOK
  <2>2. \A e \in Events : fate'[e] = fate[e] \/ fate'[e] = "dropped"
    BY <1>0, <1>5 DEF Trim
  <2>3. \A e \in Events : e \in Held(queue) => e \in Held(queue)' \/ fate'[e] = "dropped"
    BY <1>0, <1>5 DEF Trim, Held
  <2>4. QED BY <1>0, <1>1, <2>1, <2>2, <2>3
<1>6. ASSUME NEW c \in All, DeleteSent(c) PROVE Accounted'
  <2>1. \A i \in drain[c].sent : i \in DOMAIN arrival /\ Done(i)
    BY <1>6 DEF DeleteSent, DeliveryTypeOK, AtRest, RowsDone, DrainSound
  <2>2. \A e \in Events : e \in Held(drain[c].sent) /\ fate[e] = "pending" => received[e] > 0
    BY <2>1 DEF Held, Done, RowsDone
  <2>3. \A e \in Events : InHand(e) => InHand(e)'
    BY <1>6 DEF DeleteSent, InHand
  <2>4. \A e \in Events : fate'[e] = fate[e] \/ received[e] > 0
    BY <1>6, <2>2 DEF DeleteSent
  <2>5. \A e \in Events : e \in Held(queue) /\ fate[e] = "pending" => e \in Held(queue)' \/ received[e] > 0
    BY <1>6, <1>0, <2>2 DEF DeleteSent, Held
  <2>6. QED BY <1>0, <1>1, <2>3, <2>4, <2>5
<1>7. ASSUME UNCHANGED <<queue, post, arrival>>,
             \A e \in Events : fate'[e] = fate[e] \/ fate'[e] = "refused"
      PROVE  Accounted'
  <2>1. Held(queue)' = Held(queue) /\ \A e \in Events : InHand(e)' <=> InHand(e)
    BY <1>7 DEF Held, InHand
  <2>2. QED BY <1>0, <1>1, <1>7, <2>1
<1>8. ASSUME \/ Heartbeat \/ UNCHANGED deliveryVars
             \/ \E c \in All : BeginDrain(c) \/ DrainAccepted(c) \/ DrainRefused(c) \/ DrainHalted(c)
      PROVE  Accounted'
  <2>1. UNCHANGED <<queue, post, arrival>>
    BY <1>8 DEF Heartbeat, deliveryVars, BeginDrain, DrainAccepted, DrainRefused, DrainHalted
  <2>2. \A e \in Events : fate'[e] = fate[e] \/ fate'[e] = "refused"
    BY <1>0, <1>8 DEF Heartbeat, deliveryVars, BeginDrain, DrainAccepted, DrainRefused, DrainHalted
  <2>3. QED BY <1>7, <2>1, <2>2
<1>9. QED BY <1>2, <1>3, <1>4, <1>5, <1>6, <1>8 DEF DeliveryNext, Post, Drain

(***************************************************************************)
(* The cap: a client in the middle of _enqueue_sync answers for the one    *)
(* row it has put in and not yet counted.                                  *)
(***************************************************************************)
Enqueuing == {c \in Clients : post[c].at \in {"counting", "trimming"}}

\* The queue does not outgrow its bound.
LEMMA BoundKept ==
    ASSUME DeliveryTypeOK, QueueBounded, [DeliveryNext]_deliveryVars
    PROVE  QueueBounded'
<1>0. /\ IsFiniteSet(queue) /\ Cardinality(queue) \in Nat
      /\ IsFiniteSet(Enqueuing) /\ Cardinality(Enqueuing) \in Nat
      /\ IsFiniteSet(Enqueuing') /\ Cardinality(Enqueuing') \in Nat
      /\ Cardinality(queue) <= MaxRows + Cardinality(Enqueuing)
      /\ MaxRows \in Nat
  <2>1. /\ IsFiniteSet(Clients) /\ Enqueuing \subseteq Clients /\ Enqueuing' \subseteq Clients
        /\ queue \in SUBSET DOMAIN arrival
    BY DeliveryAssumption DEF Enqueuing, DeliveryTypeOK
  <2>2. QED BY <2>1, FS_Subset, FS_CardinalityType, RowsAreFinite, DeliveryAssumption
        DEF QueueBounded, Enqueuing
<1>00. ASSUME Cardinality(queue') <= MaxRows + Cardinality(Enqueuing') PROVE QueueBounded'
  BY <1>00 DEF QueueBounded, Enqueuing
<1>1. ASSUME queue' \subseteq queue, Enqueuing' = Enqueuing PROVE QueueBounded'
  <2>1. Cardinality(queue') \in Nat /\ Cardinality(queue') <= Cardinality(queue)
    BY <1>0, <1>1, FS_Subset, FS_CardinalityType
  <2>2. QED BY <1>0, <1>1, <2>1, <1>00
<1>2. ASSUME NEW c \in Clients, Insert(c) PROVE QueueBounded'
  <2>1. queue' = queue \cup {Len(arrival')}
    BY <1>2, InsertAppends
  <2>2. c \notin Enqueuing /\ Enqueuing' = Enqueuing \cup {c}
    BY <1>2 DEF Insert, Enqueuing, DeliveryTypeOK
  <2>3. Cardinality(queue') <= Cardinality(queue) + 1 /\ Cardinality(queue') \in Nat
    <3> DEFINE n == Len(arrival')
    <3>1. queue' = queue \cup {n}
      BY <2>1
    <3> HIDE DEF n
    <3>2. /\ IsFiniteSet(queue \cup {n})
          /\ Cardinality(queue \cup {n}) = IF n \in queue THEN Cardinality(queue)
                                           ELSE Cardinality(queue) + 1
      BY <1>0, FS_AddElement
    <3>3. QED BY <1>0, <3>1, <3>2
  <2>4. Cardinality(Enqueuing') = Cardinality(Enqueuing) + 1
    BY <1>0, <2>2, FS_AddElement
  <2>5. QED BY <1>0, <2>3, <2>4, <1>00
<1>3. ASSUME NEW c \in Clients, Count(c) PROVE QueueBounded'
  <2>1. UNCHANGED queue
    BY <1>3 DEF Count
  <2>2. CASE Cardinality(queue) > MaxRows
    <3>1. Enqueuing' = Enqueuing
      BY <1>3, <2>2 DEF Count, Enqueuing, DeliveryTypeOK
    <3>2. QED BY <1>1, <2>1, <3>1
  <2>3. CASE ~(Cardinality(queue) > MaxRows)
    BY <1>0, <2>1, <2>3 DEF QueueBounded, Enqueuing
  <2>4. QED BY <2>2, <2>3
<1>4. ASSUME NEW c \in Clients, Trim(c) PROVE QueueBounded'
  <2>1. c \in Enqueuing /\ Enqueuing' = Enqueuing \ {c}
    BY <1>4 DEF Trim, Enqueuing, DeliveryTypeOK, AtRest
  <2>2. Cardinality(Enqueuing') = Cardinality(Enqueuing) - 1
    BY <1>0, <2>1, FS_RemoveElement
  <2>3. post[c].excess \in Nat \ {0}
    <3>1. post[c] \in PostTypes /\ post[c].at = "trimming"
      BY <1>4 DEF Trim, DeliveryTypeOK, PostTypes
    <3>2. post[c] \in [at : {"trimming"}, excess : Nat \ {0}]
      BY <3>1 DEF PostTypes, AtRest
    <3>3. QED BY <3>2
  <2>4. CASE queue = {}
    <3>1. queue' = {}
      BY <1>4, <2>4 DEF Trim
    <3>2. QED BY <1>0, <3>1, FS_EmptySet DEF QueueBounded, Enqueuing
  <2>5. CASE queue # {}
    <3>1. PICK i \in Oldest(post[c].excess) : i \in queue
      BY <2>3, <2>5, OldestIsHead
    <3>2. queue' \subseteq queue \ {i}
      BY <1>4, <3>1 DEF Trim
    <3>3. IsFiniteSet(queue \ {i}) /\ Cardinality(queue \ {i}) = Cardinality(queue) - 1
      BY <1>0, <3>1, FS_RemoveElement
    <3>4. Cardinality(queue') \in Nat /\ Cardinality(queue') <= Cardinality(queue) - 1
      BY <3>2, <3>3, FS_Subset, FS_CardinalityType
    <3>5. QED BY <1>0, <1>00, <2>2, <3>4
  <2>6. QED BY <2>4, <2>5
<1>5. ASSUME NEW c \in Clients,
             \/ PostAccepted(c) \/ PostRefused(c) \/ PostFailed(c) \/ StopWorker(c)
             \/ \E e \in Events : Detect(c, e)
      PROVE  QueueBounded'
  <2>1. queue' = queue /\ post \in [Clients -> PostTypes]
    BY <1>5 DEF PostAccepted, PostRefused, PostFailed, StopWorker, Detect, DeliveryTypeOK, PostTypes
  <2>2. Enqueuing' = Enqueuing
    BY <1>5, <2>1
    DEF PostAccepted, PostRefused, PostFailed, StopWorker, Detect, Enqueuing, AtRest, PostTypes
  <2>3. QED BY <1>1, <2>1, <2>2
<1>6. ASSUME \/ Heartbeat \/ UNCHANGED deliveryVars \/ \E c \in All : BeginDrain(c) \/ Drain(c)
      PROVE  QueueBounded'
  <2>1. queue' \subseteq queue /\ UNCHANGED post
    BY <1>6 DEF Heartbeat, deliveryVars, BeginDrain, Drain, DrainAccepted, DrainRefused, DrainHalted,
                DeleteSent
  <2>2. QED BY <1>1, <2>1 DEF Enqueuing
<1>7. QED BY <1>2, <1>3, <1>4, <1>5, <1>6 DEF DeliveryNext, Post

(***************************************************************************)
(* The duplicates.  A queued event has been committed by the drains that   *)
(* still hold it as sent, and otherwise only at the cost of a loss; once   *)
(* its row is gone, the drains that still hold it as waiting can commit it *)
(* once more each, and no drain can be both.                               *)
(***************************************************************************)
Sending(c, i) == drain[c].at \in {"posting", "deleting"} /\ i \in drain[c].sent
Waiting(c, i) == drain[c].at = "posting" /\ i \in drain[c].rest
SentBy(i) == {c \in All : Sending(c, i)}
WaitedBy(i) == {c \in All : Waiting(c, i)}

Copies ==
    /\ \A c \in All, i \in DOMAIN arrival : ~(Sending(c, i) /\ Waiting(c, i))
    /\ \A i \in queue : received[arrival[i]] <= losses + Cardinality(SentBy(i))
    /\ \A i \in DOMAIN arrival \ queue :
          received[arrival[i]] + Cardinality(WaitedBy(i)) <= Cardinality(All) + losses
    /\ \A e \in Events \ Held(DOMAIN arrival) :
          /\ received[e] <= losses + 1
          /\ fate[e] \in {"new", "pending"} => received[e] <= losses

\* There are finitely many clients, the supervisor among them.
LEMMA ClientsAreFinite ==
    /\ IsFiniteSet(All) /\ Cardinality(All) \in Nat /\ Cardinality(All) > 0
    /\ \A S \in SUBSET All : IsFiniteSet(S) /\ Cardinality(S) \in Nat /\ Cardinality(S) <= Cardinality(All)
<1>1. /\ IsFiniteSet(Clients) /\ IsFiniteSet(All) /\ Cardinality(Clients) \in Nat
      /\ Cardinality(All) = Cardinality(Clients) + 1
  BY DeliveryAssumption, FS_AddElement, FS_CardinalityType DEF All
<1>2. QED BY <1>1, FS_Subset, FS_CardinalityType

\* One client changes sides.
LEMMA OneChanges ==
    ASSUME NEW S \in SUBSET All, NEW T \in SUBSET All, NEW c \in All, T \ {c} = S \ {c}
    PROVE  /\ c \in T /\ c \in S => Cardinality(T) = Cardinality(S)
           /\ c \in T /\ c \notin S => Cardinality(T) = Cardinality(S) + 1
           /\ c \notin T /\ c \in S => Cardinality(T) = Cardinality(S) - 1
           /\ c \notin T /\ c \notin S => Cardinality(T) = Cardinality(S)
<1>1. IsFiniteSet(S) /\ IsFiniteSet(T) /\ Cardinality(S) \in Nat /\ Cardinality(T) \in Nat
  BY ClientsAreFinite
<1>2. Cardinality(S \ {c}) = IF c \in S THEN Cardinality(S) - 1 ELSE Cardinality(S)
  BY <1>1, FS_RemoveElement
<1>3. Cardinality(T \ {c}) = IF c \in T THEN Cardinality(T) - 1 ELSE Cardinality(T)
  BY <1>1, FS_RemoveElement
<1>4. QED BY <1>1, <1>2, <1>3

\* Who sends is not who waits.
LEMMA SidesApart ==
    ASSUME Copies, NEW i \in DOMAIN arrival
    PROVE  /\ Cardinality(SentBy(i)) \in Nat /\ Cardinality(WaitedBy(i)) \in Nat
           /\ Cardinality(SentBy(i)) + Cardinality(WaitedBy(i)) <= Cardinality(All)
<1>1. /\ SentBy(i) \in SUBSET All /\ WaitedBy(i) \in SUBSET All
      /\ SentBy(i) \cup WaitedBy(i) \in SUBSET All /\ SentBy(i) \cap WaitedBy(i) = {}
  BY DEF SentBy, WaitedBy, Copies
<1> HIDE DEF SentBy, WaitedBy
<1>2. /\ IsFiniteSet(SentBy(i)) /\ IsFiniteSet(WaitedBy(i))
      /\ Cardinality(SentBy(i)) \in Nat /\ Cardinality(WaitedBy(i)) \in Nat
      /\ Cardinality(SentBy(i) \cup WaitedBy(i)) <= Cardinality(All)
  BY <1>1, ClientsAreFinite
<1>3. Cardinality(SentBy(i) \cup WaitedBy(i))
        = Cardinality(SentBy(i)) + Cardinality(WaitedBy(i)) - Cardinality(SentBy(i) \cap WaitedBy(i))
  BY <1>2, FS_Union
<1>4. Cardinality(SentBy(i) \cap WaitedBy(i)) = 0
  BY <1>1, FS_EmptySet
<1>5. QED BY <1>2, <1>3, <1>4

Bit(b) == IF b THEN 1 ELSE 0

\* What a step must show when the drain of one client moves at most and no row is
\* added.
LEMMA CopiesMove ==
    ASSUME DeliveryTypeOK, DeliveryTypeOK', Copies, NEW c \in All, UNCHANGED arrival,
           queue' \subseteq queue, losses' >= losses,
           \A d \in All : d # c => drain'[d] = drain[d],
           \A i \in DOMAIN arrival : ~(Sending(c, i)' /\ Waiting(c, i)'),
           \A i \in queue' :
               received'[arrival[i]] - received[arrival[i]] + Bit(Sending(c, i))
                   <= losses' - losses + Bit(Sending(c, i)'),
           \A i \in queue \ queue' :
               received'[arrival[i]] = received[arrival[i]] /\ (Waiting(c, i)' => Waiting(c, i)),
           \A i \in DOMAIN arrival \ queue :
               received'[arrival[i]] - received[arrival[i]] + Bit(Waiting(c, i)')
                   <= losses' - losses + Bit(Waiting(c, i)),
           \A e \in Events \ Held(DOMAIN arrival) :
               /\ received'[e] <= losses' + 1
               /\ fate'[e] \in {"new", "pending"} => received'[e] <= losses'
    PROVE  Copies'
<1>0. /\ losses \in Nat /\ losses' \in Nat
      /\ \A i \in DOMAIN arrival : received[arrival[i]] \in Nat /\ received'[arrival[i]] \in Nat
      /\ queue \subseteq DOMAIN arrival /\ Cardinality(All) \in Nat
  <2>1. /\ received \in [Events -> Nat] /\ received' \in [Events -> Nat]
        /\ losses \in 0 .. MaxLosses /\ losses' \in 0 .. MaxLosses /\ queue \subseteq DOMAIN arrival
    BY DEF DeliveryTypeOK
  <2>2. losses \in Nat /\ losses' \in Nat /\ Cardinality(All) \in Nat
    BY <2>1, ClientsAreFinite, DeliveryAssumption
  <2>3. \A i \in DOMAIN arrival : arrival[i] \in Events
    BY EventsArrive
  <2>4. QED BY <2>1, <2>2, <2>3
<1>1. \A d \in All, i \in DOMAIN arrival :
          d # c => (Sending(d, i)' <=> Sending(d, i)) /\ (Waiting(d, i)' <=> Waiting(d, i))
  BY DEF Sending, Waiting
<1>2. ASSUME NEW i \in DOMAIN arrival
      PROVE  /\ Cardinality(SentBy(i)') = Cardinality(SentBy(i)) - Bit(Sending(c, i)) + Bit(Sending(c, i)')
             /\ Cardinality(WaitedBy(i)') = Cardinality(WaitedBy(i)) - Bit(Waiting(c, i)) + Bit(Waiting(c, i)')
             /\ Cardinality(SentBy(i)') \in Nat /\ Cardinality(WaitedBy(i)') \in Nat
  <2>1. /\ SentBy(i) \in SUBSET All /\ SentBy(i)' \in SUBSET All
        /\ WaitedBy(i) \in SUBSET All /\ WaitedBy(i)' \in SUBSET All
    BY DEF SentBy, WaitedBy
  <2>2. /\ SentBy(i)' \ {c} = SentBy(i) \ {c} /\ WaitedBy(i)' \ {c} = WaitedBy(i) \ {c}
        /\ (c \in SentBy(i) <=> Sending(c, i)) /\ (c \in SentBy(i)' <=> Sending(c, i)')
        /\ (c \in WaitedBy(i) <=> Waiting(c, i)) /\ (c \in WaitedBy(i)' <=> Waiting(c, i)')
    BY <1>1 DEF SentBy, WaitedBy
  <2>3. /\ Cardinality(SentBy(i)) \in Nat /\ Cardinality(WaitedBy(i)) \in Nat
        /\ Cardinality(SentBy(i)') \in Nat /\ Cardinality(WaitedBy(i)') \in Nat
    BY <2>1, ClientsAreFinite
  <2>4. Cardinality(SentBy(i)') = Cardinality(SentBy(i)) - Bit(Sending(c, i)) + Bit(Sending(c, i)')
    <3> DEFINE S == SentBy(i)
               T == SentBy(i)'
    <3>1. S \in SUBSET All /\ T \in SUBSET All /\ T \ {c} = S \ {c}
      BY <2>1, <2>2
    <3>2. /\ (c \in S <=> Sending(c, i)) /\ (c \in T <=> Sending(c, i)')
          /\ Cardinality(S) \in Nat /\ Cardinality(T) \in Nat
      BY <2>2, <2>3
    <3> HIDE DEF S, T
    <3>3. /\ c \in T /\ c \in S => Cardinality(T) = Cardinality(S)
          /\ c \in T /\ c \notin S => Cardinality(T) = Cardinality(S) + 1
          /\ c \notin T /\ c \in S => Cardinality(T) = Cardinality(S) - 1
          /\ c \notin T /\ c \notin S => Cardinality(T) = Cardinality(S)
      BY <3>1, OneChanges
    <3>4. Cardinality(T) = Cardinality(S) - Bit(Sending(c, i)) + Bit(Sending(c, i)')
      BY <3>2, <3>3 DEF Bit
    <3>5. QED BY <3>4 DEF S, T
  <2>5. Cardinality(WaitedBy(i)') = Cardinality(WaitedBy(i)) - Bit(Waiting(c, i)) + Bit(Waiting(c, i)')
    <3> DEFINE S == WaitedBy(i)
               T == WaitedBy(i)'
    <3>1. S \in SUBSET All /\ T \in SUBSET All /\ T \ {c} = S \ {c}
      BY <2>1, <2>2
    <3>2. /\ (c \in S <=> Waiting(c, i)) /\ (c \in T <=> Waiting(c, i)')
          /\ Cardinality(S) \in Nat /\ Cardinality(T) \in Nat
      BY <2>2, <2>3
    <3> HIDE DEF S, T
    <3>3. /\ c \in T /\ c \in S => Cardinality(T) = Cardinality(S)
          /\ c \in T /\ c \notin S => Cardinality(T) = Cardinality(S) + 1
          /\ c \notin T /\ c \in S => Cardinality(T) = Cardinality(S) - 1
          /\ c \notin T /\ c \notin S => Cardinality(T) = Cardinality(S)
      BY <3>1, OneChanges
    <3>4. Cardinality(T) = Cardinality(S) - Bit(Waiting(c, i)) + Bit(Waiting(c, i)')
      BY <3>2, <3>3 DEF Bit
    <3>5. QED BY <3>4 DEF S, T
  <2>6. QED BY <2>3, <2>4, <2>5
<1>3. \A b \in BOOLEAN : Bit(b) \in {0, 1}
  BY DEF Bit
<1>4. \A i \in DOMAIN arrival : /\ Bit(Sending(c, i)) \in {0, 1} /\ Bit(Sending(c, i)') \in {0, 1}
                                /\ Bit(Waiting(c, i)) \in {0, 1} /\ Bit(Waiting(c, i)') \in {0, 1}
  BY DEF Bit
<1>5. \A i \in DOMAIN arrival : /\ Cardinality(SentBy(i)) \in Nat /\ Cardinality(WaitedBy(i)) \in Nat
                                /\ Cardinality(SentBy(i)) + Cardinality(WaitedBy(i)) <= Cardinality(All)
  BY SidesApart
<1>6. \A d \in All, i \in DOMAIN arrival' : ~(Sending(d, i) /\ Waiting(d, i))'
  BY <1>1 DEF Copies
<1>7. ASSUME NEW i \in queue'
      PROVE  received'[arrival'[i]] <= losses' + Cardinality(SentBy(i)')
  <2>1. i \in DOMAIN arrival /\ received[arrival[i]] <= losses + Cardinality(SentBy(i))
    BY <1>0 DEF Copies
  <2>2. QED BY <1>0, <1>2, <1>4, <1>5, <2>1
<1>8. ASSUME NEW i \in DOMAIN arrival' \ queue'
      PROVE  received'[arrival'[i]] + Cardinality(WaitedBy(i)') <= Cardinality(All) + losses'
  <2>1. i \in DOMAIN arrival
    OBVIOUS
  <2>2. CASE i \in queue
    <3>1. received[arrival[i]] <= losses + Cardinality(SentBy(i))
      BY <2>2 DEF Copies
    <3>2. Bit(Waiting(c, i)') <= Bit(Waiting(c, i))
      BY <2>2 DEF Bit
    <3>3. received'[arrival[i]] = received[arrival[i]]
      BY <2>2
    <3>4. QED BY <1>0, <1>2, <1>4, <1>5, <2>1, <3>1, <3>2, <3>3
  <2>3. CASE i \notin queue
    <3>1. received[arrival[i]] + Cardinality(WaitedBy(i)) <= Cardinality(All) + losses
      BY <2>1, <2>3 DEF Copies
    <3>2. received'[arrival[i]] - received[arrival[i]] + Bit(Waiting(c, i)')
                   <= losses' - losses + Bit(Waiting(c, i))
      BY <2>1, <2>3
    <3>3. QED BY <1>0, <1>2, <1>4, <1>5, <2>1, <3>1, <3>2
  <2>4. QED BY <2>2, <2>3
<1>9. Held(DOMAIN arrival)' = Held(DOMAIN arrival)
  BY DEF Held
<1>10. QED BY <1>6, <1>7, <1>8, <1>9 DEF Copies, SentBy, WaitedBy

\* A step that leaves rows and drains alone and commits a queued event only at a loss.
LEMMA CopiesQuiet ==
    ASSUME DeliveryTypeOK, DeliveryTypeOK', Copies, UNCHANGED <<queue, drain, arrival>>,
           losses' >= losses,
           \A i \in DOMAIN arrival : received'[arrival[i]] = received[arrival[i]],
           \A e \in Events \ Held(DOMAIN arrival) :
               /\ received'[e] <= losses' + 1
               /\ fate'[e] \in {"new", "pending"} => received'[e] <= losses'
    PROVE  Copies'
<1>1. Supervisor \in All
  BY DEF All
<1>2. \A i \in DOMAIN arrival : (Sending(Supervisor, i)' <=> Sending(Supervisor, i))
                                /\ (Waiting(Supervisor, i)' <=> Waiting(Supervisor, i))
  BY DEF Sending, Waiting
<1>3. /\ losses \in Nat /\ losses' \in Nat /\ queue \subseteq DOMAIN arrival
      /\ \A i \in DOMAIN arrival : received[arrival[i]] \in Nat
  <2>1. /\ losses \in 0 .. MaxLosses /\ losses' \in 0 .. MaxLosses /\ queue \subseteq DOMAIN arrival
        /\ received \in [Events -> Nat] /\ MaxLosses \in Nat
    BY DeliveryAssumption DEF DeliveryTypeOK
  <2>2. QED BY <2>1, EventsArrive
<1>4. \A i \in DOMAIN arrival : /\ Bit(Sending(Supervisor, i)) = Bit(Sending(Supervisor, i)')
                                /\ Bit(Waiting(Supervisor, i)) = Bit(Waiting(Supervisor, i)')
                                /\ Bit(Sending(Supervisor, i)) \in {0, 1}
                                /\ Bit(Waiting(Supervisor, i)) \in {0, 1}
  BY <1>2 DEF Bit
<1>5. \A i \in DOMAIN arrival : ~(Sending(Supervisor, i)' /\ Waiting(Supervisor, i)')
  BY <1>1, <1>2 DEF Copies
<1>6. \A i \in DOMAIN arrival :
         /\ received'[arrival[i]] - received[arrival[i]] + Bit(Sending(Supervisor, i))
                <= losses' - losses + Bit(Sending(Supervisor, i)')
         /\ received'[arrival[i]] - received[arrival[i]] + Bit(Waiting(Supervisor, i)')
                <= losses' - losses + Bit(Waiting(Supervisor, i))
  BY <1>3, <1>4
<1>7. QED BY <1>1, <1>3, <1>5, <1>6, CopiesMove

\* What is committed from a worker's hands has no row yet.
LEMMA HandCommits ==
    ASSUME DeliveryTypeOK, HandsApart, NEW c \in Clients, Handed(c), Commit(post[c].event)
    PROVE  /\ post[c].event \in Events \ Held(DOMAIN arrival) /\ fate[post[c].event] = "pending"
           /\ \A i \in DOMAIN arrival : received'[arrival[i]] = received[arrival[i]]
           /\ \A e \in Events :
                 received'[e] = IF e = post[c].event THEN received[e] + 1 ELSE received[e]
<1>1. post[c].event \in Events
  BY DEF Handed, DeliveryTypeOK, AtRest
<1>2. post[c].event \notin Held(DOMAIN arrival) /\ fate[post[c].event] = "pending"
  BY DEF HandsApart
<1>3. \A e \in Events : received'[e] = IF e = post[c].event THEN received[e] + 1 ELSE received[e]
  BY <1>1 DEF Commit, DeliveryTypeOK
<1>4. QED BY <1>1, <1>2, <1>3, EventsArrive DEF Held

\* The fate of an event that has no row is decided in its worker's hands, and so
\* are its copies.
LEMMA UnqueuedCopies ==
    ASSUME DeliveryTypeOK, DeliveryTypeOK', Copies, losses' >= losses,
           NEW e \in Events \ Held(DOMAIN arrival),
           fate'[e] \in {"new", "pending"} => fate[e] \in {"new", "pending"},
           received'[e] = received[e] \/ (received'[e] = received[e] + 1 /\ losses' = losses + 1)
    PROVE  /\ received'[e] <= losses' + 1
           /\ fate'[e] \in {"new", "pending"} => received'[e] <= losses'
<1>1. /\ received[e] <= losses + 1 /\ (fate[e] \in {"new", "pending"} => received[e] <= losses)
  BY DEF Copies
<1>2. received[e] \in Nat /\ losses \in Nat /\ losses' \in Nat
  BY DeliveryAssumption DEF DeliveryTypeOK
<1>3. QED BY <1>1, <1>2

\* Every step keeps the count of the duplicates.
LEMMA CopiesKept ==
    ASSUME DeliveryTypeOK, HandsApart, RowsDone, Copies, [DeliveryNext]_deliveryVars
    PROVE  Copies'
<1>0. DeliveryTypeOK'
  BY DeliveryTypesKept
<1>00. /\ received \in [Events -> Nat] /\ losses \in Nat /\ queue \subseteq DOMAIN arrival
       /\ fate \in [Events -> {"new", "pending", "accepted", "refused", "dropped", "abandoned"}]
       /\ \A i \in DOMAIN arrival : arrival[i] \in Events
       /\ drain \in [All -> DrainTypes]
  BY EventsArrive, DeliveryAssumption DEF DeliveryTypeOK, DrainTypes
<1>1. ASSUME NEW c \in Clients, PostAccepted(c) PROVE Copies'
  <2>1. Handed(c) /\ Commit(post[c].event) /\ UNCHANGED <<queue, drain, arrival, losses>>
    BY <1>1 DEF PostAccepted, Handed
  <2>2. /\ post[c].event \in Events \ Held(DOMAIN arrival) /\ fate[post[c].event] = "pending"
        /\ \A i \in DOMAIN arrival : received'[arrival[i]] = received[arrival[i]]
        /\ \A e \in Events :
              received'[e] = IF e = post[c].event THEN received[e] + 1 ELSE received[e]
    BY <2>1, HandCommits
  <2>3. \A e \in Events : fate'[e] = IF e = post[c].event THEN "accepted" ELSE fate[e]
    BY <1>00, <1>1, <2>2 DEF PostAccepted
  <2>4. ASSUME NEW e \in Events \ Held(DOMAIN arrival)
        PROVE  /\ received'[e] <= losses' + 1
               /\ fate'[e] \in {"new", "pending"} => received'[e] <= losses'
    <3>1. /\ received[e] <= losses + 1 /\ (fate[e] \in {"new", "pending"} => received[e] <= losses)
          /\ received[e] \in Nat
      BY <1>00 DEF Copies
    <3>2. QED BY <1>00, <2>1, <2>2, <2>3, <3>1
  <2>5. QED BY <1>0, <1>00, <2>1, <2>2, <2>4, CopiesQuiet
<1>2. ASSUME NEW c \in Clients, PostFailed(c) PROVE Copies'
  <2>1. Handed(c) /\ UNCHANGED <<queue, drain, arrival, fate>> /\ losses' = losses + 1
        /\ (Commit(post[c].event) \/ UNCHANGED received)
    BY <1>2 DEF PostFailed, Handed, Failed, Fault
  <2>2. /\ \A i \in DOMAIN arrival : received'[arrival[i]] = received[arrival[i]]
        /\ \A e \in Events : received'[e] = received[e] \/ received'[e] = received[e] + 1
    BY <2>1, HandCommits
  <2>3. losses' >= losses
    BY <1>00, <2>1
  <2>4. \A e \in Events \ Held(DOMAIN arrival) :
               /\ received'[e] <= losses' + 1
               /\ fate'[e] \in {"new", "pending"} => received'[e] <= losses'
    BY <1>0, <2>1, <2>2, <2>3, UnqueuedCopies
  <2>5. QED BY <1>0, <2>1, <2>2, <2>3, <2>4, CopiesQuiet
<1>3. ASSUME \/ Heartbeat \/ UNCHANGED deliveryVars
             \/ \E c \in Clients : \/ PostRefused(c) \/ Count(c) \/ \E e \in Events : Detect(c, e)
      PROVE  Copies'
  <2>1. UNCHANGED <<queue, drain, arrival, received>> /\ losses' >= losses
    BY <1>00, <1>3 DEF Heartbeat, deliveryVars, PostRefused, Count, Detect, Fault
  <2>2. \A e \in Events : fate'[e] \in {"new", "pending"} => fate[e] \in {"new", "pending"}
    BY <1>00, <1>3 DEF Heartbeat, deliveryVars, PostRefused, Count, Detect
  <2>3. \A e \in Events \ Held(DOMAIN arrival) :
               /\ received'[e] <= losses' + 1
               /\ fate'[e] \in {"new", "pending"} => received'[e] <= losses'
    BY <1>0, <2>1, <2>2, UnqueuedCopies
  <2>4. QED BY <1>0, <2>1, <2>3, CopiesQuiet
<1>4. ASSUME NEW c \in Clients, Insert(c) PROVE Copies'
  <2>1. /\ post[c].event \in Events /\ DOMAIN arrival = 1 .. Len(arrival) /\ Len(arrival) \in Nat
        /\ Len(arrival') = Len(arrival) + 1
        /\ DOMAIN arrival' = DOMAIN arrival \cup {Len(arrival')} /\ Len(arrival') \notin DOMAIN arrival
        /\ arrival'[Len(arrival')] = post[c].event
        /\ \A i \in DOMAIN arrival : arrival'[i] = arrival[i]
        /\ queue' = queue \cup {Len(arrival')}
    BY <1>4, InsertAppends
  <2>2. UNCHANGED <<drain, received, losses, fate>>
    BY <1>4 DEF Insert
  <2>3. post[c].event \notin Held(DOMAIN arrival) /\ fate[post[c].event] = "pending"
    BY <1>4 DEF HandsApart, Handed, Insert
  <2>4. received[post[c].event] <= losses
    BY <2>1, <2>3 DEF Copies
  <2>5. \A i : SentBy(i)' = SentBy(i) /\ WaitedBy(i)' = WaitedBy(i)
    BY <2>2 DEF SentBy, WaitedBy, Sending, Waiting
  <2>6. ASSUME NEW d \in All, NEW i \in DOMAIN arrival' PROVE ~(Sending(d, i) /\ Waiting(d, i))'
    <3>1. CASE i \in DOMAIN arrival
      BY <2>2, <3>1 DEF Copies, Sending, Waiting
    <3>2. CASE i \notin DOMAIN arrival
      <4>1. drain[d].at = "posting" => drain[d].rest \subseteq DOMAIN arrival
        BY CurrentIsLeast
      <4>2. QED BY <2>2, <3>2, <4>1 DEF Waiting
    <3>3. QED BY <3>1, <3>2
  <2>7. ASSUME NEW i \in queue' PROVE received'[arrival'[i]] <= losses' + Cardinality(SentBy(i)')
    <3>1. CASE i \in queue
      BY <1>00, <2>1, <2>2, <2>5, <3>1 DEF Copies
    <3>2. CASE i = Len(arrival')
      <4>1. SentBy(i) \in SUBSET All /\ arrival'[i] = post[c].event
        BY <2>1, <3>2 DEF SentBy
      <4>2. Cardinality(SentBy(i)) \in Nat
        BY <4>1, ClientsAreFinite
      <4>3. received[post[c].event] \in Nat
        BY <1>00, <2>1
      <4>4. QED BY <1>00, <2>2, <2>4, <2>5, <4>1, <4>2, <4>3
    <3>3. QED BY <2>1, <3>1, <3>2
  <2>8. ASSUME NEW i \in DOMAIN arrival' \ queue'
        PROVE received'[arrival'[i]] + Cardinality(WaitedBy(i)') <= Cardinality(All) + losses'
    <3>1. i \in DOMAIN arrival \ queue
      BY <2>1
    <3>2. QED BY <2>1, <2>2, <2>5, <3>1 DEF Copies
  <2>9. Held(DOMAIN arrival) \subseteq Held(DOMAIN arrival)'
    BY <2>1 DEF Held
  <2>10. \A e \in Events \ Held(DOMAIN arrival)' :
          /\ received'[e] <= losses' + 1
          /\ fate'[e] \in {"new", "pending"} => received'[e] <= losses'
    BY <2>2, <2>9 DEF Copies
  <2>11. QED BY <2>6, <2>7, <2>8, <2>10 DEF Copies
<1>5. ASSUME NEW c \in Clients, Trim(c) PROVE Copies'
  <2>1. /\ UNCHANGED <<drain, arrival, received, losses>> /\ queue' \subseteq queue
        /\ \A e \in Events : fate'[e] = fate[e] \/ fate'[e] = "dropped"
    BY <1>00, <1>5 DEF Trim
  <2>2. c \in All /\ \A i \in DOMAIN arrival : /\ Bit(Sending(c, i)) = Bit(Sending(c, i)')
                                /\ Bit(Waiting(c, i)) = Bit(Waiting(c, i)')
                                /\ Bit(Sending(c, i)) \in {0, 1} /\ Bit(Waiting(c, i)) \in {0, 1}
                                /\ (Waiting(c, i)' => Waiting(c, i))
                                /\ ~(Sending(c, i)' /\ Waiting(c, i)')
    BY <2>1 DEF Bit, All, Sending, Waiting, Copies
  <2>3. losses' >= losses
    BY <1>00, <2>1
  <2>4. \A e \in Events \ Held(DOMAIN arrival) :
               /\ received'[e] <= losses' + 1
               /\ fate'[e] \in {"new", "pending"} => received'[e] <= losses'
    BY <1>0, <2>1, <2>3, UnqueuedCopies
  <2>5. \A i \in DOMAIN arrival :
         /\ received'[arrival[i]] - received[arrival[i]] + Bit(Sending(c, i))
                <= losses' - losses + Bit(Sending(c, i)')
         /\ received'[arrival[i]] - received[arrival[i]] + Bit(Waiting(c, i)')
                <= losses' - losses + Bit(Waiting(c, i))
         /\ received'[arrival[i]] = received[arrival[i]]
    <3>1. \A i \in DOMAIN arrival : received[arrival[i]] \in Nat
      BY <1>00
    <3>2. QED BY <1>00, <2>1, <2>2, <3>1
  <2>6. QED BY <1>0, <1>00, <2>1, <2>2, <2>3, <2>4, <2>5, CopiesMove
\* The drains.
<1>6. ASSUME NEW c \in All, UNCHANGED <<queue, arrival>>, \A d \in All : d # c => drain'[d] = drain[d],
             losses' >= losses,
             \A i \in DOMAIN arrival : ~(Sending(c, i)' /\ Waiting(c, i)'),
             \A i \in queue : received'[arrival[i]] - received[arrival[i]] + Bit(Sending(c, i))
                   <= losses' - losses + Bit(Sending(c, i)'),
             \A i \in DOMAIN arrival \ queue :
               received'[arrival[i]] - received[arrival[i]] + Bit(Waiting(c, i)')
                   <= losses' - losses + Bit(Waiting(c, i)),
             \A e \in Events \ Held(DOMAIN arrival) :
                 /\ fate'[e] \in {"new", "pending"} => fate[e] \in {"new", "pending"}
                 /\ \/ received'[e] = received[e]
                    \/ received'[e] = received[e] + 1 /\ losses' = losses + 1
      PROVE  Copies'
  <2>1. \A e \in Events \ Held(DOMAIN arrival) :
               /\ received'[e] <= losses' + 1
               /\ fate'[e] \in {"new", "pending"} => received'[e] <= losses'
    BY <1>0, <1>6, UnqueuedCopies
  <2>2. \A i \in queue \ queue' :
            received'[arrival[i]] = received[arrival[i]] /\ (Waiting(c, i)' => Waiting(c, i))
    BY <1>6
  <2>3. QED BY <1>0, <1>00, <1>6, <2>1, <2>2, CopiesMove
<1>7. ASSUME NEW c \in All, BeginDrain(c) PROVE Copies'
  <2>1. /\ UNCHANGED <<queue, arrival, received, fate, losses>>
        /\ \A d \in All : d # c => drain'[d] = drain[d]
    BY <1>00, <1>7 DEF BeginDrain
  <2>2. \/ drain'[c] = drain[c]
        \/ drain[c] = AtRest /\ drain'[c] = [at |-> "posting", rest |-> Oldest(Batch), sent |-> {}]
    BY <1>00, <1>7 DEF BeginDrain
  <2>3. \A i \in DOMAIN arrival : /\ (Sending(c, i) <=> Sending(c, i)')
                                  /\ (i \notin queue => (Waiting(c, i)' <=> Waiting(c, i)))
                                  /\ ~(Sending(c, i)' /\ Waiting(c, i)')
    <3>1. Oldest(Batch) \subseteq queue
      BY DEF Oldest
    <3>2. QED BY <2>2, <3>1 DEF Sending, Waiting, AtRest, Copies
  <2>4. /\ losses' >= losses
        /\ \A i \in queue : received'[arrival[i]] - received[arrival[i]] + Bit(Sending(c, i))
                   <= losses' - losses + Bit(Sending(c, i)')
        /\ \A i \in DOMAIN arrival \ queue :
               received'[arrival[i]] - received[arrival[i]] + Bit(Waiting(c, i)')
                   <= losses' - losses + Bit(Waiting(c, i))
    BY <1>00, <2>1, <2>3 DEF Bit
  <2>5. QED BY <1>6, <2>1, <2>3, <2>4
<1>8. ASSUME NEW c \in All, drain[c].at = "posting"
      PROVE  /\ CurrentRow(c) \in DOMAIN arrival /\ Current(c) = arrival[CurrentRow(c)]
             /\ CurrentRow(c) \in drain[c].rest /\ Current(c) \in Held(DOMAIN arrival)
             /\ Waiting(c, CurrentRow(c)) /\ ~Sending(c, CurrentRow(c)) /\ Current(c) \in Events
             /\ \A i \in DOMAIN arrival : arrival[i] = Current(c) => i = CurrentRow(c)
  <2>1. /\ CurrentRow(c) \in DOMAIN arrival /\ Current(c) = arrival[CurrentRow(c)]
        /\ CurrentRow(c) \in drain[c].rest /\ Current(c) \in Events
    BY <1>8, CurrentIsLeast
  <2>2. Waiting(c, CurrentRow(c))
    BY <1>8, <2>1 DEF Waiting
  <2>3. QED BY <2>1, <2>2 DEF Copies, HandsApart, Held
<1>9. ASSUME NEW c \in All, drain[c].at = "posting", Advance(c)
      PROVE  /\ \A d \in All : d # c => drain'[d] = drain[d]
             /\ \A i \in DOMAIN arrival :
                   /\ Sending(c, i)' <=> Sending(c, i) \/ i = CurrentRow(c)
                   /\ Waiting(c, i)' <=> Waiting(c, i) /\ i # CurrentRow(c)
                   /\ ~(Sending(c, i)' /\ Waiting(c, i)')
  <2> DEFINE rest == drain[c].rest \ {CurrentRow(c)}
             done == drain[c].sent \cup {CurrentRow(c)}
  <2>1. drain' = [drain EXCEPT ![c] = IF rest = {} THEN [at |-> "deleting", sent |-> done]
                                      ELSE [at |-> "posting", rest |-> rest, sent |-> done]]
    BY <1>9 DEF Advance
  <2>2. \/ drain'[c] = [at |-> "deleting", sent |-> done] /\ rest = {}
        \/ drain'[c] = [at |-> "posting", rest |-> rest, sent |-> done]
    BY <1>00, <2>1
  <2>3. \A i \in DOMAIN arrival :
                   /\ Sending(c, i)' <=> Sending(c, i) \/ i = CurrentRow(c)
                   /\ Waiting(c, i)' <=> Waiting(c, i) /\ i # CurrentRow(c)
    <3>1. \A i : (i \in done <=> i \in drain[c].sent \/ i = CurrentRow(c))
                 /\ (i \in rest <=> i \in drain[c].rest /\ i # CurrentRow(c))
      OBVIOUS
    <3> HIDE DEF rest, done
    <3>2. QED BY <1>9, <2>2, <3>1 DEF Sending, Waiting
  <2>4. \A i \in DOMAIN arrival : ~(Sending(c, i)' /\ Waiting(c, i)')
    BY <2>3 DEF Copies
  <2> HIDE DEF rest, done
  <2>5. QED BY <1>00, <2>1, <2>3, <2>4
<1>10. ASSUME NEW c \in All, DrainAccepted(c) PROVE Copies'
  <2>1. /\ drain[c].at = "posting" /\ Advance(c) /\ UNCHANGED <<queue, arrival, fate, losses>>
        /\ Commit(Current(c))
    BY <1>10 DEF DrainAccepted
  <2>2. \A e \in Events : received'[e] = IF e = Current(c) THEN received[e] + 1 ELSE received[e]
    BY <1>00, <1>8, <2>1 DEF Commit
  <2>3. \A i \in DOMAIN arrival :
            received'[arrival[i]] = IF i = CurrentRow(c) THEN received[arrival[i]] + 1
                                    ELSE received[arrival[i]]
    BY <1>00, <1>8, <2>1, <2>2
  <2>4. \A i \in DOMAIN arrival : received[arrival[i]] \in Nat
    BY <1>00
  <2>5. \A i \in DOMAIN arrival :
            /\ received'[arrival[i]] - received[arrival[i]] + Bit(Sending(c, i))
                   <= losses' - losses + Bit(Sending(c, i)')
            /\ received'[arrival[i]] - received[arrival[i]] + Bit(Waiting(c, i)')
                   <= losses' - losses + Bit(Waiting(c, i))
    <3>1. ASSUME NEW i \in DOMAIN arrival
          PROVE  /\ received'[arrival[i]] - received[arrival[i]] = Bit(i = CurrentRow(c))
                 /\ Bit(Sending(c, i)') = Bit(Sending(c, i)) + Bit(i = CurrentRow(c))
                 /\ Bit(Waiting(c, i)) = Bit(Waiting(c, i)') + Bit(i = CurrentRow(c))
                 /\ Bit(Sending(c, i)) \in {0, 1} /\ Bit(Waiting(c, i)') \in {0, 1}
                 /\ Bit(i = CurrentRow(c)) \in {0, 1}
      BY <1>8, <1>9, <2>1, <2>3, <2>4 DEF Bit
    <3>2. losses' = losses
      BY <2>1
    <3> HIDE DEF Bit
    <3>3. QED BY <1>00, <3>1, <3>2
  <2>6. QED BY <1>00, <1>6, <1>8, <1>9, <2>1, <2>2, <2>5
<1>11. ASSUME NEW c \in All, DrainRefused(c) PROVE Copies'
  <2>1. /\ drain[c].at = "posting" /\ Advance(c) /\ UNCHANGED <<queue, arrival, received>>
        /\ losses' = losses + 1 /\ fate' = [fate EXCEPT ![Current(c)] = "refused"]
    BY <1>11 DEF DrainRefused, Fault
  <2>2. \A e \in Events : fate'[e] \in {"new", "pending"} => fate[e] \in {"new", "pending"}
    BY <1>00, <2>1
  <2>3. \A i \in DOMAIN arrival : received[arrival[i]] \in Nat
    BY <1>00
  <2>4. \A i \in DOMAIN arrival :
            /\ received'[arrival[i]] - received[arrival[i]] + Bit(Sending(c, i))
                   <= losses' - losses + Bit(Sending(c, i)')
            /\ received'[arrival[i]] - received[arrival[i]] + Bit(Waiting(c, i)')
                   <= losses' - losses + Bit(Waiting(c, i))
    <3>1. \A i \in DOMAIN arrival :
              /\ Bit(Sending(c, i)) \in {0, 1} /\ Bit(Sending(c, i)') \in {0, 1}
              /\ Bit(Waiting(c, i)) \in {0, 1} /\ Bit(Waiting(c, i)') \in {0, 1}
      BY DEF Bit
    <3>2. QED BY <1>00, <2>1, <2>3, <3>1
  <2>5. losses' >= losses
    BY <1>00, <2>1
  <2>6. /\ \A d \in All : d # c => drain'[d] = drain[d]
        /\ \A i \in DOMAIN arrival : ~(Sending(c, i)' /\ Waiting(c, i)')
    BY <1>9, <2>1
  <2>7. \A e \in Events \ Held(DOMAIN arrival) :
                 /\ fate'[e] \in {"new", "pending"} => fate[e] \in {"new", "pending"}
                 /\ \/ received'[e] = received[e]
                    \/ received'[e] = received[e] + 1 /\ losses' = losses + 1
    BY <2>1, <2>2
  <2>8. QED BY <1>00, <1>6, <2>1, <2>4, <2>5, <2>6, <2>7
<1>12. ASSUME NEW c \in All, DrainHalted(c) PROVE Copies'
  <2>1. /\ drain[c].at = "posting" /\ UNCHANGED <<queue, arrival, fate>> /\ losses' = losses + 1
        /\ (Commit(Current(c)) \/ UNCHANGED received)
        /\ drain' = [drain EXCEPT ![c] = [at |-> "deleting", sent |-> drain[c].sent]]
    BY <1>12 DEF DrainHalted, Failed, Fault
  <2>2. \A e \in Events : \/ received'[e] = received[e]
                          \/ received'[e] = received[e] + 1
    BY <1>00, <1>8, <2>1 DEF Commit
  <2>3. \A i \in DOMAIN arrival : (Sending(c, i)' <=> Sending(c, i)) /\ ~Waiting(c, i)'
    BY <1>00, <2>1 DEF Sending, Waiting
  <2>4. \A i \in DOMAIN arrival :
            /\ received'[arrival[i]] - received[arrival[i]] + Bit(Sending(c, i))
                   <= losses' - losses + Bit(Sending(c, i)')
            /\ received'[arrival[i]] - received[arrival[i]] + Bit(Waiting(c, i)')
                   <= losses' - losses + Bit(Waiting(c, i))
    <3>1. \A i \in DOMAIN arrival :
              /\ Bit(Sending(c, i)) \in {0, 1} /\ Bit(Sending(c, i)') = Bit(Sending(c, i))
              /\ Bit(Waiting(c, i)) \in {0, 1} /\ Bit(Waiting(c, i)') = 0
              /\ received[arrival[i]] \in Nat
      BY <1>00, <2>3 DEF Bit
    <3>2. \A i \in DOMAIN arrival : \/ received'[arrival[i]] = received[arrival[i]]
                                    \/ received'[arrival[i]] = received[arrival[i]] + 1
      BY <1>00, <2>2
    <3>3. QED BY <1>00, <2>1, <3>1, <3>2
  <2>5. losses' >= losses
    BY <1>00, <2>1
  <2>6. \A d \in All : d # c => drain'[d] = drain[d]
    BY <1>00, <2>1
  <2>7. \A e \in Events \ Held(DOMAIN arrival) :
                 /\ fate'[e] \in {"new", "pending"} => fate[e] \in {"new", "pending"}
                 /\ \/ received'[e] = received[e]
                    \/ received'[e] = received[e] + 1 /\ losses' = losses + 1
    BY <2>1, <2>2
  <2>8. \A i \in DOMAIN arrival : ~(Sending(c, i)' /\ Waiting(c, i)')
    BY <2>3
  <2>9. QED BY <1>00, <1>6, <2>1, <2>4, <2>5, <2>6, <2>7, <2>8
<1>13. ASSUME NEW c \in All, DeleteSent(c) PROVE Copies'
  <2>1. /\ UNCHANGED <<arrival, received, losses>> /\ queue' = queue \ drain[c].sent
        /\ drain[c].at = "deleting" /\ drain' = [drain EXCEPT ![c] = AtRest]
        /\ \A e \in Events : fate'[e] = fate[e] \/ fate'[e] = "accepted"
    BY <1>13 DEF DeleteSent
  <2>2. /\ queue' \subseteq queue /\ losses' >= losses
        /\ \A d \in All : d # c => drain'[d] = drain[d]
    BY <1>00, <2>1
  <2>3. \A i \in DOMAIN arrival : ~Sending(c, i)' /\ ~Waiting(c, i)' /\ ~Waiting(c, i)
    BY <1>00, <2>1 DEF Sending, Waiting, AtRest
  <2>4. \A i \in queue' : ~Sending(c, i)
    BY <2>1 DEF Sending
  <2>5. \A i \in DOMAIN arrival : received[arrival[i]] \in Nat /\ received'[arrival[i]] = received[arrival[i]]
    BY <1>00, <2>1
  <2>6. /\ \A i \in queue' : received'[arrival[i]] - received[arrival[i]] + Bit(Sending(c, i))
                   <= losses' - losses + Bit(Sending(c, i)')
        /\ \A i \in DOMAIN arrival \ queue :
              received'[arrival[i]] - received[arrival[i]] + Bit(Waiting(c, i)')
                   <= losses' - losses + Bit(Waiting(c, i))
    <3>1. \A i \in queue' : Bit(Sending(c, i)) = 0 /\ Bit(Sending(c, i)') = 0 /\ i \in DOMAIN arrival
      BY <1>00, <2>2, <2>3, <2>4 DEF Bit
    <3>2. \A i \in DOMAIN arrival : Bit(Waiting(c, i)) = 0 /\ Bit(Waiting(c, i)') = 0
      BY <2>3 DEF Bit
    <3>3. losses' - losses = 0
      BY <1>00, <2>1
    <3>4. QED BY <2>5, <3>1, <3>2, <3>3
  <2>7. \A e \in Events \ Held(DOMAIN arrival) :
               /\ received'[e] <= losses' + 1
               /\ fate'[e] \in {"new", "pending"} => received'[e] <= losses'
    BY <1>0, <2>1, <2>2, UnqueuedCopies
  <2>8. QED BY <1>0, <1>00, <2>1, <2>2, <2>3, <2>5, <2>6, <2>7, CopiesMove
<1>14. ASSUME NEW c \in Clients, StopWorker(c) PROVE Copies'
  <2>1. /\ UNCHANGED <<queue, arrival>> /\ losses' = losses + 1 /\ c \in All
        /\ drain' = [drain EXCEPT ![c] = AtRest]
    BY <1>14 DEF StopWorker, Fault, All
  <2>2. \/ UNCHANGED received
        \/ Handed(c) /\ Commit(post[c].event)
        \/ drain[c].at = "posting" /\ Commit(Current(c))
    BY <1>14 DEF StopWorker, Handed
  <2>3. /\ \A e \in Events : received'[e] = received[e] \/ received'[e] = received[e] + 1
        /\ \A i \in DOMAIN arrival : received'[arrival[i]] = received[arrival[i]]
                \/ (received'[arrival[i]] = received[arrival[i]] + 1 /\ ~Sending(c, i))
    <3>1. CASE UNCHANGED received
      BY <3>1
    <3>2. CASE Handed(c) /\ Commit(post[c].event)
      BY <1>00, <3>2, HandCommits
    <3>3. CASE drain[c].at = "posting" /\ Commit(Current(c))
      BY <1>00, <1>8, <2>1, <3>3 DEF Commit
    <3>4. QED BY <2>2, <3>1, <3>2, <3>3
  <2>4. \A i \in DOMAIN arrival : ~Sending(c, i)' /\ ~Waiting(c, i)'
    BY <1>00, <2>1 DEF Sending, Waiting, AtRest
  <2>5. \A i \in DOMAIN arrival :
            /\ received'[arrival[i]] - received[arrival[i]] + Bit(Sending(c, i))
                   <= losses' - losses + Bit(Sending(c, i)')
            /\ received'[arrival[i]] - received[arrival[i]] + Bit(Waiting(c, i)')
                   <= losses' - losses + Bit(Waiting(c, i))
    <3>1. \A i \in DOMAIN arrival :
              /\ Bit(Sending(c, i)) \in {0, 1} /\ Bit(Sending(c, i)') = 0
              /\ Bit(Waiting(c, i)) \in {0, 1} /\ Bit(Waiting(c, i)') = 0
              /\ (~Sending(c, i) => Bit(Sending(c, i)) = 0)
              /\ received[arrival[i]] \in Nat
      BY <1>00, <2>4 DEF Bit
    <3>2. losses' - losses = 1
      BY <1>00, <2>1
    <3>3. QED BY <2>3, <3>1, <3>2
  <2>6. \A e \in Events \ Held(DOMAIN arrival) :
            fate'[e] \in {"new", "pending"} => fate[e] \in {"new", "pending"}
    BY <1>00, <1>14 DEF StopWorker
  <2>7. losses' >= losses /\ \A d \in All : d # c => drain'[d] = drain[d]
    BY <1>00, <2>1
  <2>8. \A e \in Events \ Held(DOMAIN arrival) :
                 /\ fate'[e] \in {"new", "pending"} => fate[e] \in {"new", "pending"}
                 /\ \/ received'[e] = received[e]
                    \/ received'[e] = received[e] + 1 /\ losses' = losses + 1
    BY <2>1, <2>3, <2>6
  <2>9. \A i \in DOMAIN arrival : ~(Sending(c, i)' /\ Waiting(c, i)')
    BY <2>4
  <2>10. QED BY <1>00, <1>6, <2>1, <2>5, <2>7, <2>8, <2>9
<1>15. QED
  BY <1>1, <1>2, <1>3, <1>4, <1>5, <1>7, <1>10, <1>11, <1>12, <1>13, <1>14
  DEF DeliveryNext, Post, Drain

DeliveryInv == DeliveryTypeOK /\ HandsApart /\ RowsDone /\ Accounted /\ QueueBounded /\ Copies

\* It holds at first.
LEMMA DeliveryStarts == DeliveryInit => DeliveryInv
<1> SUFFICES ASSUME DeliveryInit PROVE DeliveryInv
  OBVIOUS
<1>1. DeliveryTypeOK
  BY DeliveryAssumption DEF DeliveryInit, DeliveryTypeOK
<1>2. HandsApart
  BY DEF DeliveryInit, HandsApart, Handed, AtRest
<1>3. RowsDone
  BY DEF DeliveryInit, RowsDone, DrainSound, AtRest
<1>4. Accounted
  BY DEF DeliveryInit, Accounted
<1>5. QueueBounded
  <2>1. /\ Cardinality(queue) = 0 /\ Cardinality(Enqueuing) = 0
    BY FS_EmptySet DEF DeliveryInit, Enqueuing, AtRest
  <2>2. QED BY <2>1, DeliveryAssumption DEF QueueBounded, Enqueuing
<1>6. Copies
  BY DEF DeliveryInit, Copies, Sending, Waiting, AtRest
<1>7. QED BY <1>1, <1>2, <1>3, <1>4, <1>5, <1>6 DEF DeliveryInv

\* It says what delivery promises.
LEMMA DeliverySound == DeliveryInv => DeliveryHolds
<1> SUFFICES ASSUME DeliveryInv PROVE DeliveryHolds
  OBVIOUS
<1>1. /\ DeliveryTypeOK /\ HandsApart /\ RowsDone /\ Accounted /\ QueueBounded /\ Copies
      /\ arrival \in Seq(Events) /\ DOMAIN arrival = 1 .. Len(arrival)
  BY DEF DeliveryInv, DeliveryTypeOK
<1>2. ReplayedInOrder
  BY <1>1 DEF ReplayedInOrder, RowsDone, Done
<1>3. ASSUME NEW e \in Events PROVE received[e] <= Cardinality(All) + losses
  <2>1. received[e] \in Nat /\ losses \in Nat /\ Cardinality(All) \in Nat /\ Cardinality(All) > 0
    BY <1>1, ClientsAreFinite, DeliveryAssumption DEF DeliveryTypeOK
  <2>2. CASE e \notin Held(DOMAIN arrival)
    <3>1. received[e] <= losses + 1
      BY <1>1, <2>2 DEF Copies
    <3>2. QED BY <2>1, <3>1
  <2>3. ASSUME NEW i \in DOMAIN arrival, e = arrival[i] PROVE received[e] <= Cardinality(All) + losses
    <3>1. /\ Cardinality(SentBy(i)) \in Nat /\ Cardinality(WaitedBy(i)) \in Nat
          /\ Cardinality(SentBy(i)) + Cardinality(WaitedBy(i)) <= Cardinality(All)
      BY <1>1, SidesApart
    <3>2. \/ received[e] <= losses + Cardinality(SentBy(i))
          \/ received[e] + Cardinality(WaitedBy(i)) <= Cardinality(All) + losses
      BY <1>1, <2>3 DEF Copies
    <3>3. QED BY <2>1, <3>1, <3>2
  <2>4. QED BY <2>2, <2>3 DEF Held
<1>4. QED BY <1>1, <1>2, <1>3 DEF DeliveryHolds, DuplicatesBounded

\* Every event a worker hands over is queued, in hand, committed or given up on the
\* record; queued events are committed in order, and an event no more often than
\* there are drains that can hold it and answers that were lost (offline_queue.py,
\* api_client.py, supervisor.py).
THEOREM QueueIsReliable == Delivery => []DeliveryHolds
<1>1. DeliveryInv /\ [DeliveryNext]_deliveryVars => DeliveryInv'
  BY DeliveryTypesKept, HandsKept, RowsKept, AccountsKept, BoundKept, CopiesKept DEF DeliveryInv
<1>2. QED BY <1>1, DeliveryStarts, DeliverySound, PTL DEF Delivery

-----------------------------------------------------------------------------
(***************************************************************************)
(* AlertLadder.  None of the ladder's invariants is inductive: how often a *)
(* rung was sent depends on the sweeps that have sent it and not committed *)
(* (Senders) and on those that read the history before it was recorded and *)
(* may still send it (May).                                                *)
(***************************************************************************)
AllRungs == {FirstFire} \cup Rungs
SweepType == [active : BOOLEAN, began : 0..MaxTime, todo : SUBSET Alarms,
              event : Alarms \cup {Nobody}, due : SUBSET Rungs,
              rows : SUBSET (Alarms \X Rungs), shut : SUBSET Alarms]

Senders(e, r) == {p \in Processes : <<e, r>> \in sweep[p].rows}
May(e, r) == {p \in Processes : sweep[p].event = e /\ r \in sweep[p].due}

Types ==
    /\ now \in 0..MaxTime /\ failures \in 0..MaxFailures /\ answers \in 0..MaxAnswers
    /\ request \in [Alarms -> {"none", "quiet", "told", "fired", "stored"}]
    /\ born \in [Alarms -> 0..MaxTime] /\ \A e \in Alarms : born[e] <= now
    /\ status \in [Alarms -> Statuses]
    /\ cooldown \in 0..(MaxTime + Cooldown)
    /\ history \subseteq Alarms \X AllRungs
    /\ sent \in [Alarms -> [AllRungs -> Nat]]
    /\ sweep \in [Processes -> SweepType]

\* A sweep has one stored event in hand, and works on none twice.
SweepShape ==
    \A p \in Processes :
        /\ sweep[p].todo \subseteq {e \in Alarms : Stored(e)}
        /\ (sweep[p].event # Nobody) <=> (sweep[p].due # {})
        /\ sweep[p].event # Nobody => Stored(sweep[p].event) /\ sweep[p].event \notin sweep[p].todo
        /\ sweep[p].todo \cap sweep[p].shut = {} /\ sweep[p].event \notin sweep[p].shut
        /\ ~sweep[p].active => sweep[p] = Idle
        /\ \A e \in Alarms, r \in Rungs : <<e, r>> \in sweep[p].rows =>
              /\ Stored(e) /\ e \notin sweep[p].todo
              /\ sweep[p].event = e => r \notin sweep[p].due

\* How often things were sent, before and after they are recorded.
Counted ==
    /\ \A e \in Alarms : sent[e][FirstFire] <= failures + (IF request[e] = "none" THEN 0 ELSE 1)
    /\ \A e \in Alarms, r \in Rungs :
          /\ <<e, r>> \notin history => sent[e][r] <= failures + Cardinality(Senders(e, r))
          /\ <<e, r>> \in history =>
                sent[e][r] + Cardinality(May(e, r)) <= failures + Cardinality(Processes)

\* What is due to be sent is due by the clock, and the rungs below it with it.
Climbing ==
    /\ \A e \in Alarms, r \in Rungs : sent[e][r] > 0 => Stored(e)
    /\ \A p \in Processes : \A r \in sweep[p].due :
          /\ now >= born[sweep[p].event] + Ladder[r]
          /\ \A q \in Rungs : q < r /\ Ladder[q] <= Ladder[r] =>
                q \in sweep[p].due \/ sent[sweep[p].event][q] > 0
    /\ \A p \in Processes : sweep[p].began <= now
    /\ LadderClimbs

\* Behind a cooldown and behind every request there is a notification.
Announced ==
    /\ cooldown > 0 => \E some \in Alarms : sent[some][FirstFire] > 0
    /\ \A e \in Alarms : request[e] # "none" => \E some \in Alarms : sent[some][FirstFire] > 0

Recorded ==
    /\ \A e \in Alarms, r \in AllRungs : <<e, r>> \in history => sent[e][r] > 0
    /\ \A e \in Alarms : request[e] \in {"told", "fired"} => sent[e][FirstFire] > 0
    /\ \A p \in Processes, e \in Alarms, r \in Rungs : <<e, r>> \in sweep[p].rows => sent[e][r] > 0
    /\ failures = 0 => \A e \in Alarms, r \in Rungs :
          sent[e][r] > 0 => <<e, r>> \in history \/ Senders(e, r) # {}

LadderInv == Types /\ SweepShape /\ Counted /\ Climbing /\ Announced /\ Recorded

-----------------------------------------------------------------------------
LEMMA Constants ==
    /\ Rungs \subseteq Nat \ {0} /\ FirstFire \notin Rungs /\ FirstFire \in AllRungs
    /\ Rungs \subseteq AllRungs /\ \A r \in Rungs : Ladder[r] \in Nat
    /\ MaxTime \in Nat /\ MaxFailures \in Nat /\ MaxAnswers \in Nat /\ Cooldown \in Nat \ {0}
    /\ IsFiniteSet(Processes) /\ Nobody \notin Alarms
BY LadderAssumption DEF Rungs, FirstFire, AllRungs

LEMMA IdleIs ==
    /\ Idle \in SweepType
    /\ Idle.active = FALSE /\ Idle.began = 0 /\ Idle.todo = {} /\ Idle.event = Nobody
    /\ Idle.due = {} /\ Idle.rows = {} /\ Idle.shut = {}
<1>1. Idle \in SweepType
  BY Constants DEF Idle, SweepType
<1>2. /\ Idle.active = FALSE /\ Idle.began = 0 /\ Idle.todo = {} /\ Idle.event = Nobody
      /\ Idle.due = {} /\ Idle.rows = {} /\ Idle.shut = {}
  BY DEF Idle
<1>3. QED BY <1>1, <1>2

LEMMA CountsAreNat ==
    ASSUME Types, NEW e \in Alarms, NEW r \in Rungs
    PROVE  /\ IsFiniteSet(Senders(e, r)) /\ IsFiniteSet(May(e, r))
           /\ Senders(e, r) \subseteq Processes /\ May(e, r) \subseteq Processes
           /\ Cardinality(Senders(e, r)) \in Nat /\ Cardinality(May(e, r)) \in Nat
           /\ Cardinality(Processes) \in Nat
           /\ Cardinality(Senders(e, r)) <= Cardinality(Processes)
<1>1. Senders(e, r) \subseteq Processes /\ May(e, r) \subseteq Processes
  BY DEF Senders, May
<1>2. QED BY <1>1, FS_Subset, FS_CardinalityType, Constants

LEMMA LadderInit_Inv == LadderInit => LadderInv
<1> SUFFICES ASSUME LadderInit PROVE LadderInv
  OBVIOUS
<1> USE DEF LadderInit
<1>1. Types
  BY Constants, IdleIs DEF Types, AllRungs, Statuses, Open
<1>2. SweepShape
  BY IdleIs, Constants DEF SweepShape
<1>3. Counted
  <2>1. ASSUME NEW e \in Alarms, NEW r \in Rungs
        PROVE  sent[e][r] <= failures + Cardinality(Senders(e, r)) /\ <<e, r>> \notin history
    BY <1>1, CountsAreNat DEF AllRungs
  <2>2. \A e \in Alarms : sent[e][FirstFire] = 0
    BY Constants DEF AllRungs
  <2>3. QED BY <2>1, <2>2 DEF Counted
<1>4. Climbing
  BY IdleIs, Constants DEF Climbing, LadderClimbs, AllRungs
<1>5. Announced
  BY DEF Announced
<1>6. Recorded
  BY IdleIs, Constants DEF Recorded, AllRungs
<1>7. QED BY <1>1, <1>2, <1>3, <1>4, <1>5, <1>6 DEF LadderInv

-----------------------------------------------------------------------------
(* Ingestion: the sweeps stay as they are, and the rungs' counts with them. *)

LEMMA RequestMoves ==
    ASSUME LadderInv, Types', NEW e \in Alarms,
           UNCHANGED <<now, status, sweep>>, failures <= failures',
           failures' = 0 => failures = 0,
           request[e] # "stored",
           \A d \in Alarms : d # e => request'[d] = request[d] /\ born'[d] = born[d],
           request'[e] = "stored" => born'[e] = born[e],
           \A d \in Alarms, r \in Rungs : sent'[d][r] = sent[d][r],
           \A d \in Alarms : sent'[d][FirstFire] >= sent[d][FirstFire]
    PROVE  SweepShape' /\ Climbing'
<1>1. \A d \in Alarms : Stored(d) => Stored(d)' /\ born'[d] = born[d] /\ d # e
  BY DEF Stored
<1>2. SweepShape'
  BY <1>1, IdleIs DEF LadderInv, Types, SweepShape, SweepType
<1>3. \A d \in Alarms, r \in Rungs : sent[d][r] > 0 => Stored(d)
  BY DEF LadderInv, Climbing
<1>4. \A d \in Alarms, r \in Rungs :
        sent'[d][r] > 0 =>
            /\ now' >= born'[d] + Ladder[r]
            /\ \A q \in Rungs : q < r /\ Ladder[q] <= Ladder[r] => sent'[d][q] > 0
  BY <1>1, <1>3 DEF LadderInv, Climbing, LadderClimbs
<1>5. ASSUME NEW p \in Processes, NEW r \in sweep[p].due
      PROVE  /\ now' >= born'[sweep[p].event] + Ladder[r]
             /\ \A q \in Rungs : q < r /\ Ladder[q] <= Ladder[r] =>
                   q \in sweep[p].due \/ sent'[sweep[p].event][q] > 0
  <2>1. sweep[p].event \in Alarms /\ Stored(sweep[p].event) /\ sweep[p].due \subseteq Rungs
    BY DEF LadderInv, Types, SweepShape, SweepType
  <2>2. born'[sweep[p].event] = born[sweep[p].event]
    BY <1>1, <2>1
  <2>3. QED BY <2>1, <2>2 DEF LadderInv, Climbing
<1>6. \A d \in Alarms, r \in Rungs : sent'[d][r] > 0 => Stored(d)'
  BY <1>1, <1>3
<1>7. \A p \in Processes : sweep'[p].began <= now'
  BY DEF LadderInv, Climbing
<1>8. Climbing'
  BY <1>4, <1>5, <1>6, <1>7 DEF Climbing, LadderClimbs
<1>9. QED BY <1>2, <1>8

LEMMA SameCounts ==
    ASSUME LadderInv, Types', UNCHANGED sweep, failures' = failures \/ failures' = failures + 1,
           \A d \in Alarms, r \in Rungs : sent'[d][r] = sent[d][r],
           \A d \in Alarms, r \in Rungs : <<d, r>> \in history' => <<d, r>> \in history,
           history \subseteq history'
    PROVE  \A d \in Alarms, r \in Rungs :
              /\ <<d, r>> \notin history' => sent'[d][r] <= failures' + Cardinality(Senders(d, r)')
              /\ <<d, r>> \in history' =>
                    sent'[d][r] + Cardinality(May(d, r)') <= failures' + Cardinality(Processes)
<1> SUFFICES ASSUME NEW d \in Alarms, NEW r \in Rungs
             PROVE  /\ <<d, r>> \notin history' => sent'[d][r] <= failures' + Cardinality(Senders(d, r)')
                    /\ <<d, r>> \in history' =>
                          sent'[d][r] + Cardinality(May(d, r)') <= failures' + Cardinality(Processes)
  OBVIOUS
<1>1. Senders(d, r)' = Senders(d, r) /\ May(d, r)' = May(d, r)
  BY DEF Senders, May
<1>2. /\ Cardinality(Senders(d, r)) \in Nat /\ Cardinality(May(d, r)) \in Nat
      /\ Cardinality(Processes) \in Nat /\ failures \in Nat /\ sent[d][r] \in Nat
  <2>1. Types
    BY DEF LadderInv
  <2>2. failures \in Nat /\ sent[d][r] \in Nat
    BY <2>1, Constants DEF Types
  <2>3. QED BY <2>1, <2>2, CountsAreNat
<1>3. CASE <<d, r>> \in history
  <2>1. sent[d][r] + Cardinality(May(d, r)) <= failures + Cardinality(Processes)
    BY <1>3 DEF LadderInv, Counted
  <2>2. QED BY <1>1, <1>2, <1>3, <2>1
<1>4. CASE <<d, r>> \notin history
  <2>1. sent[d][r] <= failures + Cardinality(Senders(d, r)) /\ <<d, r>> \notin history'
    BY <1>4 DEF LadderInv, Counted
  <2>2. QED BY <1>1, <1>2, <2>1
<1>5. QED BY <1>3, <1>4

LEMMA Evaluate_Inv == ASSUME LadderInv, NEW e \in Alarms, Evaluate(e) PROVE LadderInv'
<1>1. /\ request[e] = "none" /\ UNCHANGED <<now, status, cooldown, history, sweep, failures, answers>>
      /\ \E t \in 0..now : born' = [born EXCEPT ![e] = t]
  BY DEF Evaluate
<1>2. \/ /\ cooldown > now /\ request' = [request EXCEPT ![e] = "quiet"] /\ UNCHANGED sent
      \/ /\ request' = [request EXCEPT ![e] = "told"]
         /\ sent' = [sent EXCEPT ![e] = [sent[e] EXCEPT ![FirstFire] = @ + 1]]
  BY DEF Evaluate
<1>3. Types'
  <2>1. born' \in [Alarms -> 0..MaxTime] /\ \A d \in Alarms : born'[d] <= now
    BY <1>1, Constants DEF LadderInv, Types
  <2>2. request' \in [Alarms -> {"none", "quiet", "told", "fired", "stored"}]
    BY <1>2 DEF LadderInv, Types
  <2>3. sent' \in [Alarms -> [AllRungs -> Nat]]
    BY <1>2, Constants DEF LadderInv, Types
  <2>4. QED BY <1>1, <2>1, <2>2, <2>3 DEF LadderInv, Types
<1>4. /\ \A d \in Alarms, r \in Rungs : sent'[d][r] = sent[d][r]
      /\ \A d \in Alarms : d # e => sent'[d][FirstFire] = sent[d][FirstFire]
      /\ \/ cooldown > now /\ request'[e] = "quiet" /\ sent'[e][FirstFire] = sent[e][FirstFire]
         \/ request'[e] = "told" /\ sent'[e][FirstFire] = sent[e][FirstFire] + 1
      /\ \A d \in Alarms : sent[d][FirstFire] \in Nat /\ sent'[d][FirstFire] >= sent[d][FirstFire]
  BY <1>1, <1>2, Constants DEF LadderInv, Types
<1>5. \A d \in Alarms : d # e => request'[d] = request[d] /\ born'[d] = born[d]
  BY <1>1, <1>2 DEF LadderInv, Types
<1>6. failures \in Nat /\ now \in Nat /\ cooldown \in Nat
  BY Constants DEF LadderInv, Types
<1>7. SweepShape' /\ Climbing'
  BY <1>1, <1>3, <1>4, <1>5, <1>6, RequestMoves
<1>8. Counted'
  <2>1. \A d \in Alarms : sent'[d][FirstFire] <= failures' + (IF request'[d] = "none" THEN 0 ELSE 1)
    BY <1>1, <1>4, <1>5, <1>6 DEF LadderInv, Counted
  <2>2. QED BY <1>1, <1>3, <1>4, <2>1, SameCounts DEF Counted
<1>9. Announced'
  BY <1>1, <1>4, <1>5, <1>6 DEF LadderInv, Announced
<1>10. Recorded'
  <2>1. \A d \in Alarms, r \in AllRungs : sent[d][r] > 0 => sent'[d][r] > 0
    BY <1>4 DEF AllRungs
  <2>2. QED BY <1>1, <1>4, <1>5, <2>1, Constants DEF LadderInv, Types, SweepType, Recorded, Senders
<1>11. QED BY <1>3, <1>7, <1>8, <1>9, <1>10 DEF LadderInv

\* What the rest of a request does: it tells nobody anything new.
LEMMA RequestGoesOn ==
    ASSUME LadderInv, NEW e \in Alarms, NEW to,
           to \in {"none", "fired", "stored"},
           request[e] \in {"quiet", "told", "fired"}, to = "fired" => request[e] = "told",
           request' = [request EXCEPT ![e] = to],
           failures' = IF to = "none" THEN failures + 1 ELSE failures,
           failures' <= MaxFailures,
           born' = born \/ (to = "none" /\ born' = [born EXCEPT ![e] = 0]),
           cooldown' = cooldown \/ cooldown' = now + Cooldown,
           history' = history \/ (request[e] = "fired" /\ history' = history \cup {<<e, FirstFire>>}),
           UNCHANGED <<now, status, sent, sweep, answers>>
    PROVE  LadderInv'
<1>0. failures \in Nat /\ failures' \in 0..MaxFailures
  BY Constants DEF LadderInv, Types
<1>1. /\ request' \in [Alarms -> {"none", "quiet", "told", "fired", "stored"}]
      /\ request'[e] = to /\ \A d \in Alarms : d # e => request'[d] = request[d]
  BY DEF LadderInv, Types
<1>2. /\ born' \in [Alarms -> 0..MaxTime] /\ \A d \in Alarms : born'[d] <= now
      /\ \A d \in Alarms : d # e => born'[d] = born[d]
      /\ to # "none" => born' = born
  BY Constants DEF LadderInv, Types
<1>3. /\ history' \subseteq Alarms \X AllRungs /\ history \subseteq history'
      /\ \A d \in Alarms, r \in Rungs : <<d, r>> \in history' => <<d, r>> \in history
      /\ \A d \in Alarms : <<d, FirstFire>> \in history' =>
            <<d, FirstFire>> \in history \/ (d = e /\ request[e] = "fired")
  BY Constants DEF LadderInv, Types
<1>4. cooldown' \in 0..(MaxTime + Cooldown)
  BY Constants DEF LadderInv, Types
<1>5. Types'
  BY <1>0, <1>1, <1>2, <1>3, <1>4 DEF LadderInv, Types
<1>6. SweepShape' /\ Climbing'
  <2>1. request[e] # "stored" /\ (request'[e] = "stored" => born'[e] = born[e])
    BY <1>1, <1>2
  <2>2. \A d \in Alarms : sent[d][FirstFire] >= sent[d][FirstFire]
    BY Constants DEF LadderInv, Types
  <2>3. failures <= failures' /\ (failures' = 0 => failures = 0)
    BY <1>0
  <2>4. QED BY <1>1, <1>2, <1>5, <2>1, <2>2, <2>3, RequestMoves
<1>7. Counted'
  <2>1. \A d \in Alarms : sent'[d][FirstFire] <= failures' + (IF request'[d] = "none" THEN 0 ELSE 1)
    <3> SUFFICES ASSUME NEW d \in Alarms
                 PROVE  sent[d][FirstFire] <= failures' + (IF request'[d] = "none" THEN 0 ELSE 1)
      OBVIOUS
    <3>1. /\ sent[d][FirstFire] \in Nat
          /\ sent[d][FirstFire] <= failures + (IF request[d] = "none" THEN 0 ELSE 1)
      BY Constants DEF LadderInv, Types, Counted
    <3>2. CASE d = e
      BY <1>0, <1>1, <3>1, <3>2
    <3>3. CASE d # e
      BY <1>0, <1>1, <3>1, <3>3
    <3>4. QED BY <3>2, <3>3
  <2>2. failures' = failures \/ failures' = failures + 1
    OBVIOUS
  <2>3. QED BY <1>3, <1>5, <2>1, <2>2, SameCounts DEF Counted
<1>8. Announced'
  <2>1. \E some \in Alarms : sent[some][FirstFire] > 0
    BY DEF LadderInv, Announced
  <2>2. QED BY <2>1 DEF Announced
<1>9. Recorded'
  <2>1. \A d \in Alarms, r \in AllRungs : <<d, r>> \in history' => sent'[d][r] > 0
    BY <1>3 DEF LadderInv, Recorded, AllRungs
  <2>2. \A d \in Alarms : request'[d] \in {"told", "fired"} => sent'[d][FirstFire] > 0
    BY <1>1 DEF LadderInv, Recorded
  <2>3. \A p \in Processes, d \in Alarms, r \in Rungs : <<d, r>> \in sweep'[p].rows => sent'[d][r] > 0
    BY DEF LadderInv, Recorded
  <2>4. ASSUME failures' = 0, NEW d \in Alarms, NEW r \in Rungs, sent'[d][r] > 0
        PROVE  <<d, r>> \in history' \/ Senders(d, r)' # {}
    BY <1>0, <1>3, <2>4 DEF LadderInv, Recorded, Senders
  <2>5. QED BY <2>1, <2>2, <2>3, <2>4 DEF Recorded
<1>10. QED BY <1>5, <1>6, <1>7, <1>8, <1>9 DEF LadderInv

LEMMA Request_Inv ==
    ASSUME LadderInv, NEW e \in Alarms, SetCooldown(e) \/ CommitEvent(e) \/ FailRequest(e)
    PROVE  LadderInv'
<1>0. failures \in Nat /\ failures <= MaxFailures /\ MaxFailures \in Nat
  BY Constants DEF LadderInv, Types
<1>1. CASE SetCooldown(e)
  <2>1. /\ request[e] = "told" /\ request' = [request EXCEPT ![e] = "fired"]
        /\ cooldown' = now + Cooldown
        /\ UNCHANGED <<now, born, status, history, sent, sweep, failures, answers>>
    BY <1>1 DEF SetCooldown
  <2>2. QED BY <1>0, <2>1, RequestGoesOn
<1>2. CASE CommitEvent(e)
  <2>1. /\ request[e] \in {"quiet", "fired"} /\ request' = [request EXCEPT ![e] = "stored"]
        /\ history' = history \/ (request[e] = "fired" /\ history' = history \cup {<<e, FirstFire>>})
        /\ UNCHANGED <<now, born, status, cooldown, sent, sweep, failures, answers>>
    BY <1>2 DEF CommitEvent
  <2>2. QED BY <1>0, <2>1, RequestGoesOn
<1>3. CASE FailRequest(e)
  <2>1. /\ request[e] \in {"quiet", "told", "fired"} /\ request' = [request EXCEPT ![e] = "none"]
        /\ failures' = failures + 1 /\ failures < MaxFailures
        /\ born' = [born EXCEPT ![e] = 0]
        /\ UNCHANGED <<now, status, cooldown, history, sent, sweep, answers>>
    BY <1>3 DEF FailRequest
  <2>2. failures' <= MaxFailures
    BY <1>0, <2>1
  <2>3. QED BY <2>1, <2>2, RequestGoesOn
<1>4. QED BY <1>1, <1>2, <1>3

-----------------------------------------------------------------------------
(* The clock and the operators.                                             *)

LEMMA Tick_Inv == ASSUME LadderInv, Tick \/ UNCHANGED ladderVars PROVE LadderInv'
<1>1. /\ UNCHANGED <<request, born, status, cooldown, history, sent, sweep, failures, answers>>
      /\ now' \in 0..MaxTime /\ now <= now' /\ now \in Nat
  BY Constants DEF Tick, ladderVars, LadderInv, Types
<1>2. Types'
  BY <1>1, Constants DEF LadderInv, Types
<1>3. SweepShape' /\ Counted' /\ Announced' /\ Recorded'
  BY <1>1 DEF LadderInv, SweepShape, Stored, Counted, Announced, Recorded, Senders, May
<1>4. ASSUME NEW x \in Nat, now >= x PROVE now' >= x
  BY <1>1, <1>4, Constants
<1>5. \A p \in Processes : sweep'[p].began <= now'
  <2> SUFFICES ASSUME NEW p \in Processes PROVE sweep[p].began <= now'
    BY <1>1
  <2>1. sweep[p].began \in Nat /\ sweep[p].began <= now
    BY Constants DEF LadderInv, Types, SweepType, Climbing
  <2>2. QED BY <1>1, <2>1, Constants
<1>6. \A d \in Alarms, r \in Rungs : born[d] + Ladder[r] \in Nat
  BY Constants DEF LadderInv, Types
<1>7. LadderClimbs'
  BY <1>1, <1>4, <1>6 DEF LadderInv, Climbing, LadderClimbs
<1>8. ASSUME NEW p \in Processes, NEW r \in sweep[p].due
      PROVE  now' >= born[sweep[p].event] + Ladder[r]
  <2>1. sweep[p].event \in Alarms /\ r \in Rungs
    BY DEF LadderInv, Types, SweepShape, SweepType
  <2>2. QED BY <1>4, <1>6, <2>1 DEF LadderInv, Climbing
<1>9. Climbing'
  BY <1>1, <1>5, <1>7, <1>8 DEF LadderInv, Climbing, Stored
<1>10. QED BY <1>2, <1>3, <1>9 DEF LadderInv

LEMMA SetStatus_Inv ==
    ASSUME LadderInv, NEW e \in Alarms, NEW st \in Statuses, SetStatus(e, st) PROVE LadderInv'
<1>1. /\ status' = [status EXCEPT ![e] = st] /\ answers < MaxAnswers /\ answers' = answers + 1
      /\ UNCHANGED <<now, request, born, cooldown, history, sent, failures>>
      /\ sweep' = [p \in Processes |-> IF st = Open THEN [sweep[p] EXCEPT !.shut = @ \ {e}]
                                       ELSE sweep[p]]
  BY DEF SetStatus
<1>2. ASSUME NEW p \in Processes
      PROVE  /\ sweep'[p] \in SweepType
             /\ sweep'[p].active = sweep[p].active /\ sweep'[p].began = sweep[p].began
             /\ sweep'[p].todo = sweep[p].todo /\ sweep'[p].event = sweep[p].event
             /\ sweep'[p].due = sweep[p].due /\ sweep'[p].rows = sweep[p].rows
             /\ sweep'[p].shut \subseteq sweep[p].shut
             /\ sweep[p] = Idle => sweep'[p] = Idle
  <2> DEFINE w == [sweep[p] EXCEPT !.shut = @ \ {e}]
  <2>1. sweep[p] \in SweepType /\ sweep[p].shut \ {e} \in SUBSET Alarms
    BY DEF LadderInv, Types, SweepType
  <2>2. w \in SweepType
    BY <2>1, Zenon DEF SweepType
  <2>3. /\ w.active = sweep[p].active /\ w.began = sweep[p].began
        /\ w.todo = sweep[p].todo /\ w.event = sweep[p].event
        /\ w.due = sweep[p].due /\ w.rows = sweep[p].rows
        /\ w.shut = sweep[p].shut \ {e}
    BY <2>1 DEF SweepType
  <2>4. sweep[p] = Idle => w = Idle
    <3>0. Idle.shut \ {e} = {}
      BY DEF Idle
    <3>1. [Idle EXCEPT !.shut = {}] = [Idle EXCEPT !.shut = Idle.shut]
      BY DEF Idle
    <3>2. [Idle EXCEPT !.shut = Idle.shut] = Idle
      BY IdleIs DEF SweepType
    <3>3. QED BY <3>0, <3>1, <3>2
  <2>5. sweep'[p] = w \/ sweep'[p] = sweep[p]
    BY <1>1
  <2> HIDE DEF w
  <2>6. CASE sweep'[p] = w
    BY <2>2, <2>3, <2>4, <2>6
  <2>7. CASE sweep'[p] = sweep[p]
    BY <2>1, <2>7
  <2>8. QED BY <2>5, <2>6, <2>7
<1>3. Types'
  <2>1. sweep' \in [Processes -> SweepType]
    BY <1>1, <1>2
  <2>2. answers' \in 0..MaxAnswers /\ status' \in [Alarms -> Statuses]
    BY <1>1, Constants DEF LadderInv, Types
  <2>3. QED BY <1>1, <2>1, <2>2 DEF LadderInv, Types
<1>4. SweepShape'
  <2>1. ASSUME NEW p \in Processes, ~sweep'[p].active PROVE sweep'[p] = Idle
    <3>1. ~sweep[p].active
      BY <1>2, <2>1
    <3>2. sweep[p] = Idle
      BY <3>1 DEF LadderInv, SweepShape
    <3>3. QED BY <1>2, <3>2
  <2>2. \A p \in Processes :
           /\ sweep'[p].todo \subseteq {d \in Alarms : request[d] = "stored"}
           /\ sweep'[p].event # Nobody =>
                 request[sweep'[p].event] = "stored" /\ sweep'[p].event \notin sweep'[p].todo
           /\ sweep'[p].todo \cap sweep'[p].shut = {} /\ sweep'[p].event \notin sweep'[p].shut
    BY <1>2 DEF LadderInv, SweepShape, Stored
  <2>3. \A p \in Processes : (sweep'[p].event # Nobody) <=> (sweep'[p].due # {})
    BY <1>2 DEF LadderInv, SweepShape
  <2>4. \A p \in Processes, d \in Alarms, r \in Rungs : <<d, r>> \in sweep'[p].rows =>
           /\ request[d] = "stored" /\ d \notin sweep'[p].todo
           /\ sweep'[p].event = d => r \notin sweep'[p].due
    BY <1>2 DEF LadderInv, SweepShape, Stored
  <2>5. QED BY <1>1, <2>1, <2>2, <2>3, <2>4, ZenonT(30) DEF SweepShape, Stored
<1>5. \A d \in Alarms, r \in Rungs : Senders(d, r)' = Senders(d, r) /\ May(d, r)' = May(d, r)
  BY <1>2 DEF Senders, May
<1>6. Counted'
  BY <1>1, <1>5 DEF LadderInv, Counted
<1>7. Climbing'
  BY <1>1, <1>2 DEF LadderInv, Climbing, LadderClimbs, Stored
<1>8. Announced'
  BY <1>1 DEF LadderInv, Announced
<1>9. Recorded'
  BY <1>1, <1>2, <1>5 DEF LadderInv, Recorded
<1>10. QED BY <1>3, <1>4, <1>6, <1>7, <1>8, <1>9 DEF LadderInv

-----------------------------------------------------------------------------
(* The sweeps.                                                              *)

\* A sweep ends, committed or not: what it sent is recorded, or a failure is counted.
LEMMA SweepEnds ==
    ASSUME LadderInv, NEW p \in Processes, sweep' = [sweep EXCEPT ![p] = Idle],
           \/ /\ sweep[p].event = Nobody
              /\ history' = history \cup sweep[p].rows /\ failures' = failures
           \/ history' = history /\ failures' = failures + 1 /\ failures < MaxFailures,
           UNCHANGED <<now, request, born, status, cooldown, sent, answers>>
    PROVE  LadderInv'
<1>0. failures \in Nat /\ failures' \in 0..MaxFailures /\ failures' \in Nat /\ now \in Nat
  BY Constants DEF LadderInv, Types
<1>1. /\ sweep'[p] = Idle /\ \A q \in Processes : q # p => sweep'[q] = sweep[q]
      /\ sweep' \in [Processes -> SweepType]
  BY IdleIs DEF LadderInv, Types
<1>2. Types'
  <2>1. sweep[p].rows \subseteq Alarms \X AllRungs
    <3>1. sweep[p].rows \subseteq Alarms \X Rungs
      BY DEF LadderInv, Types, SweepType
    <3>2. QED BY <3>1, Constants
  <2>2. history' \subseteq Alarms \X AllRungs
    BY <2>1 DEF LadderInv, Types
  <2>3. QED BY <1>0, <1>1, <2>2 DEF LadderInv, Types
<1>3. SweepShape'
  BY <1>1, IdleIs, Constants DEF LadderInv, SweepShape, Stored
<1>4. ASSUME NEW d \in Alarms, NEW r \in Rungs
      PROVE  /\ <<d, r>> \notin history' => sent'[d][r] <= failures' + Cardinality(Senders(d, r)')
             /\ <<d, r>> \in history' =>
                   sent'[d][r] + Cardinality(May(d, r)') <= failures' + Cardinality(Processes)
  <2>1. /\ Senders(d, r)' = Senders(d, r) \ {p} /\ May(d, r)' = May(d, r) \ {p}
        /\ p \in Senders(d, r) <=> <<d, r>> \in sweep[p].rows
    BY <1>1, IdleIs DEF Senders, May
  <2>2. /\ IsFiniteSet(Senders(d, r)) /\ IsFiniteSet(May(d, r))
        /\ Senders(d, r) \subseteq Processes /\ May(d, r) \subseteq Processes
        /\ Cardinality(Senders(d, r)) \in Nat /\ Cardinality(May(d, r)) \in Nat
        /\ Cardinality(Processes) \in Nat /\ sent[d][r] \in Nat
    <3>1. Types
      BY DEF LadderInv
    <3>2. sent[d][r] \in Nat
      BY <3>1, Constants DEF Types
    <3>3. QED BY <3>1, <3>2, CountsAreNat
  <2>3. /\ Cardinality(Senders(d, r)') =
              IF p \in Senders(d, r) THEN Cardinality(Senders(d, r)) - 1 ELSE Cardinality(Senders(d, r))
        /\ Cardinality(May(d, r)') =
              IF p \in May(d, r) THEN Cardinality(May(d, r)) - 1 ELSE Cardinality(May(d, r))
    BY <2>1, <2>2, FS_RemoveElement
  <2>4. CASE <<d, r>> \in history
    <3>1. sent[d][r] + Cardinality(May(d, r)) <= failures + Cardinality(Processes)
          /\ <<d, r>> \in history'
      BY <2>4 DEF LadderInv, Counted
    <3>2. QED BY <1>0, <2>2, <2>3, <3>1
  <2>5. CASE <<d, r>> \notin history
    <3>1. sent[d][r] <= failures + Cardinality(Senders(d, r))
      BY <2>5 DEF LadderInv, Counted
    <3>2. CASE <<d, r>> \in history'
      <4>1. p \in Senders(d, r) /\ p \notin May(d, r) /\ failures' = failures
        BY <2>1, <2>5, <3>2, Constants DEF May
      <4>2. Senders(d, r) \cap May(d, r) = {}
        BY DEF Senders, May, LadderInv, SweepShape
      <4>3. Cardinality(Senders(d, r) \cup May(d, r)) = Cardinality(Senders(d, r)) + Cardinality(May(d, r))
        BY <2>2, <4>2, FS_Union, FS_EmptySet, SMTT(30)
      <4>4. Cardinality(Senders(d, r) \cup May(d, r)) <= Cardinality(Processes)
        BY <2>2, FS_Subset, Constants
      <4>5. May(d, r)' = May(d, r)
        BY <2>1, <4>1
      <4>6. QED BY <1>0, <2>2, <3>1, <3>2, <4>1, <4>3, <4>4, <4>5
    <3>3. CASE <<d, r>> \notin history'
      <4>1. p \in Senders(d, r) => failures' = failures + 1
        BY <2>1, <3>3
      <4>2. failures' = failures \/ failures' = failures + 1
        OBVIOUS
      <4>3. QED BY <1>0, <2>2, <2>3, <3>1, <3>3, <4>1, <4>2
    <3>4. QED BY <3>2, <3>3
  <2>6. QED BY <2>4, <2>5
<1>5. Counted'
  <2>1. ASSUME NEW d \in Alarms
        PROVE  sent[d][FirstFire] <= failures' + (IF request[d] = "none" THEN 0 ELSE 1)
    <3>1. /\ sent[d][FirstFire] \in Nat
          /\ sent[d][FirstFire] <= failures + (IF request[d] = "none" THEN 0 ELSE 1)
      BY Constants DEF LadderInv, Types, Counted
    <3>2. failures <= failures'
      BY <1>0
    <3>3. QED BY <1>0, <3>1, <3>2
  <2>2. QED BY <1>4, <2>1 DEF Counted
<1>6. Climbing'
  <2>1. LadderClimbs' /\ \A d \in Alarms, r \in Rungs : sent'[d][r] > 0 => Stored(d)'
    BY DEF LadderInv, Climbing, LadderClimbs, Stored
  <2>2. \A q \in Processes : sweep'[q].began <= now'
    BY <1>0, <1>1, IdleIs DEF LadderInv, Climbing
  <2>3. ASSUME NEW q \in Processes, NEW r \in sweep'[q].due
        PROVE  /\ now' >= born'[sweep'[q].event] + Ladder[r]
               /\ \A k \in Rungs : k < r /\ Ladder[k] <= Ladder[r] =>
                     k \in sweep'[q].due \/ sent'[sweep'[q].event][k] > 0
    <3>1. q # p /\ sweep'[q] = sweep[q]
      BY <1>1, <2>3, IdleIs
    <3>2. QED BY <2>3, <3>1 DEF LadderInv, Climbing
  <2>4. QED BY <2>1, <2>2, <2>3 DEF Climbing
<1>7. Announced'
  BY DEF LadderInv, Announced
<1>8. Recorded'
  <2>1. ASSUME NEW d \in Alarms, NEW r \in AllRungs, <<d, r>> \in history' PROVE sent[d][r] > 0
    <3>1. CASE <<d, r>> \in history
      BY <3>1 DEF LadderInv, Recorded
    <3>2. CASE <<d, r>> \in sweep[p].rows
      <4>1. r \in Rungs
        BY <3>2 DEF LadderInv, Types, SweepType
      <4>2. QED BY <3>2, <4>1 DEF LadderInv, Recorded
    <3>3. QED BY <2>1, <3>1, <3>2
  <2>2. \A q \in Processes, d \in Alarms, r \in Rungs : <<d, r>> \in sweep'[q].rows => sent[d][r] > 0
    BY <1>1, IdleIs DEF LadderInv, Recorded
  <2>3. ASSUME failures' = 0, NEW d \in Alarms, NEW r \in Rungs, sent[d][r] > 0
        PROVE  <<d, r>> \in history' \/ Senders(d, r)' # {}
    <3>1. failures = 0 /\ history' = history \cup sweep[p].rows
      BY <1>0, <2>3
    <3>2. <<d, r>> \in history \/ Senders(d, r) # {}
      BY <2>3, <3>1 DEF LadderInv, Recorded
    <3>3. CASE <<d, r>> \in history
      BY <3>1, <3>3
    <3>4. ASSUME NEW q \in Senders(d, r) PROVE <<d, r>> \in history' \/ Senders(d, r)' # {}
      BY <1>1, <3>1, <3>4 DEF Senders
    <3>5. QED BY <3>2, <3>3, <3>4
  <2>4. \A d \in Alarms : request[d] \in {"told", "fired"} => sent[d][FirstFire] > 0
    BY DEF LadderInv, Recorded
  <2>5. QED BY <2>1, <2>2, <2>3, <2>4 DEF Recorded
<1>9. QED BY <1>2, <1>3, <1>5, <1>6, <1>7, <1>8 DEF LadderInv

LEMMA BeginSweep_Inv == ASSUME LadderInv, NEW p \in Processes, BeginSweep(p) PROVE LadderInv'
<1> DEFINE w == [Idle EXCEPT !.active = TRUE, !.began = now, !.todo = Candidates,
                             !.shut = {e \in Alarms : Stored(e) /\ status[e] # Open}]
<1>1. /\ ~sweep[p].active /\ sweep' = [sweep EXCEPT ![p] = w]
      /\ UNCHANGED <<now, request, born, status, cooldown, history, sent, failures, answers>>
  BY DEF BeginSweep
<1>2. /\ w.active = TRUE /\ w.began = now /\ w.todo = Candidates /\ w.event = Nobody
      /\ w.due = {} /\ w.rows = {} /\ w.shut = {e \in Alarms : Stored(e) /\ status[e] # Open}
  BY DEF Idle
<1>3. w \in SweepType
  <2>1. Candidates \subseteq Alarms /\ now \in 0..MaxTime
    BY DEF Candidates, LadderInv, Types
  <2>2. {e \in Alarms : Stored(e) /\ status[e] # Open} \in SUBSET Alarms
    OBVIOUS
  <2>3. QED BY <2>1, <2>2, IdleIs, Zenon DEF SweepType
<1> HIDE DEF w
<1>4. /\ sweep'[p] = w /\ \A q \in Processes : q # p => sweep'[q] = sweep[q]
      /\ sweep' \in [Processes -> SweepType]
  BY <1>1, <1>3 DEF LadderInv, Types
<1>5. sweep[p] = Idle
  BY <1>1 DEF LadderInv, SweepShape
<1>6. Types'
  BY <1>1, <1>4 DEF LadderInv, Types
<1>7. SweepShape'
  <2>1. /\ w.todo \subseteq {e \in Alarms : Stored(e)} /\ w.todo \cap w.shut = {}
        /\ Nobody \notin w.shut
    BY <1>2, Constants DEF Candidates
  <2>2. QED BY <1>1, <1>2, <1>4, <2>1 DEF LadderInv, SweepShape, Stored
<1>8. \A d \in Alarms, r \in Rungs : Senders(d, r)' = Senders(d, r) /\ May(d, r)' = May(d, r)
  BY <1>2, <1>4, <1>5, IdleIs DEF Senders, May
<1>9. Counted'
  BY <1>1, <1>8 DEF LadderInv, Counted
<1>10. Climbing'
  <2>1. now <= now
    BY Constants DEF LadderInv, Types
  <2>2. QED BY <1>1, <1>2, <1>4, <2>1 DEF LadderInv, Climbing, LadderClimbs, Stored
<1>11. Announced' /\ Recorded'
  BY <1>1, <1>2, <1>4, <1>8 DEF LadderInv, Announced, Recorded
<1>12. QED BY <1>6, <1>7, <1>9, <1>10, <1>11 DEF LadderInv

\* Opening an event: what is due and not recorded is in hand from here on.
LEMMA OpenEvent_Inv ==
    ASSUME LadderInv, NEW p \in Processes, NEW e \in Alarms, OpenEvent(p, e) PROVE LadderInv'
<1> DEFINE ripe == DueRungs(sweep[p].began - born[e], FiredRungs(e))
           w == [[[sweep[p] EXCEPT !.todo = @ \ {e}] EXCEPT !.event = IF ripe = {} THEN Nobody ELSE e]
                    EXCEPT !.due = ripe]
<1>0. sweep[p] \in SweepType /\ sweep[p].began \in Nat /\ born[e] \in Nat /\ now \in Nat
  BY Constants DEF LadderInv, Types, SweepType
<1>1. /\ sweep[p].event = Nobody /\ e \in sweep[p].todo
      /\ sweep' = [sweep EXCEPT ![p] = w]
      /\ UNCHANGED <<now, request, born, status, cooldown, history, sent, failures, answers>>
  BY <1>0 DEF OpenEvent, LadderInv, Types
<1>2a. \A r \in ripe : r \in Rungs /\ <<e, r>> \notin history
  BY DEF DueRungs, FiredRungs
<1>2b. ASSUME NEW r \in ripe PROVE sweep[p].began >= born[e] + Ladder[r]
  <2>1. sweep[p].began - born[e] >= Ladder[r] /\ Ladder[r] \in Nat
    BY Constants DEF DueRungs
  <2>2. QED BY <1>0, <2>1
<1>2c. ASSUME NEW r \in ripe, NEW q \in Rungs, Ladder[q] <= Ladder[r], q \notin ripe
       PROVE  <<e, q>> \in history
  <2>1. sweep[p].began - born[e] >= Ladder[r] /\ Ladder[r] \in Nat /\ Ladder[q] \in Nat
    BY Constants DEF DueRungs
  <2>2. sweep[p].began - born[e] >= Ladder[q]
    BY <1>0, <1>2c, <2>1
  <2>3. QED BY <1>2c, <2>2 DEF DueRungs, FiredRungs
<1>3. w \in SweepType
  <2>1. ripe \in SUBSET Rungs /\ (IF ripe = {} THEN Nobody ELSE e) \in Alarms \cup {Nobody}
        /\ sweep[p].todo \ {e} \in SUBSET Alarms
    BY <1>0, <1>2a DEF SweepType
  <2> HIDE DEF ripe
  <2>2. QED BY <1>0, <2>1, Zenon DEF SweepType
<1>4. /\ w.active = sweep[p].active /\ w.began = sweep[p].began /\ w.rows = sweep[p].rows
      /\ w.shut = sweep[p].shut /\ w.todo = sweep[p].todo \ {e} /\ w.due = ripe
      /\ w.event = IF ripe = {} THEN Nobody ELSE e
  <2> HIDE DEF ripe
  <2>1. QED BY <1>0 DEF SweepType
<1> HIDE DEF w, ripe
<1>5. /\ sweep'[p] = w /\ \A q \in Processes : q # p => sweep'[q] = sweep[q]
      /\ sweep' \in [Processes -> SweepType]
  BY <1>1, <1>3 DEF LadderInv, Types
<1>6. Types'
  BY <1>1, <1>5 DEF LadderInv, Types
<1>7. /\ Stored(e) /\ sweep[p].due = {} /\ e \notin sweep[p].shut /\ e # Nobody
      /\ \A r \in Rungs : <<e, r>> \notin sweep[p].rows
      /\ sweep[p].active
  BY <1>1, Constants, IdleIs DEF LadderInv, SweepShape
<1>8. SweepShape'
  <2>1. /\ w.todo \subseteq {d \in Alarms : Stored(d)}
        /\ (w.event # Nobody) <=> (w.due # {})
        /\ w.event # Nobody => Stored(w.event) /\ w.event \notin w.todo
        /\ w.todo \cap w.shut = {} /\ w.event \notin w.shut
        /\ w.active
    BY <1>1, <1>4, <1>7 DEF LadderInv, SweepShape
  <2>2. \A d \in Alarms, r \in Rungs : <<d, r>> \in w.rows =>
           /\ Stored(d) /\ d \notin w.todo /\ (w.event = d => r \notin w.due)
    BY <1>1, <1>4, <1>7, Constants DEF LadderInv, SweepShape
  <2>3. QED BY <1>1, <1>5, <2>1, <2>2 DEF LadderInv, SweepShape, Stored
<1>9. \A d \in Alarms, r \in Rungs : Senders(d, r)' = Senders(d, r)
  BY <1>4, <1>5 DEF Senders
<1>10. \A d \in Alarms, r \in Rungs : <<d, r>> \in history => May(d, r)' = May(d, r)
  <2> SUFFICES ASSUME NEW d \in Alarms, NEW r \in Rungs, <<d, r>> \in history
               PROVE  May(d, r)' = May(d, r)
    OBVIOUS
  <2>1. p \notin May(d, r)
    BY <1>7 DEF May
  <2>2. p \notin May(d, r)'
    BY <1>2a, <1>4, <1>5 DEF May
  <2>3. QED BY <1>5, <2>1, <2>2 DEF May
<1>11. Counted'
  BY <1>1, <1>9, <1>10 DEF LadderInv, Counted
<1>12. Climbing'
  <2>1. LadderClimbs' /\ \A d \in Alarms, r \in Rungs : sent'[d][r] > 0 => Stored(d)'
    BY <1>1 DEF LadderInv, Climbing, LadderClimbs, Stored
  <2>2. \A q \in Processes : sweep'[q].began <= now'
    BY <1>1, <1>4, <1>5 DEF LadderInv, Climbing
  <2>3. ASSUME NEW r \in w.due
        PROVE  /\ now >= born[w.event] + Ladder[r]
               /\ \A k \in Rungs : k < r /\ Ladder[k] <= Ladder[r] =>
                     k \in w.due \/ sent[w.event][k] > 0
    <3>1. w.event = e /\ r \in ripe /\ w.due = ripe
      BY <1>4, <2>3
    <3>2. sweep[p].began <= now /\ Ladder[r] \in Nat
      BY <1>2a, <3>1, Constants DEF LadderInv, Climbing
    <3>2b. sweep[p].began >= born[e] + Ladder[r]
      BY <1>2b, <3>1
    <3>3. now >= born[e] + Ladder[r]
      BY <1>0, <3>1, <3>2, <3>2b
    <3>4. \A k \in Rungs : <<e, k>> \in history => sent[e][k] > 0
      BY Constants DEF LadderInv, Recorded
    <3>5. QED BY <1>2c, <3>1, <3>3, <3>4
  <2>4. \A q \in Processes : q # p => \A r \in sweep'[q].due :
           /\ now >= born[sweep'[q].event] + Ladder[r]
           /\ \A k \in Rungs : k < r /\ Ladder[k] <= Ladder[r] =>
                 k \in sweep'[q].due \/ sent[sweep'[q].event][k] > 0
    BY <1>5 DEF LadderInv, Climbing
  <2>5. QED BY <1>1, <1>5, <2>1, <2>2, <2>3, <2>4 DEF Climbing
<1>13. Announced' /\ Recorded'
  BY <1>1, <1>4, <1>5, <1>9 DEF LadderInv, Announced, Recorded
<1>14. QED BY <1>6, <1>8, <1>11, <1>12, <1>13 DEF LadderInv

\* Sending: one sweep less that may send the rung, one more that has.
LEMMA SendRung_Inv == ASSUME LadderInv, NEW p \in Processes, SendRung(p) PROVE LadderInv'
<1>e. PICK e : e = sweep[p].event
  OBVIOUS
<1>a. PICK r \in sweep[p].due :
         /\ \A other \in sweep[p].due : r <= other
         /\ sent' = [sent EXCEPT ![e][r] = @ + 1]
         /\ sweep' = [sweep EXCEPT ![p].due = @ \ {r},
                                   ![p].event = IF sweep[p].due = {r} THEN Nobody ELSE e,
                                   ![p].rows = @ \cup {<<e, r>>}]
         /\ UNCHANGED <<now, request, born, status, cooldown, history, failures, answers>>
  BY <1>e, Zenon DEF SendRung
<1> DEFINE w == [[[sweep[p] EXCEPT !.due = @ \ {r}]
                    EXCEPT !.event = IF sweep[p].due = {r} THEN Nobody ELSE e]
                    EXCEPT !.rows = @ \cup {<<e, r>>}]
<1>1. /\ e = sweep[p].event /\ e \in Alarms /\ Stored(e) /\ r \in Rungs /\ r \in Nat /\ sweep[p] \in SweepType
      /\ e \notin sweep[p].todo /\ <<e, r>> \notin sweep[p].rows /\ e # Nobody
  <2>1. sweep[p] \in SweepType
    BY DEF LadderInv, Types
  <2>2. e \in Alarms \cup {Nobody} /\ r \in Rungs
    BY <1>e, <2>1 DEF SweepType
  <2>3. QED BY <1>e, <2>1, <2>2, Constants DEF LadderInv, SweepShape
<1>2. w \in SweepType
  <2>1. /\ sweep[p].due \ {r} \in SUBSET Rungs
        /\ (IF sweep[p].due = {r} THEN Nobody ELSE e) \in Alarms \cup {Nobody}
        /\ sweep[p].rows \cup {<<e, r>>} \in SUBSET (Alarms \X Rungs)
    BY <1>1 DEF SweepType
  <2>2. QED BY <1>1, <2>1, Zenon DEF SweepType
<1>3. /\ w.active = sweep[p].active /\ w.began = sweep[p].began /\ w.todo = sweep[p].todo
      /\ w.shut = sweep[p].shut /\ w.rows = sweep[p].rows \cup {<<e, r>>}
      /\ w.due = sweep[p].due \ {r}
      /\ w.event = IF sweep[p].due = {r} THEN Nobody ELSE e
  <2>1. QED BY <1>1 DEF SweepType
<1>0. /\ e = sweep[p].event /\ r \in sweep[p].due /\ \A other \in sweep[p].due : r <= other
      /\ sweep' = [sweep EXCEPT ![p] = w]
      /\ UNCHANGED <<now, request, born, status, cooldown, history, failures, answers>>
  <2>1. sweep \in [Processes -> SweepType]
    BY DEF LadderInv, Types
  <2>2. QED BY <1>a, <1>e, <2>1
<1> HIDE DEF w
<1>4. /\ sweep'[p] = w /\ \A q \in Processes : q # p => sweep'[q] = sweep[q]
      /\ sweep' \in [Processes -> SweepType]
  BY <1>0, <1>2 DEF LadderInv, Types
<1>5. /\ sent' \in [Alarms -> [AllRungs -> Nat]]
      /\ sent'[e][r] = sent[e][r] + 1 /\ sent[e][r] \in Nat
      /\ \A d \in Alarms, q \in AllRungs : <<d, q>> # <<e, r>> => sent'[d][q] = sent[d][q]
      /\ \A d \in Alarms, q \in AllRungs : sent[d][q] > 0 => sent'[d][q] > 0
  <2>1. r \in AllRungs
    BY <1>1, Constants
  <2>2. sent \in [Alarms -> [AllRungs -> Nat]] /\ sent[e] \in [AllRungs -> Nat] /\ sent[e][r] \in Nat
    BY <1>1, <2>1 DEF LadderInv, Types
  <2> DEFINE row == [sent[e] EXCEPT ![r] = sent[e][r] + 1]
  <2>3. sent' = [sent EXCEPT ![e] = row]
    BY <1>a
  <2>4. /\ row \in [AllRungs -> Nat] /\ row[r] = sent[e][r] + 1
        /\ \A q \in AllRungs : q # r => row[q] = sent[e][q]
        /\ \A q \in AllRungs : sent[e][q] > 0 => row[q] > 0
    BY <2>1, <2>2
  <2> HIDE DEF row
  <2>5. /\ sent' \in [Alarms -> [AllRungs -> Nat]] /\ sent'[e] = row
        /\ \A d \in Alarms : d # e => sent'[d] = sent[d]
    BY <1>1, <2>2, <2>3, <2>4
  <2>6. QED BY <2>2, <2>4, <2>5
<1>6. Types'
  BY <1>0, <1>4, <1>5 DEF LadderInv, Types
<1>7. SweepShape'
  <2>1. /\ w.todo \subseteq {d \in Alarms : Stored(d)}
        /\ (w.event # Nobody) <=> (w.due # {})
        /\ w.event # Nobody => Stored(w.event) /\ w.event \notin w.todo
        /\ w.todo \cap w.shut = {} /\ w.event \notin w.shut
        /\ w.active
    <3>1. sweep[p].active
      BY <1>0, IdleIs DEF LadderInv, SweepShape
    <3>2. Nobody \notin w.shut
      BY <1>2, Constants DEF SweepType
    <3>3. (w.event # Nobody) <=> (w.due # {})
      BY <1>0, <1>1, <1>3
    <3>4. /\ sweep[p].todo \subseteq {d \in Alarms : Stored(d)}
          /\ sweep[p].todo \cap sweep[p].shut = {} /\ e \notin sweep[p].shut
      BY <1>1 DEF LadderInv, SweepShape
    <3>5. QED BY <1>1, <1>3, <3>1, <3>2, <3>3, <3>4
  <2>2. ASSUME NEW d \in Alarms, NEW q \in Rungs, <<d, q>> \in w.rows
        PROVE  Stored(d) /\ d \notin w.todo /\ (w.event = d => q \notin w.due)
    <3>1. CASE <<d, q>> = <<e, r>>
      BY <1>1, <1>3, <3>1
    <3>2. CASE <<d, q>> \in sweep[p].rows
      <4>1. Stored(d) /\ d \notin sweep[p].todo /\ (e = d => q \notin sweep[p].due)
        BY <1>1, <3>2 DEF LadderInv, SweepShape
      <4>2. d # Nobody
        BY Constants
      <4>3. QED BY <1>3, <4>1, <4>2
    <3>3. QED BY <1>3, <2>2, <3>1, <3>2
  <2>3. \A d : Stored(d)' <=> Stored(d)
    BY <1>0 DEF Stored
  <2>4. w.event # Nobody => request'[w.event] = "stored"
    BY <1>0, <2>1 DEF Stored
  <2>5. /\ w.todo \subseteq {d \in Alarms : Stored(d)'}
        /\ \A d \in Alarms, q \in Rungs : <<d, q>> \in w.rows =>
              Stored(d)' /\ d \notin w.todo /\ (w.event = d => q \notin w.due)
    BY <2>1, <2>2, <2>3
  <2>6. \A q \in Processes : q # p =>
           /\ sweep'[q].todo \subseteq {d \in Alarms : Stored(d)'}
           /\ (sweep'[q].event # Nobody) <=> (sweep'[q].due # {})
           /\ sweep'[q].event # Nobody => request'[sweep'[q].event] = "stored" /\ sweep'[q].event \notin sweep'[q].todo
           /\ sweep'[q].todo \cap sweep'[q].shut = {} /\ sweep'[q].event \notin sweep'[q].shut
           /\ ~sweep'[q].active => sweep'[q] = Idle
           /\ \A d \in Alarms, k \in Rungs : <<d, k>> \in sweep'[q].rows =>
                 /\ Stored(d)' /\ d \notin sweep'[q].todo
                 /\ sweep'[q].event = d => k \notin sweep'[q].due
    BY <1>0, <1>4 DEF LadderInv, SweepShape, Stored
  <2>7. /\ w.todo \subseteq {d \in Alarms : Stored(d)'}
        /\ (w.event # Nobody) <=> (w.due # {})
        /\ w.event # Nobody => request'[w.event] = "stored" /\ w.event \notin w.todo
        /\ w.todo \cap w.shut = {} /\ w.event \notin w.shut
        /\ ~w.active => w = Idle
        /\ \A d \in Alarms, q \in Rungs : <<d, q>> \in w.rows =>
              Stored(d)' /\ d \notin w.todo /\ (w.event = d => q \notin w.due)
    BY <2>1, <2>4, <2>5
  <2>8. QED BY <1>4, <2>6, <2>7 DEF SweepShape, Stored
<1>8. ASSUME NEW d \in Alarms, NEW q \in Rungs, <<d, q>> # <<e, r>>
      PROVE  Senders(d, q)' = Senders(d, q) /\ May(d, q)' = May(d, q)
  <2>1. <<d, q>> \in w.rows <=> <<d, q>> \in sweep[p].rows
    BY <1>3, <1>8
  <2>2. (w.event = d /\ q \in w.due) <=> (sweep[p].event = d /\ q \in sweep[p].due)
    <3>1. CASE d = e
      BY <1>1, <1>3, <1>8, <3>1
    <3>2. CASE d # e
      BY <1>1, <1>3, <3>2, Constants
    <3>3. QED BY <3>1, <3>2
  <2>3. QED BY <1>4, <2>1, <2>2 DEF Senders, May
<1>9. /\ Senders(e, r)' = Senders(e, r) \cup {p} /\ p \notin Senders(e, r)
      /\ May(e, r)' = May(e, r) \ {p} /\ p \in May(e, r)
  <2>1. <<e, r>> \in w.rows /\ ~(w.event = e /\ r \in w.due)
    BY <1>3
  <2>2. <<e, r>> \notin sweep[p].rows /\ sweep[p].event = e /\ r \in sweep[p].due
    BY <1>0, <1>1
  <2>3. Senders(e, r)' = Senders(e, r) \cup {p} /\ p \notin Senders(e, r)
    BY <1>4, <2>1, <2>2 DEF Senders
  <2>4. May(e, r)' = May(e, r) \ {p} /\ p \in May(e, r)
    BY <1>4, <2>1, <2>2 DEF May
  <2>5. QED BY <2>3, <2>4
<1>10. /\ IsFiniteSet(Senders(e, r)) /\ IsFiniteSet(May(e, r))
       /\ Cardinality(Senders(e, r)) \in Nat /\ Cardinality(May(e, r)) \in Nat
       /\ Cardinality(Processes) \in Nat /\ failures \in Nat
  <2>1. Types /\ failures \in Nat
    BY Constants DEF LadderInv, Types
  <2>2. QED BY <1>1, <2>1, CountsAreNat
<1>11. /\ Cardinality(Senders(e, r)') = Cardinality(Senders(e, r)) + 1
       /\ Cardinality(May(e, r)') = Cardinality(May(e, r)) - 1
  <2> DEFINE S == Senders(e, r)  M == May(e, r)
  <2>1. IsFiniteSet(S) /\ IsFiniteSet(M) /\ p \notin S /\ p \in M
    BY <1>9, <1>10
  <2> HIDE DEF S, M
  <2>2. Cardinality(S \cup {p}) = Cardinality(S) + 1
    BY <2>1, FS_AddElement
  <2>3. Cardinality(M \ {p}) = Cardinality(M) - 1
    BY <2>1, FS_RemoveElement
  <2> USE DEF S, M
  <2>4. QED BY <1>9, <2>2, <2>3
<1>12a. /\ <<e, r>> \notin history => sent'[e][r] <= failures + Cardinality(Senders(e, r)')
        /\ <<e, r>> \in history =>
              sent'[e][r] + Cardinality(May(e, r)') <= failures + Cardinality(Processes)
  <2> DEFINE s == sent[e][r]  cs == Cardinality(Senders(e, r))  cm == Cardinality(May(e, r))
             np == Cardinality(Processes)
  <2>1. /\ <<e, r>> \notin history => s <= failures + cs
        /\ <<e, r>> \in history => s + cm <= failures + np
    BY <1>1 DEF LadderInv, Counted
  <2>2. s \in Nat /\ cs \in Nat /\ cm \in Nat /\ np \in Nat /\ failures \in Nat
    BY <1>5, <1>10
  <2>3. /\ sent'[e][r] = s + 1
        /\ Cardinality(Senders(e, r)') = cs + 1 /\ Cardinality(May(e, r)') = cm - 1
    BY <1>5, <1>11
  <2> HIDE DEF s, cs, cm, np
  <2>4. /\ <<e, r>> \notin history => s + 1 <= failures + (cs + 1)
        /\ <<e, r>> \in history => (s + 1) + (cm - 1) <= failures + np
    BY <2>1, <2>2
  <2>5. QED BY <2>3, <2>4 DEF np
<1>12. Counted'
  <2>1. \A d \in Alarms : sent'[d][FirstFire] = sent[d][FirstFire]
    BY <1>1, <1>5, Constants
  <2>2. ASSUME NEW d \in Alarms, NEW q \in Rungs
        PROVE  /\ <<d, q>> \notin history => sent'[d][q] <= failures + Cardinality(Senders(d, q)')
               /\ <<d, q>> \in history =>
                     sent'[d][q] + Cardinality(May(d, q)') <= failures + Cardinality(Processes)
    <3>1. CASE <<d, q>> # <<e, r>>
      <4>1. sent'[d][q] = sent[d][q]
        BY <1>5, <3>1, Constants
      <4>2. QED BY <1>8, <3>1, <4>1 DEF LadderInv, Counted
    <3>2. CASE <<d, q>> = <<e, r>>
      <4>1. d = e /\ q = r
        BY <3>2
      <4>2. QED BY <1>12a, <4>1
    <3>3. QED BY <3>1, <3>2
  <2>3. QED BY <1>0, <2>1, <2>2 DEF LadderInv, Counted
<1>13. /\ now >= born[e] + Ladder[r]
       /\ \A q \in Rungs : q < r /\ Ladder[q] <= Ladder[r] => sent[e][q] > 0
  <2>1. ASSUME NEW q \in Rungs, q < r PROVE q \notin sweep[p].due
    <3>1. q \in Nat /\ ~(r <= q)
      BY <1>1, <2>1, Constants
    <3>2. QED BY <1>0, <3>1
  <2>2. QED BY <1>0, <2>1 DEF LadderInv, Climbing
<1>14. LadderClimbs'
  <2> SUFFICES ASSUME NEW d \in Alarms, NEW q \in Rungs, sent'[d][q] > 0
               PROVE  /\ now >= born[d] + Ladder[q]
                      /\ \A k \in Rungs : k < q /\ Ladder[k] <= Ladder[q] => sent'[d][k] > 0
    BY <1>0 DEF LadderClimbs
  <2>1. /\ now >= born[d] + Ladder[q]
        /\ \A k \in Rungs : k < q /\ Ladder[k] <= Ladder[q] => sent[d][k] > 0
    <3>1. CASE <<d, q>> = <<e, r>>
      BY <1>13, <3>1
    <3>2. CASE <<d, q>> # <<e, r>>
      <4>1. sent[d][q] > 0
        BY <1>5, <3>2, Constants
      <4>2. QED BY <4>1 DEF LadderInv, Climbing, LadderClimbs
    <3>3. QED BY <3>1, <3>2
  <2>2. QED BY <1>5, <2>1, Constants
<1>15. Climbing'
  <2>1. ASSUME NEW d \in Alarms, NEW q \in Rungs, sent'[d][q] > 0 PROVE Stored(d)
    <3>1. CASE <<d, q>> = <<e, r>>
      BY <1>1, <3>1
    <3>2. CASE <<d, q>> # <<e, r>>
      BY <1>5, <2>1, <3>2, Constants DEF LadderInv, Climbing
    <3>3. QED BY <3>1, <3>2
  <2>2. \A q \in Processes : sweep'[q].began <= now
    BY <1>3, <1>4 DEF LadderInv, Climbing
  <2>3. ASSUME NEW q \in Processes, NEW k \in sweep'[q].due
        PROVE  /\ now >= born[sweep'[q].event] + Ladder[k]
               /\ \A j \in Rungs : j < k /\ Ladder[j] <= Ladder[k] =>
                     j \in sweep'[q].due \/ sent'[sweep'[q].event][j] > 0
    <3>1. sweep'[q].event = sweep[q].event /\ k \in sweep[q].due
      <4>1. CASE q = p
        <5>1. k \in w.due
          BY <1>4, <2>3, <4>1
        <5>2. k \in sweep[p].due /\ sweep[p].due # {r}
          BY <1>3, <5>1
        <5>3. QED BY <1>1, <1>3, <1>4, <4>1, <5>2
      <4>2. CASE q # p
        BY <1>4, <2>3, <4>2
      <4>3. QED BY <4>1, <4>2
    <3>2. /\ now >= born[sweep[q].event] + Ladder[k]
          /\ \A j \in Rungs : j < k /\ Ladder[j] <= Ladder[k] =>
                j \in sweep[q].due \/ sent[sweep[q].event][j] > 0
      BY <3>1 DEF LadderInv, Climbing
    <3>3. sweep[q].event \in Alarms
      BY <3>1, Constants DEF LadderInv, Types, SweepShape, SweepType
    <3>4. ASSUME NEW j \in Rungs, j \in sweep[q].due, j \notin sweep'[q].due
          PROVE  sent'[sweep[q].event][j] > 0
      <4>1. q = p /\ j = r /\ sweep[q].event = e
        BY <1>1, <1>3, <1>4, <3>4
      <4>2. QED BY <1>5, <4>1
    <3>5. QED BY <1>5, <3>1, <3>2, <3>3, <3>4, Constants
  <2>4. QED BY <1>0, <1>14, <2>1, <2>2, <2>3 DEF Climbing, Stored
<1>16. Announced'
  BY <1>0, <1>5, Constants DEF LadderInv, Announced
<1>17. Recorded'
  <2>1. \A d \in Alarms, q \in AllRungs : <<d, q>> \in history' => sent'[d][q] > 0
    BY <1>0, <1>5 DEF LadderInv, Recorded
  <2>2. \A d \in Alarms : request'[d] \in {"told", "fired"} => sent'[d][FirstFire] > 0
    BY <1>0, <1>5, Constants DEF LadderInv, Recorded
  <2>3. ASSUME NEW q \in Processes, NEW d \in Alarms, NEW k \in Rungs, <<d, k>> \in sweep'[q].rows
        PROVE  sent'[d][k] > 0
    <3>1. CASE <<d, k>> \in sweep[q].rows
      BY <1>5, <3>1, Constants DEF LadderInv, Recorded
    <3>2. CASE <<d, k>> = <<e, r>>
      <4>1. d = e /\ k = r
        BY <3>2
      <4>2. QED BY <1>5, <4>1
    <3>3. QED BY <1>3, <1>4, <2>3, <3>1, <3>2
  <2>4. ASSUME failures = 0, NEW d \in Alarms, NEW k \in Rungs, sent'[d][k] > 0
        PROVE  <<d, k>> \in history \/ Senders(d, k)' # {}
    <3>1. CASE <<d, k>> = <<e, r>>
      <4>1. d = e /\ k = r
        BY <3>1
      <4>2. Senders(e, r)' # {}
        BY <1>9
      <4>3. QED BY <4>1, <4>2
    <3>2. CASE <<d, k>> # <<e, r>>
      <4>1. sent[d][k] > 0 /\ Senders(d, k)' = Senders(d, k)
        BY <1>5, <1>8, <2>4, <3>2, Constants
      <4>2. QED BY <2>4, <4>1 DEF LadderInv, Recorded
    <3>3. QED BY <3>1, <3>2
  <2>5. QED BY <1>0, <2>1, <2>2, <2>3, <2>4 DEF Recorded
<1>18. QED BY <1>6, <1>7, <1>12, <1>15, <1>16, <1>17 DEF LadderInv

LEMMA LadderNext_Inv == ASSUME LadderInv, [LadderNext]_ladderVars PROVE LadderInv'
<1>1. ASSUME NEW p \in Processes, CommitSweep(p) \/ FailSweep(p) PROVE LadderInv'
  BY <1>1, SweepEnds DEF CommitSweep, FailSweep
<1>2. ASSUME NEW p \in Processes, SweepStep(p) PROVE LadderInv'
  BY <1>1, <1>2, BeginSweep_Inv, OpenEvent_Inv, SendRung_Inv DEF SweepStep
<1>3. ASSUME NEW e \in Alarms,
             \/ Evaluate(e) \/ SetCooldown(e) \/ CommitEvent(e) \/ FailRequest(e)
             \/ \E s \in Statuses : SetStatus(e, s)
      PROVE  LadderInv'
  BY <1>3, Evaluate_Inv, Request_Inv, SetStatus_Inv
<1>4. CASE Tick \/ UNCHANGED ladderVars
  BY <1>4, Tick_Inv
<1>5. QED BY <1>1, <1>2, <1>3, <1>4 DEF LadderNext

LEMMA LadderInv_Holds == LadderInv => LadderHolds
<1> SUFFICES ASSUME LadderInv PROVE LadderHolds
  OBVIOUS
<1>1. LadderTypeOK
  BY DEF LadderInv, Types, SweepShape, LadderTypeOK, AllRungs
<1>2. SentOncePerProcess
  <2>1. ASSUME NEW e \in Alarms PROVE sent[e][FirstFire] <= 1 + failures
    BY Constants DEF LadderInv, Types, Counted
  <2>2. ASSUME NEW e \in Alarms, NEW r \in Rungs
        PROVE  sent[e][r] <= Cardinality(Processes) + failures
    <3>1. Types /\ failures \in Nat /\ sent[e][r] \in Nat
      BY Constants DEF LadderInv, Types
    <3>2. /\ Cardinality(Senders(e, r)) \in Nat /\ Cardinality(May(e, r)) \in Nat
          /\ Cardinality(Processes) \in Nat
          /\ Cardinality(Senders(e, r)) <= Cardinality(Processes)
      BY <3>1, CountsAreNat
    <3>3. CASE <<e, r>> \in history
      <4>1. sent[e][r] + Cardinality(May(e, r)) <= failures + Cardinality(Processes)
        BY <3>3 DEF LadderInv, Counted
      <4>2. QED BY <3>1, <3>2, <4>1
    <3>4. CASE <<e, r>> \notin history
      <4>1. sent[e][r] <= failures + Cardinality(Senders(e, r))
        BY <3>4 DEF LadderInv, Counted
      <4>2. QED BY <3>1, <3>2, <4>1
    <3>5. QED BY <3>3, <3>4
  <2>3. QED BY <2>1, <2>2 DEF SentOncePerProcess
<1>3. LadderClimbs
  BY DEF LadderInv, Climbing
<1>4. StoredIsAnnounced
  BY DEF LadderInv, Announced, StoredIsAnnounced, Stored
<1>5. HistoryIsTheRecord
  <2>1. ASSUME NEW row \in history PROVE sent[row[1]][row[2]] > 0
    BY DEF LadderInv, Types, Recorded
  <2>2. ASSUME failures = 0, \A p \in Processes : ~sweep[p].active,
               NEW e \in Alarms, NEW r \in Rungs, sent[e][r] > 0
        PROVE  <<e, r>> \in history
    <3>1. Senders(e, r) = {}
      BY <2>2, IdleIs DEF LadderInv, SweepShape, Senders
    <3>2. QED BY <2>2, <3>1 DEF LadderInv, Recorded
  <2>3. QED BY <2>1, <2>2 DEF HistoryIsTheRecord
<1>6. QED BY <1>1, <1>2, <1>3, <1>4, <1>5 DEF LadderHolds

-----------------------------------------------------------------------------
\* However many processes sweep and whatever fails: a rung is sent at most once per
\* process and failure, from the bottom and never early, and the history records what
\* was sent (alert_escalation.py run_escalation_sweep, alert_service.py).
THEOREM LadderIsKept == LadderSpec => []LadderHolds
<1>1. LadderInv /\ [LadderNext]_ladderVars => LadderInv'
  BY LadderNext_Inv
<1>2. QED BY LadderInit_Inv, <1>1, LadderInv_Holds, PTL DEF LadderSpec

AckStep ==
    \A e \in Alarms, r \in Rungs :
       sent'[e][r] # sent[e][r] => \E p \in Processes : sweep[p].event = e /\ e \notin sweep[p].shut

LEMMA LadderNext_Ack == ASSUME LadderInv, LadderNext PROVE AckStep
<1>1. ASSUME NEW e \in Alarms, NEW d \in Alarms, NEW r \in Rungs,
             \/ Evaluate(e) \/ SetCooldown(e) \/ CommitEvent(e) \/ FailRequest(e)
             \/ \E s \in Statuses : SetStatus(e, s)
      PROVE  sent'[d][r] = sent[d][r]
  BY <1>1, Constants
     DEF Evaluate, SetCooldown, CommitEvent, FailRequest, SetStatus, LadderInv, Types
<1>2. ASSUME NEW p \in Processes, SendRung(p), NEW e \in Alarms, NEW r \in Rungs,
             sent'[e][r] # sent[e][r]
      PROVE  sweep[p].event = e /\ e \notin sweep[p].shut
  <2>1. sweep[p].event = e
    BY <1>2, Constants DEF SendRung, LadderInv, Types
  <2>2. QED BY <2>1 DEF LadderInv, SweepShape
<1>3. ASSUME NEW p \in Processes, NEW d \in Alarms, NEW r \in Rungs,
             \/ BeginSweep(p) \/ (\E e \in Alarms : OpenEvent(p, e)) \/ CommitSweep(p)
             \/ FailSweep(p) \/ Tick
      PROVE  sent'[d][r] = sent[d][r]
  BY <1>3 DEF BeginSweep, OpenEvent, CommitSweep, FailSweep, Tick
<1>4. ASSUME Tick PROVE sent' = sent
  BY <1>4 DEF Tick
<1>5. QED BY <1>1, <1>2, <1>3, <1>4 DEF LadderNext, SweepStep, AckStep

\* No rung is sent by a sweep that began after the event was acknowledged.
THEOREM AckIsHeeded == LadderSpec => AckStopsLadder
<1>1. LadderInv /\ [LadderNext]_ladderVars => LadderInv'
  BY LadderNext_Inv
<1>2. LadderInv /\ [LadderNext]_ladderVars => [AckStep]_ladderVars
  BY LadderNext_Ack
<1>3. QED BY LadderInit_Inv, <1>1, <1>2, PTL DEF LadderSpec, AckStopsLadder, AckStep
=============================================================================
