----------------------------- MODULE MCRecovery -----------------------------
(***************************************************************************)
(* The instance TLC checks of the modules whose point is that things come  *)
(* right in the end: retention after failed sweeps, the capacity of a box  *)
(* after a change of its load, the vision client after an outage, the      *)
(* budget after refused calls.  They share no state, so a behaviour picks  *)
(* one of them and stays with it.                                          *)
(***************************************************************************)
EXTENDS Retention, LoadShedding, VisionCalls, SpendCap, TLC

VARIABLE chosen   \* the module this behaviour is of

OrgOrderOf == <<"o1", "o2">>
OrgOfEvent == (1 :> "o1" @@ 2 :> "o2")

\* Five calls, two of them cheap, on two sites and on none; each cap can be overrun
\* by any two dear calls.
FiveCalls == 1..5
SiteOfCall == <<"s1", "s1", "s2", "s2", "none">>
CostOfCall == <<2, 1, 2, 1, 1>>

Parts == {"retention", "load", "vision", "budget"}

RecoveryInit ==
    /\ chosen \in Parts
    /\ RetentionInit
    /\ LoadInit
    /\ VisionInit
    /\ Init
    /\ chosen # "load" => sustained = MinCapacity /\ cost = CHOOSE c \in CameraCosts : TRUE

budgetVars == <<spent, stage, total>>
others == <<retentionVars, loadVars, visionVars, budgetVars>>

RecoveryNext ==
    /\ chosen' = chosen
    /\ \/ /\ chosen = "retention" /\ RetentionNext
          /\ UNCHANGED <<loadVars, visionVars, budgetVars>>
       \/ /\ chosen = "load" /\ LoadNext
          /\ UNCHANGED <<retentionVars, visionVars, budgetVars>>
       \/ /\ chosen = "vision" /\ VisionNext
          /\ UNCHANGED <<retentionVars, loadVars, budgetVars>>
       \/ /\ chosen = "budget" /\ Next
          /\ UNCHANGED <<retentionVars, loadVars, visionVars>>

Sweeping == chosen = "retention"
Loaded == chosen = "load"
Watching == chosen = "vision"
Charging == chosen = "budget"

\* The scheduler runs the sweep again and again, and the bucket answers at last;
\* health rounds go on, a heartbeat gets through at last, and the box polls its
\* assignments; a camera goes on with its frames, and each step of an analysis is
\* one await that ends; asyncio's semaphore serves those that wait in turn; a call
\* that does not die runs to its end.
RecoverySpec ==
    /\ RecoveryInit /\ [][RecoveryNext]_<<chosen, others>>
    /\ \A p \in Sweeps : /\ WF_retentionVars(Sweeping /\ SweepStep(p))
                         /\ \A e \in Events :
                               SF_retentionVars(Sweeping /\ DeleteMedia(p, e) /\ media'[e] = {})
    /\ WF_loadVars(Loaded /\ Replace) /\ WF_loadVars(Loaded /\ RoundDelivered)
    /\ WF_visionVars(Watching /\ VisionTick)
    /\ \A a \in Analysts :
          /\ WF_visionVars(Watching /\ (Gate(a) \/ FetchToken(a) \/ CheckClient(a) \/ EndCall(a)))
          /\ SF_visionVars(Watching /\ Acquire(a))
    /\ \A c \in Calls : WF_budgetVars(Charging /\ Proceed(c))

\* The budget's liveness is about its own behaviours.
RefusalsReturn == (chosen = "budget") => HeadroomReturns
=============================================================================
