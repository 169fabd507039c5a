------------------------------- MODULE MCWatch -------------------------------
(***************************************************************************)
(* The instance TLC checks of the three stations an observation passes on  *)
(* its way from a camera to a telephone: the box's supervisor, which keeps *)
(* the cameras watched, the delivery of events through the offline queue,  *)
(* and the escalation of alerts.  They share no state, so a behaviour      *)
(* picks one of them and stays with it.                                    *)
(***************************************************************************)
EXTENDS EdgeSupervisor, EventDelivery, AlertLadder

VARIABLE chosen   \* the module this behaviour is of

\* A rung due after one tick and one after two; an event can outlive the lookback.
TwoRungs == <<1, 2>>

Stations == {"supervisor", "delivery", "ladder"}

WatchInit ==
    /\ chosen \in Stations /\ Init /\ DeliveryInit /\ LadderInit
    /\ chosen # "supervisor" => assigned = [c \in Cameras |-> None]

WatchNext ==
    /\ chosen' = chosen
    /\ \/ /\ chosen = "supervisor" /\ Next
          /\ UNCHANGED <<deliveryVars, ladderVars>>
       \/ /\ chosen = "delivery" /\ DeliveryNext
          /\ UNCHANGED <<vars, ladderVars>>
       \/ /\ chosen = "ladder" /\ LadderNext
          /\ UNCHANGED <<vars, deliveryVars>>

Supervising == chosen = "supervisor"
Delivering == chosen = "delivery"
Chasing == chosen = "ladder"

\* The fairness of the three modules, each for its own behaviours.
WatchSpec ==
    /\ WatchInit /\ [][WatchNext]_<<chosen, vars, deliveryVars, ladderVars>>
    /\ WF_vars(Supervising /\ ReconcileOnce) /\ WF_vars(Supervising /\ WorkerStopped)
    /\ WF_vars(Supervising /\ BeginHealthCheck) /\ WF_vars(Supervising /\ RestartDead)
    /\ WF_vars(Supervising /\ HealthLoopDies)
    /\ \A c \in Clients : WF_deliveryVars(Delivering /\ Post(c))
    /\ \A c \in All : WF_deliveryVars(Delivering /\ BeginDrain(c)) /\ WF_deliveryVars(Delivering /\ Drain(c))
    /\ WF_deliveryVars(Delivering /\ Heartbeat)
    /\ \A p \in Processes : WF_ladderVars(Chasing /\ SweepStep(p))

\* The liveness of the supervisor is about its own behaviours.
WatchedOrRejected == Supervising => SettlesServed
=============================================================================
