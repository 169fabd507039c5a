-------------------------- MODULE PlacementPromise --------------------------
(***************************************************************************)
(* The abstract planner: for given cameras and agents it answers once,     *)
(* with some placement that is allowed.  PlacementPlan implements it, with *)
(* the policy of PlacementPolicy as what is allowed.                       *)
(***************************************************************************)
CONSTANTS None, Cameras, Agents,
          Allowed(_, _, _)    \* Allowed(cameras, agents, placement)

VARIABLES cameras, agents, answer    \* answer = <<>> or <<placement>>

vars == <<cameras, agents, answer>>

Placements == [Cameras -> Agents \cup {None}]

Init == answer = <<>>

\* plan_placement returns.
Answer ==
    /\ answer = <<>>
    /\ \E asg \in Placements :
        /\ Allowed(cameras, agents, asg)
        /\ answer' = <<asg>>
    /\ UNCHANGED <<cameras, agents>>

\* The caller applies the answer (reconcile_site) and asks again: what was
\* placed is now where the cameras currently are, and nothing else changed.
AskAgain ==
    /\ answer # <<>>
    /\ answer' = <<>>
    /\ cameras' = [c \in Cameras |-> [cameras[c] EXCEPT !.current = answer[1][c]]]
    /\ UNCHANGED agents

Next == Answer \/ AskAgain

Spec == Init /\ [][Next]_vars

==============================================================================
