------------------------------- MODULE MCBox --------------------------------
(***************************************************************************)
(* The instance TLC checks of the modules about one edge box: how it gets  *)
(* its token, finds and sets up its cameras, keeps its control socket and  *)
(* turns frames into events.  They share no state, so a behaviour picks    *)
(* one of them and stays with it: the states explored are the sum of the   *)
(* parts and not their product.                                            *)
(***************************************************************************)
EXTENDS Provisioning, Onboarding, SetupRuns, BoxDiscovery, ControlChannel,
        FramePipeline, StepTracking, Footfall, YoloGate, TLC

VARIABLE chosen   \* the module this behaviour is of

PairCodeOrgs == [c \in PairCodes |-> CHOOSE o \in Orgs : TRUE]
\* One box registers itself; the others were made from one installer.
InstallerCodes == LET blank == CHOOSE b \in Boxes : TRUE
                  IN  [b \in Boxes |-> IF b = blank THEN NoCode ELSE CHOOSE c \in PairCodes : TRUE]

Walk(zone, pose, max) == [zone |-> zone, pose |-> pose, max |-> max]
StepPlans == {<<>>, <<Walk("a", AnyPose, 2), Walk("b", "sit", NoLimit)>>,
              <<Walk("b", AnyPose, NoLimit)>>, <<Walk("a", "stand", 1), Walk("b", AnyPose, 2), Walk("a", "sit", 2)>>}

Parts == {"provisioning", "onboarding", "setup", "discovery", "control", "frames", "steps", "footfall", "gate"}

Init == /\ chosen \in Parts
        /\ ProvisioningInit
        /\ OnboardingInit
        /\ SetupInit
        /\ DiscoveryInit
        /\ ControlInit
        /\ FrameInit
        /\ StepInit
        /\ FootfallInit
        /\ GateInit
        /\ chosen # "steps" => plan = <<>>

others == <<provisioningVars, onboardingVars, setupVars, discoveryVars, controlVars, frameVars, stepVars, footfallVars, gateVars>>

Next ==
    /\ chosen' = chosen
    /\ \/ /\ chosen = "provisioning" /\ ProvisioningNext
          /\ UNCHANGED <<onboardingVars, setupVars, discoveryVars, controlVars, frameVars, stepVars, footfallVars, gateVars>>
       \/ /\ chosen = "onboarding" /\ OnboardingNext
          /\ UNCHANGED <<provisioningVars, setupVars, discoveryVars, controlVars, frameVars, stepVars, footfallVars, gateVars>>
       \/ /\ chosen = "setup" /\ SetupNext
          /\ UNCHANGED <<provisioningVars, onboardingVars, discoveryVars, controlVars, frameVars, stepVars, footfallVars, gateVars>>
       \/ /\ chosen = "discovery" /\ DiscoveryNext
          /\ UNCHANGED <<provisioningVars, onboardingVars, setupVars, controlVars, frameVars, stepVars, footfallVars, gateVars>>
       \/ /\ chosen = "control" /\ ControlNext
          /\ UNCHANGED <<provisioningVars, onboardingVars, setupVars, discoveryVars, frameVars, stepVars, footfallVars, gateVars>>
       \/ /\ chosen = "frames" /\ FrameNext
          /\ UNCHANGED <<provisioningVars, onboardingVars, setupVars, discoveryVars, controlVars, stepVars, footfallVars, gateVars>>
       \/ /\ chosen = "steps" /\ StepNext
          /\ UNCHANGED <<provisioningVars, onboardingVars, setupVars, discoveryVars, controlVars, frameVars, footfallVars, gateVars>>
       \/ /\ chosen = "footfall" /\ FootfallNext
          /\ UNCHANGED <<provisioningVars, onboardingVars, setupVars, discoveryVars, controlVars, frameVars, stepVars, gateVars>>
       \/ /\ chosen = "gate" /\ GateNext
          /\ UNCHANGED <<provisioningVars, onboardingVars, setupVars, discoveryVars, controlVars, frameVars, stepVars, footfallVars>>

Spec == Init /\ [][Next]_<<chosen, others>>

Interchangeable == Permutations(Cams) \cup Permutations({b \in Boxes : InstallerCodes[b] # NoCode})

=============================================================================
