----------------------------- MODULE Onboarding -----------------------------
(***************************************************************************)
(* Onboarding one box: cameras are registered, the Go agent resolves the   *)
(* stream address of those found by ONVIF (jobs in a Redis list), and the  *)
(* wizard's step is derived, at any moment, from what is in the database   *)
(* and in Redis (backend: agents.py, onboarding_status_service.py; box:    *)
(* internal/discovery/report.go).                                          *)
(***************************************************************************)
EXTENDS Naturals, FiniteSets

CONSTANT NewCameras   \* cameras the customer may register, each once

VARIABLES online,       \* the box reported within AGENT_STALE_AFTER
          found,        \* the discovery snapshot lists a device
          camera,       \* the row of each camera, as far as it matters here
          resolveJobs,  \* the Redis list of resolve jobs
          resolving,    \* jobs the agent has fetched
          lostJobs,     \* history: jobs whose result changed no row
          walked        \* the walk test has passed once

onboardingVars == <<online, found, camera, resolveJobs, resolving, lostJobs, walked>>

Absent == [status |-> "none", frames |-> FALSE, zones |-> FALSE]

\* Rows that another transaction can see.
Registered == {c \in NewCameras : camera[c].status \in {"pending", "offline", "error"}}
Verified == {c \in Registered : camera[c].frames}
Zoned == {c \in Verified : camera[c].zones}

-----------------------------------------------------------------------------
(* OnboardingStatusService._derive, walked backwards.                       *)

States == <<"waiting_claim", "paired", "scanning", "cameras_selected",
            "stream_verified", "zones_saved", "alert_verified", "protected">>
Step(s) == CHOOSE i \in DOMAIN States : States[i] = s

\* The same with the box's last report asked first (mutant).
WizardStepWhileOnline ==
    CASE ~online -> "waiting_claim"
      [] online /\ Verified # {} -> "stream_verified"
      [] OTHER -> "cameras_selected"

WizardStep ==
    CASE walked /\ Zoned # {} -> "protected"
      [] walked /\ Zoned = {} -> "alert_verified"
      [] ~walked /\ Zoned # {} -> "zones_saved"
      [] ~walked /\ Zoned = {} /\ Verified # {} -> "stream_verified"
      [] ~walked /\ Verified = {} /\ Registered # {} -> "cameras_selected"
      [] ~walked /\ Registered = {} /\ found -> "scanning"
      [] ~walked /\ Registered = {} /\ ~found /\ online -> "paired"
      [] OTHER -> "waiting_claim"

OnboardingInit ==
    /\ online = FALSE /\ found = FALSE /\ walked = FALSE
    /\ camera = [c \in NewCameras |-> Absent]
    /\ resolveJobs = {} /\ resolving = {} /\ lostJobs = {}

-----------------------------------------------------------------------------
(* Reports of the box, and their ages.                                      *)

\* push_discovered replaces the snapshot and marks the box as seen.
PushDiscovered ==
    /\ found' \in BOOLEAN /\ online' = TRUE
    /\ UNCHANGED <<camera, resolveJobs, resolving, lostJobs, walked>>

SnapshotExpires == /\ found' = FALSE
                   /\ UNCHANGED <<online, camera, resolveJobs, resolving, lostJobs, walked>>

GoesStale == /\ online' = FALSE
             /\ UNCHANGED <<found, camera, resolveJobs, resolving, lostJobs, walked>>

-----------------------------------------------------------------------------
(* Registering and resolving.                                               *)

Becomes(c, s) == camera' = [camera EXCEPT ![c].status = s]

\* register_camera with a stream address: the row is offline at once.
RegisterStream(c) ==
    /\ camera[c].status = "none" /\ Becomes(c, "offline")
    /\ UNCHANGED <<online, found, resolveJobs, resolving, lostJobs, walked>>

\* With an ONVIF address: the job is pushed before the row is committed.
RegisterOnvif(c) ==
    /\ camera[c].status = "none" /\ Becomes(c, "uncommitted")
    /\ resolveJobs' = resolveJobs \cup {c}
    /\ UNCHANGED <<online, found, resolving, lostJobs, walked>>

CommitCamera(c) ==
    /\ camera[c].status = "uncommitted" /\ Becomes(c, "pending")
    /\ UNCHANGED <<online, found, resolveJobs, resolving, lostJobs, walked>>

\* get_resolve_jobs pops every job; the answer may not arrive, and ten minutes
\* without a push empty the list as well.
FetchResolveJobs ==
    /\ resolveJobs # {} /\ resolveJobs' = {}
    /\ \/ resolving' = resolving \cup resolveJobs /\ UNCHANGED lostJobs
       \/ lostJobs' = lostJobs \cup resolveJobs /\ UNCHANGED resolving
    /\ UNCHANGED <<online, found, camera, walked>>

\* A resolver that posts addresses and no errors (mutant).
PostAddressOnly(c) ==
    /\ c \in resolving /\ resolving' = resolving \ {c}
    /\ IF c \in Registered THEN Becomes(c, "offline") \/ UNCHANGED camera ELSE UNCHANGED camera
    /\ UNCHANGED <<online, found, resolveJobs, lostJobs, walked>>

\* RunResolver asks the device and posts an address or an error; without a row it
\* is answered 404.  A post that fails is logged and forgotten.
PostResolveResult(c) ==
    /\ c \in resolving /\ resolving' = resolving \ {c}
    /\ \/ /\ c \in Registered
          /\ Becomes(c, "offline") \/ Becomes(c, "error")
          /\ UNCHANGED lostJobs
       \/ lostJobs' = lostJobs \cup {c} /\ UNCHANGED camera
    /\ UNCHANGED <<online, found, resolveJobs, walked>>

-----------------------------------------------------------------------------
(* What happens to a camera afterwards (external to this module).           *)

\* A heartbeat of the box reports a frame of a camera that has an address.
FirstFrame(c) ==
    /\ camera[c].status = "offline" /\ camera' = [camera EXCEPT ![c].frames = TRUE]
    /\ UNCHANGED <<online, found, resolveJobs, resolving, lostJobs, walked>>

SaveZones(c, some) ==
    /\ c \in Registered /\ camera' = [camera EXCEPT ![c].zones = some]
    /\ UNCHANGED <<online, found, resolveJobs, resolving, lostJobs, walked>>

DeleteCamera(c) ==
    /\ c \in Registered /\ Becomes(c, "deleted")
    /\ UNCHANGED <<online, found, resolveJobs, resolving, lostJobs, walked>>

\* walk_test finds an event of a live camera and says so for ever.
WalkTest == /\ Verified # {} /\ walked' = TRUE
            /\ UNCHANGED <<online, found, camera, resolveJobs, resolving, lostJobs>>

OnboardingNext ==
    \/ PushDiscovered \/ SnapshotExpires \/ GoesStale \/ FetchResolveJobs \/ WalkTest
    \/ \E c \in NewCameras :
         \/ RegisterStream(c) \/ RegisterOnvif(c) \/ CommitCamera(c) \/ PostResolveResult(c)
         \/ FirstFrame(c) \/ DeleteCamera(c) \/ \E some \in BOOLEAN : SaveZones(c, some)

OnboardingSpec == OnboardingInit /\ [][OnboardingNext]_onboardingVars

-----------------------------------------------------------------------------
(* Properties.                                                              *)

\* "A customer who adds a second camera later is not dragged back": the wizard
\* goes back only when a camera or its zones are taken away, or, before there is
\* a camera, when a report of the box has grown old.
Removed == \E c \in NewCameras : \/ camera'[c].status = "deleted" /\ camera[c].status # "deleted"
                                 \/ camera[c].zones /\ ~camera'[c].zones
NeverDraggedBack ==
    [][Step(WizardStep') < Step(WizardStep) =>
         \/ Removed
         \/ Registered = {} /\ ((found /\ ~found') \/ (online /\ ~online'))]_onboardingVars

\* A camera that is still being resolved has its job in the list, at the agent, or
\* among those that were lost.
ResolvingHasJob ==
    \A c \in NewCameras : camera[c].status \in {"uncommitted", "pending"}
                          => c \in resolveJobs \cup resolving \cup lostJobs
=============================================================================
