------------------------------ MODULE YoloGate ------------------------------
(***************************************************************************)
(* What becomes of a sampled frame: the local detector's three-way         *)
(* decision (agent/pipeline/yolo_detector.py), the branch of               *)
(* camera_worker.py around it, and the filter on the vision model's answer *)
(* (gemini_client.py).  A detection is a class, a confidence and the       *)
(* zone its centre lies in; boxes and geometry are abstracted.             *)
(***************************************************************************)
EXTENDS Integers, Sequences, FiniteSets

CONSTANTS Classes,      \* COCO classes the detector may report
          Confidences,  \* confidence levels, integers
          GateZones,    \* detection zones of the camera
          EventTypes,   \* event types a camera may enable
          EscalateFloor, FastpathConfidence, \* yolo_escalate_floor, yolo_fastpath_confidence
          Threshold,    \* CONFIDENCE_THRESHOLDS of the camera's sensitivity
          MaxDetections \* bound: detections per frame

ASSUME GateAssumption ==
    /\ Confidences \subseteq Int /\ {EscalateFloor, FastpathConfidence, Threshold} \subseteq Int
    /\ EscalateFloor <= FastpathConfidence /\ MaxDetections \in Nat

FastpathTypes == {"person", "vehicle", "animal", "intrusion"}
\* COCO_TO_EVENT_TYPE, two classes of it and one it does not list.
EventTypeOf(class) == CASE class = "person" -> "person"
                        [] class = "car"    -> "vehicle"
                        [] OTHER            -> "none"
Nowhere == "none"

VARIABLES frame,    \* the detections, and the event types enabled on the camera
          verdict   \* what was decided, with the events emitted

gateVars == <<frame, verdict>>

Detections(n) == [1..n -> [class : Classes, confidence : Confidences, zone : GateZones \union {Nowhere}]]

-----------------------------------------------------------------------------
(* map_detections: a candidate is an event type and the zone it is told of. *)

Candidate(d, enabled) ==
    IF EventTypeOf(d.class) = "person" /\ d.zone # Nowhere /\ "intrusion" \in enabled
    THEN [type |-> "intrusion", zone |-> d.zone]
    ELSE [type |-> EventTypeOf(d.class), zone |-> Nowhere]

Candidates(ds, enabled) == {i \in DOMAIN ds : Candidate(ds[i], enabled).type \in enabled}

-----------------------------------------------------------------------------
(* decide and _build_events                                                 *)

Above(ds, S, level) == {i \in S : ds[i].confidence >= level}

\* One event per type, and per zone for intrusions.
EventsOf(ds, S, enabled) ==
    {[of |-> c, members |-> {i \in S : Candidate(ds[i], enabled) = c}]
        : c \in {Candidate(ds[i], enabled) : i \in S}}

Verdict(action, events) == [action |-> action, events |-> events]

\* A slip in Decide: the fast path emits every candidate, once the best is good.
DecideBestOnly(ds, enabled) ==
    LET S == Candidates(ds, enabled) IN
    CASE ~(enabled \subseteq FastpathTypes)                       -> Verdict("escalate", {})
      [] enabled \subseteq FastpathTypes /\ Above(ds, S, EscalateFloor) = {} -> Verdict("drop", {})
      [] enabled \subseteq FastpathTypes /\ Above(ds, S, EscalateFloor) # {}
            /\ Above(ds, S, FastpathConfidence) = {}              -> Verdict("escalate", {})
      [] OTHER -> Verdict("emit", EventsOf(ds, S, enabled))

Decide(ds, enabled) ==
    LET S == Candidates(ds, enabled) IN
    CASE ~(enabled \subseteq FastpathTypes)                       -> Verdict("escalate", {})
      [] enabled \subseteq FastpathTypes /\ Above(ds, S, EscalateFloor) = {} -> Verdict("drop", {})
      [] enabled \subseteq FastpathTypes /\ Above(ds, S, EscalateFloor) # {}
            /\ Above(ds, S, FastpathConfidence) = {}              -> Verdict("escalate", {})
      [] OTHER -> Verdict("emit", EventsOf(ds, Above(ds, S, FastpathConfidence), enabled))

-----------------------------------------------------------------------------
GateInit == /\ frame = [detections |-> <<>>, enabled |-> {}]
            /\ verdict = Verdict("none", {})

\* Every frame is judged on its own: the camera's events may be edited between.
Detect ==
    /\ verdict.action = "none"
    /\ \E n \in 0..MaxDetections, enabled \in SUBSET EventTypes :
         \E ds \in Detections(n) :
            /\ frame' = [detections |-> ds, enabled |-> enabled]
            /\ verdict' = Decide(ds, enabled)

\* No detector on the box, or its inference failed on this frame: "fail toward the
\* safe path (escalate)".
Blind ==
    /\ verdict.action = "none"
    /\ \E enabled \in SUBSET EventTypes : frame' = [detections |-> <<>>, enabled |-> enabled]
    /\ verdict' = Verdict("escalate", {})

\* analyze_frame's answer keeps the events the camera enabled, at its threshold;
\* an answer that is no JSON has none.  (Bound: one event, the filter is per event.)
ModelAnswers ==
    /\ verdict.action = "escalate"
    /\ \E told \in {{}} \union {{t} : t \in [type : EventTypes, confidence : Confidences]} :
         verdict' = Verdict("told",
            {[of |-> [type |-> t.type, zone |-> Nowhere], members |-> {}] :
                t \in {u \in told : u.type \in frame.enabled /\ u.confidence >= Threshold}})
    /\ UNCHANGED frame

NextFrameIn == /\ verdict.action \notin {"none", "escalate"}
               /\ frame' = [detections |-> <<>>, enabled |-> {}]
               /\ verdict' = Verdict("none", {})

GateNext == Detect \/ Blind \/ ModelAnswers \/ NextFrameIn
GateSpec == GateInit /\ [][GateNext]_gateVars

-----------------------------------------------------------------------------
(* Properties.                                                              *)

\* "To avoid double-alerting on the same physical person" (map_detections): no
\* detection is in two events, and a person in a zone of a camera that watches for
\* intrusion is in no event but that zone's intrusion.
AlertedOnce ==
    \A e \in verdict.events : \A i \in e.members :
        /\ \A g \in verdict.events : i \in g.members => g = e
        /\ LET d == frame.detections[i] IN
           d.class = "person" /\ d.zone # Nowhere /\ "intrusion" \in frame.enabled
               => e.of = [type |-> "intrusion", zone |-> d.zone]

\* What is emitted without the model is exactly what the local detector is sure of
\* and the camera asked for; a frame is dropped only if nothing it asked for shows.
Sure(d) == d.confidence >= FastpathConfidence /\ EventTypeOf(d.class) # "none"
Intruder(d) == d.class = "person" /\ d.zone # Nowhere /\ "intrusion" \in frame.enabled
AskedFor(d) == Intruder(d) \/ EventTypeOf(d.class) \in frame.enabled
JudgedRightly ==
    LET ds == frame.detections
        all == UNION {e.members : e \in verdict.events}
    IN
    /\ verdict.action = "emit" => all = {i \in DOMAIN ds : Sure(ds[i]) /\ AskedFor(ds[i])} /\ all # {}
    /\ verdict.action = "drop" => \A i \in DOMAIN ds : AskedFor(ds[i]) => ds[i].confidence < EscalateFloor
    /\ \A e \in verdict.events : e.of.type \in frame.enabled

GateHolds == AlertedOnce /\ JudgedRightly
=============================================================================
