---------------------------- MODULE WorkerProofs ----------------------------
(***************************************************************************)
(* What one camera worker owes the backend, for any number of events and   *)
(* crossings: what it posts names objects that exist and every event has a *)
(* known end (FramePipeline), and no crossing is counted twice (Footfall). *)
(***************************************************************************)
EXTENDS FramePipeline, Footfall, YoloGate, StepTracking, FiniteSetTheorems, TLAPS

(***************************************************************************)
(* Footfall.  The sum is kept by every step once it is known that a drain  *)
(* never carries a negative count, which NoBeat would be taken for.        *)
(***************************************************************************)
FootfallInv ==
    /\ crossed \in Int /\ total \in Int /\ last \in Int
    /\ stored \in Int /\ forgone \in Int
    /\ last <= total
    /\ beat \in Nat \cup {NoBeat}
    /\ CountedOnce

\* Every crossing the tracker saw is stored, under way, still to be drained or
\* given up, exactly once, whatever heartbeats and workers do (footfall.py, drain).
THEOREM CrossingsCountedOnce == FootfallSpec => []CountedOnce
<1>1. FootfallInit => FootfallInv
  BY DEF FootfallInit, FootfallInv, CountedOnce, Underway, NoBeat
<1>2. FootfallInv /\ [FootfallNext]_footfallVars => FootfallInv'
  <2> SUFFICES ASSUME FootfallInv, [FootfallNext]_footfallVars PROVE FootfallInv'
    OBVIOUS
  <2> USE DEF FootfallInv, CountedOnce, Underway, NoBeat
  <2>1. CASE Cross
    BY <2>1 DEF Cross
  <2>2. CASE Drain
    BY <2>2 DEF Drain
  <2>3. CASE ApplyBeat
    BY <2>3 DEF ApplyBeat
  <2>4. CASE ReplaceWorker
    BY <2>4 DEF ReplaceWorker
  <2>5. CASE DrawLine
    BY <2>5 DEF DrawLine
  <2>6. ASSUME NEW kept \in BOOLEAN, EndBeat(kept) PROVE FootfallInv'
    BY <2>6 DEF EndBeat
  <2>7. CASE UNCHANGED footfallVars
    BY <2>7 DEF footfallVars
  <2>8. QED BY <2>1, <2>2, <2>3, <2>4, <2>5, <2>6, <2>7 DEF FootfallNext
<1>3. FootfallInv => CountedOnce
  BY DEF FootfallInv
<1>4. QED BY <1>1, <1>2, <1>3, PTL DEF FootfallSpec

(***************************************************************************)
(* FramePipeline.  Events have numbers in the order they were seen, so the *)
(* frame in work holds the last ones, and an event has no end yet exactly  *)
(* when it is in that frame or was not seen: that and the upload's place   *)
(* in the order snapshot, clip, post are what the steps preserve.          *)
(***************************************************************************)
InWork == {"url", "put", "post"}
HandedOver == shot - Len(pending)

FrameTypes ==
    /\ shot \in Nat /\ shot <= Shots
    /\ pending \in Seq(Nat) /\ Len(pending) <= shot
    /\ phase \in {"read", "retry", "stopped"} \cup InWork
    /\ part \in {"snapshot", "clip"}
    /\ claimed \in [1..Shots -> SUBSET {"snapshot", "clip"}]
    /\ fate \in [1..Shots -> {"none", "posted", "refused", "queued", "unqueued",
                               "noBackend", "noStore", "cancelled"}]

FrameShape ==
    /\ phase \in InWork <=> pending # <<>>
    /\ \A i \in 1..Len(pending) : pending[i] = HandedOver + i
    /\ \A e \in 1..Shots : fate[e] = "none" <=> e > HandedOver

Uploads ==
    /\ \A e \in 1..Shots, p \in {"snapshot", "clip"} : p \in claimed[e] => <<e, p>> \in objects
    /\ \A e \in 1..Shots : fate[e] \in Kept => "snapshot" \in claimed[e]
    /\ phase = "post" \/ (phase \in InWork /\ part = "clip")
         => "snapshot" \in claimed[HandedOver + 1]

FrameInv == FrameTypes /\ FrameShape /\ Uploads

LEMMA FirstInWork ==
    ASSUME FrameInv, phase \in InWork
    PROVE  /\ First = HandedOver + 1 /\ First \in 1..Shots /\ Len(pending) > 0
           /\ Tail(pending) \in Seq(Nat) /\ Len(Tail(pending)) = Len(pending) - 1
           /\ \A i \in 1..Len(Tail(pending)) : Tail(pending)[i] = HandedOver + 1 + i
<1>1. pending # <<>> /\ Len(pending) > 0
  BY DEF FrameInv, FrameTypes, FrameShape
<1>2. First = pending[1] /\ pending[1] = HandedOver + 1
  BY <1>1 DEF FrameInv, FrameTypes, FrameShape, First
<1>3. First \in 1..Shots
  BY <1>1, <1>2, FrameAssumption DEF FrameInv, FrameTypes, HandedOver
<1>4. /\ Tail(pending) \in Seq(Nat) /\ Len(Tail(pending)) = Len(pending) - 1
      /\ \A i \in 1..Len(Tail(pending)) : Tail(pending)[i] = pending[i + 1]
  BY <1>1 DEF FrameInv, FrameTypes
<1>5. \A i \in 1..Len(Tail(pending)) : Tail(pending)[i] = HandedOver + 1 + i
  BY <1>1, <1>4 DEF FrameInv, FrameTypes, FrameShape, HandedOver
<1>6. QED BY <1>1, <1>2, <1>3, <1>4, <1>5

LEMMA PendingAre ==
    ASSUME FrameInv, NEW e \in 1..Shots
    PROVE  (\E i \in DOMAIN pending : pending[i] = e) <=> e > HandedOver /\ e <= shot
<1>1. DOMAIN pending = 1..Len(pending)
  BY DEF FrameInv, FrameTypes
<1>2. ASSUME NEW i \in 1..Len(pending), pending[i] = e PROVE e > HandedOver /\ e <= shot
  BY <1>2 DEF FrameInv, FrameTypes, FrameShape, HandedOver
<1>3. ASSUME e > HandedOver, e <= shot
      PROVE  e - HandedOver \in 1..Len(pending) /\ pending[e - HandedOver] = e
  <2>1. e - HandedOver \in 1..Len(pending)
    BY <1>3, FrameAssumption DEF FrameInv, FrameTypes, HandedOver
  <2>2. HandedOver \in Int
    BY DEF FrameInv, FrameTypes, HandedOver
  <2>3. QED BY <2>1, <2>2 DEF FrameInv, FrameShape
<1>4. QED BY <1>1, <1>2, <1>3

LEMMA FrameInit_Inv == FrameInit => FrameInv
<1> SUFFICES ASSUME FrameInit PROVE FrameInv
  OBVIOUS
<1> USE FrameAssumption DEF FrameInit
<1>1. FrameTypes
  BY DEF FrameTypes, InWork
<1>2. FrameShape
  BY DEF FrameShape, HandedOver, InWork
<1>3. Uploads
  BY DEF Uploads, InWork, Kept
<1>4. QED BY <1>1, <1>2, <1>3 DEF FrameInv

\* The events of the frame get one end all together: a step that raised, or a stop.
LEMMA FrameDropped ==
    ASSUME FrameInv, pending' = <<>>, phase' \in {"read", "stopped"},
           shot' = shot, part' = part, objects' = objects, claimed' = claimed,
           NEW STATE end, end \in [1..Shots -> {"noBackend", "noStore", "cancelled", "posted"}],
           \A e \in 1..Shots : end[e] = "posted" => phase = "post" /\ e = HandedOver + 1,
           fate' = [e \in 1..Shots |-> IF \E i \in DOMAIN pending : pending[i] = e
                                       THEN end[e] ELSE fate[e]]
    PROVE  FrameInv'
<1>1. fate' = [e \in 1..Shots |-> IF e > HandedOver /\ e <= shot THEN end[e] ELSE fate[e]]
  BY PendingAre
<1>2. FrameTypes'
  BY <1>1 DEF FrameInv, FrameTypes, InWork
<1>3. /\ HandedOver' = shot /\ Len(pending') = 0
      /\ HandedOver \in Nat /\ shot \in Nat /\ HandedOver <= shot
  BY DEF FrameInv, FrameTypes, HandedOver
<1>4. ASSUME NEW e \in 1..Shots PROVE fate'[e] = "none" <=> e > shot
  <2>0. e \in Nat /\ (fate[e] = "none" <=> e > HandedOver)
    BY FrameAssumption DEF FrameInv, FrameShape
  <2>1. ASSUME e > HandedOver, e <= shot PROVE fate'[e] # "none"
    <3>1. fate'[e] = end[e]
      BY <1>1, <2>1
    <3>2. QED BY <3>1
  <2>2. ASSUME ~(e > HandedOver /\ e <= shot) PROVE fate'[e] = fate[e]
    BY <1>1, <2>2
  <2>3. CASE e > shot
    BY <1>3, <2>0, <2>2, <2>3
  <2>4. CASE ~(e > shot)
    <3>1. CASE e > HandedOver
      BY <1>3, <2>0, <2>1, <2>4, <3>1
    <3>2. CASE ~(e > HandedOver)
      BY <2>0, <2>2, <2>4, <3>2
    <3>3. QED BY <3>1, <3>2
  <2>5. QED BY <2>3, <2>4
<1>5. FrameShape'
  BY <1>3, <1>4 DEF FrameShape, InWork
<1>6. ASSUME NEW e \in 1..Shots, fate'[e] \in Kept PROVE "snapshot" \in claimed[e]
  BY <1>1, <1>6 DEF FrameInv, Uploads, Kept, InWork
<1>7. Uploads'
  BY <1>6 DEF FrameInv, Uploads, InWork
<1>8. QED BY <1>2, <1>5, <1>7 DEF FrameInv

LEMMA FrameNext_Inv == ASSUME FrameInv, [FrameNext]_frameVars PROVE FrameInv'
<1>1. ASSUME UNCHANGED <<pending, shot, part, objects, claimed, fate>>,
             phase' = phase \/ (phase' \notin InWork /\ phase \notin InWork)
      PROVE  phase' \in {"read", "retry", "stopped"} \cup InWork => FrameInv'
  BY <1>1 DEF FrameInv, FrameTypes, FrameShape, Uploads, HandedOver, InWork
<1>2. CASE World \/ UNCHANGED frameVars
  BY <1>2, <1>1 DEF World, frameVars, FrameInv, FrameTypes
<1>3. CASE ReadFails \/ Reconnect \/ RestartLoop
  BY <1>3, <1>1 DEF ReadFails, Reconnect, RestartLoop, LoopAt, InWork
<1>4. ASSUME NEW n \in 1..PerFrame, ReadFrame(n) PROVE FrameInv'
  <2>1. /\ phase = "read" /\ shot' = shot + n /\ shot + n <= Shots /\ n \in Nat /\ n > 0
        /\ pending' = [i \in 1..n |-> shot + i]
        /\ phase' = "url" /\ part' = "snapshot"
        /\ objects' = objects /\ claimed' = claimed /\ fate' = fate
    BY <1>4, FrameAssumption DEF ReadFrame, LoopAt
  <2>2. pending' \in Seq(Nat) /\ Len(pending') = n
    BY <2>1 DEF FrameInv, FrameTypes
  <2>3. pending = <<>> /\ HandedOver = shot
    BY <2>1 DEF FrameInv, FrameTypes, FrameShape, HandedOver, InWork
  <2>4. HandedOver' = shot
    BY <2>1, <2>2 DEF HandedOver, FrameInv, FrameTypes
  <2>5. FrameTypes'
    BY <2>1, <2>2 DEF FrameInv, FrameTypes, InWork
  <2>6. FrameShape'
    BY <2>1, <2>2, <2>3, <2>4 DEF FrameInv, FrameShape, InWork
  <2>7. Uploads'
    BY <2>1 DEF FrameInv, Uploads
  <2>8. QED BY <2>5, <2>6, <2>7 DEF FrameInv
<1>5. ASSUME NEW cause \in {"noBackend", "noStore"}, FrameRaises(cause) PROVE FrameInv'
  <2> DEFINE end == [e \in 1..Shots |-> cause]
  <2>1. fate' = [e \in 1..Shots |-> IF \E i \in DOMAIN pending : pending[i] = e
                                    THEN end[e] ELSE fate[e]]
    BY <1>5 DEF FrameRaises
  <2>2. /\ end \in [1..Shots -> {"noBackend", "noStore", "cancelled", "posted"}]
        /\ \A e \in 1..Shots : end[e] # "posted"
    OBVIOUS
  <2> HIDE DEF end
  <2>3. QED BY <1>5, <2>1, <2>2, FrameDropped DEF FrameRaises
<1>6. CASE AskUrl
  <2>1. CASE link /\ phase' = "put" /\ UNCHANGED <<pending, shot, part, objects, claimed, fate>>
    BY <1>6, <2>1 DEF AskUrl, LoopAt, FrameInv, FrameTypes, FrameShape, Uploads, HandedOver, InWork
  <2>2. CASE FrameRaises("noBackend")
    BY <2>2, <1>5
  <2>3. QED BY <1>6, <2>1, <2>2 DEF AskUrl
<1>7. CASE PutObject
  <2>1. CASE FrameRaises("noStore")
    BY <2>1, <1>5
  <2>2. CASE ~FrameRaises("noStore")
    <3>1. /\ phase = "put"
          /\ objects' = objects \union {<<First, part>>}
          /\ claimed' = [claimed EXCEPT ![First] = @ \union {part}]
          /\ phase' = "post" \/ (phase' = "url" /\ part' = "clip")
          /\ part' \in {"clip", part} /\ (phase' = "post" => part' = part)
          /\ UNCHANGED <<pending, shot, fate>>
      BY <1>7, <2>2 DEF PutObject, AfterPut, LoopAt
    <3>2. First = HandedOver + 1 /\ First \in 1..Shots
      BY <3>1, FirstInWork DEF InWork
    <3>3. FrameTypes'
      BY <3>1, <3>2 DEF FrameInv, FrameTypes, InWork
    <3>4. FrameShape'
      BY <3>1 DEF FrameInv, FrameShape, InWork, HandedOver
    <3>5. ASSUME NEW e \in 1..Shots, NEW p \in {"snapshot", "clip"}, p \in claimed'[e]
          PROVE  <<e, p>> \in objects'
      BY <3>1, <3>2, <3>5 DEF FrameInv, FrameTypes, Uploads
    <3>6. \A e \in 1..Shots : claimed[e] \subseteq claimed'[e]
      BY <3>1, <3>2 DEF FrameInv, FrameTypes
    <3>7. "snapshot" \in claimed'[HandedOver + 1]
      BY <3>1, <3>2 DEF FrameInv, FrameTypes, Uploads, InWork
    <3>8. HandedOver' = HandedOver
      BY <3>1 DEF HandedOver
    <3>9. Uploads'
      BY <3>1, <3>5, <3>6, <3>7, <3>8 DEF FrameInv, Uploads
    <3>10. QED BY <3>3, <3>4, <3>9 DEF FrameInv
  <2>3. QED BY <2>1, <2>2
<1>8. CASE Post
  <2> SUFFICES ASSUME NEW r \in {"posted", "refused", "queued", "unqueued"},
                      phase = "post", HandOver(r)
               PROVE  FrameInv'
    BY <1>8 DEF Post, LoopAt
  <2>1. /\ fate' = [fate EXCEPT ![First] = r]
        /\ pending' = Tail(pending) /\ part' = "snapshot"
        /\ phase' = IF Tail(pending) = <<>> THEN "read" ELSE "url"
        /\ UNCHANGED <<shot, objects, claimed>>
    BY DEF HandOver
  <2>2. /\ First = HandedOver + 1 /\ First \in 1..Shots /\ Len(pending) > 0
        /\ Tail(pending) \in Seq(Nat) /\ Len(Tail(pending)) = Len(pending) - 1
        /\ \A i \in 1..Len(Tail(pending)) : Tail(pending)[i] = HandedOver + 1 + i
    BY FirstInWork DEF InWork
  <2>3. HandedOver' = HandedOver + 1 /\ HandedOver \in Nat
    BY <2>1, <2>2 DEF HandedOver, FrameInv, FrameTypes
  <2>4. FrameTypes'
    BY <2>1, <2>2, SMTT(30) DEF FrameInv, FrameTypes, InWork
  <2>5. ASSUME NEW e \in 1..Shots PROVE fate'[e] = "none" <=> e > HandedOver'
    BY <2>1, <2>2, <2>3, FrameAssumption, SMTT(30) DEF FrameInv, FrameTypes, FrameShape
  <2>6. FrameShape'
    BY <2>1, <2>2, <2>3, <2>5 DEF FrameShape, InWork
  <2>7. "snapshot" \in claimed[First]
    BY <2>2 DEF FrameInv, Uploads
  <2>8. ASSUME NEW e \in 1..Shots, fate'[e] \in Kept PROVE "snapshot" \in claimed[e]
    BY <2>1, <2>2, <2>7, <2>8 DEF FrameInv, FrameTypes, Uploads
  <2>9. Uploads'
    BY <2>1, <2>8 DEF FrameInv, Uploads, InWork
  <2>10. QED BY <2>4, <2>6, <2>9 DEF FrameInv
<1>9. CASE Stop
  <2>1. PICK r \in {"posted", "cancelled"} :
           /\ r = "posted" => phase = "post"
           /\ fate' = [e \in 1..Shots |->
                         IF pending # <<>> /\ e = First THEN r
                         ELSE IF \E i \in DOMAIN pending : pending[i] = e THEN "cancelled" ELSE fate[e]]
    BY <1>9 DEF Stop, LoopAt
  <2> DEFINE end == [e \in 1..Shots |-> IF pending # <<>> /\ e = First THEN r ELSE "cancelled"]
  <2>2. pending # <<>> => First = HandedOver + 1 /\ \E i \in DOMAIN pending : pending[i] = First
    <3>1. CASE pending # <<>>
      <4>1. First = HandedOver + 1 /\ 1 \in DOMAIN pending /\ pending[1] = First
        BY <3>1, FirstInWork DEF FrameInv, FrameShape, FrameTypes, First
      <4>2. QED BY <4>1
    <3>2. QED BY <3>1
  <2>3. fate' = [e \in 1..Shots |-> IF \E i \in DOMAIN pending : pending[i] = e
                                    THEN end[e] ELSE fate[e]]
    BY <2>1, <2>2
  <2>4. /\ end \in [1..Shots -> {"noBackend", "noStore", "cancelled", "posted"}]
        /\ \A e \in 1..Shots : end[e] = "posted" => phase = "post" /\ e = HandedOver + 1
    BY <2>1, <2>2
  <2> HIDE DEF end
  <2>5. QED BY <1>9, <2>3, <2>4, FrameDropped DEF Stop
<1>10. QED
  BY <1>2, <1>3, <1>4, <1>6, <1>7, <1>8, <1>9 DEF FrameNext

LEMMA FrameInv_Honest == FrameInv => EventsHonest
<1> SUFFICES ASSUME FrameInv PROVE EventsHonest
  OBVIOUS
<1>1. ASSUME NEW e \in 1..Shots, fate[e] \in Kept
      PROVE  "snapshot" \in claimed[e] /\ {<<e, p>> : p \in claimed[e]} \subseteq objects
  <2>1. claimed[e] \subseteq {"snapshot", "clip"}
    BY DEF FrameInv, FrameTypes
  <2>2. \A p \in claimed[e] : <<e, p>> \in objects
    BY <2>1 DEF FrameInv, Uploads
  <2>3. QED BY <1>1, <2>2 DEF FrameInv, Uploads
<1>2. \A e \in 1..shot : e \in 1..Shots /\ (fate[e] = "none" <=> e > HandedOver)
  BY FrameAssumption DEF FrameInv, FrameTypes, FrameShape
<1>3. HandedOver \in Int /\ (pending = <<>> => HandedOver = shot) /\ shot \in Nat
  BY DEF FrameInv, FrameTypes, HandedOver
<1>4. EndsKnown
  BY <1>2, <1>3 DEF EndsKnown
<1>5. QED BY <1>1, <1>4 DEF EventsHonest, ClaimsAreWritten

\* What a worker posts or queues names objects that were written, its snapshot among
\* them, and every event of a frame has a known end when the frame is over
\* (camera_worker.py _handle_events, event_packager.py package_and_send).
THEOREM EventsAreHonest == FrameSpec => []EventsHonest
<1>1. FrameInv /\ [FrameNext]_frameVars => FrameInv'
  BY FrameNext_Inv
<1>2. QED BY <1>1, FrameInit_Inv, FrameInv_Honest, PTL DEF FrameSpec

-----------------------------------------------------------------------------
(***************************************************************************)
(* YoloGate. A verdict is judged at the step that gives it, so the         *)
(* property is inductive; what there is to prove is what Decide makes of   *)
(* any list of detections.                                                 *)
(***************************************************************************)
\* The type a detection is read as is one of the camera's, or its class's.
LEMMA CandidateIs ==
    ASSUME NEW ds, NEW i \in DOMAIN ds, NEW enabled \in SUBSET FastpathTypes
    PROVE  /\ Candidate(ds[i], enabled).type \in enabled <=>
                 \/ ds[i].class = "person" /\ ds[i].zone # Nowhere /\ "intrusion" \in enabled
                 \/ EventTypeOf(ds[i].class) \in enabled
           /\ Candidate(ds[i], enabled).type \in enabled => EventTypeOf(ds[i].class) # "none"
<1>1. "none" \notin enabled /\ EventTypeOf("person") = "person"
  BY DEF FastpathTypes, EventTypeOf
<1>2. CASE EventTypeOf(ds[i].class) = "person" /\ ds[i].zone # Nowhere /\ "intrusion" \in enabled
  <2>1. ds[i].class = "person"
    BY <1>2 DEF EventTypeOf
  <2>2. QED BY <1>1, <1>2, <2>1 DEF Candidate
<1>3. CASE ~(EventTypeOf(ds[i].class) = "person" /\ ds[i].zone # Nowhere /\ "intrusion" \in enabled)
  <2>1. Candidate(ds[i], enabled).type = EventTypeOf(ds[i].class)
    BY <1>3 DEF Candidate
  <2>2. ds[i].class = "person" => EventTypeOf(ds[i].class) = "person"
    BY <1>1
  <2>3. QED BY <1>1, <1>3, <2>1, <2>2
<1>4. QED BY <1>2, <1>3

\* The events of a set of detections: each detection in the one of its candidate.
LEMMA EventsCover ==
    ASSUME NEW ds, NEW S, NEW enabled
    PROVE  /\ \A e \in EventsOf(ds, S, enabled) : \A i \in e.members :
                 i \in S /\ e.of = Candidate(ds[i], enabled)
                 /\ e.members = {j \in S : Candidate(ds[j], enabled) = e.of}
           /\ UNION {e.members : e \in EventsOf(ds, S, enabled)} = S
           /\ \A e \in EventsOf(ds, S, enabled) : \E i \in S : e.of = Candidate(ds[i], enabled)
           /\ \A e, g \in EventsOf(ds, S, enabled) : e.of = g.of => e = g
<1> DEFINE Event(c) == [of |-> c, members |-> {i \in S : Candidate(ds[i], enabled) = c}]
<1>1. EventsOf(ds, S, enabled) = {Event(c) : c \in {Candidate(ds[i], enabled) : i \in S}}
  BY DEF EventsOf
<1>2. \A i \in S : Event(Candidate(ds[i], enabled)) \in EventsOf(ds, S, enabled)
                   /\ i \in Event(Candidate(ds[i], enabled)).members
  BY <1>1
<1>3. \A e \in EventsOf(ds, S, enabled) :
          \E i \in S : e = Event(Candidate(ds[i], enabled))
  BY <1>1
<1>4. UNION {e.members : e \in EventsOf(ds, S, enabled)} = S
  <2>1. \A e \in EventsOf(ds, S, enabled) : e.members \subseteq S
    BY <1>3
  <2>2. QED BY <1>2, <2>1
<1>5. QED BY <1>3, <1>4

\* Whatever is detected, the verdict of the same step is the right one.
LEMMA DecidesRightly ==
    ASSUME NEW n \in Nat, NEW ds \in Detections(n), NEW enabled \in SUBSET EventTypes,
           frame' = [detections |-> ds, enabled |-> enabled], verdict' = Decide(ds, enabled)
    PROVE  GateHolds'
<1> DEFINE S == Candidates(ds, enabled)
           A == Above(ds, S, FastpathConfidence)
<1>1. \A i \in DOMAIN ds : ds[i].confidence \in Int
  <2>1. \A i \in DOMAIN ds :
            ds[i] \in [class : Classes, confidence : Confidences, zone : GateZones \union {Nowhere}]
    BY DEF Detections
  <2>2. QED BY <2>1, GateAssumption
<1>2. EscalateFloor \in Int /\ FastpathConfidence \in Int
  BY GateAssumption
<1>3. frame'.detections = ds /\ frame'.enabled = enabled
  OBVIOUS
<1>4. CASE ~(enabled \subseteq FastpathTypes)
  <2>1. verdict' = Verdict("escalate", {})
    BY <1>4 DEF Decide
  <2>2. QED BY <2>1 DEF Verdict, GateHolds, AlertedOnce, JudgedRightly
<1>5. CASE enabled \subseteq FastpathTypes /\ Above(ds, S, EscalateFloor) = {}
  <2>1. verdict' = Verdict("drop", {})
    BY <1>5 DEF Decide
  <2>2. verdict'.action = "drop" /\ verdict'.events = {}
    BY <2>1 DEF Verdict
  <2>3. ASSUME NEW i \in DOMAIN ds, AskedFor(ds[i])' PROVE ds[i].confidence < EscalateFloor
    <3>1. i \in S
      BY <1>3, <1>5, <2>3, CandidateIs DEF AskedFor, Intruder, Candidates
    <3>2. QED BY <1>1, <1>2, <1>5, <3>1 DEF Above
  <2>4. QED BY <1>3, <2>2, <2>3 DEF GateHolds, AlertedOnce, JudgedRightly
<1>6. CASE enabled \subseteq FastpathTypes /\ Above(ds, S, EscalateFloor) # {} /\ A = {}
  <2>1. verdict' = Verdict("escalate", {})
    BY <1>6 DEF Decide
  <2>2. QED BY <2>1 DEF Verdict, GateHolds, AlertedOnce, JudgedRightly
<1>7. CASE enabled \subseteq FastpathTypes /\ Above(ds, S, EscalateFloor) # {} /\ A # {}
  <2>1. verdict' = Verdict("emit", EventsOf(ds, A, enabled))
    BY <1>7 DEF Decide
  <2> DEFINE E == EventsOf(ds, A, enabled)
  <2>2. verdict'.action = "emit" /\ verdict'.events = E
    BY <2>1 DEF Verdict
  <2>3. /\ \A e \in E : \A i \in e.members : i \in A /\ e.of = Candidate(ds[i], enabled)
        /\ UNION {e.members : e \in E} = A
        /\ \A e \in E : \E i \in A : e.of = Candidate(ds[i], enabled)
        /\ \A e, g \in E : e.of = g.of => e = g
    BY EventsCover
  <2>4. A = {i \in DOMAIN ds : Sure(ds[i])' /\ AskedFor(ds[i])'}
    <3>1. \A i \in DOMAIN ds : i \in A <=> Sure(ds[i])' /\ AskedFor(ds[i])'
      BY <1>3, <1>7, CandidateIs DEF Above, Candidates, Sure, AskedFor, Intruder
    <3>2. A \subseteq DOMAIN ds
      BY DEF Above, Candidates
    <3>3. QED BY <3>1, <3>2
  <2>5. \A e \in E : e.of.type \in enabled
    BY <2>3 DEF Above, Candidates
  <2> HIDE DEF E, A, S
  <2>6. JudgedRightly'
    BY <1>3, <1>7, <2>2, <2>3, <2>4, <2>5 DEF JudgedRightly
  <2>7. ASSUME NEW e \in E, NEW i \in e.members
        PROVE  /\ \A g \in E : i \in g.members => g = e
               /\ (ds[i].class = "person" /\ ds[i].zone # Nowhere /\ "intrusion" \in enabled)
                     => e.of = [type |-> "intrusion", zone |-> ds[i].zone]
    <3>1. e.of = Candidate(ds[i], enabled) /\ \A g \in E : i \in g.members => g.of = e.of
      BY <2>3, <2>7
    <3>2. EventTypeOf("person") = "person"
      BY DEF EventTypeOf
    <3>3. QED BY <2>3, <3>1, <3>2 DEF Candidate
  <2>8. AlertedOnce'
    BY <1>3, <2>2, <2>7 DEF AlertedOnce
  <2>9. QED BY <2>6, <2>8 DEF GateHolds
<1>8. QED BY <1>4, <1>5, <1>6, <1>7

\* A frame is alerted on at once, asked about or left, as its best detections say,
\* each alert once and about a type that is enabled, whatever the model answers and
\* when there is no detector (yolo_detector.py and the gate in pipeline.py).
THEOREM GateDecides == GateSpec => []GateHolds
<1>1. GateInit => GateHolds
  BY DEF GateInit, Verdict, GateHolds, AlertedOnce, JudgedRightly
<1>2. ASSUME GateHolds, [GateNext]_gateVars PROVE GateHolds'
  <2>1. CASE Detect
    <3>1. PICK n \in 0 .. MaxDetections, enabled \in SUBSET EventTypes :
            \E ds \in Detections(n) : /\ frame' = [detections |-> ds, enabled |-> enabled]
                                      /\ verdict' = Decide(ds, enabled)
      BY <2>1 DEF Detect
    <3>2. n \in Nat
      BY GateAssumption
    <3>3. QED BY <3>1, <3>2, DecidesRightly
  <2>2. CASE Blind \/ NextFrameIn
    BY <2>2 DEF Blind, NextFrameIn, Verdict, GateHolds, AlertedOnce, JudgedRightly
  <2>3. CASE ModelAnswers
    <3>1. PICK told \in {{}} \union {{t} : t \in [type : EventTypes, confidence : Confidences]} :
            verdict' = Verdict("told",
              {[of |-> [type |-> t.type, zone |-> Nowhere], members |-> {}] :
                t \in {u \in told : u.type \in frame.enabled /\ u.confidence >= Threshold}})
      BY <2>3 DEF ModelAnswers
    <3>2. /\ verdict'.action = "told"
          /\ \A e \in verdict'.events : e.members = {} /\ e.of.type \in frame'.enabled
      BY <2>3, <3>1 DEF Verdict, ModelAnswers
    <3>3. QED BY <3>2 DEF GateHolds, AlertedOnce, JudgedRightly
  <2>4. CASE UNCHANGED gateVars
    BY <1>2, <2>4 DEF gateVars, GateHolds, AlertedOnce, JudgedRightly, AskedFor, Intruder
  <2>5. QED BY <1>2, <2>1, <2>2, <2>3, <2>4 DEF GateNext
<1>3. QED BY <1>1, <1>2, PTL DEF GateSpec

-----------------------------------------------------------------------------
(***************************************************************************)
(* StepTracking. Why a rule fires has to be known before it does: the      *)
(* state of a track that has come to step k says that the readings meet    *)
(* the steps before it, none after, and nothing matched since it was       *)
(* entered.                                                                *)
(***************************************************************************)
Readings == [zone : Zones \union {NoZone}, pose : Poses, at : Nat]
States == [index : Nat, entered : Nat, completed : BOOLEAN, seen : Nat]
Firings == [kind : {"completed", "skipped", "timeout"}, index : Nat, entered : Nat]

\* Steps 1 to n are met in turn by some of the readings rs.
MetIn(p, rs, n) ==
    \E at \in [1 .. n -> 1 .. Len(rs)] :
        \A i \in 1 .. n : Matches(p[i], rs[at[i]]) /\ \A j \in 1 .. i - 1 : at[j] < at[i]

\* A track that has come to step k by time t, with the readings rs.
Under(p, t, k, entered, rs) ==
    /\ k \in 1 .. Len(p)
    /\ MetIn(p, rs, k - 1)
    /\ \A m \in 1 .. Len(p) : MetIn(p, rs, m) => m <= k - 1
    /\ \A i \in 1 .. Len(rs) : /\ rs[i].at < t
                               /\ rs[i].at > entered => ~Matches(p[k], rs[i])

\* Why f was fired, after the readings rs.
Why(p, f, rs) ==
    LET final == rs[Len(rs)] IN
    CASE f.kind = "completed" -> MetIn(p, rs, Len(p))
      [] f.kind = "skipped" ->
            /\ ~MetIn(p, rs, f.index) /\ MetIn(p, rs, f.index - 1)
            /\ \E j \in f.index + 1 .. Len(p) : p[j].zone = final.zone
      [] f.kind = "timeout" ->
            /\ ~MetIn(p, rs, f.index) /\ MetIn(p, rs, f.index - 1)
            /\ \A i \in 1 .. Len(rs) : rs[i].at > f.entered => ~Matches(p[f.index], rs[i])
            /\ final.at - f.entered > p[f.index].max

StepTypeOK ==
    /\ now \in Nat /\ now > 0 /\ plan \in Plans /\ missed \in Nat
    /\ steps \in States
    /\ reads \in Seq(Readings)
    /\ firings \in Seq(Firings)
    /\ replaced \in BOOLEAN /\ broke \in BOOLEAN

\* The number the tracker keeps has its state, last seen missed frames ago.
Followed == missed <= LostFrames => HasState /\ now - steps.seen = (missed + 1) * Interval
OnItsWay ==
    HasState /\ ~steps.completed =>
        firings = <<>> /\ Under(plan, now, steps.index, steps.entered, reads)
Fired ==
    HasState /\ steps.completed => Len(firings) = 1 /\ Why(plan, firings[1], reads)
Tracked ==
    /\ Followed /\ OnItsWay /\ Fired
    /\ ~HasState => reads = <<>> /\ firings = <<>>
    /\ HasState => plan # <<>>

StepInv == StepTypeOK /\ (broke => replaced) /\ (~replaced => Tracked)

\* A plan is a finite walk.
LEMMA PlanIs ==
    ASSUME plan \in Plans
    PROVE  /\ plan \in Seq([zone : Zones, pose : Poses \union {AnyPose}, max : Nat])
           /\ Len(plan) \in Nat /\ (plan # <<>> <=> Len(plan) > 0)
           /\ DOMAIN plan = 1 .. Len(plan)
<1> DEFINE Walks == [zone : Zones, pose : Poses \union {AnyPose}, max : Nat]
<1>1. plan \in Seq(Walks)
  BY StepAssumption
<1> HIDE DEF Walks
<1>2. Len(plan) \in Nat /\ (plan # <<>> <=> Len(plan) > 0) /\ DOMAIN plan = 1 .. Len(plan)
  BY <1>1
<1>3. QED BY <1>1, <1>2 DEF Walks

\* What appending does.
LEMMA AppendIs ==
    ASSUME NEW S, NEW rs \in Seq(S), NEW r \in S
    PROVE  /\ Append(rs, r) \in Seq(S) /\ Len(rs) \in Nat /\ Len(Append(rs, r)) = Len(rs) + 1
           /\ Append(rs, r)[Len(rs) + 1] = r /\ \A i \in 1 .. Len(rs) : Append(rs, r)[i] = rs[i]
OBVIOUS

\* One more reading.
LEMMA MetStill ==
    ASSUME NEW rs \in Seq(Readings), NEW r \in Readings, NEW m \in Nat, MetIn(plan, rs, m)
    PROVE  MetIn(plan, Append(rs, r), m)
<1>1. PICK at \in [1 .. m -> 1 .. Len(rs)] :
        \A i \in 1 .. m : Matches(plan[i], rs[at[i]]) /\ \A j \in 1 .. i - 1 : at[j] < at[i]
  BY DEF MetIn
<1>2. /\ Len(rs) \in Nat /\ Len(Append(rs, r)) = Len(rs) + 1
      /\ \A i \in 1 .. Len(rs) : Append(rs, r)[i] = rs[i]
  BY AppendIs
<1>3. /\ at \in [1 .. m -> 1 .. Len(Append(rs, r))]
      /\ \A i \in 1 .. m : Append(rs, r)[at[i]] = rs[at[i]]
  BY <1>1, <1>2
<1>4. \A i \in 1 .. m : Matches(plan[i], Append(rs, r)[at[i]]) /\ \A j \in 1 .. i - 1 : at[j] < at[i]
  BY <1>1, <1>3
<1>5. QED BY <1>3, <1>4 DEF MetIn

\* A reading that matches the next step completes one more.
LEMMA MetNext ==
    ASSUME NEW rs \in Seq(Readings), NEW r \in Readings, NEW m \in Nat, MetIn(plan, rs, m),
           Matches(plan[m + 1], r)
    PROVE  MetIn(plan, Append(rs, r), m + 1)
<1>1. PICK at \in [1 .. m -> 1 .. Len(rs)] :
        \A i \in 1 .. m : Matches(plan[i], rs[at[i]]) /\ \A j \in 1 .. i - 1 : at[j] < at[i]
  BY DEF MetIn
<1> DEFINE new == Append(rs, r)
           to == [i \in 1 .. m + 1 |-> IF i = m + 1 THEN Len(rs) + 1 ELSE at[i]]
<1>2. /\ Len(rs) \in Nat /\ Len(new) = Len(rs) + 1 /\ new[Len(rs) + 1] = r
      /\ \A i \in 1 .. Len(rs) : new[i] = rs[i]
  BY AppendIs
<1> HIDE DEF new
<1>3. to \in [1 .. m + 1 -> 1 .. Len(new)]
  BY <1>1, <1>2
<1>4. ASSUME NEW i \in 1 .. m + 1
      PROVE  Matches(plan[i], new[to[i]]) /\ \A j \in 1 .. i - 1 : to[j] < to[i]
  <2>1. CASE i = m + 1
    BY <1>1, <1>2, <2>1, SMTT(30)
  <2>2. CASE i # m + 1
    <3>1. i \in 1 .. m /\ to[i] = at[i] /\ \A j \in 1 .. i - 1 : j \in 1 .. m /\ to[j] = at[j]
      BY <2>2
    <3>2. new[at[i]] = rs[at[i]]
      BY <1>1, <1>2, <3>1
    <3> HIDE DEF to
    <3>3. QED BY <1>1, <3>1, <3>2
  <2>3. QED BY <2>1, <2>2
<1>5. QED BY <1>3, <1>4 DEF MetIn, new

\* A step that a reading completes has its predecessors met before.
LEMMA MetBefore ==
    ASSUME NEW rs \in Seq(Readings), NEW r \in Readings, NEW m \in Nat \ {0},
           MetIn(plan, Append(rs, r), m), ~MetIn(plan, rs, m)
    PROVE  MetIn(plan, rs, m - 1) /\ Matches(plan[m], r)
<1> DEFINE new == Append(rs, r)
<1>1. PICK at \in [1 .. m -> 1 .. Len(new)] :
        \A i \in 1 .. m : Matches(plan[i], new[at[i]]) /\ \A j \in 1 .. i - 1 : at[j] < at[i]
  BY DEF MetIn
<1>2. /\ Len(rs) \in Nat /\ Len(new) = Len(rs) + 1 /\ new[Len(rs) + 1] = r
      /\ \A i \in 1 .. Len(rs) : new[i] = rs[i]
  BY AppendIs
<1> HIDE DEF new
<1>3. m \in 1 .. m /\ at[m] \in 1 .. Len(rs) + 1
  BY <1>1, <1>2
<1>4. \A j \in 1 .. m - 1 : j \in 1 .. m /\ at[j] < at[m]
  BY <1>1, <1>3
<1>5. \A j \in 1 .. m - 1 : at[j] \in 1 .. Len(rs)
  BY <1>1, <1>2, <1>3, <1>4
<1>6. at[m] = Len(rs) + 1
  <2> SUFFICES ASSUME at[m] # Len(rs) + 1 PROVE MetIn(plan, rs, m)
    OBVIOUS
  <2>1. \A i \in 1 .. m : at[i] \in 1 .. Len(rs)
    BY <1>2, <1>3, <1>5
  <2>2. at \in [1 .. m -> 1 .. Len(rs)] /\ \A i \in 1 .. m : new[at[i]] = rs[at[i]]
    BY <1>1, <1>2, <2>1
  <2>3. QED BY <1>1, <2>2 DEF MetIn
<1>7. Matches(plan[m], r)
  BY <1>1, <1>2, <1>3, <1>6
<1>8. MetIn(plan, rs, m - 1)
  <2> DEFINE to == [i \in 1 .. m - 1 |-> at[i]]
  <2>1. to \in [1 .. m - 1 -> 1 .. Len(rs)]
    BY <1>5
  <2>2. ASSUME NEW i \in 1 .. m - 1
        PROVE  Matches(plan[i], rs[to[i]]) /\ \A j \in 1 .. i - 1 : to[j] < to[i]
    <3>1. i \in 1 .. m /\ to[i] = at[i] /\ (\A j \in 1 .. i - 1 : to[j] = at[j]) /\ new[at[i]] = rs[at[i]]
      BY <1>2, <1>5
    <3>2. QED BY <1>1, <3>1
  <2>3. QED BY <2>1, <2>2 DEF MetIn
<1>9. QED BY <1>7, <1>8

\* A track just begun is at its first step.
LEMMA FreshUnder ==
    ASSUME NEW t \in Nat, NEW entered, plan \in Plans, plan # <<>>
    PROVE  Under(plan, t, 1, entered, <<>>)
<1>1. Len(plan) \in Nat /\ 1 \in 1 .. Len(plan)
  BY PlanIs
<1>2. Len(<<>>) = 0 /\ 1 .. 0 = {}
  OBVIOUS
<1>3. MetIn(plan, <<>>, 0)
  <2>1. [i \in 1 .. 0 |-> 1] \in [1 .. 0 -> 1 .. Len(<<>>)]
    BY <1>2
  <2>2. QED BY <1>2, <2>1 DEF MetIn
<1>4. \A m \in 1 .. Len(plan) : ~MetIn(plan, <<>>, m)
  <2>1. ASSUME NEW m \in 1 .. Len(plan), MetIn(plan, <<>>, m) PROVE FALSE
    <3>1. PICK at \in [1 .. m -> 1 .. Len(<<>>)] : TRUE
      BY <2>1 DEF MetIn
    <3>2. m \in 1 .. m
      BY <1>1
    <3>3. QED BY <1>2, <3>1, <3>2
  <2>2. QED BY <2>1
<1>5. QED BY <1>1, <1>2, <1>3, <1>4 DEF Under

\* The reading of one more frame: the track goes on, or fires for its reason.
LEMMA ReadingCounts ==
    ASSUME now \in Nat, plan \in Plans, NEW s \in States, ~s.completed, NEW rs \in Seq(Readings),
           Under(plan, now, s.index, s.entered, rs), NEW r \in Readings
    PROVE  LET new == Append(rs, [r EXCEPT !.at = now])
               f == [kind |-> Fires(s, r), index |-> s.index, entered |-> s.entered]
               to == Advanced(s, r)
           IN  /\ new \in Seq(Readings) /\ to \in States /\ to.seen = now
               /\ Fires(s, r) \in {"none", "completed", "skipped", "timeout"}
               /\ Fires(s, r) = "none" => /\ ~to.completed
                                          /\ Under(plan, now + Interval, to.index, to.entered, new)
               /\ Fires(s, r) # "none" => to.completed /\ Why(plan, f, new)
               /\ to.index # 0
<1> DEFINE read == [r EXCEPT !.at = now]
           new == Append(rs, read)
           k == s.index
           f == [kind |-> Fires(s, r), index |-> s.index, entered |-> s.entered]
           to == Advanced(s, r)
<1>1. read \in Readings /\ read.at = now /\ read.zone = r.zone /\ read.pose = r.pose
  BY DEF Readings
<1> HIDE DEF read
<1>2. /\ new \in Seq(Readings) /\ Len(rs) \in Nat /\ Len(new) = Len(rs) + 1
      /\ new[Len(rs) + 1] = read /\ \A i \in 1 .. Len(rs) : new[i] = rs[i]
  BY <1>1, AppendIs
<1>3. /\ k \in 1 .. Len(plan) /\ k \in Nat /\ k > 0 /\ k <= Len(plan) /\ Len(plan) \in Nat
      /\ k - 1 \in Nat /\ (k - 1) + 1 = k
      /\ MetIn(plan, rs, k - 1) /\ ~MetIn(plan, rs, k)
      /\ \A m \in 1 .. Len(plan) : MetIn(plan, rs, m) => m <= k - 1
      /\ \A i \in 1 .. Len(rs) : rs[i].at < now /\ (rs[i].at > s.entered => ~Matches(plan[k], rs[i]))
  <2>1. Len(plan) \in Nat
    BY PlanIs
  <2>2. /\ k \in 1 .. Len(plan)
        /\ MetIn(plan, rs, k - 1)
        /\ \A m \in 1 .. Len(plan) : MetIn(plan, rs, m) => m <= k - 1
        /\ \A i \in 1 .. Len(rs) : rs[i].at < now /\ (rs[i].at > s.entered => ~Matches(plan[k], rs[i]))
    BY DEF Under
  <2>3. /\ k \in Nat /\ k > 0 /\ k <= Len(plan) /\ k - 1 \in Nat /\ (k - 1) + 1 = k /\ ~(k <= k - 1)
    BY <2>1, <2>2
  <2>4. ~MetIn(plan, rs, k)
    BY <2>2, <2>3
  <2>5. QED BY <2>1, <2>2, <2>3, <2>4
<1>4. \A i \in 1 .. Len(rs) : rs[i].at \in Nat
  <2>1. \A i \in 1 .. Len(rs) : rs[i] \in Readings
    OBVIOUS
  <2>2. QED BY <2>1 DEF Readings
<1>5. Matches(plan[k], read) <=> Matches(plan[k], r)
  BY <1>1 DEF Matches
<1>6. Interval \in Nat /\ Interval > 0
  BY StepAssumption
<1>7. MetIn(plan, new, k - 1)
  BY <1>1, <1>3, MetStill
<1>8. ASSUME NEW m \in 1 .. Len(plan), MetIn(plan, new, m) PROVE m <= k /\ (m = k => Matches(plan[k], r))
  <2>1. CASE MetIn(plan, rs, m)
    BY <1>3, <1>8, <2>1
  <2>2. CASE ~MetIn(plan, rs, m)
    <3>1. MetIn(plan, rs, m - 1) /\ Matches(plan[m], read)
      BY <1>1, <1>8, <2>2, MetBefore
    <3>2. m - 1 \in 1 .. Len(plan) => m - 1 <= k - 1
      BY <1>3, <3>1
    <3>3. m <= k
      BY <1>3, <3>2
    <3>4. QED BY <1>5, <3>1, <3>3
  <2>3. QED BY <2>1, <2>2
<1> HIDE DEF new
<1>9. CASE Matches(plan[k], r)
  <2>1. MetIn(plan, new, k)
    BY <1>1, <1>3, <1>5, <1>9, MetNext DEF new
  <2>2. /\ to = [s EXCEPT !.index = @ + 1, !.entered = now, !.completed = s.index = Len(plan), !.seen = now]
        /\ Fires(s, r) = IF k = Len(plan) THEN "completed" ELSE "none"
    BY <1>9 DEF Advanced, Fires
  <2>3. /\ to \in States /\ to.seen = now /\ to.index = k + 1 /\ to.entered = now
        /\ to.completed = (k = Len(plan)) /\ to.index # 0
    <3>1. /\ to = [index |-> k + 1, entered |-> now, completed |-> (k = Len(plan)), seen |-> now]
          /\ s.index + 1 = k + 1
      BY <2>2 DEF States
    <3>2. k + 1 \in Nat /\ k + 1 # 0 /\ (k = Len(plan)) \in BOOLEAN
      BY <1>3
    <3> HIDE DEF to, k
    <3>3. QED BY <3>1, <3>2 DEF States
  <2>4. CASE k = Len(plan)
    <3>1. Fires(s, r) = "completed" /\ f.kind = "completed"
      BY <2>2, <2>4
    <3>2. Why(plan, f, new)
      BY <2>1, <2>4, <3>1 DEF Why
    <3>3. QED BY <1>2, <2>3, <2>4, <3>1, <3>2 DEF new, read
  <2>5. CASE k # Len(plan)
    <3>1. Fires(s, r) = "none"
      BY <2>2, <2>5
    <3>2. k + 1 \in 1 .. Len(plan) /\ (k + 1) - 1 = k
      BY <1>3, <2>5
    <3>3. \A i \in 1 .. Len(new) : new[i].at <= now
      BY <1>1, <1>2, <1>3, <1>4
    <3>4. \A i \in 1 .. Len(new) : new[i].at \in Nat
      <4>1. \A i \in 1 .. Len(new) : new[i] \in Readings
        BY <1>2
      <4>2. QED BY <4>1 DEF Readings
    <3>5. \A i \in 1 .. Len(new) : new[i].at < now + Interval /\ ~(new[i].at > now)
      BY <1>6, <3>3, <3>4
    <3>6. Under(plan, now + Interval, k + 1, now, new)
      BY <1>8, <2>1, <3>2, <3>5 DEF Under
    <3>7. QED BY <1>2, <2>3, <2>5, <3>1, <3>6 DEF new, read
  <2>6. QED BY <2>4, <2>5
<1>10. CASE ~Matches(plan[k], r)
  <2>1. /\ to = [s EXCEPT !.completed = Fires(s, r) # "none", !.seen = now]
        /\ Fires(s, r) \in {"none", "skipped", "timeout"}
        /\ Fires(s, r) = "skipped" => r.zone \in LaterZones(k)
        /\ Fires(s, r) = "timeout" => now - s.entered > plan[k].max
    BY <1>10 DEF Advanced, Fires
  <2>2. /\ to \in States /\ to.seen = now /\ to.index = k /\ to.entered = s.entered
        /\ to.completed = (Fires(s, r) # "none") /\ to.index # 0
    <3>1. s.entered \in Nat /\ k \in Nat /\ k # 0
      BY <1>3 DEF States
    <3>2. s = [index |-> s.index, entered |-> s.entered, completed |-> s.completed, seen |-> s.seen]
      BY DEF States
    <3>3. to = [index |-> k, entered |-> s.entered, completed |-> (Fires(s, r) # "none"), seen |-> now]
      BY <2>1, <3>2
    <3> HIDE DEF to, k
    <3>4. QED BY <3>1, <3>3 DEF States
  <2>3. ~MetIn(plan, new, k) /\ \A m \in 1 .. Len(plan) : MetIn(plan, new, m) => m <= k - 1
    BY <1>3, <1>8, <1>10
  <2>4. \A i \in 1 .. Len(new) : /\ new[i].at < now + Interval
                                 /\ new[i].at > s.entered => ~Matches(plan[k], new[i])
    <3>1. ASSUME NEW i \in 1 .. Len(new)
          PROVE  new[i].at < now + Interval /\ (new[i].at > s.entered => ~Matches(plan[k], new[i]))
      <4>1. CASE i = Len(rs) + 1
        BY <1>1, <1>2, <1>5, <1>6, <1>10, <4>1
      <4>2. CASE i \in 1 .. Len(rs)
        BY <1>2, <1>3, <1>4, <1>6, <4>2
      <4>3. QED BY <1>2, <4>1, <4>2
    <3>2. QED BY <3>1
  <2>5. CASE Fires(s, r) = "none"
    <3>1. Under(plan, now + Interval, k, s.entered, new)
      BY <1>3, <1>7, <2>3, <2>4 DEF Under
    <3>2. QED BY <1>2, <2>2, <2>5, <3>1 DEF new, read
  <2>6. CASE Fires(s, r) = "skipped"
    <3>1. \E j \in k + 1 .. Len(plan) : plan[j].zone = new[Len(new)].zone
      BY <1>1, <1>2, <2>1, <2>6 DEF LaterZones
    <3>2. Why(plan, f, new)
      BY <1>7, <2>3, <2>6, <3>1 DEF Why
    <3>3. QED BY <1>2, <2>2, <2>6, <3>2 DEF new, read
  <2>7. CASE Fires(s, r) = "timeout"
    <3>1. new[Len(new)].at - s.entered > plan[k].max
      BY <1>1, <1>2, <2>1, <2>7
    <3>2. Why(plan, f, new)
      BY <1>7, <2>3, <2>4, <2>7, <3>1 DEF Why
    <3>3. QED BY <1>2, <2>2, <2>7, <3>2 DEF new, read
  <2>8. QED BY <2>1, <2>5, <2>6, <2>7
<1>11. QED BY <1>9, <1>10

\* What a reading leaves, whatever the plan was before.
LEMMA ReadingTyped ==
    ASSUME now \in Nat, NEW s \in States, NEW rs \in Seq(Readings), NEW r \in Readings
    PROVE  /\ Append(rs, [r EXCEPT !.at = now]) \in Seq(Readings)
           /\ Advanced(s, r) \in States /\ Advanced(s, r).seen = now
           /\ Fires(s, r) \in {"none", "completed", "skipped", "timeout"}
<1>1. [r EXCEPT !.at = now] \in Readings
  BY DEF Readings
<1>2. Append(rs, [r EXCEPT !.at = now]) \in Seq(Readings)
  BY <1>1, AppendIs
<1>3. Fires(s, r) \in {"none", "completed", "skipped", "timeout"}
  BY DEF Fires
<1>4. s = [index |-> s.index, entered |-> s.entered, completed |-> s.completed, seen |-> s.seen]
      /\ s.index \in Nat /\ s.entered \in Nat
  BY DEF States
<1>5. CASE Matches(plan[s.index], r)
  <2>1. Advanced(s, r) =
          [s EXCEPT !.index = @ + 1, !.entered = now, !.completed = s.index = Len(plan), !.seen = now]
    BY <1>5 DEF Advanced
  <2>2. Advanced(s, r) =
          [index |-> s.index + 1, entered |-> now, completed |-> (s.index = Len(plan)), seen |-> now]
    BY <1>4, <2>1
  <2>3. s.index + 1 \in Nat
    BY <1>4
  <2>4. QED BY <1>2, <1>3, <2>2, <2>3 DEF States
<1>6. CASE ~Matches(plan[s.index], r)
  <2>1. Advanced(s, r) = [s EXCEPT !.completed = Fires(s, r) # "none", !.seen = now]
    BY <1>6 DEF Advanced
  <2>2. Advanced(s, r) =
          [index |-> s.index, entered |-> s.entered, completed |-> (Fires(s, r) # "none"), seen |-> now]
    BY <1>4, <2>1
  <2>3. QED BY <1>2, <1>3, <1>4, <2>2 DEF States
<1>7. QED BY <1>5, <1>6

\* A frame with the person in it.
LEMMA SeeKept ==
    ASSUME StepInv, NEW r \in Readings, SeePerson(r)
    PROVE  StepInv'
<1> DEFINE sameTrack == missed <= LostFrames
           s == IF sameTrack THEN State ELSE NewState
           before == IF sameTrack THEN reads ELSE <<>>
           fired == IF sameTrack THEN firings ELSE <<>>
<1>1. /\ now \in Nat /\ now > 0 /\ plan \in Plans /\ missed \in Nat /\ steps \in States
      /\ reads \in Seq(Readings) /\ firings \in Seq(Firings) /\ replaced \in BOOLEAN
      /\ Interval \in Nat /\ Interval > 0 /\ LostFrames \in Nat
  BY StepAssumption DEF StepInv, StepTypeOK
<1>2. /\ plan # <<>> /\ now' = now + Interval /\ missed' = 0 /\ plan' = plan
      /\ replaced' = IF sameTrack THEN replaced ELSE FALSE
      /\ \/ /\ s.completed /\ steps' = [s EXCEPT !.seen = now]
            /\ reads' = before /\ firings' = fired /\ broke' = FALSE
         \/ /\ ~s.completed /\ s.index <= Len(plan)
            /\ steps' = Advanced(s, r)
            /\ reads' = Append(before, [r EXCEPT !.at = now])
            /\ firings' = IF Fires(s, r) = "none" THEN fired
                          ELSE Append(fired, [kind |-> Fires(s, r), index |-> s.index,
                                              entered |-> s.entered])
            /\ broke' = FALSE
         \/ /\ ~s.completed /\ s.index > Len(plan) /\ steps' = [s EXCEPT !.seen = now]
            /\ reads' = before /\ firings' = fired /\ broke' = TRUE
  BY DEF SeePerson, NextFrame
<1>3. s \in States /\ before \in Seq(Readings) /\ fired \in Seq(Firings)
  BY <1>1 DEF State, NewState, States
<1>4. ASSUME ~replaced'
      PROVE  /\ ~s.completed => fired = <<>> /\ Under(plan, now, s.index, s.entered, before)
             /\ s.completed => Len(fired) = 1 /\ Why(plan, fired[1], before)
  <2>1. CASE sameTrack
    <3>1. ~replaced /\ HasState /\ s = steps /\ before = reads /\ fired = firings
      BY <1>2, <1>4, <2>1 DEF StepInv, Tracked, Followed, State
    <3>2. OnItsWay /\ Fired
      BY <3>1 DEF StepInv, Tracked
    <3>3. QED BY <3>1, <3>2 DEF OnItsWay, Fired
  <2>2. CASE ~sameTrack
    <3>1. s = NewState /\ before = <<>> /\ fired = <<>>
      BY <2>2
    <3>2. Under(plan, now, 1, now, <<>>)
      BY <1>1, <1>2, FreshUnder
    <3>3. QED BY <3>1, <3>2 DEF NewState
  <2>3. QED BY <2>1, <2>2
<1> HIDE DEF s, before, fired, sameTrack
<1>5. now' \in Nat /\ now' > 0 /\ now' - now = (missed' + 1) * Interval /\ plan' \in Plans
  <2>1. now' = now + Interval /\ missed' = 0 /\ plan' = plan
    BY <1>2
  <2>2. now \in Nat /\ Interval \in Nat /\ now > 0 /\ plan \in Plans
    BY <1>1
  <2>3. QED BY <2>1, <2>2
<1>6. replaced' \in BOOLEAN
  <2>1. replaced' = IF sameTrack THEN replaced ELSE FALSE
    BY <1>2
  <2>2. replaced \in BOOLEAN
    BY <1>1
  <2>3. QED BY <2>1, <2>2
<1>7. ASSUME steps' \in States, steps'.seen = now, reads' \in Seq(Readings), firings' \in Seq(Firings),
             broke' \in BOOLEAN, broke' => replaced',
             ~replaced' /\ ~steps'.completed =>
                 firings' = <<>> /\ Under(plan, now', steps'.index, steps'.entered, reads'),
             ~replaced' /\ steps'.completed => Len(firings') = 1 /\ Why(plan, firings'[1], reads')
      PROVE  StepInv'
  <2>1. HasState' /\ now' - steps'.seen = (missed' + 1) * Interval /\ missed' \in Nat
    BY <1>1, <1>2, <1>5, <1>7 DEF HasState, NoState
  <2>2. ASSUME ~replaced' PROVE Tracked'
    <3>1. Followed'
      BY <2>1 DEF Followed
    <3>2. OnItsWay'
      <4>1. ASSUME ~steps'.completed
            PROVE  firings' = <<>> /\ Under(plan, now, steps.index, steps.entered, reads)'
        <5>1. firings' = <<>> /\ Under(plan', now', steps'.index, steps'.entered, reads')
          BY <1>2, <1>7, <2>2, <4>1
        <5>2. QED BY <5>1 DEF Under, MetIn, Matches
      <4>2. QED BY <4>1 DEF OnItsWay
    <3>3. Fired'
      <4>1. ASSUME steps'.completed
            PROVE  Len(firings)' = 1 /\ Why(plan, firings[1], reads)'
        <5>1. Len(firings') = 1 /\ Why(plan', firings'[1], reads')
          BY <1>2, <1>7, <2>2, <4>1
        <5>2. QED BY <5>1 DEF Why, MetIn, Matches
      <4>2. QED BY <4>1 DEF Fired
    <3>4. plan' # <<>>
      BY <1>2
    <3>5. QED BY <2>1, <3>1, <3>2, <3>3, <3>4 DEF Tracked
  <2>3. StepTypeOK'
    BY <1>5, <1>6, <1>7, <2>1 DEF StepTypeOK
  <2>4. QED BY <1>7, <2>2, <2>3 DEF StepInv
<1>8. CASE s.completed
  <2>1. /\ steps' = [s EXCEPT !.seen = now] /\ reads' = before /\ firings' = fired /\ broke' = FALSE
    BY <1>2, <1>8
  <2>2. /\ steps' \in States /\ steps'.seen = now /\ steps'.completed
    BY <1>1, <1>3, <1>8, <2>1 DEF States
  <2>3. QED BY <1>3, <1>4, <1>7, <1>8, <2>1, <2>2
<1>9. CASE ~s.completed /\ s.index <= Len(plan)
  <2> DEFINE new == Append(before, [r EXCEPT !.at = now])
             f == [kind |-> Fires(s, r), index |-> s.index, entered |-> s.entered]
  <2>1. /\ steps' = Advanced(s, r) /\ reads' = new /\ broke' = FALSE
        /\ firings' = (IF Fires(s, r) = "none" THEN fired ELSE Append(fired, f))
    <3>1. ~(s.index > Len(plan))
      <4>1. s.index \in Nat /\ Len(plan) \in Nat
        BY <1>1, <1>3, PlanIs DEF States
      <4>2. QED BY <1>9, <4>1
    <3>2. QED BY <1>2, <1>9, <3>1
  <2>2. ASSUME ~replaced'
        PROVE  /\ Fires(s, r) = "none" => ~steps'.completed
                                          /\ Under(plan, now + Interval, steps'.index, steps'.entered, new)
               /\ Fires(s, r) # "none" => steps'.completed /\ Why(plan, f, new)
    BY <1>1, <1>3, <1>4, <1>9, <2>1, <2>2, ReadingCounts
  <2>3. /\ new \in Seq(Readings) /\ steps' \in States /\ steps'.seen = now
        /\ Fires(s, r) \in {"none", "completed", "skipped", "timeout"}
    BY <1>1, <1>3, <2>1, ReadingTyped
  <2>4. f \in Firings \/ Fires(s, r) = "none"
    BY <1>3, <2>3 DEF Firings, States
  <2> HIDE DEF new, f
  <2>5. firings' \in Seq(Firings)
    BY <1>3, <2>1, <2>4
  <2>6. ~replaced' /\ Fires(s, r) # "none" => firings' = <<f>>
    <3>1. ~replaced' => fired = <<>>
      BY <1>4, <1>9
    <3>2. Append(<<>>, f) = <<f>>
      OBVIOUS
    <3>3. QED BY <2>1, <3>1, <3>2
  <2>7. ~replaced' /\ Fires(s, r) = "none" => firings' = <<>>
    BY <1>4, <1>9, <2>1
  <2>8. Len(<<f>>) = 1 /\ <<f>>[1] = f
    OBVIOUS
  <2>9. ~replaced' /\ ~steps'.completed =>
            firings' = <<>> /\ Under(plan, now', steps'.index, steps'.entered, reads')
    BY <1>2, <2>1, <2>2, <2>7
  <2>10. ~replaced' /\ steps'.completed => Len(firings') = 1 /\ Why(plan, firings'[1], reads')
    BY <2>1, <2>2, <2>6, <2>8
  <2>11. QED BY <1>7, <2>1, <2>3, <2>5, <2>9, <2>10
<1>10. CASE ~s.completed /\ s.index > Len(plan)
  <2>1. /\ steps' = [s EXCEPT !.seen = now] /\ reads' = before /\ firings' = fired /\ broke' = TRUE
    BY <1>2, <1>10, <1>3, PlanIs, <1>1, SMTT(30) DEF States
  <2>2. replaced'
    <3>1. ~replaced' => s.index \in 1 .. Len(plan)
      BY <1>4, <1>10 DEF Under
    <3>2. QED BY <1>1, <1>3, <1>6, <1>10, <3>1, PlanIs DEF States
  <2>3. /\ steps' \in States /\ steps'.seen = now
    BY <1>1, <1>3, <2>1 DEF States
  <2>4. QED BY <1>3, <1>7, <2>1, <2>2, <2>3
<1>11. QED BY <1>2, <1>8, <1>9, <1>10

\* Every frame, replacement or pruning keeps it.
LEMMA StepKept ==
    ASSUME StepInv, [StepNext]_stepVars
    PROVE  StepInv'
<1>1. /\ now \in Nat /\ now > 0 /\ plan \in Plans /\ missed \in Nat /\ steps \in States
      /\ reads \in Seq(Readings) /\ firings \in Seq(Firings) /\ replaced \in BOOLEAN
      /\ broke \in BOOLEAN
      /\ Interval \in Nat /\ Interval > 0 /\ LostFrames \in Nat /\ StateTTL \in Nat
      /\ (LostFrames + 1) * Interval <= StateTTL
  BY StepAssumption DEF StepInv, StepTypeOK
\* Time passes over the track: it goes on, unless the state is pruned.
<1>2. ASSUME now' \in Nat, now <= now', UNCHANGED <<plan, steps, reads, firings, replaced>>,
             missed' \in Nat, broke' \in {FALSE, broke}, ~replaced => Followed'
      PROVE  StepInv'
  <2>1. StepTypeOK' /\ (broke' => broke)
    <3>1. now' > 0
      BY <1>1, <1>2
    <3>2. broke' = FALSE \/ broke' = broke
      BY <1>2
    <3>3. broke' \in BOOLEAN /\ (broke' => broke)
      <4>1. CASE broke' = FALSE
        BY <4>1
      <4>2. CASE broke' = broke
        BY <1>1, <4>2
      <4>3. QED BY <3>2, <4>1, <4>2
    <3>4. QED BY <1>1, <1>2, <3>1, <3>3 DEF StepTypeOK
  <2>2. HasState' <=> HasState
    BY <1>2 DEF HasState
  <2>3. ASSUME ~replaced PROVE Tracked'
    <3>1. Tracked
      BY <2>3 DEF StepInv
    <3>2. ASSUME HasState, ~steps.completed PROVE Under(plan, now', steps.index, steps.entered, reads)
      <4>1. Under(plan, now, steps.index, steps.entered, reads)
        BY <3>1, <3>2 DEF Tracked, OnItsWay
      <4>2. \A i \in 1 .. Len(reads) : reads[i].at < now' 
        <5>1. \A i \in 1 .. Len(reads) : reads[i] \in Readings
          BY <1>1
        <5>2. \A i \in 1 .. Len(reads) : reads[i].at \in Nat /\ reads[i].at < now
          BY <4>1, <5>1 DEF Readings, Under
        <5>3. QED BY <1>1, <1>2, <5>2
      <4>3. QED BY <4>1, <4>2 DEF Under
    <3>3. OnItsWay'
      BY <1>2, <2>2, <3>1, <3>2 DEF OnItsWay, Tracked
    <3>4. Fired'
      BY <1>2, <2>2, <3>1 DEF Fired, Tracked
    <3>5. QED BY <1>2, <2>2, <2>3, <3>1, <3>3, <3>4 DEF Tracked
  <2>4. broke => replaced
    BY DEF StepInv
  <2>5. QED BY <1>2, <2>1, <2>3, <2>4 DEF StepInv
<1>3. CASE UNCHANGED stepVars
  <2>1. UNCHANGED <<now, plan, missed, steps, reads, firings, replaced, broke>>
    BY <1>3 DEF stepVars
  <2>2. ~replaced => Followed'
    BY <2>1 DEF StepInv, Tracked, Followed, HasState
  <2>3. QED BY <1>1, <1>2, <2>1, <2>2
<1>4. ASSUME NEW z \in Zones \union {NoZone}, NEW q \in Poses,
             SeePerson([zone |-> z, pose |-> q, at |-> 0])
      PROVE  StepInv'
  <2>1. [zone |-> z, pose |-> q, at |-> 0] \in Readings
    BY DEF Readings
  <2>2. QED BY <1>4, <2>1, SeeKept
<1>5. CASE MissPerson
  <2>1. /\ plan # <<>> /\ now' = now + Interval /\ missed <= LostFrames /\ missed' = missed + 1
        /\ broke' = FALSE /\ UNCHANGED <<plan, firings, replaced>>
    BY <1>5 DEF MissPerson, NextFrame
  <2>2. now' \in Nat /\ now' > 0 /\ now <= now' /\ missed' \in Nat
    BY <1>1, <2>1
  <2>3. CASE HasState /\ Expired(steps)
    <3>1. steps' = NoState /\ reads' = <<>>
      BY <1>5, <2>3 DEF MissPerson
    <3>2. replaced
      <4>1. SUFFICES ASSUME ~replaced PROVE FALSE
        BY <1>1
      <4>2. now - steps.seen = (missed + 1) * Interval
        BY <2>1, <4>1 DEF StepInv, Tracked, Followed
      <4>3. (missed + 1) * Interval <= (LostFrames + 1) * Interval
        BY <1>1, <2>1
      <4>4. now - steps.seen <= StateTTL
        BY <1>1, <4>2, <4>3
      <4>5. QED BY <1>1, <2>3, <4>4 DEF Expired, States
    <3>3. NoState \in States /\ <<>> \in Seq(Readings)
      BY DEF NoState, States
    <3>4. StepTypeOK'
      BY <1>1, <2>1, <2>2, <3>1, <3>3 DEF StepTypeOK
    <3>5. QED BY <2>1, <3>2, <3>4 DEF StepInv
  <2>4. CASE ~(HasState /\ Expired(steps))
    <3>1. UNCHANGED <<steps, reads>>
      BY <1>5, <2>4 DEF MissPerson
    <3>2. ASSUME ~replaced PROVE Followed'
      <4>1. HasState /\ now - steps.seen = (missed + 1) * Interval
        BY <2>1, <3>2 DEF StepInv, Tracked, Followed
      <4>2. (missed' + 1) * Interval = (missed + 1) * Interval + Interval
        BY <1>1, <2>1
      <4>3. steps.seen \in Nat
        BY <1>1 DEF States
      <4>4. now' - steps.seen = (missed' + 1) * Interval
        BY <1>1, <2>1, <4>1, <4>2, <4>3
      <4>5. QED BY <3>1, <4>1, <4>4 DEF Followed, HasState
    <3>3. QED BY <1>2, <2>1, <2>2, <3>1, <3>2
  <2>5. QED BY <2>3, <2>4
<1>6. CASE SkipFrame
  <2>1. plan = <<>> /\ now' = now + Interval
        /\ UNCHANGED <<plan, missed, steps, reads, firings, replaced, broke>>
    BY <1>6 DEF SkipFrame, NextFrame
  <2>2. ~replaced => ~(missed <= LostFrames)
    BY <2>1 DEF StepInv, Tracked, Followed
  <2>3. ~replaced => Followed'
    BY <2>1, <2>2 DEF Followed
  <2>4. now' \in Nat /\ now <= now'
    BY <1>1, <2>1
  <2>5. QED BY <1>1, <1>2, <2>1, <2>3, <2>4
<1>7. ASSUME NEW p \in Plans, ReplacePlan(p) PROVE StepInv'
  <2>1. /\ plan' = p /\ replaced' = (replaced \/ HasState)
        /\ UNCHANGED <<now, missed, steps, reads, firings, broke>>
    BY <1>7 DEF ReplacePlan
  <2>2. HasState' <=> HasState
    BY <2>1 DEF HasState
  <2>3. replaced' \in BOOLEAN /\ (broke' => replaced')
    BY <1>1, <2>1 DEF StepInv, HasState
  <2>4. StepTypeOK'
    BY <1>1, <1>7, <2>1, <2>3 DEF StepTypeOK
  <2>5. ASSUME ~replaced' PROVE Tracked'
    <3>1. ~replaced /\ ~HasState
      BY <2>1, <2>5
    <3>2. Tracked
      BY <3>1 DEF StepInv
    <3>3. QED BY <2>1, <2>2, <3>1, <3>2 DEF Tracked, Followed, OnItsWay, Fired
  <2>6. QED BY <2>3, <2>4, <2>5 DEF StepInv
<1>8. QED BY <1>3, <1>4, <1>5, <1>6, <1>7 DEF StepNext

\* A person under a sequence fires at most one rule, and one the readings bear out,
\* as long as no sequence was replaced under the person; and advance never reads past
\* the steps (sequence_engine.py).
THEOREM StepsAreTracked == StepSpec => []StepsTracked
<1>1. StepInit => StepInv
  <2>1. SUFFICES ASSUME StepInit PROVE StepInv
    OBVIOUS
  <2>2. NoState \in States /\ <<>> \in Seq(Readings) /\ <<>> \in Seq(Firings)
    BY DEF NoState, States
  <2>3. LostFrames \in Nat /\ LostFrames + 1 \in Nat /\ ~(LostFrames + 1 <= LostFrames)
    BY StepAssumption
  <2>4. StepTypeOK
    <3>1. now = 1 /\ plan \in Plans /\ missed = LostFrames + 1 /\ replaced = FALSE /\ broke = FALSE
      BY <2>1 DEF StepInit
    <3>2. steps \in States /\ reads \in Seq(Readings) /\ firings \in Seq(Firings)
      BY <2>1, <2>2 DEF StepInit
    <3>3. now \in Nat /\ now > 0 /\ missed \in Nat
      BY <2>3, <3>1
    <3>4. QED BY <3>1, <3>2, <3>3 DEF StepTypeOK
  <2>5. Tracked
    BY <2>1, <2>3 DEF StepInit, Tracked, Followed, OnItsWay, Fired, HasState
  <2>6. QED BY <2>1, <2>4, <2>5 DEF StepInit, StepInv
<1>2. StepInv => StepsTracked
  <2>1. SUFFICES ASSUME StepInv PROVE StepsTracked
    OBVIOUS
  <2>2. steps \in States /\ (steps.completed \/ ~steps.completed)
    BY <2>1 DEF StepInv, StepTypeOK
  <2>3. ASSUME ~replaced
        PROVE  /\ firings = <<>> \/ (Len(firings) = 1 /\ Why(plan, firings[1], reads))
    <3>1. Tracked
      BY <2>1, <2>3 DEF StepInv
    <3>2. QED BY <2>2, <3>1 DEF Tracked, OnItsWay, Fired
  <2>4. FiresOnce
    <3>1. Len(<<>>) = 0
      OBVIOUS
    <3>2. QED BY <2>3, <3>1 DEF FiresOnce
  <2>5. FiresWithReason
    <3>1. ASSUME firings # <<>>, ~replaced PROVE Reason
      <4>1. Why(plan, firings[1], reads)
        BY <2>3, <3>1
      <4>2. \A n : MetIn(plan, reads, n) <=> MetInTurn(n)
        BY DEF MetIn, MetInTurn
      <4>3. firings[1].kind \in {"completed", "skipped", "timeout"}
        <5>1. firings \in Seq(Firings) /\ Len(firings) = 1
          BY <2>1, <2>3, <3>1 DEF StepInv, StepTypeOK
        <5>2. firings[1] \in Firings
          BY <5>1
        <5>3. QED BY <5>2 DEF Firings
      <4>4. CASE firings[1].kind = "completed"
        BY <4>1, <4>2, <4>4 DEF Why, Reason, Firing
      <4>5. CASE firings[1].kind = "skipped"
        BY <4>1, <4>2, <4>5 DEF Why, Reason, Firing
      <4>6. CASE firings[1].kind = "timeout"
        BY <4>1, <4>2, <4>6 DEF Why, Reason, Firing
      <4>7. QED BY <4>3, <4>4, <4>5, <4>6
    <3>2. QED BY <3>1 DEF FiresWithReason
  <2>6. RaisesOnlyReplaced
    BY <2>1 DEF StepInv, RaisesOnlyReplaced
  <2>7. QED BY <2>4, <2>5, <2>6 DEF StepsTracked
<1>3. QED BY <1>1, <1>2, StepKept, PTL DEF StepSpec
=============================================================================
