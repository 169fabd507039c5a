--------------------------- MODULE FramePipeline ---------------------------
(***************************************************************************)
(* One camera's loop on the box: read a frame, analyse it, and for every   *)
(* event of it upload a snapshot and perhaps a clip through URLs the       *)
(* backend signs, then post the event or queue it                          *)
(* (agent/pipeline/camera_worker.py, stream_ingest.py, event_packager.py,  *)
(* gcs_uploader.py, backend/app/api/edge_uploads.py).  What a post that    *)
(* was queued goes through is EventDelivery's; here it is one step.        *)
(***************************************************************************)
EXTENDS Integers, Sequences

CONSTANTS Shots,      \* bound: events the camera sees, 1..Shots
          PerFrame,   \* bound: events in one frame
          QueueReady  \* the offline queue's file could be opened

ASSUME FrameAssumption == {Shots, PerFrame} \subseteq Nat /\ QueueReady \in BOOLEAN

VARIABLES feed,      \* the camera delivers
          link,      \* the backend answers
          bucket,    \* the object store answers
          phase,     \* where the loop is
          pending,   \* the frame's events not yet handed over, the first one in work
          shot,      \* events detected so far
          part,      \* what is being uploaded for the first of them
          objects,   \* objects in the store
          claimed,   \* the parts an event's payload names
          fate       \* what became of each event

frameVars == <<feed, link, bucket, phase, pending, shot, part, objects, claimed, fate>>

Kept == {"posted", "queued"}
LoopAt(p) == phase = p
First == Head(pending)

FrameInit ==
    /\ feed = TRUE /\ link = TRUE /\ bucket = TRUE
    /\ phase = "read" /\ pending = <<>> /\ shot = 0 /\ part = "snapshot"
    /\ objects = {}
    /\ claimed = [e \in 1..Shots |-> {}]
    /\ fate = [e \in 1..Shots |-> "none"]

Outside == \/ feed' = ~feed /\ UNCHANGED <<link, bucket>>
           \/ link' = ~link /\ UNCHANGED <<feed, bucket>>
           \/ bucket' = ~bucket /\ UNCHANGED <<feed, link>>
World == Outside /\ UNCHANGED <<phase, pending, shot, part, objects, claimed, fate>>

-----------------------------------------------------------------------------
(* Reading.  A frame that is not sampled, or that shows nothing, changes    *)
(* nothing here.                                                            *)

ReadFrame(n) ==
    /\ LoopAt("read") /\ feed /\ n <= PerFrame /\ shot + n <= Shots
    /\ pending' = [i \in 1..n |-> shot + i]
    /\ shot' = shot + n
    /\ phase' = "url" /\ part' = "snapshot"
    /\ UNCHANGED <<feed, link, bucket, objects, claimed, fate>>

\* A short read: back off, then stop the decoder and start another.  start()
\* clears reconnect_attempts, so the back-off never grows and the limit of five
\* is never reached; the loop ends only when no process can be spawned.
ReadFails ==
    /\ LoopAt("read") /\ ~feed
    /\ phase' = "retry"
    /\ UNCHANGED <<feed, link, bucket, pending, shot, part, objects, claimed, fate>>

Reconnect ==
    /\ LoopAt("retry")
    /\ phase' \in {"read", "stopped"}
    /\ UNCHANGED <<feed, link, bucket, pending, shot, part, objects, claimed, fate>>

-----------------------------------------------------------------------------
(* package_and_send, one event after the other.                             *)

\* The exception of any step ends the frame: the events left in it are lost, the
\* error is noted for the heartbeat, and the loop sleeps a second.
FrameRaises(cause) ==
    /\ fate' = [e \in 1..Shots |-> IF \E i \in DOMAIN pending : pending[i] = e
                                   THEN cause ELSE fate[e]]
    /\ pending' = <<>> /\ phase' = "read"
    /\ UNCHANGED <<feed, link, bucket, shot, part, objects, claimed>>

\* POST /api/edge/upload-url; the path is in the organisation's own prefix.
AskUrl ==
    /\ LoopAt("url")
    /\ \/ /\ link /\ phase' = "put"
          /\ UNCHANGED <<feed, link, bucket, pending, shot, part, objects, claimed, fate>>
       \/ ~link /\ FrameRaises("noBackend")

\* After the snapshot the clip, when one could be cut; after the clip the post.
AfterPut == IF part = "snapshot" THEN {<<"url", "clip">>, <<"post", part>>} ELSE {<<"post", part>>}

\* A slip: an upload that fails is logged and its URI returned all the same.
PutQuietly ==
    /\ LoopAt("put")
    /\ objects' \in {objects, objects \union {<<First, part>>}}
    /\ claimed' = [claimed EXCEPT ![First] = @ \union {part}]
    /\ \E next \in AfterPut : phase' = next[1] /\ part' = next[2]
    /\ UNCHANGED <<feed, link, bucket, pending, shot, fate>>

PutObject ==
    /\ LoopAt("put")
    /\ \/ /\ bucket
          /\ objects' = objects \union {<<First, part>>}
          /\ claimed' = [claimed EXCEPT ![First] = @ \union {part}]
          /\ \E next \in AfterPut : phase' = next[1] /\ part' = next[2]
          /\ UNCHANGED <<feed, link, bucket, pending, shot, fate>>
       \/ ~bucket /\ FrameRaises("noStore")

\* 201, a 4xx that drops the event, or anything else: to the offline queue.
HandOver(result) ==
    /\ fate' = [fate EXCEPT ![First] = result]
    /\ pending' = Tail(pending)
    /\ phase' = IF Tail(pending) = <<>> THEN "read" ELSE "url"
    /\ part' = "snapshot"
    /\ UNCHANGED <<feed, link, bucket, shot, objects, claimed>>

Post ==
    /\ LoopAt("post")
    /\ \/ link /\ \E r \in {"posted", "refused"} : HandOver(r)
       \/ HandOver(IF QueueReady THEN "queued" ELSE "unqueued")

-----------------------------------------------------------------------------
(* The supervisor stops the worker: the tasks are cancelled wherever they   *)
(* wait, and what was being posted may have arrived.  It starts another     *)
(* when the camera is still assigned.                                       *)

Stop ==
    /\ ~LoopAt("stopped")
    /\ \E r \in IF LoopAt("post") /\ link THEN {"posted", "cancelled"} ELSE {"cancelled"} :
         fate' = [e \in 1..Shots |->
                    IF pending # <<>> /\ e = First THEN r
                    ELSE IF \E i \in DOMAIN pending : pending[i] = e THEN "cancelled" ELSE fate[e]]
    /\ phase' = "stopped" /\ pending' = <<>>
    /\ UNCHANGED <<feed, link, bucket, shot, part, objects, claimed>>

RestartLoop ==
    /\ LoopAt("stopped") /\ phase' = "read"
    /\ UNCHANGED <<feed, link, bucket, pending, shot, part, objects, claimed, fate>>

FrameNext ==
    \/ World \/ ReadFails \/ Reconnect \/ AskUrl \/ PutObject \/ Post \/ Stop \/ RestartLoop
    \/ \E n \in 1..PerFrame : ReadFrame(n)

FrameSpec == FrameInit /\ [][FrameNext]_frameVars

-----------------------------------------------------------------------------
(* Properties.                                                              *)

\* "Callers must not persist a fabricated URI for an object that was never
\* actually written" (gcs_uploader.py): what is posted or queued names objects
\* that exist, the snapshot among them.
ClaimsAreWritten ==
    \A e \in 1..Shots : fate[e] \in Kept =>
        "snapshot" \in claimed[e] /\ {<<e, p>> : p \in claimed[e]} \subseteq objects

\* Between frames every detected event has a known end, and events of a frame
\* are handed over in their order: one that was lost takes only later ones along.
EndsKnown ==
    /\ pending = <<>> => \A e \in 1..shot : fate[e] # "none"
    /\ \A e, f \in 1..shot : e < f /\ fate[e] = "none" => fate[f] = "none"

EventsHonest == ClaimsAreWritten /\ EndsKnown

\* offline_queue.py is the "queue for events when the backend is unreachable":
\* an event detected while it is would not be lost for that.  (The upload that
\* comes before the post needs the same backend; this fails.)
KeptWhileUnreachable == \A e \in 1..Shots : fate[e] # "noBackend"
=============================================================================
