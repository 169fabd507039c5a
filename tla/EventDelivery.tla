---------------------------- MODULE EventDelivery ----------------------------
(***************************************************************************)
(* How an event gets from a camera worker to the backend: post_event, the  *)
(* offline queue it falls back on and the drains that replay the queue     *)
(* (agent/pipeline/api_client.py, offline_queue.py).  Every camera worker  *)
(* has an ApiClient of its own and the supervisor has one more; all open   *)
(* the same SQLite file, each with its own connection and drain lock, so   *)
(* SQL statements of different clients interleave.  A request may fail,    *)
(* or be committed by the backend and then time out.                       *)
(***************************************************************************)
EXTENDS Sequences, Integers, FiniteSets

CONSTANTS
          Events,       \* numbered in the order they are detected
          Clients,      \* the ApiClients of the camera workers
          Supervisor,   \* the supervisor's ApiClient: heartbeats and drains only
          MaxRows,      \* offline_queue_max_rows
          Batch,        \* rows per drain
          MaxLosses     \* bound: failed requests and stopped workers

ASSUME DeliveryAssumption ==
    /\ Events \subseteq Nat
    /\ IsFiniteSet(Clients) /\ Supervisor \notin Clients
    /\ MaxRows \in Nat \ {0} /\ Batch \in Nat \ {0} /\ MaxLosses \in Nat

All == Clients \cup {Supervisor}

VARIABLES queue,      \* the ids of the rows in table events
          post,       \* what each worker's post_event is doing
          drain,      \* what each client's _drain_queue is doing
          due,        \* clients with a drain task spawned and not yet run
          received,   \* how often the backend has committed each event
          fate,       \* how the edge is done with an event
          arrival,    \* the event of every row id there was (AUTOINCREMENT)
          replayed,   \* history: events committed by a drain
          losses

deliveryVars == <<queue, post, drain, due, received, fate, arrival, replayed, losses>>

AtRest == [at |-> "idle"]

DeliveryTypeOK ==
    /\ arrival \in Seq(Events) /\ queue \subseteq DOMAIN arrival
    /\ post \in [Clients -> {AtRest} \cup [at : {"posting", "inserting", "counting"}, event : Events]
                                   \cup [at : {"trimming"}, excess : Nat \ {0}]]
    /\ drain \in [All -> {AtRest}
                    \cup [at : {"posting"}, rest : (SUBSET DOMAIN arrival) \ {{}},
                          sent : SUBSET DOMAIN arrival]
                    \cup [at : {"deleting"}, sent : SUBSET DOMAIN arrival]]
    /\ due \subseteq All
    /\ received \in [Events -> Nat]
    /\ fate \in [Events -> {"new", "pending", "accepted", "refused", "dropped", "abandoned"}]
    /\ replayed \subseteq Events
    /\ losses \in 0 .. MaxLosses

DeliveryInit ==
    /\ queue = {} /\ arrival = <<>>
    /\ post = [c \in Clients |-> AtRest]
    /\ drain = [c \in All |-> AtRest]
    /\ due = {}
    /\ received = [e \in Events |-> 0]
    /\ fate = [e \in Events |-> "new"]
    /\ replayed = {}
    /\ losses = 0

Fault == losses < MaxLosses /\ losses' = losses + 1
Commit(e) == received' = [received EXCEPT ![e] = @ + 1]
\* The request failed: refused or lost on the way, answered 5xx, or committed
\* with the answer lost.
Failed(e) == Fault /\ (Commit(e) \/ UNCHANGED received)

------------------------------------------------------------------------------
(* post_event. *)

Detect(c, e) ==
    /\ post[c] = AtRest
    /\ fate[e] = "new"
    /\ \A f \in Events : fate[f] = "new" => e <= f
    /\ fate' = [fate EXCEPT ![e] = "pending"]
    /\ post' = [post EXCEPT ![c] = [at |-> "posting", event |-> e]]
    /\ UNCHANGED <<queue, drain, due, received, arrival, replayed, losses>>

\* 201: done, and a good moment to replay what is queued.
PostAccepted(c) ==
    /\ post[c].at = "posting"
    /\ Commit(post[c].event)
    /\ fate' = [fate EXCEPT ![post[c].event] = "accepted"]
    /\ post' = [post EXCEPT ![c] = AtRest]
    /\ due' = due \cup {c}
    /\ UNCHANGED <<queue, drain, arrival, replayed, losses>>

\* 4xx (the camera is deleted): it will never succeed.
PostRefused(c) ==
    /\ post[c].at = "posting"
    /\ Fault
    /\ fate' = [fate EXCEPT ![post[c].event] = "refused"]
    /\ post' = [post EXCEPT ![c] = AtRest]
    /\ UNCHANGED <<queue, drain, due, received, arrival, replayed>>

\* Mutant: an answer other than 201 is taken for a refusal.
PostForgotten(c) ==
    /\ post[c].at = "posting"
    /\ Failed(post[c].event)
    /\ post' = [post EXCEPT ![c] = AtRest]
    /\ UNCHANGED <<queue, drain, due, fate, arrival, replayed>>

PostFailed(c) ==
    /\ post[c].at = "posting"
    /\ Failed(post[c].event)
    /\ post' = [post EXCEPT ![c].at = "inserting"]
    /\ UNCHANGED <<queue, drain, due, fate, arrival, replayed>>

\* The three statements of _enqueue_sync, each committed on its own.
Insert(c) ==
    /\ post[c].at = "inserting"
    /\ arrival' = Append(arrival, post[c].event)
    /\ queue' = queue \cup {Len(arrival')}
    /\ post' = [post EXCEPT ![c].at = "counting"]
    /\ UNCHANGED <<drain, due, received, fate, replayed, losses>>

\* Mutant: the cap is compared with the rows there were before the insert.
CountBefore(c) ==
    /\ post[c].at = "counting"
    /\ post' = [post EXCEPT ![c] =
                   IF Cardinality(queue) - 1 > MaxRows
                   THEN [at |-> "trimming", excess |-> Cardinality(queue) - 1 - MaxRows]
                   ELSE AtRest]
    /\ UNCHANGED <<queue, drain, due, received, fate, arrival, replayed, losses>>

Count(c) ==
    /\ post[c].at = "counting"
    /\ post' = [post EXCEPT ![c] =
                   IF Cardinality(queue) > MaxRows
                   THEN [at |-> "trimming", excess |-> Cardinality(queue) - MaxRows]
                   ELSE AtRest]
    /\ UNCHANGED <<queue, drain, due, received, fate, arrival, replayed, losses>>

\* SELECT id FROM events ORDER BY id ASC LIMIT n
Oldest(n) == {i \in queue : Cardinality({j \in queue : j < i}) < n}
Held(ids) == {arrival[i] : i \in ids}

\* Drop the oldest rows there are by now.
Trim(c) ==
    /\ post[c].at = "trimming"
    /\ fate' = [e \in Events |-> IF e \in Held(Oldest(post[c].excess)) THEN "dropped" ELSE fate[e]]
    /\ queue' = queue \ Oldest(post[c].excess)
    /\ post' = [post EXCEPT ![c] = AtRest]
    /\ UNCHANGED <<drain, due, received, arrival, replayed, losses>>

------------------------------------------------------------------------------
(* _drain_queue. *)

\* Mutant: the size test is the wrong way round.
HeartbeatWhenEmpty ==
    /\ Supervisor \notin due
    /\ queue = {}
    /\ due' = due \cup {Supervisor}
    /\ UNCHANGED <<queue, post, drain, received, fate, arrival, replayed, losses>>

\* A heartbeat succeeded and the queue is not empty.
Heartbeat ==
    /\ Supervisor \notin due
    /\ queue # {}
    /\ due' = due \cup {Supervisor}
    /\ UNCHANGED <<queue, post, drain, received, fate, arrival, replayed, losses>>

\* The spawned task runs: nothing to do while another task of this client holds
\* the lock, or when no row is left.
BeginDrain(c) ==
    /\ c \in due
    /\ due' = due \ {c}
    /\ IF drain[c] = AtRest /\ queue # {}
       THEN drain' = [drain EXCEPT ![c] =
                        [at |-> "posting", rest |-> Oldest(Batch), sent |-> {}]]
       ELSE UNCHANGED drain
    /\ UNCHANGED <<queue, post, received, fate, arrival, replayed, losses>>

CurrentRow(c) == CHOOSE i \in drain[c].rest : \A j \in drain[c].rest : i <= j
Current(c) == arrival[CurrentRow(c)]

\* 201 or 4xx: the row may go.  On to the next one of the batch.
Advance(c) ==
    LET rest == drain[c].rest \ {CurrentRow(c)}
        sent == drain[c].sent \cup {CurrentRow(c)}
    IN drain' = [drain EXCEPT ![c] =
                    IF rest = {} THEN [at |-> "deleting", sent |-> sent]
                    ELSE [at |-> "posting", rest |-> rest, sent |-> sent]]

DrainAccepted(c) ==
    /\ drain[c].at = "posting"
    /\ Commit(Current(c))
    /\ replayed' = replayed \cup {Current(c)}
    /\ Advance(c)
    /\ UNCHANGED <<queue, post, due, fate, arrival, losses>>

DrainRefused(c) ==
    /\ drain[c].at = "posting"
    /\ Fault
    /\ fate' = [fate EXCEPT ![Current(c)] = "refused"]
    /\ Advance(c)
    /\ UNCHANGED <<queue, post, due, received, arrival, replayed>>

\* Mutant: a failed row is skipped and the batch goes on.
DrainSkipped(c) ==
    /\ drain[c].at = "posting"
    /\ Failed(Current(c))
    /\ drain' = [drain EXCEPT ![c] =
                    IF drain[c].rest = {CurrentRow(c)}
                    THEN [at |-> "deleting", sent |-> drain[c].sent]
                    ELSE [@ EXCEPT !.rest = @ \ {CurrentRow(c)}]]
    /\ UNCHANGED <<queue, post, due, fate, arrival, replayed>>

\* 5xx or a connection error: halt, keep this row and the rest for later.
DrainHalted(c) ==
    /\ drain[c].at = "posting"
    /\ Failed(Current(c))
    /\ drain' = [drain EXCEPT ![c] = [at |-> "deleting", sent |-> drain[c].sent]]
    /\ UNCHANGED <<queue, post, due, fate, arrival, replayed>>

\* Mutant: the rows are kept.
KeepSent(c) ==
    /\ drain[c].at = "deleting"
    /\ drain' = [drain EXCEPT ![c] = AtRest]
    /\ UNCHANGED <<queue, post, due, received, fate, arrival, replayed, losses>>

DeleteSent(c) ==
    /\ drain[c].at = "deleting"
    /\ queue' = queue \ drain[c].sent
    /\ fate' = [e \in Events |->
                   IF e \in Held(drain[c].sent) /\ fate[e] = "pending" THEN "accepted" ELSE fate[e]]
    /\ drain' = [drain EXCEPT ![c] = AtRest]
    /\ UNCHANGED <<post, due, received, arrival, replayed, losses>>

------------------------------------------------------------------------------
\* CameraWorker.stop, or the process dies: the worker's task is cancelled, then
\* ApiClient.close cancels the drain.  A request on its way may still be
\* committed; a statement that has begun is finished by its thread.
StopWorker(c) ==
    /\ post[c].at \in {"idle", "posting", "inserting"}
    /\ post[c] # AtRest \/ drain[c] # AtRest \/ c \in due
    /\ Fault
    /\ fate' = IF post[c] = AtRest THEN fate ELSE [fate EXCEPT ![post[c].event] = "abandoned"]
    /\ \/ UNCHANGED <<received, replayed>>
       \/ post[c].at = "posting" /\ Commit(post[c].event) /\ UNCHANGED replayed
       \/ /\ drain[c].at = "posting"
          /\ Commit(Current(c))
          /\ replayed' = replayed \cup {Current(c)}
    /\ post' = [post EXCEPT ![c] = AtRest]
    /\ drain' = [drain EXCEPT ![c] = AtRest]
    /\ due' = due \ {c}
    /\ UNCHANGED <<queue, arrival>>

Post(c) ==
    \/ PostAccepted(c) \/ PostRefused(c) \/ PostFailed(c)
    \/ Insert(c) \/ Count(c) \/ Trim(c)
Drain(c) == DrainAccepted(c) \/ DrainRefused(c) \/ DrainHalted(c) \/ DeleteSent(c)

DeliveryNext ==
    \/ \E c \in Clients : Post(c) \/ StopWorker(c) \/ \E e \in Events : Detect(c, e)
    \/ \E c \in All : BeginDrain(c) \/ Drain(c)
    \/ Heartbeat

Delivery == DeliveryInit /\ [][DeliveryNext]_deliveryVars

\* Requests end (15 s), threads run, and the supervisor's heartbeat goes on.
DeliveryFairness ==
    /\ \A c \in Clients : WF_deliveryVars(Post(c))
    /\ \A c \in All : WF_deliveryVars(BeginDrain(c)) /\ WF_deliveryVars(Drain(c))
    /\ WF_deliveryVars(Heartbeat)

FairDelivery == Delivery /\ DeliveryFairness

------------------------------------------------------------------------------
InHand(e) == \E c \in Clients : post[c].at \in {"posting", "inserting"} /\ post[c].event = e

\* Nothing is lost silently: an event the edge has not been refused, dropped for
\* room or abandoned with a stopped worker is committed by the backend, queued,
\* or in the hands of its worker.
Accounted ==
    \A e \in Events :
        /\ fate[e] = "pending" => e \in Held(queue) \/ InHand(e) \/ received[e] > 0
        /\ fate[e] = "accepted" => received[e] > 0

\* The queue outgrows its cap only by rows whose clients have not counted yet.
QueueBounded ==
    Cardinality(queue) <= MaxRows + Cardinality({c \in Clients : post[c].at \in {"counting", "trimming"}})

\* "Persistent FIFO queue" (offline_queue.py:30): whichever clients drain, an
\* event is replayed only after every event queued before it.
ReplayedInOrder ==
    \A i, j \in 1 .. Len(arrival) :
        i < j /\ arrival[j] \in replayed
            => arrival[i] \in replayed \/ fate[arrival[i]] \in {"refused", "dropped"}

\* An event is committed once, and once more at most for each lost answer, each
\* stopped worker and each other client that may be draining.
DuplicatesBounded == \A e \in Events : received[e] <= Cardinality(All) + losses

\* All of these at once, whatever the order of failures, stops and drains.
DeliveryHolds == DeliveryTypeOK /\ Accounted /\ QueueBounded /\ ReplayedInOrder /\ DuplicatesBounded

\* The queue "replays them once the backend becomes reachable again"
\* (offline_queue.py:3-5).
ReplayedEventually == <>[](queue = {})

==============================================================================
