------------------------------ MODULE Footfall ------------------------------
(***************************************************************************)
(* People counted across one line, from the crossing to the row: the       *)
(* running totals and their drain in agent/pipeline/footfall.py, the       *)
(* heartbeat that carries the difference, and the bucket worker_heartbeat  *)
(* stores (backend/app/api/internal.py).  Which crossings the vendored     *)
(* tracker sees is its own affair; Cross is one that it saw.               *)
(***************************************************************************)
EXTENDS Integers

CONSTANT Crossings   \* bound
ASSUME FootfallAssumption == Crossings \in Nat

VARIABLES crossed,   \* history: crossings seen
          total,     \* LineZone's count
          last,      \* _last_totals
          beat,      \* the bucket a heartbeat under way carries; -1: none under way
          applied,   \* its transaction has ended, committed or not
          stored,    \* sum of the committed buckets
          forgone,   \* history: counts given up with a heartbeat or a worker
          drawn,     \* the line as the operator drew it
          counting   \* the line the running worker was built with

footfallVars == <<crossed, total, last, beat, applied, stored, forgone, drawn, counting>>

NoBeat == -1

FootfallInit ==
    /\ crossed = 0 /\ total = 0 /\ last = 0 /\ stored = 0 /\ forgone = 0
    /\ beat = NoBeat /\ applied = FALSE
    /\ drawn = 1 /\ counting = 1

Cross ==
    /\ crossed < Crossings
    /\ crossed' = crossed + 1 /\ total' = total + 1
    /\ UNCHANGED <<last, beat, applied, stored, forgone, drawn, counting>>

\* A slip in Drain: the totals are sent, and subtracted from the next time only
\* when the heartbeat was answered.
DrainUnmarked ==
    /\ beat = NoBeat /\ beat' = total - last
    /\ applied' = FALSE
    /\ UNCHANGED <<crossed, total, last, stored, forgone, drawn, counting>>

\* heartbeat_payload of a worker that is alive.
Drain ==
    /\ beat = NoBeat /\ beat' = total - last
    /\ last' = total
    /\ applied' = FALSE
    /\ UNCHANGED <<crossed, total, stored, forgone, drawn, counting>>

\* The backend adds a row for a count that is not zero, of a camera that is live;
\* the transaction commits or fails with the rest of the heartbeat.
ApplyBeat ==
    /\ beat # NoBeat /\ ~applied
    /\ applied' = TRUE
    /\ \/ stored' = stored + beat /\ forgone' = forgone
       \/ stored' = stored /\ forgone' = forgone + beat
    /\ UNCHANGED <<crossed, total, last, beat, drawn, counting>>

\* Answered, or not: no heartbeat is sent twice.
EndBeat(kept) ==
    /\ beat # NoBeat
    /\ kept => applied
    /\ beat' = NoBeat /\ applied' = FALSE
    /\ forgone' = IF applied THEN forgone ELSE forgone + beat
    /\ UNCHANGED <<crossed, total, last, stored, drawn, counting>>

\* The worker died, or its stream settings changed: a new one with a new counter
\* and the lines of today's configuration.
ReplaceWorker ==
    /\ total' = 0 /\ last' = 0
    /\ forgone' = forgone + (total - last)
    /\ counting' = drawn
    /\ UNCHANGED <<crossed, beat, applied, stored, drawn>>

\* update_config replaces camera_config and nothing that was built from it.
DrawLine ==
    /\ drawn' = 3 - drawn
    /\ UNCHANGED <<crossed, total, last, beat, applied, stored, forgone, counting>>

FootfallNext ==
    \/ Cross \/ Drain \/ ApplyBeat \/ ReplaceWorker \/ DrawLine
    \/ \E kept \in BOOLEAN : EndBeat(kept)

FootfallSpec == FootfallInit /\ [][FootfallNext]_footfallVars

-----------------------------------------------------------------------------
\* "Counts are reported exactly once ... a dropped heartbeat loses that bucket
\* rather than double-counting the next one" (camera_worker.py): every crossing is
\* in one place, stored, on its way, still to be drained, or given up.
Underway == IF beat # NoBeat /\ ~applied THEN beat ELSE 0
CountedOnce == stored + Underway + (total - last) + forgone = crossed
=============================================================================
