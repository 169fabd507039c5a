---------------------------- MODULE StepTracking ----------------------------
(***************************************************************************)
(* One person followed through a camera's step sequence: advance of        *)
(* agent/pipeline/sequence_engine.py, the state it keeps per track and the *)
(* pruning of that state in person_tracker.py, and the two places of       *)
(* camera_worker.py that call them and replace the sequence under way.     *)
(* ByteTrack, which gives the track its number, is vendored; what the code *)
(* relies on is that a person missed for at most LostFrames sampled frames *)
(* keeps the number.                                                       *)
(***************************************************************************)
EXTENDS Integers, Sequences

CONSTANTS Plans,      \* step sequences: tuples of [zone, pose, max]
          Zones,      \* zones of the camera, the one of no zone left out
          Poses,      \* labels of the pose model
          AnyPose,    \* a step's pose when it names none
          NoLimit,    \* a step's max_seconds when it has none
          Interval,   \* seconds from one sampled frame to the next
          LostFrames, \* ByteTrack's max_time_lost
          StateTTL,   \* track_ttl_seconds
          Frames      \* bound: frames sampled

NoZone == "nowhere"
ASSUME StepAssumption ==
    /\ {Interval, LostFrames, StateTTL, Frames, NoLimit} \subseteq Nat /\ Interval > 0
    /\ NoZone \notin Zones /\ AnyPose \notin Poses
    /\ Plans \subseteq Seq([zone : Zones, pose : Poses \union {AnyPose}, max : Nat])
    \* The tracker forgets the number no later than the state: see the README.
    /\ (LostFrames + 1) * Interval <= StateTTL

VARIABLES now, plan,
          missed,    \* sampled frames since the person was seen
          steps,     \* the track's SequenceState, with last_seen
          reads,     \* history: what this track showed since its state was made
          firings,   \* history: events of this track, by its number
          replaced,  \* history: the plan was replaced while this state was under way
          broke      \* advance raised

stepVars == <<now, plan, missed, steps, reads, firings, replaced, broke>>

NoState == [index |-> 0, entered |-> 0, completed |-> FALSE, seen |-> 0]
HasState == steps # NoState
\* SequenceState(); step_entered_at is set by the first call of advance.
NewState == [index |-> 1, entered |-> now, completed |-> FALSE, seen |-> now]
State == IF HasState THEN steps ELSE NewState

StepInit ==
    /\ now = 1 /\ plan \in Plans
    /\ missed = LostFrames + 1
    /\ steps = NoState /\ reads = <<>> /\ firings = <<>>
    /\ replaced = FALSE /\ broke = FALSE

-----------------------------------------------------------------------------
(* advance                                                                  *)

Matches(step, r) == r.zone = step.zone /\ (step.pose = AnyPose \/ r.pose = step.pose)

LaterZones(i) == {plan[j].zone : j \in i + 1 .. Len(plan)} \ {plan[i].zone}

\* A slip in Fires: the zone of an earlier step counts as skipping too.
FiresForAnyZone(s, r) ==
    LET step == plan[s.index] IN
    CASE Matches(step, r) -> IF s.index = Len(plan) THEN "completed" ELSE "none"
      [] ~Matches(step, r) /\ r.zone \in {plan[j].zone : j \in 1..Len(plan)} \ {step.zone} -> "skipped"
      [] ~Matches(step, r) /\ step.max # NoLimit /\ now - s.entered > step.max -> "timeout"
      [] OTHER -> "none"

Fires(s, r) ==
    LET step == plan[s.index] IN
    CASE Matches(step, r) -> IF s.index = Len(plan) THEN "completed" ELSE "none"
      [] ~Matches(step, r) /\ r.zone \in LaterZones(s.index) -> "skipped"
      [] ~Matches(step, r) /\ r.zone \notin LaterZones(s.index)
            /\ step.max # NoLimit /\ now - s.entered > step.max -> "timeout"
      [] OTHER -> "none"

Advanced(s, r) ==
    IF Matches(plan[s.index], r)
    THEN [s EXCEPT !.index = @ + 1, !.entered = now, !.completed = s.index = Len(plan), !.seen = now]
    ELSE [s EXCEPT !.completed = Fires(s, r) # "none", !.seen = now]

-----------------------------------------------------------------------------
(* The frames.                                                              *)

NextFrame == now' = now + Interval /\ now < Frames * Interval
Expired(s) == now - s.seen > StateTTL

\* The person is in the frame, under the number it had if the tracker kept it.
SeePerson(r) ==
    LET sameTrack == missed <= LostFrames
        s == IF sameTrack THEN State ELSE NewState
        before == IF sameTrack THEN reads ELSE <<>>
        fired == IF sameTrack THEN firings ELSE <<>>
    IN
    /\ plan # <<>> /\ NextFrame /\ missed' = 0
    /\ \/ /\ s.completed
          /\ steps' = [s EXCEPT !.seen = now]
          /\ reads' = before /\ firings' = fired /\ broke' = FALSE
       \/ /\ ~s.completed /\ s.index <= Len(plan)
          /\ steps' = Advanced(s, r)
          /\ reads' = Append(before, [r EXCEPT !.at = now])
          /\ firings' = IF Fires(s, r) = "none" THEN fired
                        ELSE Append(fired, [kind |-> Fires(s, r), index |-> s.index,
                                            entered |-> s.entered])
          /\ broke' = FALSE
       \/ \* the plan has become shorter than the index: IndexError, and again at
          \* every frame until the state is pruned
          /\ ~s.completed /\ s.index > Len(plan)
          /\ steps' = [s EXCEPT !.seen = now]
          /\ reads' = before /\ firings' = fired /\ broke' = TRUE
    /\ replaced' = (IF sameTrack THEN replaced ELSE FALSE)
    /\ UNCHANGED plan

\* The person is not: the tracker counts, states last seen too long ago go.
MissPerson ==
    /\ plan # <<>> /\ NextFrame /\ missed <= LostFrames
    /\ missed' = missed + 1
    /\ steps' = IF HasState /\ Expired(steps) THEN NoState ELSE steps
    /\ reads' = IF HasState /\ Expired(steps) THEN <<>> ELSE reads
    /\ broke' = FALSE
    /\ UNCHANGED <<plan, firings, replaced>>

\* Without a sequence the tracker is not called at all.
SkipFrame ==
    /\ plan = <<>> /\ NextFrame
    /\ UNCHANGED <<plan, missed, steps, reads, firings, replaced, broke>>

\* update_config: the sequence is not part of the stream's signature, so the
\* worker goes on with its tracks.
ReplacePlan(p) ==
    /\ p # plan
    /\ plan' = p
    /\ replaced' = (replaced \/ HasState)
    /\ UNCHANGED <<now, missed, steps, reads, firings, broke>>

StepNext ==
    \/ MissPerson \/ SkipFrame
    \/ \E z \in Zones \union {NoZone}, q \in Poses :
         SeePerson([zone |-> z, pose |-> q, at |-> 0])
    \/ \E p \in Plans : ReplacePlan(p)

StepSpec == StepInit /\ [][StepNext]_stepVars

-----------------------------------------------------------------------------
(* Properties.                                                              *)

\* "the first (and only the first) time": one number fires once, whatever frames
\* miss the person in between.  (With the sequence away for a while nothing is
\* tracked: the state may be pruned before the tracker gives up the number.)
FiresOnce == ~replaced => Len(firings) <= 1

\* What fired, told from the readings alone: completed is every step met in turn;
\* skipped is a zone of a later step before the step was met; timeout is the step
\* entered too long ago and not met since.
Firing == firings[1]
MetInTurn(n) ==
    \E at \in [1..n -> 1..Len(reads)] :
        \A i \in 1..n : Matches(plan[i], reads[at[i]]) /\ \A j \in 1..i - 1 : at[j] < at[i]
Reason ==
    LET last == reads[Len(reads)] IN
    CASE Firing.kind = "completed" -> MetInTurn(Len(plan))
      [] Firing.kind = "skipped" ->
            /\ ~MetInTurn(Firing.index) /\ MetInTurn(Firing.index - 1)
            /\ \E j \in Firing.index + 1 .. Len(plan) : plan[j].zone = last.zone
      [] Firing.kind = "timeout" ->
            /\ ~MetInTurn(Firing.index) /\ MetInTurn(Firing.index - 1)
            /\ \A i \in 1..Len(reads) : reads[i].at > Firing.entered =>
                  ~Matches(plan[Firing.index], reads[i])
            /\ last.at - Firing.entered > plan[Firing.index].max
FiresWithReason == firings # <<>> /\ ~replaced /\ reads # <<>> => Reason

\* advance raises only under a sequence that was replaced on its way.
RaisesOnlyReplaced == broke => replaced

StepsTracked == FiresOnce /\ FiresWithReason /\ RaisesOnlyReplaced
=============================================================================
