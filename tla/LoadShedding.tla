---------------------------- MODULE LoadShedding ----------------------------
(***************************************************************************)
(* How one box finds out how many cameras it can run: CapacityTracker of   *)
(* agent/pipeline/capacity.py, fed by each health round of supervisor.py,  *)
(* the sampling rate halved on every camera while the box runs more than   *)
(* its capacity, and the backend that places up to the capacity last       *)
(* reported.  Fractions of time are percentages.  A camera's analysis time *)
(* grows with the cameras that share the box: n cameras of a cost c, the   *)
(* share of the box one takes at the full rate, are analysed n * c percent *)
(* of the time each.                                                       *)
(***************************************************************************)
EXTENDS Integers, Sequences

CONSTANTS Demand,      \* cameras the placement would give this box
          LoadCeiling, \* config.max_cameras
          CameraCosts, \* what a camera may cost, in percent of the box
          Agreement,   \* HYSTERESIS_SAMPLES
          MaxShifts,   \* bound: changes of the cost
          MaxMisses    \* bound: heartbeats lost and workers died

ASSUME LoadAssumption ==
    /\ {Demand, LoadCeiling, Agreement} \subseteq Nat \ {0}
    /\ CameraCosts \subseteq Nat /\ {MaxShifts, MaxMisses} \subseteq Nat

VARIABLES running,    \* workers of the box
          dead,       \* those of them whose task has ended
          sustained,  \* CapacityTracker.capacity
          reported,   \* the capacity the backend knows
          streak,     \* _over_streak and _under_streak
          factor,     \* load_factor of every sampler, in percent
          cost,       \* what one camera costs now
          spread,     \* least and most utilisation since the last round
          shifts, misses,
          readings    \* history: how each round since the last revision read

loadVars == <<running, dead, sustained, reported, streak, factor, cost, spread,
              shifts, misses, readings>>

Saturation == 75      \* SATURATION_RATIO
Degraded == 50        \* DEGRADED_LOAD_FACTOR
MinCapacity == 1      \* MIN_CAPACITY
Least(a, b) == IF a <= b THEN a ELSE b
Most(a, b) == IF a <= b THEN b ELSE a

Utilisation(n, f, c) == (n * f * c) \div 100
\* consume_utilisation resets the spread; until then it mixes what the box did.
FreshWindow(n, f, c) == [least |-> Utilisation(n, f, c), most |-> Utilisation(n, f, c)]
Mixed(n, f, c) == [least |-> Least(spread.least, Utilisation(n, f, c)),
                   most  |-> Most(spread.most, Utilisation(n, f, c))]

-----------------------------------------------------------------------------
(* observe: one reading, one step of a streak, perhaps a revision.          *)

\* A slip in Reading: growing as long as the box is not saturated.
ReadingEager(u, active) ==
    CASE active <= 0           -> "none"
      [] active > 0 /\ u > Saturation -> "over"
      [] active > 0 /\ u <= Saturation /\ active >= sustained -> "under"
      [] OTHER                 -> "fine"

Reading(u, active) ==
    CASE active <= 0                                           -> "none"
      [] active > 0 /\ u > Saturation                          -> "over"
      [] active > 0 /\ 2 * u < Saturation /\ active >= sustained -> "under"
      [] OTHER                                                 -> "fine"

\* A slip in Streaks: a reading in between leaves them.
StreaksKept(r) ==
    CASE r = "over"  -> [over |-> streak.over + 1, under |-> 0]
      [] r = "under" -> [over |-> 0, under |-> streak.under + 1]
      [] OTHER       -> streak

Streaks(r) ==
    CASE r = "over"  -> [over |-> streak.over + 1, under |-> 0]
      [] r = "under" -> [over |-> 0, under |-> streak.under + 1]
      [] r = "fine"  -> [over |-> 0, under |-> 0]
      [] r = "none"  -> streak

\* int(active * SATURATION_RATIO / mean), one less than now at least.
Sustainable(u, active) ==
    Most(MinCapacity, Least(Least((active * Saturation) \div Most(u, 1), sustained - 1), LoadCeiling))

Revision(u, active, s) ==
    CASE s.over >= Agreement                          -> Sustainable(u, active)
      [] s.over < Agreement /\ s.under >= Agreement   -> Least(LoadCeiling, sustained + 1)
      [] OTHER                                        -> sustained

\* _apply_load_factor
FactorFor(n, limit) == IF n > limit THEN Degraded ELSE 100

-----------------------------------------------------------------------------
LoadInit ==
    /\ sustained \in MinCapacity..LoadCeiling /\ reported = sustained \* declared_capacity
    /\ running = 0 /\ dead = 0
    /\ streak = [over |-> 0, under |-> 0]
    /\ factor = 100
    /\ cost \in CameraCosts
    /\ spread = FreshWindow(0, 100, cost)
    /\ shifts = 0 /\ misses = 0 /\ readings = <<>>

\* _health_check.  The mean is over every worker, the dead ones included, the
\* count passed to observe over the live ones; the heartbeat carries the result
\* and may be lost; dead workers are then replaced.
HealthRound(u, delivered) ==
    LET active == running - dead
        r == Reading(u, active)
        s == Streaks(r)
        limit == IF r = "none" THEN sustained ELSE Revision(u, active, s)
    IN
    /\ u \in {spread.least, spread.most} \* any mix lies between
    /\ delivered \/ misses < MaxMisses
    /\ streak' = IF s.over >= Agreement THEN [s EXCEPT !.over = 0]
                 ELSE IF s.under >= Agreement THEN [s EXCEPT !.under = 0] ELSE s
    /\ sustained' = limit
    /\ factor' = FactorFor(running, limit)
    /\ spread' = FreshWindow(running, factor', cost)
    /\ reported' = IF delivered THEN limit ELSE reported
    /\ dead' = 0
    /\ misses' = IF delivered THEN misses ELSE misses + 1
    /\ readings' = IF limit # sustained \/ s.over >= Agreement \/ s.under >= Agreement
                   THEN <<>> ELSE IF r = "none" THEN readings
                   ELSE Append(IF Len(readings) < Agreement THEN readings ELSE Tail(readings), r)
    /\ UNCHANGED <<running, cost, shifts>>

\* The backend places by the capacity reported, the box takes the set over and
\* starts what the ceiling admits.
Replace ==
    /\ running # Least(Demand, reported)
    /\ running' = Least(Demand, reported)
    /\ dead' = Least(dead, running')
    /\ spread' = Mixed(running', factor, cost)
    /\ UNCHANGED <<sustained, reported, streak, factor, cost, shifts, misses, readings>>

\* The scene changes: more people, another stream resolution.
ShiftCost(c) ==
    /\ shifts < MaxShifts /\ c # cost
    /\ cost' = c /\ shifts' = shifts + 1
    /\ spread' = Mixed(running, factor, c)
    /\ UNCHANGED <<running, dead, sustained, reported, streak, factor, misses, readings>>

WorkerDies ==
    /\ dead < running /\ misses < MaxMisses
    /\ dead' = dead + 1 /\ misses' = misses + 1
    /\ spread' = [spread EXCEPT !.least = Least(@, Utilisation(running - dead', factor, cost))]
    /\ UNCHANGED <<running, sustained, reported, streak, factor, cost, shifts, readings>>

RoundDelivered == \E u \in {spread.least, spread.most} : HealthRound(u, TRUE)
RoundLost == \E u \in {spread.least, spread.most} : HealthRound(u, FALSE)

LoadNext ==
    \/ RoundDelivered \/ RoundLost
    \/ Replace \/ WorkerDies
    \/ \E c \in CameraCosts : ShiftCost(c)

-----------------------------------------------------------------------------
(* Properties.                                                              *)

\* "One slow minute cannot shed cameras" (capacity.py): a revision is the fifth
\* of five readings in a row that say the same, all taken since the last one.
RevisedByAgreement ==
    [][sustained' # sustained =>
         /\ Len(readings) >= Agreement - 1
         /\ \A i \in Len(readings) - Agreement + 2 .. Len(readings) :
                readings[i] = (IF sustained' < sustained THEN "over" ELSE "under")]_loadVars

\* A busy afternoon does not cause placement thrash: at a cost that stays, the
\* capacity comes to rest, the box within it, and saturated at the minimum only.
AtRest(limit) ==
    /\ sustained = limit /\ running <= limit
    /\ (running * cost <= Saturation \/ limit = MinCapacity)
ComesToRest == \E limit \in 1..LoadCeiling : <>[]AtRest(limit)

\* Both: it moves on agreement alone, and not for ever.
ShedsCalmly == RevisedByAgreement /\ ComesToRest
=============================================================================
