------------------------------ MODULE Digests ------------------------------
(***************************************************************************)
(* Scheduled digests of one organisation: the cron jobs each backend       *)
(* process plans when it starts, the window a job computes when it fires,  *)
(* the events it samples and the digest it delivers and stores             *)
(* (backend/app/services/digest/scheduler.py, service.py, sampler.py and   *)
(* the preferences routes of api/digests.py).  Time is in hours from the   *)
(* midnight of the first day; an event is the hour it happened in.         *)
(***************************************************************************)
EXTENDS Integers, Sequences, FiniteSetsExt, Functions

CONSTANTS Servers,    \* backend processes
          Mornings, Evenings, \* hours the preferences may name
          EventHours, \* hours in which something may happen
          SampleCap,  \* digest_max_events_per_window
          LastHour    \* bound

ASSUME DigestAssumption ==
    /\ Mornings \union Evenings \subseteq 0..23 /\ EventHours \subseteq Nat
    /\ SampleCap \in Nat \ {0, 1} /\ LastHour \in Nat

VARIABLES hour, happened,
          wanted,    \* the preferences row: morning and evening
          cron,      \* what each process has planned; NotRunning without a process
          due,       \* jobs that fire in this hour and have not run yet
          digests,   \* digests generated
          messages   \* digests sent to the owner's phone and the dashboard, with their server

digestVars == <<hour, happened, wanted, cron, due, digests, messages>>

NotRunning == [morning |-> -1, evening |-> -1]   \* a process that is not running
Kinds == {"morning", "evening"}
Day(h) == (h \div 24) * 24
DueAt(h, plans) == {j \in Servers \X Kinds : plans[j[1]][j[2]] = h % 24}

DigestInit ==
    /\ hour = 20
    /\ happened \in SUBSET EventHours
    /\ wanted \in [morning : Mornings, evening : Evenings]
    /\ cron = [s \in Servers |-> wanted]
    /\ due = DueAt(20, cron)
    /\ digests = {} /\ messages = {}

-----------------------------------------------------------------------------
(* The windows.                                                             *)

\* compute_morning_window: 22:00 of the day nine hours before its end falls in.
MorningStart(now, m) == Day(Day(now) + m - 9) + 22
EveningStart(now) == Day(now) + 7

Window(kind, now) ==
    IF kind = "morning" THEN [from |-> MorningStart(now, wanted.morning), to |-> Day(now) + wanted.morning]
    ELSE [from |-> EveningStart(now), to |-> Day(now) + wanted.evening]

\* ORDER BY the time: at each place the event that has so many before it.
InTimeOrder(E) ==
    [i \in 1..Cardinality(E) |-> CHOOSE e \in E : Cardinality({x \in E : x < e}) = i - 1]

\* _load_events: what is in the table when the job runs.
Loaded(w) == InTimeOrder({e \in happened : w.from <= e /\ e < w.to /\ e <= hour})

\* sample_evenly: round(i * (n - 1) / (cap - 1)), halves to the even index.
RoundHalfEven(a, b) == LET q == a \div b
                           r == 2 * (a % b)
                       IN IF r < b \/ (r = b /\ q % 2 = 0) THEN q ELSE q + 1

\* A slip in SampledEvenly: steps of n / cap, which never reach the last event.
SampledShort(s) ==
    IF Len(s) <= SampleCap THEN s
    ELSE [i \in 1..SampleCap |-> s[1 + RoundHalfEven((i - 1) * Len(s), SampleCap + 1)]]

SampledEvenly(s) ==
    IF Len(s) <= SampleCap THEN s
    ELSE [i \in 1..SampleCap |-> s[1 + RoundHalfEven((i - 1) * (Len(s) - 1), SampleCap - 1)]]

-----------------------------------------------------------------------------
TickHour ==
    /\ hour < LastHour /\ due = {}
    /\ hour' = hour + 1 /\ due' = DueAt(hour + 1, cron)
    /\ UNCHANGED <<happened, wanted, cron, digests, messages>>

\* generate: what a job of process s says of the window that the preferences of
\* now give it.  A digest without the model's words is the same digest here.
DigestOf(s, k) ==
    LET w == Window(k, hour)
    IN  [kind |-> k, at |-> hour, from |-> w.from, to |-> w.to,
         events |-> SampledEvenly(Loaded(w)), planned |-> cron[s][k] = wanted[k]]

\* The row is flushed, the message goes out, and then comes the commit, which may
\* fail.
RunJob(s, k) ==
    /\ <<s, k>> \in due /\ due' = due \ {<<s, k>>}
    /\ messages' = messages \union {<<s, DigestOf(s, k)>>}
    /\ digests' \in {digests, digests \union {DigestOf(s, k)}}
    /\ UNCHANGED <<hour, happened, wanted, cron>>

\* The scheduler's loop was busy, or the process is gone: the run is skipped.
MissJob(s, k) ==
    /\ <<s, k>> \in due /\ due' = due \ {<<s, k>>}
    /\ UNCHANGED <<hour, happened, wanted, cron, digests, messages>>

\* PUT /preferences reaches no scheduler.
ChangePreferences(p) ==
    /\ p # wanted /\ wanted' = p
    /\ UNCHANGED <<hour, happened, cron, due, digests, messages>>

\* A process ends, with the runs it had not made, and another plans by the
\* preferences it finds.
StopServer(s) ==
    /\ cron[s] # NotRunning /\ cron' = [cron EXCEPT ![s] = NotRunning]
    /\ due' = {j \in due : j[1] # s}
    /\ UNCHANGED <<hour, happened, wanted, digests, messages>>
StartServer(s) ==
    /\ cron[s] = NotRunning /\ cron' = [cron EXCEPT ![s] = wanted]
    /\ UNCHANGED <<hour, happened, wanted, due, digests, messages>>

DigestNext ==
    \/ TickHour
    \/ \E s \in Servers, k \in Kinds : RunJob(s, k) \/ MissJob(s, k)
    \/ \E p \in [morning : Mornings, evening : Evenings] : ChangePreferences(p)
    \/ \E s \in Servers : StopServer(s) \/ StartServer(s)

-----------------------------------------------------------------------------
(* Properties.                                                              *)

\* "22:00 prior day -> morning_local_time today", "07:00 today -> evening": a job
\* planned by the preferences that still hold tells exactly the events of that
\* span, all of them or a sample that has the first, the last and none twice.
Span(d) == IF d.kind = "morning" THEN Day(d.at) - 2 .. d.at - 1 ELSE Day(d.at) + 7 .. d.at - 1
SpanTold ==
    \A d \in digests :
        LET E == happened \intersect Span(d) IN
        d.planned =>
            /\ Range(d.events) \subseteq E /\ IsInjective(d.events)
            /\ IF Cardinality(E) <= SampleCap THEN Range(d.events) = E
               ELSE {Min(E), Max(E)} \subseteq Range(d.events) /\ Len(d.events) = SampleCap

\* What is stored was told: no digest waits in the dashboard that nobody heard of.
StoredWasTold == \A d \in digests : \E s \in Servers : <<s, d>> \in messages

DigestsHold == SpanTold /\ StoredWasTold
=============================================================================
