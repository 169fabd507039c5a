---------------------------- MODULE AlertLadder ----------------------------
(* What the operators of an organisation are told about its events: the      *)
(* first notification, sent while the event is being ingested                *)
(* (api/internal.py, services/alert_service.py), and the escalation ladder   *)
(* that chases an event nobody acknowledged (services/alert_escalation.py).  *)
(*                                                                           *)
(* Every uvicorn process of the backend runs its own scheduler (main.py's    *)
(* lifespan), so several ladder sweeps run at once.  A sweep reads the open  *)
(* events, reads per event which rungs the alert history already records,    *)
(* sends what is due and writes the history, all in one transaction that     *)
(* commits at the very end.  A notification cannot be rolled back.           *)
(*                                                                           *)
(* One alert rule, matching every event of one camera and type, with one     *)
(* contact per rung.  The rule does not change: UpdateAlertRuleRequest       *)
(* (schemas/alert.py:24-37) has no escalation field.                         *)
EXTENDS Naturals, Sequences, FiniteSets

CONSTANTS Alarms,       \* the detections the edge reports
          Processes,    \* the backend processes, each with its own scheduler
          Ladder,       \* the rungs' after_seconds, in the rule's order
          Lookback,     \* MAX_LOOKBACK
          Cooldown,     \* the rule's cooldown_seconds
          MaxTime,      \* bound: the clock stops here
          MaxFailures,    \* bound: requests and sweeps that fail
          MaxAnswers    \* bound: status changes made by operators

Nobody == "no event"

ASSUME LadderAssumption ==
    /\ IsFiniteSet(Processes) /\ Nobody \notin Alarms
    /\ Ladder \in Seq(Nat) /\ Lookback \in Nat /\ Cooldown \in Nat \ {0}
    /\ MaxTime \in Nat /\ MaxFailures \in Nat /\ MaxAnswers \in Nat

VARIABLES now,       \* the clock both sides read
          request,   \* where the ingestion of each event stands
          born,      \* the time the edge put on each event
          status,    \* Event.status, once the event is stored
          cooldown,  \* when the rule's Redis cooldown key expires
          history,   \* the committed AlertHistory rows, <<event, rung>>
          sent,      \* how often each event's rungs were really sent
          sweep,     \* the sweep each process is in
          failures, answers

ladderVars == <<now, request, born, status, cooldown, history, sent, sweep, failures, answers>>

Rungs == DOMAIN Ladder
FirstFire == 0              \* AlertHistory.escalation_rung = NULL
Open == "new"
Statuses == {Open, "acknowledged", "closed"}   \* closed: resolved or dismissed

(* A sweep that is not running. *)
Idle == [active |-> FALSE, began |-> 0, todo |-> {}, event |-> Nobody,
         due |-> {}, rows |-> {}, shut |-> {}]

LadderInit ==
    /\ now = 0 /\ failures = 0 /\ answers = 0
    /\ request = [e \in Alarms |-> "none"]
    /\ born = [e \in Alarms |-> 0]
    /\ status = [e \in Alarms |-> Open]
    /\ cooldown = 0
    /\ history = {}
    /\ sent = [e \in Alarms |-> [r \in {FirstFire} \cup Rungs |-> 0]]
    /\ sweep = [p \in Processes |-> Idle]

Stored(e) == request[e] = "stored"

-----------------------------------------------------------------------------
(* POST /internal/events.  The event is flushed but not committed while the  *)
(* rule is evaluated; its timestamp is the edge's, and may be old when the   *)
(* event waited in the edge's queue.                                         *)

(* The cooldown key is looked up, and unless it exists the contacts are      *)
(* notified ...                                                              *)
Evaluate(e) ==
    /\ request[e] = "none"
    /\ \E t \in 0..now : born' = [born EXCEPT ![e] = t]
    /\ \/ /\ cooldown > now
          /\ request' = [request EXCEPT ![e] = "quiet"]
          /\ UNCHANGED sent
       \/ /\ cooldown <= now
          /\ request' = [request EXCEPT ![e] = "told"]
          /\ sent' = [sent EXCEPT ![e][FirstFire] = @ + 1]
    /\ UNCHANGED <<now, status, cooldown, history, sweep, failures, answers>>

(* Mutant: the cooldown is set without waiting for the notification. *)
SetCooldownAtOnce(e) ==
    /\ request[e] \in {"none", "told"}
    /\ request' = [request EXCEPT ![e] = IF @ = "told" THEN "fired" ELSE @]
    /\ cooldown' = now + Cooldown
    /\ UNCHANGED <<now, born, status, history, sent, sweep, failures, answers>>

(* ... and only after that is the cooldown set. *)
SetCooldown(e) ==
    /\ request[e] = "told"
    /\ request' = [request EXCEPT ![e] = "fired"]
    /\ cooldown' = now + Cooldown
    /\ UNCHANGED <<now, born, status, history, sent, sweep, failures, answers>>

CommitEvent(e) ==
    /\ request[e] \in {"quiet", "fired"}
    /\ request' = [request EXCEPT ![e] = "stored"]
    /\ history' = history \cup (IF request[e] = "fired" THEN {<<e, FirstFire>>} ELSE {})
    /\ UNCHANGED <<now, born, status, cooldown, sent, sweep, failures, answers>>

(* Redis, the database or the process fails: the event and its history row   *)
(* are rolled back, the edge keeps the event and posts it again.             *)
FailRequest(e) ==
    /\ failures < MaxFailures
    /\ request[e] \in {"quiet", "told", "fired"}
    /\ request' = [request EXCEPT ![e] = "none"]
    /\ born' = [born EXCEPT ![e] = 0]
    /\ failures' = failures + 1
    /\ UNCHANGED <<now, status, cooldown, history, sent, sweep, answers>>

-----------------------------------------------------------------------------
(* PATCH /events/{id}/status: any status can be set from any other.          *)
SetStatus(e, s) ==
    /\ answers < MaxAnswers
    /\ Stored(e) /\ status[e] # s
    /\ status' = [status EXCEPT ![e] = s]
    /\ sweep' = [p \in Processes |->       \* history variable: see AckStopsLadder
                   IF s = Open THEN [sweep[p] EXCEPT !.shut = @ \ {e}] ELSE sweep[p]]
    /\ answers' = answers + 1
    /\ UNCHANGED <<now, request, born, cooldown, history, sent, failures>>

-----------------------------------------------------------------------------
(* The ladder sweep.                                                         *)

(* Mutant: only closing an event stops its ladder. *)
CandidatesUntilClosed ==
    {e \in Alarms : Stored(e) /\ status[e] # "closed" /\ born[e] + Lookback >= now}

Candidates == {e \in Alarms : Stored(e) /\ status[e] = Open /\ born[e] + Lookback >= now}

(* Mutant: the history is not asked. *)
DueRungsAgain(age, fired) == {r \in Rungs : age >= Ladder[r]}

(* Mutant: straight to the highest rung that is due. *)
DueRungsTop(age, fired) ==
    {r \in Rungs : r \notin fired /\ age >= Ladder[r]
                      /\ \A q \in Rungs : age >= Ladder[q] => q <= r}

(* The rungs an event of that age should have fired and has not. *)
DueRungs(age, fired) == {r \in Rungs : r \notin fired /\ age >= Ladder[r]}

(* Mutant: the row of the first notification counts as the whole ladder. *)
FiredRungsOfAnyRow(e) == {r \in Rungs : \E f \in {FirstFire} \cup Rungs : <<e, f>> \in history}

FiredRungs(e) == {r \in Rungs : <<e, r>> \in history}

(* The scheduler starts the sweep, never two at once in a process. *)
BeginSweep(p) ==
    /\ ~sweep[p].active
    /\ Candidates # {}
    /\ sweep' = [sweep EXCEPT ![p] =
                   [Idle EXCEPT !.active = TRUE, !.began = now, !.todo = Candidates,
                                !.shut = {e \in Alarms : Stored(e) /\ status[e] # Open}]]
    /\ UNCHANGED <<now, request, born, status, cooldown, history, sent, failures, answers>>

(* The next event: its history is read here, its status was read at the start. *)
OpenEvent(p, e) ==
    /\ sweep[p].event = Nobody /\ e \in sweep[p].todo
    /\ LET due == DueRungs(sweep[p].began - born[e], FiredRungs(e))
       IN  sweep' = [sweep EXCEPT ![p].todo = @ \ {e},
                                  ![p].event = IF due = {} THEN Nobody ELSE e,
                                  ![p].due = due]
    /\ UNCHANGED <<now, request, born, status, cooldown, history, sent, failures, answers>>

(* Due rungs are sent in the ladder's order; the row waits for the commit. *)
SendRung(p) ==
    LET e == sweep[p].event IN
    \E r \in sweep[p].due :
        /\ \A other \in sweep[p].due : r <= other
        /\ sent' = [sent EXCEPT ![e][r] = @ + 1]
        /\ sweep' = [sweep EXCEPT ![p].due = @ \ {r},
                                  ![p].event = IF sweep[p].due = {r} THEN Nobody ELSE e,
                                  ![p].rows = @ \cup {<<e, r>>}]
        /\ UNCHANGED <<now, request, born, status, cooldown, history, failures, answers>>

(* Mutant: the sweep returns without committing. *)
CommitSweepForgotten(p) ==
    /\ sweep[p].active /\ sweep[p].todo = {} /\ sweep[p].event = Nobody
    /\ sweep' = [sweep EXCEPT ![p] = Idle]
    /\ UNCHANGED <<now, request, born, status, cooldown, history, sent, failures, answers>>

CommitSweep(p) ==
    /\ sweep[p].active /\ sweep[p].todo = {} /\ sweep[p].event = Nobody
    /\ history' = history \cup sweep[p].rows
    /\ sweep' = [sweep EXCEPT ![p] = Idle]
    /\ UNCHANGED <<now, request, born, status, cooldown, sent, failures, answers>>

(* run_escalation_sweep swallows the exception, or the process dies and is   *)
(* started again: either way the rows are lost and the next minute retries.  *)
FailSweep(p) ==
    /\ failures < MaxFailures
    /\ sweep[p].active
    /\ sweep' = [sweep EXCEPT ![p] = Idle]
    /\ failures' = failures + 1
    /\ UNCHANGED <<now, request, born, status, cooldown, history, sent, answers>>

SweepStep(p) ==
    \/ BeginSweep(p)
    \/ \E e \in Alarms : OpenEvent(p, e)
    \/ SendRung(p)
    \/ CommitSweep(p)

Tick ==
    /\ now < MaxTime
    /\ now' = now + 1
    /\ UNCHANGED <<request, born, status, cooldown, history, sent, sweep, failures, answers>>

LadderNext ==
    \/ \E e \in Alarms :
          \/ Evaluate(e) \/ SetCooldown(e) \/ CommitEvent(e) \/ FailRequest(e)
          \/ \E s \in Statuses : SetStatus(e, s)
    \/ \E p \in Processes : SweepStep(p) \/ FailSweep(p)
    \/ Tick

(* Each process's scheduler keeps firing and each sweep it starts makes      *)
(* progress (every send is capped by the HTTP client's timeout of 10 s).     *)
(* Nothing makes operators act, the edge report or the clock move.           *)
LadderSpec == LadderInit /\ [][LadderNext]_ladderVars /\ \A p \in Processes : WF_ladderVars(SweepStep(p))

-----------------------------------------------------------------------------
(* Properties                                                                *)

(* Every variable stays in its domain: an event is only being chased once it *)
(* is stored, and a sweep holds rungs only while it has an event in hand.    *)
LadderTypeOK ==
    /\ now \in 0..MaxTime /\ failures \in 0..MaxFailures /\ answers \in 0..MaxAnswers
    /\ request \in [Alarms -> {"none", "quiet", "told", "fired", "stored"}]
    /\ born \in [Alarms -> 0..MaxTime]
    /\ status \in [Alarms -> Statuses]
    /\ cooldown \in 0..(MaxTime + Cooldown)
    /\ history \subseteq Alarms \X ({FirstFire} \cup Rungs)
    /\ sent \in [Alarms -> [{FirstFire} \cup Rungs -> Nat]]
    /\ \A p \in Processes :
          /\ sweep[p].todo \subseteq {e \in Alarms : Stored(e)}
          /\ (sweep[p].event # Nobody) <=> (sweep[p].due # {})
          /\ ~sweep[p].active => sweep[p] = Idle

(* "Idempotent by construction" (alert_escalation.py:83-84), as far as the   *)
(* code keeps it: a rung of an event is sent at most once per process that   *)
(* sweeps, plus once for every request or sweep whose history was lost.      *)
SentOncePerProcess ==
    \A e \in Alarms :
        /\ sent[e][FirstFire] <= 1 + failures
        /\ \A r \in Rungs : sent[e][r] <= Cardinality(Processes) + failures

(* The ladder is climbed from the bottom and never early, also for an event  *)
(* the edge delivered late, and whatever several sweeps do at once.          *)
LadderClimbs ==
    \A e \in Alarms, r \in Rungs :
        sent[e][r] > 0 =>
            /\ now >= born[e] + Ladder[r]
            /\ \A q \in Rungs : q < r /\ Ladder[q] <= Ladder[r] => sent[e][q] > 0

(* Nothing is silenced for nothing: behind every stored event there was a    *)
(* notification, its own, one sent by an earlier attempt to store it, or the *)
(* one that started the cooldown.  A request that failed before telling      *)
(* anybody leaves no cooldown behind.                                        *)
StoredIsAnnounced ==
    \A e \in Alarms : Stored(e) => \E some \in Alarms : sent[some][FirstFire] > 0

(* "history IS the record of what was sent" (alert_escalation.py:66-68):     *)
(* a row is there only for what was sent, and while nothing has failed, once *)
(* no sweep is running, everything the ladder sent is recorded.              *)
HistoryIsTheRecord ==
    /\ \A row \in history : sent[row[1]][row[2]] > 0
    /\ failures = 0 /\ (\A p \in Processes : ~sweep[p].active) =>
          \A e \in Alarms, r \in Rungs : sent[e][r] > 0 => <<e, r>> \in history

(* All of these at once, with the domains above. *)
LadderHolds == LadderTypeOK /\ SentOncePerProcess /\ LadderClimbs /\ StoredIsAnnounced /\ HistoryIsTheRecord

(* Acknowledging stops the ladder: no rung is sent by a sweep that began     *)
(* after the event was acknowledged.  A sweep already running may still send *)
(* what it read as open, and nothing later does.                             *)
AckStopsLadder ==
    [][\A e \in Alarms, r \in Rungs :
          sent'[e][r] # sent[e][r] =>
             \E p \in Processes : sweep[p].event = e /\ e \notin sweep[p].shut]_ladderVars

(* No ladder silently stops (alert_escalation.py:179-181): while the clock   *)
(* leaves the event within the lookback and nobody handles it, a rung that   *)
(* is due is sent, also when sweeps fail.                                    *)
DueIsSentEventually ==
    \A e \in Alarms, r \in Rungs :
        (e \in Candidates /\ now >= born[e] + Ladder[r])
            ~> (sent[e][r] > 0 \/ e \notin Candidates)

(* What alert_escalation.py:83-84 claims outright: "a rung already present   *)
(* in AlertHistory is never re-sent, so running the sweep twice in the same  *)
(* window is harmless".                                                      *)
NeverSentTwice == \A e \in Alarms, r \in Rungs : sent[e][r] <= 1

=============================================================================
