------------------------------ MODULE Retention -----------------------------
(***************************************************************************)
(* The daily retention sweep, backend/app/services/retention.py, over the  *)
(* events of several organisations and their media in the bucket.  Every   *)
(* backend process runs the sweep; one sweep is one database transaction,  *)
(* and the bucket is outside it.                                           *)
(*                                                                         *)
(* An event with a row in alert_history cannot be deleted: its foreign key *)
(* has no ON DELETE.  A statement that fails aborts the transaction: what  *)
(* it deleted is rolled back and every later statement fails as well.      *)
(***************************************************************************)
EXTENDS Integers, Sequences, FiniteSets, FiniteSetsExt

CONSTANTS Sweeps,       \* backend processes, each with its scheduler
          OrgOrder,     \* the organisations in the order the query returns them
          Events,       \* event numbers, in the order of their timestamps
          OrgOf,        \* the organisation of each event
          Objects,      \* what an event may have in the bucket: a snapshot, a clip
          BatchLimit,   \* BATCH_LIMIT
          Alerts        \* may events be alerted on?

ASSUME RetentionAssumption ==
    /\ Events \subseteq Nat /\ IsFiniteSet(Events) /\ BatchLimit \in Nat \ {0}
    /\ OrgOf \in [Events -> {OrgOrder[i] : i \in DOMAIN OrgOrder}]
    /\ Alerts \in BOOLEAN

VARIABLES age,      \* "absent", "recent", or "expired" under any window
          row,      \* events whose row is committed
          media,    \* the objects of each event that are in the bucket
          alerted,  \* events named by a row of alert_history
          window,   \* organisations with a retention window; the others keep forever
          sweep     \* what each process's sweep has done and does next

retentionVars == <<age, row, media, alerted, window, sweep>>

NoSweep == [at |-> 0, orgs |-> {}, batch |-> {}, kept |-> {}, purged |-> {},
            aborted |-> FALSE]

\* Rows deleted by a transaction that is still open: others wait for its end.
LockedBy(p) == IF sweep[p].aborted THEN {} ELSE sweep[p].purged
Locked(p) == UNION {LockedBy(q) : q \in Sweeps \ {p}}

RetentionInit ==
    /\ age = [e \in Events |-> "absent"]
    /\ row = {} /\ alerted = {} /\ window = {}
    /\ media = [e \in Events |-> {}]
    /\ sweep = [p \in Sweeps |-> NoSweep]

-----------------------------------------------------------------------------
(* The world the sweep runs in.                                             *)

\* An event arrives after its uploads; one of them may have failed.
Ingest(e) == /\ age[e] = "absent" /\ \A f \in Events : f < e => age[f] # "absent"
             /\ age' = [age EXCEPT ![e] = "recent"]
             /\ row' = row \cup {e}
             /\ \E m \in SUBSET Objects : media' = [media EXCEPT ![e] = m]
             /\ UNCHANGED <<alerted, window, sweep>>

\* Events expire in the order of their timestamps.
Expire(e) == /\ age[e] = "recent" /\ \A f \in Events : f < e => age[f] = "expired"
             /\ age' = [age EXCEPT ![e] = "expired"]
             /\ UNCHANGED <<row, media, alerted, window, sweep>>

\* A notification of the event is recorded (it needs the row, and waits for it).
RecordAlert(e) ==
    /\ Alerts /\ e \in row \ UNION {LockedBy(q) : q \in Sweeps}
    /\ alerted' = alerted \cup {e}
    /\ UNCHANGED <<age, row, media, window, sweep>>

\* PUT /settings/org/retention: a window, or keep forever.
SetWindow(o) ==
    /\ window' = IF o \in window THEN window \ {o} ELSE window \cup {o}
    /\ UNCHANGED <<age, row, media, alerted, sweep>>

-----------------------------------------------------------------------------
(* The sweep: purge_all over the organisations it loaded, purge_org for     *)
(* each, the commit at the end.                                             *)

Current(p) == OrgOrder[sweep[p].at]
Update(p, s) == sweep' = [sweep EXCEPT ![p] = s]

\* The organisations and their settings are read once, in the first statement.
BeginSweep(p) ==
    /\ sweep[p].at = 0
    /\ Update(p, [NoSweep EXCEPT !.at = 1, !.orgs = window])
    /\ UNCHANGED <<age, row, media, alerted, window>>

Oldest(S) == {e \in S : Cardinality({f \in S : f < e}) < BatchLimit}
ExpiredOf(p, o) == {e \in row \ sweep[p].purged : OrgOf[e] = o /\ age[e] = "expired"}

\* No window, nothing expired, or a transaction already aborted (the SELECT
\* raises, the exception is caught): on to the next organisation.
SkipOrg(p) ==
    LET s == sweep[p] IN
    /\ s.at \in DOMAIN OrgOrder /\ s.batch = {}
    /\ s.aborted \/ Current(p) \notin s.orgs \/ ExpiredOf(p, Current(p)) = {}
    /\ Update(p, [s EXCEPT !.at = @ + 1])
    /\ UNCHANGED <<age, row, media, alerted, window>>

SelectExpired(p) ==
    LET s == sweep[p] IN
    /\ s.at \in DOMAIN OrgOrder /\ s.batch = {} /\ ~s.aborted
    /\ Current(p) \in s.orgs /\ ExpiredOf(p, Current(p)) # {}
    /\ Update(p, [s EXCEPT !.batch = Oldest(ExpiredOf(p, Current(p))), !.kept = {}])
    /\ UNCHANGED <<age, row, media, alerted, window>>

\* Both objects of one event are deleted, snapshot and clip, each of which may
\* fail; an object that is not there counts as deleted.
DeleteMedia(p, e) ==
    LET s == sweep[p] IN
    /\ e \in s.batch \ s.kept /\ media[e] # {}
    /\ \E failed \in SUBSET media[e] :
         /\ media' = [media EXCEPT ![e] = failed]
         /\ Update(p, IF failed = {} THEN s ELSE [s EXCEPT !.kept = @ \cup {e}])
    /\ UNCHANGED <<age, row, alerted, window>>

\* DELETE of the whole batch, events with media left included (mutant).
DeleteAllRows(p) ==
    LET s == sweep[p] IN
    /\ s.batch # {} /\ \A e \in s.batch \ s.kept : media[e] = {}
    /\ s.batch \cap Locked(p) = {}
    /\ Update(p, [s EXCEPT !.batch = {}, !.at = @ + 1, !.purged = @ \cup s.batch])
    /\ UNCHANGED <<age, row, media, alerted, window>>

\* DELETE of the events of the batch whose media is gone; a row that another
\* transaction deleted meanwhile is skipped in silence.
DeleteRows(p) ==
    LET s == sweep[p]
        ids == s.batch \ s.kept
        next == [s EXCEPT !.batch = {}, !.at = @ + 1]
    IN  /\ s.batch # {} /\ \A e \in ids : media[e] = {}
        /\ ids \cap Locked(p) = {}
        /\ Update(p, IF ids \cap alerted \cap row # {}
                     THEN [next EXCEPT !.aborted = TRUE]
                     ELSE [next EXCEPT !.purged = @ \cup ids])
        /\ UNCHANGED <<age, row, media, alerted, window>>

\* A sweep that closes its session without a commit (mutant).
EndUncommitted(p) == /\ sweep[p].at = Len(OrgOrder) + 1
                     /\ Update(p, NoSweep)
                     /\ UNCHANGED <<age, row, media, alerted, window>>

\* Nothing purged: the session is closed.  Otherwise COMMIT, which an aborted
\* transaction answers with a rollback.
EndSweep(p) ==
    LET s == sweep[p] IN
    /\ s.at = Len(OrgOrder) + 1
    /\ row' = IF s.aborted THEN row ELSE row \ s.purged
    /\ Update(p, NoSweep)
    /\ UNCHANGED <<age, media, alerted, window>>

SweepStep(p) == \/ BeginSweep(p) \/ SkipOrg(p) \/ SelectExpired(p)
                \/ \E e \in Events : DeleteMedia(p, e)
                \/ DeleteRows(p) \/ EndSweep(p)

RetentionNext ==
    \/ \E e \in Events : Ingest(e) \/ Expire(e) \/ RecordAlert(e)
    \/ \E o \in {OrgOrder[i] : i \in DOMAIN OrgOrder} : SetWindow(o)
    \/ \E p \in Sweeps : SweepStep(p)

RetentionSpec == RetentionInit /\ [][RetentionNext]_retentionVars

-----------------------------------------------------------------------------
(* Properties.                                                              *)

\* Media goes before its row: whatever fails and however sweeps overlap, no
\* object is left in the bucket that no row points at.
NothingOrphaned == \A e \in Events : media[e] # {} => e \in row

\* Where no notification was ever recorded, an expired event of an organisation
\* that keeps its window is purged in the end, if the bucket answers at last.
PurgedEventually ==
    \A e \in Events :
        <>[](OrgOf[e] \in window /\ age[e] = "expired") /\ [](alerted = {}) => <>[](e \notin row)

\* "One org's failure must not stop the rest": what the sweep deleted for one
\* organisation is gone when it ends, whatever happened to the others.
FailureIsolated ==
    [][\A p \in Sweeps : sweep[p].at = Len(OrgOrder) + 1 /\ sweep'[p].at = 0
                          => row' \cap sweep[p].purged = {}]_retentionVars
=============================================================================
