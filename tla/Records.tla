------------------------------- MODULE Records -------------------------------
(***************************************************************************)
(* Soft deletion of one organisation's rows (services/soft_delete_service, *)
(* api/admin.py, sites.py, cameras.py, alerts.py).  A request reads what   *)
(* its guard needs, later runs its statements (they lock the rows they hit *)
(* and see only committed rows) and commits at its end.  The statements of *)
(* one sweep are taken as one.                                             *)
(***************************************************************************)
EXTENDS FiniteSets

CONSTANTS Org, Sites, Cameras, Staff, Rules,
          SiteOf,       \* the site a camera is created at
          Operators     \* requests that may be under way at once

ASSUME RecordAssumption ==
    /\ SiteOf \in [Cameras -> Sites]
    /\ Org \notin Sites \cup Cameras \cup Staff \cup Rules
    /\ Sites \cap (Cameras \cup Staff \cup Rules) = {} /\ Cameras \cap (Staff \cup Rules) = {}

VARIABLES created,   \* rows that exist
          live,      \* committed rows whose deleted_at is NULL
          op,        \* requests: [pc, kind, row, hit]
          crossed,   \* live rows made or restored below something deleted
          swept      \* rows the deletion of the organisation took

recordVars == <<created, live, op, crossed, swept>>

FreeSlot == [pc |-> "free", kind |-> "none", row |-> Org, hit |-> {}]

RecordInit ==
    /\ created = {Org} \cup Staff /\ live = created
    /\ op = [o \in Operators |-> FreeSlot]
    /\ crossed = {} /\ swept = {}

CamerasAt(s) == {c \in Cameras : SiteOf[c] = s}

-----------------------------------------------------------------------------
(* The requests, each with the guard its handler puts on what it reads (404  *)
(* or 400 otherwise).  Ids are new, so no two requests create one row.       *)

ReadRecord(o, kind, r) ==
    /\ op[o] = FreeSlot
    /\ op' = [op EXCEPT ![o] = [pc |-> "read", kind |-> kind, row |-> r, hit |-> {}]]
    /\ UNCHANGED <<created, live, crossed, swept>>

New(r) == r \notin created /\ \A x \in Operators : op[x].row # r
Deleted(r) == r \in created \ live

DeleteOrg(o) == Org \in live /\ ReadRecord(o, "delete", Org)
RestoreOrg(o) == Deleted(Org) /\ ReadRecord(o, "restore", Org)

CreateSite(o, s) == New(s) /\ ReadRecord(o, "create", s)
DeleteSite(o, s) == s \in live /\ CamerasAt(s) \cap live = {} /\ ReadRecord(o, "delete", s)
RestoreSite(o, s) == Deleted(s) /\ ReadRecord(o, "restore", s)

\* A member names a site, which the foreign key alone looks at; a box's camera is
\* registered at a live one.
CreateCamera(o, c) == New(c) /\ SiteOf[c] \in created /\ ReadRecord(o, "create", c)
RegisterOnBox(o, c) == New(c) /\ SiteOf[c] \in live /\ ReadRecord(o, "create", c)
DeleteCam(o, c) == c \in live /\ ReadRecord(o, "delete", c)
RestoreCam(o, c) == Deleted(c) /\ ReadRecord(o, "restore", c)

CreateRule(o, r) == New(r) /\ ReadRecord(o, "create", r)
DeleteRule(o, r) == r \in live /\ ReadRecord(o, "delete", r)
RestoreRule(o, r) == Deleted(r) /\ ReadRecord(o, "restore", r)

DeleteStaff(o, u) == u \in live /\ ReadRecord(o, "delete", u)
RestoreStaff(o, u) == Deleted(u) /\ ReadRecord(o, "restore", u)

Request(o) ==
    \/ DeleteOrg(o) \/ RestoreOrg(o)
    \/ \E s \in Sites : CreateSite(o, s) \/ DeleteSite(o, s) \/ RestoreSite(o, s)
    \/ \E c \in Cameras : CreateCamera(o, c) \/ RegisterOnBox(o, c) \/ DeleteCam(o, c) \/ RestoreCam(o, c)
    \/ \E r \in Rules : CreateRule(o, r) \/ DeleteRule(o, r) \/ RestoreRule(o, r)
    \/ \E u \in Staff : DeleteStaff(o, u) \/ RestoreStaff(o, u)

-----------------------------------------------------------------------------
(* What a request goes on to do (soft_delete_service.py).                   *)

\* Statements that forget the cameras of a deleted organisation (mutant).
HitsWithoutCameras(kind, r) == IF kind = "delete" /\ r = Org THEN live \ Cameras ELSE {r}

\* The rows the statements of a request touch, among the committed ones.
Hits(kind, r) ==
    CASE kind = "delete" /\ r = Org      -> live
      [] kind = "restore" /\ r = Org     -> created \ live
      [] kind = "delete" /\ r \in Sites  -> {r} \cup (CamerasAt(r) \cap live)
      [] kind = "restore" /\ r \in Sites -> {r} \cup (CamerasAt(r) \cap (created \ live))
      [] OTHER -> {r}

HeldRows == UNION {op[o].hit : o \in {x \in Operators : op[x].pc = "written"}}

\* The flush: the statements run; a row another request holds is waited for.
WriteRecords(o) ==
    LET hit == {op[o].row} \cup Hits(op[o].kind, op[o].row)
    IN  /\ op[o].pc = "read"
        /\ hit \cap HeldRows = {}
        /\ op' = [op EXCEPT ![o].pc = "written", ![o].hit = hit]
        /\ UNCHANGED <<created, live, crossed, swept>>

\* A deletion of what row r belongs to has happened, or has run its
\* statements and not committed.
DeletedAbove(r, o) ==
    LET above == IF r \in Cameras THEN {Org, SiteOf[r]} ELSE {Org}
    IN  \/ above \ (live \cup op[o].hit) # {}
        \/ \E x \in Operators \ {o} : /\ op[x].pc = "written" /\ op[x].kind = "delete"
                                      /\ op[x].row \in above

CommitRecords(o) ==
    LET hit == op[o].hit
    IN  /\ op[o].pc = "written"
        /\ op' = [op EXCEPT ![o] = FreeSlot]
        /\ IF op[o].kind = "delete"
           THEN /\ live' = live \ hit
                /\ crossed' = crossed \ hit
                /\ swept' = IF op[o].row = Org THEN hit ELSE swept \ hit
                /\ UNCHANGED created
           ELSE /\ live' = live \cup hit
                /\ created' = created \cup hit
                /\ crossed' = crossed \cup {r \in hit : r # Org /\ DeletedAbove(r, o)}
                /\ UNCHANGED swept

\* The transaction fails and is rolled back.
FailRecords(o) ==
    /\ op[o].pc \in {"read", "written"}
    /\ op' = [op EXCEPT ![o] = FreeSlot]
    /\ UNCHANGED <<created, live, crossed, swept>>

RecordNext ==
    \E o \in Operators : \/ Request(o) \/ WriteRecords(o)
                         \/ CommitRecords(o) \/ FailRecords(o)

RecordSpec == RecordInit /\ [][RecordNext]_recordVars

-----------------------------------------------------------------------------
\* A deleted organisation or site has nothing live below it, except rows a
\* request made or restored there before or across its deletion: the sweeps
\* miss nothing they can see ("Cannot delete a site that still has cameras"
\* included).
NothingLiveBelow ==
    \A r \in live \ {Org} :
        \/ r \in crossed
        \/ /\ Org \in live
           /\ r \in Cameras => SiteOf[r] \in live

\* The sweep is reversible: once the organisation is live again, every row its
\* deletion took is live, unless somebody deleted that row later.
SweepReversed == Org \in live => swept \subseteq live

\* Deletion sweeps all there is below and its restore brings all of it back,
\* whatever requests overlap.
RecordsHold == NothingLiveBelow /\ SweepReversed

\* "An explicit, reversible deleted_at sweep" (soft_delete_service.py:17): a
\* restored site gets back only cameras its own deletion took.
RestoreIsReverse ==
    [][\A o \in Operators : CommitRecords(o) /\ op[o].kind = "restore" /\ op[o].row \in Sites
           => op[o].hit = {op[o].row}]_recordVars
=============================================================================
