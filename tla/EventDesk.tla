------------------------------ MODULE EventDesk ------------------------------
(***************************************************************************)
(* The events as operators read and work them (api/events.py) and as the   *)
(* assistant reads them (services/assistant/tools/read.py).  A status or   *)
(* feedback request reads the row, decides, and at its flush writes the    *)
(* columns it changed: another request may have written between the two.   *)
(***************************************************************************)
EXTENDS Scope, FiniteSetsExt

CONSTANTS Posts,        \* status and feedback requests that may overlap
          AtSite,       \* the site of a camera
          Sightings,    \* <<camera, severity>> events may come with
          PageSize,     \* per_page, and the cap on what a tool lists
          TopCameras,   \* MAX_CAMERA_BREAKDOWN_ROWS
          MaxRows,      \* bound on events
          MaxWorked     \* bound on requests over a behaviour

ASSUME DeskAssumption == PageSize \in Nat \ {0} /\ TopCameras \in Nat /\ MaxRows \in Nat

VARIABLES rows,     \* committed events
          post,     \* requests under way: [about, id, read, new]
          worked,   \* requests begun
          blurred,  \* <<id, about>> written although another request had, since it was read
          verdict   \* the feedback last stored for an event

deskVars == <<access, rows, post, worked, blurred, verdict>>

Unworked == [status |-> "new", ack |-> Nowhere, closer |-> Nowhere, feedback |-> Nowhere]

EventRow(i, c, sev) == [id |-> i, camera |-> c, site |-> AtSite[c], org |-> OwnerOf[AtSite[c]],
                   severity |-> sev, work |-> Unworked]

NoPost == [about |-> "nothing", id |-> 0, read |-> Unworked, new |-> Unworked]

DeskInit ==
    /\ ScopeInit
    /\ rows = {} /\ post = [p \in Posts |-> NoPost] /\ worked = 0
    /\ blurred = {} /\ verdict = [i \in 1..MaxRows |-> Nowhere]

EventStored(c, sev) ==
    /\ Cardinality(rows) < MaxRows
    /\ rows' = rows \cup {EventRow(Cardinality(rows) + 1, c, sev)}
    /\ UNCHANGED <<access, post, worked, blurred, verdict>>

-----------------------------------------------------------------------------
(* Reading.  Ids grow with time.                                              *)

_event_query(u) == scope_to_sites(OrgRows(rows, u), u)

CLOSED_STATUSES == {"resolved", "dismissed"}

Filter == [site : Premises \cup {Nowhere}, since : {1, 2}, open : BOOLEAN]   \* Nowhere: no site asked for

Asked(S, f) == {r \in S : /\ f.site \in {Nowhere, r.site}
                          /\ r.id >= f.since
                          /\ f.open => r.work.status \notin CLOSED_STATUSES}

ListRows(u, f) == Asked(_event_query(u), f)

\* The total beside a page is counted by a query of its own.
CountOrgRows(u, f) == Cardinality(Asked(OrgRows(rows, u), f))
CountRows(u, f) ==
    Cardinality(Asked(scope_to_sites(IF IsSuper(u) THEN rows ELSE {r \in rows : r.org = HomeOrg[u]}, u), f))

NewestFirst(S, r) == Cardinality({x \in S : x.id > r.id})   \* rows before r

Page(u, f, page) ==
    LET S == ListRows(u, f) IN
    {r \in S : NewestFirst(S, r) \in ((page - 1) * PageSize)..(page * PageSize - 1)}

Pages(u, f) == (CountRows(u, f) + PageSize - 1) \div PageSize

\* event_stats builds a third query.
StatsBase(u, site, since) ==
    LET recent == {r \in rows : r.id >= since}
        scoped == scope_to_sites(OrgRows(recent, u), u)
    IN  {r \in scoped : site \in {Nowhere, r.site}}

OfCamera(S, c) == Cardinality({r \in S : r.camera = c})

\* The busiest cameras by name, the rest folded into "Other".
Breakdown(S) ==
    LET busy == {r.camera : r \in S}
        top == CHOOSE T \in SUBSET busy :
                  /\ Cardinality(T) = IF Cardinality(busy) < TopCameras THEN Cardinality(busy) ELSE TopCameras
                  /\ \A c \in T, d \in busy \ T : OfCamera(S, c) >= OfCamera(S, d)
    IN  [named |-> [c \in top |-> OfCamera(S, c)],
         other |-> MapThenSumSet(LAMBDA c : OfCamera(S, c), busy \ top)]

\* The assistant's query_events: same filters, the person's own organisation, a cap.
_query_events_rows(u, f) ==
    LET S == Asked(scope_to_sites(OwnRows(rows, u), u), f)
    IN  {r \in S : NewestFirst(S, r) < PageSize}

unresolved_critical_events(u, site) ==
    LET S == {r \in scope_to_sites(OwnRows(rows, u), u) :
                 /\ site \in {Nowhere, r.site} /\ r.severity = "critical" /\ r.work.status = "new"}
    IN  {r \in S : NewestFirst(S, r) < PageSize}

-----------------------------------------------------------------------------
(* Working an event.                                                          *)

\* set_event_status: what the request makes of the row it read.
Moved(w, status, u) ==
    CASE status = "acknowledged" -> [w EXCEPT !.status = status, !.ack = IF @ = Nowhere THEN u ELSE @,
                                              !.closer = Nowhere]
      [] status \in CLOSED_STATUSES -> [w EXCEPT !.status = status, !.ack = IF @ = Nowhere THEN u ELSE @,
                                                 !.closer = u]
      [] status = "new" -> [w EXCEPT !.status = status, !.ack = Nowhere, !.closer = Nowhere]

Columns == [workflow |-> {"status", "ack", "closer"}, feedback |-> {"feedback"}]

TakeUp(p, u, r, about, new) ==
    /\ post[p] = NoPost /\ worked < MaxWorked
    /\ Requires(u, "operator") /\ r \in _event_query(u)
    /\ post' = [post EXCEPT ![p] = [about |-> about, id |-> r.id, read |-> r.work, new |-> new]]
    /\ worked' = worked + 1
    /\ UNCHANGED <<access, rows, blurred, verdict>>

set_event_status(p, u, r, status) == TakeUp(p, u, r, "workflow", Moved(r.work, status, u))

submit_feedback(p, u, r, said) == TakeUp(p, u, r, "feedback", [r.work EXCEPT !.feedback = said])

\* The flush names only the columns whose value differs from what was read.
Flush(p) ==
    \E r \in rows :
       LET q == post[p]
           changed == {k \in DOMAIN q.new : q.new[k] # q.read[k]}
       IN  /\ q # NoPost /\ r.id = q.id
           /\ rows' = (rows \ {r}) \cup
                      {[r EXCEPT !.work = [k \in DOMAIN @ |-> IF k \in changed THEN q.new[k] ELSE @[k]]]}
           /\ verdict' = IF "feedback" \in changed
                         THEN [verdict EXCEPT ![r.id] = q.new.feedback] ELSE verdict
           /\ blurred' = IF \E k \in Columns[q.about] : r.work[k] # q.read[k]
                         THEN blurred \cup {<<r.id, q.about>>} ELSE blurred
           /\ post' = [post EXCEPT ![p] = NoPost]
           /\ UNCHANGED <<access, worked>>

DeskNext ==
    \/ \E x \in Sightings : EventStored(x[1], x[2])
    \/ \E p \in Posts :
         \/ Flush(p)
         \/ \E u \in People, r \in rows :
              \/ \E s \in {"new", "acknowledged"} \cup CLOSED_STATUSES : set_event_status(p, u, r, s)
              \/ \E said \in {"approved", "rejected"} : submit_feedback(p, u, r, said)

-----------------------------------------------------------------------------
(* Properties.                                                                *)

\* Three queries that repeat one scope agree: a page's total is the number of rows
\* its pages hold, and every figure of the statistics adds up to the same list.
ReadsAgree ==
    \A u \in People, f \in Filter :
       LET listed == ListRows(u, f)
           stats == StatsBase(u, f.site, f.since)
       IN  /\ CountRows(u, f) = Cardinality(listed)
           /\ listed = UNION {Page(u, f, k) : k \in 1..Pages(u, f)}
           /\ ~f.open => /\ stats = listed
                         /\ LET b == Breakdown(stats) IN
                            Cardinality(listed) = b.other + MapThenSumSet(LAMBDA c : b.named[c], DOMAIN b.named)

\* The assistant shows a person the first page the dashboard would show of their
\* organisation, and no critical event it lists is missing from it.
ToolsMirrorLists ==
    \A u \in People, f \in Filter :
       /\ ~IsSuper(u) => _query_events_rows(u, f) = Page(u, f, 1)
       /\ _query_events_rows(u, f) \subseteq ListRows(u, f)
       /\ unresolved_critical_events(u, f.site) \subseteq ListRows(u, [f EXCEPT !.since = 1, !.open = TRUE])

\* Unless two requests wrote the workflow of one event from the same reading, who
\* acknowledged and who closed it fits its status; feedback stored meanwhile is
\* not undone by either, as the two share no column.
WorkIsAttributed ==
    \A r \in rows :
       /\ <<r.id, "workflow">> \notin blurred =>
            /\ (r.work.status = "new") <=> (r.work.ack = Nowhere)
            /\ (r.work.status \in CLOSED_STATUSES) <=> (r.work.closer # Nowhere)
       /\ <<r.id, "feedback">> \notin blurred => r.work.feedback = verdict[r.id]

DeskHolds == ReadsAgree /\ ToolsMirrorLists /\ WorkIsAttributed
=============================================================================
