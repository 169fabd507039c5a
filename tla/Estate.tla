-------------------------------- MODULE Estate --------------------------------
(***************************************************************************)
(* What a person sees of sites, cameras, boxes, rules and digests: through *)
(* the routes (api/sites.py, cameras.py, agents.py, fleet.py, alerts.py,   *)
(* digests.py, camera_connections.py, chat.py) and through the assistant's *)
(* read-only tools, each of which mirrors a route in a query of its own.   *)
(* The writers are those of the other modules, reduced to the columns read *)
(* here.  A camera is of the organisation of its site.                     *)
(***************************************************************************)
EXTENDS Scope

CONSTANTS Lenses, Boxes,     \* cameras, edge boxes
          SiteOfLens,        \* the site of a camera
          OrgOfBox,          \* the organisation of a box
          Slots,             \* capacity of a box
          MaxWrites          \* bound on writes

NoBox == "no box"
ASSUME EstateAssumption ==
    /\ NoBox \notin Boxes
    /\ IsFiniteSet(Lenses) /\ Lenses \cap Premises = {}
    /\ \A c \in Lenses : SiteOfLens[c] \in Premises

VARIABLES gone,        \* sites and cameras with deleted_at set
          lens,        \* camera -> [box, online]
          box,         \* box -> [site, fresh]: last_seen_at within STALE_AFTER
          rules,       \* [org, site] of alert rules
          summaries,   \* [org, site, by] of digests
          writes       \* writes so far

estateVars == <<access, gone, lens, box, rules, summaries, writes>>

EstateInit ==
    /\ ScopeInit
    /\ gone = {} /\ rules = {} /\ summaries = {} /\ writes = 0
    /\ lens = [c \in Lenses |-> [box |-> NoBox, online |-> FALSE]]
    /\ box = [b \in Boxes |-> [site |-> Nowhere, fresh |-> FALSE]]

-----------------------------------------------------------------------------
(* The tables.                                                                *)

SiteRows == {[id |-> s, site |-> s, org |-> OwnerOf[s]] : s \in Premises \ gone}
CameraRows == {[id |-> c, site |-> SiteOfLens[c], org |-> OwnerOf[SiteOfLens[c]]] : c \in Lenses \ gone}
BoxRows == {[id |-> b, site |-> box[b].site, org |-> OrgOfBox[b]] : b \in Boxes}

At(S, site) == {r \in S : site \in {Nowhere, r.site}}   \* Nowhere: no site asked for
Ids(S) == {r.id : r \in S}

-----------------------------------------------------------------------------
(* The routes.                                                                *)

list_sites(u) == scope_to_sites(OrgRows(SiteRows, u), u)
_camera_query(u) == scope_to_sites(OrgRows(CameraRows, u), u)
list_cameras(u, site) == At(_camera_query(u), site)
list_agents(u) == OrgRows(scope_to_sites(BoxRows, u), u)
_load_agent_for_user(u, b) == {r \in list_agents(u) : r.id = b}
list_rules(u) == OrgRows(rules, u)                      \* not scoped to sites

\* A box's page counts the cameras that name it and are online, deleted ones too.
get_agent(u, b) ==
    {Cardinality({c \in Lenses : lens[c].box = r.id /\ lens[c].online}) : r \in _load_agent_for_user(u, b)}

\* _load_site of fleet.py, camera_setup.py and camera_connections.py.
_load_site(u, site) == scope_to_sites(OrgRows({r \in SiteRows : r.id = site}, u), u)

\* An organisation-wide digest is hidden from a restricted account.
list_digests(u) ==
    IF IsSuper(u) THEN summaries
    ELSE {d \in summaries : d.org = HomeOrg[u] /\ d.site \in permitted_site_ids(u)}

\* chat.py: a named camera is looked up in the organisation the person talks about.
_validate_camera(u, c, org) ==
    scope_to_sites({r \in CameraRows : r.id = c /\ (r.org = org \/ (IsSuper(u) /\ org = Nowhere))}, u)
_resolve_scope_org(u, body) == IF IsSuper(u) THEN body ELSE HomeOrg[u]

\* NULL, and a camera naming a box that is no longer at this site.
UnassignedNull(cameras, boxes) == {c \in cameras : lens[c].box = NoBox}
Unassigned(cameras, boxes) == {c \in cameras : lens[c].box \notin boxes}

\* Coverage of one site: who watches what, as fleet.py counts it.
FleetOf(site) ==
    LET boxes == {b \in Boxes : OrgOfBox[b] = OwnerOf[site] /\ box[b].site = site}
        cameras == Ids({r \in CameraRows : r.site = site})
        at == [b \in boxes |-> {c \in cameras : lens[c].box = b}]
        fresh == {b \in boxes : box[b].fresh}
        covered == UNION {at[b] : b \in fresh}
        slots == Slots * Cardinality(fresh)
    IN  [total |-> Cardinality(cameras), covered |-> Cardinality(covered),
         unassigned |-> Unassigned(cameras, boxes),
         stale |-> boxes \ fresh,
         spare |-> IF slots > Cardinality(covered) THEN slots - Cardinality(covered) ELSE 0]

get_site_fleet(u, site) == {FleetOf(r.id) : r \in _load_site(u, site)}

-----------------------------------------------------------------------------
(* The tools.                                                                 *)

get_sites(u) == scope_to_sites(OwnRows(SiteRows, u), u)
get_cameras(u, site) == At(scope_to_sites(OwnRows(CameraRows, u), u), site)
get_camera_health(u, c) == {r \in scope_to_sites(OwnRows(CameraRows, u), u) : r.id = c}
get_alert_rules(u) == scope_to_sites(OwnRows(rules, u), u)
_get_site_or_none(u, site) == scope_to_sites({r \in OwnRows(SiteRows, u) : r.id = site}, u)
get_digests(u) == {d \in summaries : d.org = HomeOrg[u] /\ d.site \in permitted_site_ids(u)}

get_fleet(u, site) ==
    {LET boxes == {b \in Boxes : OrgOfBox[b] = r.org /\ box[b].site = r.id}
         cameras == {c \in Lenses \ gone : SiteOfLens[c] = r.id}
         stale == {b \in boxes : ~box[b].fresh}
     IN  [total |-> Cardinality(cameras),
          covered |-> Cardinality({c \in cameras : lens[c].box \in boxes \ stale}),
          unassigned |-> {c \in cameras : lens[c].box \notin boxes},
          stale |-> stale] : r \in _get_site_or_none(u, site)}

current_site_status(u, site) ==
    LET cameras == get_cameras(u, site) IN
    {[online |-> Cardinality({r \in cameras : lens[r.id].online}), total |-> Cardinality(cameras),
      unassigned |-> Cardinality(f.unassigned), stale |-> Cardinality(f.stale)] : f \in get_fleet(u, site)}

-----------------------------------------------------------------------------
(* The writers.                                                               *)

Write == writes < MaxWrites /\ writes' = writes + 1

\* camera_placement: a camera goes to a box or to none; a box adopts a site, and may
\* leave behind cameras that still name it.
Assign(c, b) == /\ Write /\ c \notin gone
                /\ b \in {NoBox} \cup {x \in Boxes : OrgOfBox[x] = OwnerOf[SiteOfLens[c]]}
                /\ lens' = [lens EXCEPT ![c].box = b]
                /\ UNCHANGED <<access, gone, box, rules, summaries>>
Adopt(b, s) == /\ Write /\ OwnerOf[s] = OrgOfBox[b] /\ box' = [box EXCEPT ![b] = [site |-> s, fresh |-> TRUE]]
               /\ UNCHANGED <<access, gone, lens, rules, summaries>>
FallSilent(b) == /\ Write /\ box[b].fresh /\ box' = [box EXCEPT ![b].fresh = FALSE]
                 /\ UNCHANGED <<access, gone, lens, rules, summaries>>
CameraReports(c, on) == /\ Write /\ c \notin gone /\ lens[c].online # on
                        /\ lens' = [lens EXCEPT ![c].online = on]
                        /\ UNCHANGED <<access, gone, box, rules, summaries>>

\* The row keeps its agent_id and status: the pass that follows reads live cameras.
DeleteLens(c) == /\ Write /\ c \notin gone /\ gone' = gone \cup {c}
                 /\ UNCHANGED <<access, lens, box, rules, summaries>>
DeletePremises(s) == /\ Write /\ s \notin gone /\ \A c \in Lenses \ gone : SiteOfLens[c] # s
                     /\ gone' = gone \cup {s}
                     /\ UNCHANGED <<access, lens, box, rules, summaries>>

create_rule(u, site) == /\ Write /\ Requires(u, "admin")
                        /\ rules' = rules \cup {[org |-> HomeOrg[u], site |-> site]}
                        /\ UNCHANGED <<access, gone, lens, box, summaries>>

\* The scheduled digest is of the whole organisation.
ScheduledDigest(org) == /\ Write /\ summaries' = summaries \cup {[org |-> org, site |-> Nowhere, by |-> Nowhere]}
                        /\ UNCHANGED <<access, gone, lens, box, rules>>

\* On demand: a restricted person must name one of their sites.
create_digest(u, site) ==
    /\ Write /\ ~IsSuper(u) /\ (access[u] # {} => site \in access[u])
    /\ summaries' = summaries \cup {[org |-> HomeOrg[u], site |-> site, by |-> u]}
    /\ UNCHANGED <<access, gone, lens, box, rules>>

EstateNext ==
    \/ \E c \in Lenses : \/ \E b \in Boxes \cup {NoBox} : Assign(c, b)
                         \/ \E on \in BOOLEAN : CameraReports(c, on)
                         \/ DeleteLens(c)
    \/ \E b \in Boxes : FallSilent(b) \/ \E s \in Premises : Adopt(b, s)
    \/ \E s \in Premises : DeletePremises(s)
    \/ \E u \in People, s \in Premises \cup {Nowhere} : create_rule(u, s) \/ create_digest(u, s)
    \/ \E u \in People : ScheduledDigest(HomeOrg[u])

-----------------------------------------------------------------------------
(* Properties.                                                                *)

\* Each tool answers what the route it mirrors answers about the person's own
\* organisation; rules are the documented exception, where the tool also applies
\* the site restriction.  A site the person may not see is not found by either.
ToolsMirrorRoutes ==
    \A u \in People, s \in Premises :
       /\ get_sites(u) = OwnRows(list_sites(u), u)
       /\ get_cameras(u, s) = OwnRows(list_cameras(u, s), u)
       /\ get_cameras(u, Nowhere) = OwnRows(list_cameras(u, Nowhere), u)
       /\ get_alert_rules(u) = scope_to_sites(OwnRows(list_rules(u), u), u)
       /\ get_digests(u) = OwnRows(list_digests(u), u)
       /\ OwnerOf[s] = HomeOrg[u] =>
             {[total |-> f.total, covered |-> f.covered, unassigned |-> f.unassigned, stale |-> f.stale] :
                 f \in get_site_fleet(u, s)} = get_fleet(u, s)
       /\ \A c \in Lenses :
             get_camera_health(u, c) = _validate_camera(u, c, _resolve_scope_org(u, HomeOrg[u]))

\* Coverage adds up across the two queries it is made of, and its total is the number
\* of cameras the same person is listed at that site; a box's page differs from that
\* list by deleted cameras at most.
CoverageAddsUp ==
    /\ \A u \in People, s \in Premises :
       /\ \A f \in get_site_fleet(u, s) :
             /\ f.total = Cardinality(list_cameras(u, s))
             /\ f.covered + Cardinality(f.unassigned) =
                   f.total - Cardinality({c \in Lenses \ gone : SiteOfLens[c] = s /\ lens[c].box \in f.stale})
       /\ \A x \in current_site_status(u, s) : x.online <= x.total /\ x.unassigned <= x.total
       /\ (_load_site(u, s) = {}) => list_cameras(u, s) = {}
    /\ \A u \in People, b \in Boxes : \A streaming \in get_agent(u, b) :
          LET listed == {r \in list_cameras(u, Nowhere) : lens[r.id].box = b /\ lens[r.id].online}
          IN  access[u] = {} => streaming - Cardinality(listed) \in 0..Cardinality(gone \cap Lenses)

\* A person can read every digest they asked for, and a restricted one none that
\* summarises a site outside the restriction or the whole organisation.
DigestsAreReadable ==
    \A d \in summaries, u \in People :
       /\ d.by = u => d \in list_digests(u)
       /\ d \in list_digests(u) /\ access[u] # {} /\ ~IsSuper(u) => d.site \in access[u]

EstateAgrees == ToolsMirrorRoutes /\ CoverageAddsUp /\ DigestsAreReadable
=============================================================================
