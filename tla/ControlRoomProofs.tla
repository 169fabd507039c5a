-------------------------- MODULE ControlRoomProofs --------------------------
(***************************************************************************)
(* What operators see and work with, for any number of people, sites,      *)
(* cameras, events, sockets and requests: the estate, the event desk, the  *)
(* live feed, camera journeys and the contacts of instant alerts.          *)
(***************************************************************************)
EXTENDS MCControlRoom, FiniteSetTheorems, WellFoundedInduction, TLAPS

-----------------------------------------------------------------------------
(***************************************************************************)
(* Estate.  Routes and tools compare queries in one state; that they agree *)
(* needs that a deleted site has no live camera, that a camera names a box *)
(* of its own organisation only, and whose the digests are.                *)
(***************************************************************************)
EstateTypes ==
    /\ access \in [People -> SUBSET Premises]
    /\ gone \subseteq Lenses \cup Premises
    /\ lens \in [Lenses -> [box : Boxes \cup {NoBox}, online : BOOLEAN]]
    /\ box \in [Boxes -> [site : Premises \cup {Nowhere}, fresh : BOOLEAN]]
    /\ \A d \in summaries : d.site \in Premises \cup {Nowhere}

\* A deleted site has no live camera.
SitesEmptied == \A c \in Lenses : SiteOfLens[c] \in gone => c \in gone

\* A camera names a box of its organisation.
BoxOfOwner == \A c \in Lenses : lens[c].box \in Boxes => OrgOfBox[lens[c].box] = OwnerOf[SiteOfLens[c]]

\* A digest somebody asked for is of their organisation, about what they may see.
AskedForOwn == \A d \in summaries, u \in People :
    d.by = u => d.org = HomeOrg[u] /\ d.site \in permitted_site_ids(u)

EstateInv == EstateTypes /\ SitesEmptied /\ BoxOfOwner /\ AskedForOwn

-----------------------------------------------------------------------------
(* The queries.                                                               *)

LensRow(c) == [id |-> c, site |-> SiteOfLens[c], org |-> OwnerOf[SiteOfLens[c]]]
RowsOf(C) == {LensRow(c) : c \in C}
Reaches(u, org) == IsSuper(u) \/ org = HomeOrg[u]   \* a route's organisation filter
LensesAt(s) == {c \in Lenses \ gone : SiteOfLens[c] = s}

\* There are as many rows as cameras.
LEMMA RowsCounted ==
  ASSUME NEW C \in SUBSET Lenses
  PROVE  /\ IsFiniteSet(C) /\ IsFiniteSet(RowsOf(C))
         /\ Cardinality(RowsOf(C)) = Cardinality(C) /\ Cardinality(C) \in Nat
<1>1. IsFiniteSet(C)
  BY EstateAssumption, FS_Subset
<1>2. \A c \in C : LensRow(c).id = c
  BY DEF LensRow
<1>3. PICK f : f = [c \in C |-> LensRow(c)]
  OBVIOUS
<1>4. f \in [C -> RowsOf(C)]
  BY <1>3 DEF RowsOf
<1>5. \A c, d \in C : f[c] = f[d] => c = d
  BY <1>2, <1>3
<1>6. \A r \in RowsOf(C) : \E c \in C : f[c] = r
  BY <1>3 DEF RowsOf
<1>7. f \in Bijection(C, RowsOf(C))
  BY <1>4, <1>5, <1>6 DEF Bijection, Injection, Surjection, IsInjective
<1>8. ExistsBijection(C, RowsOf(C))
  BY <1>7 DEF ExistsBijection
<1> QED
  BY <1>1, <1>8, FS_Bijection, FS_CardinalityType

\* The tools' filter on the routes' answer is the tools' query.
LEMMA OwnOfOrg ==
  ASSUME NEW S, NEW u \in People
  PROVE  /\ scope_to_sites(OwnRows(S, u), u) = OwnRows(scope_to_sites(OrgRows(S, u), u), u)
         /\ scope_to_sites(OwnRows(S, u), u) = scope_to_sites(OwnRows(OrgRows(S, u), u), u)
         /\ \A s : At(scope_to_sites(OwnRows(S, u), u), s)
                      = OwnRows(At(scope_to_sites(OrgRows(S, u), u), s), u)
BY DEF scope_to_sites, OwnRows, OrgRows, At

\* A site is found if it is live, permitted and of the organisation.
LEMMA SiteFound ==
  ASSUME NEW u \in People, NEW s \in Premises
  PROVE  /\ \A r \in _load_site(u, s) \cup _get_site_or_none(u, s) : r.id = s /\ r.site = s /\ r.org = OwnerOf[s]
         /\ _load_site(u, s) # {} <=> /\ s \notin gone /\ s \in permitted_site_ids(u)
                                      /\ Reaches(u, OwnerOf[s])
         /\ _get_site_or_none(u, s) # {} <=> /\ s \notin gone /\ s \in permitted_site_ids(u)
                                             /\ OwnerOf[s] = HomeOrg[u]
<1>1. PICK row : row = [id |-> s, site |-> s, org |-> OwnerOf[s]]
  OBVIOUS
<1>2. row.id = s /\ row.site = s /\ row.org = OwnerOf[s]
  BY <1>1
<1>3. {r \in SiteRows : r.id = s} = IF s \in gone THEN {} ELSE {row}
  BY <1>1 DEF SiteRows
<1>4. {r \in OwnRows(SiteRows, u) : r.id = s} = IF s \notin gone /\ OwnerOf[s] = HomeOrg[u] THEN {row} ELSE {}
  BY <1>1, <1>2 DEF SiteRows, OwnRows
<1>5. _load_site(u, s) = IF s \notin gone /\ s \in permitted_site_ids(u) /\ Reaches(u, OwnerOf[s])
                         THEN {row} ELSE {}
  BY <1>2, <1>3 DEF Reaches, _load_site, OrgRows, scope_to_sites
<1>6. _get_site_or_none(u, s) = IF s \notin gone /\ s \in permitted_site_ids(u) /\ OwnerOf[s] = HomeOrg[u]
                                THEN {row} ELSE {}
  BY <1>2, <1>4 DEF _get_site_or_none, scope_to_sites
<1> QED
  BY <1>2, <1>5, <1>6

\* The cameras listed at a site are its live ones, if the person may see it.
LEMMA LensesListed ==
  ASSUME NEW u \in People, NEW s \in Premises
  PROVE  /\ list_cameras(u, s) = IF s \in permitted_site_ids(u) /\ Reaches(u, OwnerOf[s])
                                 THEN RowsOf(LensesAt(s)) ELSE {}
         /\ get_cameras(u, s) = IF s \in permitted_site_ids(u) /\ OwnerOf[s] = HomeOrg[u]
                                THEN RowsOf(LensesAt(s)) ELSE {}
<1>1. \A c : LensRow(c).site = SiteOfLens[c] /\ LensRow(c).org = OwnerOf[SiteOfLens[c]]
  BY DEF LensRow
<1>2. CameraRows = RowsOf(Lenses \ gone)
  BY DEF CameraRows, RowsOf, LensRow
<1>3. s # Nowhere
  BY ScopeAssumption
<1>4. RowsOf(LensesAt(s)) = {r \in CameraRows : r.site = s}
  BY <1>1, <1>2 DEF RowsOf, LensesAt
<1>5. \A r \in RowsOf(LensesAt(s)) : r.site = s /\ r.org = OwnerOf[s]
  BY <1>1 DEF RowsOf, LensesAt
<1>6. list_cameras(u, s) = {r \in RowsOf(LensesAt(s)) : /\ r.site \in permitted_site_ids(u)
                                                        /\ Reaches(u, r.org)}
  BY <1>3, <1>4 DEF Reaches, list_cameras, _camera_query, scope_to_sites, OrgRows, At
<1>7. get_cameras(u, s) = {r \in RowsOf(LensesAt(s)) : r.site \in permitted_site_ids(u) /\ r.org = HomeOrg[u]}
  BY <1>3, <1>4 DEF get_cameras, scope_to_sites, OwnRows, At
<1> QED
  BY <1>5, <1>6, <1>7 DEF Reaches

\* Coverage as fleet.py counts it is coverage as the tool does.
BoxesAt(s) == {b \in Boxes : OrgOfBox[b] = OwnerOf[s] /\ box[b].site = s}
StaleAt(s) == {b \in BoxesAt(s) : ~box[b].fresh}
CoveredAt(s) == {c \in LensesAt(s) : lens[c].box \in BoxesAt(s) \ StaleAt(s)}
UnassignedAt(s) == {c \in LensesAt(s) : lens[c].box \notin BoxesAt(s)}

LEMMA CoverageIs ==
  ASSUME NEW s \in Premises
  PROVE  /\ FleetOf(s).total = Cardinality(LensesAt(s))
         /\ FleetOf(s).covered = Cardinality(CoveredAt(s))
         /\ FleetOf(s).unassigned = UnassignedAt(s)
         /\ FleetOf(s).stale = StaleAt(s)
<1> DEFINE boxes == {b \in Boxes : OrgOfBox[b] = OwnerOf[s] /\ box[b].site = s}
           cameras == Ids({r \in CameraRows : r.site = s})
           at == [b \in boxes |-> {c \in cameras : lens[c].box = b}]
           fresh == {b \in boxes : box[b].fresh}
           covered == UNION {at[b] : b \in fresh}
<1>1. boxes = BoxesAt(s) /\ boxes \ fresh = StaleAt(s) /\ fresh = BoxesAt(s) \ StaleAt(s)
  BY DEF BoxesAt, StaleAt
<1>2. cameras = LensesAt(s)
  <2>1. \A r : r \in CameraRows <=> \E c \in Lenses \ gone : r = LensRow(c)
    BY DEF CameraRows, LensRow
  <2>2. \A c : LensRow(c).id = c /\ LensRow(c).site = SiteOfLens[c]
    BY DEF LensRow
  <2>3. \A c : c \in cameras <=> \E r \in CameraRows : r.site = s /\ r.id = c
    BY DEF Ids
  <2>4. \A c : c \in cameras <=> c \in LensesAt(s)
    BY <2>1, <2>2, <2>3 DEF LensesAt
  <2> QED
    BY <2>4
<1>3. covered = CoveredAt(s)
  <2>0. \A b \in fresh : at[b] = {c \in cameras : lens[c].box = b}
    OBVIOUS
  <2>1. \A c : c \in covered <=> \E b \in fresh : c \in cameras /\ lens[c].box = b
    <3> HIDE DEF at, cameras, fresh
    <3> QED
      BY <2>0
  <2>2. \A c : c \in covered <=> c \in CoveredAt(s)
    <3> HIDE DEF covered, cameras, fresh, boxes
    <3> QED
      BY <1>1, <1>2, <2>1 DEF CoveredAt
  <2> QED
    BY <2>2
<1>4. Unassigned(cameras, boxes) = UnassignedAt(s)
  BY <1>1, <1>2 DEF Unassigned, UnassignedAt
<1>5. /\ FleetOf(s).total = Cardinality(cameras) /\ FleetOf(s).covered = Cardinality(covered)
      /\ FleetOf(s).unassigned = Unassigned(cameras, boxes) /\ FleetOf(s).stale = boxes \ fresh
  BY DEF FleetOf
<1> HIDE DEF boxes, cameras, at, fresh, covered
<1> QED
  BY <1>1, <1>2, <1>3, <1>4, <1>5

\* The tool's record is the route's without the spare capacity.
ToolRow(r) ==
    LET boxes == {b \in Boxes : OrgOfBox[b] = r.org /\ box[b].site = r.id}
        cameras == {c \in Lenses \ gone : SiteOfLens[c] = r.id}
        stale == {b \in boxes : ~box[b].fresh}
    IN  [total |-> Cardinality(cameras),
         covered |-> Cardinality({c \in cameras : lens[c].box \in boxes \ stale}),
         unassigned |-> {c \in cameras : lens[c].box \notin boxes},
         stale |-> stale]

LEMMA ToolCounts ==
  ASSUME NEW u \in People, NEW s \in Premises
  PROVE  /\ get_fleet(u, s) # {} <=> _get_site_or_none(u, s) # {}
         /\ \A x \in get_fleet(u, s) :
               x = [total |-> Cardinality(LensesAt(s)), covered |-> Cardinality(CoveredAt(s)),
                    unassigned |-> UnassignedAt(s), stale |-> StaleAt(s)]
<1>1. get_fleet(u, s) = {ToolRow(r) : r \in _get_site_or_none(u, s)}
  BY DEF get_fleet, ToolRow
<1>2. ASSUME NEW r \in _get_site_or_none(u, s)
      PROVE  ToolRow(r) = [total |-> Cardinality(LensesAt(s)), covered |-> Cardinality(CoveredAt(s)),
                           unassigned |-> UnassignedAt(s), stale |-> StaleAt(s)]
  <2>1. r.id = s /\ r.org = OwnerOf[s]
    BY SiteFound
  <2>2. /\ {b \in Boxes : OrgOfBox[b] = r.org /\ box[b].site = r.id} = BoxesAt(s)
        /\ {c \in Lenses \ gone : SiteOfLens[c] = r.id} = LensesAt(s)
    BY <2>1 DEF BoxesAt, LensesAt
  <2>3. /\ StaleAt(s) = {b \in BoxesAt(s) : ~box[b].fresh}
        /\ CoveredAt(s) = {c \in LensesAt(s) : lens[c].box \in BoxesAt(s) \ StaleAt(s)}
        /\ UnassignedAt(s) = {c \in LensesAt(s) : lens[c].box \notin BoxesAt(s)}
    BY DEF StaleAt, CoveredAt, UnassignedAt
  <2> QED
    BY <2>2, <2>3 DEF ToolRow
<1> QED
  BY <1>1, <1>2

\* Neither is asked about a site it does not find.
LEMMA FleetsAgree ==
  ASSUME NEW u \in People, NEW s \in Premises, OwnerOf[s] = HomeOrg[u]
  PROVE  {[total |-> f.total, covered |-> f.covered, unassigned |-> f.unassigned, stale |-> f.stale] :
              f \in get_site_fleet(u, s)} = get_fleet(u, s)
<1>1. PICK x : x = [total |-> Cardinality(LensesAt(s)), covered |-> Cardinality(CoveredAt(s)),
                    unassigned |-> UnassignedAt(s), stale |-> StaleAt(s)]
  OBVIOUS
<1>2. \A f \in get_site_fleet(u, s) : f = FleetOf(s)
  BY SiteFound DEF get_site_fleet
<1>3. get_site_fleet(u, s) # {} <=> _load_site(u, s) # {}
  BY DEF get_site_fleet
<1>4. \A y \in get_fleet(u, s) : y = x
  BY <1>1, ToolCounts
<1>5. get_fleet(u, s) # {} <=> _get_site_or_none(u, s) # {}
  BY ToolCounts
<1>6. _load_site(u, s) # {} <=> _get_site_or_none(u, s) # {}
  BY SiteFound DEF Reaches
<1>7. \A f \in get_site_fleet(u, s) :
         [total |-> f.total, covered |-> f.covered, unassigned |-> f.unassigned, stale |-> f.stale] = x
  BY <1>1, <1>2, CoverageIs
<1> QED
  BY <1>3, <1>4, <1>5, <1>6, <1>7

\* The assistant's tools answer as the routes do.
LEMMA ToolsAgree == EstateInv => ToolsMirrorRoutes
<1> SUFFICES ASSUME EstateInv, NEW u \in People, NEW s \in Premises
             PROVE  /\ get_sites(u) = OwnRows(list_sites(u), u)
                    /\ get_cameras(u, s) = OwnRows(list_cameras(u, s), u)
                    /\ get_cameras(u, Nowhere) = OwnRows(list_cameras(u, Nowhere), u)
                    /\ get_alert_rules(u) = scope_to_sites(OwnRows(list_rules(u), u), u)
                    /\ get_digests(u) = OwnRows(list_digests(u), u)
                    /\ \A c \in Lenses :
                          get_camera_health(u, c) = _validate_camera(u, c, _resolve_scope_org(u, HomeOrg[u]))
  BY FleetsAgree DEF ToolsMirrorRoutes
<1>1. get_sites(u) = OwnRows(list_sites(u), u)
  BY OwnOfOrg DEF get_sites, list_sites
<1>2. \A x : get_cameras(u, x) = OwnRows(list_cameras(u, x), u)
  BY OwnOfOrg DEF get_cameras, list_cameras, _camera_query
<1>3. get_alert_rules(u) = scope_to_sites(OwnRows(list_rules(u), u), u)
  BY OwnOfOrg DEF get_alert_rules, list_rules
<1>4. get_digests(u) = OwnRows(list_digests(u), u)
  <2>1. CASE IsSuper(u)
    <3>1. permitted_site_ids(u) = Premises \cup {Nowhere}
      BY <2>1 DEF permitted_site_ids
    <3>2. list_digests(u) = summaries
      BY <2>1 DEF list_digests
    <3>3. \A d \in summaries : d.site \in Premises \cup {Nowhere}
      BY DEF EstateInv, EstateTypes
    <3> QED
      BY <3>1, <3>2, <3>3 DEF get_digests, OwnRows
  <2>2. CASE ~IsSuper(u)
    BY <2>2 DEF get_digests, list_digests, OwnRows
  <2> QED
    BY <2>1, <2>2
<1>5. ASSUME NEW c \in Lenses
      PROVE  get_camera_health(u, c) = _validate_camera(u, c, _resolve_scope_org(u, HomeOrg[u]))
  <2>1. _resolve_scope_org(u, HomeOrg[u]) = HomeOrg[u] /\ HomeOrg[u] # Nowhere
    BY ScopeAssumption DEF _resolve_scope_org
  <2> QED
    BY <2>1 DEF get_camera_health, _validate_camera, scope_to_sites, OwnRows
<1> QED
  BY <1>1, <1>2, <1>3, <1>4, <1>5

\* The cameras of a site are covered, unassigned, or on a box that fell silent.
LEMMA CoverageSplits ==
  ASSUME NEW s \in Premises
  PROVE  /\ Cardinality(CoveredAt(s)) + Cardinality(UnassignedAt(s)) =
               Cardinality(LensesAt(s)) - Cardinality({c \in LensesAt(s) : lens[c].box \in StaleAt(s)})
         /\ Cardinality(UnassignedAt(s)) <= Cardinality(LensesAt(s))
<1>1. PICK A, C, U, T : /\ A = LensesAt(s) /\ C = CoveredAt(s) /\ U = UnassignedAt(s)
                        /\ T = {c \in LensesAt(s) : lens[c].box \in StaleAt(s)}
  OBVIOUS
<1>2. A \subseteq Lenses /\ IsFiniteSet(A)
  BY <1>1, EstateAssumption, FS_Subset DEF LensesAt
<1>3. StaleAt(s) \subseteq BoxesAt(s)
  BY DEF StaleAt
<1>4. /\ C \subseteq A /\ U \subseteq A /\ T \subseteq A
      /\ C \cap U = {} /\ T = A \ (C \cup U)
  BY <1>1, <1>3 DEF CoveredAt, UnassignedAt
<1>5. /\ IsFiniteSet(C) /\ IsFiniteSet(U) /\ IsFiniteSet(T) /\ IsFiniteSet(C \cup U)
      /\ Cardinality(U) <= Cardinality(A) /\ C \cup U \subseteq A
  BY <1>2, <1>4, FS_Subset
<1>6. Cardinality(C \cup U) = Cardinality(C) + Cardinality(U) - Cardinality(C \cap U)
  BY <1>5, FS_Union
<1>7. Cardinality(T) = Cardinality(A) - Cardinality(A \cap (C \cup U))
  BY <1>2, <1>4, FS_Difference
<1>8. A \cap (C \cup U) = C \cup U /\ Cardinality(C \cap U) = 0
  BY <1>4, <1>5, FS_EmptySet
<1>9. Cardinality(A) \in Nat /\ Cardinality(C) \in Nat /\ Cardinality(U) \in Nat /\ Cardinality(T) \in Nat
  BY <1>2, <1>5, FS_CardinalityType
<1>10. Cardinality(C \cup U) = Cardinality(C) + Cardinality(U)
  BY <1>6, <1>8, <1>9
<1>11. Cardinality(A \cap (C \cup U)) = Cardinality(C \cup U)
  BY <1>8
<1>12. Cardinality(C) + Cardinality(U) = Cardinality(A) - Cardinality(T)
  BY <1>7, <1>9, <1>10, <1>11
<1> QED
  BY <1>1, <1>5, <1>12

\* A box's page counts what it runs; the list misses the deleted ones.
LEMMA PageCounts ==
  ASSUME EstateInv, NEW u \in People, NEW b \in Boxes, NEW streaming \in get_agent(u, b), access[u] = {}
  PROVE  streaming - Cardinality({r \in list_cameras(u, Nowhere) : lens[r.id].box = b /\ lens[r.id].online})
            \in 0..Cardinality(gone \cap Lenses)
<1>1. PICK On : On = {c \in Lenses : lens[c].box = b /\ lens[c].online}
  OBVIOUS
<1>2. On \subseteq Lenses /\ On \ gone \subseteq Lenses
  BY <1>1
<1>3. streaming = Cardinality(On) /\ Reaches(u, OrgOfBox[b])
  <2>1. PICK r \in _load_agent_for_user(u, b) :
           streaming = Cardinality({c \in Lenses : lens[c].box = r.id /\ lens[c].online})
    BY DEF get_agent
  <2>2. r.id = b /\ r \in BoxRows /\ Reaches(u, r.org)
    BY DEF Reaches, _load_agent_for_user, list_agents, OrgRows, scope_to_sites
  <2>3. r.org = OrgOfBox[b]
    BY <2>2 DEF BoxRows
  <2> QED
    BY <1>1, <2>1, <2>2, <2>3
<1>4. \A c \in On : SiteOfLens[c] \in permitted_site_ids(u) /\ Reaches(u, OwnerOf[SiteOfLens[c]])
  BY <1>1, <1>3, EstateAssumption DEF Reaches, EstateInv, BoxOfOwner, permitted_site_ids
<1>5. \A c : LensRow(c).id = c /\ LensRow(c).site = SiteOfLens[c] /\ LensRow(c).org = OwnerOf[SiteOfLens[c]]
  BY DEF LensRow
<1>6. \A r : r \in list_cameras(u, Nowhere) <=>
              \E c \in Lenses \ gone : /\ r = LensRow(c) /\ SiteOfLens[c] \in permitted_site_ids(u)
                                       /\ Reaches(u, OwnerOf[SiteOfLens[c]])
  <2>1. \A r : r \in CameraRows <=> \E c \in Lenses \ gone : r = LensRow(c)
    BY DEF CameraRows, LensRow
  <2>2. \A r : r \in list_cameras(u, Nowhere) <=> /\ r \in CameraRows /\ r.site \in permitted_site_ids(u)
                                                 /\ Reaches(u, r.org)
    BY DEF Reaches, list_cameras, _camera_query, scope_to_sites, OrgRows, At
  <2> QED
    BY <1>5, <2>1, <2>2
<1>7. PICK L : L = {r \in list_cameras(u, Nowhere) : lens[r.id].box = b /\ lens[r.id].online}
  OBVIOUS
<1>8. L = RowsOf(On \ gone)
  <2>1. \A r \in L : \E c \in On \ gone : r = LensRow(c)
    BY <1>1, <1>5, <1>6, <1>7
  <2>2. ASSUME NEW c \in On \ gone PROVE LensRow(c) \in L
    <3>1. c \in Lenses \ gone /\ lens[c].box = b /\ lens[c].online
      BY <1>1
    <3>2. LensRow(c) \in list_cameras(u, Nowhere)
      BY <3>1, <1>4, <1>6
    <3> QED
      BY <3>1, <3>2, <1>5, <1>7
  <2> QED
    BY <2>1, <2>2 DEF RowsOf
<1>9. Cardinality(L) = Cardinality(On \ gone)
  BY <1>2, <1>8, RowsCounted
<1>10. /\ IsFiniteSet(On) /\ Cardinality(On) \in Nat /\ Cardinality(On \cap gone) \in Nat
       /\ Cardinality(On \cap gone) <= Cardinality(gone \cap Lenses)
       /\ Cardinality(gone \cap Lenses) \in Nat
  <2>1. IsFiniteSet(On) /\ IsFiniteSet(gone \cap Lenses)
    BY <1>2, EstateAssumption, FS_Subset
  <2>2. On \cap gone \subseteq gone \cap Lenses
    BY <1>2
  <2> QED
    BY <2>1, <2>2, FS_Subset, FS_CardinalityType
<1>11. Cardinality(On \ gone) = Cardinality(On) - Cardinality(On \cap gone)
  BY <1>10, FS_Difference
<1> QED
  BY <1>3, <1>7, <1>9, <1>10, <1>11

\* Coverage adds up, and to what the same person is listed.
LEMMA CoverageAgrees == EstateInv => CoverageAddsUp
<1> SUFFICES ASSUME EstateInv PROVE CoverageAddsUp
  OBVIOUS
<1>1. ASSUME NEW u \in People, NEW s \in Premises
      PROVE  /\ \A f \in get_site_fleet(u, s) :
                   /\ f.total = Cardinality(list_cameras(u, s))
                   /\ f.covered + Cardinality(f.unassigned) =
                         f.total - Cardinality({c \in Lenses \ gone : SiteOfLens[c] = s /\ lens[c].box \in f.stale})
             /\ \A x \in current_site_status(u, s) : x.online <= x.total /\ x.unassigned <= x.total
             /\ _load_site(u, s) = {} => list_cameras(u, s) = {}
  <2>1. LensesAt(s) \in SUBSET Lenses
    BY DEF LensesAt
  <2>2. Cardinality(RowsOf(LensesAt(s))) = Cardinality(LensesAt(s)) /\ IsFiniteSet(RowsOf(LensesAt(s)))
    BY <2>1, RowsCounted
  <2>3. {c \in Lenses \ gone : SiteOfLens[c] = s /\ lens[c].box \in StaleAt(s)}
           = {c \in LensesAt(s) : lens[c].box \in StaleAt(s)}
    BY DEF LensesAt
  <2>4. ASSUME NEW f \in get_site_fleet(u, s)
        PROVE  /\ f.total = Cardinality(list_cameras(u, s))
               /\ f.covered + Cardinality(f.unassigned) =
                     f.total - Cardinality({c \in Lenses \ gone : SiteOfLens[c] = s /\ lens[c].box \in f.stale})
    <3>1. f = FleetOf(s) /\ _load_site(u, s) # {}
      BY SiteFound DEF get_site_fleet
    <3>2. list_cameras(u, s) = RowsOf(LensesAt(s))
      BY <3>1, SiteFound, LensesListed
    <3> QED
      BY <2>2, <2>3, <3>1, <3>2, CoverageIs, CoverageSplits
  <2>5. ASSUME NEW x \in current_site_status(u, s) PROVE x.online <= x.total /\ x.unassigned <= x.total
    <3>1. PICK R : R = get_cameras(u, s)
      OBVIOUS
    <3>2. PICK f \in get_fleet(u, s) :
             x = [online |-> Cardinality({r \in R : lens[r.id].online}), total |-> Cardinality(R),
                  unassigned |-> Cardinality(f.unassigned), stale |-> Cardinality(f.stale)]
      BY <3>1 DEF current_site_status
    <3>3. _get_site_or_none(u, s) # {} /\ f.unassigned = UnassignedAt(s)
      BY ToolCounts
    <3>4. R = RowsOf(LensesAt(s))
      BY <3>1, <3>3, SiteFound, LensesListed
    <3>5. Cardinality({r \in R : lens[r.id].online}) <= Cardinality(R)
      BY <2>2, <3>4, FS_Subset
    <3> QED
      BY <2>2, <3>2, <3>3, <3>4, <3>5, CoverageSplits
  <2>6. ASSUME _load_site(u, s) = {} PROVE list_cameras(u, s) = {}
    <3>1. CASE s \in gone
      <4>1. LensesAt(s) = {}
        BY <3>1 DEF LensesAt, EstateInv, SitesEmptied
      <4>2. RowsOf(LensesAt(s)) = {}
        BY <4>1 DEF RowsOf
      <4> QED
        BY <4>2, LensesListed
    <3>2. CASE s \notin gone
      BY <2>6, <3>2, SiteFound, LensesListed
    <3> QED
      BY <3>1, <3>2
  <2> QED
    BY <2>4, <2>5, <2>6
<1> QED
  BY <1>1, PageCounts DEF CoverageAddsUp

\* A digest is read by the one it was made for.
LEMMA DigestsRead == EstateInv => DigestsAreReadable
BY DEF EstateInv, AskedForOwn, DigestsAreReadable, list_digests, permitted_site_ids

-----------------------------------------------------------------------------
(* The writers keep it.                                                       *)

LEMMA EstateStarts == EstateInit => EstateInv
BY EstateAssumption DEF EstateInit, ScopeInit, EstateInv, EstateTypes, SitesEmptied, BoxOfOwner, AskedForOwn

\* Every write keeps the invariant.
LEMMA EstateStep == EstateInv /\ [EstateNext]_estateVars => EstateInv'
<1> SUFFICES ASSUME EstateInv, [EstateNext]_estateVars PROVE EstateInv'
  OBVIOUS
<1>0. \A u \in People : access' = access => permitted_site_ids(u)' = permitted_site_ids(u)
  BY DEF permitted_site_ids, IsSuper
<1>1. CASE UNCHANGED estateVars
  BY <1>1, <1>0 DEF estateVars, EstateInv, EstateTypes, SitesEmptied, BoxOfOwner, AskedForOwn
<1>2. ASSUME NEW c \in Lenses, NEW b \in Boxes \cup {NoBox}, Assign(c, b) PROVE EstateInv'
  <2>1. PICK x : x = [lens[c] EXCEPT !.box = b]
    OBVIOUS
  <2>2. x \in [box : Boxes \cup {NoBox}, online : BOOLEAN] /\ x.box = b
    BY <2>1 DEF EstateInv, EstateTypes
  <2>3. lens' = [lens EXCEPT ![c] = x] /\ UNCHANGED <<access, gone, box, summaries>>
    BY <1>2, <2>1 DEF Assign
  <2>4. b \in Boxes => OrgOfBox[b] = OwnerOf[SiteOfLens[c]]
    BY <1>2, EstateAssumption DEF Assign
  <2>5. EstateTypes'
    BY <2>2, <2>3 DEF EstateInv, EstateTypes
  <2>6. \A d \in Lenses : lens'[d] = IF d = c THEN x ELSE lens[d]
    BY <2>3 DEF EstateInv, EstateTypes
  <2>7. BoxOfOwner'
    BY <2>2, <2>4, <2>6 DEF EstateInv, BoxOfOwner
  <2> QED
    BY <1>0, <2>3, <2>5, <2>7 DEF EstateInv, SitesEmptied, AskedForOwn
<1>3. ASSUME NEW c \in Lenses, NEW on \in BOOLEAN, CameraReports(c, on) PROVE EstateInv'
  <2>1. PICK x : x = [lens[c] EXCEPT !.online = on]
    OBVIOUS
  <2>2. x \in [box : Boxes \cup {NoBox}, online : BOOLEAN] /\ x.box = lens[c].box
    BY <2>1 DEF EstateInv, EstateTypes
  <2>3. lens' = [lens EXCEPT ![c] = x] /\ UNCHANGED <<access, gone, box, summaries>>
    BY <1>3, <2>1 DEF CameraReports
  <2>4. EstateTypes'
    BY <2>2, <2>3 DEF EstateInv, EstateTypes
  <2>5. \A d \in Lenses : lens'[d].box = lens[d].box
    BY <2>2, <2>3 DEF EstateInv, EstateTypes
  <2>6. BoxOfOwner'
    BY <2>5 DEF EstateInv, BoxOfOwner
  <2> QED
    BY <1>0, <2>3, <2>4, <2>6 DEF EstateInv, SitesEmptied, AskedForOwn
<1>4. ASSUME NEW b \in Boxes, FallSilent(b) \/ (\E s \in Premises : Adopt(b, s)) PROVE EstateInv'
  <2>1. UNCHANGED <<access, gone, lens, summaries>>
    BY <1>4 DEF FallSilent, Adopt
  <2>2. PICK x : x \in [site : Premises \cup {Nowhere}, fresh : BOOLEAN] /\ box' = [box EXCEPT ![b] = x]
    <3>1. CASE FallSilent(b)
      <4>1. PICK y : y = [box[b] EXCEPT !.fresh = FALSE]
        OBVIOUS
      <4>2. y \in [site : Premises \cup {Nowhere}, fresh : BOOLEAN]
        BY <4>1 DEF EstateInv, EstateTypes
      <4> QED
        BY <3>1, <4>1, <4>2 DEF FallSilent
    <3>2. ASSUME NEW s \in Premises, Adopt(b, s)
          PROVE  \E x \in [site : Premises \cup {Nowhere}, fresh : BOOLEAN] : box' = [box EXCEPT ![b] = x]
      BY <3>2 DEF Adopt
    <3> QED
      BY <1>4, <3>1, <3>2
  <2>3. EstateTypes'
    BY <2>1, <2>2 DEF EstateInv, EstateTypes
  <2> QED
    BY <1>0, <2>1, <2>3 DEF EstateInv, SitesEmptied, BoxOfOwner, AskedForOwn
<1>5. ASSUME NEW c \in Lenses, DeleteLens(c) PROVE EstateInv'
  <2>1. gone' = gone \cup {c} /\ UNCHANGED <<access, lens, box, summaries>>
    BY <1>5 DEF DeleteLens
  <2>2. SitesEmptied'
    BY <2>1, EstateAssumption DEF EstateInv, SitesEmptied
  <2> QED
    BY <1>0, <2>1, <2>2 DEF EstateInv, EstateTypes, BoxOfOwner, AskedForOwn
<1>6. ASSUME NEW s \in Premises, DeletePremises(s) PROVE EstateInv'
  <2>1. gone' = gone \cup {s} /\ UNCHANGED <<access, lens, box, summaries>>
    BY <1>6 DEF DeletePremises
  <2>2. SitesEmptied'
    BY <1>6, <2>1 DEF DeletePremises, EstateInv, SitesEmptied
  <2> QED
    BY <1>0, <2>1, <2>2 DEF EstateInv, EstateTypes, BoxOfOwner, AskedForOwn
<1>7. ASSUME NEW u \in People, NEW s \in Premises \cup {Nowhere}, create_rule(u, s) PROVE EstateInv'
  <2>1. UNCHANGED <<access, gone, lens, box, summaries>>
    BY <1>7 DEF create_rule
  <2> QED
    BY <1>0, <2>1 DEF EstateInv, EstateTypes, SitesEmptied, BoxOfOwner, AskedForOwn
<1>8. ASSUME NEW d, d.site \in Premises \cup {Nowhere}, summaries' = summaries \cup {d},
             \A u \in People : d.by = u => d.org = HomeOrg[u] /\ d.site \in permitted_site_ids(u),
             UNCHANGED <<access, gone, lens, box>>
      PROVE  EstateInv'
  BY <1>0, <1>8 DEF EstateInv, EstateTypes, SitesEmptied, BoxOfOwner, AskedForOwn
<1>9. ASSUME NEW u \in People, NEW s \in Premises \cup {Nowhere}, create_digest(u, s) PROVE EstateInv'
  <2>1. PICK d : d = [org |-> HomeOrg[u], site |-> s, by |-> u]
    OBVIOUS
  <2>2. d.org = HomeOrg[u] /\ d.site = s /\ d.by = u
    BY <2>1
  <2>3. s \in permitted_site_ids(u)
    BY <1>9 DEF create_digest, permitted_site_ids
  <2> QED
    BY <1>8, <1>9, <2>1, <2>2, <2>3 DEF create_digest
<1>10. ASSUME NEW u \in People, ScheduledDigest(HomeOrg[u]) PROVE EstateInv'
  <2>1. PICK d : d = [org |-> HomeOrg[u], site |-> Nowhere, by |-> Nowhere]
    OBVIOUS
  <2>2. d.site = Nowhere /\ d.by \notin People
    BY <2>1, ScopeAssumption
  <2> QED
    BY <1>8, <1>10, <2>1, <2>2 DEF ScheduledDigest
<1> QED
  BY <1>1, <1>2, <1>3, <1>4, <1>5, <1>6, <1>7, <1>9, <1>10 DEF EstateNext

\* What the routes show, what the tools answer and what the coverage counts agree in
\* every state (api/sites.py, cameras.py, fleet.py, digests.py, tools/read.py).
THEOREM EstateIsShown == EstateInit /\ [][EstateNext]_estateVars => []EstateAgrees
<1>1. EstateInv => EstateAgrees
  BY ToolsAgree, CoverageAgrees, DigestsRead DEF EstateAgrees
<1> QED
  BY EstateStarts, EstateStep, <1>1, PTL

-----------------------------------------------------------------------------
(***************************************************************************)
(* EventDesk.  The reads agree in any state of finitely many rows: what    *)
(* has to be shown is that pages cover a list, and that the busiest        *)
(* cameras and the rest sum up to it.  Who worked an event needs what a    *)
(* request between its read and its flush is about to write.               *)
(***************************************************************************)
Work == [status : {"new", "acknowledged"} \cup CLOSED_STATUSES, ack : People \cup {Nowhere},
         closer : People \cup {Nowhere}, feedback : {Nowhere, "approved", "rejected"}]
PostRecord == [about : {"nothing", "workflow", "feedback"}, id : Nat, read : Work, new : Work]
RowFields == {"id", "camera", "site", "org", "severity", "work"}

\* Rows are numbered as they are stored.
DeskTypes ==
    /\ IsFiniteSet(rows) /\ Cardinality(rows) <= MaxRows
    /\ \A r \in rows : DOMAIN r = RowFields /\ r.work \in Work /\ r.id \in 1..Cardinality(rows)
    /\ \A q, r \in rows : q.id = r.id => q = r
    /\ post \in [Posts -> PostRecord]
    /\ DOMAIN verdict = 1..MaxRows
    /\ \A i \in 1..MaxRows : i > Cardinality(rows) => verdict[i] = Nowhere

\* Who acknowledged and who closed an event fits its status.
Fits(w) == /\ (w.status = "new") <=> (w.ack = Nowhere)
           /\ (w.status \in CLOSED_STATUSES) <=> (w.closer # Nowhere)

\* A workflow request writes what fits and leaves the feedback, and the other way round.
PostsFit ==
    \A p \in Posts :
       LET q == post[p] IN
       /\ q.about = "workflow" => Fits(q.new) /\ q.new.feedback = q.read.feedback
       /\ q.about = "feedback" => /\ q.new.status = q.read.status /\ q.new.ack = q.read.ack
                                  /\ q.new.closer = q.read.closer
       /\ q.about = "nothing" => q = NoPost

DeskInv == DeskTypes /\ PostsFit /\ WorkIsAttributed

-----------------------------------------------------------------------------
(* Pages.                                                                     *)

\* Division by a page's size, and which page a position falls on.
LEMMA DivisionFits ==
  ASSUME NEW n \in Nat, NEW p \in Nat \ {0}
  PROVE  n \div p \in Nat /\ (n \div p) * p <= n /\ n < (n \div p + 1) * p
BY SMT

LEMMA DivisionLeast ==
  ASSUME NEW n \in Nat, NEW p \in Nat \ {0}, NEW k \in Nat, k * p <= n, NEW q \in Int, n < (q + 1) * p
  PROVE  k <= q
<1> SUFFICES ASSUME q + 1 <= k PROVE FALSE
  OBVIOUS
<1>1. PICK d \in Nat : k = (q + 1) + d
  <2>1. k - (q + 1) \in Nat /\ k = (q + 1) + (k - (q + 1))
    OBVIOUS
  <2> QED
    BY <2>1
<1>2. k * p = (q + 1) * p + d * p
  BY <1>1
<1>3. d * p >= 0 /\ k * p \in Int /\ (q + 1) * p \in Int /\ d * p \in Int
  OBVIOUS
<1> QED
  BY <1>2, <1>3

\* The m rows of a list fill the pages there are, the last one perhaps in part.
LEMMA PageFound ==
  ASSUME NEW m \in Nat, NEW n \in Nat, n < m
  PROVE  \E k \in 1..((m + PageSize - 1) \div PageSize) : n \in ((k - 1) * PageSize)..(k * PageSize - 1)
<1>1. PICK j : j = n \div PageSize
  OBVIOUS
<1>2. j \in Nat /\ j * PageSize <= n /\ n < (j + 1) * PageSize
  BY <1>1, DivisionFits, DeskAssumption
<1>3. PICK pages : pages = (m + PageSize - 1) \div PageSize
  OBVIOUS
<1>4. pages \in Nat /\ m + PageSize - 1 < (pages + 1) * PageSize
  BY <1>3, DivisionFits, DeskAssumption
<1>5. (j + 1) * PageSize = j * PageSize + PageSize /\ j * PageSize \in Nat
  BY <1>2, DeskAssumption
<1>6. (j + 1) * PageSize <= m + PageSize - 1
  BY <1>2, <1>5, DeskAssumption
<1>7. j + 1 <= pages
  BY <1>2, <1>4, <1>6, DivisionLeast, DeskAssumption
<1>8. (j + 1) \in 1..pages /\ n \in (((j + 1) - 1) * PageSize)..((j + 1) * PageSize - 1)
  BY <1>2, <1>4, <1>5, <1>7, DeskAssumption
<1> QED
  BY <1>3, <1>8

\* The pages of a list hold it.
LEMMA PagesHold ==
  ASSUME NEW u \in People, NEW f \in Filter, IsFiniteSet(rows), \A r \in rows : r.id \in Nat
  PROVE  /\ CountRows(u, f) = Cardinality(ListRows(u, f))
         /\ ListRows(u, f) = UNION {Page(u, f, k) : k \in 1..Pages(u, f)}
<1>1. PICK S : S = ListRows(u, f)
  OBVIOUS
<1>2. S \subseteq rows /\ IsFiniteSet(S) /\ Cardinality(S) \in Nat
  <2>1. S \subseteq rows
    BY <1>1 DEF ListRows, Asked, _event_query, scope_to_sites, OrgRows
  <2> QED
    BY <2>1, FS_Subset, FS_CardinalityType
<1>3. CountRows(u, f) = Cardinality(S)
  BY <1>1 DEF CountRows, ListRows, _event_query, OrgRows
<1>4. PICK last : last = Pages(u, f)
  OBVIOUS
<1>5. last = (Cardinality(S) + PageSize - 1) \div PageSize
  BY <1>3, <1>4 DEF Pages
<1>6. ASSUME NEW r \in S PROVE \E k \in 1..last : r \in Page(u, f, k)
  <2>1. PICK A : A = {x \in S : x.id > r.id}
    OBVIOUS
  <2>2. A \subseteq S /\ r \notin A
    BY <1>2, <2>1
  <2>3. Cardinality(A) \in Nat /\ Cardinality(A) < Cardinality(S)
    BY <1>2, <2>2, FS_Subset, FS_CardinalityType
  <2>4. NewestFirst(S, r) = Cardinality(A)
    BY <2>1 DEF NewestFirst
  <2>5. PICK k \in 1..last : Cardinality(A) \in ((k - 1) * PageSize)..(k * PageSize - 1)
    BY <1>2, <1>5, <2>3, PageFound
  <2> QED
    BY <1>1, <2>4, <2>5 DEF Page
<1>7. \A k \in 1..last : Page(u, f, k) \subseteq S
  BY <1>1 DEF Page
<1> QED
  BY <1>1, <1>3, <1>4, <1>6, <1>7

-----------------------------------------------------------------------------
(* Sums.                                                                      *)

\* A nonempty finite set of numbers has a greatest one.
LEMMA GreatestExists ==
    ASSUME NEW S, S \subseteq Nat, IsFiniteSet(S), S # {}
    PROVE  \E m \in S : \A x \in S : x <= m
<1> DEFINE Bad == {A \in SUBSET S : A # {} /\ ~ \E m \in A : \A x \in A : x <= m}
<1> SUFFICES ASSUME S \in Bad PROVE FALSE
  OBVIOUS
<1>1. IsWellFoundedOn(StrictSubsetOrdering(S), SUBSET S)
  BY FS_StrictSubsetOrderingWellFounded, FS_FiniteSubsetsOfFinite
<1>2. PICK A \in Bad : \A B \in Bad : ~(<<B, A>> \in StrictSubsetOrdering(S))
  <2>1. Bad \subseteq SUBSET S /\ Bad # {}
    OBVIOUS
  <2> HIDE DEF Bad
  <2>2. QED BY <1>1, <2>1, WFMin
<1>3. PICK a \in A : TRUE
  OBVIOUS
<1>4. CASE A \ {a} = {}
  <2>1. \A x \in A : x <= a
    BY <1>3, <1>4
  <2>2. QED BY <2>1, <1>3
<1>5. CASE A \ {a} # {}
  <2>1. <<A \ {a}, A>> \in StrictSubsetOrdering(S)
    BY <1>3 DEF StrictSubsetOrdering
  <2>2. A \ {a} \notin Bad
    BY <2>1, <1>2
  <2>3. PICK m \in A \ {a} : \A x \in A \ {a} : x <= m
    BY <2>2, <1>5
  <2>4. CASE a <= m
    <3>1. \A x \in A : x <= m
      BY <2>3, <2>4
    <3>2. QED BY <3>1, <1>2
  <2>5. CASE ~(a <= m)
    <3>1. \A x \in A : x <= a
      BY <2>3, <2>5, <1>3
    <3>2. QED BY <3>1, <1>2, <1>3
  <2>6. QED BY <2>4, <2>5
<1>6. QED BY <1>4, <1>5

\* What a sum by camera adds up, one camera after the other.
Adds(h, B, g) ==
    g = [s \in SUBSET B |->
            IF s = {} THEN 0 ELSE h[CHOOSE x \in s : TRUE] + g[s \ {CHOOSE x \in s : TRUE}]]
OfCameras(S, B) == {r \in S : r.camera \in B}

\* It is the number of the cameras' rows.
LEMMA SumCounts ==
  ASSUME NEW S, IsFiniteSet(S), NEW B, IsFiniteSet(B), NEW h, \A c \in B : h[c] = OfCamera(S, c)
  PROVE  (CHOOSE g : Adds(h, B, g))[B] = Cardinality(OfCameras(S, B))
<1>1. PICK count : count = [s \in SUBSET B |-> Cardinality(OfCameras(S, s))]
  OBVIOUS
<1>2. ASSUME NEW s \in SUBSET B
      PROVE  count[s] = IF s = {} THEN 0 ELSE h[CHOOSE x \in s : TRUE] + count[s \ {CHOOSE x \in s : TRUE}]
  <2>1. PICK y : y = CHOOSE x \in s : TRUE
    OBVIOUS
  <2>2. CASE s = {}
    <3>1. OfCameras(S, s) = {}
      BY <2>2 DEF OfCameras
    <3> QED
      BY <1>1, <2>2, <3>1, FS_EmptySet
  <2>3. CASE s # {}
    <3>1. y \in s
      BY <2>1, <2>3
    <3>2. PICK A, C, D : /\ A = OfCameras(S, s) /\ C = OfCameras(S, s \ {y})
                         /\ D = {r \in S : r.camera = y}
      OBVIOUS
    <3>3. A = C \cup D /\ C \cap D = {} /\ C \subseteq S /\ D \subseteq S
      BY <3>1, <3>2 DEF OfCameras
    <3>4. IsFiniteSet(C) /\ IsFiniteSet(D)
      BY <3>3, FS_Subset
    <3>5. Cardinality(A) = Cardinality(C) + Cardinality(D) - Cardinality(C \cap D)
      BY <3>3, <3>4, FS_Union
    <3>6. Cardinality(C \cap D) = 0 /\ Cardinality(C) \in Nat /\ Cardinality(D) \in Nat
      BY <3>3, <3>4, FS_EmptySet, FS_CardinalityType
    <3>7. Cardinality(A) = Cardinality(C) + Cardinality(D)
      BY <3>5, <3>6
    <3>8. h[y] = Cardinality(D) /\ count[s] = Cardinality(A) /\ count[s \ {y}] = Cardinality(C)
      BY <1>1, <3>1, <3>2 DEF OfCamera
    <3> QED
      BY <2>1, <2>3, <3>6, <3>7, <3>8
  <2> QED
    BY <2>2, <2>3
<1>3. Adds(h, B, count)
  BY <1>1, <1>2 DEF Adds
<1>4. PICK g : g = CHOOSE x : Adds(h, B, x)
  OBVIOUS
<1>5. Adds(h, B, g)
  BY <1>3, <1>4
<1>6. PICK Bad : Bad = {s \in SUBSET B : g[s] # count[s]}
  OBVIOUS
<1>7. Bad = {}
  <2> SUFFICES ASSUME Bad # {} PROVE FALSE
    OBVIOUS
  <2>1. IsWellFoundedOn(StrictSubsetOrdering(B), SUBSET B)
    BY FS_StrictSubsetOrderingWellFounded, FS_FiniteSubsetsOfFinite
  <2>2. PICK s \in Bad : \A t \in Bad : ~(<<t, s>> \in StrictSubsetOrdering(B))
    <3>1. Bad \subseteq SUBSET B
      BY <1>6
    <3> QED
      BY <2>1, <3>1, WFMin
  <2>3. PICK y : y = CHOOSE x \in s : TRUE
    OBVIOUS
  <2>4. s \in SUBSET B /\ g[s] # count[s]
    BY <1>6
  <2>5. g[s] = IF s = {} THEN 0 ELSE h[y] + g[s \ {y}]
    BY <1>5, <2>3, <2>4 DEF Adds
  <2>6. count[s] = IF s = {} THEN 0 ELSE h[y] + count[s \ {y}]
    BY <1>2, <2>3, <2>4
  <2>7. s # {} /\ y \in s
    BY <2>3, <2>4, <2>5, <2>6
  <2>8. <<s \ {y}, s>> \in StrictSubsetOrdering(B)
    BY <2>4, <2>7 DEF StrictSubsetOrdering
  <2>9. s \ {y} \in SUBSET B /\ s \ {y} \notin Bad
    BY <2>2, <2>4, <2>8
  <2>10. g[s \ {y}] = count[s \ {y}]
    BY <1>6, <2>9
  <2> QED
    BY <2>4, <2>5, <2>6, <2>7, <2>10
<1>8. g[B] = count[B]
  BY <1>6, <1>7
<1> QED
  BY <1>1, <1>4, <1>8

\* The sum of what is left over.
LEMMA RestSum ==
  ASSUME NEW S, IsFiniteSet(S), NEW B, IsFiniteSet(B)
  PROVE  MapThenSumSet(LAMBDA c : OfCamera(S, c), B) = Cardinality(OfCameras(S, B))
<1>1. PICK h : h = [c \in B |-> OfCamera(S, c)]
  OBVIOUS
<1>2. MapThenSumSet(LAMBDA c : OfCamera(S, c), B) = (CHOOSE g : Adds(h, B, g))[B]
  <2>1. \A g : Adds(h, B, g) <=> g = [s \in SUBSET B |-> IF s = {} THEN 0 ELSE OfCamera(S, CHOOSE x \in s : TRUE) + g[s \ {CHOOSE x \in s : TRUE}]]
    <3>1. \A s \in SUBSET B : s # {} => h[CHOOSE x \in s : TRUE] = OfCamera(S, CHOOSE x \in s : TRUE)
      BY <1>1
    <3> QED
      BY <3>1, ZenonT(30) DEF Adds
  <2> QED
    BY <2>1, ZenonT(30) DEF MapThenSumSet, MapThenFoldSet
<1> QED
  BY <1>1, <1>2, SumCounts

\* The busiest cameras exist: no camera outside a set of the wanted size has more rows.
Busiest(S, busy, T) == \A c \in T, d \in busy \ T : OfCamera(S, c) >= OfCamera(S, d)

LEMMA BusiestExist ==
  ASSUME NEW S, IsFiniteSet(S), NEW busy, IsFiniteSet(busy), NEW n \in Nat, n <= Cardinality(busy)
  PROVE  \E T \in SUBSET busy : Cardinality(T) = n /\ Busiest(S, busy, T)
<1>1. PICK K : K = {k \in 0..n : \E T \in SUBSET busy : Cardinality(T) = k /\ Busiest(S, busy, T)}
  OBVIOUS
<1>2. 0 \in K
  <2>1. {} \in SUBSET busy /\ Cardinality({}) = 0 /\ Busiest(S, busy, {})
    BY FS_EmptySet DEF Busiest
  <2> QED
    BY <1>1, <2>1
<1>3. IsFiniteSet(K) /\ K \subseteq Nat
  <2>1. IsFiniteSet(0..n)
    BY FS_Interval
  <2>2. K \in SUBSET (0..n)
    BY <1>1
  <2>3. IsFiniteSet(K)
    BY <2>1, <2>2, FS_Subset
  <2> QED
    BY <2>2, <2>3
<1>4. PICK m \in K : \A x \in K : x <= m
  BY <1>2, <1>3, GreatestExists
<1>5. PICK T \in SUBSET busy : Cardinality(T) = m /\ Busiest(S, busy, T)
  BY <1>1
<1>6. m \in 0..n
  BY <1>1
<1>7. ASSUME m < n PROVE FALSE
  <2>1. \A d : OfCamera(S, d) \in 0..Cardinality(S)
    <3>1. ASSUME NEW d PROVE OfCamera(S, d) \in 0..Cardinality(S)
      <4>1. PICK D : D = {r \in S : r.camera = d}
        OBVIOUS
      <4>2. D \subseteq S
        BY <4>1
      <4>3. IsFiniteSet(D) /\ Cardinality(D) <= Cardinality(S)
        BY <4>2, FS_Subset
      <4>4. Cardinality(D) \in Nat /\ Cardinality(S) \in Nat
        BY <4>3, FS_CardinalityType
      <4> QED
        BY <4>1, <4>3, <4>4 DEF OfCamera
    <3> QED
      BY <3>1
  <2>2. PICK N : N = {OfCamera(S, d) : d \in busy \ T}
    OBVIOUS
  <2>3. busy \ T # {}
    <3>1. SUFFICES ASSUME busy \ T = {} PROVE FALSE
      OBVIOUS
    <3>2. T = busy
      BY <3>1
    <3>3. PICK size : size = Cardinality(busy)
      OBVIOUS
    <3>4. size \in Nat /\ n <= size /\ size = m
      BY <1>5, <3>2, <3>3, FS_CardinalityType
    <3> QED
      BY <1>6, <1>7, <3>4
  <2>4. IsFiniteSet(N) /\ N \subseteq Nat /\ N # {}
    <3>1. N \subseteq 0..Cardinality(S) /\ Cardinality(S) \in Nat
      BY <2>1, <2>2, FS_CardinalityType
    <3>2. IsFiniteSet(0..Cardinality(S))
      BY <3>1, FS_Interval
    <3>3. N \in SUBSET (0..Cardinality(S))
      BY <3>1
    <3>4. IsFiniteSet(N)
      BY <3>2, <3>3, FS_Subset
    <3> QED
      BY <2>2, <2>3, <3>1, <3>4
  <2>5. PICK x \in N : \A y \in N : y <= x
    BY <2>4, GreatestExists
  <2>6. PICK d \in busy \ T : OfCamera(S, d) = x
    BY <2>2
  <2>7. \A e \in busy \ T : OfCamera(S, d) >= OfCamera(S, e)
    <3>1. \A e \in busy \ T : OfCamera(S, e) <= x
      BY <2>2, <2>5
    <3> QED
      BY <2>1, <2>6, <3>1
  <2>8. Busiest(S, busy, T \cup {d})
    BY <1>5, <2>6, <2>7 DEF Busiest
  <2>9. Cardinality(T \cup {d}) = m + 1
    <3>1. IsFiniteSet(T)
      BY FS_Subset
    <3> QED
      BY <1>5, <2>6, <3>1, FS_AddElement
  <2>10. m + 1 \in K
    <3>1. (T \cup {d}) \in SUBSET busy /\ m + 1 \in 0..n
      BY <1>6, <1>7, <2>6
    <3> QED
      BY <1>1, <2>8, <2>9, <3>1
  <2> QED
    BY <1>4, <1>6, <2>10
<1> QED
  BY <1>5, <1>6, <1>7

\* The cameras named and the rest sum up to the rows.
LEMMA BreakdownAddsUp ==
  ASSUME NEW S, IsFiniteSet(S)
  PROVE  Cardinality(S) = Breakdown(S).other
                             + MapThenSumSet(LAMBDA c : Breakdown(S).named[c], DOMAIN Breakdown(S).named)
<1>1. PICK busy : busy = {r.camera : r \in S}
  OBVIOUS
<1>2. IsFiniteSet(busy)
  <2>1. PICK f : f = [r \in S |-> r.camera]
    OBVIOUS
  <2>2. f \in Surjection(S, busy)
    BY <1>1, <2>1 DEF Surjection
  <2> QED
    BY <2>2, FS_Surjection
<1>3. PICK n : n = IF Cardinality(busy) < TopCameras THEN Cardinality(busy) ELSE TopCameras
  OBVIOUS
<1>4. n \in Nat /\ n <= Cardinality(busy)
  BY <1>2, <1>3, FS_CardinalityType, DeskAssumption
<1>5. PICK top : top = CHOOSE T \in SUBSET busy : /\ Cardinality(T) = n
                                                  /\ \A c \in T, d \in busy \ T : OfCamera(S, c) >= OfCamera(S, d)
  OBVIOUS
<1>6. top \subseteq busy
  BY <1>2, <1>4, <1>5, BusiestExist DEF Busiest
<1>7. /\ Breakdown(S).named = [c \in top |-> OfCamera(S, c)]
      /\ Breakdown(S).other = MapThenSumSet(LAMBDA c : OfCamera(S, c), busy \ top)
  BY <1>1, <1>3, <1>5 DEF Breakdown
<1>8. IsFiniteSet(top) /\ IsFiniteSet(busy \ top)
  BY <1>2, <1>6, FS_Subset
<1>9. Breakdown(S).other = Cardinality(OfCameras(S, busy \ top))
  BY <1>7, <1>8, RestSum
<1>10. PICK h : h = Breakdown(S).named
  OBVIOUS
<1>11. DOMAIN h = top /\ \A c \in top : h[c] = OfCamera(S, c)
  BY <1>7, <1>10
<1>12. MapThenSumSet(LAMBDA c : h[c], top) = Cardinality(OfCameras(S, top))
  <2>1. MapThenSumSet(LAMBDA c : h[c], top) = (CHOOSE g : Adds(h, top, g))[top]
    BY DEF MapThenSumSet, MapThenFoldSet, Adds
  <2> QED
    BY <1>8, <1>11, <2>1, SumCounts
<1>13. PICK A, C : A = OfCameras(S, top) /\ C = OfCameras(S, busy \ top)
  OBVIOUS
<1>14. A \subseteq S /\ C \subseteq S /\ S = A \cup C /\ A \cap C = {}
  BY <1>1, <1>13 DEF OfCameras
<1>15. /\ IsFiniteSet(A) /\ IsFiniteSet(C) /\ Cardinality(A \cap C) = 0
       /\ Cardinality(A) \in Nat /\ Cardinality(C) \in Nat
  BY <1>14, FS_Subset, FS_EmptySet, FS_CardinalityType
<1>16. Cardinality(S) = Cardinality(A) + Cardinality(C) - Cardinality(A \cap C)
  BY <1>14, <1>15, FS_Union
<1>17. Cardinality(S) = Cardinality(C) + Cardinality(A)
  BY <1>15, <1>16
<1>18. MapThenSumSet(LAMBDA c : Breakdown(S).named[c], DOMAIN Breakdown(S).named) = Cardinality(A)
  BY <1>10, <1>11, <1>12, <1>13
<1> QED
  BY <1>9, <1>13, <1>17, <1>18

-----------------------------------------------------------------------------
(* The reads agree.                                                           *)

LEMMA ReadsDoAgree == DeskInv => ReadsAgree
<1> SUFFICES ASSUME DeskInv, NEW u \in People, NEW f \in Filter
             PROVE  /\ CountRows(u, f) = Cardinality(ListRows(u, f))
                    /\ ListRows(u, f) = UNION {Page(u, f, k) : k \in 1..Pages(u, f)}
                    /\ ~f.open => /\ StatsBase(u, f.site, f.since) = ListRows(u, f)
                                  /\ Cardinality(ListRows(u, f))
                                       = Breakdown(StatsBase(u, f.site, f.since)).other
                                           + MapThenSumSet(LAMBDA c : Breakdown(StatsBase(u, f.site, f.since)).named[c],
                                                           DOMAIN Breakdown(StatsBase(u, f.site, f.since)).named)
  BY DEF ReadsAgree
<1>1. IsFiniteSet(rows) /\ \A r \in rows : r.id \in Nat
  <2>1. IsFiniteSet(rows) /\ Cardinality(rows) \in Nat
    BY FS_CardinalityType DEF DeskInv, DeskTypes
  <2> QED
    BY <2>1 DEF DeskInv, DeskTypes
<1>2. PICK S : S = ListRows(u, f)
  OBVIOUS
<1>3. IsFiniteSet(S)
  <2>1. S \subseteq rows
    BY <1>2 DEF ListRows, Asked, _event_query, scope_to_sites, OrgRows
  <2> QED
    BY <1>1, <2>1, FS_Subset
<1>4. ~f.open => StatsBase(u, f.site, f.since) = S
  BY <1>2 DEF StatsBase, ListRows, Asked, _event_query, scope_to_sites, OrgRows
<1>5. ASSUME NEW stats, stats = S
      PROVE  Cardinality(S) = Breakdown(stats).other
                          + MapThenSumSet(LAMBDA c : Breakdown(stats).named[c], DOMAIN Breakdown(stats).named)
  <2>1. IsFiniteSet(stats)
    BY <1>3, <1>5
  <2>2. Cardinality(stats) = Breakdown(stats).other
                          + MapThenSumSet(LAMBDA c : Breakdown(stats).named[c], DOMAIN Breakdown(stats).named)
    BY <2>1, BreakdownAddsUp
  <2> QED
    BY <1>5, <2>2
<1>6. /\ CountRows(u, f) = Cardinality(S)
      /\ S = UNION {Page(u, f, k) : k \in 1..Pages(u, f)}
  BY <1>1, <1>2, PagesHold
<1> QED
  BY <1>2, <1>4, <1>5, <1>6

LEMMA ToolsListTheSame == DeskInv => ToolsMirrorLists
<1> SUFFICES ASSUME DeskInv, NEW u \in People, NEW f \in Filter
             PROVE  /\ ~IsSuper(u) => _query_events_rows(u, f) = Page(u, f, 1)
                    /\ _query_events_rows(u, f) \subseteq ListRows(u, f)
                    /\ unresolved_critical_events(u, f.site)
                           \subseteq ListRows(u, [f EXCEPT !.since = 1, !.open = TRUE])
  BY DEF ToolsMirrorLists
<1>1. IsFiniteSet(rows) /\ Cardinality(rows) \in Nat
  BY FS_CardinalityType DEF DeskInv, DeskTypes
<1>2. PICK S : S = Asked(scope_to_sites(OwnRows(rows, u), u), f)
  OBVIOUS
<1>3. S \subseteq ListRows(u, f) /\ S \subseteq rows /\ (~IsSuper(u) => S = ListRows(u, f))
  BY <1>2 DEF ListRows, Asked, _event_query, scope_to_sites, OrgRows, OwnRows
<1>4. _query_events_rows(u, f) = {r \in S : NewestFirst(S, r) < PageSize}
  BY <1>2 DEF _query_events_rows
<1>5. ASSUME NEW r \in S PROVE NewestFirst(S, r) \in Nat
  <2>1. {x \in S : x.id > r.id} \subseteq rows
    BY <1>3
  <2>2. IsFiniteSet({x \in S : x.id > r.id})
    BY <1>1, <2>1, FS_Subset
  <2> QED
    BY <2>2, FS_CardinalityType DEF NewestFirst
<1>6. Page(u, f, 1) = LET L == ListRows(u, f) IN {r \in L : NewestFirst(L, r) \in 0..(PageSize - 1)}
  BY DeskAssumption DEF Page
<1>7. ~IsSuper(u) => _query_events_rows(u, f) = Page(u, f, 1)
  BY <1>3, <1>4, <1>5, <1>6, DeskAssumption
<1>8. PICK g : g = [f EXCEPT !.since = 1, !.open = TRUE]
  OBVIOUS
<1>9. g.site = f.site /\ g.since = 1 /\ g.open
  BY <1>8 DEF Filter
<1>10. \A r \in rows : r.id >= 1
  BY <1>1 DEF DeskInv, DeskTypes
<1>11. unresolved_critical_events(u, f.site) \subseteq ListRows(u, g)
  BY <1>9, <1>10 DEF unresolved_critical_events, ListRows, Asked, _event_query, scope_to_sites, OrgRows,
                     OwnRows, CLOSED_STATUSES
<1> QED
  BY <1>3, <1>4, <1>7, <1>8, <1>11

-----------------------------------------------------------------------------
(* The invariant.                                                             *)

LEMMA DeskStarts == DeskInit => DeskInv
<1> SUFFICES ASSUME DeskInit PROVE DeskInv
  OBVIOUS
<1>1. rows = {} /\ Cardinality(rows) = 0 /\ IsFiniteSet(rows)
  BY FS_EmptySet DEF DeskInit
<1>2. NoPost \in PostRecord
  BY DEF NoPost, PostRecord, Unworked, Work, CLOSED_STATUSES
<1>3. DeskTypes
  BY <1>1, <1>2, DeskAssumption DEF DeskTypes, DeskInit
<1>4. PostsFit
  BY DEF PostsFit, DeskInit, NoPost
<1> QED
  BY <1>1, <1>3, <1>4 DEF DeskInv, WorkIsAttributed

\* A stored event has the next number, and nobody has worked it.
LEMMA StoringKeeps ==
  ASSUME DeskInv, NEW c, NEW sev, EventStored(c, sev)
  PROVE  DeskInv'
<1>1. PICK n : n = Cardinality(rows)
  OBVIOUS
<1>2. IsFiniteSet(rows) /\ n \in Nat /\ n < MaxRows /\ \A q \in rows : q.id \in 1..n
  BY <1>1, FS_CardinalityType DEF DeskInv, DeskTypes, EventStored
<1>3. PICK r : r = EventRow(n + 1, c, sev)
  OBVIOUS
<1>4. /\ DOMAIN r = RowFields /\ r.id = n + 1 /\ r.work = Unworked
      /\ Unworked \in Work /\ Unworked.status = "new" /\ Unworked.ack = Nowhere
      /\ Unworked.closer = Nowhere /\ Unworked.feedback = Nowhere
  BY <1>3 DEF EventRow, RowFields, Unworked, Work
<1>5. rows' = rows \cup {r} /\ post' = post /\ verdict' = verdict /\ blurred' = blurred
  BY <1>1, <1>3 DEF EventStored
<1>6. r \notin rows
  BY <1>2, <1>4
<1>7. IsFiniteSet(rows') /\ Cardinality(rows') = n + 1
  BY <1>1, <1>2, <1>5, <1>6, FS_AddElement
<1>8. DeskTypes'
  <2>1. IsFiniteSet(rows') /\ Cardinality(rows') <= MaxRows
    BY <1>2, <1>7, DeskAssumption
  <2>2. \A q \in rows' : DOMAIN q = RowFields /\ q.work \in Work /\ q.id \in 1..Cardinality(rows')
    BY <1>2, <1>4, <1>5, <1>7 DEF DeskInv, DeskTypes
  <2>3. \A q, x \in rows' : q.id = x.id => q = x
    BY <1>2, <1>4, <1>5 DEF DeskInv, DeskTypes
  <2>4. \A i \in 1..MaxRows : i > Cardinality(rows') => verdict'[i] = Nowhere
    BY <1>1, <1>2, <1>5, <1>7 DEF DeskInv, DeskTypes
  <2> QED
    BY <1>5, <2>1, <2>2, <2>3, <2>4 DEF DeskInv, DeskTypes
<1>9. PostsFit'
  BY <1>5 DEF DeskInv, PostsFit
<1>10. WorkIsAttributed'
  <2>1. r.id \in 1..MaxRows /\ r.id > Cardinality(rows)
    BY <1>1, <1>2, <1>4, DeskAssumption
  <2>2. verdict[r.id] = Nowhere
    BY <2>1 DEF DeskInv, DeskTypes
  <2>3. "new" \notin CLOSED_STATUSES
    BY DEF CLOSED_STATUSES
  <2> QED
    BY <1>4, <1>5, <2>2, <2>3 DEF DeskInv, WorkIsAttributed
<1> QED
  BY <1>8, <1>9, <1>10 DEF DeskInv

\* What a status request makes of any row fits.
LEMMA MovedFits ==
  ASSUME NEW w \in Work, NEW u \in People, NEW s \in {"new", "acknowledged"} \cup CLOSED_STATUSES
  PROVE  Moved(w, s, u) \in Work /\ Fits(Moved(w, s, u)) /\ Moved(w, s, u).feedback = w.feedback
<1>1. u # Nowhere
  BY ScopeAssumption
<1>2. PICK a : a = IF w.ack = Nowhere THEN u ELSE w.ack
  OBVIOUS
<1>3. a \in People \cup {Nowhere} /\ a # Nowhere
  BY <1>1, <1>2 DEF Work
<1>4. CASE s = "acknowledged"
  <2>1. PICK m : m = [w EXCEPT !.status = "acknowledged", !.ack = a, !.closer = Nowhere]
    OBVIOUS
  <2>2. Moved(w, s, u) = m
    BY <1>2, <1>4, <2>1 DEF Moved, CLOSED_STATUSES, Work
  <2>3. m \in Work /\ m.status = "acknowledged" /\ m.ack = a /\ m.closer = Nowhere /\ m.feedback = w.feedback
    BY <1>3, <2>1 DEF Work
  <2> QED
    BY <1>3, <2>2, <2>3 DEF Fits, CLOSED_STATUSES
<1>5. CASE s \in CLOSED_STATUSES
  <2>1. PICK m : m = [w EXCEPT !.status = s, !.ack = a, !.closer = u]
    OBVIOUS
  <2>2. Moved(w, s, u) = m
    BY <1>2, <1>5, <2>1 DEF Moved, CLOSED_STATUSES, Work
  <2>3. m \in Work /\ m.status = s /\ m.ack = a /\ m.closer = u /\ m.feedback = w.feedback
    BY <1>3, <2>1 DEF Work
  <2> QED
    BY <1>1, <1>3, <1>5, <2>2, <2>3 DEF Fits, CLOSED_STATUSES
<1>6. CASE s = "new"
  <2>1. PICK m : m = [w EXCEPT !.status = "new", !.ack = Nowhere, !.closer = Nowhere]
    OBVIOUS
  <2>2. Moved(w, s, u) = m
    BY <1>6, <2>1 DEF Moved, CLOSED_STATUSES, Work
  <2>3. m \in Work /\ m.status = "new" /\ m.ack = Nowhere /\ m.closer = Nowhere /\ m.feedback = w.feedback
    BY <2>1 DEF Work
  <2> QED
    BY <2>2, <2>3 DEF Fits, CLOSED_STATUSES
<1> QED
  BY <1>4, <1>5, <1>6

\* A request takes up what it is about to write.
LEMMA TakingKeeps ==
  ASSUME DeskInv, NEW p \in Posts, NEW u \in People, NEW r \in rows,
         NEW about \in {"workflow", "feedback"}, NEW new \in Work, TakeUp(p, u, r, about, new),
         about = "workflow" => (Fits(new) /\ new.feedback = r.work.feedback),
         about = "feedback" => (new.status = r.work.status /\ new.ack = r.work.ack /\ new.closer = r.work.closer)
  PROVE  DeskInv'
<1>1. PICK q : q = [about |-> about, id |-> r.id, read |-> r.work, new |-> new]
  OBVIOUS
<1>2. post' = [post EXCEPT ![p] = q] /\ rows' = rows /\ verdict' = verdict /\ blurred' = blurred
  BY <1>1 DEF TakeUp
<1>3. IsFiniteSet(rows) /\ Cardinality(rows) \in Nat
  BY FS_CardinalityType DEF DeskInv, DeskTypes
<1>4. q \in PostRecord
  <2>1. r.id \in Nat /\ r.work \in Work
    BY <1>3 DEF DeskInv, DeskTypes
  <2> QED
    BY <1>1, <2>1 DEF PostRecord
<1>5. post \in [Posts -> PostRecord]
  BY DEF DeskInv, DeskTypes
<1>6. post' \in [Posts -> PostRecord] /\ post'[p] = q /\ \A x \in Posts : x # p => post'[x] = post[x]
  BY <1>2, <1>4, <1>5
<1>7. DeskTypes'
  BY <1>2, <1>6 DEF DeskInv, DeskTypes
<1>8. q.about = about /\ q.read = r.work /\ q.new = new
  BY <1>1
<1>9. PostsFit'
  <2>1. ASSUME NEW x \in Posts
        PROVE  /\ post'[x].about = "workflow" => Fits(post'[x].new) /\ post'[x].new.feedback = post'[x].read.feedback
               /\ post'[x].about = "feedback" => /\ post'[x].new.status = post'[x].read.status
                                                 /\ post'[x].new.ack = post'[x].read.ack
                                                 /\ post'[x].new.closer = post'[x].read.closer
               /\ post'[x].about = "nothing" => post'[x] = NoPost
    <3>1. CASE x = p
      BY <1>6, <1>8, <3>1
    <3>2. CASE x # p
      BY <1>6, <3>2 DEF DeskInv, PostsFit
    <3> QED
      BY <3>1, <3>2
  <2> QED
    BY <2>1 DEF PostsFit
<1>10. WorkIsAttributed'
  BY <1>2 DEF DeskInv, WorkIsAttributed
<1> QED
  BY <1>7, <1>9, <1>10 DEF DeskInv

\* A request's columns, written at its flush.
Mixed(q, w, changed) == [k \in DOMAIN w |-> IF k \in changed THEN q.new[k] ELSE w[k]]

\* If no other request wrote the workflow meanwhile, what results fits.
LEMMA MixedFits ==
  ASSUME NEW q \in PostRecord, NEW w \in Work, NEW changed, NEW v,
         changed = {k \in DOMAIN q.new : q.new[k] # q.read[k]}, v = Mixed(q, w, changed)
  PROVE  /\ v \in Work
         /\ v.feedback = IF "feedback" \in changed THEN q.new.feedback ELSE w.feedback
         /\ (q.about = "workflow" /\ Fits(q.new) /\ \A k \in Columns["workflow"] : w[k] = q.read[k]) => Fits(v)
         /\ (q.about = "feedback" /\ q.new.status = q.read.status /\ q.new.ack = q.read.ack
                /\ q.new.closer = q.read.closer /\ Fits(w)) => Fits(v)
<1> DEFINE keys == {"status", "ack", "closer", "feedback"}
<1>1. PICK new, read : new = q.new /\ read = q.read
  OBVIOUS
<1>2. new \in Work /\ read \in Work
  BY <1>1 DEF PostRecord
<1>3. DOMAIN new = keys /\ DOMAIN w = keys
  BY <1>2 DEF Work
<1>4. v = [k \in keys |-> IF k \in changed THEN new[k] ELSE w[k]]
  BY <1>1, <1>3 DEF Mixed
<1>5. \A k \in keys : k \in changed <=> new[k] # read[k]
  BY <1>1, <1>3
<1>6. /\ v.status = IF "status" \in changed THEN new.status ELSE w.status
      /\ v.ack = IF "ack" \in changed THEN new.ack ELSE w.ack
      /\ v.closer = IF "closer" \in changed THEN new.closer ELSE w.closer
      /\ v.feedback = IF "feedback" \in changed THEN new.feedback ELSE w.feedback
  BY <1>4
<1>7. v \in Work
  <2>1. v = [status |-> v.status, ack |-> v.ack, closer |-> v.closer, feedback |-> v.feedback]
    BY <1>4
  <2>2. /\ v.status \in {"new", "acknowledged"} \cup CLOSED_STATUSES
        /\ v.ack \in People \cup {Nowhere} /\ v.closer \in People \cup {Nowhere}
        /\ v.feedback \in {Nowhere, "approved", "rejected"}
    BY <1>2, <1>6 DEF Work
  <2> QED
    BY <2>1, <2>2 DEF Work
<1>8. ASSUME q.about = "workflow", Fits(new), \A k \in Columns["workflow"] : w[k] = read[k] PROVE Fits(v)
  <2>1. w.status = read.status /\ w.ack = read.ack /\ w.closer = read.closer
    BY <1>8 DEF Columns
  <2>2. v.status = new.status /\ v.ack = new.ack /\ v.closer = new.closer
    BY <1>5, <1>6, <2>1
  <2> QED
    BY <1>8, <2>2 DEF Fits
<1>9. ASSUME q.about = "feedback", new.status = read.status, new.ack = read.ack, new.closer = read.closer, Fits(w)
      PROVE  Fits(v)
  <2>1. v.status = w.status /\ v.ack = w.ack /\ v.closer = w.closer
    BY <1>5, <1>6, <1>9
  <2> QED
    BY <1>9, <2>1 DEF Fits
<1> QED
  BY <1>1, <1>6, <1>7, <1>8, <1>9

LEMMA FlushingKeeps ==
  ASSUME DeskInv, NEW p \in Posts, Flush(p)
  PROVE  DeskInv'
<1>1. PICK q : q = post[p]
  OBVIOUS
<1>2. PICK changed : changed = {k \in DOMAIN q.new : q.new[k] # q.read[k]}
  OBVIOUS
<1>3. PICK r \in rows :
         /\ q # NoPost /\ r.id = q.id
         /\ rows' = (rows \ {r}) \cup
                    {[r EXCEPT !.work = [k \in DOMAIN @ |-> IF k \in changed THEN q.new[k] ELSE @[k]]]}
         /\ verdict' = IF "feedback" \in changed THEN [verdict EXCEPT ![r.id] = q.new.feedback] ELSE verdict
         /\ blurred' = IF \E k \in Columns[q.about] : r.work[k] # q.read[k]
                       THEN blurred \cup {<<r.id, q.about>>} ELSE blurred
         /\ post' = [post EXCEPT ![p] = NoPost]
  BY <1>1, <1>2 DEF Flush
<1>4. q \in PostRecord /\ post \in [Posts -> PostRecord]
  BY <1>1 DEF DeskInv, DeskTypes
<1>5. PICK w : w = r.work
  OBVIOUS
<1>6. PICK v : v = Mixed(q, w, changed)
  OBVIOUS
<1>7. PICK m : m = [r EXCEPT !.work = v]
  OBVIOUS
<1>8. rows' = (rows \ {r}) \cup {m}
  BY <1>3, <1>5, <1>6, <1>7 DEF Mixed
<1>9. PICK n : n = Cardinality(rows)
  OBVIOUS
<1>10. /\ IsFiniteSet(rows) /\ n \in Nat /\ n <= MaxRows
       /\ DOMAIN r = RowFields /\ w \in Work /\ r.id \in 1..n
  BY <1>5, <1>9, FS_CardinalityType DEF DeskInv, DeskTypes
<1>11. DOMAIN m = RowFields /\ m.id = r.id /\ m.work = v
  BY <1>7, <1>10 DEF RowFields
<1>12. \A x \in rows \ {r} : x.id # r.id
  BY DEF DeskInv, DeskTypes
<1>13. IsFiniteSet(rows') /\ Cardinality(rows') = n
  <2>1. IsFiniteSet(rows \ {r}) /\ Cardinality(rows \ {r}) = n - 1
    BY <1>9, <1>10, FS_RemoveElement
  <2>2. m \notin rows \ {r}
    BY <1>11, <1>12
  <2>3. IsFiniteSet(rows') /\ Cardinality(rows') = (n - 1) + 1
    BY <1>8, <2>1, <2>2, FS_AddElement
  <2> QED
    BY <1>10, <2>3
<1>14. /\ v \in Work
       /\ v.feedback = IF "feedback" \in changed THEN q.new.feedback ELSE w.feedback
       /\ (q.about = "workflow" /\ Fits(q.new) /\ \A k \in Columns["workflow"] : w[k] = q.read[k]) => Fits(v)
       /\ (q.about = "feedback" /\ q.new.status = q.read.status /\ q.new.ack = q.read.ack
              /\ q.new.closer = q.read.closer /\ Fits(w)) => Fits(v)
  BY <1>2, <1>4, <1>6, <1>10, MixedFits
<1>15. /\ q.about \in {"workflow", "feedback"}
       /\ q.about = "workflow" => Fits(q.new) /\ q.new.feedback = q.read.feedback
       /\ q.about = "feedback" => /\ q.new.status = q.read.status /\ q.new.ack = q.read.ack
                                  /\ q.new.closer = q.read.closer
  BY <1>1, <1>3, <1>4 DEF DeskInv, PostsFit, PostRecord
<1>16. r.id \in 1..MaxRows
  BY <1>10, DeskAssumption
<1>17. /\ DOMAIN verdict' = 1..MaxRows
       /\ \A i \in 1..MaxRows : i # r.id => verdict'[i] = verdict[i]
       /\ verdict'[r.id] = IF "feedback" \in changed THEN q.new.feedback ELSE verdict[r.id]
  BY <1>3, <1>16 DEF DeskInv, DeskTypes
<1>18. DeskTypes'
  <2>1. IsFiniteSet(rows') /\ Cardinality(rows') <= MaxRows
    BY <1>10, <1>13
  <2>2. \A x \in rows' : DOMAIN x = RowFields /\ x.work \in Work /\ x.id \in 1..Cardinality(rows')
    BY <1>8, <1>9, <1>10, <1>11, <1>13, <1>14 DEF DeskInv, DeskTypes
  <2>3. \A x, y \in rows' : x.id = y.id => x = y
    BY <1>8, <1>11, <1>12 DEF DeskInv, DeskTypes
  <2>4. post' \in [Posts -> PostRecord]
    <3>1. NoPost \in PostRecord
      BY DEF NoPost, PostRecord, Unworked, Work, CLOSED_STATUSES
    <3> QED
      BY <1>3, <1>4, <3>1
  <2>5. \A i \in 1..MaxRows : i > Cardinality(rows') => verdict'[i] = Nowhere
    <3>1. \A i \in 1..MaxRows : i > n => i # r.id /\ verdict[i] = Nowhere
      BY <1>9, <1>10 DEF DeskInv, DeskTypes
    <3> QED
      BY <1>13, <1>17, <3>1
  <2> QED
    BY <1>17, <2>1, <2>2, <2>3, <2>4, <2>5 DEF DeskTypes
<1>19. PostsFit'
  <2>1. ASSUME NEW x \in Posts
        PROVE  /\ post'[x].about = "workflow" => Fits(post'[x].new) /\ post'[x].new.feedback = post'[x].read.feedback
               /\ post'[x].about = "feedback" => /\ post'[x].new.status = post'[x].read.status
                                                 /\ post'[x].new.ack = post'[x].read.ack
                                                 /\ post'[x].new.closer = post'[x].read.closer
               /\ post'[x].about = "nothing" => post'[x] = NoPost
    <3>1. CASE x = p
      <4>1. post'[x] = NoPost /\ NoPost.about = "nothing"
        BY <1>3, <1>4, <3>1 DEF NoPost
      <4> QED
        BY <4>1
    <3>2. CASE x # p
      <4>1. post'[x] = post[x]
        BY <1>3, <1>4, <3>2
      <4> QED
        BY <4>1 DEF DeskInv, PostsFit
    <3> QED
      BY <3>1, <3>2
  <2> QED
    BY <2>1 DEF PostsFit
<1>20. blurred \subseteq blurred'
  BY <1>3
<1>21. ASSUME NEW x \in rows \ {r}
       PROVE  /\ <<x.id, "workflow">> \notin blurred' => Fits(x.work)
              /\ <<x.id, "feedback">> \notin blurred' => x.work.feedback = verdict'[x.id]
  <2>1. /\ <<x.id, "workflow">> \notin blurred => Fits(x.work)
        /\ <<x.id, "feedback">> \notin blurred => x.work.feedback = verdict[x.id]
    BY DEF DeskInv, WorkIsAttributed, Fits
  <2>2. x.id \in 1..MaxRows /\ x.id # r.id
    <3>1. x.id \in 1..n
      BY <1>9 DEF DeskInv, DeskTypes
    <3> QED
      BY <1>10, <1>12, <3>1, DeskAssumption
  <2> QED
    BY <1>17, <1>20, <2>1, <2>2
<1>22. /\ <<m.id, "workflow">> \notin blurred' => Fits(m.work)
       /\ <<m.id, "feedback">> \notin blurred' => m.work.feedback = verdict'[m.id]
  <2>1. /\ <<r.id, "workflow">> \notin blurred => Fits(w)
        /\ <<r.id, "feedback">> \notin blurred => w.feedback = verdict[r.id]
    BY <1>5 DEF DeskInv, WorkIsAttributed, Fits
  <2>2. ASSUME <<r.id, "workflow">> \notin blurred' PROVE Fits(v)
    <3>1. CASE q.about = "workflow"
      <4>1. \A k \in Columns["workflow"] : w[k] = q.read[k]
        BY <1>3, <1>5, <2>2, <3>1
      <4> QED
        BY <1>14, <1>15, <3>1, <4>1
    <3>2. CASE q.about = "feedback"
      BY <1>14, <1>15, <1>20, <2>1, <2>2, <3>2
    <3> QED
      BY <1>15, <3>1, <3>2
  <2>3. ASSUME <<r.id, "feedback">> \notin blurred' PROVE v.feedback = verdict'[r.id]
    BY <1>14, <1>17, <1>20, <2>1, <2>3
  <2> QED
    BY <1>11, <2>2, <2>3
<1>23. WorkIsAttributed'
  BY <1>8, <1>21, <1>22 DEF WorkIsAttributed, Fits
<1> QED
  BY <1>18, <1>19, <1>23 DEF DeskInv

LEMMA DeskStep == DeskInv /\ [DeskNext]_deskVars => DeskInv'
<1> SUFFICES ASSUME DeskInv, [DeskNext]_deskVars PROVE DeskInv'
  OBVIOUS
<1>1. CASE UNCHANGED deskVars
  BY <1>1 DEF deskVars, DeskInv, DeskTypes, PostsFit, WorkIsAttributed
<1>2. ASSUME NEW x \in Sightings, EventStored(x[1], x[2]) PROVE DeskInv'
  BY <1>2, StoringKeeps
<1>3. ASSUME NEW p \in Posts, Flush(p) PROVE DeskInv'
  BY <1>3, FlushingKeeps
<1>4. ASSUME NEW p \in Posts, NEW u \in People, NEW r \in rows,
             NEW s \in {"new", "acknowledged"} \cup CLOSED_STATUSES, set_event_status(p, u, r, s)
      PROVE  DeskInv'
  <2>1. PICK w : w = r.work
    OBVIOUS
  <2>2. w \in Work
    BY <2>1 DEF DeskInv, DeskTypes
  <2>3. PICK new : new = Moved(w, s, u)
    OBVIOUS
  <2>4. new \in Work /\ Fits(new) /\ new.feedback = w.feedback
    BY <2>2, <2>3, MovedFits
  <2>5. TakeUp(p, u, r, "workflow", new)
    BY <1>4, <2>1, <2>3 DEF set_event_status
  <2> QED
    BY <2>1, <2>4, <2>5, TakingKeeps
<1>5. ASSUME NEW p \in Posts, NEW u \in People, NEW r \in rows,
             NEW said \in {"approved", "rejected"}, submit_feedback(p, u, r, said)
      PROVE  DeskInv'
  <2>1. PICK w : w = r.work
    OBVIOUS
  <2>2. w \in Work
    BY <2>1 DEF DeskInv, DeskTypes
  <2>3. PICK new : new = [w EXCEPT !.feedback = said]
    OBVIOUS
  <2>4. new \in Work /\ new.status = w.status /\ new.ack = w.ack /\ new.closer = w.closer
    BY <2>2, <2>3 DEF Work
  <2>5. TakeUp(p, u, r, "feedback", new)
    BY <1>5, <2>1, <2>3 DEF submit_feedback
  <2> QED
    BY <2>1, <2>4, <2>5, TakingKeeps
<1> QED
  BY <1>1, <1>2, <1>3, <1>4, <1>5 DEF DeskNext

\* The reads agree with each other in every state the desk can reach, the
\* assistant's lists mirror the dashboard's, and who worked an event fits its status
\* unless two requests wrote from the same reading.
THEOREM DeskIsHeld == DeskInit /\ [][DeskNext]_deskVars => []DeskHolds
<1>1. DeskInv => DeskHolds
  BY ReadsDoAgree, ToolsListTheSame DEF DeskHolds, DeskInv
<1> QED
  BY <1>1, DeskStarts, DeskStep, PTL

-----------------------------------------------------------------------------
(***************************************************************************)
(* Live feed.  A walk goes on over a list that connects extend and         *)
(* disconnects replace, so FeedHolds needs what the rest of every walk and *)
(* the registered lists may hold, and which sockets a payload has reached. *)
(***************************************************************************)
Listed(x, q) == \E i \in DOMAIN q : q[i] = x
NoRepeat(q) == \A i, j \in DOMAIN q : q[i] = q[j] => i = j

FeedTypes ==
    /\ access \in [People -> SUBSET Premises]
    /\ socket \in [Sockets -> {"new", "scoped", "open", "broken", "closed"}]
    /\ DOMAIN scope = Sockets
    /\ connections \in [Rooms -> Seq(Sockets)]
    /\ DOMAIN cast = Casts
    /\ \A b \in Casts : /\ DOMAIN cast[b] = DOMAIN Quiet
                        /\ cast[b].pc \in {"new", "walk", "walked"}
                        /\ cast[b].org \in Rooms /\ cast[b].room \in Rooms
                        /\ cast[b].list \in Seq(Sockets) /\ cast[b].dead \subseteq Sockets
    /\ got \in [Sockets -> Seq(Casts)]
    /\ watched \in [Casts -> SUBSET Sockets]

\* A socket that has not connected.
Early(s) == socket[s] \in {"new", "scoped"}

\* A room lists each of its sockets once, the open ones among them.
Registered ==
    /\ \A r \in Rooms : /\ NoRepeat(connections[r])
                        /\ \A s \in Sockets : Listed(s, connections[r]) => RoomOf(s) = r /\ ~Early(s)
    /\ \A s \in Sockets : socket[s] = "open" => Listed(s, connections[RoomOf(s)])

\* The rest of a walk holds sockets of its room that it has not sent to; the dead are not open.
Walking ==
    \A b \in Casts :
       /\ cast[b].pc = "walk" =>
             /\ NoRepeat(cast[b].list)
             /\ \A s \in Sockets : Listed(s, cast[b].list) =>
                   RoomOf(s) = cast[b].room /\ ~Early(s) /\ ~Listed(b, got[s])
       /\ cast[b].pc # "new" => cast[b].room \in {cast[b].org, "all"}
       /\ \A s \in cast[b].dead : ~Early(s) /\ socket[s] # "open"

\* What a socket was sent, and when a broadcast may have reached it.
Delivered ==
    \A s \in Sockets :
       /\ Early(s) => got[s] = <<>>
       /\ NoRepeat(got[s])
       /\ scope[s] \subseteq permitted_site_ids(WhoOf[s])
       /\ \A b \in Casts : Listed(b, got[s]) =>
             /\ cast[b].pc # "new"
             /\ RoomOf(s) = "all" => cast[b].room = "all"
             /\ IsSuper(WhoOf[s]) \/ cast[b].org = HomeOrg[WhoOf[s]]
             /\ cast[b].site \in scope[s]

\* A socket that stays open has got the payload, is still to come, or may not see it.
HeardBy(b, s) ==
    /\ socket[s] = "open"
    /\ cast[b].pc # "new"
    /\ cast[b].site \in scope[s] => \/ Listed(b, got[s])
                                    \/ cast[b].pc = "walk" /\ Listed(s, cast[b].list)
Heard == \A b \in Casts, s \in Sockets : s \in watched[b] => HeardBy(b, s)

FeedInv == FeedTypes /\ Registered /\ Walking /\ Delivered /\ Heard

-----------------------------------------------------------------------------
(* Lists.                                                                     *)

LEMMA Appended ==
  ASSUME NEW T, NEW q \in Seq(T), NEW x \in T
  PROVE  /\ Append(q, x) \in Seq(T)
         /\ \A y : Listed(y, Append(q, x)) <=> (Listed(y, q) \/ y = x)
         /\ (NoRepeat(q) /\ ~Listed(x, q)) => NoRepeat(Append(q, x))
<1>1. PICK p : p = Append(q, x)
  OBVIOUS
<1>2. /\ p \in Seq(T) /\ DOMAIN p = 1..(Len(q) + 1) /\ DOMAIN q = 1..Len(q) /\ Len(q) \in Nat
      /\ p[Len(q) + 1] = x /\ \A i \in 1..Len(q) : p[i] = q[i]
  BY <1>1
<1>3. \A y : Listed(y, p) <=> (Listed(y, q) \/ y = x)
  <2>1. ASSUME NEW y, Listed(y, p) PROVE Listed(y, q) \/ y = x
    <3>1. PICK i \in 1..(Len(q) + 1) : p[i] = y
      BY <1>2, <2>1 DEF Listed
    <3>2. CASE i = Len(q) + 1
      BY <1>2, <3>1, <3>2
    <3>3. CASE i # Len(q) + 1
      <4>1. i \in 1..Len(q)
        BY <1>2, <3>3
      <4> QED
        BY <1>2, <3>1, <4>1 DEF Listed
    <3> QED
      BY <3>2, <3>3
  <2>2. ASSUME NEW y, Listed(y, q) PROVE Listed(y, p)
    <3>1. PICK i \in 1..Len(q) : q[i] = y
      BY <1>2, <2>2 DEF Listed
    <3>2. i \in DOMAIN p /\ p[i] = y
      BY <1>2, <3>1
    <3> QED
      BY <3>2 DEF Listed
  <2>3. Listed(x, p)
    <3>1. Len(q) + 1 \in DOMAIN p
      BY <1>2
    <3> QED
      BY <1>2, <3>1 DEF Listed
  <2> QED
    BY <2>1, <2>2, <2>3
<1>4. ASSUME NoRepeat(q), ~Listed(x, q) PROVE NoRepeat(p)
  <2> SUFFICES ASSUME NEW i \in DOMAIN p, NEW j \in DOMAIN p, p[i] = p[j] PROVE i = j
    BY DEF NoRepeat
  <2>1. \A k \in 1..Len(q) : p[k] # x
    BY <1>2, <1>4 DEF Listed
  <2>2. CASE i \in 1..Len(q) /\ j \in 1..Len(q)
    BY <1>2, <1>4, <2>2 DEF NoRepeat
  <2>3. CASE ~(i \in 1..Len(q) /\ j \in 1..Len(q))
    <3>1. i = Len(q) + 1 \/ j = Len(q) + 1
      BY <1>2, <2>3
    <3> QED
      BY <1>2, <2>1, <3>1
  <2> QED
    BY <2>2, <2>3
<1> QED
  BY <1>1, <1>2, <1>3, <1>4

LEMMA Taken ==
  ASSUME NEW T, NEW q \in Seq(T), q # <<>>
  PROVE  /\ Head(q) \in T /\ Listed(Head(q), q) /\ Tail(q) \in Seq(T)
         /\ \A y : Listed(y, q) <=> (Listed(y, Tail(q)) \/ y = Head(q))
         /\ NoRepeat(q) => NoRepeat(Tail(q)) /\ ~Listed(Head(q), Tail(q))
<1>1. PICK p : p = Tail(q)
  OBVIOUS
<1>2. PICK n : n = Len(q)
  OBVIOUS
<1>3. /\ n \in Nat /\ n >= 1 /\ DOMAIN q = 1..n
      /\ p \in Seq(T) /\ DOMAIN p = 1..(n - 1) /\ \A i \in 1..(n - 1) : p[i] = q[i + 1]
      /\ Head(q) = q[1] /\ q[1] \in T
  BY <1>1, <1>2
<1>4. Listed(q[1], q)
  BY <1>3 DEF Listed
<1>5. ASSUME NEW y, Listed(y, q) PROVE Listed(y, p) \/ y = q[1]
  <2>1. PICK i \in 1..n : q[i] = y
    BY <1>3, <1>5 DEF Listed
  <2>2. CASE i = 1
    BY <2>1, <2>2
  <2>3. CASE i # 1
    <3>1. i - 1 \in 1..(n - 1) /\ p[i - 1] = y
      BY <1>3, <2>1, <2>3
    <3> QED
      BY <1>3, <3>1 DEF Listed
  <2> QED
    BY <2>2, <2>3
<1>6. ASSUME NEW y, Listed(y, p) PROVE \E i \in 2..n : q[i] = y
  <2>1. PICK i \in 1..(n - 1) : p[i] = y
    BY <1>3, <1>6 DEF Listed
  <2>2. i + 1 \in 2..n /\ q[i + 1] = y
    BY <1>3, <2>1
  <2> QED
    BY <2>2
<1>7. \A y : Listed(y, p) => Listed(y, q)
  <2>1. \A i \in 2..n : i \in DOMAIN q
    BY <1>3
  <2> QED
    BY <1>6, <2>1 DEF Listed
<1>8. ASSUME NoRepeat(q) PROVE NoRepeat(p) /\ ~Listed(q[1], p)
  <2>1. NoRepeat(p)
    <3> SUFFICES ASSUME NEW i \in 1..(n - 1), NEW j \in 1..(n - 1), p[i] = p[j] PROVE i = j
      BY <1>3 DEF NoRepeat
    <3>1. i + 1 \in 1..n /\ j + 1 \in 1..n /\ q[i + 1] = q[j + 1]
      BY <1>3
    <3>2. i + 1 = j + 1
      BY <1>3, <1>8, <3>1 DEF NoRepeat
    <3> QED
      BY <3>2
  <2>2. \A i \in 2..n : q[i] # q[1]
    <3>1. \A i \in 2..n : i \in 1..n /\ 1 \in 1..n /\ i # 1
      BY <1>3
    <3> QED
      BY <1>3, <1>8, <3>1 DEF NoRepeat
  <2> QED
    BY <1>6, <2>1, <2>2
<1> QED
  BY <1>1, <1>3, <1>4, <1>5, <1>7, <1>8

\* A list without some of its members, built from the front.
Builds(list, cut, n, g) ==
    g = [i \in 0..n |-> IF i = 0 THEN <<>>
                        ELSE IF list[i] \in cut THEN g[i - 1] ELSE Append(g[i - 1], list[i])]

LEMMA BuildExists ==
  ASSUME NEW list, NEW cut, NEW n \in Nat
  PROVE  \E g : Builds(list, cut, n, g)
<1>1. PICK K : K = {k \in 0..n : \E g : Builds(list, cut, k, g)}
  OBVIOUS
<1>2. 0 \in K
  <2>1. PICK g : g = [i \in 0..0 |-> <<>>]
    OBVIOUS
  <2>2. \A i \in 0..0 : i = 0
    OBVIOUS
  <2>3. Builds(list, cut, 0, g)
    BY <2>1, <2>2 DEF Builds
  <2> QED
    BY <1>1, <2>3
<1>3. IsFiniteSet(K) /\ K \subseteq Nat
  <2>1. IsFiniteSet(0..n)
    BY FS_Interval
  <2>2. K \in SUBSET (0..n)
    BY <1>1
  <2>3. IsFiniteSet(K)
    BY <2>1, <2>2, FS_Subset
  <2> QED
    BY <2>2, <2>3
<1>4. PICK m \in K : \A x \in K : x <= m
  BY <1>2, <1>3, GreatestExists
<1>5. m \in 0..n
  BY <1>1
<1>6. PICK g : Builds(list, cut, m, g)
  BY <1>1
<1>7. ASSUME m < n PROVE FALSE
  <2>1. PICK h : h = [i \in 0..(m + 1) |->
                        IF i = m + 1 THEN (IF list[i] \in cut THEN g[m] ELSE Append(g[m], list[i])) ELSE g[i]]
    OBVIOUS
  <2>2. \A i \in 0..m : h[i] = g[i]
    BY <1>5, <2>1
  <2>3. h[m + 1] = IF list[m + 1] \in cut THEN h[m] ELSE Append(h[m], list[m + 1])
    BY <1>5, <2>1, <2>2
  <2>4. ASSUME NEW i \in 0..(m + 1)
        PROVE  h[i] = IF i = 0 THEN <<>> ELSE IF list[i] \in cut THEN h[i - 1] ELSE Append(h[i - 1], list[i])
    <3>1. CASE i = m + 1
      BY <1>5, <2>3, <3>1
    <3>2. CASE i # m + 1
      <4>1. i \in 0..m /\ (i # 0 => i - 1 \in 0..m)
        BY <1>5, <3>2
      <4>2. g[i] = IF i = 0 THEN <<>> ELSE IF list[i] \in cut THEN g[i - 1] ELSE Append(g[i - 1], list[i])
        BY <1>6, <4>1 DEF Builds
      <4> QED
        BY <2>2, <4>1, <4>2
    <3> QED
      BY <3>1, <3>2
  <2>5. Builds(list, cut, m + 1, h)
    BY <2>1, <2>4 DEF Builds
  <2>6. m + 1 \in K
    BY <1>1, <1>5, <1>7, <2>5
  <2> QED
    BY <1>4, <1>5, <2>6
<1> QED
  BY <1>5, <1>6, <1>7

LEMMA WithoutKeeps ==
  ASSUME NEW T, NEW list \in Seq(T), NEW cut
  PROVE  /\ Without(list, cut) \in Seq(T)
         /\ \A y : Listed(y, Without(list, cut)) <=> (Listed(y, list) /\ y \notin cut)
         /\ NoRepeat(list) => NoRepeat(Without(list, cut))
<1>1. PICK n : n = Len(list)
  OBVIOUS
<1>2. n \in Nat /\ DOMAIN list = 1..n /\ \A i \in 1..n : list[i] \in T
  BY <1>1
<1>3. PICK g : g = CHOOSE f : Builds(list, cut, n, f)
  OBVIOUS
<1>4. Builds(list, cut, n, g)
  BY <1>2, <1>3, BuildExists
<1>5. Without(list, cut) = g[n]
  BY <1>1, <1>3 DEF Without, Builds
<1>6. \A i \in 0..n : g[i] = IF i = 0 THEN <<>> ELSE IF list[i] \in cut THEN g[i - 1] ELSE Append(g[i - 1], list[i])
  BY <1>4 DEF Builds
<1> DEFINE Good(k) == /\ g[k] \in Seq(T)
                      /\ \A y : Listed(y, g[k]) <=> \E i \in 1..k : list[i] = y /\ y \notin cut
                      /\ NoRepeat(list) => NoRepeat(g[k])
<1>7. Good(0)
  <2>1. g[0] = <<>>
    BY <1>2, <1>6
  <2> QED
    BY <2>1 DEF Listed, NoRepeat
<1>8. ASSUME NEW k \in 0..n, k < n, Good(k) PROVE Good(k + 1)
  <2>1. k + 1 \in 1..n /\ k + 1 # 0 /\ (k + 1) - 1 = k
    BY <1>2, <1>8
  <2>2. g[k + 1] = IF list[k + 1] \in cut THEN g[k] ELSE Append(g[k], list[k + 1])
    BY <1>6, <2>1
  <2>3. PICK x : x = list[k + 1]
    OBVIOUS
  <2>4. x \in T
    BY <1>2, <2>1, <2>3
  <2>5. \A i : i \in 1..(k + 1) <=> (i \in 1..k \/ i = k + 1)
    BY <1>8
  <2>6. CASE x \in cut
    BY <1>8, <2>2, <2>3, <2>5, <2>6
  <2>7. CASE x \notin cut
    <3>1. PICK q : q = g[k]
      OBVIOUS
    <3>2. q \in Seq(T) /\ g[k + 1] = Append(q, x)
      BY <1>8, <2>2, <2>3, <2>7, <3>1
    <3>3. /\ Append(q, x) \in Seq(T)
          /\ \A y : Listed(y, Append(q, x)) <=> (Listed(y, q) \/ y = x)
          /\ (NoRepeat(q) /\ ~Listed(x, q)) => NoRepeat(Append(q, x))
      BY <2>4, <3>2, Appended
    <3>4. ASSUME NoRepeat(list) PROVE ~Listed(x, q)
      <4>1. \A i \in 1..k : i \in 1..n /\ i # k + 1
        BY <1>2, <1>8
      <4>2. \A i \in 1..k : list[i] # x
        BY <1>2, <2>1, <2>3, <3>4, <4>1 DEF NoRepeat
      <4> QED
        BY <1>8, <3>1, <4>2
    <3>5. \A y : Listed(y, g[k + 1]) <=> \E i \in 1..(k + 1) : list[i] = y /\ y \notin cut
      BY <1>8, <2>3, <2>5, <2>7, <3>1, <3>2, <3>3
    <3> QED
      BY <1>8, <3>1, <3>2, <3>3, <3>4, <3>5
  <2> QED
    BY <2>6, <2>7
<1> HIDE DEF Good
<1>9. PICK K : K = {k \in 0..n : Good(k)}
  OBVIOUS
<1>10. IsFiniteSet(K) /\ K \subseteq Nat /\ 0 \in K
  <2>1. IsFiniteSet(0..n)
    BY <1>2, FS_Interval
  <2>2. K \in SUBSET (0..n)
    BY <1>9
  <2>3. IsFiniteSet(K)
    BY <2>1, <2>2, FS_Subset
  <2> QED
    BY <1>2, <1>7, <1>9, <2>2, <2>3
<1>11. PICK m \in K : \A x \in K : x <= m
  BY <1>10, GreatestExists
<1>12. m = n
  <2>1. m \in 0..n /\ Good(m)
    BY <1>9
  <2>2. ASSUME m < n PROVE FALSE
    <3>1. m + 1 \in 0..n /\ Good(m + 1)
      BY <1>2, <1>8, <2>1, <2>2
    <3> QED
      BY <1>9, <1>11, <2>1, <3>1
  <2> QED
    BY <1>2, <2>1, <2>2
<1>13. Good(n)
  BY <1>9, <1>12
<1> QED
  BY <1>2, <1>5, <1>13 DEF Good, Listed

\* A list without repetitions has as many members as places.
LEMMA PlacesCounted ==
  ASSUME NEW T, NEW q \in Seq(T), NoRepeat(q)
  PROVE  Cardinality({q[i] : i \in DOMAIN q}) = Len(q)
<1>1. PICK n : n = Len(q)
  OBVIOUS
<1>2. n \in Nat /\ DOMAIN q = 1..n
  BY <1>1
<1>3. PICK R : R = {q[i] : i \in DOMAIN q}
  OBVIOUS
<1>4. PICK f : f = [i \in 1..n |-> q[i]]
  OBVIOUS
<1>5. f \in [1..n -> R] /\ (\A i, j \in 1..n : f[i] = f[j] => i = j) /\ (\A y \in R : \E i \in 1..n : f[i] = y)
  BY <1>2, <1>3, <1>4 DEF NoRepeat
<1>6. f \in Bijection(1..n, R)
  BY <1>5 DEF Bijection, Injection, Surjection, IsInjective
<1>7. ExistsBijection(1..n, R)
  BY <1>6 DEF ExistsBijection
<1>8. IsFiniteSet(1..n) /\ Cardinality(1..n) = n
  BY <1>2, FS_Interval
<1> QED
  BY <1>1, <1>3, <1>7, <1>8, FS_Bijection

-----------------------------------------------------------------------------
(* The steps.                                                                 *)

\* "all" is the room of the super admins and of nobody else.
LEMMA RoomsApart ==
  ASSUME NEW s \in Sockets
  PROVE  /\ WhoOf[s] \in People /\ RoomOf(s) \in Rooms
         /\ IsSuper(WhoOf[s]) => RoomOf(s) = "all"
         /\ ~IsSuper(WhoOf[s]) => RoomOf(s) = HomeOrg[WhoOf[s]] /\ RoomOf(s) # "all"
BY FeedAssumption DEF RoomOf, Rooms

LEMMA FeedSound == FeedInv => FeedHolds
<1> SUFFICES ASSUME FeedInv PROVE FeedHolds
  OBVIOUS
<1>1. SentInScope
  <2> SUFFICES ASSUME NEW s \in Sockets
               PROVE  /\ Cardinality({got[s][i] : i \in DOMAIN got[s]}) = Len(got[s])
                      /\ \A i \in DOMAIN got[s] :
                            /\ IsSuper(WhoOf[s]) \/ cast[got[s][i]].org = HomeOrg[WhoOf[s]]
                            /\ \/ IsSuper(WhoOf[s]) \/ access[WhoOf[s]] = {}
                               \/ cast[got[s][i]].site \in access[WhoOf[s]]
    BY DEF SentInScope
  <2>1. got[s] \in Seq(Casts) /\ NoRepeat(got[s])
    BY DEF FeedInv, FeedTypes, Delivered
  <2>2. ASSUME NEW i \in DOMAIN got[s]
        PROVE  /\ IsSuper(WhoOf[s]) \/ cast[got[s][i]].org = HomeOrg[WhoOf[s]]
               /\ \/ IsSuper(WhoOf[s]) \/ access[WhoOf[s]] = {}
                  \/ cast[got[s][i]].site \in access[WhoOf[s]]
    <3>1. PICK b \in Casts : b = got[s][i]
      BY <2>1
    <3>2. Listed(b, got[s]) /\ got[s] # <<>>
      BY <2>1, <3>1 DEF Listed
    <3>3. /\ IsSuper(WhoOf[s]) \/ cast[b].org = HomeOrg[WhoOf[s]]
          /\ cast[b].site \in permitted_site_ids(WhoOf[s])
      BY <3>2 DEF FeedInv, Delivered
    <3> QED
      BY <3>1, <3>3 DEF permitted_site_ids
  <2> QED
    BY <2>1, <2>2, PlacesCounted
<1>2. NobodyForgotten
  <2>1. \A s \in Sockets : socket[s] = "open" => Listed(s, connections[RoomOf(s)])
    BY DEF FeedInv, Registered
  <2>2. ASSUME NEW b \in Casts, cast[b].pc = "walked", NEW s \in watched[b], cast[b].site \in scope[s]
        PROVE  Listed(b, got[s])
    <3>1. s \in Sockets
      BY DEF FeedInv, FeedTypes
    <3> QED
      BY <2>2, <3>1 DEF FeedInv, Heard, HeardBy
  <2> QED
    BY <2>1, <2>2 DEF NobodyForgotten, Listed
<1> QED
  BY <1>1, <1>2 DEF FeedHolds

LEMMA FeedStarts == FeedInit => FeedInv
<1> SUFFICES ASSUME FeedInit PROVE FeedInv
  OBVIOUS
<1>1. /\ \A s \in Sockets : socket[s] = "new" /\ got[s] = <<>>
      /\ \A r \in Rooms : connections[r] = <<>>
      /\ \A b \in Casts : cast[b] = Quiet /\ watched[b] = {}
  BY DEF FeedInit
<1>2. /\ DOMAIN Quiet = DOMAIN Quiet /\ Quiet.pc = "new" /\ Quiet.org = "all" /\ Quiet.room = "all"
      /\ Quiet.list = <<>> /\ Quiet.dead = {}
  BY DEF Quiet
<1>3. (\A y : ~Listed(y, <<>>)) /\ NoRepeat(<<>>)
  BY DEF Listed, NoRepeat
<1>4. FeedTypes
  <2>1. "all" \in Rooms
    BY DEF Rooms
  <2>2. socket \in [Sockets -> {"new", "scoped", "open", "broken", "closed"}]
    BY DEF FeedInit
  <2>3. connections \in [Rooms -> Seq(Sockets)] /\ got \in [Sockets -> Seq(Casts)]
    BY DEF FeedInit
  <2>4. watched \in [Casts -> SUBSET Sockets] /\ DOMAIN cast = Casts /\ DOMAIN scope = Sockets
    BY DEF FeedInit
  <2>5. access \in [People -> SUBSET Premises]
    BY DEF FeedInit, ScopeInit
  <2> QED
    BY <1>1, <1>2, <2>1, <2>2, <2>3, <2>4, <2>5 DEF FeedTypes
<1>5. Registered
  BY <1>1, <1>3, RoomsApart DEF Registered
<1>6. Walking
  BY <1>1, <1>2 DEF Walking
<1>7. Delivered
  BY <1>1, <1>3 DEF Delivered, Early, FeedInit
<1>8. Heard
  BY <1>1 DEF Heard, HeardBy
<1> QED
  BY <1>4, <1>5, <1>6, <1>7, <1>8 DEF FeedInv

\* A scope is read once, before the socket connects.
LEMMA ScopeLoads ==
  ASSUME FeedInv, NEW k \in Sockets, LoadScope(k)
  PROVE  FeedInv'
<1>1. UNCHANGED <<access, connections, cast, got, watched>>
  BY DEF LoadScope
<1>2. PICK st \in {"scoped", "closed"} :
         /\ socket' = [socket EXCEPT ![k] = st]
         /\ (st = "scoped" \/ (~IsSuper(WhoOf[k]) /\ scope' = scope))
  BY DEF LoadScope
<1>3. socket[k] = "new" /\ DOMAIN scope' = Sockets /\ \A s \in Sockets : s # k => scope'[s] = scope[s]
  BY DEF LoadScope, FeedInv, FeedTypes
<1>4. socket \in [Sockets -> {"new", "scoped", "open", "broken", "closed"}]
  BY DEF FeedInv, FeedTypes
<1>5. socket'[k] = st /\ \A s \in Sockets : s # k => socket'[s] = socket[s]
  BY <1>2, <1>4
<1>6. scope'[k] \subseteq permitted_site_ids(WhoOf[k])
  <2>1. CASE scope' = scope
    BY <2>1 DEF FeedInv, Delivered
  <2>2. CASE scope' # scope
    <3>1. PICK known \in BOOLEAN :
             scope' = [scope EXCEPT ![k] = IF known \/ IsSuper(WhoOf[k]) THEN permitted_site_ids(WhoOf[k]) ELSE {}]
      BY <2>2 DEF LoadScope
    <3>2. scope'[k] = IF known \/ IsSuper(WhoOf[k]) THEN permitted_site_ids(WhoOf[k]) ELSE {}
      BY <3>1 DEF FeedInv, FeedTypes
    <3> QED
      BY <3>2
  <2> QED
    BY <2>1, <2>2
<1>7. \A s \in Sockets : /\ Early(s)' => Early(s)
                         /\ ~Early(s) => (~Early(s))'
                         /\ (socket'[s] = "open") <=> (socket[s] = "open")
  BY <1>2, <1>3, <1>5 DEF Early
<1>8. Early(k) /\ got[k] = <<>> /\ \A b \in Casts : ~Listed(b, got[k])
  BY <1>3 DEF Early, FeedInv, Delivered, Listed
<1>9. FeedTypes'
  BY <1>1, <1>2, <1>3, <1>4 DEF FeedInv, FeedTypes
<1>10. Registered'
  BY <1>1, <1>7 DEF FeedInv, Registered
<1>11. Walking'
  <2>1. \A b \in Casts : \A s \in cast[b].dead : s \in Sockets
    BY DEF FeedInv, FeedTypes
  <2> QED
    BY <1>1, <1>7, <2>1 DEF FeedInv, Walking
<1>12. Delivered'
  <2> SUFFICES ASSUME NEW s \in Sockets
               PROVE  /\ Early(s)' => got[s] = <<>>
                      /\ NoRepeat(got[s])
                      /\ scope'[s] \subseteq permitted_site_ids(WhoOf[s])
                      /\ \A b \in Casts : Listed(b, got[s]) =>
                            /\ cast[b].pc # "new"
                            /\ RoomOf(s) = "all" => cast[b].room = "all"
                            /\ IsSuper(WhoOf[s]) \/ cast[b].org = HomeOrg[WhoOf[s]]
                            /\ cast[b].site \in scope'[s]
    BY <1>1 DEF Delivered, permitted_site_ids
  <2>1. CASE s = k
    BY <1>6, <1>8, <2>1 DEF FeedInv, Delivered
  <2>2. CASE s # k
    BY <1>3, <1>7, <2>2 DEF FeedInv, Delivered
  <2> QED
    BY <2>1, <2>2
<1>13. Heard'
  <2>1. \A b \in Casts, s \in Sockets : s \in watched[b] => socket'[s] = "open" /\ scope'[s] = scope[s]
    BY <1>3, <1>7 DEF FeedInv, Heard, HeardBy
  <2> QED
    BY <1>1, <2>1 DEF FeedInv, Heard, HeardBy
<1> QED
  BY <1>9, <1>10, <1>11, <1>12, <1>13 DEF FeedInv

\* A connect extends the registered list and the walks over it.
LEMMA ConnectKeeps ==
  ASSUME FeedInv, NEW k \in Sockets, connect(k)
  PROVE  FeedInv'
<1>1. UNCHANGED <<access, scope, got, watched>>
  BY DEF connect
<1>2. PICK room : room = RoomOf(k)
  OBVIOUS
<1>3. room \in Rooms
  BY <1>2, RoomsApart
<1>4. /\ socket \in [Sockets -> {"new", "scoped", "open", "broken", "closed"}]
      /\ connections \in [Rooms -> Seq(Sockets)]
  BY DEF FeedInv, FeedTypes
<1>5. /\ socket[k] = "scoped" /\ socket'[k] = "open" /\ \A s \in Sockets : s # k => socket'[s] = socket[s]
      /\ socket' \in [Sockets -> {"new", "scoped", "open", "broken", "closed"}]
  BY <1>4 DEF connect
<1>6. connections' = [connections EXCEPT ![room] = Append(@, k)]
  BY <1>2 DEF connect
<1>7. PICK q : q = connections[room]
  OBVIOUS
<1>8. q \in Seq(Sockets) /\ connections'[room] = Append(q, k) /\ \A r \in Rooms : r # room => connections'[r] = connections[r]
  BY <1>3, <1>4, <1>6, <1>7
<1>9. /\ Append(q, k) \in Seq(Sockets)
      /\ \A y : Listed(y, Append(q, k)) <=> (Listed(y, q) \/ y = k)
      /\ (NoRepeat(q) /\ ~Listed(k, q)) => NoRepeat(Append(q, k))
  BY <1>8, Appended
<1>10. Early(k) /\ got[k] = <<>> /\ \A b \in Casts : ~Listed(b, got[k])
  BY <1>5 DEF Early, FeedInv, Delivered, Listed
<1>11. \A s \in Sockets : s # k => (Early(s)' <=> Early(s)) /\ (socket'[s] = "open" <=> socket[s] = "open")
  BY <1>5 DEF Early
<1>12. ~Early(k)' /\ socket'[k] = "open"
  BY <1>5 DEF Early
<1>13. ASSUME NEW b \in Casts
       PROVE  /\ DOMAIN cast'[b] = DOMAIN Quiet
              /\ cast'[b].pc = cast[b].pc /\ cast'[b].org = cast[b].org /\ cast'[b].room = cast[b].room
              /\ cast'[b].site = cast[b].site /\ cast'[b].dead = cast[b].dead
              /\ \/ cast'[b].list = cast[b].list
                 \/ cast[b].room = room /\ cast'[b].list = Append(cast[b].list, k)
  <2>1. PICK c : c = cast[b]
    OBVIOUS
  <2>2. DOMAIN c = {"pc", "org", "room", "site", "list", "own", "dead"}
    BY <2>1 DEF FeedInv, FeedTypes, Quiet
  <2>3. cast'[b] = IF c.own /\ c.room = room THEN [c EXCEPT !.list = Append(@, k)] ELSE c
    BY <1>2, <2>1 DEF connect
  <2>4. PICK d : d = [c EXCEPT !.list = Append(@, k)]
    OBVIOUS
  <2>5. /\ DOMAIN d = DOMAIN c /\ d.pc = c.pc /\ d.org = c.org /\ d.room = c.room /\ d.site = c.site
        /\ d.dead = c.dead /\ d.list = Append(c.list, k)
    BY <2>2, <2>4
  <2>6. cast'[b] = c \/ (c.room = room /\ cast'[b] = d)
    BY <2>3, <2>4
  <2> QED
    BY <2>1, <2>2, <2>5, <2>6 DEF Quiet
<1>14. \A b \in Casts : cast[b].list \in Seq(Sockets)
  BY DEF FeedInv, FeedTypes
<1>15. ASSUME NEW b \in Casts
       PROVE  /\ Append(cast[b].list, k) \in Seq(Sockets)
              /\ \A y : Listed(y, Append(cast[b].list, k)) <=> (Listed(y, cast[b].list) \/ y = k)
              /\ (NoRepeat(cast[b].list) /\ ~Listed(k, cast[b].list)) => NoRepeat(Append(cast[b].list, k))
  BY <1>14, Appended
<1>16. FeedTypes'
  <2>1. connections' \in [Rooms -> Seq(Sockets)]
    BY <1>3, <1>4, <1>6, <1>8, <1>9
  <2>2. DOMAIN cast' = Casts
    BY DEF connect
  <2>3. ASSUME NEW b \in Casts
        PROVE  /\ DOMAIN cast'[b] = DOMAIN Quiet
               /\ cast'[b].pc \in {"new", "walk", "walked"}
               /\ cast'[b].org \in Rooms /\ cast'[b].room \in Rooms
               /\ cast'[b].list \in Seq(Sockets) /\ cast'[b].dead \subseteq Sockets
    BY <1>13, <1>15 DEF FeedInv, FeedTypes
  <2> QED
    BY <1>1, <1>5, <2>1, <2>2, <2>3 DEF FeedInv, FeedTypes
<1>17. Registered'
  <2>1. ASSUME NEW r \in Rooms
        PROVE  /\ NoRepeat(connections'[r])
               /\ \A s \in Sockets : Listed(s, connections'[r]) => RoomOf(s) = r /\ ~Early(s)'
    <3>1. NoRepeat(connections[r]) /\ \A s \in Sockets : Listed(s, connections[r]) => RoomOf(s) = r /\ ~Early(s)
      BY DEF FeedInv, Registered
    <3>2. \A s \in Sockets : Listed(s, connections[r]) => RoomOf(s) = r /\ ~Early(s)'
      BY <1>10, <1>11, <3>1
    <3>3. CASE r = room
      BY <1>2, <1>7, <1>8, <1>9, <1>10, <1>12, <3>1, <3>2, <3>3
    <3>4. CASE r # room
      BY <1>8, <3>1, <3>2, <3>4
    <3> QED
      BY <3>3, <3>4
  <2>2. ASSUME NEW s \in Sockets, socket'[s] = "open" PROVE Listed(s, connections'[RoomOf(s)])
    <3>1. CASE s = k
      BY <1>2, <1>8, <1>9, <3>1
    <3>2. CASE s # k
      <4>1. Listed(s, connections[RoomOf(s)]) /\ RoomOf(s) \in Rooms
        BY <1>11, <2>2, <3>2, RoomsApart DEF FeedInv, Registered
      <4>2. CASE RoomOf(s) = room
        BY <1>7, <1>8, <1>9, <4>1, <4>2
      <4>3. CASE RoomOf(s) # room
        BY <1>8, <4>1, <4>3
      <4> QED
        BY <4>2, <4>3
    <3> QED
      BY <3>1, <3>2
  <2> QED
    BY <2>1, <2>2 DEF Registered, RoomOf
<1>18. Walking'
  <2>1. ASSUME NEW b \in Casts
        PROVE  /\ cast'[b].pc = "walk" =>
                     /\ NoRepeat(cast'[b].list)
                     /\ \A s \in Sockets : Listed(s, cast'[b].list) =>
                           RoomOf(s) = cast'[b].room /\ ~Early(s)' /\ ~Listed(b, got[s])
               /\ cast'[b].pc # "new" => cast'[b].room \in {cast'[b].org, "all"}
               /\ \A s \in cast'[b].dead : ~Early(s)' /\ socket'[s] # "open"
    <3>1. \A s \in cast[b].dead : s \in Sockets /\ s # k /\ ~Early(s) /\ socket[s] # "open"
      BY <1>10 DEF FeedInv, FeedTypes, Walking
    <3>2. cast[b].pc = "walk" =>
             /\ NoRepeat(cast[b].list) /\ ~Listed(k, cast[b].list)
             /\ \A s \in Sockets : Listed(s, cast[b].list) =>
                   RoomOf(s) = cast[b].room /\ ~Early(s)' /\ ~Listed(b, got[s])
      BY <1>10, <1>11 DEF FeedInv, Walking
    <3>3. cast[b].pc # "new" => cast[b].room \in {cast[b].org, "all"}
      BY DEF FeedInv, Walking
    <3>4. cast'[b].pc = "walk" => /\ NoRepeat(cast'[b].list)
                                  /\ \A s \in Sockets : Listed(s, cast'[b].list) =>
                                        RoomOf(s) = cast'[b].room /\ ~Early(s)' /\ ~Listed(b, got[s])
      BY <1>2, <1>10, <1>12, <1>13, <1>15, <3>2
    <3> QED
      BY <1>11, <1>13, <3>1, <3>3, <3>4
  <2> QED
    BY <1>1, <2>1 DEF Walking, RoomOf
<1>19. Delivered'
  <2>1. \A s \in Sockets : Early(s)' => Early(s)
    BY <1>11, <1>12
  <2> QED
    BY <1>1, <1>13, <2>1 DEF FeedInv, Delivered, permitted_site_ids, RoomOf
<1>20. Heard'
  <2>1. \A b \in Casts, s \in Sockets : s \in watched[b] => socket'[s] = "open"
    BY <1>11, <1>12 DEF FeedInv, Heard, HeardBy
  <2>2. \A b \in Casts, s \in Sockets : Listed(s, cast[b].list) => Listed(s, cast'[b].list)
    BY <1>13, <1>15
  <2> QED
    BY <1>1, <1>13, <2>1, <2>2 DEF FeedInv, Heard, HeardBy
<1> QED
  BY <1>16, <1>17, <1>18, <1>19, <1>20 DEF FeedInv

\* A client that goes away is not waited for any more.
LEMMA BreakKeeps ==
  ASSUME FeedInv, NEW k \in Sockets, Break(k)
  PROVE  FeedInv'
<1>1. UNCHANGED <<access, scope, connections, cast, got>> /\ watched' = [b \in Casts |-> watched[b] \ {k}]
  BY DEF Break
<1>2. socket \in [Sockets -> {"new", "scoped", "open", "broken", "closed"}]
  BY DEF FeedInv, FeedTypes
<1>3. /\ socket[k] = "open" /\ socket'[k] = "broken" /\ \A s \in Sockets : s # k => socket'[s] = socket[s]
      /\ socket' \in [Sockets -> {"new", "scoped", "open", "broken", "closed"}]
  BY <1>2 DEF Break
<1>4. \A s \in Sockets : /\ Early(s)' <=> Early(s)
                         /\ socket'[s] = "open" => socket[s] = "open"
                         /\ (s # k /\ socket[s] = "open") => socket'[s] = "open"
  BY <1>3 DEF Early
<1>5. FeedTypes'
  <2>1. watched' \in [Casts -> SUBSET Sockets]
    BY <1>1 DEF FeedInv, FeedTypes
  <2> QED
    BY <1>1, <1>3, <2>1 DEF FeedInv, FeedTypes
<1>6. Registered'
  BY <1>1, <1>4 DEF FeedInv, Registered
<1>7. Walking'
  <2>1. \A b \in Casts : \A s \in cast[b].dead : s \in Sockets
    BY DEF FeedInv, FeedTypes
  <2> QED
    BY <1>1, <1>4, <2>1 DEF FeedInv, Walking
<1>8. Delivered'
  BY <1>1, <1>4 DEF FeedInv, Delivered, permitted_site_ids
<1>9. Heard'
  <2>1. \A b \in Casts, s \in Sockets : s \in watched'[b] => s \in watched[b] /\ s # k
    BY <1>1
  <2> QED
    BY <1>1, <1>4, <2>1 DEF FeedInv, Heard, HeardBy
<1> QED
  BY <1>5, <1>6, <1>7, <1>8, <1>9 DEF FeedInv

\* Walks over a replaced list are no longer extended, and stay what they are.
LEMMA Disowned ==
  ASSUME NEW casts, NEW b \in Casts, DOMAIN casts[b] = DOMAIN Quiet, NEW room,
         NEW c, c = Disown(casts, room)[b]
  PROVE  /\ DOMAIN c = DOMAIN Quiet /\ c.pc = casts[b].pc /\ c.org = casts[b].org /\ c.room = casts[b].room
         /\ c.site = casts[b].site /\ c.dead = casts[b].dead /\ c.list = casts[b].list
<1>1. PICK e, d : e = casts[b] /\ d = [e EXCEPT !.own = FALSE]
  OBVIOUS
<1>2. /\ DOMAIN d = DOMAIN e /\ d.pc = e.pc /\ d.org = e.org /\ d.room = e.room /\ d.site = e.site
      /\ d.dead = e.dead /\ d.list = e.list
  BY <1>1 DEF Quiet
<1>3. c = IF e.room = room THEN d ELSE e
  BY <1>1 DEF Disown
<1> QED
  BY <1>1, <1>2, <1>3

\* A list that loses no open socket: what a disconnect and the end of a walk do.
LEMMA Unlisting ==
  ASSUME FeedInv, NEW room \in Rooms, NEW cut,
         connections' = [connections EXCEPT ![room] = Without(connections[room], cut)],
         \A s \in Sockets : (socket'[s] = "open" => socket[s] = "open") /\ (Early(s)' <=> Early(s)),
         \A s \in Sockets : socket'[s] = "open" => s \notin cut
  PROVE  connections' \in [Rooms -> Seq(Sockets)] /\ Registered'
<1>1. PICK q, p : q = connections[room] /\ p = Without(q, cut)
  OBVIOUS
<1>2. connections \in [Rooms -> Seq(Sockets)]
  BY DEF FeedInv, FeedTypes
<1>3. /\ p \in Seq(Sockets)
      /\ \A y : Listed(y, p) <=> (Listed(y, q) /\ y \notin cut)
      /\ NoRepeat(q) => NoRepeat(p)
  BY <1>1, <1>2, WithoutKeeps
<1>4. connections'[room] = p /\ \A r \in Rooms : r # room => connections'[r] = connections[r]
  BY <1>1, <1>2
<1>5. connections' \in [Rooms -> Seq(Sockets)]
  BY <1>1, <1>2, <1>3
<1>6. ASSUME NEW r \in Rooms
      PROVE  /\ NoRepeat(connections'[r])
             /\ \A s \in Sockets : Listed(s, connections'[r]) => RoomOf(s) = r /\ ~Early(s)'
  <2>1. NoRepeat(connections[r]) /\ \A s \in Sockets : Listed(s, connections[r]) => RoomOf(s) = r /\ ~Early(s)'
    BY DEF FeedInv, Registered
  <2>2. CASE r = room
    BY <1>1, <1>3, <1>4, <2>1, <2>2
  <2>3. CASE r # room
    BY <1>4, <2>1, <2>3
  <2> QED
    BY <2>2, <2>3
<1>7. ASSUME NEW s \in Sockets, socket'[s] = "open" PROVE Listed(s, connections'[RoomOf(s)])
  <2>1. Listed(s, connections[RoomOf(s)]) /\ RoomOf(s) \in Rooms /\ s \notin cut
    BY <1>7, RoomsApart DEF FeedInv, Registered
  <2>2. CASE RoomOf(s) = room
    BY <1>1, <1>3, <1>4, <2>1, <2>2
  <2>3. CASE RoomOf(s) # room
    BY <1>4, <2>1, <2>3
  <2> QED
    BY <2>2, <2>3
<1> QED
  BY <1>5, <1>6, <1>7 DEF Registered, RoomOf

LEMMA DisconnectKeeps ==
  ASSUME FeedInv, NEW k \in Sockets, disconnect(k)
  PROVE  FeedInv'
<1>1. UNCHANGED <<access, scope, got, watched>> /\ cast' = Disown(cast, RoomOf(k))
  BY DEF disconnect
<1>2. socket \in [Sockets -> {"new", "scoped", "open", "broken", "closed"}]
  BY DEF FeedInv, FeedTypes
<1>3. /\ socket[k] = "broken" /\ socket'[k] = "closed" /\ \A s \in Sockets : s # k => socket'[s] = socket[s]
      /\ socket' \in [Sockets -> {"new", "scoped", "open", "broken", "closed"}]
  BY <1>2 DEF disconnect
<1>4. \A s \in Sockets : (socket'[s] = "open" <=> socket[s] = "open") /\ (Early(s)' <=> Early(s))
  BY <1>3 DEF Early
<1>5. RoomOf(k) \in Rooms /\ connections' = [connections EXCEPT ![RoomOf(k)] = Without(connections[RoomOf(k)], {k})]
  BY RoomsApart DEF disconnect
<1>6. connections' \in [Rooms -> Seq(Sockets)] /\ Registered'
  <2>1. \A s \in Sockets : socket'[s] = "open" => s \notin {k}
    BY <1>3
  <2> QED
    BY <1>4, <1>5, <2>1, Unlisting
<1>7. ASSUME NEW b \in Casts
      PROVE  /\ DOMAIN cast'[b] = DOMAIN Quiet /\ cast'[b].pc = cast[b].pc /\ cast'[b].org = cast[b].org
             /\ cast'[b].room = cast[b].room /\ cast'[b].site = cast[b].site /\ cast'[b].dead = cast[b].dead
             /\ cast'[b].list = cast[b].list
  <2>1. DOMAIN cast[b] = DOMAIN Quiet
    BY DEF FeedInv, FeedTypes
  <2> QED
    BY <1>1, <2>1, Disowned
<1>8. DOMAIN cast' = Casts
  BY <1>1 DEF Disown
<1>9. FeedTypes'
  BY <1>1, <1>3, <1>6, <1>7, <1>8 DEF FeedInv, FeedTypes
<1>10. Walking'
  <2>1. \A b \in Casts : \A s \in cast[b].dead : s \in Sockets
    BY DEF FeedInv, FeedTypes
  <2> QED
    BY <1>1, <1>4, <1>7, <2>1 DEF FeedInv, Walking, RoomOf
<1>11. Delivered'
  BY <1>1, <1>4, <1>7 DEF FeedInv, Delivered, permitted_site_ids, RoomOf
<1>12. Heard'
  <2>1. \A b \in Casts, s \in Sockets : s \in watched[b] => s \in Sockets /\ socket'[s] = "open"
    BY <1>4 DEF FeedInv, FeedTypes, Heard, HeardBy
  <2> QED
    BY <1>1, <1>7, <2>1 DEF FeedInv, Heard, HeardBy
<1> QED
  BY <1>6, <1>9, <1>10, <1>11, <1>12 DEF FeedInv

\* Nobody of a room has got the payload, and whoever else has is not contradicted.
MayWalk(b, org, site, room) ==
    /\ \A s \in Sockets : RoomOf(s) = room => ~Listed(b, got[s])
    /\ \A s \in Sockets : Listed(b, got[s]) =>
          org = cast[b].org /\ site = cast[b].site /\ (RoomOf(s) = "all" => room = "all")

\* What a walk of a room begins with.
LEMMA Walks ==
  ASSUME FeedInv, NEW b \in Casts, NEW org \in Rooms, NEW room \in Rooms, room \in {org, "all"}, NEW site,
         cast' = [cast EXCEPT ![b] = Walk(org, site, room)],
         UNCHANGED <<access, socket, scope, connections, got>>, watched' \in [Casts -> SUBSET Sockets],
         MayWalk(b, org, site, room)
  PROVE  /\ cast'[b].pc = "walk" /\ cast'[b].site = site /\ cast'[b].list = connections[room]
         /\ \A x \in Casts : x # b => cast'[x] = cast[x]
         /\ FeedTypes' /\ Registered' /\ Walking' /\ Delivered'
<1>1. PICK c : c = Walk(org, site, room)
  OBVIOUS
<1>2. /\ DOMAIN c = DOMAIN Quiet /\ c.pc = "walk" /\ c.org = org /\ c.room = room /\ c.site = site /\ c.dead = {}
      /\ c.list = connections[room]
  BY <1>1 DEF Walk, Quiet
<1>3. DOMAIN cast = Casts
  BY DEF FeedInv, FeedTypes
<1>4. cast'[b] = c /\ DOMAIN cast' = Casts /\ \A x \in Casts : x # b => cast'[x] = cast[x]
  BY <1>1, <1>3
<1>5. connections[room] \in Seq(Sockets)
  BY DEF FeedInv, FeedTypes
<1>6. \A s : Early(s)' <=> Early(s)
  BY DEF Early
<1>7. FeedTypes'
  <2>1. ASSUME NEW x \in Casts
        PROVE  /\ DOMAIN cast'[x] = DOMAIN Quiet
               /\ cast'[x].pc \in {"new", "walk", "walked"}
               /\ cast'[x].org \in Rooms /\ cast'[x].room \in Rooms
               /\ cast'[x].list \in Seq(Sockets) /\ cast'[x].dead \subseteq Sockets
    <3>1. CASE x = b
      BY <1>2, <1>4, <1>5, <3>1
    <3>2. CASE x # b
      BY <1>4, <3>2 DEF FeedInv, FeedTypes
    <3> QED
      BY <3>1, <3>2
  <2> QED
    BY <1>4, <2>1 DEF FeedInv, FeedTypes
<1>8. Registered'
  BY <1>6 DEF FeedInv, Registered, RoomOf
<1>9. Walking'
  <2>1. ASSUME NEW x \in Casts
        PROVE  /\ cast'[x].pc = "walk" =>
                     /\ NoRepeat(cast'[x].list)
                     /\ \A s \in Sockets : Listed(s, cast'[x].list) =>
                           RoomOf(s) = cast'[x].room /\ ~Early(s) /\ ~Listed(x, got[s])
               /\ cast'[x].pc # "new" => cast'[x].room \in {cast'[x].org, "all"}
               /\ \A s \in cast'[x].dead : ~Early(s) /\ socket[s] # "open"
    <3>1. CASE x = b
      <4>1. /\ NoRepeat(connections[room])
            /\ \A s \in Sockets : Listed(s, connections[room]) => RoomOf(s) = room /\ ~Early(s) /\ ~Listed(b, got[s])
        BY DEF FeedInv, Registered, MayWalk
      <4> QED
        BY <1>2, <1>4, <3>1, <4>1
    <3>2. CASE x # b
      BY <1>4, <3>2 DEF FeedInv, Walking
    <3> QED
      BY <3>1, <3>2
  <2> QED
    BY <1>6, <2>1 DEF Walking, RoomOf
<1>10. Delivered'
  <2>1. ASSUME NEW s \in Sockets, NEW x \in Casts, Listed(x, got[s])
        PROVE  /\ cast'[x].pc # "new"
               /\ RoomOf(s) = "all" => cast'[x].room = "all"
               /\ IsSuper(WhoOf[s]) \/ cast'[x].org = HomeOrg[WhoOf[s]]
               /\ cast'[x].site \in scope[s]
    <3>1. CASE x = b
      BY <1>2, <1>4, <2>1, <3>1 DEF FeedInv, Delivered, MayWalk
    <3>2. CASE x # b
      BY <1>4, <2>1, <3>2 DEF FeedInv, Delivered
    <3> QED
      BY <3>1, <3>2
  <2> QED
    BY <1>6, <2>1 DEF FeedInv, Delivered, permitted_site_ids, RoomOf
<1> QED
  BY <1>2, <1>4, <1>7, <1>8, <1>9, <1>10

LEMMA BroadcastKeeps ==
  ASSUME FeedInv, NEW b \in Casts, NEW org \in Rooms \ {"all"}, NEW site, broadcast_to_org(b, org, site)
  PROVE  FeedInv'
<1>1. /\ cast[b].pc = "new" /\ UNCHANGED <<access, socket, scope, connections, got>>
      /\ cast' = [cast EXCEPT ![b] = Walk(org, site, org)]
      /\ watched' = [watched EXCEPT ![b] = OpenIn(org)]
  BY DEF broadcast_to_org
<1>2. \A s \in Sockets : ~Listed(b, got[s])
  BY <1>1 DEF FeedInv, Delivered
<1>3. watched \in [Casts -> SUBSET Sockets] /\ OpenIn(org) \subseteq Sockets
  BY DEF FeedInv, FeedTypes, OpenIn
<1>4. /\ watched' \in [Casts -> SUBSET Sockets] /\ watched'[b] = OpenIn(org)
      /\ \A x \in Casts : x # b => watched'[x] = watched[x]
  BY <1>1, <1>3
<1>5. /\ cast'[b].pc = "walk" /\ cast'[b].site = site /\ cast'[b].list = connections[org]
      /\ \A x \in Casts : x # b => cast'[x] = cast[x]
      /\ FeedTypes' /\ Registered' /\ Walking' /\ Delivered'
  <2>1. MayWalk(b, org, site, org)
    BY <1>2 DEF MayWalk
  <2> QED
    BY <1>1, <1>4, <2>1, Walks
<1>6. Heard'
  <2> SUFFICES ASSUME NEW x \in Casts, NEW s \in Sockets, s \in watched'[x]
               PROVE  /\ socket[s] = "open"
                      /\ cast'[x].pc # "new"
                      /\ cast'[x].site \in scope[s] =>
                            Listed(x, got[s]) \/ (cast'[x].pc = "walk" /\ Listed(s, cast'[x].list))
    BY <1>1 DEF Heard, HeardBy
  <2>1. CASE x = b
    <3>1. socket[s] = "open" /\ RoomOf(s) = org
      BY <1>4, <2>1 DEF OpenIn
    <3>2. Listed(s, connections[org])
      BY <3>1 DEF FeedInv, Registered
    <3> QED
      BY <1>5, <2>1, <3>1, <3>2
  <2>2. CASE x # b
    <3>1. cast'[x] = cast[x] /\ s \in watched[x]
      BY <1>4, <1>5, <2>2
    <3>2. HeardBy(x, s)
      BY <3>1 DEF FeedInv, Heard
    <3> QED
      BY <3>1, <3>2 DEF HeardBy
  <2> QED
    BY <2>1, <2>2
<1> QED
  BY <1>4, <1>5, <1>6 DEF FeedInv

\* An event goes to the super admins once its organisation has got it.
LEMMA BroadcastToAllKeeps ==
  ASSUME FeedInv, NEW b \in Casts, BroadcastToAll(b)
  PROVE  FeedInv'
<1>1. PICK org, site : org = cast[b].org /\ site = cast[b].site
  OBVIOUS
<1>2. /\ cast[b].pc = "walked" /\ cast[b].room # "all" /\ UNCHANGED <<access, socket, scope, connections, got>>
      /\ cast' = [cast EXCEPT ![b] = Walk(org, site, "all")]
      /\ watched' = [watched EXCEPT ![b] = @ \cup OpenIn("all")]
  <2>1. DOMAIN cast = Casts
    BY DEF FeedInv, FeedTypes
  <2> QED
    BY <1>1, <2>1 DEF BroadcastToAll
<1>3. \A s \in Sockets : RoomOf(s) = "all" => ~Listed(b, got[s])
  BY <1>2 DEF FeedInv, Delivered
<1>4. org \in Rooms /\ "all" \in Rooms
  BY <1>1 DEF FeedInv, FeedTypes, Rooms
<1>5. watched \in [Casts -> SUBSET Sockets] /\ OpenIn("all") \subseteq Sockets
  BY DEF FeedInv, FeedTypes, OpenIn
<1>6. /\ watched' \in [Casts -> SUBSET Sockets] /\ watched'[b] = watched[b] \cup OpenIn("all")
      /\ \A x \in Casts : x # b => watched'[x] = watched[x]
  BY <1>2, <1>5
<1>7. /\ cast'[b].pc = "walk" /\ cast'[b].site = site /\ cast'[b].list = connections["all"]
      /\ \A x \in Casts : x # b => cast'[x] = cast[x]
      /\ FeedTypes' /\ Registered' /\ Walking' /\ Delivered'
  <2>1. PICK room \in Rooms : room = "all"
    BY <1>4
  <2>2. MayWalk(b, org, site, room)
    BY <1>1, <1>3, <2>1 DEF MayWalk
  <2>3. room \in {org, "all"} /\ cast' = [cast EXCEPT ![b] = Walk(org, site, room)]
    BY <1>2, <2>1
  <2>4. /\ cast'[b].pc = "walk" /\ cast'[b].site = site /\ cast'[b].list = connections[room]
        /\ \A x \in Casts : x # b => cast'[x] = cast[x]
        /\ FeedTypes' /\ Registered' /\ Walking' /\ Delivered'
    BY <1>2, <1>4, <1>6, <2>2, <2>3, Walks
  <2> QED
    BY <2>1, <2>4
<1>8. Heard'
  <2> SUFFICES ASSUME NEW x \in Casts, NEW s \in Sockets, s \in watched'[x]
               PROVE  /\ socket[s] = "open"
                      /\ cast'[x].pc # "new"
                      /\ cast'[x].site \in scope[s] =>
                            Listed(x, got[s]) \/ (cast'[x].pc = "walk" /\ Listed(s, cast'[x].list))
    BY <1>2 DEF Heard, HeardBy
  <2>1. CASE x = b /\ s \in watched[b]
    <3>1. HeardBy(b, s)
      BY <2>1 DEF FeedInv, Heard
    <3>2. socket[s] = "open" /\ (cast[b].site \in scope[s] => Listed(b, got[s]))
      BY <1>2, <3>1 DEF HeardBy
    <3> QED
      BY <1>1, <1>7, <2>1, <3>2
  <2>2. CASE x = b /\ s \in OpenIn("all")
    <3>1. socket[s] = "open" /\ RoomOf(s) = "all"
      BY <2>2 DEF OpenIn
    <3>2. Listed(s, connections["all"])
      BY <3>1 DEF FeedInv, Registered
    <3> QED
      BY <1>7, <2>2, <3>1, <3>2
  <2>3. CASE x # b
    <3>1. cast'[x] = cast[x] /\ s \in watched[x]
      BY <1>6, <1>7, <2>3
    <3>2. HeardBy(x, s)
      BY <3>1 DEF FeedInv, Heard
    <3> QED
      BY <3>1, <3>2 DEF HeardBy
  <2> QED
    BY <1>6, <2>1, <2>2, <2>3
<1> QED
  BY <1>6, <1>7, <1>8 DEF FeedInv

\* One round: the next socket gets the payload, may not see it, or is found dead.
LEMMA SendKeeps ==
  ASSUME FeedInv, NEW b \in Casts, Send(b)
  PROVE  FeedInv'
<1>1. PICK c : c = cast[b]
  OBVIOUS
<1>2. /\ DOMAIN c = {"pc", "org", "room", "site", "list", "own", "dead"} /\ c.pc = "walk"
      /\ c.list \in Seq(Sockets) /\ c.list # <<>> /\ c.dead \subseteq Sockets
  BY <1>1 DEF Send, FeedInv, FeedTypes, Quiet
<1>3. PICK k : k = Head(c.list)
  OBVIOUS
<1>4. /\ k \in Sockets /\ Listed(k, c.list) /\ Tail(c.list) \in Seq(Sockets)
      /\ \A y : Listed(y, c.list) <=> (Listed(y, Tail(c.list)) \/ y = k)
      /\ NoRepeat(c.list) => NoRepeat(Tail(c.list)) /\ ~Listed(k, Tail(c.list))
  BY <1>2, <1>3, Taken
<1>5. /\ NoRepeat(c.list) /\ RoomOf(k) = c.room /\ ~Early(k) /\ ~Listed(b, got[k]) /\ c.room \in {c.org, "all"}
      /\ \A s \in Sockets : Listed(s, c.list) => RoomOf(s) = c.room /\ ~Early(s) /\ ~Listed(b, got[s])
      /\ \A s \in c.dead : ~Early(s) /\ socket[s] # "open"
  BY <1>1, <1>2, <1>4 DEF FeedInv, Walking
<1>6. UNCHANGED <<access, socket, scope, connections, watched>>
  BY DEF Send
<1>7. PICK rest : rest = [c EXCEPT !.list = Tail(@)]
  OBVIOUS
<1>8. PICK found : found = [rest EXCEPT !.dead = @ \cup {k}]
  OBVIOUS
<1>9. /\ DOMAIN rest = DOMAIN Quiet /\ rest.pc = "walk" /\ rest.org = c.org /\ rest.room = c.room
      /\ rest.site = c.site /\ rest.list = Tail(c.list) /\ rest.dead = c.dead
  BY <1>2, <1>7 DEF Quiet
<1>10. /\ DOMAIN found = DOMAIN Quiet /\ found.pc = "walk" /\ found.org = c.org /\ found.room = c.room
       /\ found.site = c.site /\ found.list = Tail(c.list) /\ found.dead = c.dead \cup {k}
  BY <1>8, <1>9 DEF Quiet
<1>11. \/ c.site \notin scope[k] /\ cast' = [cast EXCEPT ![b] = rest] /\ got' = got
       \/ c.site \in scope[k] /\ socket[k] = "open" /\ cast' = [cast EXCEPT ![b] = rest]
             /\ got' = [got EXCEPT ![k] = Append(@, b)]
       \/ c.site \in scope[k] /\ socket[k] # "open" /\ cast' = [cast EXCEPT ![b] = found] /\ got' = got
  BY <1>1, <1>3, <1>7, <1>8 DEF Send, may_see
<1>12. DOMAIN cast = Casts /\ got \in [Sockets -> Seq(Casts)]
  BY DEF FeedInv, FeedTypes
<1>13. PICK d : d = cast'[b]
  OBVIOUS
<1>14. DOMAIN cast' = Casts /\ \A x \in Casts : x # b => cast'[x] = cast[x]
  BY <1>11, <1>12
<1>15. /\ DOMAIN d = DOMAIN Quiet /\ d.pc = "walk" /\ d.org = c.org /\ d.room = c.room
       /\ d.site = c.site /\ d.list = Tail(c.list)
       /\ d.dead = c.dead \/ (socket[k] # "open" /\ d.dead = c.dead \cup {k})
  BY <1>9, <1>10, <1>11, <1>12, <1>13
<1>16. PICK q : q = got[k]
  OBVIOUS
<1>17. /\ Append(q, b) \in Seq(Casts)
       /\ \A y : Listed(y, Append(q, b)) <=> (Listed(y, q) \/ y = b)
       /\ (NoRepeat(q) /\ ~Listed(b, q)) => NoRepeat(Append(q, b))
  BY <1>4, <1>12, <1>16, Appended
<1>18. /\ got' \in [Sockets -> Seq(Casts)] /\ \A s \in Sockets : s # k => got'[s] = got[s]
       /\ \/ got'[k] = got[k] /\ (c.site \in scope[k] => socket[k] # "open")
          \/ c.site \in scope[k] /\ got'[k] = Append(q, b)
  BY <1>4, <1>11, <1>12, <1>16, <1>17
<1>19. FeedTypes'
  <2>1. ASSUME NEW x \in Casts
        PROVE  /\ DOMAIN cast'[x] = DOMAIN Quiet
               /\ cast'[x].pc \in {"new", "walk", "walked"}
               /\ cast'[x].org \in Rooms /\ cast'[x].room \in Rooms
               /\ cast'[x].list \in Seq(Sockets) /\ cast'[x].dead \subseteq Sockets
    <3>1. CASE x = b
      <4>1. c.org \in Rooms /\ c.room \in Rooms
        BY <1>1 DEF FeedInv, FeedTypes
      <4> QED
        BY <1>2, <1>4, <1>13, <1>15, <3>1, <4>1
    <3>2. CASE x # b
      BY <1>14, <3>2 DEF FeedInv, FeedTypes
    <3> QED
      BY <3>1, <3>2
  <2> QED
    BY <1>6, <1>14, <1>18, <2>1 DEF FeedInv, FeedTypes
<1>20. \A s : Early(s)' <=> Early(s)
  BY <1>6 DEF Early
<1>21. Registered'
  BY <1>6, <1>20 DEF FeedInv, Registered, RoomOf
<1>22. \A s \in Sockets, x \in Casts : Listed(x, got'[s]) => (Listed(x, got[s]) \/ (s = k /\ x = b))
  BY <1>16, <1>17, <1>18
<1>23. Walking'
  <2>1. ASSUME NEW x \in Casts
        PROVE  /\ cast'[x].pc = "walk" =>
                     /\ NoRepeat(cast'[x].list)
                     /\ \A s \in Sockets : Listed(s, cast'[x].list) =>
                           RoomOf(s) = cast'[x].room /\ ~Early(s) /\ ~Listed(x, got'[s])
               /\ cast'[x].pc # "new" => cast'[x].room \in {cast'[x].org, "all"}
               /\ \A s \in cast'[x].dead : ~Early(s) /\ socket[s] # "open"
    <3>1. CASE x = b
      <4>1. \A s \in Sockets : Listed(s, d.list) => RoomOf(s) = d.room /\ ~Early(s) /\ ~Listed(b, got'[s])
        BY <1>4, <1>5, <1>15, <1>22
      <4>2. \A s \in d.dead : ~Early(s) /\ socket[s] # "open"
        BY <1>5, <1>15
      <4>3. NoRepeat(d.list) /\ d.room \in {d.org, "all"}
        BY <1>4, <1>5, <1>15
      <4> QED
        BY <1>13, <3>1, <4>1, <4>2, <4>3
    <3>2. CASE x # b
      BY <1>14, <1>22, <3>2 DEF FeedInv, Walking
    <3> QED
      BY <3>1, <3>2
  <2> QED
    BY <1>6, <1>20, <2>1 DEF Walking, RoomOf
<1>24. Delivered'
  <2>1. ASSUME NEW s \in Sockets
        PROVE  (Early(s) => got'[s] = <<>>) /\ NoRepeat(got'[s])
    <3>1. CASE s = k
      BY <1>5, <1>16, <1>17, <1>18, <3>1 DEF FeedInv, Delivered
    <3>2. CASE s # k
      BY <1>18, <3>2 DEF FeedInv, Delivered
    <3> QED
      BY <3>1, <3>2
  <2>2. ASSUME NEW s \in Sockets, NEW x \in Casts, Listed(x, got'[s])
        PROVE  /\ cast'[x].pc # "new"
               /\ RoomOf(s) = "all" => cast'[x].room = "all"
               /\ IsSuper(WhoOf[s]) \/ cast'[x].org = HomeOrg[WhoOf[s]]
               /\ cast'[x].site \in scope[s]
    <3>1. CASE Listed(x, got[s])
      <4>1. /\ cast[x].pc # "new"
            /\ RoomOf(s) = "all" => cast[x].room = "all"
            /\ IsSuper(WhoOf[s]) \/ cast[x].org = HomeOrg[WhoOf[s]]
            /\ cast[x].site \in scope[s]
        BY <3>1 DEF FeedInv, Delivered
      <4>2. CASE x = b
        BY <1>1, <1>13, <1>15, <4>1, <4>2
      <4>3. CASE x # b
        BY <1>14, <4>1, <4>3
      <4> QED
        BY <4>2, <4>3
    <3>2. CASE ~Listed(x, got[s])
      <4>1. s = k /\ x = b
        BY <1>22, <2>2, <3>2
      <4>2. c.site \in scope[k]
        BY <1>18, <2>2, <3>2, <4>1
      <4>3. IsSuper(WhoOf[k]) \/ c.org = HomeOrg[WhoOf[k]]
        BY <1>4, <1>5, RoomsApart
      <4> QED
        BY <1>5, <1>13, <1>15, <4>1, <4>2, <4>3
    <3> QED
      BY <3>1, <3>2
  <2> QED
    BY <1>6, <1>20, <2>1, <2>2 DEF FeedInv, Delivered, permitted_site_ids, RoomOf
<1>25. Heard'
  <2> SUFFICES ASSUME NEW x \in Casts, NEW s \in Sockets, s \in watched[x]
               PROVE  /\ socket[s] = "open"
                      /\ cast'[x].pc # "new"
                      /\ cast'[x].site \in scope[s] =>
                            Listed(x, got'[s]) \/ (cast'[x].pc = "walk" /\ Listed(s, cast'[x].list))
    BY <1>6 DEF Heard, HeardBy
  <2>1. /\ socket[s] = "open" /\ cast[x].pc # "new"
        /\ cast[x].site \in scope[s] => Listed(x, got[s]) \/ (cast[x].pc = "walk" /\ Listed(s, cast[x].list))
    BY DEF FeedInv, Heard, HeardBy
  <2>2. Listed(x, got[s]) => Listed(x, got'[s])
    BY <1>16, <1>17, <1>18
  <2>3. CASE x # b
    BY <1>14, <2>1, <2>2, <2>3
  <2>4. CASE x = b /\ s # k
    BY <1>1, <1>4, <1>13, <1>15, <2>1, <2>2, <2>4
  <2>5. CASE x = b /\ s = k
    BY <1>1, <1>13, <1>15, <1>17, <1>18, <2>1, <2>5
  <2> QED
    BY <2>3, <2>4, <2>5
<1> QED
  BY <1>19, <1>21, <1>23, <1>24, <1>25 DEF FeedInv

\* A walk that ends has no socket left to send to.
LEMMA EndKeeps ==
  ASSUME FeedInv, NEW b \in Casts, EndWalk(b)
  PROVE  FeedInv'
<1>1. PICK c, room, cut : c = cast[b] /\ room = c.room /\ cut = c.dead
  OBVIOUS
<1>2. /\ DOMAIN c = {"pc", "org", "room", "site", "list", "own", "dead"} /\ c.pc = "walk" /\ c.list = <<>>
      /\ room \in Rooms /\ cut \subseteq Sockets
  BY <1>1 DEF EndWalk, FeedInv, FeedTypes, Quiet
<1>3. UNCHANGED <<access, socket, scope, got, watched>>
  BY DEF EndWalk
<1>4. connections' = [connections EXCEPT ![room] = Without(connections[room], cut)]
  BY <1>1 DEF EndWalk, DropDead
<1>5. DOMAIN cast = Casts
  BY DEF FeedInv, FeedTypes
<1>6. PICK ended : ended = [cast EXCEPT ![b].pc = "walked", ![b].own = FALSE]
  OBVIOUS
<1>7. PICK d : d = [[c EXCEPT !.pc = "walked"] EXCEPT !.own = FALSE]
  OBVIOUS
<1>8. /\ DOMAIN d = DOMAIN Quiet /\ d.pc = "walked" /\ d.org = c.org /\ d.room = c.room
      /\ d.site = c.site /\ d.list = c.list /\ d.dead = c.dead
  BY <1>2, <1>7 DEF Quiet
<1>9. DOMAIN ended = Casts /\ ended[b] = d /\ \A x \in Casts : x # b => ended[x] = cast[x]
  BY <1>1, <1>5, <1>6, <1>7
<1>10. cast' = ended \/ cast' = Disown(ended, room)
  BY <1>1, <1>6 DEF EndWalk
<1>11. ASSUME NEW x \in Casts
       PROVE  /\ DOMAIN cast'[x] = DOMAIN Quiet
              /\ cast'[x].pc = (IF x = b THEN "walked" ELSE cast[x].pc)
              /\ cast'[x].org = cast[x].org /\ cast'[x].room = cast[x].room /\ cast'[x].site = cast[x].site
              /\ cast'[x].dead = cast[x].dead /\ cast'[x].list = cast[x].list
  <2>1. PICK e : e = ended[x]
    OBVIOUS
  <2>2. /\ DOMAIN e = DOMAIN Quiet /\ e.pc = (IF x = b THEN "walked" ELSE cast[x].pc)
        /\ e.org = cast[x].org /\ e.room = cast[x].room /\ e.site = cast[x].site
        /\ e.dead = cast[x].dead /\ e.list = cast[x].list
    <3>1. CASE x = b
      BY <1>1, <1>8, <1>9, <2>1, <3>1
    <3>2. CASE x # b
      BY <1>9, <2>1, <3>2 DEF FeedInv, FeedTypes
    <3> QED
      BY <3>1, <3>2
  <2>3. PICK f : f = Disown(ended, room)[x]
    OBVIOUS
  <2>4. /\ DOMAIN f = DOMAIN Quiet /\ f.pc = e.pc /\ f.org = e.org /\ f.room = e.room
        /\ f.site = e.site /\ f.dead = e.dead /\ f.list = e.list
    BY <2>1, <2>2, <2>3, Disowned
  <2>5. cast'[x] = e \/ cast'[x] = f
    BY <1>10, <2>1, <2>3
  <2> QED
    BY <2>2, <2>4, <2>5
<1>12. DOMAIN cast' = Casts
  BY <1>9, <1>10 DEF Disown
<1>13. \A s : Early(s)' <=> Early(s)
  BY <1>3 DEF Early
<1>14. connections' \in [Rooms -> Seq(Sockets)] /\ Registered'
  <2>1. \A s \in Sockets : socket'[s] = "open" => s \notin cut
    BY <1>1, <1>3 DEF FeedInv, Walking
  <2> QED
    BY <1>2, <1>3, <1>4, <1>13, <2>1, Unlisting
<1>15. FeedTypes'
  BY <1>3, <1>11, <1>12, <1>14 DEF FeedInv, FeedTypes
<1>16. Walking'
  BY <1>3, <1>11, <1>13, <1>2, <1>1 DEF FeedInv, Walking, RoomOf
<1>17. Delivered'
  <2>1. ASSUME NEW s \in Sockets
        PROVE  /\ Early(s)' => got[s] = <<>>
               /\ NoRepeat(got[s])
               /\ scope[s] \subseteq permitted_site_ids(WhoOf[s])
    BY <1>13 DEF FeedInv, Delivered
  <2>2. ASSUME NEW s \in Sockets, NEW x \in Casts, Listed(x, got[s])
        PROVE  /\ cast'[x].pc # "new"
               /\ RoomOf(s) = "all" => cast'[x].room = "all"
               /\ IsSuper(WhoOf[s]) \/ cast'[x].org = HomeOrg[WhoOf[s]]
               /\ cast'[x].site \in scope[s]
    <3>1. /\ cast[x].pc # "new"
          /\ RoomOf(s) = "all" => cast[x].room = "all"
          /\ IsSuper(WhoOf[s]) \/ cast[x].org = HomeOrg[WhoOf[s]]
          /\ cast[x].site \in scope[s]
      BY <2>2 DEF FeedInv, Delivered
    <3>2. cast'[x].pc # "new"
      BY <1>11, <3>1
    <3> QED
      BY <1>11, <3>1, <3>2
  <2> QED
    BY <1>3, <2>1, <2>2 DEF Delivered, permitted_site_ids, RoomOf
<1>18. Heard'
  <2> SUFFICES ASSUME NEW x \in Casts, NEW s \in Sockets, s \in watched[x]
               PROVE  /\ socket[s] = "open"
                      /\ cast'[x].pc # "new"
                      /\ cast'[x].site \in scope[s] =>
                            Listed(x, got[s]) \/ (cast'[x].pc = "walk" /\ Listed(s, cast'[x].list))
    BY <1>3 DEF Heard, HeardBy
  <2>1. /\ socket[s] = "open" /\ cast[x].pc # "new"
        /\ cast[x].site \in scope[s] => Listed(x, got[s]) \/ (cast[x].pc = "walk" /\ Listed(s, cast[x].list))
    BY DEF FeedInv, Heard, HeardBy
  <2>2. CASE x = b
    <3>1. ~Listed(s, cast[x].list)
      BY <1>1, <1>2, <2>2 DEF Listed
    <3> QED
      BY <1>11, <2>1, <2>2, <3>1
  <2>3. CASE x # b
    BY <1>11, <2>1, <2>3
  <2> QED
    BY <2>2, <2>3
<1> QED
  BY <1>14, <1>15, <1>16, <1>17, <1>18 DEF FeedInv

LEMMA FeedStep == FeedInv /\ [FeedNext]_feedVars => FeedInv'
<1> SUFFICES ASSUME FeedInv, [FeedNext]_feedVars PROVE FeedInv'
  OBVIOUS
<1>1. CASE UNCHANGED feedVars
  BY <1>1 DEF feedVars, FeedInv, FeedTypes, Registered, Walking, Delivered, Heard, HeardBy, Early, RoomOf,
              permitted_site_ids
<1>2. CASE \E s \in Sockets : LoadScope(s) \/ connect(s) \/ Break(s) \/ disconnect(s)
  BY <1>2, ScopeLoads, ConnectKeeps, BreakKeeps, DisconnectKeeps
<1>3. CASE \E b \in Casts : Send(b) \/ EndWalk(b) \/ BroadcastToAll(b)
  BY <1>3, SendKeeps, EndKeeps, BroadcastToAllKeeps
<1>4. CASE \E b \in Casts, org \in Rooms \ {"all"}, site \in Premises \cup {Nowhere} : broadcast_to_org(b, org, site)
  BY <1>4, BroadcastKeeps
<1> QED
  BY <1>1, <1>2, <1>3, <1>4 DEF FeedNext

\* However connects, disconnects and broadcasts interleave, a socket is sent a payload
\* at most once and only what its account may see, an open socket stays registered, and
\* one that was open all along has got what it may see (ws/events.py).
THEOREM FeedIsHeld == FeedInit /\ [][FeedNext]_feedVars => []FeedHolds
BY FeedStarts, FeedStep, FeedSound, PTL

-----------------------------------------------------------------------------
(***************************************************************************)
(* Journeys.  JourneyIsPath needs what the next round may take: exactly    *)
(* what may follow the last step.                                          *)
(***************************************************************************)
Sighting == [spot : Spots, at : 0..LastMinute]

\* Two cameras are linked in the graph the walk reads.
Linked(a, b) == normalise_pair(a, b) \in graph

\* What may follow the i-th step of a walk w.
Before(w, i) == {w[j].spot : j \in 1..i}
Follows(w, i, e) ==
    /\ Linked(w[i].spot, e.spot) /\ e.spot \notin Before(w, i)
    /\ e.at \in (w[i].at + 1)..(w[i].at + WithinMinutes)

JourneyTypes ==
    /\ links \subseteq Pairs /\ graph \subseteq Pairs
    /\ seen \subseteq Sighting
    /\ steps \in Seq(Sighting) /\ Len(steps) <= MAX_CHAIN
    /\ steps = <<>> => ~finished

\* Every step was the first that could follow, and after the last there was none.
StepsFollow ==
    \A i \in 1..(Len(steps) - 1) :
        /\ Follows(steps, i, steps[i + 1])
        /\ \A e \in seen \ missed : Follows(steps, i, e) => e.at >= steps[i + 1].at
EndsWhereItMust ==
    finished /\ Len(steps) < MAX_CHAIN => \A e \in seen \ missed : ~Follows(steps, Len(steps), e)

JourneyInv == JourneyTypes /\ StepsFollow /\ EndsWhereItMust

\* The inductive invariant gives the property.
LEMMA JourneySound == JourneyInv => JourneyIsPath
BY DEF JourneyInv, JourneyTypes, StepsFollow, EndsWhereItMust, JourneyIsPath, Follows, Before, Linked

\* A camera is adjacent exactly to the ones it is linked with.
LEMMA AdjacentIsLinked ==
  ASSUME JourneyTypes, NEW a \in Spots, NEW b \in Spots
  PROVE  b \in _adjacency[a] <=> Linked(a, b)
<1>1. a \in Nat /\ b \in Nat
  BY JourneyAssumption
<1>2. \A p \in graph : \E c, d \in Spots : c < d /\ p = <<c, d>>
  <2> SUFFICES ASSUME NEW p \in graph PROVE \E c, d \in Spots : c < d /\ p = <<c, d>>
    OBVIOUS
  <2>1. PICK c \in Spots, d \in Spots : p = normalise_pair(c, d) /\ p \notin {<<x, x>> : x \in Spots}
    BY DEF JourneyTypes, Pairs
  <2>2. c \in Nat /\ d \in Nat /\ c # d
    BY <2>1, JourneyAssumption DEF normalise_pair
  <2> QED
    BY <2>1, <2>2 DEF normalise_pair
<1>3. b \in _adjacency[a] <=> (<<a, b>> \in graph \/ <<b, a>> \in graph)
  BY DEF _adjacency
<1>4. <<a, b>> \in graph => a < b
  BY <1>2
<1>5. <<b, a>> \in graph => b < a
  BY <1>2
<1> QED
  BY <1>1, <1>3, <1>4, <1>5 DEF Linked, normalise_pair

\* The candidates of a round are what may follow the last step.
LEMMA CandidatesFollow ==
  ASSUME JourneyTypes, steps # <<>>
  PROVE  \A e \in seen : e \in Candidates <=> Follows(steps, Len(steps), e)
<1> DEFINE n == Len(steps)
<1>1. n \in Nat \ {0} /\ steps[n] \in Sighting /\ n \in DOMAIN steps /\ DOMAIN steps = 1..n
  BY DEF JourneyTypes
<1>2. Visited = Before(steps, n)
  BY <1>1 DEF Visited, Before
<1> SUFFICES ASSUME NEW e \in seen PROVE e \in Candidates <=> Follows(steps, n, e)
  OBVIOUS
<1>3. e.spot \in Spots /\ e.at \in Int /\ steps[n].spot \in Spots /\ steps[n].at \in Int
  BY <1>1 DEF JourneyTypes, Sighting
<1>4. e.spot \in _adjacency[steps[n].spot] <=> Linked(steps[n].spot, e.spot)
  BY <1>3, AdjacentIsLinked
<1>5. e.at \in (steps[n].at + 1)..(steps[n].at + WithinMinutes)
        <=> e.at > steps[n].at /\ e.at <= steps[n].at + WithinMinutes
  BY <1>3, JourneyAssumption
<1> QED
  BY <1>2, <1>4, <1>5 DEF Candidates, Current, Follows

\* It holds before any request.
LEMMA JourneyStarts == JourneyInit => JourneyInv
<1> SUFFICES ASSUME JourneyInit PROVE JourneyInv
  OBVIOUS
<1>1. JourneyTypes
  BY JourneyAssumption DEF JourneyInit, JourneyTypes
<1>2. StepsFollow /\ EndsWhereItMust
  BY DEF JourneyInit, StepsFollow, EndsWhereItMust
<1> QED
  BY <1>1, <1>2 DEF JourneyInv

\* Links drawn or removed, and events stored, do not concern a walk under way: it has
\* its graph, and what is stored behind it counts as missed.
LEMMA WorldMoves ==
  ASSUME JourneyInv, UNCHANGED <<graph, steps, finished>>,
         links' \subseteq Pairs, seen' \subseteq Sighting,
         steps # <<>> => seen' \ missed' \subseteq seen \ missed
  PROVE  JourneyInv'
<1>1. JourneyTypes'
  BY DEF JourneyInv, JourneyTypes
<1>2. \A i, e : Follows(steps, i, e)' <=> Follows(steps, i, e)
  BY DEF Follows, Linked, Before
<1>3. CASE steps = <<>>
  BY <1>1, <1>3 DEF JourneyInv, JourneyTypes, StepsFollow, EndsWhereItMust
<1>4. CASE steps # <<>>
  <2>1. seen' \ missed' \subseteq seen \ missed
    BY <1>4
  <2>2. StepsFollow'
    BY <2>1 DEF JourneyInv, StepsFollow, Follows, Linked, Before
  <2>3. EndsWhereItMust'
    BY <2>1 DEF JourneyInv, EndsWhereItMust, Follows, Linked, Before
  <2> QED
    BY <1>1, <2>2, <2>3 DEF JourneyInv
<1> QED
  BY <1>3, <1>4

\* The request reads the links and takes its event as the first step.
LEMMA BuildIsSafe ==
  ASSUME JourneyInv, NEW e \in Sighting, build_journey(e)
  PROVE  JourneyInv'
<1>1. /\ graph' = links /\ steps' = <<e>> /\ finished' = (links = {})
      /\ UNCHANGED <<links, seen, missed>> /\ Len(steps') = 1
  BY DEF build_journey
<1>2. JourneyTypes'
  BY <1>1, JourneyAssumption DEF JourneyInv, JourneyTypes
<1>3. StepsFollow'
  BY <1>1 DEF StepsFollow
<1>4. finished' => \A a, b : ~Linked(a, b)'
  BY <1>1 DEF Linked
<1>5. EndsWhereItMust'
  BY <1>4 DEF EndsWhereItMust, Follows
<1> QED
  BY <1>2, <1>3, <1>5 DEF JourneyInv

\* One round takes the first event that may follow, and leaves the earlier rounds alone.
LEMMA WalkIsSafe ==
  ASSUME JourneyInv, WalkOn
  PROVE  JourneyInv'
<1>0. /\ JourneyTypes /\ steps # <<>> /\ ~finished /\ Len(steps) < MAX_CHAIN
      /\ UNCHANGED <<links, drawn, seen, graph, missed, finished>>
  BY DEF JourneyInv, WalkOn
<1>1. PICK e \in Earliest(Candidates) : steps' = Append(steps, e)
  BY DEF WalkOn
<1>2. e \in Candidates /\ e \in seen /\ e \in Sighting /\ \A x \in Candidates : e.at <= x.at
  BY <1>0, <1>1 DEF Earliest, Candidates, JourneyTypes
<1>3. PICK n \in Nat : n = Len(steps) /\ n # 0 /\ n + 1 <= MAX_CHAIN
  BY <1>0, JourneyAssumption DEF JourneyTypes
<1>4. /\ Len(steps') = n + 1 /\ steps' \in Seq(Sighting)
      /\ \A i \in 1..n : steps'[i] = steps[i]
      /\ steps'[n + 1] = e
  BY <1>0, <1>1, <1>2, <1>3 DEF JourneyTypes
<1>5. JourneyTypes'
  BY <1>0, <1>3, <1>4 DEF JourneyTypes
<1>6. \A i \in 1..n : \A x : Follows(steps, i, x)' <=> Follows(steps, i, x)
  <2> SUFFICES ASSUME NEW i \in 1..n, NEW x PROVE Follows(steps, i, x)' <=> Follows(steps, i, x)
    OBVIOUS
  <2>1. \A j \in 1..i : j \in 1..n
    BY <1>3
  <2>2. Before(steps', i) = Before(steps, i)
    BY <1>4, <2>1 DEF Before
  <2> QED
    BY <1>0, <1>4, <2>2 DEF Follows, Linked
<1>7. StepsFollow'
  <2> SUFFICES ASSUME NEW i \in 1..(Len(steps') - 1)
               PROVE  /\ Follows(steps, i, steps[i + 1])'
                      /\ \A x \in seen \ missed : Follows(steps, i, x)' => x.at >= steps'[i + 1].at
    BY <1>0 DEF StepsFollow
  <2>1. i \in 1..n
    BY <1>3, <1>4
  <2>2. CASE i = n
    <3>1. \A x \in seen : x \in Candidates <=> Follows(steps, n, x)
      BY <1>0, <1>3, CandidatesFollow
    <3>2. Follows(steps, n, e) /\ \A x \in seen : Follows(steps, n, x) => e.at <= x.at
      BY <1>2, <3>1
    <3>3. steps'[i + 1] = e
      BY <1>4, <2>2
    <3>4. \A x \in seen : x.at \in Int
      BY <1>0 DEF JourneyTypes, Sighting
    <3>5. e.at \in Int
      BY <1>2 DEF Sighting
    <3>6. \A x \in seen \ missed : Follows(steps, i, x)' => x.at >= e.at
      BY <1>6, <2>1, <2>2, <3>2, <3>4, <3>5
    <3>7. Follows(steps, i, e)'
      BY <1>6, <2>1, <2>2, <3>2
    <3>8. Follows(steps, i, steps[i + 1])'
      BY <3>3, <3>7 DEF Follows, Linked, Before
    <3> QED
      BY <3>3, <3>6, <3>8
  <2>3. CASE i # n
    <3>1. i \in 1..(Len(steps) - 1) /\ i + 1 \in 1..n
      BY <1>3, <2>1, <2>3
    <3>2. steps'[i + 1] = steps[i + 1]
      BY <1>4, <3>1
    <3> QED
      BY <1>6, <2>1, <3>1, <3>2 DEF JourneyInv, StepsFollow
  <2> QED
    BY <2>2, <2>3
<1>8. EndsWhereItMust'
  BY <1>0 DEF EndsWhereItMust
<1> QED
  BY <1>5, <1>7, <1>8 DEF JourneyInv

\* The walk ends at the bound or where nothing may follow.
LEMMA EndIsSafe ==
  ASSUME JourneyInv, WalkEnds
  PROVE  JourneyInv'
<1>0. /\ JourneyTypes /\ steps # <<>>
      /\ Len(steps) = MAX_CHAIN \/ Candidates = {}
      /\ UNCHANGED <<links, drawn, seen, graph, steps, missed>>
  BY DEF JourneyInv, WalkEnds
<1>1. JourneyTypes' /\ StepsFollow'
  BY <1>0 DEF JourneyInv, JourneyTypes, StepsFollow, Follows, Linked, Before
<1>2. Candidates = {} => \A e \in seen : ~Follows(steps, Len(steps), e)
  BY <1>0, CandidatesFollow
<1>3. EndsWhereItMust'
  <2> SUFFICES ASSUME Len(steps) < MAX_CHAIN, NEW e \in seen \ missed
               PROVE  ~Follows(steps, Len(steps), e)'
    BY <1>0 DEF EndsWhereItMust
  <2>1. ~Follows(steps, Len(steps), e)
    BY <1>0, <1>2, JourneyAssumption DEF JourneyTypes
  <2> QED
    BY <1>0, <2>1 DEF Follows, Linked, Before
<1> QED
  BY <1>1, <1>3 DEF JourneyInv

\* Every step keeps the invariant.
LEMMA JourneyStep ==
  ASSUME JourneyInv, [JourneyNext]_journeyVars
  PROVE  JourneyInv'
<1>0. links \subseteq Pairs /\ seen \subseteq Sighting
  BY DEF JourneyInv, JourneyTypes
<1>1. ASSUME NEW a \in Spots, NEW b \in Spots, create_connection(a, b) PROVE JourneyInv'
  <2>1. normalise_pair(a, b) \in Pairs
    BY <1>1 DEF create_connection, Pairs, normalise_pair
  <2> QED
    BY <1>0, <1>1, <2>1, WorldMoves DEF create_connection
<1>2. ASSUME NEW l \in links, delete_connection(l) PROVE JourneyInv'
  <2>1. links' \subseteq Pairs
    BY <1>0, <1>2 DEF delete_connection
  <2> QED
    BY <1>0, <1>2, <2>1, WorldMoves DEF delete_connection
<1>3. ASSUME NEW e \in Sighting, EventSeen(e) PROVE JourneyInv'
  <2>1. /\ UNCHANGED <<links, graph, steps, finished>>
        /\ seen' \subseteq Sighting
        /\ steps # <<>> => seen' \ missed' \subseteq seen \ missed
    BY <1>0, <1>3 DEF EventSeen
  <2> QED
    BY <1>0, <2>1, WorldMoves
<1>4. ASSUME UNCHANGED journeyVars PROVE JourneyInv'
  BY <1>0, <1>4, WorldMoves DEF journeyVars
<1> QED
  BY <1>1, <1>2, <1>3, <1>4, BuildIsSafe, WalkIsSafe, EndIsSafe DEF JourneyNext, Sighting

(***************************************************************************)
(* A journey is a path of the graph the request read: every step is to a   *)
(* linked camera not visited yet, within the minutes allowed, and the      *)
(* first event that could follow; it ends at the bound or where none can.  *)
(***************************************************************************)
THEOREM JourneysArePaths ==
  JourneyInit /\ [][JourneyNext]_journeyVars => []JourneyIsPath
<1>1. JourneyInv /\ [JourneyNext]_journeyVars => JourneyInv'
  BY JourneyStep
<1> QED
  BY JourneyStarts, JourneySound, <1>1, PTL

-----------------------------------------------------------------------------
(***************************************************************************)
(* Instant alerts.  RuleFollowsContacts needs what a request that holds    *)
(* the organisation's row knows of the rule, and when there must be one.   *)
(***************************************************************************)
Contact == [id : Edits, number : Numbers, enabled : BOOLEAN]
Stages == {"new", "decided", "flushed", "synced", "done", "failed"}

\* A list of contacts as it may be stored: few, and no number or id twice.
MayBeStored(S) ==
    /\ S \subseteq Contact /\ IsFiniteSet(S) /\ Cardinality(S) <= MAX_CONTACTS
    /\ \A c, d \in S : c.number = d.number => c = d
    /\ \A c, d \in S : c.id = d.id => c = d
    /\ \A c \in S : edit[c.id].pc # "new"

IsEdit(e) ==
    /\ DOMAIN e = {"pc", "read", "new", "rule"}
    /\ e.pc \in Stages /\ MayBeStored(e.new)
IsRule(r) == DOMAIN r = {"id", "live", "enabled", "told"}

InstantTypes ==
    /\ MayBeStored(contacts)
    /\ DOMAIN edit = Edits
    /\ edit = [x \in Edits |-> edit[x]]
    /\ \A x \in Edits : IsEdit(edit[x])
    /\ \A r \in namesakes : IsRule(r)
    /\ \A x \in Edits : \A r \in edit[x].rule : IsRule(r)
    /\ admin \in Nat

\* A request that changes the contacts, from its flush to its commit.
Changes(x) == edit[x].new # edit[x].read
Writes(x) == edit[x].pc \in {"flushed", "synced"} /\ Changes(x)
LockHeld == \A x \in Edits : Writes(x) => holder = x

\* Until an admin touches the rules there is at most one, live, and enabled when it
\* tells somebody.
OneRule ==
    admin = 0 => /\ \A q, r \in namesakes : q = r
                 /\ \A r \in namesakes : r.live = TRUE /\ r.enabled = (r.told # {})

\* There is a rule as soon as a stored list, or one that is stored again, enables a number.
Ordered(x) == edit[x].pc # "new" /\ ~Changes(x)
RuleWhenNeeded ==
    admin = 0 => /\ enabled_numbers(contacts) # {} => namesakes # {}
                 /\ \A x \in Edits : Ordered(x) /\ enabled_numbers(edit[x].new) # {} => namesakes # {}
                 /\ \A x \in Edits : edit[x].rule # {} => namesakes # {}

\* The one that makes the rule holds the lock, and there is none yet.
MakesTheFirst ==
    admin = 0 => \A x \in Edits :
        edit[x].pc = "synced" /\ edit[x].rule = {} /\ enabled_numbers(edit[x].new) # {}
            => Changes(x) /\ namesakes = {}

\* Without a write outside the lock, a holder has the rule as it is stored, and the rule
\* tells the stored contacts.
RuleIsCurrent ==
    admin = 0 /\ ~unlocked =>
        /\ \A x \in Edits : edit[x].pc = "synced" /\ Changes(x) => edit[x].rule = namesakes
        /\ \A r \in namesakes : r.told = enabled_numbers(contacts)

InstantInv ==
    /\ InstantTypes /\ LockHeld /\ OneRule /\ RuleWhenNeeded /\ MakesTheFirst /\ RuleIsCurrent

-----------------------------------------------------------------------------
\* Until an admin touches the rules they number one at most, and all are live.
LEMMA FewRules ==
  ASSUME OneRule, admin = 0
  PROVE  Cardinality(namesakes) \in {0, 1} /\ Live = namesakes
<1>1. CASE namesakes = {}
  BY <1>1, FS_EmptySet DEF Live
<1>2. CASE namesakes # {}
  <2>1. PICK r : namesakes = {r}
    BY <1>2 DEF OneRule
  <2>2. Cardinality(namesakes) = 1
    BY <2>1, FS_Singleton
  <2> QED
    BY <2>2 DEF OneRule, Live
<1> QED
  BY <1>1, <1>2

\* The inductive invariant gives the property.
LEMMA InstantSound == InstantInv => RuleFollowsContacts
<1> SUFFICES ASSUME InstantInv PROVE RuleFollowsContacts
  OBVIOUS
<1>1. /\ Cardinality(contacts) <= MAX_CONTACTS
      /\ \A c, d \in contacts : c.number = d.number => c = d
  BY DEF InstantInv, InstantTypes, MayBeStored
<1>2. ASSUME admin = 0
      PROVE  /\ Cardinality(namesakes) <= 1
             /\ ~unlocked => UNION {r.told : r \in {q \in Live : q.enabled}} = enabled_numbers(contacts)
  <2>1. Cardinality(namesakes) <= 1 /\ Live = namesakes
    BY <1>2, FewRules DEF InstantInv
  <2>2. ASSUME ~unlocked
        PROVE  UNION {r.told : r \in {q \in namesakes : q.enabled}} = enabled_numbers(contacts)
    <3>1. \A r \in namesakes : r.told = enabled_numbers(contacts) /\ r.enabled = (r.told # {})
      BY <1>2, <2>2 DEF InstantInv, RuleIsCurrent, OneRule
    <3>2. CASE enabled_numbers(contacts) = {}
      BY <3>1, <3>2
    <3>3. CASE enabled_numbers(contacts) # {}
      <4>1. namesakes # {}
        BY <1>2, <3>3 DEF InstantInv, RuleWhenNeeded
      <4> QED
        BY <3>1, <3>3, <4>1
    <3> QED
      BY <3>2, <3>3
  <2> QED
    BY <2>1, <2>2
<1> QED
  BY <1>1, <1>2 DEF RuleFollowsContacts

\* It holds of an organisation without contacts and rules.
LEMMA InstantStarts == InstantInit => InstantInv
<1> SUFFICES ASSUME InstantInit PROVE InstantInv
  OBVIOUS
<1>1. MayBeStored({})
  BY FS_EmptySet, InstantAssumption DEF MayBeStored
<1>2. enabled_numbers({}) = {}
  BY DEF enabled_numbers
<1>3. InstantTypes
  BY <1>1 DEF InstantInit, InstantTypes, IsEdit, NoEdit, Stages
<1> QED
  BY <1>2, <1>3 DEF InstantInit, InstantInv, LockHeld, Writes, OneRule, RuleWhenNeeded, Ordered,
                    MakesTheFirst, RuleIsCurrent, NoEdit, Changes

\* A list stays one that may be stored while no request is taken back to its start.
LEMMA ListsStay ==
  ASSUME NEW S, MayBeStored(S),
         \A x \in Edits : edit'[x].pc = "new" => edit[x].pc = "new"
  PROVE  MayBeStored(S)'
BY DEF MayBeStored, Contact

\* The three requests write a list that may be stored.
LEMMA AddIsStorable ==
  ASSUME InstantTypes, NEW x \in Edits, NEW number \in Numbers, add_contact(x, number)
  PROVE  MayBeStored(edit[x].new)'
<1>1. PICK S, c : /\ S = contacts \cup {c} /\ c = [id |-> x, number |-> number, enabled |-> FALSE]
                  /\ edit' = [edit EXCEPT ![x] = [pc |-> "decided", read |-> contacts, new |-> S, rule |-> {}]]
  BY DEF add_contact, Decide
<1>2. edit'[x].new = S /\ edit'[x].pc = "decided" /\ edit[x].pc = "new"
      /\ \A y \in Edits : edit'[y].pc = "new" => edit[y].pc = "new"
  BY <1>1 DEF add_contact, Decide, InstantTypes
<1>3. MayBeStored(contacts) /\ Cardinality(contacts) < MAX_CONTACTS /\ Cardinality(contacts) \in Nat
  BY FS_CardinalityType DEF InstantTypes, add_contact, MayBeStored
<1>4. c \in Contact /\ \A d \in contacts : d.number # number /\ d.id # x
  BY <1>1, <1>2, <1>3 DEF Contact, add_contact, MayBeStored
<1>5. IsFiniteSet(S) /\ Cardinality(S) <= MAX_CONTACTS
  <2>1. IsFiniteSet(contacts)
    BY <1>3 DEF MayBeStored
  <2>2. /\ IsFiniteSet(contacts \cup {c})
        /\ Cardinality(contacts \cup {c}) = IF c \in contacts THEN Cardinality(contacts) ELSE Cardinality(contacts) + 1
    BY <2>1, FS_AddElement
  <2> QED
    BY <1>1, <1>3, <2>2, InstantAssumption
<1>6. /\ S \subseteq Contact
      /\ \A d, f \in S : d.number = f.number => d = f
      /\ \A d, f \in S : d.id = f.id => d = f
  <2>1. c.number = number /\ c.id = x
    BY <1>1
  <2>2. \A d \in S : d = c \/ d \in contacts
    BY <1>1
  <2> QED
    BY <1>3, <1>4, <2>1, <2>2 DEF MayBeStored
<1>7. \A d \in S : edit'[d.id].pc # "new"
  BY <1>1, <1>2, <1>3 DEF MayBeStored, Contact
<1> QED
  BY <1>2, <1>5, <1>6, <1>7 DEF MayBeStored

\* A changed contact keeps its id, and its number is nobody else's.
LEMMA UpdateIsStorable ==
  ASSUME InstantTypes, NEW x \in Edits, NEW c \in contacts, NEW number \in Numbers, NEW on \in BOOLEAN,
         update_contact(x, c, number, on)
  PROVE  MayBeStored(edit[x].new)'
<1>1. PICK R, S, u : /\ R = contacts \ {c} /\ S = R \cup {u}
                     /\ u = [id |-> c.id, number |-> number, enabled |-> on]
                     /\ edit' = [edit EXCEPT ![x] = [pc |-> "decided", read |-> contacts, new |-> S, rule |-> {}]]
  BY DEF update_contact, Decide
<1>2. edit'[x].new = S /\ edit'[x].pc = "decided"
      /\ \A y \in Edits : edit'[y].pc = "new" => edit[y].pc = "new"
  BY <1>1 DEF update_contact, Decide, InstantTypes
<1>3. MayBeStored(contacts) /\ Cardinality(contacts) \in Nat
  BY FS_CardinalityType DEF InstantTypes, MayBeStored
<1>4. u \in Contact /\ \A d \in R : d.number # number /\ d.id # c.id
  BY <1>1, <1>3 DEF Contact, update_contact, MayBeStored
<1>5. IsFiniteSet(S) /\ Cardinality(S) <= MAX_CONTACTS
  <2>1. IsFiniteSet(contacts) /\ Cardinality(contacts) <= MAX_CONTACTS
    BY <1>3 DEF MayBeStored
  <2>2. /\ IsFiniteSet(contacts \ {c})
        /\ Cardinality(contacts \ {c}) = IF c \in contacts THEN Cardinality(contacts) - 1 ELSE Cardinality(contacts)
    BY <2>1, FS_RemoveElement
  <2>3. IsFiniteSet(R) /\ Cardinality(R) = Cardinality(contacts) - 1
    BY <1>1, <2>2
  <2>4. /\ IsFiniteSet(R \cup {u})
        /\ Cardinality(R \cup {u}) = IF u \in R THEN Cardinality(R) ELSE Cardinality(R) + 1
    BY <2>3, FS_AddElement
  <2> QED
    BY <1>1, <1>3, <2>1, <2>3, <2>4, InstantAssumption
<1>6. /\ S \subseteq Contact
      /\ \A d, f \in S : d.number = f.number => d = f
      /\ \A d, f \in S : d.id = f.id => d = f
  BY <1>1, <1>3, <1>4 DEF MayBeStored
<1>7. \A d \in S : edit'[d.id].pc # "new"
  <2>1. \A d \in contacts : edit'[d.id].pc # "new"
    BY <1>2, <1>3 DEF MayBeStored, Contact
  <2> QED
    BY <1>1, <2>1
<1> QED
  BY <1>2, <1>5, <1>6, <1>7 DEF MayBeStored

\* A list with a contact taken out is still one that may be stored.
LEMMA DeleteIsStorable ==
  ASSUME InstantTypes, NEW x \in Edits, NEW c \in contacts, delete_contact(x, c)
  PROVE  MayBeStored(edit[x].new)'
<1>1. PICK S : /\ S = contacts \ {c}
               /\ edit' = [edit EXCEPT ![x] = [pc |-> "decided", read |-> contacts, new |-> S, rule |-> {}]]
  BY DEF delete_contact, Decide
<1>2. edit'[x].new = S /\ edit'[x].pc = "decided"
      /\ \A y \in Edits : edit'[y].pc = "new" => edit[y].pc = "new"
  BY <1>1 DEF delete_contact, Decide, InstantTypes
<1>3. MayBeStored(contacts) /\ Cardinality(contacts) \in Nat
  BY FS_CardinalityType DEF InstantTypes, MayBeStored
<1>5. IsFiniteSet(S) /\ Cardinality(S) <= MAX_CONTACTS
  <2>1. IsFiniteSet(contacts) /\ Cardinality(contacts) <= MAX_CONTACTS
    BY <1>3 DEF MayBeStored
  <2>2. /\ IsFiniteSet(contacts \ {c})
        /\ Cardinality(contacts \ {c}) = IF c \in contacts THEN Cardinality(contacts) - 1 ELSE Cardinality(contacts)
    BY <2>1, FS_RemoveElement
  <2> QED
    BY <1>1, <1>3, <2>1, <2>2, InstantAssumption
<1>6. /\ S \subseteq Contact
      /\ \A d, f \in S : d.number = f.number => d = f
      /\ \A d, f \in S : d.id = f.id => d = f
      /\ \A d \in S : edit'[d.id].pc # "new"
  BY <1>1, <1>2, <1>3 DEF MayBeStored, Contact
<1> QED
  BY <1>2, <1>5, <1>6 DEF MayBeStored

\* A decision, whatever list it writes.
LEMMA DecideIsSafe ==
  ASSUME InstantInv, NEW x \in Edits, NEW S, Decide(x, S), MayBeStored(edit[x].new)'
  PROVE  InstantInv'
<1>1. /\ edit' = [edit EXCEPT ![x] = [pc |-> "decided", read |-> contacts, new |-> S, rule |-> {}]]
      /\ UNCHANGED <<contacts, namesakes, holder, admin, unlocked>>
  BY DEF Decide
<1>2. /\ edit'[x] = [pc |-> "decided", read |-> contacts, new |-> S, rule |-> {}]
      /\ \A y \in Edits : y # x => edit'[y] = edit[y]
      /\ DOMAIN edit' = Edits /\ edit' = [y \in Edits |-> edit'[y]]
  BY <1>1 DEF InstantInv, InstantTypes
<1>3. \A y \in Edits : edit'[y].pc = "new" => edit[y].pc = "new"
  BY <1>2
<1>4. InstantTypes'
  <2>1. MayBeStored(contacts)'
    BY <1>1, <1>3, ListsStay DEF InstantInv, InstantTypes
  <2>2. ASSUME NEW y \in Edits PROVE IsEdit(edit[y])'
    <3>1. CASE y = x
      BY <1>2, <3>1 DEF IsEdit, Stages
    <3>2. CASE y # x
      <4>1. MayBeStored(edit[y].new)'
        BY <1>2, <1>3, <3>2, ListsStay DEF InstantInv, InstantTypes, IsEdit
      <4> QED
        BY <1>2, <3>2, <4>1 DEF InstantInv, InstantTypes, IsEdit
    <3> QED
      BY <3>1, <3>2
  <2> QED
    BY <1>1, <1>2, <2>1, <2>2 DEF InstantInv, InstantTypes, IsRule
<1>5. LockHeld' /\ MakesTheFirst' /\ RuleIsCurrent' /\ OneRule'
  BY <1>1, <1>2 DEF InstantInv, LockHeld, Writes, Changes, MakesTheFirst, RuleIsCurrent, OneRule
<1>6. RuleWhenNeeded'
  BY <1>1, <1>2 DEF InstantInv, RuleWhenNeeded, Ordered, Changes
<1> QED
  BY <1>4, <1>5, <1>6 DEF InstantInv

\* A step that moves one edit along leaves the lists and the shapes alone.
LEMMA StageKeepsTypes ==
  ASSUME InstantTypes, NEW x \in Edits,
         DOMAIN edit' = Edits, edit' = [y \in Edits |-> edit'[y]],
         \A y \in Edits : y # x => edit'[y] = edit[y],
         DOMAIN edit'[x] = DOMAIN edit[x], edit'[x].new = edit[x].new,
         edit'[x].pc \in Stages \ {"new"},
         \A r \in edit'[x].rule : IsRule(r),
         \A r \in namesakes' : IsRule(r),
         contacts' \in {contacts, edit[x].new},
         admin' \in Nat
  PROVE  InstantTypes'
<1>1. \A y \in Edits : edit'[y].pc = "new" => edit[y].pc = "new"
  OBVIOUS
<1>2. \A y \in Edits : edit'[y].new = edit[y].new
  OBVIOUS
<1>3. ASSUME NEW y \in Edits PROVE IsEdit(edit[y])'
  <2>1. PICK S : S = edit[y].new
    OBVIOUS
  <2>2. MayBeStored(S)
    BY <2>1 DEF InstantTypes, IsEdit
  <2>3. MayBeStored(S)'
    BY <1>1, <2>2, ListsStay
  <2>4. MayBeStored(edit[y].new)'
    BY <1>2, <2>1, <2>3 DEF MayBeStored
  <2>5. DOMAIN edit'[y] = {"pc", "read", "new", "rule"} /\ edit'[y].pc \in Stages
    BY DEF InstantTypes, IsEdit
  <2> QED
    BY <2>4, <2>5 DEF IsEdit
<1>4. MayBeStored(contacts)'
  <2>1. MayBeStored(contacts) /\ MayBeStored(edit[x].new)
    BY DEF InstantTypes, IsEdit
  <2>2. PICK S : S = contacts' /\ MayBeStored(S)
    BY <2>1
  <2>3. MayBeStored(S)'
    BY <1>1, <2>2, ListsStay
  <2> QED
    BY <2>2, <2>3 DEF MayBeStored
<1>5. (\A r \in namesakes : IsRule(r))' /\ (\A y \in Edits : \A r \in edit[y].rule : IsRule(r))'
  BY DEF InstantTypes, IsRule
<1> QED
  BY <1>3, <1>4, <1>5 DEF InstantTypes

\* The flush of a changed list waits for the lock, so two never hold it.
LEMMA ContactFlushIsSafe ==
  ASSUME InstantInv, NEW x \in Edits, FlushContacts(x)
  PROVE  InstantInv'
<1>0. /\ edit[x].pc = "decided"
      /\ Changes(x) => holder = Nobody /\ holder' = x
      /\ ~Changes(x) => holder' = holder
      /\ edit' = [edit EXCEPT ![x].pc = "flushed"]
      /\ UNCHANGED <<contacts, namesakes, admin, unlocked>>
  BY DEF FlushContacts, Changes
<1>1. /\ DOMAIN edit' = Edits /\ edit' = [y \in Edits |-> edit'[y]]
      /\ \A y \in Edits : y # x => edit'[y] = edit[y]
      /\ edit'[x].pc = "flushed" /\ edit'[x].new = edit[x].new /\ edit'[x].read = edit[x].read
      /\ edit'[x].rule = edit[x].rule /\ DOMAIN edit'[x] = DOMAIN edit[x]
  BY <1>0 DEF InstantInv, InstantTypes, IsEdit
<1>2. InstantTypes'
  <2>1. "flushed" \in Stages \ {"new"} /\ contacts' \in {contacts, edit[x].new}
    BY <1>0 DEF Stages
  <2>2. /\ InstantTypes /\ admin' \in Nat
        /\ \A r \in namesakes' : IsRule(r)
        /\ \A r \in edit'[x].rule : IsRule(r)
    BY <1>0, <1>1 DEF InstantInv, InstantTypes
  <2> QED
    BY <1>1, <2>1, <2>2, StageKeepsTypes
<1>3. LockHeld'
  BY <1>0, <1>1, InstantAssumption DEF InstantInv, LockHeld, Writes, Changes
<1>4. OneRule' /\ RuleWhenNeeded'
  BY <1>0, <1>1 DEF InstantInv, OneRule, RuleWhenNeeded, Ordered, Changes
<1>5. MakesTheFirst' /\ RuleIsCurrent'
  BY <1>0, <1>1 DEF InstantInv, MakesTheFirst, RuleIsCurrent, Changes
<1> QED
  BY <1>2, <1>3, <1>4, <1>5 DEF InstantInv

\* What is read is the rule as it is stored, and a holder keeps it so.
LEMMA RuleReadIsSafe ==
  ASSUME InstantInv, NEW x \in Edits, ReadRule(x)
  PROVE  InstantInv'
<1>0. PICK pc \in {"failed", "synced"} :
        /\ edit[x].pc = "flushed"
        /\ edit' = [edit EXCEPT ![x].pc = pc, ![x].rule = Live]
        /\ pc = "failed" <=> Cardinality(Live) > 1
        /\ holder' = holder \/ (holder' = Nobody /\ holder = x /\ pc = "failed")
        /\ UNCHANGED <<contacts, namesakes, admin, unlocked>>
  BY DEF ReadRule
<1>1. /\ DOMAIN edit' = Edits /\ edit' = [y \in Edits |-> edit'[y]]
      /\ \A y \in Edits : y # x => edit'[y] = edit[y]
      /\ edit'[x].pc = pc /\ edit'[x].new = edit[x].new /\ edit'[x].read = edit[x].read
      /\ edit'[x].rule = Live /\ DOMAIN edit'[x] = DOMAIN edit[x]
  BY <1>0 DEF InstantInv, InstantTypes, IsEdit
<1>2. InstantTypes'
  <2>1. pc \in Stages \ {"new"} /\ contacts' \in {contacts, edit[x].new}
    BY <1>0 DEF Stages
  <2>2. /\ InstantTypes /\ admin' \in Nat
        /\ \A r \in namesakes' : IsRule(r)
        /\ \A r \in edit'[x].rule : IsRule(r)
    BY <1>0, <1>1 DEF InstantInv, InstantTypes, Live
  <2> QED
    BY <1>1, <2>1, <2>2, StageKeepsTypes
<1>3. LockHeld'
  <2> SUFFICES ASSUME NEW y \in Edits, Writes(y)' PROVE holder' = y
    BY DEF LockHeld
  <2>1. Writes(y) /\ holder = y
    BY <1>0, <1>1 DEF InstantInv, LockHeld, Writes, Changes
  <2>2. holder' # holder => y = x /\ edit'[x].pc = "failed"
    BY <1>0, <1>1, <2>1
  <2>3. edit'[y].pc # "failed"
    BY DEF Writes
  <2>4. holder' = holder
    BY <2>2, <2>3
  <2> QED
    BY <2>1, <2>4
<1>4. OneRule'
  BY <1>0 DEF InstantInv, OneRule
<1>5. Live \subseteq namesakes
  BY DEF Live
<1>6. RuleWhenNeeded'
  <2>1. ASSUME NEW y \in Edits
        PROVE  /\ edit'[y].new = edit[y].new /\ (Ordered(y)' => Ordered(y))
               /\ edit'[y].rule # {} => edit[y].rule # {} \/ namesakes # {}
    <3>1. CASE y = x
      BY <1>0, <1>1, <1>5, <3>1 DEF Ordered, Changes
    <3>2. CASE y # x
      BY <1>1, <3>2 DEF Ordered, Changes
    <3> QED
      BY <3>1, <3>2
  <2> QED
    BY <1>0, <2>1 DEF InstantInv, RuleWhenNeeded
<1>7. admin = 0 => Live = namesakes
  BY FewRules DEF InstantInv
<1>8. MakesTheFirst'
  <2> SUFFICES ASSUME admin = 0, NEW y \in Edits, edit'[y].pc = "synced", edit'[y].rule = {},
                      enabled_numbers(edit'[y].new) # {}
               PROVE  Changes(y)' /\ namesakes' = {}
    BY <1>0 DEF MakesTheFirst
  <2>1. CASE y = x
    <3>1. namesakes = {}
      BY <1>1, <1>7, <2>1
    <3>2. ~Ordered(x)
      BY <1>1, <2>1, <3>1 DEF InstantInv, RuleWhenNeeded
    <3> QED
      BY <1>0, <1>1, <2>1, <3>1, <3>2 DEF Ordered, Changes
  <2>2. CASE y # x
    BY <1>0, <1>1, <2>2 DEF InstantInv, MakesTheFirst, Changes
  <2> QED
    BY <2>1, <2>2
<1>9. RuleIsCurrent'
  BY <1>0, <1>1, <1>7 DEF InstantInv, RuleIsCurrent, Changes
<1> QED
  BY <1>2, <1>3, <1>4, <1>6, <1>8, <1>9 DEF InstantInv

-----------------------------------------------------------------------------
\* What a commit writes: nothing, the one rule it read, or a first rule.
RewrittenAs(r, told, q) ==
    IF q.id = r.id /\ Synced(r, told) # r THEN [Synced(r, told) EXCEPT !.live = q.live] ELSE q
Rewritten(r, told) == {RewrittenAs(r, told, q) : q \in namesakes}

\* What a request makes of the rule it read.
LEMMA SyncedFields ==
  ASSUME NEW r, IsRule(r), NEW told, NEW s, s = Synced(r, told)
  PROVE  /\ IsRule(s) /\ s.live = r.live /\ s.told = told /\ s.enabled = (told # {})
         /\ s = r => r.told = told
<1>1. s = [r EXCEPT !.enabled = (told # {}), !.told = told]
  BY DEF Synced
<1>2. DOMAIN s = DOMAIN r /\ s.told = told /\ s.enabled = (told # {}) /\ s.live = r.live
  BY <1>1 DEF IsRule
<1> QED
  BY <1>2 DEF IsRule

\* What the commit makes of one stored rule.
LEMMA RewrittenRule ==
  ASSUME NEW r, IsRule(r), NEW told, NEW q, IsRule(q), NEW p, p = RewrittenAs(r, told, q)
  PROVE  /\ IsRule(p) /\ p.live = q.live
         /\ p = q \/ (p.told = told /\ p.enabled = (told # {}))
         /\ q = r => p.told = told
<1>1. PICK s : s = Synced(r, told)
  OBVIOUS
<1>2. IsRule(s) /\ s.told = told /\ s.enabled = (told # {})
  BY <1>1, SyncedFields
<1>3. s = r => r.told = told
  BY <1>1, SyncedFields
<1>4. CASE q.id = r.id /\ s # r
  <2>1. p = [s EXCEPT !.live = q.live]
    BY <1>1, <1>4 DEF RewrittenAs
  <2>2. DOMAIN s = {"id", "live", "enabled", "told"}
    BY <1>2 DEF IsRule
  <2>3. DOMAIN p = DOMAIN s /\ p.live = q.live /\ p.told = s.told /\ p.enabled = s.enabled
    BY <2>1, <2>2
  <2>4. p.told = told /\ p.enabled = (told # {})
    BY <1>2, <2>3
  <2> QED
    BY <2>2, <2>3, <2>4 DEF IsRule
<1>5. CASE ~(q.id = r.id /\ s # r)
  <2>1. p = q
    BY <1>1, <1>5 DEF RewrittenAs
  <2>2. q = r => s = r
    BY <1>5
  <2> QED
    BY <1>3, <2>1, <2>2
<1> QED
  BY <1>4, <1>5

\* What the commit makes of all of them.
LEMMA RewrittenSafe ==
  ASSUME InstantTypes, OneRule, NEW r, IsRule(r), NEW told
  PROVE  /\ \A p \in Rewritten(r, told) : IsRule(p)
         /\ Rewritten(r, told) = {} <=> namesakes = {}
         /\ admin = 0 => /\ \A p, q \in Rewritten(r, told) : p = q
                         /\ \A p \in Rewritten(r, told) : p.live = TRUE /\ p.enabled = (p.told # {})
         /\ namesakes = {r} => \A p \in Rewritten(r, told) : p.told = told
         /\ Synced(r, told) = r => Rewritten(r, told) = namesakes
<1>1. \A q \in namesakes : /\ IsRule(RewrittenAs(r, told, q)) /\ RewrittenAs(r, told, q).live = q.live
                           /\ \/ RewrittenAs(r, told, q) = q
                              \/ /\ RewrittenAs(r, told, q).told = told
                                 /\ RewrittenAs(r, told, q).enabled = (told # {})
                           /\ q = r => RewrittenAs(r, told, q).told = told
  BY RewrittenRule DEF InstantTypes
<1>2. Synced(r, told) = r => \A q \in namesakes : RewrittenAs(r, told, q) = q
  BY DEF RewrittenAs
<1>3. \A p \in Rewritten(r, told) : IsRule(p)
  BY <1>1 DEF Rewritten
<1>4. Rewritten(r, told) = {} <=> namesakes = {}
  BY DEF Rewritten
<1>5. admin = 0 => /\ \A p, q \in Rewritten(r, told) : p = q
                   /\ \A p \in Rewritten(r, told) : p.live = TRUE /\ p.enabled = (p.told # {})
  BY <1>1 DEF OneRule, Rewritten
<1>6. namesakes = {r} => \A p \in Rewritten(r, told) : p.told = told
  BY <1>1 DEF Rewritten
<1>7. Synced(r, told) = r => Rewritten(r, told) = namesakes
  BY <1>2 DEF Rewritten
<1> QED
  BY <1>3, <1>4, <1>5, <1>6, <1>7

\* The commit of a changed list writes the rule to match; one of an unchanged list
\* writes it only outside the lock.
LEMMA RuleCommitIsSafe ==
  ASSUME InstantInv, NEW x \in Edits, Commit(x)
  PROVE  InstantInv'
<1> DEFINE told == enabled_numbers(edit[x].new)
<1>0. /\ edit[x].pc = "synced"
      /\ contacts' = IF Changes(x) THEN edit[x].new ELSE contacts
      /\ edit' = [edit EXCEPT ![x].pc = "done"]
      /\ holder' = IF holder = x THEN Nobody ELSE holder
      /\ admin' = admin
  BY DEF Commit, Changes
<1>1. \/ \E r \in edit[x].rule : /\ namesakes' = Rewritten(r, told)
                                 /\ unlocked' = (unlocked \/ (Synced(r, told) # r /\ ~Changes(x)))
      \/ edit[x].rule = {} /\ told = {} /\ UNCHANGED <<namesakes, unlocked>>
      \/ /\ edit[x].rule = {} /\ told # {}
         /\ namesakes' = namesakes \cup {NewRule(told)}
         /\ unlocked' = (unlocked \/ ~Changes(x))
  BY DEF Commit, Changes, Rewritten, RewrittenAs
<1>2. /\ DOMAIN edit' = Edits /\ edit' = [y \in Edits |-> edit'[y]]
      /\ \A y \in Edits : y # x => edit'[y] = edit[y]
      /\ edit'[x].pc = "done" /\ edit'[x].new = edit[x].new /\ edit'[x].read = edit[x].read
      /\ edit'[x].rule = edit[x].rule /\ DOMAIN edit'[x] = DOMAIN edit[x]
  BY <1>0 DEF InstantInv, InstantTypes, IsEdit
<1>3. PICK n : /\ n = NewRule(told) /\ IsRule(n)
               /\ n.live = TRUE /\ n.enabled = TRUE /\ n.told = told
  <2>1. PICK n : n = [id |-> Cardinality(namesakes) + 1, live |-> TRUE, enabled |-> TRUE, told |-> told]
    OBVIOUS
  <2>2. DOMAIN n = {"id", "live", "enabled", "told"}
    BY <2>1
  <2>3. n.live = TRUE /\ n.enabled = TRUE /\ n.told = told
    BY <2>1
  <2> QED
    BY <2>1, <2>2, <2>3 DEF NewRule, IsRule
<1>4. \A r \in edit[x].rule : IsRule(r)
  BY DEF InstantInv, InstantTypes
<1> HIDE DEF told
<1>5. (\A r \in namesakes' : IsRule(r)) /\ (~unlocked' => ~unlocked)
      /\ (namesakes # {} => namesakes' # {})
  <2>1. \A r \in edit[x].rule : \A p \in Rewritten(r, told) : IsRule(p)
    BY <1>4, RewrittenSafe DEF InstantInv
  <2>2. \A r \in edit[x].rule : Rewritten(r, told) = {} <=> namesakes = {}
    BY <1>4, RewrittenSafe DEF InstantInv
  <2>3. \A r \in namesakes : IsRule(r)
    BY DEF InstantInv, InstantTypes
  <2>5. \A r \in namesakes' : IsRule(r)
    BY <1>1, <1>3, <2>1, <2>3
  <2>6. ~unlocked' => ~unlocked
    BY <1>1, Zenon
  <2>7. namesakes # {} => namesakes' # {}
    BY <1>1, <2>2
  <2> QED
    BY <2>5, <2>6, <2>7
<1>6. InstantTypes'
  <2>1. "done" \in Stages \ {"new"} /\ contacts' \in {contacts, edit[x].new}
    BY <1>0 DEF Stages
  <2>2. /\ InstantTypes /\ admin' \in Nat
        /\ \A r \in edit'[x].rule : IsRule(r)
    BY <1>0, <1>2, <1>4 DEF InstantInv, InstantTypes
  <2> QED
    BY <1>2, <1>5, <2>1, <2>2, StageKeepsTypes
<1>7. \A y \in Edits : Writes(y) /\ y # x => ~Changes(x) /\ holder = y
  BY <1>0 DEF InstantInv, LockHeld, Writes
<1>8. LockHeld'
  BY <1>0, <1>2, <1>7, InstantAssumption DEF LockHeld, Writes, Changes
<1>9. ASSUME admin = 0, edit[x].rule = {}, told # {} PROVE Changes(x) /\ namesakes = {}
  BY <1>0, <1>9 DEF InstantInv, MakesTheFirst, told
<1>10. OneRule'
  <2> SUFFICES ASSUME admin = 0
               PROVE  /\ \A q, r \in namesakes' : q = r
                      /\ \A r \in namesakes' : r.live = TRUE /\ r.enabled = (r.told # {})
    BY <1>0 DEF OneRule
  <2>1. CASE \E r \in edit[x].rule : namesakes' = Rewritten(r, told)
    <3>1. PICK r \in edit[x].rule : namesakes' = Rewritten(r, told)
      BY <2>1
    <3>2. InstantTypes /\ OneRule /\ IsRule(r)
      BY <1>4 DEF InstantInv
    <3>3. /\ \A p, q \in Rewritten(r, told) : p = q
          /\ \A p \in Rewritten(r, told) : p.live = TRUE /\ p.enabled = (p.told # {})
      BY <3>2, RewrittenSafe
    <3> QED
      BY <3>1, <3>3
  <2>2. CASE namesakes' = namesakes
    BY <2>2 DEF InstantInv, OneRule
  <2>3. CASE namesakes' = {n} /\ told # {}
    BY <1>3, <2>3
  <2> QED
    BY <1>1, <1>3, <1>9, <2>1, <2>2, <2>3
<1>11. RuleWhenNeeded'
  <2> SUFFICES ASSUME admin = 0
               PROVE  /\ enabled_numbers(contacts') # {} => namesakes' # {}
                      /\ \A y \in Edits : Ordered(y)' /\ enabled_numbers(edit'[y].new) # {} => namesakes' # {}
                      /\ \A y \in Edits : edit'[y].rule # {} => namesakes' # {}
    BY <1>0 DEF RuleWhenNeeded, enabled_numbers
  <2>1. edit[x].rule # {} => namesakes # {}
    BY DEF InstantInv, RuleWhenNeeded
  <2>2. told # {} => namesakes' # {}
    BY <1>1, <1>5, <2>1
  <2>3. enabled_numbers(contacts') # {} => namesakes' # {}
    BY <1>0, <1>5, <2>2 DEF InstantInv, RuleWhenNeeded, told
  <2>4. \A y \in Edits : Ordered(y)' => Ordered(y)
    BY <1>0, <1>2 DEF Ordered, Changes
  <2> QED
    BY <1>2, <1>5, <2>3, <2>4 DEF InstantInv, RuleWhenNeeded
<1>12. MakesTheFirst'
  <2> SUFFICES ASSUME admin = 0, NEW y \in Edits, edit'[y].pc = "synced", edit'[y].rule = {},
                      enabled_numbers(edit'[y].new) # {}
               PROVE  Changes(y)' /\ namesakes' = {}
    BY <1>0 DEF MakesTheFirst, enabled_numbers
  <2>1. y # x
    BY <1>2
  <2>2. Changes(y) /\ namesakes = {}
    BY <1>2, <2>1 DEF InstantInv, MakesTheFirst
  <2>3. ~Changes(x)
    BY <1>2, <1>7, <2>1, <2>2 DEF Writes
  <2>4. edit[x].rule = {}
    BY <2>2 DEF InstantInv, RuleWhenNeeded
  <2>5. namesakes' = namesakes
    BY <1>1, <1>9, <2>3, <2>4
  <2> QED
    BY <1>2, <2>1, <2>2, <2>5 DEF Changes
<1>13. RuleIsCurrent'
  <2> SUFFICES ASSUME admin = 0, ~unlocked'
               PROVE  /\ \A y \in Edits : edit'[y].pc = "synced" /\ Changes(y)' => edit'[y].rule = namesakes'
                      /\ \A r \in namesakes' : r.told = enabled_numbers(contacts')
    BY <1>0 DEF RuleIsCurrent, enabled_numbers
  <2>0. /\ ~unlocked
        /\ \A y \in Edits : edit[y].pc = "synced" /\ Changes(y) => edit[y].rule = namesakes
        /\ \A r \in namesakes : r.told = enabled_numbers(contacts)
    BY <1>5 DEF InstantInv, RuleIsCurrent
  <2>1. CASE Changes(x)
    <3>1. edit[x].rule = namesakes /\ contacts' = edit[x].new
      BY <1>0, <2>0, <2>1
    <3>2. \A y \in Edits : ~(edit'[y].pc = "synced" /\ Changes(y)')
      BY <1>2, <1>7, <2>1 DEF Writes, Changes
    <3>3. \A r \in namesakes' : r.told = told
      <4>1. ASSUME NEW r \in edit[x].rule, namesakes' = Rewritten(r, told)
            PROVE  \A p \in namesakes' : p.told = told
        <5>1. namesakes = {r}
          BY <3>1, <4>1 DEF InstantInv, OneRule
        <5> QED
          BY <1>4, <4>1, <5>1, RewrittenSafe DEF InstantInv
      <4> QED
        BY <1>1, <1>3, <1>9, <3>1, <4>1
    <3> QED
      BY <3>1, <3>2, <3>3 DEF told
  <2>2. CASE ~Changes(x)
    <3>1. namesakes' = namesakes
      <4>1. ASSUME NEW r \in edit[x].rule, Synced(r, told) = r PROVE Rewritten(r, told) = namesakes
        BY <1>4, <4>1, RewrittenSafe DEF InstantInv
      <4> QED
        BY <1>1, <2>2, <4>1
    <3>2. contacts' = contacts
      BY <1>0, <2>2
    <3> QED
      BY <1>2, <2>0, <3>1, <3>2 DEF Changes
  <2> QED
    BY <2>1, <2>2
<1> QED
  BY <1>6, <1>8, <1>10, <1>11, <1>12, <1>13 DEF InstantInv

\* From an admin's first deletion or restoration on nothing is promised of the rule.
LEMMA AdminIsSafe ==
  ASSUME InstantInv, NEW r \in namesakes, NEW on \in BOOLEAN, admin' = admin + 1,
         namesakes' = (namesakes \ {r}) \cup {[r EXCEPT !.live = on]},
         UNCHANGED <<contacts, edit, holder, unlocked>>
  PROVE  InstantInv'
<1>1. admin \in Nat /\ admin' # 0 /\ admin' \in Nat
  BY DEF InstantInv, InstantTypes
<1>2. \A q \in namesakes' : IsRule(q)
  BY DEF InstantInv, InstantTypes, IsRule
<1>3. InstantTypes'
  BY <1>1, <1>2 DEF InstantInv, InstantTypes, MayBeStored, IsEdit, IsRule
<1>4. LockHeld'
  BY DEF InstantInv, LockHeld, Writes, Changes
<1> QED
  BY <1>1, <1>3, <1>4 DEF InstantInv, OneRule, RuleWhenNeeded, MakesTheFirst, RuleIsCurrent

\* Every step keeps the invariant.
LEMMA InstantStep ==
  ASSUME InstantInv, [InstantNext]_instantVars
  PROVE  InstantInv'
<1>0. InstantTypes
  BY DEF InstantInv
<1>1. ASSUME NEW x \in Edits, NEW n \in Numbers, add_contact(x, n) PROVE InstantInv'
  BY <1>0, <1>1, AddIsStorable, DecideIsSafe DEF add_contact
<1>2. ASSUME NEW x \in Edits, NEW c \in contacts, delete_contact(x, c) PROVE InstantInv'
  BY <1>0, <1>2, DeleteIsStorable, DecideIsSafe DEF delete_contact
<1>3. ASSUME NEW x \in Edits, NEW c \in contacts, NEW n \in Numbers, NEW on \in BOOLEAN,
             update_contact(x, c, n, on)
      PROVE  InstantInv'
  BY <1>0, <1>3, UpdateIsStorable, DecideIsSafe DEF update_contact
<1>4. ASSUME NEW r \in namesakes, delete_rule(r) \/ restore_rule(r) PROVE InstantInv'
  BY <1>4, AdminIsSafe DEF delete_rule, restore_rule
<1>5. ASSUME UNCHANGED instantVars PROVE InstantInv'
  BY <1>5 DEF instantVars, InstantInv, InstantTypes, MayBeStored, IsEdit, IsRule, LockHeld, Writes, Changes,
              OneRule, RuleWhenNeeded, Ordered, MakesTheFirst, RuleIsCurrent
<1> QED
  BY <1>1, <1>2, <1>3, <1>4, <1>5, ContactFlushIsSafe, RuleReadIsSafe, RuleCommitIsSafe DEF InstantNext

(***************************************************************************)
(* However contact requests overlap, the stored contacts are few and       *)
(* distinct, and until an admin touches the rule it is one and tells       *)
(* exactly the enabled numbers, unless a request that changes no contact   *)
(* wrote it without the lock.                                              *)
(***************************************************************************)
THEOREM RulesFollowContacts ==
  InstantInit /\ [][InstantNext]_instantVars => []RuleFollowsContacts
<1>1. InstantInv /\ [InstantNext]_instantVars => InstantInv'
  BY InstantStep
<1> QED
  BY InstantStarts, InstantSound, <1>1, PTL

-----------------------------------------------------------------------------
(* The modules together: a behaviour stays with the one it picked.            *)

controlVars == <<chosen, access, deskOwn, estateOwn, feedOwn, journeyVars, instantVars>>

\* The event desk's reads agree and its work is attributed in every state of its part
\* (api/events.py, services/assistant/tools/read.py).
THEOREM DeskIsSound == Spec => []DeskSound
<1> DEFINE Inv == chosen = "desk" => DeskInv
<1>1. Init => Inv
  BY DeskStarts DEF Init
<1>2. Inv /\ [Next]_controlVars => Inv'
  <2> SUFFICES ASSUME Inv, [Next]_controlVars, chosen' = "desk" PROVE DeskInv'
    OBVIOUS
  <2>1. chosen = "desk"
    BY DEF Next, controlVars
  <2>2. [DeskNext]_deskVars
    BY <2>1 DEF Next, controlVars, deskVars, deskOwn
  <2> QED
    BY <2>1, <2>2, DeskStep
<1>3. Inv => DeskSound
  BY ReadsDoAgree, ToolsListTheSame DEF DeskSound, DeskHolds, DeskInv
<1> QED
  BY <1>1, <1>2, <1>3, PTL DEF Spec, controlVars

\* What is shown of the estate agrees in every state of its part (api/sites.py,
\* cameras.py, fleet.py, digests.py, tools/read.py).
THEOREM EstateIsSound == Spec => []EstateSound
<1> DEFINE Inv == chosen = "estate" => EstateInv
<1>1. Init => Inv
  BY EstateStarts DEF Init
<1>2. Inv /\ [Next]_controlVars => Inv'
  <2> SUFFICES ASSUME Inv, [Next]_controlVars, chosen' = "estate" PROVE EstateInv'
    OBVIOUS
  <2>1. chosen = "estate"
    BY DEF Next, controlVars
  <2>2. [EstateNext]_estateVars
    BY <2>1 DEF Next, controlVars, estateVars, estateOwn
  <2> QED
    BY <2>1, <2>2, EstateStep
<1>3. Inv => EstateSound
  BY ToolsAgree, CoverageAgrees, DigestsRead DEF EstateSound, EstateAgrees
<1> QED
  BY <1>1, <1>2, <1>3, PTL DEF Spec, controlVars
=============================================================================
