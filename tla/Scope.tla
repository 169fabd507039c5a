-------------------------------- MODULE Scope --------------------------------
(***************************************************************************)
(* Who may see which rows (app/core/dependencies.py): the organisation of  *)
(* a row, the site restriction of a person, the level of a role.  Every    *)
(* list of the dashboard, every tool of the assistant and the live feed    *)
(* build on these filters, each in a query of its own.                     *)
(***************************************************************************)
EXTENDS Integers, FiniteSets

CONSTANTS People, Premises,   \* accounts; sites of all organisations
          RoleOf,             \* role of an account, as written at its creation
          HomeOrg,            \* organisation of an account
          OwnerOf             \* organisation of a site

VARIABLE access               \* users.sites_access; {} is no restriction

ScopeInit == access \in [People -> SUBSET Premises]

ROLE_LEVELS == [super_admin |-> 100, owner |-> 80, admin |-> 60, operator |-> 40, viewer |-> 20]

Requires(u, minimum) == ROLE_LEVELS[RoleOf[u]] >= ROLE_LEVELS[minimum]

IsSuper(u) == RoleOf[u] = "super_admin"

Nowhere == "no site"

\* Names of organisations, sites and people stand for uuids.
ASSUME ScopeAssumption ==
    /\ Nowhere \notin Premises \cup People
    /\ \A u \in People : HomeOrg[u] # Nowhere

\* None, "apply no filter", is every value a site_id column may have; a filter with
\* IN drops the rows whose site_id is NULL.
permitted_site_ids(u) ==
    IF IsSuper(u) \/ access[u] = {} THEN Premises \cup {Nowhere} ELSE access[u]

scope_to_sites(rows, u) == {r \in rows : r.site \in permitted_site_ids(u)}

\* The organisation filter of the routes, and the one of the assistant's tools.
OrgRows(rows, u) == IF IsSuper(u) THEN rows ELSE {r \in rows : r.org = HomeOrg[u]}
OwnRows(rows, u) == {r \in rows : r.org = HomeOrg[u]}
=============================================================================
