------------------------------- MODULE LiveFeed -------------------------------
(***************************************************************************)
(* The live event feed of one backend process (app/ws/events.py): sockets  *)
(* register under their organisation with the site scope read as they      *)
(* connect, and a broadcast walks the organisation's list, awaiting each   *)
(* send.  A disconnect replaces the list; a walk under way goes on over    *)
(* the list it began with, which connects still extend only while it is    *)
(* the registered one.                                                     *)
(***************************************************************************)
EXTENDS Scope, Sequences

CONSTANTS Sockets,      \* websocket connections, each used once
          WhoOf,        \* the account whose session opens a socket
          Casts         \* broadcasts, each of one payload

\* "all", the room of the super admins, is no organisation's id.
ASSUME FeedAssumption ==
    /\ WhoOf \in [Sockets -> People]
    /\ \A u \in People : HomeOrg[u] # "all"

VARIABLES socket,       \* Sockets -> "new" | "scoped" | "open" | "broken" | "closed"
          scope,        \* Subscriber.site_ids of a socket
          connections,  \* org_id -> list of registered sockets
          cast,         \* Casts -> [pc, org, room, site, list, own, dead]
          got,          \* got[s] : payloads a socket was sent, in order
          watched       \* sockets open since a broadcast began

feedVars == <<access, socket, scope, connections, cast, got, watched>>

Rooms == {"all"} \cup {HomeOrg[u] : u \in People}
RoomOf(s) == IF IsSuper(WhoOf[s]) THEN "all" ELSE HomeOrg[WhoOf[s]]

Quiet == [pc |-> "new", org |-> "all", room |-> "all", site |-> Nowhere, list |-> <<>>, own |-> FALSE, dead |-> {}]

FeedInit ==
    /\ ScopeInit
    /\ socket = [s \in Sockets |-> "new"] /\ scope = [s \in Sockets |-> {}]
    /\ connections = [r \in Rooms |-> <<>>]
    /\ cast = [b \in Casts |-> Quiet]
    /\ got = [s \in Sockets |-> <<>>] /\ watched = [b \in Casts |-> {}]

\* _load_site_scope: an unknown account sees nothing, a failing lookup closes the socket.
LoadScope(s) ==
    /\ socket[s] = "new"
    /\ \/ /\ socket' = [socket EXCEPT ![s] = "scoped"]
          /\ \E known \in BOOLEAN :
                scope' = [scope EXCEPT ![s] = IF known \/ IsSuper(WhoOf[s])
                                              THEN permitted_site_ids(WhoOf[s]) ELSE {}]
       \/ ~IsSuper(WhoOf[s]) /\ socket' = [socket EXCEPT ![s] = "closed"] /\ UNCHANGED scope
    /\ UNCHANGED <<access, connections, cast, got, watched>>

\* connect: once accepted the subscriber is appended to the registered list.
connect(s) ==
    /\ socket[s] = "scoped"
    /\ socket' = [socket EXCEPT ![s] = "open"]
    /\ connections' = [connections EXCEPT ![RoomOf(s)] = Append(@, s)]
    /\ cast' = [b \in Casts |-> IF cast[b].own /\ cast[b].room = RoomOf(s)
                                THEN [cast[b] EXCEPT !.list = Append(@, s)] ELSE cast[b]]
    /\ UNCHANGED <<access, scope, got, watched>>

\* The client goes away; sends fail from here on.
Break(s) ==
    /\ socket[s] = "open" /\ socket' = [socket EXCEPT ![s] = "broken"]
    /\ watched' = [b \in Casts |-> watched[b] \ {s}]
    /\ UNCHANGED <<access, scope, connections, cast, got>>

\* disconnect: a new list without the sockets, so walks keep the old one.
Without(list, gone) ==
    LET kept[i \in 0..Len(list)] == IF i = 0 THEN <<>>
                                    ELSE IF list[i] \in gone THEN kept[i - 1] ELSE Append(kept[i - 1], list[i])
    IN  kept[Len(list)]
Disown(casts, room) == [b \in Casts |-> IF casts[b].room = room THEN [casts[b] EXCEPT !.own = FALSE] ELSE casts[b]]

disconnect(s) ==   \* WebSocketDisconnect in the receive loop
    /\ socket[s] = "broken" /\ socket' = [socket EXCEPT ![s] = "closed"]
    /\ connections' = [connections EXCEPT ![RoomOf(s)] = Without(@, {s})]
    /\ cast' = Disown(cast, RoomOf(s))
    /\ UNCHANGED <<access, scope, got, watched>>

\* A walk begins over the list registered for a room.
Walk(org, site, room) == [pc |-> "walk", org |-> org, room |-> room, site |-> site, dead |-> {}, own |-> TRUE,
                             list |-> connections[room]]
OpenIn(room) == {s \in Sockets : socket[s] = "open" /\ RoomOf(s) = room}

\* A payload names the site of its event, or no event at all ("digest.ready").
broadcast_to_org(b, org, site) ==
    /\ cast[b].pc = "new"
    /\ cast' = [cast EXCEPT ![b] = Walk(org, site, org)]
    /\ watched' = [watched EXCEPT ![b] = OpenIn(org)]
    /\ UNCHANGED <<access, socket, scope, connections, got>>

\* None is every site and payloads of none; otherwise an unattributed message is withheld.
may_see(s, site) == site \in scope[s]

\* One round of the loop: the next subscriber of the walked list.
Send(b) ==
    /\ cast[b].pc = "walk" /\ cast[b].list # <<>>
    /\ LET s == Head(cast[b].list)
           rest == [cast[b] EXCEPT !.list = Tail(@)]
       IN  IF ~may_see(s, cast[b].site)
           THEN cast' = [cast EXCEPT ![b] = rest] /\ UNCHANGED got
           ELSE IF socket[s] = "open"
           THEN cast' = [cast EXCEPT ![b] = rest] /\ got' = [got EXCEPT ![s] = Append(@, b)]
           ELSE cast' = [cast EXCEPT ![b] = [rest EXCEPT !.dead = @ \cup {s}]] /\ UNCHANGED got
    /\ UNCHANGED <<access, socket, scope, connections, watched>>

\* The dead are taken from the list registered by then.
ReachedBy(b) == Without(connections[cast[b].room], cast[b].dead \cup (Sockets \ watched[b]))
DropDead(b) == Without(connections[cast[b].room], cast[b].dead)

EndWalk(b) ==
    /\ cast[b].pc = "walk" /\ cast[b].list = <<>>
    /\ connections' = [connections EXCEPT ![cast[b].room] = DropDead(b)]
    /\ LET ended == [cast EXCEPT ![b].pc = "walked", ![b].own = FALSE]
       IN  cast' = IF cast[b].dead = {} THEN ended ELSE Disown(ended, cast[b].room)
    /\ UNCHANGED <<access, socket, scope, got, watched>>

\* ingest_event sends an event to "all" as well, digests do not.
BroadcastToAll(b) ==
    /\ cast[b].pc = "walked" /\ cast[b].room # "all" /\ cast[b].site # Nowhere
    /\ cast' = [cast EXCEPT ![b] = Walk(@.org, @.site, "all")]
    /\ watched' = [watched EXCEPT ![b] = @ \cup OpenIn("all")]
    /\ UNCHANGED <<access, socket, scope, connections, got>>

FeedNext ==
    \/ \E s \in Sockets : LoadScope(s) \/ connect(s) \/ Break(s) \/ disconnect(s)
    \/ \E b \in Casts : \/ Send(b) \/ EndWalk(b) \/ BroadcastToAll(b)
                        \/ \E org \in Rooms \ {"all"} :
                              \E site \in {p \in Premises : OwnerOf[p] = org} \cup {Nowhere} :
                                 broadcast_to_org(b, org, site)

-----------------------------------------------------------------------------
(* Properties.                                                                *)

\* A socket is sent a payload at most once, only of its own organisation, and, if its
\* account is restricted, only of a site within the restriction.
SentInScope ==
    \A s \in Sockets :
       /\ Cardinality({got[s][i] : i \in DOMAIN got[s]}) = Len(got[s])
       /\ \A i \in DOMAIN got[s] :
             LET c == cast[got[s][i]] IN
             /\ IsSuper(WhoOf[s]) \/ c.org = HomeOrg[WhoOf[s]]
             /\ IsSuper(WhoOf[s]) \/ access[WhoOf[s]] = {} \/ c.site \in access[WhoOf[s]]

\* However connects, disconnects and other broadcasts interleave with a walk, an open
\* socket stays registered, and one that was open all along has got what it may see.
NobodyForgotten ==
    /\ \A s \in Sockets : socket[s] = "open" =>
          \E i \in DOMAIN connections[RoomOf(s)] : connections[RoomOf(s)][i] = s
    /\ \A b \in Casts : cast[b].pc = "walked" =>
          \A s \in watched[b] : cast[b].site \in scope[s] => \E i \in DOMAIN got[s] : got[s][i] = b

FeedHolds == SentInScope /\ NobodyForgotten
=============================================================================
