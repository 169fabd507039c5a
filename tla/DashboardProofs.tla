--------------------------- MODULE DashboardProofs ---------------------------
(***************************************************************************)
(* What people use, for any number of them: login sessions, the guards of  *)
(* the login, soft deletion, stored conversations, proposals and digests.  *)
(* None of the invariants is inductive: each needs to know what a request  *)
(* that is between two commands, or between its read and its commit, or a  *)
(* job that waits for its turn, has in hand.                               *)
(***************************************************************************)
EXTENDS Sessions, LoginGuards, Records, Conversations, Proposals, Digests,
        FiniteSetTheorems, TLAPS

-----------------------------------------------------------------------------
(***************************************************************************)
(* Sessions.  Both halves of SessionsSafe need what a request knows while  *)
(* it is between two Redis commands.                                       *)
(***************************************************************************)
SessionRecord == [user : Users, created : Nat, active : Nat, deadline : Nat]

Types ==
    /\ clock \in Nat
    /\ session \in [Sids -> {NoKey} \cup SessionRecord]
    /\ index \in [Users -> [sids : SUBSET Sids, deadline : Nat]]
    /\ DOMAIN call = Requests
    /\ \A s \in Sids : session[s] # NoKey => session[s].created <= clock

\* What a request knows while it is between two commands.
Known(x) ==
    /\ x.at \in {"track", "touch", "load", "drop", "delete"} => x.sid \in Sids
    /\ x.at \in {"mint", "track", "load", "list", "sweep"} => x.user \in Users
    /\ x.at = "track" =>
          /\ session[x.sid] = NoKey => x.sid \in ended
          /\ session[x.sid] # NoKey /\ x.sid \notin strays => session[x.sid].user = x.user
    /\ x.at = "touch" =>
          /\ x.read \in SessionRecord /\ x.read # NoKey /\ x.when \in Nat /\ x.read.created <= x.when
          /\ x.when <= clock
          /\ session[x.sid] = NoKey => x.sid \in ended /\ x.sid \in strays
          /\ session[x.sid] # NoKey /\ x.sid \notin strays =>
                session[x.sid].user = x.read.user /\ session[x.sid].created = x.read.created
    /\ x.at = "sweep" => x.listed \subseteq Sids /\ x.listed \ x.left \subseteq ended

CallsKnown == \A r \in Requests : Known(call[r])

Gone == ended \subseteq Sids /\ \A s \in ended : s \notin strays => session[s] = NoKey

\* A session that nobody is about to track or to delete, within its maximal lifetime.
Settled(s) ==
    /\ session[s] # NoKey /\ clock < session[s].created + MaxTTL /\ s \notin strays
    /\ \A r \in Requests : call[r].at \in {"track", "delete"} => call[r].sid # s

Covered ==
    \A s \in Sids : Settled(s) =>
        /\ s \in index[session[s].user].sids
        /\ index[session[s].user].deadline >= session[s].created + MaxTTL

SessionsInv == Types /\ CallsKnown /\ Gone /\ Covered

-----------------------------------------------------------------------------
LEMMA Constants == IdleTTL \in Nat /\ MaxTTL \in Nat
BY SessionsAssumption

LEMMA Records ==
    ASSUME NEW x \in SessionRecord
    PROVE  x # NoKey /\ x.user \in Users /\ x.created \in Nat /\ x.active \in Nat /\ x.deadline \in Nat
BY DEF SessionRecord, NoKey

LEMMA SessionsInit_Inv == SessionsInit => SessionsInv
<1> SUFFICES ASSUME SessionsInit PROVE SessionsInv
  OBVIOUS
<1>1. Types
  BY DEF SessionsInit, Types
<1>2. CallsKnown
  BY DEF SessionsInit, CallsKnown, Known, Idle
<1>3. Gone /\ Covered
  BY DEF SessionsInit, Gone, Covered, Settled
<1>4. QED BY <1>1, <1>2, <1>3 DEF SessionsInv

\* A request that moves on and writes nothing.
LEMMA MovesOn ==
    ASSUME SessionsInv, NEW r \in Requests, NEW x, Goto(r, x), Known(x),
           UNCHANGED <<clock, session, index, ended, strays>>,
           call[r].at \notin {"track", "delete"}
    PROVE  SessionsInv'
<1>1. Types' /\ Gone'
  BY DEF SessionsInv, Types, Gone, Goto
<1>2. call'[r] = x /\ \A q \in Requests : q # r => call'[q] = call[q]
  BY DEF SessionsInv, Types, Goto
<1>3. CallsKnown'
  <2>1. \A q \in Requests : Known(call'[q])
    BY <1>2 DEF SessionsInv, CallsKnown
  <2>2. QED BY <2>1 DEF CallsKnown, Known
<1>4. Covered'
  <2>1. \A s \in Sids : Settled(s)' => Settled(s)
    BY <1>2 DEF Settled
  <2>2. QED BY <2>1 DEF SessionsInv, Covered
<1>5. QED BY <1>1, <1>3, <1>4 DEF SessionsInv

LEMMA Nothing ==
    ASSUME SessionsInv, UNCHANGED <<clock, session, index, call, ended, strays>>
    PROVE  SessionsInv'
BY DEF SessionsInv, Types, CallsKnown, Known, Gone, Covered, Settled

LEMMA PassTime_Inv == ASSUME SessionsInv, PassTime PROVE SessionsInv'
<1>1. clock' = clock + 1 /\ clock \in Nat /\ UNCHANGED <<session, index, call, ended, strays>>
  BY DEF PassTime, SessionsInv, Types
<1>2. \A s \in Sids : session[s] # NoKey => session[s].created \in Nat
  BY Records DEF SessionsInv, Types
<1>3. Types'
  BY <1>1, <1>2 DEF SessionsInv, Types
<1>4. CallsKnown'
  <2>1. ASSUME NEW r \in Requests PROVE Known(call[r])'
    <3>1. Known(call[r])
      BY DEF SessionsInv, CallsKnown
    <3>2. call[r].at = "touch" => call[r].when <= clock'
      BY <1>1, <3>1 DEF Known
    <3>3. QED BY <1>1, <3>1, <3>2 DEF Known
  <2>2. QED BY <1>1, <2>1 DEF CallsKnown
<1>5. Gone'
  BY <1>1 DEF SessionsInv, Gone
<1>6. Covered'
  <2>1. \A s \in Sids : Settled(s)' => Settled(s)
    BY <1>1, <1>2, Constants DEF Settled
  <2>2. QED BY <1>1, <2>1 DEF SessionsInv, Covered
<1>7. QED BY <1>3, <1>4, <1>5, <1>6 DEF SessionsInv

LEMMA MintSession_Inv ==
    ASSUME SessionsInv, NEW r \in Requests, NEW s \in Sids, MintSession(r, s) PROVE SessionsInv'
<1>1. PICK u : u = call[r].user
  OBVIOUS
<1>2. PICK x : x = [user |-> u, created |-> clock, active |-> clock, deadline |-> clock + MaxTTL]
  OBVIOUS
<1>3. /\ call[r].at = "mint" /\ session[s] = NoKey /\ s \notin ended
      /\ session' = [session EXCEPT ![s] = x]
      /\ UNCHANGED <<clock, index, ended, strays>>
  BY <1>1, <1>2 DEF MintSession, Unused
<1>4. /\ \A q \in Requests : q # r => call'[q] = call[q]
      /\ call'[r].at = "track" /\ call'[r].user = u /\ call'[r].sid = s
      /\ DOMAIN call' = Requests
  BY <1>1 DEF MintSession, Goto, SessionsInv, Types
<1>5. u \in Users /\ x \in SessionRecord /\ x # NoKey /\ x.user = u /\ x.created = clock /\ clock \in Nat
  <2>1. u \in Users /\ clock \in Nat
    BY <1>1, <1>3 DEF SessionsInv, Types, CallsKnown, Known
  <2>2. x \in SessionRecord
    BY <1>2, <2>1, Constants DEF SessionRecord
  <2>3. QED BY <1>2, <2>1, <2>2, Records
<1>6. /\ session'[s] = x /\ \A k \in Sids : k # s => session'[k] = session[k]
      /\ session' \in [Sids -> {NoKey} \cup SessionRecord]
  BY <1>3, <1>5 DEF SessionsInv, Types
<1>7. Types'
  BY <1>3, <1>4, <1>5, <1>6 DEF SessionsInv, Types
<1>8. CallsKnown'
  <2>1. Known(call[r])'
    BY <1>3, <1>4, <1>5, <1>6 DEF Known
  <2>2. ASSUME NEW q \in Requests, q # r PROVE Known(call[q])'
    <3>1. Known(call[q])
      BY DEF SessionsInv, CallsKnown
    <3>2. call[q].at \in {"track", "touch"} => call[q].sid \in Sids /\ call[q].sid # s
      BY <1>3, <3>1 DEF Known
    <3>3. QED BY <1>3, <1>4, <1>6, <2>2, <3>1, <3>2 DEF Known
  <2>3. QED BY <2>1, <2>2 DEF CallsKnown
<1>9. Gone'
  BY <1>3, <1>6 DEF SessionsInv, Gone
<1>10. Covered'
  <2>1. ASSUME NEW k \in Sids, Settled(k)' PROVE k # s /\ Settled(k)
    <3>1. k # s
      BY <1>4, <2>1 DEF Settled
    <3>2. QED BY <1>3, <1>4, <1>6, <2>1, <3>1 DEF Settled
  <2>2. QED BY <1>3, <1>6, <2>1 DEF SessionsInv, Covered
<1>11. QED BY <1>7, <1>8, <1>9, <1>10 DEF SessionsInv

\* The index takes the session in; what it drops has outlived its lifetime.
LEMMA TrackSession_Inv ==
    ASSUME SessionsInv, NEW r \in Requests, TrackSession(r) PROVE SessionsInv'
<1>1. PICK u : u = call[r].user
  OBVIOUS
<1>2. PICK s : s = call[r].sid
  OBVIOUS
<1>3. /\ call[r].at = "track"
      /\ index' = [index EXCEPT ![u] = [sids |-> Tracked(u) \cup {s}, deadline |-> clock + MaxTTL]]
      /\ UNCHANGED <<clock, session, ended, strays>>
  BY <1>1, <1>2 DEF TrackSession
<1>4. /\ \A q \in Requests : q # r => call'[q] = call[q]
      /\ call'[r] = Idle /\ call'[r].at = "idle" /\ DOMAIN call' = Requests
  BY DEF TrackSession, Goto, SessionsInv, Types, Idle
<1>5. /\ u \in Users /\ s \in Sids /\ clock \in Nat
      /\ session[s] # NoKey => session[s].created <= clock /\ session[s].created \in Nat
      /\ session[s] # NoKey /\ s \notin strays => session[s].user = u
  BY <1>1, <1>2, <1>3, Records DEF SessionsInv, Types, CallsKnown, Known
<1>6. Tracked(u) \in SUBSET Sids
  BY <1>5 DEF SessionsInv, Types, Tracked
<1>7. /\ index'[u].sids = Tracked(u) \cup {s} /\ index'[u].deadline = clock + MaxTTL
      /\ \A v \in Users : v # u => index'[v] = index[v]
      /\ index' \in [Users -> [sids : SUBSET Sids, deadline : Nat]]
  <2>1. [sids |-> Tracked(u) \cup {s}, deadline |-> clock + MaxTTL] \in [sids : SUBSET Sids, deadline : Nat]
    BY <1>5, <1>6, Constants
  <2>2. QED BY <1>3, <1>5, <2>1 DEF SessionsInv, Types
<1>8. Types'
  BY <1>3, <1>4, <1>7 DEF SessionsInv, Types
<1>9. CallsKnown'
  <2>1. \A q \in Requests : q # r => Known(call[q])'
    BY <1>3, <1>4 DEF SessionsInv, CallsKnown, Known
  <2>2. Known(call[r])'
    BY <1>4 DEF Known
  <2>3. QED BY <2>1, <2>2 DEF CallsKnown
<1>10. Gone'
  BY <1>3 DEF SessionsInv, Gone
<1>11. Covered'
  <2> SUFFICES ASSUME NEW k \in Sids, Settled(k)'
               PROVE  /\ k \in index'[session[k].user].sids
                      /\ index'[session[k].user].deadline >= session[k].created + MaxTTL
    BY <1>3 DEF Covered
  <2>1. session[k] # NoKey /\ clock < session[k].created + MaxTTL /\ session[k].created \in Nat
        /\ session[k].user \in Users /\ session[k].created <= clock
    BY <1>3, Records DEF Settled, SessionsInv, Types
  <2>2. CASE k = s
    BY <1>3, <1>5, <1>7, <2>1, <2>2, Constants DEF Settled
  <2>3. CASE k # s
    <3>1. Settled(k)
      BY <1>2, <1>3, <1>4, <2>3 DEF Settled
    <3>2. /\ k \in index[session[k].user].sids
          /\ index[session[k].user].deadline >= session[k].created + MaxTTL
      BY <3>1 DEF SessionsInv, Covered
    <3>3. CASE session[k].user = u
      <4>1. index[u].deadline \in Nat
        BY <1>5 DEF SessionsInv, Types
      <4>2. clock < index[u].deadline
        BY <1>5, <2>1, <3>2, <3>3, <4>1, Constants
      <4>3. k \in Tracked(u)
        BY <3>2, <3>3, <4>2 DEF Tracked
      <4>4. QED BY <1>5, <1>7, <2>1, <3>3, <4>3, Constants
    <3>4. CASE session[k].user # u
      BY <1>7, <2>1, <3>2, <3>4
    <3>5. QED BY <3>3, <3>4
  <2>4. QED BY <2>2, <2>3
<1>12. QED BY <1>8, <1>9, <1>10, <1>11 DEF SessionsInv

\* What is written back is what was read, unless a revocation came in between.
LEMMA TouchSession_Inv ==
    ASSUME SessionsInv, NEW r \in Requests, TouchSession(r) PROVE SessionsInv'
<1>1. PICK s : s = call[r].sid
  OBVIOUS
<1>2. PICK x : x = call[r].read
  OBVIOUS
<1>3. PICK when : when = call[r].when
  OBVIOUS
<1>4. PICK left : left = MaxTTL - (when - x.created)
  OBVIOUS
<1>5. PICK y : y = [x EXCEPT !.active = when, !.deadline = clock + left]
  OBVIOUS
<1>6. /\ call[r].at = "touch"
      /\ session' = IF left <= 0 THEN session ELSE [session EXCEPT ![s] = y]
      /\ Goto(r, [at |-> "load", sid |-> s, user |-> x.user])
      /\ UNCHANGED <<clock, index, ended, strays>>
  BY <1>1, <1>2, <1>3, <1>4, <1>5 DEF TouchSession
<1>7. /\ s \in Sids /\ x \in SessionRecord /\ when \in Nat /\ x.created <= when /\ when <= clock
      /\ session[s] = NoKey => s \in ended /\ s \in strays
      /\ session[s] # NoKey /\ s \notin strays =>
            session[s].user = x.user /\ session[s].created = x.created
  BY <1>1, <1>2, <1>3, <1>6 DEF SessionsInv, CallsKnown, Known
<1>8. x.user \in Users /\ x.created \in Nat /\ left \in Int /\ clock \in Nat
  BY <1>4, <1>7, Records, Constants DEF SessionsInv, Types
<1>9. ASSUME left > 0 PROVE y \in SessionRecord /\ y # NoKey /\ y.user = x.user /\ y.created = x.created
  <2>1. clock + left \in Nat
    BY <1>8, <1>9
  <2>2. y \in SessionRecord
    BY <1>5, <1>7, <2>1 DEF SessionRecord
  <2>3. y.user = x.user /\ y.created = x.created
    BY <1>5, <1>7 DEF SessionRecord
  <2>4. QED BY <2>2, <2>3, Records
<1>10. /\ \A q \in Requests : q # r => call'[q] = call[q]
       /\ call'[r].at = "load" /\ call'[r].sid = s /\ call'[r].user = x.user
       /\ DOMAIN call' = Requests
  BY <1>6 DEF Goto, SessionsInv, Types
<1>11. \/ session' = session
       \/ /\ session'[s] # NoKey /\ session'[s].user = x.user /\ session'[s].created = x.created
          /\ \A k \in Sids : k # s => session'[k] = session[k]
          /\ session' \in [Sids -> {NoKey} \cup SessionRecord]
  <2>1. CASE left <= 0
    BY <1>6, <2>1
  <2>2. CASE left > 0
    <3>1. session' = [session EXCEPT ![s] = y]
      BY <1>6, <1>8, <2>2
    <3>2. QED BY <1>7, <1>9, <2>2, <3>1 DEF SessionsInv, Types
  <2>3. QED BY <1>8, <2>1, <2>2
<1>12. \A k \in Sids :
          /\ session[k] # NoKey => session'[k] # NoKey
          /\ session[k] # NoKey /\ k \notin strays =>
                session'[k].user = session[k].user /\ session'[k].created = session[k].created
          /\ session[k] = NoKey /\ session'[k] # NoKey => k \in ended /\ k \in strays
  BY <1>7, <1>11
<1>13. Types'
  <2>1. x.created <= clock
    BY <1>7, <1>8
  <2>2. QED BY <1>6, <1>10, <1>11, <2>1 DEF SessionsInv, Types
<1>14. CallsKnown'
  <2>1. Known(call[r])'
    BY <1>7, <1>8, <1>10 DEF Known
  <2>2. ASSUME NEW q \in Requests, q # r PROVE Known(call[q])'
    <3>1. Known(call[q])
      BY DEF SessionsInv, CallsKnown
    <3>2. call[q].at \in {"track", "touch"} => call[q].sid \in Sids
      BY <3>1 DEF Known
    <3>3. QED BY <1>6, <1>10, <1>12, <2>2, <3>1, <3>2 DEF Known
  <2>3. QED BY <2>1, <2>2 DEF CallsKnown
<1>15. Gone'
  BY <1>6, <1>12 DEF SessionsInv, Gone
<1>16. Covered'
  <2> SUFFICES ASSUME NEW k \in Sids, Settled(k)'
               PROVE  /\ k \in index[session'[k].user].sids
                      /\ index[session'[k].user].deadline >= session'[k].created + MaxTTL
    BY <1>6 DEF Covered
  <2>1. /\ session'[k] # NoKey /\ clock < session'[k].created + MaxTTL /\ k \notin strays
        /\ \A q \in Requests : call'[q].at \in {"track", "delete"} => call'[q].sid # k
    BY <1>6 DEF Settled
  <2>2. session[k] # NoKey
    BY <1>12, <2>1
  <2>3. session'[k].user = session[k].user /\ session'[k].created = session[k].created
    BY <1>12, <2>1, <2>2
  <2>4. \A q \in Requests : call[q].at \in {"track", "delete"} => call[q].sid # k
    BY <1>6, <1>10, <2>1
  <2>5. Settled(k)
    BY <2>1, <2>2, <2>3, <2>4 DEF Settled
  <2>6. QED BY <2>3, <2>5 DEF SessionsInv, Covered
<1>17. QED BY <1>13, <1>14, <1>15, <1>16 DEF SessionsInv

\* A logout takes the session out of the index first, and is then about to delete it.
LEMMA UntrackSession_Inv ==
    ASSUME SessionsInv, NEW r \in Requests, UntrackSession(r) PROVE SessionsInv'
<1>1. PICK s : s = call[r].sid
  OBVIOUS
<1>2. /\ call[r].at = "drop" /\ s \in Sids
      /\ index' = IF ~Held(s) THEN index ELSE [index EXCEPT ![session[s].user].sids = @ \ {s}]
      /\ UNCHANGED <<clock, session, ended, strays>>
  BY <1>1 DEF UntrackSession, SessionsInv, CallsKnown, Known
<1>3. /\ \A q \in Requests : q # r => call'[q] = call[q]
      /\ call'[r].at = "delete" /\ call'[r].sid = s /\ DOMAIN call' = Requests
  BY <1>1 DEF UntrackSession, Goto, SessionsInv, Types
<1>4. /\ index' \in [Users -> [sids : SUBSET Sids, deadline : Nat]]
      /\ \A v \in Users : /\ index'[v].deadline = index[v].deadline
                          /\ \A k \in Sids : k # s /\ k \in index[v].sids => k \in index'[v].sids
  <2>1. CASE ~Held(s)
    BY <1>2, <2>1 DEF SessionsInv, Types
  <2>2. CASE Held(s)
    <3>1. PICK u : u = session[s].user
      OBVIOUS
    <3>2. u \in Users
      BY <1>2, <2>2, <3>1, Records DEF SessionsInv, Types, Held
    <3>3. index' = [index EXCEPT ![u].sids = @ \ {s}]
      BY <1>2, <2>2, <3>1
    <3>4. QED BY <3>2, <3>3 DEF SessionsInv, Types
  <2>3. QED BY <2>1, <2>2
<1>5. Types'
  BY <1>2, <1>3, <1>4 DEF SessionsInv, Types
<1>6. CallsKnown'
  <2>1. \A q \in Requests : q # r => Known(call[q])'
    BY <1>2, <1>3 DEF SessionsInv, CallsKnown, Known
  <2>2. Known(call[r])'
    BY <1>2, <1>3 DEF Known
  <2>3. QED BY <2>1, <2>2 DEF CallsKnown
<1>7. Gone'
  BY <1>2 DEF SessionsInv, Gone
<1>8. Covered'
  <2> SUFFICES ASSUME NEW k \in Sids, Settled(k)'
               PROVE  /\ k \in index'[session[k].user].sids
                      /\ index'[session[k].user].deadline >= session[k].created + MaxTTL
    BY <1>2 DEF Covered
  <2>1. k # s /\ Settled(k)
    BY <1>2, <1>3 DEF Settled
  <2>2. session[k].user \in Users
    BY <2>1, Records DEF Settled, SessionsInv, Types
  <2>3. QED BY <1>4, <2>1, <2>2 DEF SessionsInv, Covered
<1>9. QED BY <1>5, <1>6, <1>7, <1>8 DEF SessionsInv

\* A revocation of one session, whoever asks for it.
LEMMA Revoking ==
    ASSUME SessionsInv, NEW s \in Sids, NEW r \in Requests, Revoked({s}),
           UNCHANGED <<clock, index>>,
           DOMAIN call' = Requests, \A q \in Requests : q # r => call'[q] = call[q],
           Known(call[r])', call'[r].at \notin {"track", "delete"},
           call[r].at \notin {"track", "touch"}, call[r].at = "delete" => call[r].sid = s
    PROVE  SessionsInv'
<1>1. /\ session'[s] = NoKey /\ \A k \in Sids : k # s => session'[k] = session[k]
      /\ session' \in [Sids -> {NoKey} \cup SessionRecord]
      /\ ended' = ended \cup {s} /\ strays \subseteq strays'
  BY DEF Revoked, SessionsInv, Types
<1>2. ASSUME NEW q \in Requests, call[q].at = "touch", call[q].sid = s PROVE s \in strays'
  BY <1>2 DEF Revoked, BeingTouched, Busy
<1>3. Types'
  BY <1>1 DEF SessionsInv, Types
<1>4. CallsKnown'
  <2>1. ASSUME NEW q \in Requests, q # r PROVE Known(call[q])'
    <3>1. Known(call[q])
      BY DEF SessionsInv, CallsKnown
    <3>2. QED BY <1>1, <1>2, <2>1, <3>1 DEF Known
  <2>2. QED BY <2>1 DEF CallsKnown
<1>5. Gone'
  BY <1>1 DEF SessionsInv, Gone
<1>6. Covered'
  <2> SUFFICES ASSUME NEW k \in Sids, Settled(k)' PROVE Settled(k) /\ k # s
    BY <1>1 DEF SessionsInv, Covered
  <2>1. k # s
    BY <1>1 DEF Settled
  <2>2. QED BY <1>1, <2>1 DEF Settled
<1>7. QED BY <1>3, <1>4, <1>5, <1>6 DEF SessionsInv

LEMMA DeleteSession_Inv ==
    ASSUME SessionsInv, NEW r \in Requests, DeleteSession(r) PROVE SessionsInv'
<1>1. PICK s : s = call[r].sid
  OBVIOUS
<1>2. call[r].at = "delete" /\ s \in Sids /\ Revoked({s}) /\ UNCHANGED <<clock, index>>
  BY <1>1 DEF DeleteSession, SessionsInv, CallsKnown, Known
<1>3. /\ \A q \in Requests : q # r => call'[q] = call[q]
      /\ call'[r] = Idle /\ call'[r].at = "idle" /\ DOMAIN call' = Requests
  BY DEF DeleteSession, Goto, SessionsInv, Types, Idle
<1>4. Known(call[r])'
  BY <1>3 DEF Known
<1>5. QED BY <1>1, <1>2, <1>3, <1>4, Revoking

LEMMA SweepSession_Inv ==
    ASSUME SessionsInv, NEW r \in Requests, NEW s \in Sids, SweepSession(r, s) PROVE SessionsInv'
<1>1. PICK x : x = call[r]
  OBVIOUS
<1>2. /\ x.at = "sweep" /\ Revoked({s}) /\ UNCHANGED <<clock, index>>
      /\ call' = [call EXCEPT ![r] = [x EXCEPT !.left = @ \ {s}]]
      /\ ended' = ended \cup {s}
  BY <1>1 DEF SweepSession, Goto, Revoked
<1>3. /\ \A q \in Requests : q # r => call'[q] = call[q]
      /\ call'[r] = [x EXCEPT !.left = @ \ {s}] /\ DOMAIN call' = Requests
  BY <1>2 DEF SessionsInv, Types
<1>4. x.user \in Users /\ x.listed \subseteq Sids /\ x.listed \ x.left \subseteq ended
  BY <1>1, <1>2 DEF SessionsInv, CallsKnown, Known
<1>5. /\ call'[r].at = "sweep" /\ call'[r].user = x.user /\ call'[r].listed = x.listed
      /\ x.left \subseteq call'[r].left \cup {s}
  BY <1>2, <1>3
<1>6. Known(call[r])'
  BY <1>2, <1>4, <1>5 DEF Known
<1>7. QED BY <1>1, <1>2, <1>3, <1>5, <1>6, Revoking

\* The index of the user goes: what it still held was deleted or ran into the revocation.
LEMMA DropIndex_Inv ==
    ASSUME SessionsInv, NEW r \in Requests, DropIndex(r) PROVE SessionsInv'
<1>1. PICK u : u = call[r].user
  OBVIOUS
<1>2. /\ call[r].at = "sweep" /\ call[r].left = {}
      /\ strays' = strays \cup (Tracked(u) \ call[r].listed)
      /\ index' = [index EXCEPT ![u] = [sids |-> {}, deadline |-> 0]]
      /\ UNCHANGED <<clock, session, ended>>
  BY <1>1 DEF DropIndex
<1>3. u \in Users /\ call[r].listed \subseteq ended
  BY <1>1, <1>2 DEF SessionsInv, CallsKnown, Known
<1>4. /\ \A q \in Requests : q # r => call'[q] = call[q]
      /\ call'[r] = Idle /\ call'[r].at = "idle" /\ DOMAIN call' = Requests
  BY DEF DropIndex, Goto, SessionsInv, Types, Idle
<1>5. /\ index' \in [Users -> [sids : SUBSET Sids, deadline : Nat]]
      /\ \A v \in Users : v # u => index'[v] = index[v]
  BY <1>2, <1>3 DEF SessionsInv, Types
<1>6. Types'
  BY <1>2, <1>4, <1>5 DEF SessionsInv, Types
<1>7. CallsKnown'
  <2>1. \A q \in Requests : q # r => Known(call[q])'
    BY <1>2, <1>4 DEF SessionsInv, CallsKnown, Known
  <2>2. Known(call[r])'
    BY <1>4 DEF Known
  <2>3. QED BY <2>1, <2>2 DEF CallsKnown
<1>8. Gone'
  BY <1>2 DEF SessionsInv, Gone
<1>9. Covered'
  <2>1. ASSUME NEW k \in Sids, Settled(k)' PROVE session[k].user # u /\ Settled(k)
    <3>1. Settled(k)
      BY <1>2, <1>4, <2>1 DEF Settled
    <3>2. ASSUME session[k].user = u PROVE FALSE
      <4>1. /\ k \in index[u].sids /\ index[u].deadline >= session[k].created + MaxTTL
            /\ clock < session[k].created + MaxTTL
        BY <3>1, <3>2 DEF SessionsInv, Covered, Settled
      <4>2. index[u].deadline \in Nat /\ clock \in Nat /\ session[k].created \in Nat
        BY <1>3, <3>1, Records DEF SessionsInv, Types, Settled
      <4>3. k \in Tracked(u)
        BY <4>1, <4>2, Constants DEF Tracked
      <4>4. k \in ended /\ k \notin strays /\ session[k] # NoKey
        BY <1>2, <1>3, <2>1, <4>3 DEF Settled
      <4>5. QED BY <4>4 DEF SessionsInv, Gone
    <3>3. QED BY <3>1, <3>2
  <2>2. ASSUME NEW k \in Sids, Settled(k)' PROVE session'[k] = session[k] /\ session[k].user \in Users
    BY <1>2, <2>1, <2>2, Records DEF Settled, SessionsInv, Types
  <2>3. QED BY <1>5, <2>1, <2>2 DEF SessionsInv, Covered
<1>10. QED BY <1>6, <1>7, <1>8, <1>9 DEF SessionsInv

-----------------------------------------------------------------------------
(* The requests that only move on. *)

LEMMA Reads_Inv ==
    ASSUME SessionsInv, NEW r \in Requests, NEW s \in Sids, ReadSession(r, s) PROVE SessionsInv'
<1>1. PICK z : z = session[s]
  OBVIOUS
<1>2. z \in SessionRecord /\ z # NoKey /\ z.created <= clock /\ clock \in Nat
  BY <1>1 DEF ReadSession, Held, SessionsInv, Types
<1>3. call[r].at = "idle" /\ UNCHANGED <<clock, session, index, account, ended, strays>>
  BY DEF ReadSession, Idle
<1>4. CASE TimedOut(z)
  <2>1. Goto(r, [at |-> "drop", sid |-> s])
    BY <1>1, <1>4 DEF ReadSession
  <2>2. Known([at |-> "drop", sid |-> s])
    BY DEF Known
  <2>3. QED BY <1>3, <2>1, <2>2, MovesOn
<1>5. CASE ~TimedOut(z)
  <2>1. PICK x : x = [at |-> "touch", sid |-> s, read |-> z, when |-> clock]
    OBVIOUS
  <2>2. Goto(r, x)
    BY <1>1, <1>5, <2>1 DEF ReadSession
  <2>3. Known(x)
    BY <1>1, <1>2, <2>1 DEF Known
  <2>4. QED BY <1>3, <2>2, <2>3, MovesOn
<1>6. QED BY <1>4, <1>5

LEMMA Begins_Inv ==
    ASSUME SessionsInv, NEW r \in Requests, NEW u \in Users,
           \/ Login(r, u) \/ Signup(r, u) \/ Impersonate(r, u)
           \/ ForceLogout(r, u) \/ RemoveMember(r, u) \/ ResetMemberPassword(r, u)
    PROVE  SessionsInv'
<1>1. ASSUME NEW new, Minting(r, u, new) PROVE SessionsInv'
  <2>1. Known([at |-> "mint", user |-> u, new |-> new])
    BY DEF Known
  <2>2. call[r].at = "idle"
    BY <1>1 DEF Minting, Idle
  <2>3. QED BY <1>1, <2>1, <2>2, MovesOn DEF Minting
<1>2. ASSUME NEW remove, RevokeAll(r, u, remove) PROVE SessionsInv'
  <2>1. Known([at |-> "list", user |-> u, remove |-> remove])
    BY DEF Known
  <2>2. call[r].at = "idle"
    BY <1>2 DEF RevokeAll, Idle
  <2>3. QED BY <1>2, <2>1, <2>2, MovesOn DEF RevokeAll
<1>3. QED BY <1>1, <1>2 DEF Login, Signup, Impersonate, ForceLogout, RemoveMember, ResetMemberPassword

LEMMA Serves_Inv ==
    ASSUME SessionsInv, NEW r \in Requests,
           Unauthorized(r) \/ Answer(r) \/ Logout(r) \/ LogoutAll(r) \/ ListSessions(r)
    PROVE  SessionsInv'
<1>1. Known(Idle) /\ Known(call[r])
  BY DEF Known, Idle, SessionsInv, CallsKnown
<1>2. CASE Unauthorized(r) \/ Answer(r)
  BY <1>1, <1>2, MovesOn DEF Unauthorized, Answer, Handle
<1>3. CASE Logout(r)
  <2>1. call[r].at = "load"
    BY <1>3 DEF Logout, Handle
  <2>2. Known([at |-> "drop", sid |-> call[r].sid])
    BY <1>1, <2>1 DEF Known
  <2>3. QED BY <1>3, <2>1, <2>2, MovesOn DEF Logout, Handle
<1>4. CASE LogoutAll(r)
  <2>1. call[r].at = "load"
    BY <1>4 DEF LogoutAll, Handle
  <2>2. Known([at |-> "list", user |-> call[r].user, remove |-> FALSE])
    BY <1>1, <2>1 DEF Known
  <2>3. QED BY <1>4, <2>1, <2>2, MovesOn DEF LogoutAll, Handle
<1>5. CASE ListSessions(r)
  <2>1. PICK x : x = [at |-> "sweep", user |-> call[r].user, remove |-> call[r].remove,
                      listed |-> Tracked(call[r].user), left |-> Tracked(call[r].user)]
    OBVIOUS
  <2>2. Goto(r, x) /\ call[r].at = "list"
    BY <1>5, <2>1 DEF ListSessions
  <2>3. call[r].user \in Users
    BY <1>1, <2>2 DEF Known
  <2>4. Tracked(call[r].user) \subseteq Sids
    BY <2>3 DEF Tracked, SessionsInv, Types
  <2>5. Known(x)
    BY <2>1, <2>3, <2>4 DEF Known
  <2>6. QED BY <1>5, <2>2, <2>5, MovesOn DEF ListSessions
<1>6. QED BY <1>2, <1>3, <1>4, <1>5

LEMMA SessionsNext_Inv == ASSUME SessionsInv, [SessionsNext]_sessionVars PROVE SessionsInv'
<1>1. ASSUME NEW u \in Users,
             UpdateTeamMember(u) \/ UpdateUser(u) \/ DeleteUser(u) \/ RestoreUser(u)
      PROVE  SessionsInv'
  BY <1>1, Nothing DEF UpdateTeamMember, UpdateUser, DeleteUser, RestoreUser, RowBecomes
<1>2. CASE UNCHANGED sessionVars
  BY <1>2, Nothing DEF sessionVars
<1>3. ASSUME NEW r \in Requests, NEW s \in Sids,
             MintSession(r, s) \/ ReadSession(r, s) \/ SweepSession(r, s)
      PROVE  SessionsInv'
  BY <1>3, MintSession_Inv, Reads_Inv, SweepSession_Inv
<1>4. ASSUME NEW r \in Requests,
             \/ TrackSession(r) \/ TouchSession(r) \/ Unauthorized(r) \/ Answer(r)
             \/ Logout(r) \/ LogoutAll(r) \/ UntrackSession(r) \/ DeleteSession(r)
             \/ ListSessions(r) \/ DropIndex(r)
      PROVE  SessionsInv'
  BY <1>4, TrackSession_Inv, TouchSession_Inv, UntrackSession_Inv, DeleteSession_Inv,
     DropIndex_Inv, Serves_Inv
<1>5. QED BY <1>1, <1>2, <1>3, <1>4, PassTime_Inv, Begins_Inv DEF SessionsNext

LEMMA SessionsInv_Safe == SessionsInv => SessionsSafe
<1> SUFFICES ASSUME SessionsInv PROVE SessionsSafe
  OBVIOUS
<1>1. ASSUME NEW s \in ended \ strays PROVE ~Held(s)
  BY <1>1 DEF SessionsInv, Gone, Held
<1>2. ASSUME NEW s \in Sids, Usable(s), s \notin strays,
             Busy("track", s) \cup Busy("delete", s) = {}
      PROVE  s \in Tracked(session[s].user)
  <2>1. session[s] # NoKey /\ session[s].created \in Nat /\ session[s].user \in Users /\ clock \in Nat
        /\ clock - session[s].created < MaxTTL
    BY <1>2, Records DEF Usable, Held, SessionsInv, Types
  <2>2. clock < session[s].created + MaxTTL
    BY <2>1, Constants
  <2>3. Settled(s)
    BY <1>2, <2>1, <2>2 DEF Settled, Busy
  <2>4. /\ s \in index[session[s].user].sids
        /\ index[session[s].user].deadline >= session[s].created + MaxTTL
        /\ index[session[s].user].deadline \in Nat
    BY <2>1, <2>3 DEF SessionsInv, Covered, Types
  <2>5. QED BY <2>1, <2>2, <2>4, Constants DEF Tracked
<1>3. QED BY <1>1, <1>2 DEF SessionsSafe, RevokedStaysRevoked, IndexCovers

-----------------------------------------------------------------------------
\* Logout is instant and logout-all finds every session, up to the sessions a
\* revocation met while another request was writing them (core/sessions.py).
THEOREM LogoutIsInstant == SessionsSpec => []SessionsSafe
<1>1. SessionsInv /\ [SessionsNext]_sessionVars => SessionsInv'
  BY SessionsNext_Inv
<1>2. QED BY SessionsInit_Inv, <1>1, SessionsInv_Safe, PTL DEF SessionsSpec

-----------------------------------------------------------------------------
(***************************************************************************)
(* LoginGuards.  The limiter: what is admitted is in the sorted set.  The  *)
(* lockout: a request for each failure past the threshold until the lock   *)
(* is set, and behind it those alone that had passed its test.             *)
(***************************************************************************)
Places == {"none", "lockout", "verify", "expire", "expireLock", "lock"}

\* Types.
GuardTypes ==
    /\ tick \in Nat /\ tick <= LastTick
    /\ IsFiniteSet(hits) /\ IsFiniteSet(admitted)
    /\ \A m \in hits \cup admitted : m[1] \in Int /\ m[1] <= tick
    /\ failures \in [count : Nat, until : Nat]
    /\ lockedUntil \in Nat
    /\ attempt \in [Attempts -> Places]

\* What the window still holds of the admitted requests is in the sorted set.
AdmittedCounted == Since(admitted, tick - RateWindow) \subseteq hits

\* Where the requests are.
Verifying == {a \in Attempts : attempt[a] = "verify"}
Locking == {a \in Attempts : attempt[a] \in {"expireLock", "lock"}}
Renewing == {a \in Attempts : attempt[a] \in {"expire", "expireLock"}}
PastLockout == {a \in Attempts : attempt[a] \in {"verify", "expire", "expireLock", "lock"}}

\* Unless a request is about to renew it, the counter lives a lock's time at most.
CounterEnds == FailureCount > 0 /\ Renewing = {} => failures.until <= tick + LockTTL

\* Before the lock, each failure from the threshold on has a request about to set it.
BeforeLock ==
    ~LockedOut /\ FailureCount >= LockThreshold =>
        FailureCount + 1 <= LockThreshold + Cardinality(Locking)

\* Behind the lock, only the requests that had passed its test can still fail.
BehindLock ==
    LockedOut => FailureCount + Cardinality(Verifying) + 1 <= LockThreshold + Cardinality(Attempts)

\* A lock was set in this tick, or no request is past its test and the counter
\* expires with it.
LockAges ==
    LockedOut => \/ lockedUntil = tick + LockTTL
                 \/ /\ PastLockout = {}
                    /\ FailureCount > 0 => failures.until <= lockedUntil

\* The inductive invariant.
GuardsInv ==
    /\ GuardTypes /\ AdmittedCounted /\ WindowKept
    /\ CounterEnds /\ BeforeLock /\ BehindLock /\ LockAges


\* The numbers of the guards are numbers, and the requests finitely many.
LEMMA GuardNumbers ==
  ASSUME GuardTypes
  PROVE  /\ FailureCount \in Nat /\ LockThreshold \in Nat \ {0} /\ LockTTL \in Nat \ {0}
         /\ RateLimit \in Nat /\ RateWindow \in Nat \ {0} /\ LastTick \in Nat /\ Never \in Nat
         /\ IsFiniteSet(Attempts) /\ Cardinality(Attempts) \in Nat
         /\ tick \in Nat /\ lockedUntil \in Nat /\ failures.until \in Nat /\ failures.count \in Nat
<1>1. Cardinality(Attempts) \in Nat
  BY LoginGuardsAssumption, FS_CardinalityType
<1>2. failures.until \in Nat /\ failures.count \in Nat
  BY DEF GuardTypes
<1> QED
  BY LoginGuardsAssumption, <1>1, <1>2 DEF GuardTypes, FailureCount, Never

\* The requests at two places are together no more than the requests.
LEMMA PlacesCounted ==
  ASSUME NEW V \in SUBSET Attempts, NEW K \in SUBSET Attempts, V \cap K = {}
  PROVE  /\ IsFiniteSet(V) /\ IsFiniteSet(K)
         /\ Cardinality(V) \in Nat /\ Cardinality(K) \in Nat
         /\ Cardinality(V) + Cardinality(K) <= Cardinality(Attempts)
<1>1. IsFiniteSet(V) /\ IsFiniteSet(K)
  BY LoginGuardsAssumption, FS_Subset
<1>2. Cardinality(V) \in Nat /\ Cardinality(K) \in Nat /\ Cardinality(Attempts) \in Nat
  BY <1>1, LoginGuardsAssumption, FS_CardinalityType
<1>3. /\ IsFiniteSet(V \cup K)
      /\ Cardinality(V \cup K) = Cardinality(V) + Cardinality(K) - Cardinality(V \cap K)
  BY <1>1, FS_Union
<1>4. Cardinality(V \cap K) = 0
  BY FS_EmptySet
<1>5. (V \cup K) \in SUBSET Attempts
  OBVIOUS
<1>6. Cardinality(V \cup K) <= Cardinality(Attempts)
  BY <1>5, LoginGuardsAssumption, FS_Subset
<1> QED
  BY <1>1, <1>2, <1>3, <1>4, <1>6

\* A request that leaves a place, and one that comes to it.
LEMMA OneFewer ==
  ASSUME NEW V \in SUBSET Attempts, NEW a \in V
  PROVE  Cardinality(V \ {a}) \in Nat /\ Cardinality(V \ {a}) + 1 = Cardinality(V)
<1>1. IsFiniteSet(V) /\ Cardinality(V) \in Nat
  BY LoginGuardsAssumption, FS_Subset, FS_CardinalityType
<1>2. IsFiniteSet(V \ {a}) /\ Cardinality(V \ {a}) = Cardinality(V) - 1
  BY <1>1, FS_RemoveElement
<1>3. Cardinality(V \ {a}) \in Nat
  BY <1>2, FS_CardinalityType
<1> QED
  BY <1>1, <1>2, <1>3

LEMMA OneMore ==
  ASSUME NEW K \in SUBSET Attempts, NEW a \in Attempts \ K
  PROVE  Cardinality(K \cup {a}) \in Nat /\ Cardinality(K \cup {a}) = Cardinality(K) + 1
<1>1. IsFiniteSet(K) /\ Cardinality(K) \in Nat
  BY LoginGuardsAssumption, FS_Subset, FS_CardinalityType
<1>2. Cardinality(K \cup {a}) = IF a \in K THEN Cardinality(K) ELSE Cardinality(K) + 1
  BY <1>1, FS_AddElement
<1> QED
  BY <1>1, <1>2

\* It holds at first.
LEMMA GuardsStart == GuardsInit => GuardsInv
<1> SUFFICES ASSUME GuardsInit PROVE GuardsInv
  OBVIOUS
<1>1. GuardTypes
  BY FS_EmptySet, LoginGuardsAssumption DEF GuardsInit, GuardTypes, Places
<1>2. AdmittedCounted
  BY DEF GuardsInit, AdmittedCounted, Since
<1>3. WindowKept
  <2>1. \A t : {m \in admitted : t - RateWindow < m[1] /\ m[1] <= t} = {}
    BY DEF GuardsInit
  <2>2. Cardinality({}) = 0 /\ 0 <= RateLimit
    BY FS_EmptySet, LoginGuardsAssumption
  <2> QED
    BY <2>1, <2>2 DEF WindowKept
<1>4. FailureCount = 0 /\ ~LockedOut
  BY DEF GuardsInit, FailureCount, LockedOut
<1>5. CounterEnds /\ BeforeLock /\ BehindLock /\ LockAges
  BY <1>4, LoginGuardsAssumption DEF CounterEnds, BeforeLock, BehindLock, LockAges
<1> QED
  BY <1>1, <1>2, <1>3, <1>5 DEF GuardsInv

\* A counted request: what is admitted is counted, and within every window no more
\* than the limit.
LEMMA LimiterKept ==
  ASSUME GuardsInv, NEW a \in Attempts, CheckRate(a)
  PROVE  /\ IsFiniteSet(hits') /\ IsFiniteSet(admitted')
         /\ \A m \in hits' \cup admitted' : m[1] \in Int /\ m[1] <= tick'
         /\ AdmittedCounted' /\ WindowKept'
<1>0. /\ GuardTypes /\ tick' = tick /\ AdmittedCounted /\ WindowKept
      /\ IsFiniteSet(hits) /\ IsFiniteSet(admitted)
      /\ \A m \in hits \cup admitted : m[1] \in Int /\ m[1] <= tick
  BY DEF GuardsInv, CheckRate, GuardTypes
<1>1. tick \in Nat /\ RateWindow \in Nat \ {0} /\ RateLimit \in Nat
  BY <1>0, GuardNumbers
<1>2. PICK M : M = Member
  OBVIOUS
<1>3. M[1] = tick
  BY <1>2 DEF Member
<1>4. PICK C : C = Trimmed \cup {M}
  OBVIOUS
<1>5. /\ hits' = C
      /\ \/ admitted' = admitted
         \/ admitted' = admitted \cup {M} /\ Cardinality(C) <= RateLimit
  BY <1>2, <1>4 DEF CheckRate
<1>6. IsFiniteSet(C)
  <2>1. Trimmed \in SUBSET hits
    BY DEF Trimmed, Since
  <2>2. IsFiniteSet(Trimmed)
    BY <1>0, <2>1, FS_Subset
  <2> QED
    BY <1>4, <2>2, FS_AddElement
<1>7. IsFiniteSet(admitted')
  BY <1>0, <1>5, FS_AddElement
<1>8. \A m \in hits' \cup admitted' : m[1] \in Int /\ m[1] <= tick
  BY <1>0, <1>1, <1>3, <1>4, <1>5 DEF Trimmed, Since
<1>9. Since(admitted', tick - RateWindow) \subseteq C
  BY <1>0, <1>4, <1>5 DEF AdmittedCounted, Trimmed, Since
<1>10. WindowKept'
  <2> SUFFICES ASSUME NEW t \in 0..LastTick
               PROVE  Cardinality({m \in admitted' : t - RateWindow < m[1] /\ m[1] <= t}) <= RateLimit
    BY DEF WindowKept
  <2>1. PICK W : W = {m \in admitted' : t - RateWindow < m[1] /\ m[1] <= t}
    OBVIOUS
  <2>2. CASE W = {m \in admitted : t - RateWindow < m[1] /\ m[1] <= t}
    BY <1>0, <2>1, <2>2 DEF WindowKept
  <2>3. CASE W # {m \in admitted : t - RateWindow < m[1] /\ m[1] <= t}
    <3>1. /\ admitted' = admitted \cup {M} /\ Cardinality(C) <= RateLimit
          /\ t - RateWindow < tick /\ tick <= t
      BY <1>3, <1>5, <2>1, <2>3
    <3>2. t \in Nat
      BY <1>0, GuardNumbers
    <3>3. W \in SUBSET C
      BY <1>1, <1>5, <1>8, <1>9, <2>1, <3>1, <3>2 DEF Since
    <3>4. IsFiniteSet(W) /\ Cardinality(W) <= Cardinality(C)
      BY <1>6, <3>3, FS_Subset
    <3>5. Cardinality(W) \in Nat /\ Cardinality(C) \in Nat
      BY <1>6, <3>4, FS_CardinalityType
    <3> QED
      BY <1>1, <2>1, <3>1, <3>4, <3>5
  <2> QED
    BY <2>2, <2>3
<1> QED
  BY <1>0, <1>5, <1>6, <1>7, <1>8, <1>9, <1>10 DEF AdmittedCounted

\* Time passes only between requests, and a counter ends with the lock it caused.
LEMMA TickIsSafe ==
  ASSUME GuardsInv, Tick
  PROVE  GuardsInv'
<1>0. /\ GuardTypes /\ tick' = tick + 1 /\ tick < LastTick
      /\ UNCHANGED <<hits, admitted, failures, lockedUntil, attempt>>
      /\ \A a \in Attempts : attempt[a] = "none"
  BY DEF GuardsInv, Tick
<1>1. /\ FailureCount \in Nat /\ LockThreshold \in Nat \ {0} /\ LockTTL \in Nat \ {0}
      /\ RateWindow \in Nat \ {0} /\ LastTick \in Nat /\ Cardinality(Attempts) \in Nat
      /\ tick \in Nat /\ lockedUntil \in Nat /\ failures.until \in Nat /\ failures.count \in Nat
  BY <1>0, GuardNumbers
<1>2. GuardTypes'
  BY <1>0, <1>1 DEF GuardTypes
<1>3. AdmittedCounted'
  BY <1>0, <1>1 DEF GuardsInv, AdmittedCounted, Since, GuardTypes
<1>4. WindowKept'
  BY <1>0 DEF GuardsInv, WindowKept
<1>5. Verifying = {} /\ Locking = {} /\ PastLockout = {} /\ Renewing = {}
  BY <1>0 DEF Verifying, Locking, PastLockout, Renewing
<1>6. Verifying' = {} /\ Locking' = {} /\ PastLockout' = {} /\ Renewing' = {}
  BY <1>0 DEF Verifying, Locking, PastLockout, Renewing
<1>7. PICK f \in Nat : f = FailureCount'
  BY <1>0, <1>1 DEF FailureCount
<1>8. /\ f <= FailureCount
      /\ f > 0 => tick + 1 < failures.until
      /\ LockedOut' => LockedOut
      /\ LockedOut <=> tick < lockedUntil
      /\ LockedOut' <=> tick + 1 < lockedUntil
  BY <1>0, <1>1, <1>7 DEF FailureCount, LockedOut
<1>9. f > 0 => failures.until <= tick + LockTTL
  BY <1>1, <1>5, <1>8 DEF GuardsInv, CounterEnds
<1>10. CounterEnds'
  BY <1>0, <1>1, <1>7, <1>9 DEF CounterEnds
<1>11. LockedOut /\ f > 0 => failures.until <= lockedUntil
  BY <1>1, <1>8, <1>9 DEF GuardsInv, LockAges
<1>12. LockAges'
  BY <1>0, <1>6, <1>7, <1>8, <1>11 DEF LockAges
<1>13. ~LockedOut => f < LockThreshold
  <2>1. Cardinality(Locking) = 0
    BY <1>5, FS_EmptySet
  <2> QED
    BY <1>1, <1>8, <2>1 DEF GuardsInv, BeforeLock
<1>14. BeforeLock'
  <2>1. ~LockedOut' => f < LockThreshold
    BY <1>1, <1>8, <1>11, <1>13
  <2> QED
    BY <1>1, <1>7, <2>1 DEF BeforeLock
<1>15. BehindLock'
  <2>1. Cardinality(Verifying) = 0 /\ Cardinality(Verifying') = 0
    BY <1>5, <1>6, FS_EmptySet
  <2>2. LockedOut => f + 0 + 1 <= LockThreshold + Cardinality(Attempts)
    BY <1>1, <1>8, <2>1 DEF GuardsInv, BehindLock
  <2> QED
    BY <1>7, <1>8, <2>1, <2>2 DEF BehindLock
<1> QED
  BY <1>2, <1>3, <1>4, <1>10, <1>12, <1>14, <1>15 DEF GuardsInv

\* What every step of request a changes: its own place.
LEMMA StepMoves ==
  ASSUME GuardsInv, NEW a \in Attempts, NEW from \in Places, NEW to \in Places, Step(a, from, to)
  PROVE  /\ attempt' \in [Attempts -> Places] /\ attempt[a] = from /\ attempt'[a] = to
         /\ \A b \in Attempts \ {a} : attempt'[b] = attempt[b]
BY DEF Step, GuardsInv, GuardTypes

\* A step that leaves the lockout's keys alone and no request past the test
\* that was not, but a request that found the name open.
LEMMA NothingCounted ==
  ASSUME GuardsInv, UNCHANGED <<tick, failures, lockedUntil>>, NEW a \in Attempts,
         NEW to \in {"none", "lockout", "verify"},
         attempt[a] \in {"none", "lockout"}, attempt'[a] = to,
         \A b \in Attempts \ {a} : attempt'[b] = attempt[b],
         to = "verify" => ~LockedOut
  PROVE  CounterEnds' /\ BeforeLock' /\ BehindLock' /\ LockAges'
<1>1. FailureCount' = FailureCount /\ (LockedOut' <=> LockedOut)
  BY DEF FailureCount, LockedOut
<1>2. Renewing' = Renewing /\ Locking' = Locking
  BY DEF Renewing, Locking
<1>3. LockedOut => Verifying' = Verifying /\ PastLockout' = PastLockout
  BY DEF Verifying, PastLockout
<1> QED
  BY <1>1, <1>2, <1>3 DEF GuardsInv, CounterEnds, BeforeLock, BehindLock, LockAges

\* The limiter's step.
LEMMA RateStep ==
  ASSUME GuardsInv, NEW a \in Attempts, CheckRate(a)
  PROVE  GuardsInv'
<1>1. PICK to \in {"none", "lockout"} : Step(a, "none", to)
  BY DEF CheckRate
<1>2. /\ attempt' \in [Attempts -> Places] /\ attempt[a] = "none" /\ attempt'[a] = to
      /\ \A b \in Attempts \ {a} : attempt'[b] = attempt[b]
  BY <1>1, StepMoves DEF Places
<1>3. UNCHANGED <<tick, failures, lockedUntil>>
  BY DEF CheckRate
<1>4. CounterEnds' /\ BeforeLock' /\ BehindLock' /\ LockAges'
  BY <1>2, <1>3, NothingCounted
<1>5. GuardTypes'
  BY <1>2, <1>3, LimiterKept DEF GuardsInv, GuardTypes
<1> QED
  BY <1>4, <1>5, LimiterKept DEF GuardsInv

\* The other steps leave the limiter alone.
LEMMA LimiterRests ==
  ASSUME GuardsInv, UNCHANGED <<tick, hits, admitted>>
  PROVE  AdmittedCounted' /\ WindowKept'
BY DEF GuardsInv, AdmittedCounted, WindowKept, Since

\* The lockout test.
LEMMA LockoutStep ==
  ASSUME GuardsInv, NEW a \in Attempts, CheckLockout(a)
  PROVE  GuardsInv'
<1>1. PICK to \in {"none", "verify"} : Step(a, "lockout", to) /\ (to = "verify" => ~LockedOut)
  BY DEF CheckLockout
<1>2. /\ attempt' \in [Attempts -> Places] /\ attempt[a] = "lockout" /\ attempt'[a] = to
      /\ \A b \in Attempts \ {a} : attempt'[b] = attempt[b]
  BY <1>1, StepMoves DEF Places
<1>3. UNCHANGED <<tick, hits, admitted, failures, lockedUntil>>
  BY DEF CheckLockout
<1>4. CounterEnds' /\ BeforeLock' /\ BehindLock' /\ LockAges'
  BY <1>1, <1>2, <1>3, NothingCounted
<1>5. GuardTypes'
  BY <1>2, <1>3 DEF GuardsInv, GuardTypes
<1> QED
  BY <1>3, <1>4, <1>5, LimiterRests DEF GuardsInv

\* A right password.
LEMMA RightStep ==
  ASSUME GuardsInv, NEW a \in Attempts, VerifyRight(a)
  PROVE  GuardsInv'
<1>0. /\ GuardTypes /\ UNCHANGED <<tick, hits, admitted, lockedUntil>>
      /\ attempt' \in [Attempts -> Places] /\ attempt[a] = "verify" /\ attempt'[a] = "none"
      /\ \A b \in Attempts \ {a} : attempt'[b] = attempt[b]
      /\ failures' = failures \/ failures' = [count |-> 0, until |-> 0]
  BY StepMoves DEF VerifyRight, Places, GuardsInv
<1>1. /\ FailureCount \in Nat /\ LockThreshold \in Nat \ {0} /\ LockTTL \in Nat \ {0}
      /\ tick \in Nat /\ lockedUntil \in Nat /\ Cardinality(Attempts) \in Nat
  BY <1>0, GuardNumbers
<1>2. GuardTypes'
  BY <1>0 DEF GuardTypes
<1>3. /\ (FailureCount' = FailureCount /\ failures' = failures) \/ FailureCount' = 0
      /\ LockedOut' <=> LockedOut
  BY <1>0 DEF FailureCount, LockedOut
<1>4. Renewing' = Renewing /\ Locking' = Locking
  BY <1>0 DEF Renewing, Locking
<1>5. CounterEnds'
  BY <1>0, <1>3, <1>4 DEF GuardsInv, CounterEnds
<1>6. BeforeLock'
  BY <1>1, <1>3, <1>4 DEF GuardsInv, BeforeLock
<1>7. /\ Cardinality(Verifying) \in Nat /\ Cardinality(Verifying') \in Nat
      /\ Cardinality(Verifying') <= Cardinality(Verifying)
  <2>1. PICK V \in SUBSET Attempts : V = Verifying /\ a \in V
    BY <1>0 DEF Verifying
  <2>2. Verifying' = V \ {a}
    BY <1>0, <2>1 DEF Verifying
  <2>3. Cardinality(V \ {a}) \in Nat /\ Cardinality(V \ {a}) + 1 = Cardinality(V)
    BY <2>1, OneFewer
  <2>4. Cardinality(V) \in Nat
    BY <2>1, PlacesCounted, V \cap {} = {}, {} \in SUBSET Attempts
  <2> QED
    BY <2>1, <2>2, <2>3, <2>4
<1>8. BehindLock'
  BY <1>1, <1>3, <1>7 DEF GuardsInv, BehindLock
<1>9. LockAges'
  BY <1>0, <1>3 DEF GuardsInv, LockAges, PastLockout
<1> QED
  BY <1>0, <1>2, <1>5, <1>6, <1>8, <1>9, LimiterRests DEF GuardsInv

\* A counted failure.
LEMMA FailureStep ==
  ASSUME GuardsInv, NEW a \in Attempts, CountFailure(a)
  PROVE  GuardsInv'
<1>1. /\ FailureCount \in Nat /\ LockThreshold \in Nat \ {0} /\ LockTTL \in Nat \ {0}
      /\ tick \in Nat /\ tick <= LastTick /\ LastTick \in Nat /\ Never \in Nat /\ tick < Never
      /\ lockedUntil \in Nat /\ failures.until \in Nat /\ Cardinality(Attempts) \in Nat
  BY GuardNumbers DEF GuardsInv, GuardTypes, Never
<1>2. PICK n \in Nat : n = FailureCount + 1
  BY <1>1
<1>3. PICK to \in {"expire", "expireLock"} :
        /\ Step(a, "verify", to)
        /\ to = "expireLock" <=> n >= LockThreshold
  BY <1>2 DEF CountFailure
<1>4. /\ attempt' \in [Attempts -> Places] /\ attempt[a] = "verify" /\ attempt'[a] = to
      /\ \A b \in Attempts \ {a} : attempt'[b] = attempt[b]
  BY <1>3, StepMoves DEF Places
<1>5. /\ UNCHANGED <<tick, hits, admitted, lockedUntil>>
      /\ failures' = [count |-> n, until |-> IF n = 1 THEN Never ELSE failures.until]
  BY <1>2 DEF CountFailure
<1>6. GuardTypes'
  BY <1>1, <1>4, <1>5 DEF GuardsInv, GuardTypes
<1>7. FailureCount' = n /\ (LockedOut' <=> LockedOut)
  BY <1>1, <1>2, <1>5 DEF FailureCount, LockedOut
<1>8. CounterEnds'
  BY <1>4 DEF CounterEnds, Renewing
<1>9. PICK V \in SUBSET Attempts : V = Verifying /\ a \in V
  BY <1>4 DEF Verifying
<1>10. PICK K \in SUBSET Attempts : K = Locking /\ a \notin K
  <2>1. Locking \subseteq Attempts /\ a \notin Locking
    BY <1>4 DEF Locking
  <2> QED
    BY <2>1
<1>11. /\ Verifying' = V \ {a}
       /\ Locking' = IF n >= LockThreshold THEN K \cup {a} ELSE K
  BY <1>3, <1>4, <1>9, <1>10 DEF Verifying, Locking
<1>12. /\ Cardinality(V \ {a}) \in Nat /\ Cardinality(V \ {a}) + 1 = Cardinality(V)
       /\ Cardinality(K \cup {a}) \in Nat /\ Cardinality(K \cup {a}) = Cardinality(K) + 1
  BY <1>9, <1>10, OneFewer, OneMore
<1>13. Cardinality(V) \in Nat /\ Cardinality(K) \in Nat
  BY PlacesCounted, V \cap {} = {}, K \cap {} = {}, {} \in SUBSET Attempts
<1>14. BeforeLock'
  <2>1. ~LockedOut /\ FailureCount >= LockThreshold => FailureCount + 1 <= LockThreshold + Cardinality(K)
    BY <1>10 DEF GuardsInv, BeforeLock
  <2>2. ~LockedOut /\ n >= LockThreshold => n + 1 <= LockThreshold + Cardinality(K \cup {a})
    BY <1>1, <1>2, <1>12, <1>13, <2>1
  <2> QED
    BY <1>7, <1>11, <2>2 DEF BeforeLock
<1>15. BehindLock'
  <2>1. LockedOut => FailureCount + Cardinality(V) + 1 <= LockThreshold + Cardinality(Attempts)
    BY <1>9 DEF GuardsInv, BehindLock
  <2>2. LockedOut => n + Cardinality(V \ {a}) + 1 <= LockThreshold + Cardinality(Attempts)
    BY <1>1, <1>2, <1>12, <1>13, <2>1
  <2> QED
    BY <1>7, <1>11, <2>2 DEF BehindLock
<1>16. LockAges'
  BY <1>4, <1>5, <1>7 DEF GuardsInv, LockAges, PastLockout
<1> QED
  BY <1>5, <1>6, <1>8, <1>14, <1>15, <1>16, LimiterRests DEF GuardsInv

\* The counter's deadline is renewed.
LEMMA RenewStep ==
  ASSUME GuardsInv, NEW a \in Attempts, RenewCounter(a)
  PROVE  GuardsInv'
<1>1. /\ FailureCount \in Nat /\ LockThreshold \in Nat \ {0} /\ LockTTL \in Nat \ {0}
      /\ tick \in Nat /\ lockedUntil \in Nat /\ failures.until \in Nat /\ failures.count \in Nat
      /\ failures \in [count : Nat, until : Nat]
  BY GuardNumbers DEF GuardsInv, GuardTypes
<1>2. /\ attempt' \in [Attempts -> Places]
      /\ \A b \in Attempts \ {a} : attempt'[b] = attempt[b]
      /\ \/ attempt[a] = "expire" /\ attempt'[a] = "none"
         \/ attempt[a] = "expireLock" /\ attempt'[a] = "lock"
  BY StepMoves DEF RenewCounter, Places
<1>3. /\ UNCHANGED <<tick, hits, admitted, lockedUntil>>
      /\ failures' = IF FailureCount = 0 THEN failures ELSE [failures EXCEPT !.until = tick + LockTTL]
  BY DEF RenewCounter
<1>4. /\ FailureCount' = FailureCount /\ (LockedOut' <=> LockedOut)
      /\ FailureCount > 0 => failures'.until = tick + LockTTL
      /\ failures' \in [count : Nat, until : Nat]
  BY <1>1, <1>3 DEF FailureCount, LockedOut
<1>5. GuardTypes'
  BY <1>2, <1>3, <1>4 DEF GuardsInv, GuardTypes
<1>6. Verifying' = Verifying /\ Locking' = Locking /\ PastLockout # {}
  BY <1>2 DEF Verifying, Locking, PastLockout
<1>7. CounterEnds'
  BY <1>1, <1>3, <1>4 DEF CounterEnds
<1>8. BeforeLock' /\ BehindLock'
  BY <1>4, <1>6 DEF GuardsInv, BeforeLock, BehindLock
<1>9. LockAges'
  BY <1>3, <1>4, <1>6 DEF GuardsInv, LockAges
<1> QED
  BY <1>3, <1>5, <1>7, <1>8, <1>9, LimiterRests DEF GuardsInv

\* The lock is set.
LEMMA LockStep ==
  ASSUME GuardsInv, NEW a \in Attempts, SetLock(a)
  PROVE  GuardsInv'
<1>1. /\ FailureCount \in Nat /\ LockThreshold \in Nat \ {0} /\ LockTTL \in Nat \ {0}
      /\ tick \in Nat /\ lockedUntil \in Nat /\ Cardinality(Attempts) \in Nat
  BY GuardNumbers DEF GuardsInv
<1>2. /\ attempt' \in [Attempts -> Places] /\ attempt[a] = "lock" /\ attempt'[a] = "none"
      /\ \A b \in Attempts \ {a} : attempt'[b] = attempt[b]
  BY StepMoves DEF SetLock, Places
<1>3. UNCHANGED <<tick, hits, admitted, failures>> /\ lockedUntil' = tick + LockTTL
  BY DEF SetLock
<1>4. GuardTypes'
  BY <1>1, <1>2, <1>3 DEF GuardsInv, GuardTypes
<1>5. FailureCount' = FailureCount /\ LockedOut'
  BY <1>1, <1>3 DEF FailureCount, LockedOut
<1>6. Verifying' = Verifying /\ Renewing' = Renewing
  BY <1>2 DEF Verifying, Renewing
<1>7. CounterEnds'
  BY <1>3, <1>5, <1>6 DEF GuardsInv, CounterEnds
<1>8. BeforeLock' /\ LockAges'
  BY <1>3, <1>5 DEF BeforeLock, LockAges
<1>9. BehindLock'
  <2>1. PICK V \in SUBSET Attempts : V = Verifying
    BY DEF Verifying
  <2>2. PICK K \in SUBSET Attempts : K = Locking
    BY DEF Locking
  <2>3. V \cap K = {}
    BY <2>1, <2>2 DEF Verifying, Locking
  <2>4. /\ Cardinality(V) \in Nat /\ Cardinality(K) \in Nat
        /\ Cardinality(V) + Cardinality(K) <= Cardinality(Attempts)
    BY <2>3, PlacesCounted
  <2>5. ~LockedOut => FailureCount + 1 <= LockThreshold + Cardinality(K)
    BY <1>1, <2>2, <2>4 DEF GuardsInv, BeforeLock
  <2>6. LockedOut => FailureCount + Cardinality(V) + 1 <= LockThreshold + Cardinality(Attempts)
    BY <2>1 DEF GuardsInv, BehindLock
  <2>7. FailureCount + Cardinality(V) + 1 <= LockThreshold + Cardinality(Attempts)
    BY <1>1, <2>4, <2>5, <2>6
  <2> QED
    BY <1>5, <1>6, <2>1, <2>7 DEF BehindLock
<1> QED
  BY <1>3, <1>4, <1>7, <1>8, <1>9, LimiterRests DEF GuardsInv

\* A step of somebody else.
LEMMA GuardsRest ==
  ASSUME GuardsInv, UNCHANGED guardVars
  PROVE  GuardsInv'
<1>1. UNCHANGED <<tick, hits, admitted, failures, lockedUntil, attempt>>
  BY DEF guardVars
<1>2. GuardTypes' /\ AdmittedCounted' /\ WindowKept'
  BY <1>1, LimiterRests DEF GuardsInv, GuardTypes
<1>3. CounterEnds' /\ BeforeLock' /\ BehindLock' /\ LockAges'
  BY <1>1 DEF GuardsInv, CounterEnds, BeforeLock, BehindLock, LockAges, FailureCount, LockedOut,
              Renewing, Locking, Verifying, PastLockout
<1> QED
  BY <1>2, <1>3 DEF GuardsInv

\* Every window admits no more than the limit, and the failures counted stay within
\* the threshold and one for each other request under way, for any limits and any
\* number of overlapping logins (rate_limit.py, sessions.py).
THEOREM LoginsAreGuarded == GuardsSpec => []GuardsHold
<1>1. GuardsInv /\ [GuardsNext]_guardVars => GuardsInv'
  <2> SUFFICES ASSUME GuardsInv, [GuardsNext]_guardVars PROVE GuardsInv'
    OBVIOUS
  <2> QED
    BY TickIsSafe, RateStep, LockoutStep, RightStep, FailureStep, RenewStep, LockStep, GuardsRest
       DEF GuardsNext
<1>2. GuardsInv => GuardsHold
  <2> SUFFICES ASSUME GuardsInv PROVE FailuresBounded
    BY DEF GuardsInv, GuardsHold
  <2>1. /\ FailureCount \in Nat /\ LockThreshold \in Nat \ {0} /\ Cardinality(Attempts) \in Nat
    BY GuardNumbers DEF GuardsInv
  <2>2. PICK V \in SUBSET Attempts : V = Verifying
    BY DEF Verifying
  <2>3. PICK K \in SUBSET Attempts : K = Locking
    BY DEF Locking
  <2>4. V \cap K = {}
    BY <2>2, <2>3 DEF Verifying, Locking
  <2>5. /\ Cardinality(V) \in Nat /\ Cardinality(K) \in Nat
        /\ Cardinality(V) + Cardinality(K) <= Cardinality(Attempts)
    BY <2>4, PlacesCounted
  <2>6. CASE LockedOut
    BY <2>1, <2>2, <2>5, <2>6 DEF GuardsInv, BehindLock, FailuresBounded
  <2>7. CASE ~LockedOut
    BY <2>1, <2>3, <2>5, <2>7 DEF GuardsInv, BeforeLock, FailuresBounded
  <2> QED
    BY <2>6, <2>7
<1> QED
  BY GuardsStart, <1>1, <1>2, PTL DEF GuardsSpec

-----------------------------------------------------------------------------
(***************************************************************************)
(* Records.  What the requests that have run their statements hold: rows   *)
(* of their own, and all that their deletion or restoration is about.      *)
(***************************************************************************)
Rows == {Org} \cup Sites \cup Cameras \cup Staff \cup Rules
SlotRecord == [pc : {"free", "read", "written"}, kind : {"none", "create", "delete", "restore"},
               row : Rows, hit : SUBSET Rows]

\* A request is about a row that exists, unless it creates one below the organisation.
Named(x) == /\ x.kind = "create" => x.row # Org
            /\ x.kind # "create" => x.row \in created
            /\ x.kind = "none" => x.pc = "free"

RecordTypes ==
    /\ op \in [Operators -> SlotRecord]
    /\ created \subseteq Rows /\ live \subseteq created /\ Org \in created
    /\ crossed \subseteq Rows /\ swept \subseteq created
    /\ \A o \in Operators : Named(op[o])

Writing(o) == op[o].pc = "written"

\* No two requests hold one row.
HeldApart == \A o, x \in Operators : Writing(o) /\ Writing(x) /\ o # x => op[o].hit \cap op[x].hit = {}

\* A request holds its row, and the organisation or another site only if it is about them all.
HitShape ==
    \A o \in Operators : Writing(o) =>
        /\ op[o].row \in op[o].hit
        /\ op[o].row # Org => op[o].hit \cap ({Org} \cup Sites) \subseteq {op[o].row}
        /\ op[o].kind = "delete" => op[o].hit \subseteq created

\* A deletion under way holds all that is live below, but for what crossed it.
DeletionCovers ==
    \A o \in Operators : Writing(o) /\ op[o].kind = "delete" =>
        \A r \in live \ {Org} :
            \/ op[o].row = Org
            \/ r \in Cameras /\ SiteOf[r] = op[o].row
            => r \in op[o].hit \cup crossed

\* A restoration of the organisation holds all its deletion took and nobody deleted since.
RestoreCovers ==
    \A o \in Operators : Writing(o) /\ op[o].kind # "delete" /\ op[o].row = Org =>
        swept \subseteq live \cup op[o].hit

\* The inductive invariant.
RecordInv ==
    /\ RecordTypes /\ HeldApart /\ HitShape /\ DeletionCovers /\ RestoreCovers
    /\ NothingLiveBelow /\ SweepReversed

\* It holds at first.
LEMMA RecordsStart == RecordInit => RecordInv
<1> SUFFICES ASSUME RecordInit PROVE RecordInv
  OBVIOUS
<1>1. RecordTypes
  BY DEF RecordInit, RecordTypes, FreeSlot, SlotRecord, Rows, Named
<1>2. \A o \in Operators : ~Writing(o)
  BY DEF RecordInit, Writing, FreeSlot
<1>3. NothingLiveBelow
  BY RecordAssumption DEF RecordInit, NothingLiveBelow
<1> QED
  BY <1>1, <1>2, <1>3
     DEF RecordInit, RecordInv, HeldApart, HitShape, DeletionCovers, RestoreCovers, SweepReversed

\* A request that begins or gives up holds nothing and changes no row.
LEMMA SlotChanges ==
  ASSUME RecordInv, NEW o \in Operators, NEW v \in SlotRecord, v.pc # "written", Named(v),
         op' = [op EXCEPT ![o] = v], UNCHANGED <<created, live, crossed, swept>>
  PROVE  RecordInv'
<1>1. /\ op' \in [Operators -> SlotRecord] /\ op'[o] = v
      /\ \A x \in Operators \ {o} : op'[x] = op[x]
  BY DEF RecordInv, RecordTypes
<1>2. RecordTypes'
  BY <1>1 DEF RecordInv, RecordTypes, Named
<1>3. \A x \in Operators : Writing(x)' => Writing(x) /\ op'[x] = op[x]
  BY <1>1 DEF Writing
<1>4. HeldApart' /\ HitShape' /\ DeletionCovers' /\ RestoreCovers'
  BY <1>3 DEF RecordInv, HeldApart, HitShape, DeletionCovers, RestoreCovers
<1>5. NothingLiveBelow' /\ SweepReversed'
  BY DEF RecordInv, NothingLiveBelow, SweepReversed
<1> QED
  BY <1>2, <1>4, <1>5 DEF RecordInv

\* A request reads what its guard needs.
LEMMA RequestBegins ==
  ASSUME RecordInv, NEW o \in Operators, Request(o)
  PROVE  RecordInv'
<1>1. PICK kind \in {"create", "delete", "restore"}, r \in Rows :
          ReadRecord(o, kind, r) /\ (kind = "create" => r # Org) /\ (kind # "create" => r \in created)
  BY RecordAssumption
     DEF RecordInv, RecordTypes, Deleted, Request, DeleteOrg, RestoreOrg, CreateSite, DeleteSite, RestoreSite, CreateCamera, RegisterOnBox,
         DeleteCam, RestoreCam, CreateRule, DeleteRule, RestoreRule, DeleteStaff, RestoreStaff, Rows
<1> DEFINE v == [pc |-> "read", kind |-> kind, row |-> r, hit |-> {}]
<1>2. v \in SlotRecord /\ v.pc # "written" /\ Named(v)
  BY <1>1 DEF SlotRecord, Named
<1>3. op' = [op EXCEPT ![o] = v] /\ UNCHANGED <<created, live, crossed, swept>>
  BY <1>1 DEF ReadRecord
<1> HIDE DEF v
<1> QED
  BY <1>2, <1>3, SlotChanges

\* A request is rolled back.
LEMMA RequestFails ==
  ASSUME RecordInv, NEW o \in Operators, FailRecords(o)
  PROVE  RecordInv'
<1>1. FreeSlot \in SlotRecord /\ FreeSlot.pc # "written" /\ Named(FreeSlot)
  BY DEF FreeSlot, SlotRecord, Rows, Named, RecordInv, RecordTypes
<1>2. op' = [op EXCEPT ![o] = FreeSlot] /\ UNCHANGED <<created, live, crossed, swept>>
  BY DEF FailRecords
<1> QED
  BY <1>1, <1>2, SlotChanges

\* What the statements of a request hit.
LEMMA HitsAre ==
  ASSUME NEW kind \in {"none", "create", "delete", "restore"}, NEW r \in Rows,
         kind = "create" => r # Org
  PROVE  /\ kind = "delete" /\ r = Org => Hits(kind, r) = live
         /\ kind = "restore" /\ r = Org => Hits(kind, r) = created \ live
         /\ kind = "delete" /\ r \in Sites => Hits(kind, r) = {r} \cup (CamerasAt(r) \cap live)
         /\ kind = "restore" /\ r \in Sites => Hits(kind, r) = {r} \cup (CamerasAt(r) \cap (created \ live))
         /\ kind \in {"none", "create"} => Hits(kind, r) = {r}
         /\ r # Org /\ r \notin Sites => Hits(kind, r) = {r}
BY RecordAssumption DEF Hits

\* A request runs its statements: it takes rows nobody holds, and all it should.
LEMMA WriteIsSafe ==
  ASSUME RecordInv, NEW o \in Operators, WriteRecords(o)
  PROVE  RecordInv'
<1>0. /\ RecordTypes /\ op[o] \in SlotRecord /\ op[o].pc = "read"
      /\ UNCHANGED <<created, live, crossed, swept>>
  BY DEF WriteRecords, RecordInv, RecordTypes
<1>1. PICK kind, row, hit : /\ kind = op[o].kind /\ row = op[o].row
                            /\ hit = {row} \cup Hits(kind, row)
  OBVIOUS
<1>2. /\ kind \in {"create", "delete", "restore"} /\ row \in Rows
      /\ kind = "create" => row # Org
      /\ kind # "create" => row \in created
  BY <1>0, <1>1 DEF SlotRecord, RecordTypes, Named
<1>3. hit \cap HeldRows = {} /\ op' = [op EXCEPT ![o].pc = "written", ![o].hit = hit]
  BY <1>1 DEF WriteRecords
<1>4. hit \subseteq Rows
  BY <1>0, <1>1, <1>2, HitsAre DEF RecordTypes, CamerasAt, Rows, Hits
<1>5. /\ op' \in [Operators -> SlotRecord]
      /\ op'[o] = [pc |-> "written", kind |-> kind, row |-> row, hit |-> hit]
      /\ \A x \in Operators \ {o} : op'[x] = op[x]
  BY <1>0, <1>1, <1>3, <1>4 DEF RecordTypes, SlotRecord
<1>6. RecordTypes'
  BY <1>0, <1>2, <1>5 DEF RecordTypes, Named
<1>7. /\ Writing(o)'
      /\ \A x \in Operators \ {o} : Writing(x)' <=> Writing(x)
  BY <1>5 DEF Writing
<1>8. \A x \in Operators \ {o} : Writing(x) => hit \cap op[x].hit = {}
  BY <1>3 DEF HeldRows, Writing
<1>9. HeldApart'
  BY <1>5, <1>7, <1>8 DEF RecordInv, HeldApart
<1>10. HitShape'
  <2>1. /\ row \in hit
        /\ row # Org => hit \cap ({Org} \cup Sites) \subseteq {row}
    BY <1>1, <1>2, HitsAre, RecordAssumption DEF CamerasAt, Rows
  <2>2. ASSUME kind = "delete" PROVE hit \subseteq created
    <3>1. CASE row = Org
      BY <1>0, <1>1, <1>2, <2>2, <3>1, HitsAre DEF RecordTypes
    <3>2. CASE row # Org
      BY <1>0, <1>1, <1>2, <2>2, <3>2, HitsAre DEF RecordTypes
    <3> QED
      BY <3>1, <3>2
  <2> QED
    BY <1>0, <1>5, <1>7, <2>1, <2>2 DEF RecordInv, HitShape
<1>11. DeletionCovers'
  <2>1. kind = "delete" =>
          \A r \in live \ {Org} :
              \/ row = Org
              \/ r \in Cameras /\ SiteOf[r] = row
              => r \in hit
    BY <1>1, <1>2, HitsAre, RecordAssumption DEF CamerasAt
  <2> QED
    BY <1>0, <1>5, <1>7, <2>1 DEF RecordInv, DeletionCovers
<1>12. RestoreCovers'
  <2>1. kind # "delete" /\ row = Org => swept \subseteq live \cup hit
    BY <1>0, <1>1, <1>2, HitsAre DEF RecordTypes
  <2> QED
    BY <1>0, <1>5, <1>7, <2>1 DEF RecordInv, RestoreCovers
<1>13. NothingLiveBelow' /\ SweepReversed'
  BY <1>0 DEF RecordInv, NothingLiveBelow, SweepReversed
<1> QED
  BY <1>6, <1>9, <1>10, <1>11, <1>12, <1>13 DEF RecordInv

\* The commit of a deletion: what stays live below it crossed it.
LEMMA DeleteIsSafe ==
  ASSUME RecordInv, NEW o \in Operators, CommitRecords(o), op[o].kind = "delete"
  PROVE  RecordInv'
<1>1. PICK row, hit : row = op[o].row /\ hit = op[o].hit
  OBVIOUS
<1>2. /\ Writing(o) /\ op' = [op EXCEPT ![o] = FreeSlot]
      /\ live' = live \ hit /\ crossed' = crossed \ hit /\ created' = created
      /\ swept' = IF row = Org THEN hit ELSE swept \ hit
  BY <1>1 DEF CommitRecords, Writing
<1>3. /\ RecordTypes /\ row \in hit /\ hit \subseteq created
      /\ row # Org => hit \cap ({Org} \cup Sites) \subseteq {row}
  BY <1>1, <1>2 DEF RecordInv, HitShape
<1>4. /\ op' \in [Operators -> SlotRecord] /\ op'[o] = FreeSlot /\ ~Writing(o)'
      /\ \A x \in Operators \ {o} : op'[x] = op[x]
  BY <1>2, <1>3 DEF RecordTypes, FreeSlot, SlotRecord, Rows, Writing
<1>5. \A x \in Operators : Writing(x)' => /\ x # o /\ Writing(x) /\ op'[x] = op[x]
                                         /\ op[x].hit \cap hit = {}
  BY <1>1, <1>2, <1>4 DEF Writing, RecordInv, HeldApart
<1>6. RecordTypes'
  BY <1>2, <1>3, <1>4 DEF RecordTypes, Named, FreeSlot
<1>7. HeldApart' /\ HitShape'
  BY <1>2, <1>5 DEF RecordInv, HeldApart, HitShape
<1>8. DeletionCovers'
  BY <1>2, <1>5 DEF RecordInv, DeletionCovers
<1>9. RestoreCovers'
  <2> SUFFICES ASSUME NEW x \in Operators, Writing(x)', op'[x].kind # "delete", op'[x].row = Org
               PROVE  swept' \subseteq live' \cup op'[x].hit
    BY DEF RestoreCovers
  <2>1. Writing(x) /\ op'[x] = op[x] /\ op[x].hit \cap hit = {} /\ Org \in op[x].hit
    BY <1>5 DEF RecordInv, HitShape
  <2>2. row # Org /\ swept' = swept \ hit
    BY <1>2, <1>3, <2>1
  <2>3. swept \subseteq live \cup op[x].hit
    BY <2>1 DEF RecordInv, RestoreCovers
  <2> QED
    BY <1>2, <2>1, <2>2, <2>3
<1>10. NothingLiveBelow'
  <2> SUFFICES ASSUME NEW r \in live' \ {Org}, r \notin crossed'
               PROVE  Org \in live' /\ (r \in Cameras => SiteOf[r] \in live')
    BY DEF NothingLiveBelow
  <2>1. r \in live /\ r \notin hit /\ r \notin crossed
    BY <1>2
  <2>2. Org \in live /\ (r \in Cameras => SiteOf[r] \in live)
    BY <2>1 DEF RecordInv, NothingLiveBelow
  <2>3. ~(row = Org \/ (r \in Cameras /\ SiteOf[r] = row))
    BY <1>1, <1>2, <2>1 DEF RecordInv, DeletionCovers
  <2>4. Org \notin hit
    BY <1>3, <2>3
  <2>5. r \in Cameras => SiteOf[r] \notin hit
    BY <1>3, <2>3, RecordAssumption
  <2> QED
    BY <1>2, <2>2, <2>4, <2>5
<1>11. SweepReversed'
  <2>1. CASE row = Org
    BY <1>2, <1>3, <2>1 DEF SweepReversed
  <2>2. CASE row # Org
    BY <1>2, <2>2 DEF RecordInv, SweepReversed
  <2> QED
    BY <2>1, <2>2
<1> QED
  BY <1>6, <1>7, <1>8, <1>9, <1>10, <1>11 DEF RecordInv

\* The commit of a new or restored row: it has live rows above it, or it crossed.
LEMMA RevivalIsSafe ==
  ASSUME RecordInv, NEW o \in Operators, CommitRecords(o), op[o].kind # "delete"
  PROVE  RecordInv'
<1>1. PICK row, hit : row = op[o].row /\ hit = op[o].hit
  OBVIOUS
<1>2. /\ Writing(o) /\ op' = [op EXCEPT ![o] = FreeSlot]
      /\ live' = live \cup hit /\ created' = created \cup hit /\ swept' = swept
      /\ crossed' = crossed \cup {r \in hit : r # Org /\ DeletedAbove(r, o)}
  BY <1>1 DEF CommitRecords, Writing
<1>3. /\ RecordTypes /\ row \in hit /\ hit \subseteq Rows
      /\ row # Org => hit \cap ({Org} \cup Sites) \subseteq {row}
  BY <1>1, <1>2 DEF RecordInv, HitShape, RecordTypes, SlotRecord
<1>4. /\ op' \in [Operators -> SlotRecord] /\ op'[o] = FreeSlot /\ ~Writing(o)'
      /\ \A x \in Operators \ {o} : op'[x] = op[x]
  BY <1>2, <1>3 DEF RecordTypes, FreeSlot, SlotRecord, Rows, Writing
<1>5. \A x \in Operators : Writing(x)' => /\ x # o /\ Writing(x) /\ op'[x] = op[x]
                                         /\ op[x].hit \cap hit = {}
  BY <1>1, <1>2, <1>4 DEF Writing, RecordInv, HeldApart
<1>6. RecordTypes'
  BY <1>2, <1>3, <1>4 DEF RecordTypes, Named, FreeSlot
<1>7. HeldApart' /\ HitShape'
  BY <1>2, <1>5 DEF RecordInv, HeldApart, HitShape
<1>8. DeletionCovers'
  <2> SUFFICES ASSUME NEW x \in Operators, Writing(x)', op'[x].kind = "delete", NEW r \in live' \ {Org},
                      op'[x].row = Org \/ (r \in Cameras /\ SiteOf[r] = op'[x].row)
               PROVE  r \in op'[x].hit \cup crossed'
    BY DEF DeletionCovers
  <2>1. x # o /\ Writing(x) /\ op'[x] = op[x]
    BY <1>5
  <2>2. CASE r \in live
    BY <1>2, <2>1, <2>2 DEF RecordInv, DeletionCovers
  <2>3. CASE r \notin live
    <3>1. r \in hit /\ r # Org
      BY <1>2, <2>3
    <3>2. DeletedAbove(r, o)
      BY <2>1 DEF DeletedAbove, Writing
    <3> QED
      BY <1>2, <3>1, <3>2
  <2> QED
    BY <2>2, <2>3
<1>9. RestoreCovers'
  BY <1>2, <1>5 DEF RecordInv, RestoreCovers
<1>10. NothingLiveBelow'
  <2> SUFFICES ASSUME NEW r \in live' \ {Org}, r \notin crossed'
               PROVE  Org \in live' /\ (r \in Cameras => SiteOf[r] \in live')
    BY DEF NothingLiveBelow
  <2>1. CASE r \in hit
    <3>1. ~DeletedAbove(r, o)
      BY <1>2, <2>1
    <3>2. (IF r \in Cameras THEN {Org, SiteOf[r]} ELSE {Org}) \subseteq live \cup hit
      BY <1>1, <3>1 DEF DeletedAbove
    <3> QED
      BY <1>2, <3>2
  <2>2. CASE r \notin hit
    BY <1>2, <2>2 DEF RecordInv, NothingLiveBelow
  <2> QED
    BY <2>1, <2>2
<1>11. SweepReversed'
  <2>1. CASE row = Org
    BY <1>1, <1>2, <2>1 DEF RecordInv, RestoreCovers, SweepReversed
  <2>2. CASE row # Org
    BY <1>2, <1>3, <2>2 DEF RecordInv, SweepReversed
  <2> QED
    BY <2>1, <2>2
<1> QED
  BY <1>6, <1>7, <1>8, <1>9, <1>10, <1>11 DEF RecordInv

\* What is deleted has nothing live below it but what crossed the deletion, and the
\* sweep of an organisation is reversible, for any rows and any number of
\* overlapping requests (soft_delete_service.py).
THEOREM RecordsAreKept == RecordSpec => []RecordsHold
<1>1. RecordInv /\ [RecordNext]_recordVars => RecordInv'
  <2> SUFFICES ASSUME RecordInv, [RecordNext]_recordVars PROVE RecordInv'
    OBVIOUS
  <2>1. CASE UNCHANGED recordVars
    BY <2>1 DEF recordVars, RecordInv, RecordTypes, Named, HeldApart, HitShape, DeletionCovers,
                RestoreCovers, NothingLiveBelow, SweepReversed, Writing
  <2>2. ASSUME NEW o \in Operators, CommitRecords(o) PROVE RecordInv'
    BY <2>2, DeleteIsSafe, RevivalIsSafe
  <2> QED
    BY <2>1, <2>2, RequestBegins, WriteIsSafe, RequestFails DEF RecordNext
<1>2. RecordInv => RecordsHold
  BY DEF RecordInv, RecordsHold
<1> QED
  BY RecordsStart, <1>1, <1>2, PTL DEF RecordSpec

-----------------------------------------------------------------------------
(***************************************************************************)
(* Conversations.  Where no two requests met, the turns stored and the one *)
(* under way are within the limit, the last of them forced.                *)
(***************************************************************************)
AskRecord == [pc : {"idle", "charge", "model", "done", "refused"},
              conv : Conversation \cup {CHOOSE c \in Conversation : TRUE}]

\* Types.
ConversationTypes ==
    /\ ask \in [Asks -> AskRecord]
    /\ \A t \in Asks : ask[t].pc \in {"charge", "model"} => ask[t].conv \in Conversation
    /\ IsFiniteSet(stored)

\* What the compiler counts among the rows S, and a request at work in conversation c.
TurnsIn(S, c) == {r \in S : r.conv = c /\ r.role = "user" /\ r.turn \in CompileTurns}
At(t, c) == InFlight(t) /\ ask[t].conv = c

\* Without overlap a conversation has one request, its turns with the one
\* under way are within the limit, and the last of them was forced.
Uncrowded(c) ==
    /\ \A t, u \in Asks : At(t, c) /\ At(u, c) => t = u
    /\ Cardinality(TurnsIn(stored, c)) <= MaxTurns
    /\ Cardinality(TurnsIn(stored, c)) = MaxTurns => c \in forced
    /\ (\E t \in CompileTurns : At(t, c)) =>
          /\ Cardinality(TurnsIn(stored, c)) + 1 <= MaxTurns
          /\ Cardinality(TurnsIn(stored, c)) + 1 = MaxTurns => c \in forced

\* The inductive invariant.
ConversationInv ==
    /\ ConversationTypes /\ InPairs /\ DraftBeforeCutOff
    /\ \A c \in Conversation \ crowded : Uncrowded(c)

\* The rows the compiler counts are finitely many, in a part of the rows no more,
\* and one more row makes them at most one more.
LEMMA TurnsFinite ==
  ASSUME NEW S, IsFiniteSet(S), NEW c, NEW T \in SUBSET S
  PROVE  /\ Cardinality(TurnsIn(S, c)) \in Nat /\ Cardinality(TurnsIn(T, c)) \in Nat
         /\ Cardinality(TurnsIn(T, c)) <= Cardinality(TurnsIn(S, c))
<1>1. TurnsIn(S, c) \in SUBSET S /\ TurnsIn(T, c) \in SUBSET TurnsIn(S, c)
  BY DEF TurnsIn
<1>2. IsFiniteSet(TurnsIn(S, c))
  BY <1>1, FS_Subset
<1>3. IsFiniteSet(TurnsIn(T, c)) /\ Cardinality(TurnsIn(T, c)) <= Cardinality(TurnsIn(S, c))
  BY <1>1, <1>2, FS_Subset
<1> QED
  BY <1>2, <1>3, FS_CardinalityType

\* One more exchange is one more turn of its own conversation at most.
LEMMA OneMoreTurn ==
  ASSUME NEW S, IsFiniteSet(S), NEW c, NEW u, NEW a, a.role = "assistant"
  PROVE  /\ IsFiniteSet(S \cup {u, a})
         /\ Cardinality(TurnsIn(S \cup {u, a}, c)) \in Nat
         /\ Cardinality(TurnsIn(S \cup {u, a}, c)) <= Cardinality(TurnsIn(S, c)) + 1
         /\ u.conv # c \/ u.turn \notin CompileTurns =>
               TurnsIn(S \cup {u, a}, c) = TurnsIn(S, c)
<1>1. IsFiniteSet(S \cup {u}) /\ (S \cup {u}) \cup {a} = S \cup {u, a}
  BY FS_AddElement
<1>2. IsFiniteSet(S \cup {u, a})
  BY <1>1, FS_AddElement
<1>3. PICK P : P = TurnsIn(S, c)
  OBVIOUS
<1>4. IsFiniteSet(P) /\ Cardinality(P) \in Nat
  <2>1. P \in SUBSET S
    BY <1>3 DEF TurnsIn
  <2> QED
    BY <2>1, FS_Subset, FS_CardinalityType
<1>5. PICK Q : Q = TurnsIn(S \cup {u, a}, c)
  OBVIOUS
<1>6. Q \in SUBSET (P \cup {u}) /\ (u.conv # c \/ u.turn \notin CompileTurns => Q = P)
  BY <1>3, <1>5 DEF TurnsIn
<1>7. /\ IsFiniteSet(P \cup {u}) /\ Cardinality(P \cup {u}) \in Nat
      /\ Cardinality(P \cup {u}) <= Cardinality(P) + 1
  <2>1. /\ IsFiniteSet(P \cup {u})
        /\ Cardinality(P \cup {u}) = IF u \in P THEN Cardinality(P) ELSE Cardinality(P) + 1
    BY <1>4, FS_AddElement
  <2> QED
    BY <1>4, <2>1
<1>8. IsFiniteSet(Q) /\ Cardinality(Q) <= Cardinality(P \cup {u})
  BY <1>6, <1>7, FS_Subset
<1>9. Cardinality(Q) \in Nat
  BY <1>8, FS_CardinalityType
<1>10. Cardinality(Q) <= Cardinality(P) + 1
  BY <1>4, <1>7, <1>8, <1>9
<1> QED
  BY <1>2, <1>3, <1>5, <1>6, <1>9, <1>10

\* It holds at first.
LEMMA ConversationStarts == ConversationInit => ConversationInv
<1> SUFFICES ASSUME ConversationInit PROVE ConversationInv
  OBVIOUS
<1>1. ConversationTypes
  BY FS_EmptySet DEF ConversationInit, ConversationTypes, AskRecord
<1>2. \A c : TurnsIn(stored, c) = {}
  BY DEF ConversationInit, TurnsIn
<1>3. \A c \in Conversation : Uncrowded(c)
  <2> SUFFICES ASSUME NEW c \in Conversation PROVE Uncrowded(c)
    OBVIOUS
  <2>1. Cardinality(TurnsIn(stored, c)) = 0
    BY <1>2, FS_EmptySet
  <2>2. \A t \in Asks : ~At(t, c)
    BY DEF ConversationInit, At, InFlight
  <2> QED
    BY <2>1, <2>2, ConversationAssumption DEF Uncrowded, Asks
<1> QED
  BY <1>1, <1>3 DEF ConversationInit, ConversationInv, InPairs, DraftBeforeCutOff

\* A request that begins finds its conversation as the last one left it, or with
\* another at work: then the two crowd it.
LEMMA BeginIsSafe ==
  ASSUME ConversationInv, NEW t \in Asks, NEW c \in Conversation, NEW final \in BOOLEAN,
         ask[t].pc = "idle", BeginRequest(t, c, final), UNCHANGED cutOff,
         t \in CompileTurns => ~TooLong(c) /\ final = (TurnCount(c) = MaxTurns)
  PROVE  ConversationInv'
<1>0. /\ ask \in [Asks -> AskRecord] /\ IsFiniteSet(stored)
      /\ stored' = stored /\ cutOff' = cutOff
      /\ crowded \subseteq crowded' /\ forced \subseteq forced'
      /\ MaxTurns \in Nat
  BY ConversationAssumption DEF ConversationInv, ConversationTypes, BeginRequest
<1>1. /\ ask' \in [Asks -> AskRecord]
      /\ ask'[t] = [pc |-> "charge", conv |-> c]
      /\ \A u \in Asks \ {t} : ask'[u] = ask[u]
  BY <1>0 DEF BeginRequest, AskRecord
<1>2. ConversationTypes'
  BY <1>0, <1>1 DEF ConversationInv, ConversationTypes
<1>3. InPairs' /\ DraftBeforeCutOff'
  BY <1>0 DEF ConversationInv, InPairs, DraftBeforeCutOff
<1>4. ASSUME NEW d \in Conversation, d \notin crowded'
      PROVE  Uncrowded(d)'
  <2>1. Uncrowded(d) /\ d \notin crowded
    BY <1>0, <1>4 DEF ConversationInv
  <2>2. /\ \A u \in Asks \ {t} : At(u, d)' <=> At(u, d)
        /\ At(t, d)' <=> d = c
    BY <1>1 DEF At, InFlight
  <2>3. PICK n \in Nat : n = Cardinality(TurnsIn(stored, d))
    BY <1>0, TurnsFinite
  <2>4. n = Cardinality(TurnsIn(stored', d))
    BY <1>0, <2>3
  <2>5. d = c => \A u \in Asks : ~At(u, d)
    BY <1>4 DEF BeginRequest, At
  <2>6. d = c /\ t \in CompileTurns => n + 1 <= MaxTurns /\ (n + 1 = MaxTurns => d \in forced')
    <3> SUFFICES ASSUME d = c, t \in CompileTurns
                 PROVE  n + 1 <= MaxTurns /\ (n + 1 = MaxTurns => d \in forced')
      OBVIOUS
    <3>1. TurnCount(c) = 1 + n
      BY <2>3 DEF TurnCount, TurnsIn
    <3>2. ~(1 + n > MaxTurns) /\ (final <=> 1 + n = MaxTurns)
      BY <3>1 DEF TooLong
    <3>3. final => c \in forced'
      BY DEF BeginRequest
    <3> QED
      BY <1>0, <3>2, <3>3
  <2>7. \A u, w \in Asks : At(u, d)' /\ At(w, d)' => u = w
    BY <2>1, <2>2, <2>5 DEF Uncrowded
  <2>8. (\E u \in CompileTurns : At(u, d)') => n + 1 <= MaxTurns /\ (n + 1 = MaxTurns => d \in forced')
    <3> SUFFICES ASSUME NEW u \in CompileTurns, At(u, d)'
                 PROVE  n + 1 <= MaxTurns /\ (n + 1 = MaxTurns => d \in forced')
      OBVIOUS
    <3>1. CASE u = t
      BY <2>2, <2>6, <3>1
    <3>2. CASE u # t
      <4>1. At(u, d)
        BY <2>2, <3>2 DEF Asks
      <4> QED
        BY <1>0, <2>1, <2>3, <4>1 DEF Uncrowded
    <3> QED
      BY <3>1, <3>2
  <2>9. n <= MaxTurns /\ (n = MaxTurns => d \in forced')
    BY <1>0, <2>1, <2>3 DEF Uncrowded
  <2> QED
    BY <2>4, <2>7, <2>8, <2>9 DEF Uncrowded
<1> QED
  BY <1>2, <1>3, <1>4 DEF ConversationInv

\* A conversation that is refused without overlap has been forced to end.
LEMMA RefusalIsSafe ==
  ASSUME ConversationInv, NEW t \in Asks, NEW c \in Conversation, ask[t].pc = "idle",
         TooLong(c), ask' = [ask EXCEPT ![t].pc = "refused"],
         cutOff' = cutOff \cup {c}, UNCHANGED <<stored, crowded, forced>>
  PROVE  ConversationInv'
<1>0. ask \in [Asks -> AskRecord] /\ IsFiniteSet(stored) /\ MaxTurns \in Nat
  BY ConversationAssumption DEF ConversationInv, ConversationTypes
<1>1. ask' \in [Asks -> AskRecord] /\ \A u \in Asks : InFlight(u)' => InFlight(u) /\ ask'[u] = ask[u]
  BY <1>0 DEF AskRecord, InFlight
<1>2. ConversationTypes' /\ InPairs'
  BY <1>0, <1>1 DEF ConversationInv, ConversationTypes, InPairs, InFlight
<1>3. DraftBeforeCutOff'
  <2>1. c \notin crowded => c \in forced
    <3> SUFFICES ASSUME c \notin crowded PROVE c \in forced
      OBVIOUS
    <3>1. PICK n \in Nat : n = Cardinality(TurnsIn(stored, c))
      BY <1>0, TurnsFinite
    <3>2. Uncrowded(c)
      BY DEF ConversationInv
    <3>3. 1 + n > MaxTurns
      BY <3>1 DEF TooLong, TurnCount, TurnsIn
    <3>4. n <= MaxTurns /\ (n = MaxTurns => c \in forced)
      BY <3>1, <3>2 DEF Uncrowded
    <3> QED
      BY <1>0, <3>3, <3>4
  <2> QED
    BY <2>1 DEF ConversationInv, DraftBeforeCutOff
<1>4. \A d : \A u \in Asks : At(u, d)' => At(u, d)
  BY <1>1 DEF At
<1>5. \A d \in Conversation \ crowded : Uncrowded(d)'
  BY <1>4 DEF ConversationInv, Uncrowded, Asks
<1> QED
  BY <1>2, <1>3, <1>5 DEF ConversationInv

\* A request ends: with its two rows, or with nothing.
LEMMA EndingIsSafe ==
  ASSUME ConversationInv, NEW t \in Asks, InFlight(t), NEW text, NEW pc \in {"model", "done", "refused"},
         ask' = [ask EXCEPT ![t].pc = pc], UNCHANGED <<crowded, forced, cutOff>>,
         \/ stored' = stored
         \/ pc = "done" /\ stored' = stored \cup {Row(t, "user", "text"), Row(t, "assistant", text)}
  PROVE  ConversationInv'
<1>0. ask \in [Asks -> AskRecord] /\ IsFiniteSet(stored) /\ MaxTurns \in Nat
  BY ConversationAssumption DEF ConversationInv, ConversationTypes
<1>1. PICK c \in Conversation : c = ask[t].conv
  BY <1>0 DEF ConversationInv, ConversationTypes, InFlight
<1>2. /\ ask' \in [Asks -> AskRecord]
      /\ \A u \in Asks : ask'[u].conv = ask[u].conv
      /\ \A u \in Asks \ {t} : ask'[u] = ask[u]
      /\ ask'[t].pc = pc
  BY <1>0 DEF AskRecord
<1>3. \A u \in Asks, d \in Conversation : At(u, d)' => At(u, d)
  BY <1>2 DEF At, InFlight
<1> DEFINE x == Row(t, "user", "text")
           y == Row(t, "assistant", text)
<1>4. /\ x.conv = c /\ x.turn = t /\ x.role = "user"
      /\ y.conv = c /\ y.turn = t /\ y.role = "assistant"
  BY <1>1 DEF Row
<1>5. stored' = stored \/ (pc = "done" /\ stored' = stored \cup {x, y})
  OBVIOUS
<1> HIDE DEF x, y
<1>6. IsFiniteSet(stored')
  BY <1>0, <1>4, <1>5, OneMoreTurn
<1>7. ConversationTypes'
  BY <1>2, <1>3, <1>6 DEF ConversationInv, ConversationTypes, InFlight
<1>8. InPairs' /\ DraftBeforeCutOff'
  BY <1>4, <1>5 DEF ConversationInv, InPairs, DraftBeforeCutOff
<1>9. ASSUME NEW d \in Conversation \ crowded
      PROVE  Uncrowded(d)'
  <2>1. Uncrowded(d)
    BY DEF ConversationInv
  <2>2. PICK n \in Nat : n = Cardinality(TurnsIn(stored, d))
    BY <1>0, TurnsFinite
  <2>3. n <= MaxTurns /\ (n = MaxTurns => d \in forced)
    BY <2>1, <2>2 DEF Uncrowded
  <2>4. \A u, w \in Asks : At(u, d)' /\ At(w, d)' => u = w
    BY <1>3, <2>1 DEF Uncrowded
  <2>5. (\E u \in CompileTurns : At(u, d)') => n + 1 <= MaxTurns /\ (n + 1 = MaxTurns => d \in forced)
    BY <1>3, <2>1, <2>2 DEF Uncrowded, Asks
  <2>6. CASE TurnsIn(stored', d) = TurnsIn(stored, d)
    BY <2>2, <2>3, <2>4, <2>5, <2>6 DEF Uncrowded
  <2>7. CASE TurnsIn(stored', d) # TurnsIn(stored, d)
    <3>1. /\ pc = "done" /\ d = c /\ t \in CompileTurns
          /\ Cardinality(TurnsIn(stored', d)) \in Nat
          /\ Cardinality(TurnsIn(stored', d)) <= n + 1
      BY <1>0, <1>4, <1>5, <2>2, <2>7, OneMoreTurn
    <3>2. At(t, d)
      BY <1>1, <3>1 DEF At
    <3>3. n + 1 <= MaxTurns /\ (n + 1 = MaxTurns => d \in forced)
      BY <2>1, <2>2, <3>1, <3>2 DEF Uncrowded
    <3>4. \A u \in Asks : ~At(u, d)'
      <4>1. ~At(t, d)'
        BY <1>2, <3>1 DEF At, InFlight
      <4> QED
        BY <1>3, <2>1, <3>2, <4>1 DEF Uncrowded
    <3>5. PICK m \in Nat : m = Cardinality(TurnsIn(stored', d))
      BY <3>1
    <3>6. m <= MaxTurns /\ (m = MaxTurns => d \in forced)
      BY <1>0, <3>1, <3>3, <3>5
    <3> QED
      BY <3>4, <3>5, <3>6 DEF Uncrowded, Asks
  <2> QED
    BY <2>6, <2>7
<1> QED
  BY <1>7, <1>8, <1>9 DEF ConversationInv

\* A deleted conversation loses messages and replies alike.
LEMMA DeletionIsSafe ==
  ASSUME ConversationInv, NEW c \in Conversation, DeleteConversation(c)
  PROVE  ConversationInv'
<1>0. /\ ask \in [Asks -> AskRecord] /\ IsFiniteSet(stored) /\ MaxTurns \in Nat
      /\ stored' = {r \in stored : r.conv # c} /\ stored' \in SUBSET stored
      /\ UNCHANGED <<ask, crowded, forced, cutOff>>
  BY ConversationAssumption DEF ConversationInv, ConversationTypes, DeleteConversation
<1>1. ConversationTypes'
  BY <1>0, FS_Subset DEF ConversationInv, ConversationTypes
<1>2. InPairs' /\ DraftBeforeCutOff'
  BY <1>0 DEF ConversationInv, InPairs, DraftBeforeCutOff
<1>3. ASSUME NEW d \in Conversation \ crowded
      PROVE  Uncrowded(d)'
  <2>1. Uncrowded(d) /\ \A u \in Asks : At(u, d)' <=> At(u, d)
    BY <1>0 DEF ConversationInv, At, InFlight
  <2>2. PICK n \in Nat : n = Cardinality(TurnsIn(stored, d))
    BY <1>0, TurnsFinite
  <2>3. PICK m \in Nat : m = Cardinality(TurnsIn(stored', d))
    BY <1>0, TurnsFinite
  <2>4. m <= n
    BY <1>0, <2>2, <2>3, TurnsFinite
  <2>5. n <= MaxTurns /\ (n = MaxTurns => d \in forced)
    BY <2>1, <2>2 DEF Uncrowded
  <2>6. (\E u \in CompileTurns : At(u, d)) => n + 1 <= MaxTurns /\ (n + 1 = MaxTurns => d \in forced)
    BY <2>1, <2>2 DEF Uncrowded
  <2>7. m <= MaxTurns /\ (m = MaxTurns => d \in forced)
    BY <1>0, <2>4, <2>5
  <2>8. (\E u \in CompileTurns : At(u, d)) => m + 1 <= MaxTurns /\ (m + 1 = MaxTurns => d \in forced)
    BY <1>0, <2>4, <2>6
  <2> QED
    BY <1>0, <2>1, <2>3, <2>7, <2>8 DEF Uncrowded, Asks
<1> QED
  BY <1>0, <1>1, <1>2, <1>3 DEF ConversationInv

\* Every step keeps it.
LEMMA ConversationStep ==
  ASSUME ConversationInv, [ConversationNext]_conversationVars
  PROVE  ConversationInv'
<1>1. ASSUME NEW t \in Asks, NEW c \in Conversation, BeginChat(t, c)
      PROVE  ConversationInv'
  <2>1. t \notin CompileTurns /\ ask[t].pc = "idle" /\ BeginRequest(t, c, FALSE) /\ UNCHANGED cutOff
    BY <1>1, ConversationAssumption DEF BeginChat
  <2> QED
    BY <2>1, BeginIsSafe
<1>2. ASSUME NEW t \in Asks, NEW c \in Conversation, BeginCompile(t, c)
      PROVE  ConversationInv'
  <2>1. CASE TooLong(c)
    BY <1>2, <2>1, RefusalIsSafe DEF BeginCompile
  <2>2. CASE ~TooLong(c)
    <3>1. PICK final \in BOOLEAN : final = (TurnCount(c) = MaxTurns)
      OBVIOUS
    <3>2. ask[t].pc = "idle" /\ BeginRequest(t, c, final) /\ UNCHANGED cutOff
      BY <1>2, <2>2, <3>1 DEF BeginCompile
    <3> QED
      BY <2>2, <3>1, <3>2, BeginIsSafe
  <2> QED
    BY <2>1, <2>2
<1>3. ASSUME NEW t \in Asks, Charge(t) \/ ModelReplies(t) \/ ModelFailed(t)
      PROVE  ConversationInv'
  <2>1. InFlight(t) /\ UNCHANGED <<crowded, forced, cutOff>>
    BY <1>3 DEF Charge, ModelReplies, ModelFailed, InFlight
  <2>2. \/ ask' = [ask EXCEPT ![t].pc = "model"] /\ stored' = stored
        \/ RollBack(t)
        \/ \E text : StoreExchange(t, text)
    BY <1>3 DEF Charge, ModelReplies, ModelFailed
  <2>3. ASSUME NEW text, StoreExchange(t, text) PROVE ConversationInv'
    BY <2>1, <2>3, EndingIsSafe DEF StoreExchange
  <2>4. ASSUME RollBack(t) PROVE ConversationInv'
    BY <2>1, <2>4, EndingIsSafe DEF RollBack
  <2>5. ASSUME ask' = [ask EXCEPT ![t].pc = "model"], stored' = stored PROVE ConversationInv'
    BY <2>1, <2>5, EndingIsSafe
  <2> QED
    BY <2>2, <2>3, <2>4, <2>5
<1>4. ASSUME UNCHANGED conversationVars PROVE ConversationInv'
  <2>1. UNCHANGED <<stored, ask, crowded, forced, cutOff>>
    BY <1>4 DEF conversationVars
  <2>2. \A d : (\A u \in Asks : At(u, d)' <=> At(u, d)) /\ TurnsIn(stored', d) = TurnsIn(stored, d)
    BY <2>1 DEF At, InFlight
  <2>3. \A d \in Conversation : Uncrowded(d) => Uncrowded(d)'
    BY <2>1, <2>2 DEF Uncrowded, Asks
  <2> QED
    BY <2>1, <2>3 DEF ConversationInv, ConversationTypes, InPairs, DraftBeforeCutOff
<1> QED
  BY <1>1, <1>2, <1>3, <1>4, DeletionIsSafe DEF ConversationNext

\* Every message has its reply; a conversation with the compiler stays within its
\* turns and is refused only after a forced draft, unless requests overlapped in it
\* (chat.py, cameras.py).
THEOREM ConversationsAreKept == ConversationSpec => []ConversationsHold
<1>1. ConversationInv => ConversationsHold
  <2> SUFFICES ASSUME ConversationInv PROVE ConversationsHold
    OBVIOUS
  <2>1. TurnsBounded
    <3> SUFFICES ASSUME NEW c \in Conversation, c \notin crowded
                 PROVE  ~(Cardinality({r \in stored : /\ r.conv = c /\ r.role = "user"
                                                      /\ r.turn \in CompileTurns}) > MaxTurns)
      BY DEF TurnsBounded
    <3>1. PICK n \in Nat : n = Cardinality(TurnsIn(stored, c))
      BY TurnsFinite DEF ConversationInv, ConversationTypes
    <3>2. n <= MaxTurns
      BY <3>1 DEF ConversationInv, Uncrowded
    <3> QED
      BY <3>1, <3>2, ConversationAssumption DEF TurnsIn
  <2> QED
    BY <2>1 DEF ConversationInv, ConversationsHold
<1>2. ConversationInv /\ [ConversationNext]_conversationVars => ConversationInv'
  BY ConversationStep
<1> QED
  BY ConversationStarts, <1>1, <1>2, PTL DEF ConversationSpec

-----------------------------------------------------------------------------
(***************************************************************************)
(* Proposals.  What a click knows of the row it read, as long as no other  *)
(* click reads it too.                                                     *)
(***************************************************************************)
TurnRecord == [pc : {"idle", "calling", "tools", "answered", "failed"}, calls : Nat,
               drawn : SUBSET Drafts, broken : BOOLEAN]
ClickRecord == [pc : {"idle", "read", "run", "done"}, op : {"apply", "reject"},
                p : Drafts \cup {NoClick.p}, saw : {"pending", "applied", "rejected"},
                late : BOOLEAN, linked : BOOLEAN]

\* Types.
ProposalTypes ==
    /\ status \in [Drafts -> {"absent", "pending", "applied", "rejected"}]
    /\ turn \in [Turns -> TurnRecord]
    /\ click \in [Clicks -> ClickRecord]
    /\ made \in [Drafts -> Nat]
    /\ linked \in BOOLEAN
    /\ shown \subseteq Drafts

\* Two turns draw different ids, and nobody else sees a row before its turn commits.
DrawnApart ==
    \A t \in Turns : \A p \in turn[t].drawn :
        /\ status[p] = "absent"
        /\ \A u \in Turns \ {t} : p \notin turn[u].drawn

\* What a click still knows of the row it read.
ClickKnows(c) ==
    Clicking(c) =>
        /\ click[c].p \in Drafts /\ status[click[c].p] # "absent"
        /\ click[c].pc = "run" => click[c].saw = "pending"
        /\ click[c].p \notin raced =>
              /\ click[c].saw = status[click[c].p]
              /\ \A d \in Clicks : Clicking(d) /\ click[d].p = click[c].p => d = c

ClicksKnow == \A c \in Clicks : ClickKnows(c)

\* Nothing is made of a row that nobody answered.
Unanswered == \A p \in Drafts : status[p] \in {"absent", "pending"} => made[p] = 0

\* The inductive invariant.
ProposalInv ==
    /\ ProposalTypes /\ DrawnApart /\ ClicksKnow /\ Unanswered
    /\ MadeOnce /\ StatusTellsTruth /\ ShownIsStored

\* It holds at first.
LEMMA ProposalInitInv == ProposalInit => ProposalInv
<1> SUFFICES ASSUME ProposalInit PROVE ProposalInv
  OBVIOUS
<1> USE DEF ProposalInit
<1>1. NoClick \in ClickRecord
  BY DEF NoClick, ClickRecord
<1>2. ProposalTypes
  BY <1>1 DEF ProposalTypes, TurnRecord, Drafts
<1>3. \A c \in Clicks : ~Clicking(c)
  BY DEF Clicking, NoClick
<1>4. DrawnApart /\ ClicksKnow /\ Unanswered
  BY <1>3 DEF DrawnApart, ClicksKnow, ClickKnows, Unanswered
<1>5. MadeOnce /\ StatusTellsTruth /\ ShownIsStored
  BY DEF MadeOnce, StatusTellsTruth, ShownIsStored, Drafts
<1> QED
  BY <1>2, <1>4, <1>5 DEF ProposalInv

\* Steps of a turn before its answer: no row and no click changes.
LEMMA TurnWorks ==
  ASSUME ProposalInv, NEW t \in Turns,
         ChargeCall(t) \/ ModelFails(t) \/ RunTool(t) \/ NextIteration(t)
  PROVE  ProposalInv'
<1>0. /\ UNCHANGED <<status, overdue, click, made, linked, raced, shown>>
      /\ turn \in [Turns -> TurnRecord] /\ turn[t] \in TurnRecord
  BY DEF ChargeCall, ModelFails, RunTool, NextIteration, ProposalInv, ProposalTypes
<1>1. /\ turn' \in [Turns -> TurnRecord]
      /\ \A u \in Turns \ {t} : turn'[u] = turn[u]
      /\ \A p \in turn'[t].drawn : \/ p \in turn[t].drawn
                                   \/ p \in Drafts /\ status[p] = "absent" /\ p \notin Drawn
  <2>1. CASE ChargeCall(t)
    BY <1>0, <2>1 DEF ChargeCall, AbandonTurn, TurnRecord
  <2>2. CASE ModelFails(t)
    BY <1>0, <2>2 DEF ModelFails, AbandonTurn, TurnRecord
  <2>3. CASE RunTool(t)
    BY <1>0, <2>3 DEF RunTool, TurnRecord
  <2>4. CASE NextIteration(t)
    BY <1>0, <2>4 DEF NextIteration, TurnRecord
  <2> QED
    BY <2>1, <2>2, <2>3, <2>4
<1>2. \A u \in Turns : turn[u].drawn \subseteq Drawn
  BY DEF Drawn
<1>3. DrawnApart'
  BY <1>0, <1>1, <1>2 DEF ProposalInv, DrawnApart
<1>4. ProposalTypes'
  BY <1>0, <1>1 DEF ProposalInv, ProposalTypes
<1>5. ClicksKnow'
  BY <1>0 DEF ProposalInv, ClicksKnow, ClickKnows, Clicking
<1>6. Unanswered' /\ MadeOnce' /\ StatusTellsTruth' /\ ShownIsStored'
  BY <1>0 DEF ProposalInv, Unanswered, MadeOnce, StatusTellsTruth, ShownIsStored
<1> QED
  BY <1>3, <1>4, <1>5, <1>6 DEF ProposalInv

\* The answer commits the rows of its turn, or nothing.
LEMMA AnswerStores ==
  ASSUME ProposalInv, NEW t \in Turns, FinishTurn(t)
  PROVE  ProposalInv'
<1>0. /\ UNCHANGED <<overdue, click, made, linked, raced>> /\ ProposalTypes /\ DrawnApart
      /\ turn \in [Turns -> TurnRecord] /\ turn[t] \in TurnRecord
  BY DEF FinishTurn, ProposalInv, ProposalTypes
<1> DEFINE D == turn[t].drawn
<1>1. /\ turn' \in [Turns -> TurnRecord] /\ turn'[t].drawn = {}
      /\ \A u \in Turns \ {t} : turn'[u] = turn[u]
  BY <1>0 DEF FinishTurn, StoreAnswer, AbandonTurn, TurnRecord
<1>2. CASE turn[t].broken
  <2>1. UNCHANGED <<status, shown>>
    BY <1>2 DEF FinishTurn, StoreAnswer
  <2>2. DrawnApart'
    BY <1>0, <1>1, <2>1 DEF DrawnApart
  <2>3. ProposalTypes'
    BY <1>0, <1>1, <2>1 DEF ProposalTypes
  <2>4. ClicksKnow'
    BY <1>0, <2>1 DEF ProposalInv, ClicksKnow, ClickKnows, Clicking
  <2>5. Unanswered' /\ MadeOnce' /\ StatusTellsTruth' /\ ShownIsStored'
    BY <1>0, <2>1 DEF ProposalInv, Unanswered, MadeOnce, StatusTellsTruth, ShownIsStored
  <2> QED
    BY <2>2, <2>3, <2>4, <2>5 DEF ProposalInv
<1>3. CASE ~turn[t].broken
  <2>1. /\ status' = [p \in Drafts |-> IF p \in turn[t].drawn THEN "pending" ELSE status[p]]
        /\ shown' = shown \cup D
    BY <1>3 DEF FinishTurn, StoreAnswer
  <2>2. D \subseteq Drafts /\ \A p \in D : status[p] = "absent"
    BY <1>0 DEF TurnRecord, DrawnApart
  <2>3. \A p \in Drafts : /\ p \in D => status[p] = "absent" /\ status'[p] = "pending"
                          /\ p \notin D => status'[p] = status[p]
    BY <2>1, <2>2
  <2>4. DrawnApart'
    <3> SUFFICES ASSUME NEW u \in Turns, NEW p \in turn'[u].drawn
                 PROVE  status'[p] = "absent" /\ \A w \in Turns \ {u} : p \notin turn'[w].drawn
      BY DEF DrawnApart
    <3>1. u # t /\ turn'[u] = turn[u] /\ p \in turn[u].drawn
      BY <1>1
    <3>2. p \in Drafts /\ p \notin D
      BY <1>0, <3>1 DEF TurnRecord, DrawnApart
    <3> QED
      BY <1>0, <1>1, <2>3, <3>1, <3>2 DEF DrawnApart
  <2>5. ProposalTypes'
    BY <1>0, <1>1, <2>1, <2>2 DEF ProposalTypes
  <2>6. ClicksKnow'
    <3> SUFFICES ASSUME NEW c \in Clicks, Clicking(c)' PROVE ClickKnows(c)'
      BY DEF ClicksKnow, ClickKnows
    <3>1. Clicking(c) /\ ClickKnows(c)
      BY <1>0 DEF Clicking, ProposalInv, ClicksKnow
    <3>2. click[c].p \in Drafts /\ status'[click[c].p] = status[click[c].p]
      BY <2>3, <3>1 DEF ClickKnows
    <3> QED
      BY <1>0, <3>1, <3>2 DEF ClickKnows, Clicking
  <2>7. Unanswered'
    BY <1>0, <2>3 DEF ProposalInv, Unanswered
  <2>8. MadeOnce'
    BY <1>0 DEF ProposalInv, MadeOnce
  <2>9. StatusTellsTruth'
    BY <1>0, <2>3 DEF ProposalInv, StatusTellsTruth, Unanswered, Drafts
  <2>10. ShownIsStored'
    BY <1>0, <2>1, <2>2, <2>3 DEF ProposalInv, ShownIsStored, ProposalTypes
  <2> QED
    BY <2>4, <2>5, <2>6, <2>7, <2>8, <2>9, <2>10 DEF ProposalInv
<1> QED
  BY <1>2, <1>3

\* A click reads a row that is stored; two at one row make it a race.
LEMMA ReadIsSafe ==
  ASSUME ProposalInv, NEW c \in Clicks, NEW w \in {"apply", "reject"}, NEW p \in Drafts,
         ReadProposal(c, w, p)
  PROVE  ProposalInv'
<1>0. /\ UNCHANGED <<status, overdue, turn, made, linked, shown>>
      /\ click \in [Clicks -> ClickRecord] /\ click[c].pc = "idle" /\ status[p] # "absent"
      /\ raced \subseteq raced'
  BY DEF ReadProposal, ProposalInv, ProposalTypes
<1> DEFINE x == [NoClick EXCEPT !.pc = "read", !.op = w, !.p = p,
                                !.saw = status[p], !.late = p \in overdue]
<1> HIDE DEF x
<1>1. /\ x \in ClickRecord /\ x.pc = "read" /\ x.p = p /\ x.saw = status[p]
  <2>1. status[p] \in {"pending", "applied", "rejected"}
    BY <1>0 DEF ProposalInv, ProposalTypes
  <2>2. (p \in overdue) \in BOOLEAN
    OBVIOUS
  <2>0. PICK late \in BOOLEAN : late = (p \in overdue)
    BY <2>2, Zenon
  <2>4. x = [NoClick EXCEPT !.pc = "read", !.op = w, !.p = p, !.saw = status[p], !.late = late]
    BY <2>0, Zenon DEF x
  <2>3. x = [pc |-> "read", op |-> w, p |-> p, saw |-> status[p], late |-> late, linked |-> FALSE]
    BY <2>4 DEF NoClick
  <2> QED
    BY <2>1, <2>3 DEF ClickRecord
<1>2. click' = [click EXCEPT ![c] = x]
  BY DEF ReadProposal, x
<1>3. /\ click' \in [Clicks -> ClickRecord] /\ click'[c] = x
      /\ \A d \in Clicks \ {c} : click'[d] = click[d]
  BY <1>0, <1>1, <1>2
<1>4. /\ \A d \in Clicks \ {c} : Clicking(d)' <=> Clicking(d)
      /\ ~Clicking(c)
  BY <1>0, <1>3 DEF Clicking
<1>5. ClicksKnow'
  <2> SUFFICES ASSUME NEW d \in Clicks, Clicking(d)' PROVE ClickKnows(d)'
    BY DEF ClicksKnow, ClickKnows
  <2>1. p \notin raced' => \A e \in Clicks \ {c} : Clicking(e) => click[e].p # p
    BY DEF ReadProposal
  <2>2. CASE d = c
    BY <1>0, <1>1, <1>3, <1>4, <2>1, <2>2 DEF ClickKnows
  <2>3. CASE d # c
    <3>1. Clicking(d) /\ ClickKnows(d) /\ click'[d] = click[d]
      BY <1>3, <1>4, <2>3 DEF ProposalInv, ClicksKnow
    <3>2. click[d].p \notin raced' => click[d].p # p
      BY <2>1, <2>3, <3>1
    <3> QED
      BY <1>0, <1>1, <1>3, <1>4, <3>1, <3>2 DEF ClickKnows
  <2> QED
    BY <2>2, <2>3
<1>6. ProposalTypes'
  BY <1>0, <1>3 DEF ProposalInv, ProposalTypes
<1>7. DrawnApart'
  BY <1>0 DEF ProposalInv, DrawnApart
<1>8. Unanswered' /\ MadeOnce' /\ StatusTellsTruth' /\ ShownIsStored'
  BY <1>0 DEF ProposalInv, Unanswered, MadeOnce, StatusTellsTruth, ShownIsStored
<1> QED
  BY <1>5, <1>6, <1>7, <1>8 DEF ProposalInv

\* A click that is answered without a change, or looks for the pair first.
LEMMA LookingIsSafe ==
  ASSUME ProposalInv, NEW c \in Clicks, Decline(c) \/ RunApplier(c)
  PROVE  ProposalInv'
<1>0. /\ UNCHANGED <<status, overdue, turn, made, linked, raced, shown>>
      /\ click \in [Clicks -> ClickRecord] /\ click[c].pc = "read" /\ linked \in BOOLEAN
      /\ click[c] \in ClickRecord
  BY DEF Decline, RunApplier, ProposalInv, ProposalTypes
<1>1. /\ click' \in [Clicks -> ClickRecord]
      /\ click'[c].pc \in {"run", "done"}
      /\ click'[c].p = click[c].p /\ click'[c].saw = click[c].saw
      /\ click'[c].pc = "run" => click[c].saw = "pending"
      /\ \A d \in Clicks \ {c} : click'[d] = click[d]
  <2>1. CASE Decline(c)
    BY <1>0, <2>1 DEF Decline, ClickRecord
  <2>2. CASE RunApplier(c)
    BY <1>0, <2>2 DEF RunApplier, Answered, ClickRecord
  <2> QED
    BY <2>1, <2>2
<1>2. \A d \in Clicks : /\ click'[d].p = click[d].p /\ click'[d].saw = click[d].saw
                        /\ Clicking(d)' => Clicking(d)
  BY <1>0, <1>1 DEF Clicking
<1>3. ClicksKnow'
  <2> SUFFICES ASSUME NEW d \in Clicks, Clicking(d)' PROVE ClickKnows(d)'
    BY DEF ClicksKnow, ClickKnows
  <2>1. Clicking(d) /\ ClickKnows(d)
    BY <1>2 DEF ProposalInv, ClicksKnow
  <2>2. click'[d].pc = "run" => click'[d].saw = "pending"
    BY <1>1, <1>2, <2>1 DEF ClickKnows
  <2> QED
    BY <1>0, <1>2, <2>1, <2>2 DEF ClickKnows
<1>4. ProposalTypes'
  BY <1>0, <1>1 DEF ProposalInv, ProposalTypes
<1>5. DrawnApart'
  BY <1>0 DEF ProposalInv, DrawnApart
<1>6. Unanswered' /\ MadeOnce' /\ StatusTellsTruth' /\ ShownIsStored'
  BY <1>0 DEF ProposalInv, Unanswered, MadeOnce, StatusTellsTruth, ShownIsStored
<1> QED
  BY <1>3, <1>4, <1>5, <1>6 DEF ProposalInv

\* The commit of a click: alone at its row, it found it unanswered.
LEMMA CommitIsSafe ==
  ASSUME ProposalInv, NEW c \in Clicks, CommitClick(c)
  PROVE  ProposalInv'
<1>0. /\ UNCHANGED <<overdue, turn, raced, shown>> /\ click[c].pc = "run"
      /\ click' = [click EXCEPT ![c].pc = "done"]
      /\ click \in [Clicks -> ClickRecord] /\ click[c] \in ClickRecord
      /\ status \in [Drafts -> {"absent", "pending", "applied", "rejected"}]
      /\ made \in [Drafts -> Nat] /\ linked \in BOOLEAN
  BY DEF CommitClick, ProposalInv, ProposalTypes
<1>1. PICK p \in Drafts : p = click[c].p
  BY <1>0 DEF ProposalInv, ClicksKnow, ClickKnows, Clicking
<1>2. /\ status[p] # "absent" /\ Clicking(c)
      /\ p \notin raced => /\ status[p] = "pending"
                           /\ \A d \in Clicks : Clicking(d) /\ click[d].p = p => d = c
  BY <1>0, <1>1 DEF ProposalInv, ClicksKnow, ClickKnows, Clicking
<1>3. /\ click' \in [Clicks -> ClickRecord]
      /\ \A d \in Clicks \ {c} : click'[d] = click[d]
      /\ ~Clicking(c)'
  BY <1>0 DEF ClickRecord, Clicking
<1>4. PICK isApply \in BOOLEAN : isApply = (click[c].op = "apply")
  OBVIOUS
<1>5. \/ UNCHANGED <<status, made, linked>>
      \/ /\ status' = [status EXCEPT ![p] = IF isApply THEN "applied" ELSE "rejected"]
         /\ made' = [made EXCEPT ![p] = IF isApply /\ p \in RuleProposals THEN @ + 1 ELSE @]
         /\ linked' \in BOOLEAN
  BY <1>0, <1>1, <1>4 DEF CommitClick
<1>6. /\ status' \in [Drafts -> {"absent", "pending", "applied", "rejected"}]
      /\ made' \in [Drafts -> Nat] /\ linked' \in BOOLEAN
      /\ \A q \in Drafts \ {p} : status'[q] = status[q] /\ made'[q] = made[q]
      /\ \A q \in Drafts : /\ status[q] = "absent" <=> status'[q] = "absent"
                           /\ status'[q] \in {"absent", "pending"} => status'[q] = status[q] /\ made'[q] = made[q]
  BY <1>0, <1>2, <1>5
<1>7. p \notin raced =>
        /\ made'[p] \in {0, 1}
        /\ p \in RuleProposals => (made'[p] > 0 <=> status'[p] = "applied")
  <2> SUFFICES ASSUME p \notin raced
               PROVE  /\ made'[p] \in {0, 1}
                      /\ p \in RuleProposals => (made'[p] > 0 <=> status'[p] = "applied")
    OBVIOUS
  <2>1. status[p] = "pending" /\ made[p] = 0
    BY <1>2 DEF ProposalInv, Unanswered
  <2> QED
    BY <1>0, <1>5, <2>1
<1>8. ProposalTypes'
  BY <1>0, <1>3, <1>6 DEF ProposalInv, ProposalTypes
<1>9. DrawnApart'
  <2>1. \A t \in Turns : turn[t].drawn \subseteq Drafts
    BY DEF ProposalInv, ProposalTypes, TurnRecord
  <2> QED
    BY <1>0, <1>6, <2>1 DEF ProposalInv, DrawnApart
<1>10. ClicksKnow'
  <2> SUFFICES ASSUME NEW d \in Clicks, Clicking(d)' PROVE ClickKnows(d)'
    BY DEF ClicksKnow, ClickKnows
  <2>1. d # c /\ click'[d] = click[d] /\ Clicking(d) /\ ClickKnows(d)
    BY <1>3 DEF Clicking, ProposalInv, ClicksKnow
  <2>2. click[d].p \in Drafts /\ (click[d].p \notin raced => click[d].p # p)
    BY <1>2, <2>1 DEF ClickKnows
  <2>3. click[d].p \notin raced => status'[click[d].p] = status[click[d].p]
    BY <1>6, <2>2
  <2>4. \A e \in Clicks : Clicking(e)' => Clicking(e) /\ click'[e] = click[e]
    BY <1>3 DEF Clicking
  <2> QED
    BY <1>0, <1>6, <2>1, <2>2, <2>3, <2>4 DEF ClickKnows
<1>11. Unanswered'
  BY <1>6 DEF ProposalInv, Unanswered
<1>12. MadeOnce'
  BY <1>0, <1>6, <1>7 DEF ProposalInv, MadeOnce
<1>13. StatusTellsTruth'
  BY <1>0, <1>6, <1>7 DEF ProposalInv, StatusTellsTruth, Drafts
<1>14. ShownIsStored'
  BY <1>0, <1>6 DEF ProposalInv, ShownIsStored, ProposalTypes
<1> QED
  BY <1>8, <1>9, <1>10, <1>11, <1>12, <1>13, <1>14 DEF ProposalInv

\* Time and the map keep it.
LEMMA OtherProposalSteps ==
  ASSUME ProposalInv,
         (\E p \in Drafts : ProposalExpires(p)) \/ DrawConnection \/ UNCHANGED proposalVars
  PROVE  ProposalInv'
<1>1. /\ UNCHANGED <<status, turn, click, made, raced, shown>>
      /\ linked' \in BOOLEAN
  BY DEF ProposalInv, ProposalTypes, ProposalExpires, DrawConnection, proposalVars
<1>2. ProposalTypes' /\ DrawnApart'
  BY <1>1 DEF ProposalInv, ProposalTypes, DrawnApart
<1>3. ClicksKnow'
  BY <1>1 DEF ProposalInv, ClicksKnow, ClickKnows, Clicking
<1>4. Unanswered' /\ MadeOnce' /\ StatusTellsTruth' /\ ShownIsStored'
  BY <1>1 DEF ProposalInv, Unanswered, MadeOnce, StatusTellsTruth, ShownIsStored
<1> QED
  BY <1>2, <1>3, <1>4 DEF ProposalInv

\* A proposal is made once, reads as what happened to it, and is stored when it is
\* shown, for any number of turns and clicks, unless two clicks crossed at it
\* (proposals.py, loop.py).
THEOREM ProposalsAreKept == ProposalSpec => []ProposalsHold
<1>1. ProposalInv /\ [ProposalNext]_proposalVars => ProposalInv'
  <2> SUFFICES ASSUME ProposalInv, [ProposalNext]_proposalVars PROVE ProposalInv'
    OBVIOUS
  <2> QED
    BY TurnWorks, AnswerStores, ReadIsSafe, LookingIsSafe, CommitIsSafe, OtherProposalSteps
       DEF ProposalNext
<1>2. ProposalInv => ProposalsHold
  BY DEF ProposalInv, ProposalsHold
<1> QED
  BY ProposalInitInv, <1>1, <1>2, PTL DEF ProposalSpec
-----------------------------------------------------------------------------
(***************************************************************************)
(* Digests.  A sorted window is a rank function read backwards; the sample *)
(* steps through it by at least one place at a time, and arrives at both   *)
(* ends.  The window is the documented span when the job was planned by    *)
(* the preferences that still hold, because a job waits only in the hour   *)
(* it is planned for (WaitsInItsHour).                                     *)
(***************************************************************************)

Earlier(E, e) == {x \in E : x < e}
Rank(E, e) == Cardinality(Earlier(E, e))

LEMMA RankRises ==
    ASSUME NEW E \in SUBSET Nat, IsFiniteSet(E)
    PROVE  /\ \A e \in E : Rank(E, e) \in 0..(Cardinality(E) - 1)
           /\ \A e, f \in E : e < f => Rank(E, e) < Rank(E, f)
<1>0. Cardinality(E) \in Nat
  BY FS_CardinalityType
<1>1. ASSUME NEW e \in E
      PROVE  /\ IsFiniteSet(Earlier(E, e)) /\ Rank(E, e) \in Nat
             /\ Cardinality(Earlier(E, e) \cup {e}) = Rank(E, e) + 1
  <2>1. Earlier(E, e) \in SUBSET E /\ e \notin Earlier(E, e)
    BY DEF Earlier
  <2>2. IsFiniteSet(Earlier(E, e))
    BY <2>1, FS_Subset
  <2>3. QED BY <2>1, <2>2, FS_CardinalityType, FS_AddElement DEF Rank
<1>2. ASSUME NEW e \in E PROVE Rank(E, e) \in 0..(Cardinality(E) - 1)
  <2>1. Earlier(E, e) \cup {e} \in SUBSET E
    BY DEF Earlier
  <2>2. Cardinality(Earlier(E, e) \cup {e}) <= Cardinality(E)
    BY <2>1, FS_Subset
  <2>3. QED BY <1>0, <1>1, <2>2
<1>3. ASSUME NEW e \in E, NEW f \in E, e < f PROVE Rank(E, e) < Rank(E, f)
  <2>1. Earlier(E, e) \cup {e} \in SUBSET Earlier(E, f)
    <3>1. \A x \in Earlier(E, e) : x \in E /\ x < e /\ x \in Nat /\ e \in Nat /\ f \in Nat
      BY DEF Earlier
    <3>2. \A x \in Earlier(E, e) : x \in E /\ x < f
      BY <1>3, <3>1
    <3>3. QED BY <1>3, <3>2 DEF Earlier
  <2>2. Cardinality(Earlier(E, e) \cup {e}) <= Rank(E, f)
    BY <1>1, <2>1, FS_Subset DEF Rank
  <2>3. /\ Rank(E, e) \in Nat /\ Rank(E, f) \in Nat
        /\ Cardinality(Earlier(E, e) \cup {e}) = Rank(E, e) + 1
    BY <1>1
  <2>4. QED BY <2>2, <2>3
<1>4. QED BY <1>2, <1>3

LEMMA InOrder ==
    ASSUME NEW E \in SUBSET Nat, IsFiniteSet(E)
    PROVE  /\ InTimeOrder(E) \in [1..Cardinality(E) -> E]
           /\ \A i, j \in 1..Cardinality(E) : i < j => InTimeOrder(E)[i] < InTimeOrder(E)[j]
           /\ \A e \in E : \E i \in 1..Cardinality(E) : InTimeOrder(E)[i] = e
<1> DEFINE n == Cardinality(E)
           r == [e \in E |-> Rank(E, e) + 1]
<1>0. n \in Nat
  BY FS_CardinalityType
<1>1. r \in [E -> 1..n] /\ \A e, f \in E : e < f => r[e] < r[f]
  <2>1. ASSUME NEW e \in E PROVE Rank(E, e) + 1 \in 1..n
    BY <1>0, RankRises
  <2>2. ASSUME NEW e \in E, NEW f \in E, e < f PROVE Rank(E, e) + 1 < Rank(E, f) + 1
    <3>1. Rank(E, e) < Rank(E, f) /\ Rank(E, e) \in Int /\ Rank(E, f) \in Int
      BY <2>2, RankRises
    <3>2. QED BY <3>1
  <2>3. QED BY <2>1, <2>2
<1>2. \A e, f \in E : r[e] = r[f] => e = f
  BY <1>1
<1>3. \A i \in 1..n : \E e \in E : r[e] = i
  <2>1. r \in Injection(E, 1..n)
    BY <1>1, <1>2 DEF Injection, IsInjective
  <2>2. IsFiniteSet(1..n) /\ Cardinality(1..n) = n
    BY <1>0, FS_Interval
  <2>3. r \in Surjection(E, 1..n)
    BY <2>1, <2>2, FS_Injection
  <2>4. QED BY <2>3 DEF Surjection
<1>4. \A e \in E, i \in 1..n : Cardinality({x \in E : x < e}) = i - 1 <=> r[e] = i
  <2>1. \A e \in E : Rank(E, e) = Cardinality({x \in E : x < e}) /\ Rank(E, e) \in Int
    BY RankRises DEF Rank, Earlier
  <2>2. QED BY <2>1
<1> HIDE DEF r
<1>5. ASSUME NEW i \in 1..n PROVE InTimeOrder(E)[i] \in E /\ r[InTimeOrder(E)[i]] = i
  <2>1. \E e \in E : Cardinality({x \in E : x < e}) = i - 1
    BY <1>3, <1>4
  <2>2. InTimeOrder(E)[i] = CHOOSE e \in E : Cardinality({x \in E : x < e}) = i - 1
    BY DEF InTimeOrder
  <2>3. InTimeOrder(E)[i] \in E /\ Cardinality({x \in E : x < InTimeOrder(E)[i]}) = i - 1
    BY <2>1, <2>2
  <2>4. QED BY <1>4, <2>3
<1> DEFINE c(i) == CHOOSE e \in E : Cardinality({x \in E : x < e}) = i - 1
<1>6. InTimeOrder(E) = [i \in 1..n |-> c(i)]
  BY DEF InTimeOrder
<1> HIDE DEF c
<1> HIDE DEF n
<1>7. InTimeOrder(E) \in [1..n -> E]
  <2>1. \A i \in 1..n : c(i) \in E
    BY <1>5, <1>6
  <2>2. QED BY <1>6, <2>1
<1>8. ASSUME NEW i \in 1..n, NEW j \in 1..n, i < j PROVE InTimeOrder(E)[i] < InTimeOrder(E)[j]
  <2>1. r[InTimeOrder(E)[i]] = i /\ r[InTimeOrder(E)[j]] = j
        /\ InTimeOrder(E)[i] \in E /\ InTimeOrder(E)[j] \in E
    BY <1>5
  <2>2. PICK e, f \in E : e = InTimeOrder(E)[i] /\ f = InTimeOrder(E)[j]
    BY <2>1
  <2>3. r[e] = i /\ r[f] = j /\ e \in Nat /\ f \in Nat /\ i \in Int /\ j \in Int
    BY <1>0, <2>1, <2>2
  <2>4. ~(f < e) /\ f # e
    BY <1>1, <1>8, <2>3
  <2>5. e < f
    BY <2>3, <2>4
  <2>6. QED BY <2>2, <2>5
<1>9. ASSUME NEW e \in E PROVE \E i \in 1..n : InTimeOrder(E)[i] = e
  <2>1. r[e] \in 1..n
    BY <1>1
  <2>2. QED BY <1>2, <1>5, <2>1
<1>10. QED BY <1>7, <1>8, <1>9 DEF n

LEMMA Divides ==
    ASSUME NEW a \in Nat, NEW b \in Nat \ {0}
    PROVE  a = b * (a \div b) + (a % b) /\ a % b \in Nat /\ a % b < b /\ a \div b \in Nat
OBVIOUS

\* What is a whole number of steps is not rounded.
LEMMA RoundExact ==
    ASSUME NEW k \in Nat, NEW b \in Nat \ {0}
    PROVE  RoundHalfEven(k * b, b) = k
<1>1. (k * b) \div b = k /\ (k * b) % b = 0
  OBVIOUS
<1>2. QED BY <1>1 DEF RoundHalfEven

\* Values more than one step apart are rounded to different places.
LEMMA RoundSteps ==
    ASSUME NEW b \in Nat \ {0}, NEW x \in Nat, NEW y \in Nat, y >= x + b + 1
    PROVE  /\ RoundHalfEven(x, b) \in Nat /\ RoundHalfEven(y, b) \in Nat
           /\ RoundHalfEven(x, b) < RoundHalfEven(y, b)
<1>1. PICK q \in Nat, r \in Nat : x = b * q + r /\ r < b /\ q = x \div b /\ r = x % b
  BY Divides
<1>2. PICK k \in Nat, t \in Nat : y = b * k + t /\ t < b /\ k = y \div b /\ t = y % b
  BY Divides
<1>3. RoundHalfEven(x, b) = IF 2 * r < b \/ (2 * r = b /\ q % 2 = 0) THEN q ELSE q + 1
  BY <1>1 DEF RoundHalfEven
<1>4. RoundHalfEven(y, b) = IF 2 * t < b \/ (2 * t = b /\ k % 2 = 0) THEN k ELSE k + 1
  BY <1>2 DEF RoundHalfEven
<1>5. k > q
  <2> SUFFICES ASSUME k <= q PROVE FALSE
    BY <1>1, <1>2
  <2>1. b * k <= b * q
    BY <1>1, <1>2
  <2>2. QED BY <1>1, <1>2, <2>1
<1>6. CASE k = q + 1
  <2>1. b * k = b * q + b
    <3>1. b * (q + 1) = b * q + b
      BY <1>1
    <3>2. QED BY <1>6, <3>1
  <2>2. t >= r + 1
    <3> DEFINE u == b * q
               v == b * k
    <3>1. u \in Nat /\ v \in Nat /\ v = u + b /\ x = u + r /\ y = v + t
      BY <1>1, <1>2, <2>1
    <3> HIDE DEF u, v
    <3>2. QED BY <1>1, <1>2, <3>1
  <2>3. QED BY <1>1, <1>2, <1>3, <1>4, <1>6, <2>2
<1>7. CASE k > q + 1
  BY <1>1, <1>2, <1>3, <1>4, <1>7
<1>8. QED BY <1>1, <1>2, <1>3, <1>4, <1>5, <1>6, <1>7

\* A sample of a sequence without repetitions has none, keeps its ends, and is
\* the whole of it when it fits.
LEMMA SampleIs ==
    ASSUME NEW E \in SUBSET Nat, NEW n \in Nat, NEW s \in [1..n -> E],
           \A i, j \in 1..n : i < j => s[i] < s[j]
    PROVE  /\ Range(SampledEvenly(s)) \subseteq Range(s)
           /\ IsInjective(SampledEvenly(s))
           /\ n <= SampleCap => SampledEvenly(s) = s
           /\ n > SampleCap => /\ {s[1], s[n]} \subseteq Range(SampledEvenly(s))
                               /\ Len(SampledEvenly(s)) = SampleCap
<1>0. SampleCap \in Nat /\ SampleCap >= 2
  BY DigestAssumption
<1>1. Len(s) = n /\ DOMAIN s = 1..n
  <2>1. s \in Seq(E) /\ DOMAIN s = 1..n
    OBVIOUS
  <2>2. QED BY <2>1
<1>2. CASE n <= SampleCap
  <2>1. SampledEvenly(s) = s
    BY <1>1, <1>2 DEF SampledEvenly
  <2>2. IsInjective(s)
    <3>1. ASSUME NEW i \in 1..n, NEW j \in 1..n, s[i] = s[j] PROVE i = j
      <4>1. s[i] \in Nat /\ s[j] \in Nat
        OBVIOUS
      <4>2. ~(s[i] < s[j]) /\ ~(s[j] < s[i])
        BY <3>1, <4>1
      <4>3. ~(i < j) /\ ~(j < i)
        BY <4>2
      <4>4. QED BY <4>3
    <3>2. QED BY <1>1, <3>1 DEF IsInjective
  <2>3. QED BY <1>0, <1>2, <2>1, <2>2
<1>3. CASE n > SampleCap
  <2> DEFINE b == SampleCap - 1
             at(i) == 1 + RoundHalfEven((i - 1) * (n - 1), b)
             u == SampledEvenly(s)
  <2>0. b \in Nat \ {0} /\ n - 1 \in Nat /\ n - 1 >= b + 1
    BY <1>0, <1>3
  <2>1. u = [i \in 1..SampleCap |-> s[at(i)]]
    BY <1>0, <1>1, <1>3 DEF SampledEvenly
  <2>2. at(1) = 1 /\ at(SampleCap) = n
    <3>1. (1 - 1) * (n - 1) = 0 * b /\ (SampleCap - 1) * (n - 1) = (n - 1) * b
      BY <1>0, <2>0
    <3>2. RoundHalfEven(0 * b, b) = 0 /\ RoundHalfEven((n - 1) * b, b) = n - 1
      BY <2>0, RoundExact
    <3>3. QED BY <2>0, <3>1, <3>2
  <2>3. ASSUME NEW i \in 1..SampleCap, NEW j \in 1..SampleCap, i < j
        PROVE  at(i) \in Nat /\ at(j) \in Nat /\ at(i) < at(j)
    <3> DEFINE x == (i - 1) * (n - 1)
               y == (j - 1) * (n - 1)
    <3>1. x \in Nat /\ y \in Nat /\ y >= x + b + 1
      <4>1. PICK k \in Nat : j - 1 = (i - 1) + k /\ k >= 1
        <5>1. j - i \in Nat /\ j - i >= 1 /\ j - 1 = (i - 1) + (j - i)
          BY <1>0, <2>3
        <5>2. QED BY <5>1
      <4>2. y = x + k * (n - 1)
        BY <1>0, <2>0, <4>1
      <4>3. k * (n - 1) >= n - 1 /\ k * (n - 1) \in Nat
        BY <2>0, <4>1
      <4>4. x \in Nat
        BY <1>0, <2>0
      <4> HIDE DEF x, y
      <4>5. QED BY <2>0, <4>2, <4>3, <4>4
    <3>2. /\ RoundHalfEven(x, b) \in Nat /\ RoundHalfEven(y, b) \in Nat
          /\ RoundHalfEven(x, b) < RoundHalfEven(y, b)
      <4> HIDE DEF x, y, b
      <4>1. QED BY <2>0, <3>1, RoundSteps
    <3>3. QED BY <3>2
  <2> HIDE DEF at
  <2>4. \A i \in 1..SampleCap : at(i) \in 1..n
    <3>1. ASSUME NEW i \in 1..SampleCap PROVE at(i) \in 1..n
      <4>1. 1 \in 1..SampleCap /\ SampleCap \in 1..SampleCap
        BY <1>0
      <4>2. at(i) \in Nat /\ (i = 1 \/ at(1) < at(i)) /\ (i = SampleCap \/ at(i) < at(SampleCap))
        BY <1>0, <2>2, <2>3, <4>1
      <4>3. QED BY <2>2, <4>2
    <3>2. QED BY <3>1
  <2>5. IsInjective(u)
    <3>1. ASSUME NEW i \in 1..SampleCap, NEW j \in 1..SampleCap, i < j PROVE u[i] # u[j]
      <4>1. at(i) \in 1..n /\ at(j) \in 1..n /\ at(i) < at(j) /\ u[i] = s[at(i)] /\ u[j] = s[at(j)]
        BY <2>1, <2>3, <2>4, <3>1
      <4>2. s[at(i)] < s[at(j)] /\ s[at(i)] \in Nat /\ s[at(j)] \in Nat
        BY <4>1
      <4>3. QED BY <4>1, <4>2
    <3>2. DOMAIN u = 1..SampleCap
      BY <2>1
    <3>3. \A i, j \in 1..SampleCap : u[i] = u[j] => i = j
      BY <1>0, <3>1
    <3> HIDE DEF u
    <3>4. QED BY <3>2, <3>3 DEF IsInjective
  <2>6. Range(u) \subseteq Range(s)
    BY <1>1, <2>1, <2>4 DEF Range
  <2>7. {s[1], s[n]} \subseteq Range(u)
    <3>1. u[1] = s[1] /\ u[SampleCap] = s[n] /\ 1 \in DOMAIN u /\ SampleCap \in DOMAIN u
      BY <1>0, <2>1, <2>2
    <3> HIDE DEF u
    <3>2. QED BY <3>1 DEF Range
  <2>8. Len(u) = SampleCap
    <3>1. u \in [1..SampleCap -> E]
      BY <2>1, <2>4
    <3>2. u \in Seq(E) /\ DOMAIN u = 1..SampleCap
      BY <1>0, <3>1
    <3> HIDE DEF u
    <3>3. QED BY <1>0, <3>2
  <2>9. QED BY <1>0, <1>3, <2>5, <2>6, <2>7, <2>8
<1>4. QED BY <1>0, <1>2, <1>3

\* What is told of a window: all of it, or a sample that has its ends.
LEMMA WindowTold ==
    ASSUME NEW E \in SUBSET Nat, IsFiniteSet(E)
    PROVE  /\ Range(SampledEvenly(InTimeOrder(E))) \subseteq E
           /\ IsInjective(SampledEvenly(InTimeOrder(E)))
           /\ Cardinality(E) <= SampleCap => Range(SampledEvenly(InTimeOrder(E))) = E
           /\ Cardinality(E) > SampleCap =>
                 /\ {Min(E), Max(E)} \subseteq Range(SampledEvenly(InTimeOrder(E)))
                 /\ Len(SampledEvenly(InTimeOrder(E))) = SampleCap
<1>1. PICK n \in Nat : n = Cardinality(E)
  BY FS_CardinalityType
<1>2. PICK s : s = InTimeOrder(E)
  OBVIOUS
<1>3. /\ s \in [1..n -> E] /\ \A i, j \in 1..n : i < j => s[i] < s[j]
      /\ \A e \in E : \E i \in 1..n : s[i] = e
  BY <1>1, <1>2, InOrder
<1>4. Range(s) = E
  BY <1>3 DEF Range
<1>5. PICK u : u = SampledEvenly(s)
  OBVIOUS
<1>6. /\ Range(u) \subseteq E /\ IsInjective(u)
      /\ n <= SampleCap => u = s
      /\ n > SampleCap => {s[1], s[n]} \subseteq Range(u) /\ Len(u) = SampleCap
  <2>1. /\ Range(SampledEvenly(s)) \subseteq Range(s)
        /\ IsInjective(SampledEvenly(s))
        /\ n <= SampleCap => SampledEvenly(s) = s
        /\ n > SampleCap => /\ {s[1], s[n]} \subseteq Range(SampledEvenly(s))
                            /\ Len(SampledEvenly(s)) = SampleCap
    BY <1>3, SampleIs
  <2>2. QED BY <1>4, <1>5, <2>1
<1>7. n > SampleCap => s[1] = Min(E) /\ s[n] = Max(E)
  <2> SUFFICES ASSUME n > SampleCap PROVE s[1] = Min(E) /\ s[n] = Max(E)
    OBVIOUS
  <2>1. 1 \in 1..n /\ n \in 1..n
    BY DigestAssumption
  <2>2. s[1] \in E /\ s[n] \in E
    BY <1>3, <2>1
  <2>3. \A e \in E : s[1] <= e /\ s[n] >= e
    <3>1. ASSUME NEW e \in E PROVE s[1] <= e /\ s[n] >= e
      <4>1. PICK i \in 1..n : s[i] = e
        BY <1>3
      <4>2. i = 1 \/ s[1] < s[i]
        BY <1>3, <2>1
      <4>3. i = n \/ s[i] < s[n]
        BY <1>3, <2>1
      <4>4. s[1] \in Nat /\ s[n] \in Nat /\ e \in Nat
        BY <2>2
      <4>5. s[1] <= e
        BY <4>1, <4>2, <4>4
      <4>6. s[n] >= e
        BY <4>1, <4>3, <4>4
      <4>7. QED BY <4>5, <4>6
    <3>2. QED BY <3>1
  <2> DEFINE a == s[1]
             z == s[n]
  <2> HIDE DEF a, z
  <2>4. a \in E /\ z \in E /\ \A e \in E : a <= e /\ z >= e /\ e \in Nat
    BY <2>2, <2>3 DEF a, z
  <2>5. \A x \in E : (\A y \in E : x <= y) => x = a
    BY <2>4
  <2>6. \A x \in E : (\A y \in E : x >= y) => x = z
    BY <2>4
  <2>7. a = Min(E) /\ z = Max(E)
    BY <2>4, <2>5, <2>6 DEF Min, Max
  <2>8. QED BY <2>7 DEF a, z
<1>8. QED BY <1>1, <1>2, <1>4, <1>5, <1>6, <1>7

DigestTypes ==
    /\ hour \in Nat /\ happened \in SUBSET EventHours
    /\ wanted \in [morning : Mornings, evening : Evenings]
    /\ cron \in [Servers -> {NotRunning} \cup [morning : Mornings, evening : Evenings]]

\* A job waits for its turn only in the hour it is planned for.
WaitsInItsHour ==
    \A s \in Servers, k \in Kinds : <<s, k>> \in due => cron[s][k] = hour % 24

DigestInv == DigestTypes /\ WaitsInItsHour /\ DigestsHold

\* The hours for which a morning window begins on the day before.
MorningsAreEarly == \A m \in Mornings : m < 9

\* An evening that was planned for this hour, or a morning that was, begins and
\* ends where the documentation says.
LEMMA PlannedWindow ==
    ASSUME DigestTypes, MorningsAreEarly, NEW k \in Kinds, wanted[k] = hour % 24
    PROVE  {e \in happened : Window(k, hour).from <= e /\ e < Window(k, hour).to /\ e <= hour}
              = happened \cap (IF k = "morning" THEN Day(hour) - 2 .. hour - 1
                                                ELSE Day(hour) + 7 .. hour - 1)
<1>1. PICK d \in Nat, m \in Nat : hour = d * 24 + m /\ m < 24 /\ d = hour \div 24 /\ m = hour % 24
  <2>1. hour = 24 * (hour \div 24) + (hour % 24) /\ hour % 24 \in Nat /\ hour % 24 < 24
        /\ hour \div 24 \in Nat
    BY Divides DEF DigestTypes
  <2>2. QED BY <2>1
<1>2. Day(hour) = d * 24 /\ hour = Day(hour) + m
  BY <1>1 DEF Day
<1>3. \A e \in happened : e \in Nat
  BY DigestAssumption DEF DigestTypes
<1>4. CASE k = "morning"
  <2>1. wanted.morning = m /\ m < 9
    BY <1>1, <1>4 DEF DigestTypes, MorningsAreEarly
  <2>2. Day(d * 24 + m - 9) = d * 24 - 24
    <3>1. (d * 24 + m - 9) \div 24 = d - 1
      BY <1>1, <2>1
    <3>2. QED BY <1>1, <3>1 DEF Day
  <2>3. Window(k, hour).from = Day(hour) - 2 /\ Window(k, hour).to = hour
    BY <1>1, <1>2, <1>4, <2>1, <2>2 DEF Window, MorningStart
  <2>4. QED BY <1>1, <1>2, <1>3, <1>4, <2>3
<1>5. CASE k = "evening"
  <2>1. wanted.evening = m
    BY <1>1, <1>5 DEF DigestTypes
  <2>2. Window(k, hour).from = Day(hour) + 7 /\ Window(k, hour).to = hour
    BY <1>1, <1>2, <1>5, <2>1 DEF Window, EveningStart
  <2>3. QED BY <1>1, <1>2, <1>3, <1>5, <2>2
<1>6. QED BY <1>4, <1>5 DEF Kinds

\* What SpanTold says of one digest.
Told(d) ==
    d.planned =>
        /\ Range(d.events) \subseteq happened \cap Span(d) /\ IsInjective(d.events)
        /\ IF Cardinality(happened \cap Span(d)) <= SampleCap
           THEN Range(d.events) = happened \cap Span(d)
           ELSE /\ {Min(happened \cap Span(d)), Max(happened \cap Span(d))} \subseteq Range(d.events)
                /\ Len(d.events) = SampleCap

LEMMA SpanToldIs == SpanTold <=> \A d \in digests : Told(d)
BY DEF SpanTold, Told

LEMMA NewDigestTold ==
    ASSUME DigestInv, MorningsAreEarly, NEW s \in Servers, NEW k \in Kinds, <<s, k>> \in due
    PROVE  Told(DigestOf(s, k))
<1>1. PICK d : d = DigestOf(s, k)
  OBVIOUS
<1>2. PICK W : W = {e \in happened : Window(k, hour).from <= e /\ e < Window(k, hour).to /\ e <= hour}
  OBVIOUS
<1>3. /\ d.planned = (cron[s][k] = wanted[k]) /\ d.at = hour /\ d.kind = k
      /\ d.events = SampledEvenly(InTimeOrder(W))
  BY <1>1, <1>2 DEF DigestOf, Loaded
<1> SUFFICES ASSUME d.planned PROVE Told(d)
  BY <1>1 DEF Told
<1>4. wanted[k] = hour % 24
  BY <1>3 DEF DigestInv, WaitsInItsHour
<1>5. W = happened \cap Span(d)
  BY <1>2, <1>3, <1>4, PlannedWindow DEF DigestInv, Span, DigestTypes
<1>6. W \in SUBSET Nat /\ IsFiniteSet(W)
  <2>1. W \in SUBSET Nat /\ \A e \in W : e <= hour
    BY <1>2, DigestAssumption DEF DigestInv, DigestTypes
  <2>2. QED BY <2>1, FS_BoundedSetOfNaturals DEF DigestInv, DigestTypes
<1>7. PICK n \in Nat : n = Cardinality(W)
  BY <1>6, FS_CardinalityType
<1>8. /\ Range(d.events) \subseteq W /\ IsInjective(d.events)
      /\ n <= SampleCap => Range(d.events) = W
      /\ n > SampleCap => {Min(W), Max(W)} \subseteq Range(d.events) /\ Len(d.events) = SampleCap
  BY <1>3, <1>6, <1>7, WindowTold
<1>9. n <= SampleCap \/ n > SampleCap
  BY DigestAssumption
<1>10. QED BY <1>5, <1>7, <1>8, <1>9 DEF Told

LEMMA DigestStep ==
    ASSUME DigestInv, MorningsAreEarly, [DigestNext]_digestVars
    PROVE  DigestInv'
<1>0. DigestTypes /\ WaitsInItsHour /\ DigestsHold
  BY DEF DigestInv
<1>1. ASSUME UNCHANGED <<happened, digests, messages>> PROVE DigestsHold'
  <2>1. \A d \in digests : Told(d)' <=> Told(d)
    BY <1>1 DEF Told, Span
  <2>2. SpanTold'
    BY <1>0, <1>1 DEF DigestsHold, SpanTold
  <2>3. QED BY <1>0, <1>1, <2>2 DEF DigestsHold, StoredWasTold
<1>2. CASE TickHour
  <2>1. DigestTypes'
    BY <1>0, <1>2 DEF TickHour, DigestTypes
  <2>2. WaitsInItsHour'
    BY <1>2 DEF TickHour, DueAt, WaitsInItsHour
  <2>3. QED BY <1>1, <1>2, <2>1, <2>2 DEF TickHour, DigestInv
<1>3. ASSUME NEW s \in Servers, NEW k \in Kinds, RunJob(s, k) PROVE DigestInv'
  <2>1. PICK d : d = DigestOf(s, k)
    OBVIOUS
  <2>2. /\ UNCHANGED <<hour, happened, wanted, cron>> /\ due' \subseteq due /\ <<s, k>> \in due
        /\ messages' = messages \cup {<<s, d>>} /\ digests' \subseteq digests \cup {d}
    BY <1>3, <2>1 DEF RunJob
  <2>3. DigestTypes' /\ WaitsInItsHour'
    BY <1>0, <2>2 DEF DigestTypes, WaitsInItsHour
  <2>4. Told(d)
    BY <2>1, <2>2, NewDigestTold
  <2>5. \A x \in digests' : Told(x)
    BY <1>0, <2>2, <2>4, SpanToldIs DEF DigestsHold
  <2>6. SpanTold'
    <3>1. happened' = happened
      BY <2>2
    <3>2. QED BY <2>5, <3>1 DEF SpanTold, Told
  <2>7. StoredWasTold'
    BY <1>0, <2>2 DEF DigestsHold, StoredWasTold
  <2>8. QED BY <2>3, <2>6, <2>7 DEF DigestInv, DigestsHold
<1>4. ASSUME NEW s \in Servers, NEW k \in Kinds, MissJob(s, k) PROVE DigestInv'
  <2>1. DigestTypes' /\ WaitsInItsHour'
    BY <1>0, <1>4 DEF MissJob, DigestTypes, WaitsInItsHour
  <2>2. QED BY <1>1, <1>4, <2>1 DEF MissJob, DigestInv
<1>5. ASSUME NEW p \in [morning : Mornings, evening : Evenings], ChangePreferences(p) PROVE DigestInv'
  <2>1. DigestTypes' /\ WaitsInItsHour'
    BY <1>0, <1>5 DEF ChangePreferences, DigestTypes, WaitsInItsHour
  <2>2. QED BY <1>1, <1>5, <2>1 DEF ChangePreferences, DigestInv
<1>6. ASSUME NEW s \in Servers, StopServer(s) PROVE DigestInv'
  <2>1. DigestTypes'
    BY <1>0, <1>6 DEF StopServer, DigestTypes
  <2>2. WaitsInItsHour'
    <3>1. \A x \in Servers, k \in Kinds : <<x, k>> \in due' => <<x, k>> \in due /\ x # s
      BY <1>6 DEF StopServer
    <3>2. /\ hour' = hour /\ \A x \in Servers : x # s => cron'[x] = cron[x]
      BY <1>0, <1>6 DEF StopServer, DigestTypes
    <3>3. QED BY <1>0, <3>1, <3>2 DEF WaitsInItsHour
  <2>3. QED BY <1>1, <1>6, <2>1, <2>2 DEF StopServer, DigestInv
<1>7. ASSUME NEW s \in Servers, StartServer(s) PROVE DigestInv'
  <2>1. DigestTypes'
    BY <1>0, <1>7 DEF StartServer, DigestTypes
  <2>2. \A k \in Kinds : <<s, k>> \notin due
    <3>1. \A k \in Kinds : cron[s][k] = -1
      BY <1>7 DEF StartServer, NotRunning, Kinds
    <3>2. hour % 24 \in Nat
      BY <1>0 DEF DigestTypes
    <3>3. QED BY <1>0, <3>1, <3>2 DEF WaitsInItsHour
  <2>3. WaitsInItsHour'
    BY <1>0, <1>7, <2>2 DEF StartServer, DigestTypes, WaitsInItsHour
  <2>4. QED BY <1>1, <1>7, <2>1, <2>3 DEF StartServer, DigestInv
<1>8. CASE UNCHANGED digestVars
  <2>1. DigestTypes' /\ WaitsInItsHour'
    BY <1>0, <1>8 DEF digestVars, DigestTypes, WaitsInItsHour
  <2>2. QED BY <1>1, <1>8, <2>1 DEF digestVars, DigestInv
<1>9. QED BY <1>2, <1>3, <1>4, <1>5, <1>6, <1>7, <1>8 DEF DigestNext

\* When the mornings people may choose are before nine, every digest that a job
\* still planned by the preferences stores tells its documented span: all the
\* events of it, or a sample with the first, the last and none twice
\* (scheduler.py:42, sampler.py:6); and no digest is stored that was not sent.
THEOREM DigestsAreTold ==
    ASSUME MorningsAreEarly
    PROVE  DigestInit /\ [][DigestNext]_digestVars => []DigestsHold
<1>1. DigestInit => DigestInv
  <2> SUFFICES ASSUME DigestInit PROVE DigestInv
    OBVIOUS
  <2>1. DigestTypes
    BY DEF DigestInit, DigestTypes
  <2>2. WaitsInItsHour
    BY DEF DigestInit, DueAt, WaitsInItsHour
  <2>3. DigestsHold
    BY DEF DigestInit, DigestsHold, SpanTold, StoredWasTold
  <2>4. QED BY <2>1, <2>2, <2>3 DEF DigestInv
<1>2. DigestInv /\ [DigestNext]_digestVars => DigestInv'
  BY DigestStep
<1>3. DigestInv => DigestsHold
  BY DEF DigestInv
<1>4. QED BY <1>1, <1>2, <1>3, PTL

=============================================================================
