------------------------------ MODULE Sessions ------------------------------
(***************************************************************************)
(* Login sessions of the dashboard: the Redis keys of                      *)
(* backend/app/core/sessions.py and the requests that use them.  Every     *)
(* Redis command is a step of its own, because the event loop (and the     *)
(* other backend processes) run between two of them.                       *)
(*                                                                         *)
(* A key with a time to live is a record with its deadline; it is gone     *)
(* when the clock reaches the deadline.                                    *)
(***************************************************************************)
EXTENDS Integers

CONSTANTS Users, Sids,        \* accounts; session identifiers, each used once
          Requests,           \* requests the backend serves at the same time
          IdleTTL, MaxTTL,    \* SESSION_IDLE_TTL, SESSION_MAX_TTL
          MaxClock            \* bound: the clock stops here

ASSUME SessionsAssumption ==
    /\ IdleTTL \in Nat /\ MaxTTL \in Nat /\ IdleTTL <= MaxTTL
    /\ MaxClock \in Nat

VARIABLES clock,
          session,   \* session:<sid>          what Redis holds, NoKey if nothing
          index,     \* user_sessions:<user>   the tracked sids and the deadline
          account,   \* the user's row: is it live, is it enabled
          call,      \* what each request in progress is about to do
          ended,     \* history: sids whose key a revocation deleted
          strays     \* history: sids a revocation ran into while they were written

sessionVars == <<clock, session, index, account, call, ended, strays>>

NoKey == [user |-> "none"]
Idle == [at |-> "idle"]
NoAccount == [live |-> FALSE]   \* the name is free
Enabled(u) == account[u] = [live |-> TRUE, active |-> TRUE]

Held(s) == session[s] # NoKey /\ clock < session[s].deadline
Tracked(u) == IF clock < index[u].deadline THEN index[u].sids ELSE {}

\* The two tests of validate_session, on a session that was read.
TimedOut(x) == clock - x.active > IdleTTL \/ clock - x.created > MaxTTL

\* A session the next request would be served with, before its last instant (a
\* write that was delayed may keep its key a little longer than the index).
Usable(s) == /\ Held(s) /\ ~TimedOut(session[s])
             /\ clock - session[s].created < MaxTTL

SigningUp(r) == call[r].at \in {"mint", "track"} /\ call[r].new
Goto(r, x) == call' = [call EXCEPT ![r] = x]
Busy(pc, s) == {r \in Requests : call[r].at = pc /\ call[r].sid = s}

SessionsInit ==
    /\ clock = 0
    /\ session = [s \in Sids |-> NoKey]
    /\ index = [u \in Users |-> [sids |-> {}, deadline |-> 0]]
    /\ account = [u \in Users |-> NoAccount]
    /\ call = [r \in Requests |-> Idle]
    /\ ended = {} /\ strays = {}

PassTime == /\ clock < MaxClock /\ clock' = clock + 1
            /\ UNCHANGED <<session, index, account, call, ended, strays>>

-----------------------------------------------------------------------------
(* create_session: login (the failed attempts are in LoginGuards), signup    *)
(* and a super admin's impersonation all end here.                          *)

Minting(r, u, new) ==
    /\ call[r] = Idle
    /\ Goto(r, [at |-> "mint", user |-> u, new |-> new])
    /\ UNCHANGED <<clock, session, index, account, ended, strays>>

Login(r, u) == Enabled(u) /\ Minting(r, u, FALSE)

\* The name must be free; the row is inserted (a second insert of the name waits
\* for the first and fails) and committed with the answer.
Signup(r, u) == /\ account[u] = NoAccount /\ \A x \in Requests : ~SigningUp(x)
                /\ Minting(r, u, TRUE)

\* A row that is live will do, a disabled one included.
Impersonate(r, u) == account[u].live /\ Minting(r, u, FALSE)

Unused(s) == session[s] = NoKey /\ s \notin ended

MintSession(r, s) ==
    /\ call[r].at = "mint" /\ Unused(s)
    /\ session' = [session EXCEPT ![s] = [user |-> call[r].user, created |-> clock,
                                          active |-> clock, deadline |-> clock + MaxTTL]]
    /\ Goto(r, [at |-> "track", user |-> call[r].user, sid |-> s, new |-> call[r].new])
    /\ UNCHANGED <<clock, index, account, ended, strays>>

\* A login that replaces the index where it should add to it (mutant).
TrackSessionAlone(r) ==
    LET u == call[r].user IN
    /\ call[r].at = "track"
    /\ index' = [index EXCEPT ![u] = [sids |-> {call[r].sid}, deadline |-> clock + MaxTTL]]
    /\ Goto(r, Idle)
    /\ UNCHANGED <<clock, session, account, ended, strays>>

\* SADD and EXPIRE of user_sessions, which no command in between can tell apart;
\* then the request commits, and with it the row of a signup.
TrackSession(r) ==
    LET u == call[r].user IN
    /\ call[r].at = "track"
    /\ index' = [index EXCEPT ![u] = [sids |-> Tracked(u) \cup {call[r].sid},
                                      deadline |-> clock + MaxTTL]]
    /\ account' \in IF call[r].new THEN {account, [account EXCEPT ![u] = [live |-> TRUE, active |-> TRUE]]}
                    ELSE {account}
    /\ Goto(r, Idle)
    /\ UNCHANGED <<clock, session, ended, strays>>

-----------------------------------------------------------------------------
(* A request with a token: validate_session reads the key, tests it and     *)
(* writes it back; get_current_user then loads the row.                     *)

ReadSession(r, s) ==
    /\ call[r] = Idle /\ Held(s) /\ Busy("track", s) = {}
    /\ Goto(r, IF TimedOut(session[s])
               THEN [at |-> "drop", sid |-> s]
               ELSE [at |-> "touch", sid |-> s, read |-> session[s], when |-> clock])
    /\ UNCHANGED <<clock, session, index, account, ended, strays>>

\* SETEX of what was read, with the remaining lifetime at the time of reading.
TouchSession(r) ==
    LET s == call[r].sid
        x == call[r].read
        left == MaxTTL - (call[r].when - x.created)
    IN  /\ call[r].at = "touch"
        /\ session' = IF left <= 0 THEN session
                      ELSE [session EXCEPT ![s] = [x EXCEPT !.active = call[r].when,
                                                            !.deadline = clock + left]]
        /\ Goto(r, [at |-> "load", sid |-> s, user |-> x.user])
        /\ UNCHANGED <<clock, index, account, ended, strays>>

\* The row is missing or disabled: 401.
Unauthorized(r) ==
    /\ call[r].at = "load" /\ ~Enabled(call[r].user)
    /\ Goto(r, Idle)
    /\ UNCHANGED <<clock, session, index, account, ended, strays>>

\* Otherwise the handler runs: one that leaves sessions alone, a logout, or a
\* logout from everywhere.
Handle(r, x) ==
    /\ call[r].at = "load" /\ Enabled(call[r].user)
    /\ Goto(r, x)
    /\ UNCHANGED <<clock, session, index, account, ended, strays>>

Answer(r) == Handle(r, Idle)

Logout(r) == Handle(r, [at |-> "drop", sid |-> call[r].sid])

LogoutAll(r) == Handle(r, [at |-> "list", user |-> call[r].user, remove |-> FALSE])

-----------------------------------------------------------------------------
(* Revocation of one session, and of all sessions of a user.                *)

\* GET and SREM; without the key nothing is removed from the index.
UntrackSession(r) ==
    LET s == call[r].sid IN
    /\ call[r].at = "drop"
    /\ index' = IF ~Held(s) THEN index
                ELSE [index EXCEPT ![session[s].user].sids = @ \ {s}]
    /\ Goto(r, [at |-> "delete", sid |-> s])
    /\ UNCHANGED <<clock, session, account, ended, strays>>

\* Sessions that another request is about to write back.
BeingTouched(S) == {s \in S : Busy("touch", s) # {}}

Revoked(S) == /\ session' = [s \in Sids |-> IF s \in S THEN NoKey ELSE session[s]]
              /\ ended' = ended \cup S
              /\ strays' = strays \cup BeingTouched(S)

DeleteSession(r) ==
    /\ call[r].at = "delete"
    /\ Revoked({call[r].sid})
    /\ Goto(r, Idle)
    /\ UNCHANGED <<clock, index, account>>

RevokeAll(r, u, remove) ==
    /\ call[r] = Idle
    /\ Goto(r, [at |-> "list", user |-> u, remove |-> remove])
    /\ UNCHANGED <<clock, session, index, account, ended, strays>>

\* A super admin's, of any user.
ForceLogout(r, u) == RevokeAll(r, u, FALSE)

\* An owner's, of a member: the sessions are revoked first, the row is deleted
\* afterwards.
RemoveMember(r, u) == account[u].live /\ RevokeAll(r, u, TRUE)

ResetMemberPassword(r, u) == account[u].live /\ RevokeAll(r, u, FALSE)

ListSessions(r) ==
    /\ call[r].at = "list"
    /\ Goto(r, [at |-> "sweep", user |-> call[r].user, remove |-> call[r].remove,
                listed |-> Tracked(call[r].user), left |-> Tracked(call[r].user)])
    /\ UNCHANGED <<clock, session, index, account, ended, strays>>

SweepSession(r, s) ==
    /\ call[r].at = "sweep" /\ s \in call[r].left
    /\ Revoked({s})
    /\ Goto(r, [call[r] EXCEPT !.left = @ \ {s}])
    /\ UNCHANGED <<clock, index, account>>

\* The index goes as a whole, with what a login added since it was listed.
DropIndex(r) ==
    LET u == call[r].user IN
    /\ call[r].at = "sweep" /\ call[r].left = {}
    /\ strays' = strays \cup (Tracked(u) \ call[r].listed)
    /\ index' = [index EXCEPT ![u] = [sids |-> {}, deadline |-> 0]]
    /\ account' = IF call[r].remove THEN [account EXCEPT ![u].live = FALSE] ELSE account
    /\ Goto(r, Idle)
    /\ UNCHANGED <<clock, session, ended>>

-----------------------------------------------------------------------------
(* What else happens to the row.  None of these touches a session:          *)
(* get_current_user looks at the row on every request.                      *)

RowBecomes(u, row) == /\ account' = [account EXCEPT ![u] = row]
                      /\ UNCHANGED <<clock, session, index, call, ended, strays>>

\* An owner switches is_active of a member that is live.
UpdateTeamMember(u) == account[u].live /\ RowBecomes(u, [account[u] EXCEPT !.active = ~@])

\* A super admin that of any row.
UpdateUser(u) == account[u] # NoAccount /\ RowBecomes(u, [account[u] EXCEPT !.active = ~@])

DeleteUser(u) == account[u].live /\ RowBecomes(u, [account[u] EXCEPT !.live = FALSE])

RestoreUser(u) == /\ account[u] # NoAccount /\ ~account[u].live
                  /\ RowBecomes(u, [account[u] EXCEPT !.live = TRUE])

SessionsNext ==
    \/ PassTime
    \/ \E u \in Users : UpdateTeamMember(u) \/ UpdateUser(u) \/ DeleteUser(u) \/ RestoreUser(u)
    \/ \E r \in Requests :
         \/ \E u \in Users : \/ Login(r, u) \/ Signup(r, u) \/ Impersonate(r, u)
                             \/ ForceLogout(r, u) \/ RemoveMember(r, u) \/ ResetMemberPassword(r, u)
         \/ \E s \in Sids : MintSession(r, s) \/ ReadSession(r, s) \/ SweepSession(r, s)
         \/ TrackSession(r) \/ TouchSession(r) \/ Unauthorized(r) \/ Answer(r)
         \/ Logout(r) \/ LogoutAll(r) \/ UntrackSession(r) \/ DeleteSession(r)
         \/ ListSessions(r) \/ DropIndex(r)

SessionsSpec == SessionsInit /\ [][SessionsNext]_sessionVars

-----------------------------------------------------------------------------
(* Properties.                                                              *)

\* Logout is instant: a session whose key a revocation deleted is held by Redis
\* again only if another request had read it before and wrote it back after.
RevokedStaysRevoked == \A s \in ended \ strays : ~Held(s)

\* logout-all finds every session: a usable session is in the user's index
\* unless its login or its logout is under way or a revocation ran into it.
IndexCovers ==
    \A s \in Sids : Usable(s) /\ s \notin strays /\ Busy("track", s) \cup Busy("delete", s) = {}
                    => s \in Tracked(session[s].user)

SessionsSafe == RevokedStaysRevoked /\ IndexCovers
=============================================================================
