----------------------------- MODULE LoginGuards ----------------------------
(***************************************************************************)
(* What a login request passes before a session is minted, for one user    *)
(* name and one address: the sliding-window limiter of                     *)
(* backend/app/core/rate_limit.py, and the lockout after failed passwords  *)
(* of backend/app/core/sessions.py with the login handler that tests and   *)
(* feeds it.  Requests overlap between any two Redis commands; a request   *)
(* takes far less than the windows, so the clock ticks between requests.   *)
(***************************************************************************)
EXTENDS Integers, FiniteSets

CONSTANTS Attempts,       \* login requests that may overlap
          RateLimit,      \* requests allowed per window
          RateWindow,     \* the window, in ticks
          LockThreshold,  \* LOCKOUT_THRESHOLD
          LockTTL,        \* LOCKOUT_DURATION, of the counter and of the lock
          LastTick,       \* bound: the clock stops here
          MaxRequests     \* bound: requests in one tick

ASSUME LoginGuardsAssumption ==
    /\ IsFiniteSet(Attempts) /\ MaxRequests \in Nat /\ LastTick \in Nat
    /\ {RateLimit, RateWindow, LockThreshold, LockTTL} \subseteq Nat \ {0}

VARIABLES tick,
          hits,         \* the sorted set: members <<score, number>>
          admitted,     \* history: the members of the requests the limiter let through
          failures,     \* login_failures:<name>: how many, and until when
          lockedUntil,  \* lockout:<name>
          attempt       \* what each login request does next

guardVars == <<tick, hits, admitted, failures, lockedUntil, attempt>>

Never == LastTick + 1   \* a key without a time to live
FailureCount == IF tick < failures.until THEN failures.count ELSE 0
LockedOut == tick < lockedUntil

GuardsInit ==
    /\ tick = 0
    /\ hits = {} /\ admitted = {}
    /\ failures = [count |-> 0, until |-> 0]
    /\ lockedUntil = 0
    /\ attempt = [a \in Attempts |-> "none"]

Tick == /\ tick < LastTick /\ \A a \in Attempts : attempt[a] = "none"
        /\ tick' = tick + 1
        /\ UNCHANGED <<hits, admitted, failures, lockedUntil, attempt>>

Step(a, from, to) == attempt[a] = from /\ attempt' = [attempt EXCEPT ![a] = to]

-----------------------------------------------------------------------------
(* The limiter.  A refused request is counted like any other.               *)

Since(members, t) == {m \in members : m[1] > t}

\* The cutoff one tick late (mutant).
TrimmedLate == Since(hits, tick - RateWindow + 1)

\* ZREMRANGEBYSCORE up to the cutoff.
Trimmed == Since(hits, tick - RateWindow)

\* This request's member: its uuid makes it a new one.
Member == <<tick, 1 + Cardinality(Since(hits, tick - 1))>>

\* ZADD and ZCARD, after the trimming.
CheckRate(a) ==
    LET counted == Trimmed \cup {Member}
        pass == Cardinality(counted) <= RateLimit
    IN  /\ Member[2] <= MaxRequests
        /\ hits' = counted
        /\ Step(a, "none", IF pass THEN "lockout" ELSE "none")
        /\ admitted' = IF pass THEN admitted \cup {Member} ELSE admitted
        /\ UNCHANGED <<tick, failures, lockedUntil>>

-----------------------------------------------------------------------------
(* The lockout.                                                             *)

\* is_locked_out; a locked name is answered 429 and the request ends.
CheckLockout(a) ==
    /\ Step(a, "lockout", IF LockedOut THEN "none" ELSE "verify")
    /\ UNCHANGED <<tick, hits, admitted, failures, lockedUntil>>

\* The right password: of a disabled account it ends in 403, of an active one it
\* deletes the counter (and leaves a lock that was set meanwhile).
VerifyRight(a) ==
    /\ Step(a, "verify", "none")
    /\ failures' \in {failures, [count |-> 0, until |-> 0]}
    /\ UNCHANGED <<tick, hits, admitted, lockedUntil>>

\* A wrong one: INCR keeps the deadline the counter has, then EXPIRE renews it,
\* then the lock is set if INCR answered the threshold or more.
CountFailure(a) ==
    LET n == FailureCount + 1 IN
    /\ Step(a, "verify", IF n >= LockThreshold THEN "expireLock" ELSE "expire")
    /\ failures' = [count |-> n, until |-> IF n = 1 THEN Never ELSE failures.until]
    /\ UNCHANGED <<tick, hits, admitted, lockedUntil>>

RenewCounter(a) ==
    /\ Step(a, "expire", "none") \/ Step(a, "expireLock", "lock")
    /\ failures' = IF FailureCount = 0 THEN failures
                   ELSE [failures EXCEPT !.until = tick + LockTTL]
    /\ UNCHANGED <<tick, hits, admitted, lockedUntil>>

SetLock(a) == /\ Step(a, "lock", "none")
              /\ lockedUntil' = tick + LockTTL
              /\ UNCHANGED <<tick, hits, admitted, failures>>

GuardsNext ==
    \/ Tick
    \/ \E a \in Attempts : \/ CheckRate(a) \/ CheckLockout(a) \/ VerifyRight(a)
                           \/ CountFailure(a) \/ RenewCounter(a) \/ SetLock(a)

GuardsSpec == GuardsInit /\ [][GuardsNext]_guardVars

-----------------------------------------------------------------------------
(* Properties.                                                              *)

\* No window of the limiter's length, wherever it starts, admits more requests
\* than the limit.
WindowKept ==
    \A t \in 0..LastTick :
        Cardinality({m \in admitted : t - RateWindow < m[1] /\ m[1] <= t}) <= RateLimit

\* However logins overlap, the failures counted never pass the threshold by more
\* than the attempts that were beyond the lockout test when the name was locked:
\* the counter expires no later than the lock it caused.
FailuresBounded == FailureCount < LockThreshold + Cardinality(Attempts)

GuardsHold == WindowKept /\ FailuresBounded
=============================================================================
