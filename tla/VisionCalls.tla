---------------------------- MODULE VisionCalls ----------------------------
(***************************************************************************)
(* The vision client all cameras of a box share (agent/pipeline/           *)
(* gemini_client.py): the circuit breaker, the short-lived token a broker  *)
(* of the backend mints (backend/app/services/gemini_broker.py), the       *)
(* permits, and the setup analysis that goes past the breaker.  Times are  *)
(* what is left of them, in ticks; the model and the broker answer or not. *)
(***************************************************************************)
EXTENDS Integers, FiniteSets

CONSTANTS Analysts,   \* cameras, each with at most one frame in analysis
          Permits,    \* gemini_max_concurrent
          BreakAfter, \* failures the breaker bears: 10
          Pause,      \* how long it stays open: 30 s
          TokenLife,  \* of a minted token
          Margin      \* a token is renewed this long before its end: 60 s

ASSUME VisionAssumption ==
    /\ IsFiniteSet(Analysts) /\ {Permits, BreakAfter, Pause, TokenLife} \subseteq Nat \ {0}
    /\ Margin \in Nat /\ Margin < TokenLife
    \* Fewer frames in flight than failures that open the breaker: see the README.
    /\ Cardinality(Analysts) - 1 <= BreakAfter

VARIABLES pause,      \* circuit_open_until, what is left of it
          failed,     \* failure_count
          token,      \* _token, what is left of it; 0: none or over
          client,     \* the client: "none", or of the "current" or an "old" token
          analysis,   \* where each camera's analyze_frame is
          late,       \* the analyses that were under way at the last tick
          setup,      \* a scene analysis of a setup run: "idle" or "calling"
          modelUp,
          brokerUp,   \* the broker answers, and with a token a client can be built from
          answered    \* history: an analysis was answered since the last gate

visionVars == <<pause, failed, token, client, analysis, late, setup, modelUp, brokerUp, answered>>

VisionInit ==
    /\ pause = 0 /\ failed = 0
    /\ token = 0 /\ client = "none" \* deferred until the first token
    /\ analysis = [a \in Analysts |-> "idle"] /\ late = {} /\ setup = "idle"
    /\ modelUp = TRUE /\ brokerUp = TRUE /\ answered = TRUE

Turned(a, from, to) ==
    /\ analysis[a] = from /\ analysis' = [analysis EXCEPT ![a] = to]
    /\ late' = IF to = "idle" THEN late \ {a} ELSE late
Calling == {a \in Analysts : analysis[a] = "call"}
Down(n) == IF n > 0 THEN n - 1 ELSE 0

\* A call times out after 10 s and at most two rounds of calls wait for a permit:
\* an analysis sees one tick at most.
VisionTick ==
    /\ late = {} /\ late' = {a \in Analysts : analysis[a] # "idle"}
    /\ pause' = Down(pause) /\ token' = Down(token)
    /\ client' = IF token' = 0 /\ client = "current" THEN "old" ELSE client
    /\ UNCHANGED <<failed, analysis, setup, modelUp, brokerUp, answered>>

VisionWorld ==
    /\ \/ modelUp' = ~modelUp /\ UNCHANGED brokerUp
       \/ brokerUp' = ~brokerUp /\ UNCHANGED modelUp
    /\ UNCHANGED <<pause, failed, token, client, analysis, late, setup, answered>>

-----------------------------------------------------------------------------
\* A slip in RecordFailure: the count is not cleared when the breaker opens.
RecordFailureKept ==
    IF failed + 1 > BreakAfter
    THEN pause' = Pause /\ failed' = failed + 1
    ELSE pause' = pause /\ failed' = failed + 1

RecordFailure ==
    IF failed + 1 > BreakAfter
    THEN pause' = Pause /\ failed' = 0
    ELSE pause' = pause /\ failed' = failed + 1

TokenFresh == token > Margin

\* A slip in Gate: a refused analysis is one more failure.
GateCounting(a) ==
    /\ answered' = FALSE
    /\ \/ pause > 0 /\ RecordFailure /\ UNCHANGED <<analysis, late>>
       \/ /\ pause = 0
          /\ Turned(a, "idle", IF TokenFresh THEN "client" ELSE "token")
          /\ UNCHANGED <<pause, failed>>
    /\ UNCHANGED <<token, client, setup, modelUp, brokerUp>>

\* analyze_frame answers [] at once while the breaker is open.
Gate(a) ==
    /\ pause = 0
    /\ Turned(a, "idle", IF TokenFresh THEN "client" ELSE "token")
    /\ answered' = FALSE
    /\ UNCHANGED <<pause, failed, token, client, setup, modelUp, brokerUp>>

\* _ensure_token: the token is stored before the client is built from it, so a
\* build that raises leaves a fresh token beside the old client or none.
MintBuilt == brokerUp /\ token' = TokenLife /\ client' = "current"
MintRaised == /\ ~brokerUp /\ token' = TokenLife
              /\ client' = IF client = "none" THEN "none" ELSE "old"

FetchToken(a) ==
    /\ \/ MintBuilt /\ Turned(a, "token", "client") /\ UNCHANGED <<pause, failed>>
       \/ MintRaised /\ Turned(a, "token", "idle") /\ RecordFailure
       \/ /\ Turned(a, "token", "idle") /\ RecordFailure
          /\ ~brokerUp /\ UNCHANGED <<token, client>>
    /\ UNCHANGED <<setup, modelUp, brokerUp, answered>>

\* Without a client the frame is a failure; with one it waits for a permit.  The
\* breaker is not asked again.
CheckClient(a) ==
    /\ \/ client = "none" /\ Turned(a, "client", "idle") /\ RecordFailure
       \/ client # "none" /\ Turned(a, "client", "queue") /\ UNCHANGED <<pause, failed>>
    /\ UNCHANGED <<token, client, setup, modelUp, brokerUp, answered>>

Acquire(a) ==
    /\ Cardinality(Calling) < Permits /\ Turned(a, "queue", "call")
    /\ UNCHANGED <<pause, failed, token, client, setup, modelUp, brokerUp, answered>>

\* The model answers, or the call fails or times out; on a box there is no static
\* key to fall back to.
EndCall(a) ==
    /\ Turned(a, "call", "idle")
    /\ \/ modelUp /\ client = "current" /\ failed' = 0 /\ answered' = TRUE /\ UNCHANGED pause
       \/ ~(modelUp /\ client = "current") /\ RecordFailure /\ UNCHANGED answered
    /\ UNCHANGED <<token, client, setup, modelUp, brokerUp>>

\* generate_text_with_images: the same token and client, neither gate nor count.
BeginSetup ==
    /\ setup = "idle"
    /\ \/ TokenFresh /\ setup' = "calling" /\ UNCHANGED <<token, client>>
       \/ ~TokenFresh /\ MintBuilt /\ setup' = "calling"
       \/ ~TokenFresh /\ MintRaised /\ UNCHANGED setup
    /\ UNCHANGED <<pause, failed, analysis, late, modelUp, brokerUp, answered>>
EndSetup ==
    /\ setup = "calling" /\ setup' = "idle"
    /\ UNCHANGED <<pause, failed, token, client, analysis, late, modelUp, brokerUp, answered>>

Analyse(a) == Gate(a) \/ FetchToken(a) \/ CheckClient(a) \/ Acquire(a) \/ EndCall(a)
VisionNext == VisionTick \/ VisionWorld \/ BeginSetup \/ EndSetup \/ \E a \in Analysts : Analyse(a)

-----------------------------------------------------------------------------
(* Properties.                                                              *)

\* What was in flight when the breaker opened cannot open it again: a pause ends
\* when it was meant to end.
PausesApart == [][pause' > pause => pause = 0]_visionVars

\* Once the model and the broker answer for good, frames are analysed again and
\* again, whatever failed before: no pause, count or token is left behind that
\* keeps the box blind.
SightReturns == <>[](modelUp /\ brokerUp) => []<>answered

\* Both: the breaker protects while it must, and no longer.
BreakerHolds == PausesApart /\ SightReturns
=============================================================================
