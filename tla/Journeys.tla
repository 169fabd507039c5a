------------------------------- MODULE Journeys -------------------------------
(***************************************************************************)
(* The walk from one event along adjacent cameras (services/journeys.py):  *)
(* one action per round of its loop.  Links are drawn and removed by an    *)
(* operator (api/camera_connections.py).  A walk reads them once; each of  *)
(* its rounds is a query of its own, so an event stored meanwhile may be   *)
(* found by a later round.                                                 *)
(***************************************************************************)
EXTENDS Integers, Sequences, FiniteSets

CONSTANTS Spots,        \* cameras of one site
          LastMinute,   \* timestamps are 0..LastMinute
          WithinMinutes,       \* DEFAULT_WINDOW
          MAX_CHAIN,
          MaxSeen,      \* bound on events
          MaxDrawn      \* bound on links drawn and removed

ASSUME JourneyAssumption == /\ Spots \subseteq Nat
                            /\ WithinMinutes \in Nat /\ MAX_CHAIN \in Nat \ {0}
                            /\ LastMinute \in Nat /\ MaxSeen \in Nat /\ MaxDrawn \in Nat

VARIABLES links,     \* stored connections: ordered pairs, one per pair of cameras
          drawn,     \* links drawn and removed so far
          seen,      \* stored events: [spot, at]
          graph,     \* the links as the request read them
          steps,     \* journey.steps; <<>> before the request
          missed,    \* events stored behind the walk, which it cannot find any more
          finished

journeyVars == <<links, drawn, seen, graph, steps, missed, finished>>

\* normalise_pair: cameras are compared by id, (a, b) and (b, a) are one row.
normalise_pair(a, b) == IF a < b THEN <<a, b>> ELSE <<b, a>>
Pairs == {normalise_pair(a, b) : a, b \in Spots} \ {<<a, a>> : a \in Spots}

JourneyInit ==
    /\ links \in SUBSET Pairs /\ drawn = 0 /\ seen = {}
    /\ graph = {} /\ steps = <<>> /\ missed = {} /\ finished = FALSE

\* Drawing a link that exists, in either direction, returns it.
create_connection(a, b) ==
    /\ a # b /\ drawn < MaxDrawn /\ drawn' = drawn + 1
    /\ links' = links \cup {normalise_pair(a, b)}
    /\ UNCHANGED <<seen, graph, steps, missed, finished>>
delete_connection(l) ==
    /\ drawn < MaxDrawn /\ drawn' = drawn + 1
    /\ links' = links \ {l}
    /\ UNCHANGED <<seen, graph, steps, missed, finished>>

_adjacency == [a \in Spots |-> {b \in Spots : <<a, b>> \in graph \/ <<b, a>> \in graph}]

Visited == {steps[i].spot : i \in DOMAIN steps}
Current == steps[Len(steps)]

\* The events a round asks for, and the one it takes: the first by timestamp; which of
\* several at one time is the database's choice.
CandidatesAnywhere ==
    {e \in seen : /\ e.spot \in _adjacency[Current.spot] \ {Current.spot}
                  /\ e.at > Current.at /\ e.at <= Current.at + WithinMinutes}
Candidates ==
    {e \in seen : /\ e.spot \in _adjacency[Current.spot] \ Visited
                  /\ e.at > Current.at /\ e.at <= Current.at + WithinMinutes}

Earliest(S) == {e \in S : \A x \in S : e.at <= x.at}

EventSeen(e) ==
    /\ Cardinality(seen) < MaxSeen /\ e \notin seen
    /\ seen' = seen \cup {e}
    /\ missed' = IF steps = <<>> THEN missed ELSE missed \cup {e}
    /\ UNCHANGED <<links, drawn, graph, steps, finished>>

build_journey(e) ==
    /\ steps = <<>> /\ e \in seen
    /\ graph' = links /\ steps' = <<e>> /\ finished' = (links = {})
    /\ UNCHANGED <<links, drawn, seen, missed>>

WalkOn ==
    /\ steps # <<>> /\ ~finished /\ Len(steps) < MAX_CHAIN
    /\ \E e \in Earliest(Candidates) : steps' = Append(steps, e)
    /\ UNCHANGED <<links, drawn, seen, graph, missed, finished>>

WalkEnds ==
    /\ steps # <<>> /\ ~finished
    /\ Len(steps) = MAX_CHAIN \/ Candidates = {}
    /\ finished' = TRUE
    /\ UNCHANGED <<links, drawn, seen, graph, steps, missed>>

JourneyNext ==
    \/ \E a, b \in Spots : create_connection(a, b)
    \/ \E l \in links : delete_connection(l)
    \/ \E e \in [spot : Spots, at : 0..LastMinute] : EventSeen(e) \/ build_journey(e)
    \/ WalkOn \/ WalkEnds

-----------------------------------------------------------------------------
(* Properties.                                                                *)

\* A journey, against its definition: a path of distinct cameras linked at the request,
\* forward in time with no gap beyond the window, that no event stored before the
\* request could have shortened at any step or continued at its end.
JourneyIsPath ==
    LET linked(a, b) == normalise_pair(a, b) \in graph
        before(i) == {steps[j].spot : j \in 1..i}
        follows(i, e) == /\ linked(steps[i].spot, e.spot) /\ e.spot \notin before(i)
                         /\ e.at \in (steps[i].at + 1)..(steps[i].at + WithinMinutes)
    IN  /\ Len(steps) <= MAX_CHAIN
        /\ \A i \in 1..(Len(steps) - 1) :
              /\ follows(i, steps[i + 1])
              /\ \A e \in seen \ missed : follows(i, e) => e.at >= steps[i + 1].at
        /\ finished /\ Len(steps) < MAX_CHAIN =>
              \A e \in seen \ missed : ~follows(Len(steps), e)
=============================================================================
