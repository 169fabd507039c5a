---------------------------- MODULE MCControlRoom ----------------------------
(***************************************************************************)
(* The instance TLC checks of the modules about what operators see and     *)
(* work with: the event desk, the estate, the live feed, journeys and      *)
(* instant alerts.  Apart from who may see what they share no state, so a  *)
(* behaviour picks one of them and stays with it.                          *)
(***************************************************************************)
EXTENDS EventDesk, Estate, LiveFeed, Journeys, InstantAlerts, TLC

VARIABLE chosen   \* the module this behaviour is of

\* Two sites of an organisation and the operator's own, with a camera at each; a
\* guard with or without a restriction, and a super admin, each with live sockets.
Roles == [boss |-> "super_admin", guard |-> "admin"]
Homes == [boss |-> "hq", guard |-> "mall"]
Owners == [north |-> "mall", south |-> "mall", base |-> "hq"]
LensAt == [n1 |-> "north", s1 |-> "south", b1 |-> "base"]
Severities == {<<"n1", "critical">>, <<"s1", "low">>, <<"b1", "critical">>}
BoxOwners == [box |-> "mall"]
WhoConnects == [k \in Sockets |-> IF k \in Numbers THEN "guard" ELSE "boss"]

Parts == {"desk", "estate", "feed", "journeys", "instant"}

Init == /\ chosen \in Parts
        /\ DeskInit /\ EstateInit /\ FeedInit /\ JourneyInit /\ InstantInit
        /\ access \in {[boss |-> {}, guard |-> s] : s \in {{}, {"north"}}}
        /\ chosen \in {"journeys", "instant"} => access["guard"] = {}
        /\ chosen # "journeys" => links = {}

deskOwn == <<rows, post, worked, blurred, verdict>>
estateOwn == <<gone, lens, box, rules, summaries, writes>>
feedOwn == <<socket, scope, connections, cast, got, watched>>

Next ==
    /\ chosen' = chosen
    /\ \/ /\ chosen = "desk" /\ DeskNext
          /\ UNCHANGED <<estateOwn, feedOwn, journeyVars, instantVars>>
       \/ /\ chosen = "estate" /\ EstateNext
          /\ UNCHANGED <<deskOwn, feedOwn, journeyVars, instantVars>>
       \/ /\ chosen = "feed" /\ FeedNext
          /\ UNCHANGED <<deskOwn, estateOwn, journeyVars, instantVars>>
       \/ /\ chosen = "journeys" /\ JourneyNext
          /\ UNCHANGED <<access, deskOwn, estateOwn, feedOwn, instantVars>>
       \/ /\ chosen = "instant" /\ InstantNext
          /\ UNCHANGED <<access, deskOwn, estateOwn, feedOwn, journeyVars>>

Spec == Init /\ [][Next]_<<chosen, access, deskOwn, estateOwn, feedOwn, journeyVars, instantVars>>

\* The desk's reads agree and its work is attributed: evaluated in its own part, since
\* nothing it reads changes in the others.
DeskSound == chosen = "desk" => DeskHolds

\* The estate's routes and tools agree, likewise.
EstateSound == chosen = "estate" => EstateAgrees

Interchangeable == Permutations(Posts) \cup Permutations(Numbers)
=============================================================================
