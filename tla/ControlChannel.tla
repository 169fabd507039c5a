--------------------------- MODULE ControlChannel ---------------------------
(***************************************************************************)
(* Live view over the control socket of one edge box: the reconnecting     *)
(* client of the Go agent (agent/internal/control), the registry every     *)
(* backend process keeps of the sockets it accepted                        *)
(* (backend/app/api/agent_control.py), the request that sends an offer and *)
(* waits for the answer (cameras.py), and the box's viewer slots           *)
(* (agent/webrtcsignal).                                                   *)
(*                                                                         *)
(* A connection breaks at one moment and is found broken by either end at  *)
(* another; what was written to it in between is lost.                     *)
(***************************************************************************)
EXTENDS Naturals, FiniteSets

CONSTANTS Processes,     \* backend processes, each with a registry
          Sockets,       \* connections of the box, each used once
          Viewers,       \* requests for live view, each made once
          MaxSessions    \* ViewerServer.maxSessions

NoSocket == "no socket"

ASSUME ControlAssumption == /\ IsFiniteSet(Viewers) /\ MaxSessions \in Nat \ {0}
                            /\ NoSocket \notin Sockets

VARIABLES conns,     \* ControlRegistry._conns of each process: the box's socket
          socket,    \* what the box and the process know of each connection
          broken,    \* connections that carry nothing any more
          evicted,   \* history: sockets whose entry the end of another one removed
          view,      \* what became of each request for live view
          offer,     \* the offer of each request at the box
          slots      \* ViewerServer.active

controlVars == <<conns, socket, broken, evicted, view, offer, slots>>

\* Requests whose future is in ControlRegistry._pending.
Pending == {v \in Viewers : view[v].at = "waiting"}
Viewed == {v \in Viewers : offer[v] \in {"negotiating", "streaming"}}

ControlInit ==
    /\ conns = [p \in Processes |-> NoSocket]
    /\ socket = [s \in Sockets |-> [box |-> "unused", server |-> "unused"]]
    /\ broken = {} /\ evicted = {}
    /\ view = [v \in Viewers |-> [at |-> "none"]]
    /\ offer = [v \in Viewers |-> "none"]
    /\ slots = 0

-----------------------------------------------------------------------------
(* The connection.                                                          *)

\* Client.Run dials when it has no connection; any process may take the call.  The
\* handler registers the socket in the same turn of the event loop in which the
\* box's handshake ends, whatever was registered before.
Dial(s, p) ==
    /\ socket[s].box = "unused" /\ \A t \in Sockets : socket[t].box # "open"
    /\ socket' = [socket EXCEPT ![s] = [box |-> "open", server |-> "open", by |-> p]]
    /\ conns' = [conns EXCEPT ![p] = s]
    /\ UNCHANGED <<broken, evicted, view, offer, slots>>

Break(s) == /\ socket[s].box = "open" /\ s \notin broken
            /\ broken' = broken \cup {s}
            /\ UNCHANGED <<conns, socket, evicted, view, offer, slots>>

\* The read fails, runOnce closes the connection, Run backs off and dials again.
BoxFinds(s) ==
    /\ socket[s].box = "open" /\ s \in broken
    /\ socket' = [socket EXCEPT ![s].box = "closed"]
    /\ UNCHANGED <<conns, broken, evicted, view, offer, slots>>

\* The handler's finally: unregister is by agent, not by socket.
ServerFinds(s) ==
    LET p == socket[s].by IN
    /\ s \in broken /\ socket[s].server = "open"
    /\ socket' = [socket EXCEPT ![s].server = "closed"]
    /\ conns' = [conns EXCEPT ![p] = NoSocket]
    /\ evicted' = IF conns[p] \in {s, NoSocket} THEN evicted ELSE evicted \cup {conns[p]}
    /\ UNCHANGED <<broken, view, offer, slots>>

-----------------------------------------------------------------------------
(* camera_webrtc_offer and request_signal in one process.                   *)

\* No socket, or a send that fails, falls through to the relay.
SendOffer(v, p) ==
    LET s == conns[p] IN
    /\ view[v].at = "none"
    /\ \/ /\ s = NoSocket \/ s \in broken
          /\ view' = [view EXCEPT ![v].at = "relay"] /\ UNCHANGED offer
       \/ /\ s # NoSocket
          /\ view' = [view EXCEPT ![v] = [at |-> "waiting", on |-> s]]
          /\ offer' = [offer EXCEPT ![v] = "sent"]
    /\ UNCHANGED <<conns, socket, broken, evicted, slots>>

\* wait_for gives up and the request leaves _pending: the relay is tried.
TimeOut(v) == /\ v \in Pending
              /\ view' = [view EXCEPT ![v].at = "relay"]
              /\ UNCHANGED <<conns, socket, broken, evicted, offer, slots>>

\* A signal_answer is resolved if the request is still pending: an error sends it
\* to the relay at once, an answer ends it.
ReceiveAnswer(v) ==
    /\ offer[v] \in {"refused", "streaming"} /\ v \in Pending
    /\ view[v].on \notin broken
    /\ view' = [view EXCEPT ![v].at = IF offer[v] = "refused" THEN "relay" ELSE "served"]
    /\ UNCHANGED <<conns, socket, broken, evicted, offer, slots>>

-----------------------------------------------------------------------------
(* The box: handleOffer runs in a goroutine per offer, HandleOffer in it.   *)

AcquireSession == slots < MaxSessions /\ slots' = slots + 1
ReleaseSession == slots' = IF slots > 0 THEN slots - 1 ELSE 0

Offered(v, from, to) == offer[v] = from /\ offer' = [offer EXCEPT ![v] = to]

\* A bad token, a camera that is not published or a full box: an error answer.
\* Only then is a slot taken.
TakeOffer(v) ==
    /\ view[v].at \in {"waiting", "relay"} /\ offer[v] = "sent"
    /\ view[v].on \notin broken /\ socket[view[v].on].box = "open"
    /\ \/ Offered(v, "sent", "refused") /\ UNCHANGED slots
       \/ Offered(v, "sent", "negotiating") /\ AcquireSession
    /\ UNCHANGED <<conns, socket, broken, evicted, view>>

\* A negotiation that gives its slot back on every exit (mutant).
NegotiateReleasing(v) ==
    /\ \E to \in {"refused", "streaming"} : Offered(v, "negotiating", to)
    /\ ReleaseSession
    /\ UNCHANGED <<conns, socket, broken, evicted, view>>

\* Any stage may fail and gives the slot back; otherwise the pump has it.
Negotiate(v) ==
    /\ \/ Offered(v, "negotiating", "refused") /\ ReleaseSession
       \/ Offered(v, "negotiating", "streaming") /\ UNCHANGED slots
    /\ UNCHANGED <<conns, socket, broken, evicted, view>>

\* viewerPump returns when the peer connection fails or closes: the browser left,
\* or never got the answer.
EndPump(v) == /\ Offered(v, "streaming", "over") /\ ReleaseSession
              /\ UNCHANGED <<conns, socket, broken, evicted, view>>

ControlNext ==
    \/ \E s \in Sockets : \/ \E p \in Processes : Dial(s, p)
                          \/ Break(s) \/ BoxFinds(s) \/ ServerFinds(s)
    \/ \E v \in Viewers : \/ \E p \in Processes : SendOffer(v, p)
                          \/ TimeOut(v) \/ ReceiveAnswer(v)
                          \/ TakeOffer(v) \/ Negotiate(v) \/ EndPump(v)

ControlSpec == ControlInit /\ [][ControlNext]_controlVars

-----------------------------------------------------------------------------
(* Properties.                                                              *)

\* The box never serves more streams than its cap, and the slots it counts are
\* those of the negotiations and streams that live: none leaks, whichever of the
\* many exits a negotiation takes and whether or not anybody waits for its answer.
ViewersCapped == slots = Cardinality(Viewed) /\ slots <= MaxSessions

\* A socket that is open at both ends is the one its process sends offers on,
\* unless the end of an older socket removed its entry.
OpenIsRegistered ==
    \A s \in Sockets : /\ socket[s].box = "open" /\ socket[s].server = "open"
                       /\ s \notin evicted
                       => conns[socket[s].by] = s

ControlSafe == ViewersCapped /\ OpenIsRegistered
=============================================================================
