--------------------------------- MODULE BoxProofs ---------------------------
(***************************************************************************)
(* Two things a box promises, each of a module of its own.                 *)
(*                                                                         *)
(* ControlSafe, for any number of backend processes, connections and       *)
(* viewers, in two halves that share no variable: the box's viewer slots   *)
(* (offer, slots) and the registries of its sockets (conns, socket,        *)
(* evicted).                                                               *)
(*                                                                         *)
(* The wizard's step never goes back by itself, and a camera that is still *)
(* being resolved has its job somewhere, for any number of cameras.        *)
(***************************************************************************)
EXTENDS ControlChannel, Onboarding, BoxDiscovery, Provisioning, SetupRuns,
        FiniteSetTheorems, WellFoundedInduction, TLAPS

-----------------------------------------------------------------------------
(* The control channel.                                                     *)


ViewStates == {"none", "waiting", "relay", "served"}

\* A request that was not made has no offer on its way.
UnaskedUnsent ==
    /\ view \in [Viewers -> [at : ViewStates] \cup [at : ViewStates, on : Sockets]]
    /\ \A v \in Viewers : view[v].at = "none" => offer[v] = "none"

ControlInv ==
    \* the slots
    /\ offer \in [Viewers -> {"none", "sent", "refused", "negotiating", "streaming", "over"}]
    /\ slots \in Nat /\ ViewersCapped
    /\ UnaskedUnsent
    \* the sockets
    /\ conns \in [Processes -> Sockets \cup {NoSocket}]
    /\ socket \in [Sockets -> [box : {"unused"}, server : {"unused"}] \cup
                              [box : {"open", "closed"}, server : {"open", "closed"},
                               by : Processes]]
    /\ OpenIsRegistered

LEMMA ViewedFinite == ControlInv => IsFiniteSet(Viewed) /\ Viewed \subseteq Viewers
<1>1. Viewed \subseteq Viewers
  BY DEF Viewed
<1>2. QED BY <1>1, FS_Subset, ControlAssumption

\* An offer moves on, and the slots move with it.
LEMMA OfferMoves ==
    ASSUME ControlInv, NEW v \in Viewers, NEW from, NEW to,
           Offered(v, from, to),
           to \in {"refused", "negotiating", "streaming", "over"},
           \/ from \in {"negotiating", "streaming"} /\ to \in {"refused", "over"} /\ ReleaseSession
           \/ from = "negotiating" /\ to = "streaming" /\ UNCHANGED slots
           \/ from = "sent" /\ to = "negotiating" /\ AcquireSession
           \/ from = "sent" /\ to = "refused" /\ UNCHANGED slots,
           UNCHANGED <<conns, socket, evicted, view>>
    PROVE  ControlInv'
<1>1. /\ offer[v] = from /\ offer' = [offer EXCEPT ![v] = to]
      /\ offer' \in [Viewers -> {"none", "sent", "refused", "negotiating", "streaming", "over"}]
  BY DEF Offered, ControlInv
<1>2. IsFiniteSet(Viewed) /\ Viewed \subseteq Viewers /\ Cardinality(Viewed) = slots
      /\ slots \in Nat /\ slots <= MaxSessions /\ MaxSessions \in Nat
  BY ViewedFinite, ControlAssumption DEF ControlInv, ViewersCapped
<1>3. slots' \in Nat /\ ViewersCapped'
  <2>1. CASE from \in {"negotiating", "streaming"} /\ to \in {"refused", "over"} /\ ReleaseSession
    <3>1. v \in Viewed /\ Viewed' = Viewed \ {v}
      BY <1>1, <2>1 DEF Viewed, ControlInv
    <3>2. Cardinality(Viewed') = Cardinality(Viewed) - 1
      BY <1>2, <3>1, FS_RemoveElement
    <3>3. Cardinality(Viewed') \in Nat
      BY <1>2, <3>1, FS_RemoveElement, FS_CardinalityType
    <3>4. slots' = slots - 1
      BY <1>2, <2>1, <3>2, <3>3 DEF ReleaseSession
    <3>5. QED BY <1>2, <3>2, <3>3, <3>4 DEF ViewersCapped
  <2>2. CASE from = "negotiating" /\ to = "streaming" /\ UNCHANGED slots
    <3>1. Viewed' = Viewed
      BY <1>1, <2>2 DEF Viewed, ControlInv
    <3>2. QED BY <1>2, <2>2, <3>1 DEF ViewersCapped
  <2>3. CASE from = "sent" /\ to = "negotiating" /\ AcquireSession
    <3>1. v \notin Viewed /\ Viewed' = Viewed \cup {v}
      BY <1>1, <2>3 DEF Viewed, ControlInv
    <3>2. Cardinality(Viewed') = Cardinality(Viewed) + 1
      BY <1>2, <3>1, FS_AddElement
    <3>3. QED BY <1>2, <2>3, <3>2 DEF ViewersCapped, AcquireSession
  <2>4. CASE from = "sent" /\ to = "refused" /\ UNCHANGED slots
    <3>1. Viewed' = Viewed
      BY <1>1, <2>4 DEF Viewed, ControlInv
    <3>2. QED BY <1>2, <2>4, <3>1 DEF ViewersCapped
  <2>5. QED BY <2>1, <2>2, <2>3, <2>4
<1>4. OpenIsRegistered'
  BY DEF ControlInv, OpenIsRegistered
<1>5. UnaskedUnsent'
  BY <1>1 DEF ControlInv, UnaskedUnsent
<1>6. QED BY <1>1, <1>3, <1>4, <1>5 DEF ControlInv

\* A step that leaves the offers and the slots alone keeps what is said of them.
LEMMA SlotsKept ==
    ASSUME ControlInv, UNCHANGED <<offer, slots, view>>,
           conns' \in [Processes -> Sockets \cup {NoSocket}],
           socket' \in [Sockets -> [box : {"unused"}, server : {"unused"}] \cup
                                   [box : {"open", "closed"}, server : {"open", "closed"},
                                    by : Processes]],
           OpenIsRegistered'
    PROVE  ControlInv'
BY DEF ControlInv, ViewersCapped, Viewed, UnaskedUnsent

LEMMA ControlInit_Inv == ControlInit => ControlInv
<1> SUFFICES ASSUME ControlInit PROVE ControlInv
  OBVIOUS
<1> USE DEF ControlInit
<1>1. Viewed = {} /\ Cardinality(Viewed) = 0
  BY FS_EmptySet DEF Viewed
<1>2. slots \in Nat /\ ViewersCapped
  BY <1>1, ControlAssumption DEF ViewersCapped
<1>3. OpenIsRegistered
  BY DEF OpenIsRegistered
<1>4. socket \in [Sockets -> [box : {"unused"}, server : {"unused"}]]
  OBVIOUS
<1>5. UnaskedUnsent
  <2>1. view \in [Viewers -> [at : ViewStates]]
    BY DEF ViewStates
  <2>2. QED BY <2>1 DEF UnaskedUnsent
<1>6. QED BY <1>2, <1>3, <1>4, <1>5 DEF ControlInv

LEMMA SocketNext_Inv ==
    ASSUME ControlInv, NEW s \in Sockets,
           (\E p \in Processes : Dial(s, p)) \/ Break(s) \/ BoxFinds(s) \/ ServerFinds(s)
    PROVE  ControlInv'
<1>0. /\ socket[s].box \in {"open", "closed"} \/ socket[s].server \in {"open", "closed"}
           => /\ socket[s].box \in {"open", "closed"} /\ socket[s].server \in {"open", "closed"}
              /\ socket[s] \in [box : {"open", "closed"}, server : {"open", "closed"}, by : Processes]
  BY DEF ControlInv
<1>1. ASSUME NEW p \in Processes, Dial(s, p) PROVE ControlInv'
  <2>1. /\ socket' = [socket EXCEPT ![s] = [box |-> "open", server |-> "open", by |-> p]]
        /\ conns' = [conns EXCEPT ![p] = s]
        /\ \A t \in Sockets : socket[t].box # "open"
        /\ UNCHANGED <<evicted, offer, slots, view>>
    BY <1>1 DEF Dial
  <2>2. /\ conns' \in [Processes -> Sockets \cup {NoSocket}] /\ conns'[p] = s
        /\ socket'[s] = [box |-> "open", server |-> "open", by |-> p]
        /\ \A t \in Sockets : t # s => socket'[t] = socket[t]
    BY <2>1 DEF ControlInv
  <2>3. OpenIsRegistered'
    BY <2>1, <2>2 DEF OpenIsRegistered
  <2>4. socket' \in [Sockets -> [box : {"unused"}, server : {"unused"}] \cup
                                [box : {"open", "closed"}, server : {"open", "closed"},
                                 by : Processes]]
    BY <2>1 DEF ControlInv
  <2>5. QED BY <2>1, <2>2, <2>3, <2>4, SlotsKept
<1>2. CASE Break(s)
  <2>1. UNCHANGED <<conns, socket, evicted, offer, slots, view>>
    BY <1>2 DEF Break
  <2>2. OpenIsRegistered'
    BY <2>1 DEF ControlInv, OpenIsRegistered
  <2>3. QED BY <2>1, <2>2, SlotsKept DEF ControlInv
<1>3. CASE BoxFinds(s)
  <2>1. /\ socket' = [socket EXCEPT ![s] = [socket[s] EXCEPT !.box = "closed"]]
        /\ UNCHANGED <<conns, evicted, offer, slots, view>> /\ socket[s].box = "open"
    BY <1>3 DEF BoxFinds
  <2>2. [socket[s] EXCEPT !.box = "closed"] \in
          [box : {"open", "closed"}, server : {"open", "closed"}, by : Processes]
    BY <1>0, <2>1
  <2>3. /\ socket'[s].box = "closed"
        /\ \A t \in Sockets : t # s => socket'[t] = socket[t]
    BY <1>0, <2>1 DEF ControlInv
  <2>4. OpenIsRegistered'
    BY <2>1, <2>3 DEF ControlInv, OpenIsRegistered
  <2>5. socket' \in [Sockets -> [box : {"unused"}, server : {"unused"}] \cup
                                [box : {"open", "closed"}, server : {"open", "closed"},
                                 by : Processes]]
    BY <2>1, <2>2 DEF ControlInv
  <2>6. QED BY <2>1, <2>4, <2>5, SlotsKept DEF ControlInv
<1>4. CASE ServerFinds(s)
  <2> DEFINE p == socket[s].by
  <2>1. /\ socket' = [socket EXCEPT ![s] = [socket[s] EXCEPT !.server = "closed"]]
        /\ conns' = [conns EXCEPT ![p] = NoSocket]
        /\ evicted' = IF conns[p] \in {s, NoSocket} THEN evicted ELSE evicted \cup {conns[p]}
        /\ UNCHANGED <<offer, slots, view>> /\ socket[s].server = "open"
    BY <1>4 DEF ServerFinds
  <2>2. /\ p \in Processes
        /\ [socket[s] EXCEPT !.server = "closed"] \in
             [box : {"open", "closed"}, server : {"open", "closed"}, by : Processes]
    BY <1>0, <2>1
  <2>3. /\ socket'[s].server = "closed"
        /\ \A t \in Sockets : t # s => socket'[t] = socket[t]
    BY <1>0, <2>1 DEF ControlInv
  <2>4. /\ conns' \in [Processes -> Sockets \cup {NoSocket}]
        /\ \A q \in Processes : q # p => conns'[q] = conns[q]
    BY <2>1, <2>2 DEF ControlInv
  <2>5. ASSUME NEW t \in Sockets, socket'[t].box = "open", socket'[t].server = "open",
               t \notin evicted'
        PROVE  conns'[socket'[t].by] = t
    <3>1. t # s /\ socket'[t] = socket[t] /\ t \notin evicted
      BY <2>1, <2>3, <2>5
    <3>2. conns[socket[t].by] = t /\ socket[t].by \in Processes
      BY <2>5, <3>1 DEF ControlInv, OpenIsRegistered
    <3>3. socket[t].by # p
      BY <2>1, <2>5, <3>1, <3>2, ControlAssumption
    <3>4. QED BY <2>4, <3>1, <3>2, <3>3
  <2>6. OpenIsRegistered'
    BY <2>5 DEF OpenIsRegistered
  <2>7. socket' \in [Sockets -> [box : {"unused"}, server : {"unused"}] \cup
                                [box : {"open", "closed"}, server : {"open", "closed"},
                                 by : Processes]]
    BY <2>1, <2>2 DEF ControlInv
  <2>8. QED BY <2>1, <2>4, <2>6, <2>7, SlotsKept
<1>5. QED BY <1>1, <1>2, <1>3, <1>4

LEMMA ControlNext_Inv == ASSUME ControlInv, [ControlNext]_controlVars PROVE ControlInv'
<1>1. ASSUME UNCHANGED <<conns, socket, evicted, slots>>, UnaskedUnsent',
             \/ UNCHANGED offer
             \/ \E v \in Viewers : offer[v] = "none" /\ offer' = [offer EXCEPT ![v] = "sent"]
      PROVE  ControlInv'
  <2>1. Viewed' = Viewed
    BY <1>1 DEF ControlInv, Viewed
  <2>2. offer' \in [Viewers -> {"none", "sent", "refused", "negotiating", "streaming", "over"}]
    BY <1>1 DEF ControlInv
  <2>3. ViewersCapped' /\ OpenIsRegistered'
    BY <1>1, <2>1 DEF ControlInv, ViewersCapped, OpenIsRegistered
  <2>4. QED BY <1>1, <2>2, <2>3 DEF ControlInv
<1>2. CASE UNCHANGED controlVars
  BY <1>1, <1>2 DEF controlVars, ControlInv, UnaskedUnsent
<1>3. ASSUME NEW v \in Viewers, NEW p \in Processes, SendOffer(v, p) PROVE ControlInv'
  <2>1. offer[v] = "none"
    BY <1>3 DEF SendOffer, ControlInv, UnaskedUnsent
  <2>2. \/ /\ view' = [view EXCEPT ![v] = [view[v] EXCEPT !.at = "relay"]] /\ UNCHANGED offer
        \/ /\ conns[p] \in Sockets
           /\ view' = [view EXCEPT ![v] = [at |-> "waiting", on |-> conns[p]]]
           /\ offer' = [offer EXCEPT ![v] = "sent"]
    BY <1>3 DEF SendOffer, ControlInv
  <2>3. UnaskedUnsent'
    <3>1. CASE /\ view' = [view EXCEPT ![v] = [view[v] EXCEPT !.at = "relay"]]
               /\ UNCHANGED offer
      <4>1. [view[v] EXCEPT !.at = "relay"] \in [at : ViewStates] \cup [at : ViewStates, on : Sockets]
        BY DEF ControlInv, UnaskedUnsent, ViewStates
      <4>2. QED BY <3>1, <4>1 DEF ControlInv, UnaskedUnsent
    <3>2. CASE /\ conns[p] \in Sockets
               /\ view' = [view EXCEPT ![v] = [at |-> "waiting", on |-> conns[p]]]
               /\ offer' = [offer EXCEPT ![v] = "sent"]
      <4>1. [at |-> "waiting", on |-> conns[p]] \in [at : ViewStates, on : Sockets]
        BY <3>2 DEF ViewStates
      <4>2. QED BY <3>2, <4>1 DEF ControlInv, UnaskedUnsent
    <3>3. QED BY <2>2, <3>1, <3>2
  <2>4. QED BY <1>1, <1>3, <2>1, <2>2, <2>3 DEF SendOffer
<1>4. ASSUME NEW v \in Viewers, TimeOut(v) \/ ReceiveAnswer(v) PROVE ControlInv'
  <2>1. PICK a \in {"relay", "served"} : view' = [view EXCEPT ![v] = [view[v] EXCEPT !.at = a]]
    BY <1>4 DEF TimeOut, ReceiveAnswer
  <2>2. [view[v] EXCEPT !.at = a] \in [at : ViewStates] \cup [at : ViewStates, on : Sockets]
    BY DEF ControlInv, UnaskedUnsent, ViewStates
  <2>3. UNCHANGED offer
    BY <1>4 DEF TimeOut, ReceiveAnswer
  <2>4. UnaskedUnsent'
    BY <2>1, <2>2, <2>3 DEF ControlInv, UnaskedUnsent
  <2>5. QED BY <1>1, <1>4, <2>4 DEF TimeOut, ReceiveAnswer
<1>5. ASSUME NEW v \in Viewers, TakeOffer(v) PROVE ControlInv'
  <2>1. UNCHANGED <<conns, socket, evicted, view>>
    BY <1>5 DEF TakeOffer
  <2>2. \/ Offered(v, "sent", "refused") /\ UNCHANGED slots
        \/ Offered(v, "sent", "negotiating") /\ AcquireSession
    BY <1>5 DEF TakeOffer
  <2>3. CASE Offered(v, "sent", "refused") /\ UNCHANGED slots
    BY <2>1, <2>3, OfferMoves
  <2>4. CASE Offered(v, "sent", "negotiating") /\ AcquireSession
    BY <2>1, <2>4, OfferMoves
  <2>5. QED BY <2>2, <2>3, <2>4
<1>6. ASSUME NEW v \in Viewers, Negotiate(v) PROVE ControlInv'
  <2>1. UNCHANGED <<conns, socket, evicted, view>>
    BY <1>6 DEF Negotiate
  <2>2. \/ Offered(v, "negotiating", "refused") /\ ReleaseSession
        \/ Offered(v, "negotiating", "streaming") /\ UNCHANGED slots
    BY <1>6 DEF Negotiate
  <2>3. CASE Offered(v, "negotiating", "refused") /\ ReleaseSession
    BY <2>1, <2>3, OfferMoves
  <2>4. CASE Offered(v, "negotiating", "streaming") /\ UNCHANGED slots
    BY <2>1, <2>4, OfferMoves
  <2>5. QED BY <2>2, <2>3, <2>4
<1>7. ASSUME NEW v \in Viewers, EndPump(v) PROVE ControlInv'
  BY <1>7, OfferMoves DEF EndPump
<1>8. QED
  BY <1>2, <1>3, <1>4, <1>5, <1>6, <1>7, SocketNext_Inv DEF ControlNext

\* However offers fail, time out or are abandoned, the slots the box counts are those
\* of the streams it serves and within its cap, and an open socket is registered
\* unless an older one's end removed it (agent/webrtcsignal, agent_control.py).
THEOREM ControlIsSafe == ControlSpec => []ControlSafe
<1>1. ControlInv /\ [ControlNext]_controlVars => ControlInv'
  BY ControlNext_Inv
<1>2. ControlInv => ControlSafe
  BY DEF ControlInv, ControlSafe
<1>3. QED BY ControlInit_Inv, <1>1, <1>2, PTL DEF ControlSpec

-----------------------------------------------------------------------------
(* Onboarding.                                                              *)


Statuses == {"none", "uncommitted", "pending", "offline", "error", "deleted"}

OnboardingInv ==
    /\ camera \in [NewCameras -> [status : Statuses, frames : BOOLEAN, zones : BOOLEAN]]
    /\ ResolvingHasJob

-----------------------------------------------------------------------------
(* What a step does to the cameras, in one sentence each.                   *)

Changes(c, s) == camera' = [camera EXCEPT ![c] = [camera[c] EXCEPT !.status = s]]

LEMMA BecomesChanges == \A c, s : Becomes(c, s) <=> Changes(c, s)
  BY DEF Becomes, Changes

\* A status changes, whatever job goes with it.
LEMMA StatusChanges ==
    ASSUME OnboardingInv, NEW c \in NewCameras, NEW s \in Statuses, Becomes(c, s)
    PROVE  /\ camera' \in [NewCameras -> [status : Statuses, frames : BOOLEAN, zones : BOOLEAN]]
           /\ camera'[c].status = s
           /\ camera'[c].frames = camera[c].frames /\ camera'[c].zones = camera[c].zones
           /\ \A d \in NewCameras : d # c => camera'[d] = camera[d]
<1>1. /\ camera[c] \in [status : Statuses, frames : BOOLEAN, zones : BOOLEAN]
      /\ camera' = [camera EXCEPT ![c] = [camera[c] EXCEPT !.status = s]]
  BY DEF OnboardingInv, Becomes
<1> DEFINE r == [camera[c] EXCEPT !.status = s]
<1>2. r \in [status : Statuses, frames : BOOLEAN, zones : BOOLEAN]
  BY <1>1, Zenon
<1>3. r.status = s /\ r.frames = camera[c].frames /\ r.zones = camera[c].zones
  BY <1>1
<1> HIDE DEF r
<1>4. camera' = [camera EXCEPT ![c] = r]
  BY <1>1 DEF r
<1>5. /\ camera'[c] = r /\ \A d \in NewCameras : d # c => camera'[d] = camera[d]
      /\ camera' \in [NewCameras -> [status : Statuses, frames : BOOLEAN, zones : BOOLEAN]]
  BY <1>2, <1>4 DEF OnboardingInv
<1>6. QED BY <1>3, <1>5

Jobs == resolveJobs \cup resolving \cup lostJobs

\* What every step does: cameras stay registered until they are deleted, a frame that
\* arrived has arrived, and no job leaves the account.
Onward ==
    /\ OnboardingInv'
    /\ \A c \in Registered : camera'[c].status # "deleted" => c \in Registered'
    /\ \A c \in NewCameras : camera[c].frames => camera'[c].frames
    /\ walked => walked'

LEMMA SameCameras ==
    ASSUME OnboardingInv, UNCHANGED camera, Jobs \subseteq Jobs', walked => walked'
    PROVE  Onward
BY DEF OnboardingInv, ResolvingHasJob, Jobs, Onward, Registered

LEMMA OtherStatus ==
    ASSUME OnboardingInv, NEW c \in NewCameras, NEW s \in Statuses, Becomes(c, s),
           c \in Registered => s \in {"offline", "error", "deleted"},
           s \in {"uncommitted", "pending"} => c \in Jobs',
           Jobs \subseteq Jobs' \cup {c}, UNCHANGED walked
    PROVE  Onward
<1>1. /\ camera' \in [NewCameras -> [status : Statuses, frames : BOOLEAN, zones : BOOLEAN]]
      /\ camera'[c].status = s /\ camera'[c].frames = camera[c].frames
      /\ \A d \in NewCameras : d # c => camera'[d] = camera[d]
  BY StatusChanges
<1>2. ResolvingHasJob'
  BY <1>1 DEF OnboardingInv, ResolvingHasJob, Jobs
<1>3. \A d \in Registered : camera'[d].status # "deleted" => d \in Registered'
  BY <1>1 DEF Registered
<1>4. \A d \in NewCameras : camera[d].frames => camera'[d].frames
  BY <1>1
<1>5. QED BY <1>1, <1>2, <1>3, <1>4 DEF Onward, OnboardingInv

LEMMA OtherMark ==
    ASSUME OnboardingInv, NEW c \in NewCameras, NEW STATE r,
           r \in [status : Statuses, frames : BOOLEAN, zones : BOOLEAN],
           camera' = [camera EXCEPT ![c] = r],
           r.status = camera[c].status, camera[c].frames => r.frames,
           UNCHANGED <<resolveJobs, resolving, lostJobs, walked>>
    PROVE  Onward
<1>1. /\ camera'[c] = r /\ \A d \in NewCameras : d # c => camera'[d] = camera[d]
      /\ camera' \in [NewCameras -> [status : Statuses, frames : BOOLEAN, zones : BOOLEAN]]
  BY DEF OnboardingInv
<1>2. \A d \in NewCameras : camera'[d].status = camera[d].status
  BY <1>1
<1>3. ResolvingHasJob'
  BY <1>2 DEF OnboardingInv, ResolvingHasJob
<1>4. \A d \in Registered : d \in Registered'
  BY <1>2 DEF Registered
<1>5. \A d \in NewCameras : camera[d].frames => camera'[d].frames
  BY <1>1
<1>6. QED BY <1>1, <1>3, <1>4, <1>5 DEF Onward, OnboardingInv

LEMMA EveryStep == ASSUME OnboardingInv, [OnboardingNext]_onboardingVars PROVE Onward
<1>1. CASE PushDiscovered \/ SnapshotExpires \/ GoesStale \/ UNCHANGED onboardingVars
  BY <1>1, SameCameras
     DEF PushDiscovered, SnapshotExpires, GoesStale, onboardingVars, Jobs
<1>2. CASE WalkTest
  BY <1>2, SameCameras DEF WalkTest, Jobs
<1>3. CASE FetchResolveJobs
  <2>1. Jobs \subseteq Jobs' /\ UNCHANGED <<camera, walked>>
    BY <1>3 DEF FetchResolveJobs, Jobs
  <2>2. QED BY <2>1, SameCameras
<1>4. ASSUME NEW c \in NewCameras, RegisterStream(c) PROVE Onward
  BY <1>4, OtherStatus DEF RegisterStream, Registered, Jobs, Statuses
<1>5. ASSUME NEW c \in NewCameras, RegisterOnvif(c) PROVE Onward
  BY <1>5, OtherStatus DEF RegisterOnvif, Registered, Jobs, Statuses
<1>6. ASSUME NEW c \in NewCameras, CommitCamera(c) PROVE Onward
  <2>1. c \in Jobs
    BY <1>6 DEF CommitCamera, OnboardingInv, ResolvingHasJob, Jobs
  <2>2. QED BY <1>6, <2>1, OtherStatus DEF CommitCamera, Registered, Jobs, Statuses
<1>7. ASSUME NEW c \in NewCameras, PostResolveResult(c) PROVE Onward
  <2>1. resolving' = resolving \ {c} /\ UNCHANGED <<resolveJobs, walked>>
    BY <1>7 DEF PostResolveResult
  <2>2. CASE lostJobs' = lostJobs \cup {c} /\ UNCHANGED camera
    BY <2>1, <2>2, SameCameras DEF Jobs
  <2>3. CASE Becomes(c, "offline") /\ UNCHANGED lostJobs
    BY <2>1, <2>3, OtherStatus DEF Jobs, Statuses
  <2>4. CASE Becomes(c, "error") /\ UNCHANGED lostJobs
    BY <2>1, <2>4, OtherStatus DEF Jobs, Statuses
  <2>5. QED BY <1>7, <2>2, <2>3, <2>4 DEF PostResolveResult
<1>8. ASSUME NEW c \in NewCameras, DeleteCamera(c) PROVE Onward
  BY <1>8, OtherStatus DEF DeleteCamera, Jobs, Statuses
<1>9. ASSUME NEW c \in NewCameras, FirstFrame(c) PROVE Onward
  <2> DEFINE r == [camera[c] EXCEPT !.frames = TRUE]
  <2>1. camera[c] \in [status : Statuses, frames : BOOLEAN, zones : BOOLEAN]
    BY DEF OnboardingInv
  <2>2. r \in [status : Statuses, frames : BOOLEAN, zones : BOOLEAN]
    BY <2>1, Zenon
  <2>3. r.status = camera[c].status /\ r.frames
    BY <2>1
  <2>4. camera' = [camera EXCEPT ![c] = r] /\ UNCHANGED <<resolveJobs, resolving, lostJobs, walked>>
    BY <1>9 DEF FirstFrame
  <2> HIDE DEF r
  <2>5. QED BY <2>2, <2>3, <2>4, OtherMark
<1>10. ASSUME NEW c \in NewCameras, NEW some \in BOOLEAN, SaveZones(c, some) PROVE Onward
  <2> DEFINE r == [camera[c] EXCEPT !.zones = some]
  <2>1. camera[c] \in [status : Statuses, frames : BOOLEAN, zones : BOOLEAN]
    BY DEF OnboardingInv
  <2>2. r \in [status : Statuses, frames : BOOLEAN, zones : BOOLEAN]
    BY <2>1, Zenon
  <2>3. r.status = camera[c].status /\ r.frames = camera[c].frames
    BY <2>1
  <2>4. camera' = [camera EXCEPT ![c] = r] /\ UNCHANGED <<resolveJobs, resolving, lostJobs, walked>>
    BY <1>10 DEF SaveZones
  <2> HIDE DEF r
  <2>5. QED BY <2>2, <2>3, <2>4, OtherMark
<1>11. QED
  BY <1>1, <1>2, <1>3, <1>4, <1>5, <1>6, <1>7, <1>8, <1>9, <1>10 DEF OnboardingNext

LEMMA OnboardingInit_Inv == OnboardingInit => OnboardingInv
<1> SUFFICES ASSUME OnboardingInit PROVE OnboardingInv
  OBVIOUS
<1>1. Absent \in [status : Statuses, frames : BOOLEAN, zones : BOOLEAN]
  BY Zenon DEF Absent, Statuses
<1>2. Absent.status = "none"
  BY DEF Absent
<1>3. QED BY <1>1, <1>2 DEF OnboardingInit, OnboardingInv, ResolvingHasJob

-----------------------------------------------------------------------------
(* The wizard.                                                              *)

\* Where each state is in the order the wizard walks.
LEMMA Steps ==
    /\ Step("waiting_claim") = 1 /\ Step("paired") = 2 /\ Step("scanning") = 3
    /\ Step("cameras_selected") = 4 /\ Step("stream_verified") = 5 /\ Step("zones_saved") = 6
    /\ Step("alert_verified") = 7 /\ Step("protected") = 8
<1>1. DOMAIN States = 1..8
  BY DEF States
<1>2. ASSUME NEW k \in 1..8 PROVE Step(States[k]) = k
  <2>1. \A i \in 1..8 : States[i] = States[k] => i = k
    BY DEF States
  <2>2. QED BY <1>1, <2>1 DEF Step
<1>3. QED BY <1>2 DEF States

\* The wizard's step by what it is derived from.
WizardTable ==
    /\ walked /\ Zoned # {} => Step(WizardStep) = 8
    /\ walked /\ Zoned = {} => Step(WizardStep) = 7
    /\ ~walked /\ Zoned # {} => Step(WizardStep) = 6
    /\ ~walked /\ Zoned = {} /\ Verified # {} => Step(WizardStep) = 5
    /\ ~walked /\ Verified = {} /\ Registered # {} => Step(WizardStep) = 4
    /\ ~walked /\ Registered = {} /\ found => Step(WizardStep) = 3
    /\ ~walked /\ Registered = {} /\ ~found /\ online => Step(WizardStep) = 2
    /\ ~walked /\ Registered = {} /\ ~found /\ ~online => Step(WizardStep) = 1

LEMMA WizardIsTable == WizardTable
<1>0. Zoned \subseteq Verified /\ Verified \subseteq Registered
  BY DEF Zoned, Verified
<1>1. CASE walked /\ Zoned # {}
  <2>1. WizardStep = "protected"
    BY <1>1 DEF WizardStep
  <2>2. QED BY <1>1, <2>1, Steps DEF WizardTable
<1>2. CASE walked /\ Zoned = {}
  <2>1. WizardStep = "alert_verified"
    BY <1>2 DEF WizardStep
  <2>2. QED BY <1>2, <2>1, Steps DEF WizardTable
<1>3. CASE ~walked /\ Zoned # {}
  <2>1. WizardStep = "zones_saved"
    BY <1>0, <1>3 DEF WizardStep
  <2>2. QED BY <1>0, <1>3, <2>1, Steps DEF WizardTable
<1>4. CASE ~walked /\ Zoned = {} /\ Verified # {}
  <2>1. WizardStep = "stream_verified"
    BY <1>0, <1>4 DEF WizardStep
  <2>2. QED BY <1>0, <1>4, <2>1, Steps DEF WizardTable
<1>5. CASE ~walked /\ Verified = {} /\ Registered # {}
  <2>1. WizardStep = "cameras_selected"
    BY <1>0, <1>5 DEF WizardStep
  <2>2. QED BY <1>0, <1>5, <2>1, Steps DEF WizardTable
<1>6. CASE ~walked /\ Registered = {} /\ found
  <2>1. WizardStep = "scanning"
    BY <1>0, <1>6 DEF WizardStep
  <2>2. QED BY <1>0, <1>6, <2>1, Steps DEF WizardTable
<1>7. CASE ~walked /\ Registered = {} /\ ~found /\ online
  <2>1. WizardStep = "paired"
    BY <1>0, <1>7 DEF WizardStep
  <2>2. QED BY <1>0, <1>7, <2>1, Steps DEF WizardTable
<1>8. CASE ~walked /\ Registered = {} /\ ~found /\ ~online
  <2>1. WizardStep = "waiting_claim"
    BY <1>0, <1>8 DEF WizardStep
  <2>2. QED BY <1>0, <1>8, <2>1, Steps DEF WizardTable
<1>9. QED BY <1>0, <1>1, <1>2, <1>3, <1>4, <1>5, <1>6, <1>7, <1>8

\* Without a removal every set the table asks for grows.
LEMMA SetsGrow ==
    ASSUME OnboardingInv, Onward, ~Removed
    PROVE  /\ Registered \subseteq Registered' /\ Verified \subseteq Verified'
           /\ Zoned \subseteq Zoned'
<1>0. \A c \in NewCameras : camera'[c].status = "deleted" => camera[c].status = "deleted"
  BY DEF Removed
<1>1. \A c \in NewCameras : camera[c].zones => camera'[c].zones
  BY DEF Removed
<1>2. ASSUME NEW c \in Registered PROVE c \in Registered'
  <2>1. c \in NewCameras /\ camera[c].status # "deleted"
    BY DEF Registered
  <2>2. camera'[c].status # "deleted"
    BY <1>0, <2>1
  <2>3. QED BY <2>2 DEF Onward
<1>3. Verified \subseteq Verified'
  BY <1>2 DEF Onward, Verified, Registered
<1>4. Zoned \subseteq Zoned'
  BY <1>1, <1>3 DEF Zoned, Verified, Registered
<1>5. QED BY <1>2, <1>3, <1>4

StepBack ==
    Step(WizardStep') < Step(WizardStep) =>
       \/ Removed
       \/ Registered = {} /\ ((found /\ ~found') \/ (online /\ ~online'))

LEMMA NoStepBack == ASSUME OnboardingInv, Onward PROVE StepBack
<1> SUFFICES ASSUME ~Removed,
                    ~(Registered = {} /\ ((found /\ ~found') \/ (online /\ ~online')))
             PROVE  ~(Step(WizardStep') < Step(WizardStep))
  BY DEF StepBack
<1>1. WizardTable
  BY WizardIsTable
<1>2. WizardTable'
  BY WizardIsTable, PTL
<1>3. /\ Registered \subseteq Registered' /\ Verified \subseteq Verified'
      /\ Zoned \subseteq Zoned' /\ (walked => walked')
  BY SetsGrow DEF Onward
<1>4. Zoned \subseteq Verified /\ Verified \subseteq Registered
  BY DEF Zoned, Verified
<1>5. Step(WizardStep)' = Step(WizardStep')
  BY DEF Step, States
<1> DEFINE before == Step(WizardStep)
           after == Step(WizardStep')
<1>6. CASE walked
  <2>1. before = (IF Zoned # {} THEN 8 ELSE 7)
    BY <1>1, <1>6 DEF WizardTable
  <2>2. after = IF Zoned' # {} THEN 8 ELSE 7
    BY <1>2, <1>3, <1>5, <1>6 DEF WizardTable
  <2>3. QED BY <1>3, <2>1, <2>2
<1>7. CASE ~walked /\ walked'
  <2>1. before <= 6 /\ before \in Nat
    BY <1>1, <1>4, <1>7 DEF WizardTable
  <2>2. after \in {7, 8}
    BY <1>2, <1>5, <1>7 DEF WizardTable
  <2>3. QED BY <2>1, <2>2
<1>8. CASE ~walked /\ ~walked'
  <2>1. CASE Registered = {}
    <3>1. before \in 1..3 /\ (before = 3 => found) /\ (before = 2 => online) /\ (found => before = 3)
      BY <1>1, <1>8, <2>1 DEF WizardTable
    <3>2. after \in 1..6 /\ (found' => after >= 3) /\ (online' => after >= 2)
      BY <1>2, <1>5, <1>8 DEF WizardTable, Registered, Verified, Zoned
    <3>3. QED BY <2>1, <3>1, <3>2
  <2>2. CASE Registered # {}
    <3>1. /\ Zoned # {} => before = 6
          /\ Zoned = {} /\ Verified # {} => before = 5
          /\ Zoned = {} /\ Verified = {} => before = 4
      BY <1>1, <1>8, <2>2 DEF WizardTable
    <3>2. /\ Zoned' # {} => after = 6
          /\ Zoned' = {} /\ Verified' # {} => after = 5
          /\ Zoned' = {} /\ Verified' = {} => after = 4
      BY <1>2, <1>3, <1>5, <1>8, <2>2 DEF WizardTable
    <3>3. QED BY <1>3, <3>1, <3>2
  <2>3. QED BY <2>1, <2>2
<1>9. QED BY <1>6, <1>7, <1>8

-----------------------------------------------------------------------------
\* Whatever is lost between the box and the backend, a camera that waits for its
\* address has its job in the list, at the box, or among the lost (api/agents.py).
THEOREM JobsAccounted == OnboardingSpec => []ResolvingHasJob
<1>1. OnboardingInv /\ [OnboardingNext]_onboardingVars => OnboardingInv'
  BY EveryStep DEF Onward
<1>2. OnboardingInv => ResolvingHasJob
  BY DEF OnboardingInv
<1>3. QED BY OnboardingInit_Inv, <1>1, <1>2, PTL DEF OnboardingSpec

\* The wizard goes back only when a camera or its zones are taken away or, before there
\* is one, when a report of the box has expired (onboarding_status_service.py).
THEOREM WizardKeepsItsStep == OnboardingSpec => NeverDraggedBack
<1>1. OnboardingInv /\ [OnboardingNext]_onboardingVars => OnboardingInv'
  BY EveryStep DEF Onward
<1>2. OnboardingInv /\ [OnboardingNext]_onboardingVars => [StepBack]_onboardingVars
  BY EveryStep, NoStepBack
<1>3. QED BY OnboardingInit_Inv, <1>1, <1>2, PTL DEF OnboardingSpec, NeverDraggedBack, StepBack

-----------------------------------------------------------------------------
(***************************************************************************)
(* BoxDiscovery.                                                           *)
(***************************************************************************)
\* Scans in the order of their times; and where the only copy of each set of
\* credentials is: staged, or with at most one fetch.
DiscoveryInv ==
    /\ second \in Nat /\ lastScan \in Nat \cup {-1} /\ lastScan <= second
    /\ \A s \in starts : s.at \in Nat /\ s.at <= lastScan
    /\ ScansApart
    /\ prompt \in [Prompts -> {"none", "staged", "sent", "refused"}]
    /\ creds \in Prompts \cup {Nothing}
    /\ creds # Nothing => prompt[creds] \in {"staged", "sent"}
    /\ fetch \in [Fetches -> [at : {"none", "fetch", "over"}] \cup [at : {"holds", "over"}, of : Prompts]]
    /\ \A g \in Fetches : "of" \in DOMAIN fetch[g] =>
          fetch[g].of # creds /\ prompt[fetch[g].of] # "none"
    /\ CredsOnce

\* Every step of the box, of the backend or of a scan keeps it.
LEMMA DiscoveryStep == ASSUME DiscoveryInv, [DiscoveryNext]_discoveryVars PROVE DiscoveryInv'
<1> DEFINE Scanned == /\ second \in Nat /\ lastScan \in Nat \cup {-1} /\ lastScan <= second
                      /\ \A s \in starts : s.at \in Nat /\ s.at <= lastScan
                      /\ ScansApart
           Staged == /\ prompt \in [Prompts -> {"none", "staged", "sent", "refused"}]
                     /\ creds \in Prompts \cup {Nothing}
                     /\ creds # Nothing => prompt[creds] \in {"staged", "sent"}
           Fetched == /\ fetch \in [Fetches -> [at : {"none", "fetch", "over"}]
                                          \cup [at : {"holds", "over"}, of : Prompts]]
                      /\ \A g \in Fetches : "of" \in DOMAIN fetch[g] =>
                            fetch[g].of # creds /\ prompt[fetch[g].of] # "none"
                      /\ CredsOnce
<1>1. Scanned /\ Staged /\ Fetched
  BY DEF DiscoveryInv
<1>2. ASSUME Scanned', Staged', Fetched' PROVE DiscoveryInv'
  BY <1>2 DEF DiscoveryInv
<1>3. ASSUME UNCHANGED nvrVars PROVE Staged' /\ Fetched'
  BY <1>1, <1>3 DEF nvrVars, CredsOnce
<1>4. ASSUME UNCHANGED scanVars PROVE Scanned'
  BY <1>1, <1>4 DEF scanVars, ScansApart
<1>5. CASE PassSecond
  BY <1>1, <1>2, <1>3, <1>5 DEF PassSecond, ScansApart
<1>6. CASE \E g \in Commands : ScanNow(g) \/ EndScan(g)
  BY <1>1, <1>2, <1>3, <1>6 DEF ScanNow, EndScan, ScansApart
<1>7. ASSUME NEW g \in Commands, BeginScan(g) PROVE DiscoveryInv'
  <2>1. CASE UNCHANGED <<lastScan, starts>>
    BY <1>1, <1>2, <1>3, <1>7, <2>1 DEF BeginScan, ScansApart
  <2>2. CASE /\ ~CoolingDown /\ lastScan' = second
             /\ starts' = starts \cup {[by |-> g, at |-> second]}
    <3>1. \A s \in starts : second - s.at >= ScanCooldown
      BY <1>1, <2>2, DiscoveryAssumption DEF CoolingDown
    <3>2. second' = second /\ UNCHANGED nvrVars
      BY <1>7 DEF BeginScan
    <3>3. \A s \in starts' : s.at \in Nat /\ s.at <= lastScan'
      BY <1>1, <2>2
    <3>4. ScansApart'
      BY <1>1, <2>2, <3>1 DEF ScansApart
    <3>5. Scanned'
      BY <1>1, <2>2, <3>2, <3>3, <3>4
    <3>6. QED BY <1>2, <1>3, <3>2, <3>5
  <2>3. QED BY <1>7, <2>1, <2>2 DEF BeginScan
<1>8. CASE CredsExpire
  BY <1>1, <1>2, <1>4, <1>8, DiscoveryAssumption DEF CredsExpire, CredsOnce
<1>9. ASSUME NEW p \in Prompts, StageCreds(p) PROVE DiscoveryInv'
  <2>1. /\ prompt[p] = "none" /\ creds' = p /\ prompt' = [prompt EXCEPT ![p] = "staged"]
        /\ UNCHANGED <<scanVars, fetch>>
    BY <1>9 DEF StageCreds
  <2>2. Staged'
    BY <1>1, <2>1
  <2>3. \A g \in Fetches : "of" \in DOMAIN fetch[g] =>
          fetch[g].of # p /\ prompt'[fetch[g].of] # "none"
    BY <1>1, <2>1
  <2>4. CredsOnce'
    BY <1>1, <2>1 DEF CredsOnce
  <2>5. QED BY <1>1, <1>2, <1>4, <2>1, <2>2, <2>3, <2>4
<1>10. ASSUME NEW p \in Prompts, SendResolve(p) PROVE DiscoveryInv'
  <2>1. prompt[p] = "staged" /\ UNCHANGED scanVars
    BY <1>10 DEF SendResolve
  <2>2. CASE /\ prompt' = [prompt EXCEPT ![p] = "sent"] /\ UNCHANGED creds
             /\ \E g \in Fetches : fetch[g].at = "none" /\ fetch' = [fetch EXCEPT ![g].at = "fetch"]
    <3>1. PICK g \in Fetches : fetch[g].at = "none" /\ fetch' = [fetch EXCEPT ![g].at = "fetch"]
      BY <2>2
    <3>2. fetch[g] \in [at : {"none", "fetch", "over"}]
      BY <1>1, <3>1
    <3>3. /\ fetch' \in [Fetches -> [at : {"none", "fetch", "over"}]
                                          \cup [at : {"holds", "over"}, of : Prompts]]
          /\ \A h \in Fetches : "of" \in DOMAIN fetch'[h] => fetch'[h] = fetch[h]
      BY <1>1, <3>1, <3>2
    <3>4. Staged'
      BY <1>1, <2>2
    <3>5. \A h \in Fetches : "of" \in DOMAIN fetch'[h] =>
              fetch'[h].of # creds' /\ prompt'[fetch'[h].of] # "none"
      BY <1>1, <2>1, <2>2, <3>3
    <3>6. CredsOnce'
      <4>1. \A q \in Prompts : prompt'[q] = "refused" => creds' # q
        BY <1>1, <2>2 DEF CredsOnce
      <4>2. QED BY <1>1, <3>3, <4>1 DEF CredsOnce
    <3>7. QED BY <1>2, <1>4, <2>1, <3>3, <3>4, <3>5, <3>6
  <2>3. CASE prompt' = [prompt EXCEPT ![p] = "refused"] /\ creds' = Nothing /\ UNCHANGED fetch
    <3>1. \A q \in Prompts : q # Nothing
      BY DiscoveryAssumption
    <3>2. Staged'
      BY <1>1, <2>3
    <3>3. Fetched'
      BY <1>1, <2>1, <2>3, <3>1 DEF CredsOnce
    <3>4. QED BY <1>2, <1>4, <2>1, <3>2, <3>3
  <2>4. QED BY <1>10, <2>2, <2>3 DEF SendResolve
<1>11. ASSUME NEW g \in Fetches, FetchCreds(g) PROVE DiscoveryInv'
  <2>1. /\ creds' = Nothing /\ UNCHANGED <<scanVars, prompt>> /\ fetch[g].at = "fetch"
        /\ fetch' = [fetch EXCEPT ![g] = IF creds = Nothing THEN [at |-> "over"]
                                         ELSE [at |-> "holds", of |-> creds]]
    BY <1>11 DEF FetchCreds
  <2>2. Staged'
    BY <1>1, <2>1
  <2>3. fetch' \in [Fetches -> [at : {"none", "fetch", "over"}] \cup [at : {"holds", "over"}, of : Prompts]]
    BY <1>1, <2>1
  <2>4. /\ \A h \in Fetches : h # g => fetch'[h] = fetch[h]
        /\ \/ creds = Nothing /\ fetch'[g] = [at |-> "over"]
           \/ creds # Nothing /\ creds \in Prompts /\ fetch'[g] = [at |-> "holds", of |-> creds]
    BY <1>1, <2>1
  <2>5. \A q \in Prompts : q # Nothing
    BY DiscoveryAssumption
  <2>6. \A h \in Fetches : "of" \in DOMAIN fetch'[h] => fetch'[h].of \in Prompts
    BY <2>3
  <2>7. \A h \in Fetches : "of" \in DOMAIN fetch'[h] =>
              fetch'[h].of # creds' /\ prompt'[fetch'[h].of] # "none"
    BY <1>1, <2>1, <2>4, <2>5, <2>6
  <2>8. CredsOnce'
    <3>1. \A q \in Prompts : creds' # q
      BY <2>1, <2>5
    <3>2. "of" \in DOMAIN fetch'[g] => fetch'[g].of = creds
      BY <2>4
    <3>3. \A h \in Fetches : h # g /\ "of" \in DOMAIN fetch'[h] => fetch'[h].of # creds
      BY <1>1, <2>4
    <3>4. QED BY <1>1, <2>4, <3>1, <3>2, <3>3 DEF CredsOnce
  <2>9. QED BY <1>2, <1>4, <2>1, <2>2, <2>3, <2>7, <2>8
<1>12. ASSUME NEW g \in Fetches, ReportChannels(g) PROVE DiscoveryInv'
  <2>1. /\ fetch[g].at = "holds" /\ fetch' = [fetch EXCEPT ![g].at = "over"]
        /\ UNCHANGED <<scanVars, creds, prompt>>
    BY <1>12 DEF ReportChannels
  <2>2. fetch[g] \in [at : {"holds", "over"}, of : Prompts]
    BY <1>1, <2>1
  <2>3. /\ fetch' \in [Fetches -> [at : {"none", "fetch", "over"}] \cup [at : {"holds", "over"}, of : Prompts]]
        /\ \A h \in Fetches : DOMAIN fetch'[h] = DOMAIN fetch[h]
                              /\ ("of" \in DOMAIN fetch[h] => fetch'[h].of = fetch[h].of)
    BY <1>1, <2>1, <2>2
  <2>4. CredsOnce'
    BY <1>1, <2>1, <2>3 DEF CredsOnce
  <2>5. Staged' /\ Fetched'
    BY <1>1, <2>1, <2>3, <2>4
  <2>6. QED BY <1>2, <1>4, <2>1, <2>5
<1>13. CASE UNCHANGED discoveryVars
  BY <1>2, <1>3, <1>4, <1>13 DEF discoveryVars, scanVars, nvrVars
<1>14. QED
  BY <1>5, <1>6, <1>7, <1>8, <1>9, <1>10, <1>11, <1>12, <1>13 DEF DiscoveryNext

\* Scans start apart and credentials are handed to a box once at most, whatever
\* overwrites, expires or fails in between (supervisor.py and agents.py).
THEOREM DiscoveryIsSafe == DiscoverySpec => []DiscoverySafe
<1>1. DiscoveryInit => DiscoveryInv
  BY DiscoveryAssumption DEF DiscoveryInit, DiscoveryInv, ScansApart, CredsOnce
<1>2. DiscoveryInv => DiscoverySafe
  BY DEF DiscoveryInv, DiscoverySafe
<1>3. QED BY <1>1, <1>2, DiscoveryStep, PTL DEF DiscoverySpec

-----------------------------------------------------------------------------
(***************************************************************************)
(* Provisioning. A box without a pairing code is claimed at most once at a *)
(* time, and the row says which token it was given; a box with one is      *)
(* never waiting to be claimed, so what it saves is its agent's.           *)
(***************************************************************************)
ProvisionRows == {NoRow} \union [status : {"waiting"}, late : BOOLEAN]
        \union [status : {"claimed"}, late : BOOLEAN, token : Nat]
ClaimSteps == {NoClaim} \union [at : {"over"}]
              \union [at : {"handle", "row", "agent", "over"}, for : Boxes, org : Orgs]
              \union [at : {"write"}, for : Boxes, org : Orgs, exists : BOOLEAN]
BoxStates == [at : {"off", "failed", "running", "provision", "poll", "redeem", "redeeming"}]
             \union [at : {"save"}, token : Nat]

ProvisioningTypeOK ==
    /\ provision \in [Boxes -> ProvisionRows] /\ handles \subseteq Boxes
    /\ claim \in [Claims -> ClaimSteps]
    /\ code \in [PairCodes -> [expired : BOOLEAN, consumed : BOOLEAN, made : SUBSET Boxes]]
    /\ agent \in [Orgs -> [Boxes -> Nat]] /\ minted \in Nat
    /\ box \in [Boxes -> BoxStates] /\ file \in [Boxes -> Int]

HoldsBox(k, b) == claim[k].at \in {"agent", "write"} /\ claim[k].for = b
NoneSaved(b) == file[b] \in {NoToken, Torn} /\ box[b].at # "save"
OnlyToken(b, t) == /\ t \in Nat /\ t # NoToken
                   /\ file[b] \in {NoToken, Torn, t}
                   /\ box[b].at = "save" => box[b].token = t

OneClaim(b) ==
    /\ \A k, l \in Claims : HoldsBox(k, b) /\ HoldsBox(l, b) => k = l
    /\ provision[b].status = "claimed" => \A k \in Claims : ~HoldsBox(k, b)
BlankBox(b) ==
    /\ box[b].at \notin {"redeem", "redeeming"}
    /\ \A k \in Claims : HoldsBox(k, b) => provision[b] # NoRow
    /\ b \notin contested =>
        /\ OneClaim(b)
        /\ provision[b].status # "claimed" => NoneSaved(b) /\ \A o \in Orgs : agent[o][b] = NoToken
        /\ provision[b].status = "claimed" =>
             /\ OnlyToken(b, provision[b].token)
             /\ \E o \in Orgs : agent[o][b] = provision[b].token
CodedBox(b) ==
    LET t == agent[PairCodeOrg[CodeOf[b]]][b] IN
    /\ provision[b] = NoRow /\ b \notin handles
    /\ box[b].at \notin {"provision", "poll"}
    /\ \A k \in Claims : claim[k].at \in {"handle", "row", "agent", "write"} => claim[k].for # b
    /\ NoneSaved(b) \/ OnlyToken(b, t)
OneAgent(c) ==
    /\ \A a, b \in Redeeming(c) : a = b
    /\ Redeeming(c) # {} => ~code[c].consumed
    /\ ~code[c].consumed => code[c].made = {}
    /\ code[c].made = {} \/ \E b \in Boxes : code[c].made = {b}
ProvisioningInv ==
    /\ ProvisioningTypeOK
    /\ \A b \in Boxes : IF CodeOf[b] = NoCode THEN BlankBox(b) ELSE CodedBox(b)
    /\ \A c \in PairCodes \ contested : OneAgent(c)

\* What a backend row of a box, or a box, is when the state is typed.
LEMMA ProvisioningTyped ==
    ASSUME ProvisioningTypeOK
    PROVE  /\ \A b \in Boxes : provision[b] \in ProvisionRows /\ box[b] \in BoxStates /\ file[b] \in Int
           /\ \A k \in Claims : claim[k] \in ClaimSteps
           /\ \A c \in PairCodes : code[c] \in [expired : BOOLEAN, consumed : BOOLEAN, made : SUBSET Boxes]
           /\ \A o \in Orgs, b \in Boxes : agent[o][b] \in Nat
BY DEF ProvisioningTypeOK

\* What nobody touches stays as it is.
LEMMA BlankFrame ==
    ASSUME NEW b \in Boxes, BlankBox(b), contested \subseteq contested',
           provision'[b] = provision[b], \A o \in Orgs : agent'[o][b] = agent[o][b],
           box'[b] = box[b], file'[b] = file[b],
           \A k \in Claims : HoldsBox(k, b)' <=> HoldsBox(k, b)
    PROVE  BlankBox(b)'
<1>1. /\ box'[b].at \notin {"redeem", "redeeming"}
      /\ \A k \in Claims : HoldsBox(k, b)' => provision'[b] # NoRow
  BY DEF BlankBox
<1>2. ASSUME b \notin contested'
      PROVE  /\ OneClaim(b)'
             /\ provision'[b].status # "claimed" =>
                   NoneSaved(b)' /\ \A o \in Orgs : agent'[o][b] = NoToken
             /\ provision'[b].status = "claimed" =>
                   /\ OnlyToken(b, provision[b].token)'
                   /\ \E o \in Orgs : agent'[o][b] = provision'[b].token
  <2>1. b \notin contested
    BY <1>2
  <2>2. OneClaim(b)'
    BY <2>1 DEF BlankBox, OneClaim
  <2>3. provision[b].status # "claimed" => NoneSaved(b)' /\ \A o \in Orgs : agent'[o][b] = NoToken
    BY <2>1 DEF BlankBox, NoneSaved
  <2>4. provision[b].status = "claimed" => OnlyToken(b, provision[b].token)'
    BY <2>1 DEF BlankBox, OnlyToken
  <2>5. provision[b].status = "claimed" => \E o \in Orgs : agent'[o][b] = provision'[b].token
    BY <2>1 DEF BlankBox
  <2>6. QED BY <2>2, <2>3, <2>4, <2>5
<1>3. QED BY <1>1, <1>2 DEF BlankBox

\* The same for a box that has a pairing code.
LEMMA CodedFrame ==
    ASSUME NEW b \in Boxes, CodedBox(b),
           provision'[b] = provision[b], \A o \in Orgs : agent'[o][b] = agent[o][b],
           PairCodeOrg[CodeOf[b]] \in Orgs,
           box'[b] = box[b], file'[b] = file[b], b \in handles' => b \in handles,
           \A k \in Claims : claim'[k].at \in {"handle", "row", "agent", "write"} => claim'[k].for # b
    PROVE  CodedBox(b)'
BY DEF CodedBox, NoneSaved, OnlyToken

\* A code nobody consumes.
LEMMA CodeFrame ==
    ASSUME NEW c \in PairCodes, OneAgent(c), code'[c].made = code[c].made,
           code'[c].consumed = code[c].consumed, Redeeming(c)' \subseteq Redeeming(c)
    PROVE  OneAgent(c)'
BY DEF OneAgent

\* A box whose code stands for an organisation.
LEMMA CodedOrg ==
    ASSUME NEW b \in Boxes, CodeOf[b] # NoCode
    PROVE  CodeOf[b] \in PairCodes /\ PairCodeOrg[CodeOf[b]] \in Orgs
BY ProvisioningAssumption

-----------------------------------------------------------------------------

\* The process on a box does something of its own.
LEMMA BoxStep ==
    ASSUME ProvisioningInv, UNCHANGED backendVars, NEW a \in Boxes,
           NEW x \in BoxStates, NEW f \in Int,
           box' = [box EXCEPT ![a] = x], file' = [file EXCEPT ![a] = f], x.at # "redeeming",
           CodeOf[a] = NoCode =>
              /\ x.at # "redeem"
              /\ a \notin contested /\ provision[a].status # "claimed" =>
                    f \in {NoToken, Torn} /\ x.at # "save"
              /\ a \notin contested /\ provision[a].status = "claimed" =>
                    /\ f \in {NoToken, Torn, provision[a].token}
                    /\ x.at = "save" => x.token = provision[a].token,
           CodeOf[a] # NoCode =>
              /\ x.at \notin {"provision", "poll", "save"}
              /\ \/ f \in {NoToken, Torn, file[a]}
                 \/ box[a].at = "save" /\ f = box[a].token
    PROVE  ProvisioningInv'
<1>1. /\ UNCHANGED <<provision, handles, claim, code, agent, minted, contested>>
      /\ box'[a] = x /\ file'[a] = f
      /\ \A b \in Boxes : b # a => box'[b] = box[b] /\ file'[b] = file[b]
  BY DEF backendVars, ProvisioningInv, ProvisioningTypeOK
<1>2. ProvisioningTypeOK'
  BY <1>1 DEF ProvisioningInv, ProvisioningTypeOK
<1>3. \A k \in Claims, b \in Boxes : HoldsBox(k, b)' <=> HoldsBox(k, b)
  BY <1>1 DEF HoldsBox
<1>4. ASSUME NEW b \in Boxes, CodeOf[b] = NoCode PROVE BlankBox(b)'
  <2>1. BlankBox(b)
    BY <1>4 DEF ProvisioningInv
  <2>2. CASE b # a
    BY <1>1, <1>3, <2>1, <2>2, BlankFrame
  <2>3. CASE b = a
    <3>1. /\ box'[b].at \notin {"redeem", "redeeming"}
          /\ \A k \in Claims : HoldsBox(k, b)' => provision'[b] # NoRow
      BY <1>1, <1>3, <1>4, <2>1, <2>3 DEF BlankBox
    <3>2. ASSUME b \notin contested PROVE OneClaim(b)'
      BY <1>1, <1>3, <2>1, <3>2 DEF BlankBox, OneClaim
    <3>3. ASSUME b \notin contested, provision[b].status # "claimed"
          PROVE  NoneSaved(b)' /\ \A o \in Orgs : agent'[o][b] = NoToken
      BY <1>1, <1>4, <2>1, <2>3, <3>3 DEF BlankBox, NoneSaved
    <3>4. ASSUME b \notin contested, provision[b].status = "claimed"
          PROVE  /\ OnlyToken(b, provision[b].token)'
                 /\ \E o \in Orgs : agent'[o][b] = provision'[b].token
      BY <1>1, <1>4, <2>1, <2>3, <3>4 DEF BlankBox, OnlyToken
    <3>5. QED BY <1>1, <3>1, <3>2, <3>3, <3>4 DEF BlankBox
  <2>4. QED BY <2>2, <2>3
<1>5. ASSUME NEW b \in Boxes, CodeOf[b] # NoCode PROVE CodedBox(b)'
  <2>1. CodedBox(b) /\ PairCodeOrg[CodeOf[b]] \in Orgs
    BY <1>5, CodedOrg DEF ProvisioningInv
  <2>2. \A k \in Claims : claim'[k].at \in {"handle", "row", "agent", "write"} => claim'[k].for # b
    BY <1>1, <2>1 DEF CodedBox
  <2>3. CASE b # a
    BY <1>1, <2>1, <2>2, <2>3, CodedFrame
  <2>4. CASE b = a
    <3>1. NoneSaved(b)' \/ OnlyToken(b, agent[PairCodeOrg[CodeOf[b]]][b])'
      BY <1>1, <1>5, <2>1, <2>4 DEF CodedBox, NoneSaved, OnlyToken
    <3>2. QED BY <1>1, <1>5, <2>1, <2>2, <2>4, <3>1 DEF CodedBox
  <2>5. QED BY <2>3, <2>4
<1>6. ASSUME NEW c \in PairCodes \ contested' PROVE OneAgent(c)'
  <2>1. OneAgent(c)
    BY <1>1, <1>6 DEF ProvisioningInv
  <2>2. Redeeming(c)' \subseteq Redeeming(c)
    BY <1>1 DEF Redeeming
  <2>3. QED BY <1>1, <2>1, <2>2, CodeFrame
<1>7. QED BY <1>2, <1>4, <1>5, <1>6 DEF ProvisioningInv

\* A claim request goes on.
LEMMA ClaimStep ==
    ASSUME ProvisioningInv, UNCHANGED <<provision, code, agent, minted, box, file>>,
           handles' \subseteq handles, contested \subseteq contested',
           NEW k \in Claims, NEW x \in ClaimSteps, claim' = [claim EXCEPT ![k] = x],
           x.at \in {"handle", "row", "agent", "write"} => CodeOf[x.for] = NoCode,
           x.at \in {"agent", "write"} => provision[x.for] # NoRow,
           x.at \in {"agent", "write"} =>
              \/ HoldsBox(k, x.for) \/ x.for \in contested'
              \/ provision[x.for].status # "claimed" /\ \A l \in Claims : ~HoldsBox(l, x.for)
    PROVE  ProvisioningInv'
<1>1. /\ claim'[k] = x /\ \A l \in Claims : l # k => claim'[l] = claim[l]
  BY DEF ProvisioningInv, ProvisioningTypeOK
<1>2. ProvisioningTypeOK'
  <2>1. claim' \in [Claims -> ClaimSteps] /\ handles' \subseteq Boxes
    BY DEF ProvisioningInv, ProvisioningTypeOK
  <2>2. QED BY <2>1 DEF ProvisioningInv, ProvisioningTypeOK
<1>3. \A l \in Claims, b \in Boxes : l # k => (HoldsBox(l, b)' <=> HoldsBox(l, b))
  BY <1>1 DEF HoldsBox
<1>4. ASSUME NEW b \in Boxes, CodeOf[b] = NoCode PROVE BlankBox(b)'
  <2>1. BlankBox(b)
    BY <1>4 DEF ProvisioningInv
  <2>2. ASSUME b \notin contested' PROVE OneClaim(b)'
    <3>1. OneClaim(b)
      BY <2>1, <2>2 DEF BlankBox
    <3>2. CASE ~HoldsBox(k, b)'
      BY <1>3, <3>1, <3>2 DEF OneClaim
    <3>3. CASE HoldsBox(k, b)'
      <4>1. x.at \in {"agent", "write"} /\ x.for = b
        BY <1>1, <3>3 DEF HoldsBox
      <4>2. HoldsBox(k, b) \/ (provision[b].status # "claimed" /\ \A l \in Claims : ~HoldsBox(l, b))
        BY <2>2, <4>1
      <4>3. provision[b].status # "claimed" /\ \A l \in Claims : HoldsBox(l, b) => l = k
        BY <3>1, <4>2 DEF OneClaim
      <4>4. \A l \in Claims : HoldsBox(l, b)' => l = k
        BY <1>3, <4>3
      <4>5. QED BY <4>3, <4>4 DEF OneClaim
    <3>4. QED BY <3>2, <3>3
  <2>3. \A l \in Claims : HoldsBox(l, b)' => provision[b] # NoRow
    <3>1. HoldsBox(k, b)' => provision[b] # NoRow
      BY <1>1 DEF HoldsBox
    <3>2. QED BY <1>3, <2>1, <3>1 DEF BlankBox
  <2>4. QED BY <2>1, <2>2, <2>3 DEF BlankBox, NoneSaved, OnlyToken
<1>5. ASSUME NEW b \in Boxes, CodeOf[b] # NoCode PROVE CodedBox(b)'
  <2>1. CodedBox(b) /\ PairCodeOrg[CodeOf[b]] \in Orgs
    BY <1>5, CodedOrg DEF ProvisioningInv
  <2>2. ASSUME NEW l \in Claims, claim'[l].at \in {"handle", "row", "agent", "write"}
        PROVE  claim'[l].for # b
    BY <1>1, <1>5, <2>1, <2>2 DEF CodedBox
  <2>3. QED BY <2>1, <2>2, CodedFrame
<1>6. ASSUME NEW c \in PairCodes \ contested' PROVE OneAgent(c)'
  <2>1. OneAgent(c)
    BY <1>6 DEF ProvisioningInv
  <2>2. Redeeming(c)' \subseteq Redeeming(c)
    BY DEF Redeeming
  <2>3. QED BY <2>1, <2>2, CodeFrame
<1>7. QED BY <1>2, <1>4, <1>5, <1>6 DEF ProvisioningInv

-----------------------------------------------------------------------------

\* What lateness does to a row.
LEMMA LateRow ==
    ASSUME NEW r, NEW l, r = [status |-> "waiting", late |-> l]
    PROVE  [r EXCEPT !.late = TRUE] = [status |-> "waiting", late |-> TRUE]
<1>1. PICK v : v = TRUE
  OBVIOUS
<1>2. DOMAIN r = {"status", "late"} /\ r.status = "waiting"
  OBVIOUS
<1>3. [r EXCEPT !.late = v] = [status |-> "waiting", late |-> v]
  BY <1>2
<1>4. QED BY <1>1, <1>3

\* What a use does to a code.
LEMMA UsedCode ==
    ASSUME NEW B, NEW b \in B, NEW r \in [expired : BOOLEAN, consumed : BOOLEAN, made : SUBSET B]
    PROVE  LET q == [r EXCEPT !.consumed = TRUE, !.made = @ \cup {b}]
           IN  q \in [expired : BOOLEAN, consumed : BOOLEAN, made : SUBSET B]
               /\ q.consumed /\ q.made = r.made \cup {b}
<1> DEFINE q == [r EXCEPT !.consumed = TRUE, !.made = @ \cup {b}]
<1>1. q.consumed /\ q.made = r.made \cup {b}
  OBVIOUS
<1>2. r.made \cup {b} \in SUBSET B
  OBVIOUS
<1>3. q \in [expired : BOOLEAN, consumed : BOOLEAN, made : SUBSET B]
  BY <1>2
<1>4. QED BY <1>1, <1>3

\* The steps of a box by itself.
LEMMA OwnStepKept ==
    ASSUME ProvisioningInv, NEW a \in Boxes,
           Boot(a) \/ PollClaimed(a) \/ PollExpired(a) \/ SaveToken(a) \/ Crash(a) \/ Restart(a)
    PROVE  ProvisioningInv'
<1>1. /\ box \in [Boxes -> BoxStates] /\ file \in [Boxes -> Int] /\ file[a] \in Int
      /\ box[a] \in BoxStates /\ provision[a] \in ProvisionRows
  BY DEF ProvisioningInv, ProvisioningTypeOK
<1>2. IF CodeOf[a] = NoCode THEN BlankBox(a) ELSE CodedBox(a)
  BY DEF ProvisioningInv
<1>3. file = [file EXCEPT ![a] = file[a]]
  BY <1>1
<1>4. NoToken = 0 /\ Torn = -1 /\ Torn \in Int
  BY DEF NoToken, Torn
<1>5. CASE Boot(a)
  <2> DEFINE x == [at |-> IF file[a] = Torn THEN "failed"
                          ELSE IF file[a] # NoToken THEN "running"
                          ELSE IF CodeOf[a] # NoCode THEN "redeem" ELSE "provision"]
  <2>1. /\ UNCHANGED backendVars /\ box' = [box EXCEPT ![a] = x]
        /\ file' = [file EXCEPT ![a] = file[a]]
    BY <1>3, <1>5 DEF Boot, BoxDoes
  <2>2. /\ x \in BoxStates /\ x.at \in {"failed", "running", "redeem", "provision"}
        /\ x.at = "redeem" => CodeOf[a] # NoCode
        /\ x.at = "provision" => CodeOf[a] = NoCode
    BY DEF BoxStates
  <2> HIDE DEF x
  <2>3. a \notin contested /\ CodeOf[a] = NoCode =>
            /\ provision[a].status # "claimed" => file[a] \in {NoToken, Torn}
            /\ provision[a].status = "claimed" => file[a] \in {NoToken, Torn, provision[a].token}
    BY <1>2 DEF BlankBox, NoneSaved, OnlyToken
  <2>4. QED BY <1>1, <2>1, <2>2, <2>3, BoxStep
<1>6. CASE PollClaimed(a)
  <2> DEFINE x == [at |-> "save", token |-> provision[a].token]
  <2>1. /\ UNCHANGED backendVars /\ box' = [box EXCEPT ![a] = x]
        /\ file' = [file EXCEPT ![a] = file[a]]
        /\ box[a].at = "poll" /\ provision[a].status = "claimed"
    BY <1>3, <1>6 DEF PollClaimed, BoxDoes
  <2>2. x.at = "save" /\ x.token = provision[a].token
    OBVIOUS
  <2>3. x \in BoxStates
    <3>1. provision[a].token \in Nat
      BY <1>1, <2>1 DEF ProvisionRows, NoRow
    <3>2. QED BY <3>1 DEF BoxStates
  <2> HIDE DEF x
  <2>4. CodeOf[a] = NoCode
    BY <1>2, <2>1 DEF CodedBox
  <2>5. a \notin contested => file[a] \in {NoToken, Torn, provision[a].token}
    BY <1>2, <2>1, <2>4 DEF BlankBox, OnlyToken
  <2>6. QED BY <1>1, <2>1, <2>2, <2>3, <2>4, <2>5, BoxStep
<1>7. CASE PollExpired(a) \/ Restart(a)
  <2>1. PICK x \in {[at |-> "failed"], OffDuty} :
           /\ UNCHANGED backendVars /\ box' = [box EXCEPT ![a] = x]
           /\ file' = [file EXCEPT ![a] = file[a]]
    BY <1>3, <1>7 DEF PollExpired, Restart, BoxDoes
  <2>2. x \in BoxStates /\ x.at \in {"failed", "off"}
    BY DEF BoxStates, OffDuty
  <2>3. a \notin contested /\ CodeOf[a] = NoCode =>
            /\ provision[a].status # "claimed" => file[a] \in {NoToken, Torn}
            /\ provision[a].status = "claimed" => file[a] \in {NoToken, Torn, provision[a].token}
    BY <1>2 DEF BlankBox, NoneSaved, OnlyToken
  <2>4. QED BY <1>1, <2>1, <2>2, <2>3, BoxStep
<1>8. CASE SaveToken(a)
  <2>1. /\ UNCHANGED backendVars /\ box' = [box EXCEPT ![a] = [at |-> "running"]]
        /\ file' = [file EXCEPT ![a] = box[a].token] /\ box[a].at = "save"
    BY <1>8 DEF SaveToken, BoxDoes
  <2>2. [at |-> "running"] \in BoxStates /\ box[a].token \in Int
    BY <1>1, <2>1 DEF BoxStates
  <2>3. a \notin contested /\ CodeOf[a] = NoCode =>
            provision[a].status = "claimed" /\ box[a].token = provision[a].token
    BY <1>2, <2>1 DEF BlankBox, NoneSaved, OnlyToken
  <2>4. QED BY <1>1, <2>1, <2>2, <2>3, BoxStep
<1>9. CASE Crash(a)
  <2>1. PICK f \in {file[a], Torn} :
           /\ UNCHANGED backendVars /\ box' = [box EXCEPT ![a] = OffDuty]
           /\ file' = [file EXCEPT ![a] = f]
    BY <1>3, <1>9 DEF Crash, BoxDoes
  <2>2. OffDuty \in BoxStates /\ OffDuty.at = "off" /\ f \in Int
    BY <1>1, <1>4 DEF BoxStates, OffDuty
  <2>3. a \notin contested /\ CodeOf[a] = NoCode =>
            /\ provision[a].status # "claimed" => f \in {NoToken, Torn}
            /\ provision[a].status = "claimed" => f \in {NoToken, Torn, provision[a].token}
    BY <1>2 DEF BlankBox, NoneSaved, OnlyToken
  <2>4. QED BY <1>1, <2>1, <2>2, <2>3, BoxStep
<1>10. QED BY <1>5, <1>6, <1>7, <1>8, <1>9

\* The backend's row of a box is made, or expires.
LEMMA RowKept ==
    ASSUME ProvisioningInv, NEW a \in Boxes, Provision(a) \/ RowExpires(a)
    PROVE  ProvisioningInv'
<1>1. /\ box \in [Boxes -> BoxStates] /\ provision \in [Boxes -> ProvisionRows]
      /\ file \in [Boxes -> Int] /\ handles \subseteq Boxes /\ provision[a] \in ProvisionRows
      /\ file = [file EXCEPT ![a] = file[a]]
  BY DEF ProvisioningInv, ProvisioningTypeOK
<1>2. IF CodeOf[a] = NoCode THEN BlankBox(a) ELSE CodedBox(a)
  BY DEF ProvisioningInv
\* A row that is waiting, written, and not claimed before.
<1>3. ASSUME NEW w \in BOOLEAN, provision[a].status # "claimed", CodeOf[a] = NoCode,
             provision' = [provision EXCEPT ![a] = [status |-> "waiting", late |-> w]],
             handles' \subseteq handles \union {a},
             NEW x \in BoxStates, a \notin contested => x.at # "save", x.at \notin {"redeem", "redeeming"},
             box' = [box EXCEPT ![a] = x],
             UNCHANGED <<claim, code, agent, minted, contested, file>>
      PROVE  ProvisioningInv'
  <2>1. /\ provision'[a] = [status |-> "waiting", late |-> w] /\ box'[a] = x
        /\ \A b \in Boxes : b # a => provision'[b] = provision[b] /\ box'[b] = box[b]
        /\ provision'[a].status = "waiting" /\ provision'[a] # NoRow
    BY <1>1, <1>3 DEF NoRow
  <2>2. ProvisioningTypeOK'
    <3>1. provision' \in [Boxes -> ProvisionRows] /\ box' \in [Boxes -> BoxStates] /\ handles' \subseteq Boxes
      BY <1>1, <1>3 DEF ProvisionRows
    <3>2. QED BY <1>3, <3>1 DEF ProvisioningInv, ProvisioningTypeOK
  <2>3. \A k \in Claims, b \in Boxes : HoldsBox(k, b)' <=> HoldsBox(k, b)
    BY <1>3 DEF HoldsBox
  <2>4. ASSUME NEW b \in Boxes, CodeOf[b] = NoCode PROVE BlankBox(b)'
    <3>1. BlankBox(b)
      BY <2>4 DEF ProvisioningInv
    <3>2. CASE b # a
      BY <1>3, <2>1, <2>3, <3>1, <3>2, BlankFrame
    <3>3. CASE b = a
      <4>1. b \notin contested => OneClaim(b)'
        BY <1>3, <2>1, <2>3, <3>1, <3>3 DEF BlankBox, OneClaim
      <4>2. b \notin contested => NoneSaved(b)' /\ \A o \in Orgs : agent'[o][b] = NoToken
        BY <1>3, <2>1, <3>1, <3>3 DEF BlankBox, NoneSaved
      <4>3. QED BY <1>3, <2>1, <3>3, <4>1, <4>2 DEF BlankBox
    <3>4. QED BY <3>2, <3>3
  <2>5. ASSUME NEW b \in Boxes, CodeOf[b] # NoCode PROVE CodedBox(b)'
    <3>1. CodedBox(b) /\ PairCodeOrg[CodeOf[b]] \in Orgs /\ b # a
      BY <1>3, <2>5, CodedOrg DEF ProvisioningInv
    <3>2. \A k \in Claims : claim'[k].at \in {"handle", "row", "agent", "write"} => claim'[k].for # b
      BY <1>3, <3>1 DEF CodedBox
    <3>3. QED BY <1>3, <2>1, <3>1, <3>2, CodedFrame
  <2>6. ASSUME NEW c \in PairCodes \ contested' PROVE OneAgent(c)'
    <3>1. OneAgent(c)
      BY <1>3, <2>6 DEF ProvisioningInv
    <3>2. Redeeming(c)' \subseteq Redeeming(c)
      BY <1>3, <2>1 DEF Redeeming
    <3>3. QED BY <1>3, <3>1, <3>2, CodeFrame
  <2>7. QED BY <2>2, <2>4, <2>5, <2>6 DEF ProvisioningInv
<1>4. CASE Provision(a)
  <2>1. box[a].at = "provision" /\ CodeOf[a] = NoCode
    BY <1>2, <1>4 DEF Provision, CodedBox
  <2>2. CASE provision[a].status # "claimed"
    <3>1. /\ provision' = [provision EXCEPT ![a] = [status |-> "waiting", late |-> FALSE]]
          /\ handles' = handles \cup {a} /\ box' = [box EXCEPT ![a] = [at |-> "poll"]]
          /\ UNCHANGED <<claim, code, agent, minted, contested, file>>
      BY <1>4, <2>2 DEF Provision, BoxDoes
    <3>2. [at |-> "poll"] \in BoxStates
      BY DEF BoxStates
    <3>3. QED BY <1>3, <2>1, <2>2, <3>1, <3>2
  <2>3. CASE provision[a].status = "claimed"
    <3>1. /\ UNCHANGED backendVars /\ box' = [box EXCEPT ![a] = [at |-> "failed"]]
          /\ file' = [file EXCEPT ![a] = file[a]]
      BY <1>1, <1>4, <2>3 DEF Provision, BoxDoes, backendVars
    <3>2. [at |-> "failed"] \in BoxStates /\ file[a] \in Int
      BY <1>1 DEF BoxStates
    <3>3. a \notin contested => file[a] \in {NoToken, Torn, provision[a].token}
      BY <1>2, <2>1, <2>3 DEF BlankBox, OnlyToken
    <3>4. QED BY <2>1, <2>3, <3>1, <3>2, <3>3, BoxStep
  <2>4. QED BY <2>2, <2>3
<1>5. CASE RowExpires(a)
  <2>1. /\ provision[a].status = "waiting" /\ provision' = [provision EXCEPT ![a].late = TRUE]
        /\ handles' = handles \ {a} /\ UNCHANGED <<claim, code, agent, minted, contested, box, file>>
    BY <1>5 DEF RowExpires, Waiting
  <2>2. PICK l \in BOOLEAN : provision[a] = [status |-> "waiting", late |-> l]
    BY <1>1, <2>1 DEF ProvisionRows, NoRow
  <2>3. [provision[a] EXCEPT !.late = TRUE] = [status |-> "waiting", late |-> TRUE]
    BY <2>2, LateRow
  <2>4. provision' = [provision EXCEPT ![a] = [status |-> "waiting", late |-> TRUE]]
    BY <1>1, <2>1, <2>3
  <2>5. CodeOf[a] = NoCode
    BY <1>2, <2>1 DEF CodedBox, NoRow
  \* The box may be about to save a token only when its row is claimed.
  <2>6. /\ box[a] \in BoxStates /\ box[a].at \notin {"redeem", "redeeming"}
        /\ a \notin contested => box[a].at # "save"
    BY <1>1, <1>2, <2>1, <2>5 DEF BlankBox, NoneSaved
  <2>7. box' = [box EXCEPT ![a] = box[a]]
    BY <1>1, <2>1
  <2>8. provision[a].status # "claimed" /\ handles' \subseteq handles \union {a}
    BY <2>1
  <2>9. QED BY <1>3, <2>1, <2>4, <2>5, <2>6, <2>7, <2>8
<1>6. QED BY <1>4, <1>5

\* A claim, up to its writing.
LEMMA ClaimKept ==
    ASSUME ProvisioningInv, NEW k \in Claims,
           \/ \E b \in Boxes, o \in Orgs : ClaimByCode(k, b, o) \/ ReadHandle(k, b, o)
           \/ DropHandle(k) \/ FindRow(k) \/ FindAgent(k)
    PROVE  ProvisioningInv'
<1>1. claim[k] \in ClaimSteps /\ handles \subseteq Boxes /\ provision \in [Boxes -> ProvisionRows]
  BY DEF ProvisioningInv, ProvisioningTypeOK
<1>2. \A b \in Boxes : IF CodeOf[b] = NoCode THEN BlankBox(b) ELSE CodedBox(b)
  BY DEF ProvisioningInv
<1>3. \A b \in Boxes : b \in handles \/ Waiting(b) => CodeOf[b] = NoCode
  BY <1>2 DEF CodedBox, Waiting, NoRow
<1>4. \A b \in Boxes : claim[k].at \in {"handle", "row", "agent", "write"} /\ claim[k].for = b => CodeOf[b] = NoCode
  BY <1>2 DEF CodedBox
<1>5. claim[k].at \in {"handle", "row", "agent"} =>
        /\ claim[k] = [at |-> claim[k].at, for |-> claim[k].for, org |-> claim[k].org]
        /\ claim[k].for \in Boxes /\ claim[k].org \in Orgs
  BY <1>1 DEF ClaimSteps, NoClaim
<1>6. ASSUME NEW b \in Boxes, NEW o \in Orgs, ClaimByCode(k, b, o) PROVE ProvisioningInv'
  <2> DEFINE x == [at |-> "agent", for |-> b, org |-> o]
  <2>1. /\ UNCHANGED <<provision, handles, code, agent, minted, box, file>>
        /\ claim' = [claim EXCEPT ![k] = x] /\ Waiting(b)
        /\ contested' = (IF Claiming(b) = {} THEN contested ELSE contested \cup {b})
    BY <1>6 DEF ClaimByCode, ClaimGoes
  <2>2. x \in ClaimSteps /\ x.at = "agent" /\ x.for = b
    BY DEF ClaimSteps
  <2> HIDE DEF x
  <2>3. CodeOf[b] = NoCode /\ provision[b].status # "claimed" /\ provision[b] # NoRow
    BY <1>3, <2>1 DEF Waiting, NoRow
  <2>4. b \in contested' \/ \A l \in Claims : ~HoldsBox(l, b)
    BY <2>1 DEF Claiming, HoldsBox
  <2>5. contested \subseteq contested' /\ handles' \subseteq handles
    BY <2>1
  <2>6. QED BY <2>1, <2>2, <2>3, <2>4, <2>5, ClaimStep
<1>7. ASSUME NEW b \in Boxes, NEW o \in Orgs, ReadHandle(k, b, o) PROVE ProvisioningInv'
  <2> DEFINE x == [at |-> "handle", for |-> b, org |-> o]
  <2>1. /\ UNCHANGED <<provision, handles, code, agent, minted, box, file, contested>>
        /\ claim' = [claim EXCEPT ![k] = x] /\ b \in handles
    BY <1>7 DEF ReadHandle, ClaimGoes
  <2>2. x \in ClaimSteps /\ x.at = "handle" /\ x.for = b
    BY DEF ClaimSteps
  <2> HIDE DEF x
  <2>3. CodeOf[b] = NoCode /\ contested \subseteq contested' /\ handles' \subseteq handles
    BY <1>3, <2>1
  <2>4. QED BY <2>1, <2>2, <2>3, ClaimStep
<1>8. CASE DropHandle(k)
  <2> DEFINE x == [at |-> "row", for |-> claim[k].for, org |-> claim[k].org]
  <2>1. /\ UNCHANGED <<provision, code, agent, minted, box, file, contested>>
        /\ claim' = [claim EXCEPT ![k] = [claim[k] EXCEPT !.at = "row"]]
        /\ handles' \subseteq handles /\ claim[k].at = "handle"
    BY <1>8 DEF DropHandle, ClaimGoes
  <2>2. [claim[k] EXCEPT !.at = "row"] = x
    BY <1>5, <2>1
  <2>3. x \in ClaimSteps /\ x.at = "row" /\ CodeOf[x.for] = NoCode
    BY <1>4, <1>5, <2>1 DEF ClaimSteps
  <2>4. claim' = [claim EXCEPT ![k] = x] /\ contested \subseteq contested'
    BY <2>1, <2>2
  <2> HIDE DEF x
  <2>5. QED BY <2>1, <2>3, <2>4, ClaimStep
<1>9. CASE FindRow(k)
  <2> DEFINE b == claim[k].for
             at == IF Waiting(b) THEN "agent" ELSE "over"
             x == [at |-> at, for |-> b, org |-> claim[k].org]
  <2>1. /\ UNCHANGED <<provision, code, handles, agent, minted, box, file>>
        /\ claim' = [claim EXCEPT ![k] = [claim[k] EXCEPT !.at = at]]
        /\ claim[k].at = "row"
        /\ contested' = (IF Waiting(b) /\ \E l \in Claiming(b) : claim[l].at \in {"agent", "write"}
                         THEN contested \cup {b} ELSE contested)
    BY <1>9 DEF FindRow, ClaimGoes
  <2>2. [claim[k] EXCEPT !.at = at] = x
    BY <1>5, <2>1
  <2>3. /\ x \in ClaimSteps /\ x.at \in {"agent", "over"} /\ x.for = b /\ b \in Boxes
        /\ x.at = "agent" => Waiting(b)
    BY <1>5, <2>1 DEF ClaimSteps
  <2>4. claim' = [claim EXCEPT ![k] = x] /\ contested \subseteq contested' /\ handles' \subseteq handles
    BY <2>1, <2>2
  <2>5. CodeOf[b] = NoCode
    BY <1>4, <2>1, <2>3
  <2>6. Waiting(b) => /\ provision[b].status # "claimed" /\ provision[b] # NoRow
                      /\ b \in contested' \/ \A l \in Claims : ~HoldsBox(l, b)
    BY <2>1 DEF Claiming, HoldsBox, Waiting, NoRow
  <2> HIDE DEF x, b, at
  <2>7. QED BY <2>1, <2>3, <2>4, <2>5, <2>6, ClaimStep
<1>10. CASE FindAgent(k)
  <2> DEFINE x == [at |-> "write", for |-> claim[k].for, org |-> claim[k].org,
                   exists |-> agent[claim[k].org][claim[k].for] # NoToken]
  <2>1. /\ UNCHANGED <<provision, handles, code, agent, minted, box, file, contested>>
        /\ claim' = [claim EXCEPT ![k] = x] /\ claim[k].at = "agent"
    BY <1>10 DEF FindAgent, ClaimGoes
  <2>2. x \in ClaimSteps /\ x.at = "write" /\ x.for = claim[k].for
    BY <1>5, <2>1 DEF ClaimSteps
  <2>3. CodeOf[x.for] = NoCode /\ HoldsBox(k, x.for) /\ provision[x.for] # NoRow
    BY <1>2, <1>4, <1>5, <2>1, <2>2 DEF HoldsBox, BlankBox
  <2> HIDE DEF x
  <2>4. contested \subseteq contested' /\ handles' \subseteq handles
    BY <2>1
  <2>5. QED BY <2>1, <2>2, <2>3, <2>4, ClaimStep
<1>11. QED BY <1>6, <1>7, <1>8, <1>9, <1>10

\* A claim commits: the box gets its agent and its token.
LEMMA FinishKept ==
    ASSUME ProvisioningInv, NEW k \in Claims, FinishClaim(k)
    PROVE  ProvisioningInv'
<1> DEFINE over == [at |-> "over"]
<1>1. /\ claim \in [Claims -> ClaimSteps] /\ claim[k] \in ClaimSteps /\ claim[k].at = "write"
      /\ provision \in [Boxes -> ProvisionRows] /\ agent \in [Orgs -> [Boxes -> Nat]] /\ minted \in Nat
  BY DEF ProvisioningInv, ProvisioningTypeOK, FinishClaim
<1>2. PICK a \in Boxes, o \in Orgs : claim[k].for = a /\ claim[k].org = o /\ HoldsBox(k, a)
  BY <1>1 DEF ClaimSteps, NoClaim, HoldsBox
<1>3. CodeOf[a] = NoCode /\ BlankBox(a)
  BY <1>1, <1>2 DEF ProvisioningInv, CodedBox
<1>4. over \in ClaimSteps /\ over.at = "over"
  BY DEF ClaimSteps
<1>5. claim' = [claim EXCEPT ![k] = over] /\ UNCHANGED <<handles, code, contested, box, file, crashes>>
  BY DEF FinishClaim, ClaimGoes
<1>6. CASE ~(claim[k].exists \/ agent[o][a] = NoToken)
  <2>1. UNCHANGED <<minted, agent, provision>>
    BY <1>2, <1>6 DEF FinishClaim
  <2>2. handles' \subseteq handles /\ contested \subseteq contested'
    BY <1>5
  <2> HIDE DEF over
  <2>3. QED BY <1>4, <1>5, <2>1, <2>2, ClaimStep
<1>7. CASE claim[k].exists \/ agent[o][a] = NoToken
  <2>1. PICK t : t = minted + 1
    OBVIOUS
  <2>2. /\ t \in Nat /\ t # NoToken /\ t # Torn
        /\ minted' = t /\ agent' = [agent EXCEPT ![o][a] = t]
        /\ provision' = [provision EXCEPT ![a] = [status |-> "claimed", late |-> @.late, token |-> t]]
    BY <1>1, <1>2, <1>7, <2>1 DEF FinishClaim, NoToken, Torn
  <2> HIDE DEF over
  <2>3. /\ agent'[o][a] = t
        /\ \A p \in Orgs, b \in Boxes : b # a => agent'[p][b] = agent[p][b]
        /\ \A b \in Boxes : b # a => provision'[b] = provision[b]
        /\ provision'[a] = [status |-> "claimed", late |-> provision[a].late, token |-> t]
        /\ provision'[a].status = "claimed" /\ provision'[a].token = t
    BY <1>1, <1>2, <2>2
  <2>4. ASSUME a \notin contested
        PROVE  /\ provision[a].status # "claimed" /\ NoneSaved(a)
               /\ \A l \in Claims : HoldsBox(l, a) => l = k
    BY <1>2, <1>3, <2>4 DEF BlankBox, OneClaim
  <2>5. \A l \in Claims, b \in Boxes : b # a \/ l # k => (HoldsBox(l, b)' <=> HoldsBox(l, b))
    <3>1. /\ claim'[k] = over /\ \A l \in Claims : l # k => claim'[l] = claim[l]
          /\ claim[k].for = a
      BY <1>1, <1>2, <1>5
    <3>2. QED BY <1>4, <3>1 DEF HoldsBox
  <2>6. ~HoldsBox(k, a)'
    BY <1>1, <1>2, <1>4, <1>5 DEF HoldsBox
  <2>7. ProvisioningTypeOK'
    <3>1. claim' \in [Claims -> ClaimSteps] /\ agent' \in [Orgs -> [Boxes -> Nat]] /\ minted' \in Nat
      BY <1>1, <1>2, <1>4, <1>5, <2>2
    <3>2. provision' \in [Boxes -> ProvisionRows]
      <4>1. provision[a] \in ProvisionRows /\ provision[a] # NoRow
        BY <1>1, <1>2, <1>3 DEF BlankBox
      <4>2. provision[a].late \in BOOLEAN
        BY <4>1 DEF ProvisionRows
      <4>3. provision'[a] \in ProvisionRows
        BY <2>2, <2>3, <4>2 DEF ProvisionRows
      <4>4. \A b \in Boxes : provision'[b] \in ProvisionRows
        BY <1>1, <2>3, <4>3
      <4>5. QED BY <1>1, <2>2, <4>4
    <3>3. QED BY <1>5, <3>1, <3>2 DEF ProvisioningInv, ProvisioningTypeOK
  <2>8. ASSUME NEW b \in Boxes, CodeOf[b] = NoCode PROVE BlankBox(b)'
    <3>1. BlankBox(b)
      BY <2>8 DEF ProvisioningInv
    <3>2. CASE b # a
      <4>1. \A p \in Orgs : agent'[p][b] = agent[p][b]
        BY <2>3, <3>2
      <4>2. \A l \in Claims : HoldsBox(l, b)' <=> HoldsBox(l, b)
        BY <2>5, <3>2
      <4>3. provision'[b] = provision[b] /\ contested \subseteq contested'
        BY <1>5, <2>3, <3>2
      <4>4. QED BY <1>5, <3>1, <4>1, <4>2, <4>3, BlankFrame
    <3>3. CASE b = a
      <4>1. provision'[a] # NoRow
        BY <2>3 DEF NoRow
      <4>2. ASSUME a \notin contested PROVE OneClaim(a)'
        <5>1. \A l \in Claims : ~HoldsBox(l, a)'
          BY <1>2, <2>4, <2>5, <2>6, <4>2
        <5>2. QED BY <5>1 DEF OneClaim
      <4>3. ASSUME a \notin contested PROVE OnlyToken(a, provision[a].token)'
        BY <1>5, <2>2, <2>3, <2>4, <4>3 DEF OnlyToken, NoneSaved
      <4>4. \E p \in Orgs : agent'[p][a] = provision'[a].token
        BY <1>2, <2>3
      <4>5. QED BY <1>3, <1>5, <2>3, <3>3, <4>1, <4>2, <4>3, <4>4 DEF BlankBox
    <3>4. QED BY <3>2, <3>3
  <2>9. ASSUME NEW b \in Boxes, CodeOf[b] # NoCode PROVE CodedBox(b)'
    <3>1. CodedBox(b) /\ PairCodeOrg[CodeOf[b]] \in Orgs /\ b # a
      BY <1>3, <2>9, CodedOrg DEF ProvisioningInv
    <3>2. ASSUME NEW l \in Claims, claim'[l].at \in {"handle", "row", "agent", "write"}
          PROVE  claim'[l].for # b
      BY <1>1, <1>4, <1>5, <3>1, <3>2 DEF CodedBox
    <3>3. provision'[b] = provision[b] /\ \A p \in Orgs : agent'[p][b] = agent[p][b]
      BY <2>3, <3>1
    <3>4. QED BY <1>5, <3>1, <3>2, <3>3, CodedFrame
  <2>10. ASSUME NEW c \in PairCodes \ contested' PROVE OneAgent(c)'
    <3>1. OneAgent(c)
      BY <1>5, <2>10 DEF ProvisioningInv
    <3>2. Redeeming(c)' \subseteq Redeeming(c)
      BY <1>5 DEF Redeeming
    <3>3. QED BY <1>5, <3>1, <3>2, CodeFrame
  <2>11. QED BY <2>7, <2>8, <2>9, <2>10 DEF ProvisioningInv
<1>8. QED BY <1>6, <1>7

\* A redeem reads the code.
LEMMA ReadCodeKept ==
    ASSUME ProvisioningInv, NEW a \in Boxes, ReadCode(a)
    PROVE  ProvisioningInv'
<1> DEFINE c0 == CodeOf[a]
           x == [at |-> IF code[c0].consumed \/ code[c0].expired THEN "failed" ELSE "redeeming"]
<1>1. /\ box \in [Boxes -> BoxStates] /\ box[a].at = "redeem"
      /\ UNCHANGED <<provision, handles, claim, code, agent, minted, file>>
      /\ box' = [box EXCEPT ![a] = x]
      /\ contested' = (IF Redeeming(c0) = {} THEN contested ELSE contested \cup {c0})
  BY DEF ProvisioningInv, ProvisioningTypeOK, ReadCode, BoxDoes
<1>2. CodeOf[a] # NoCode
  BY <1>1 DEF ProvisioningInv, BlankBox
<1>3. x \in BoxStates /\ x.at \in {"failed", "redeeming"} /\ (x.at = "redeeming" => ~code[c0].consumed)
  BY DEF BoxStates
<1> HIDE DEF x
<1>4. /\ contested \subseteq contested' /\ box'[a] = x
      /\ \A b \in Boxes : b # a => box'[b] = box[b]
  BY <1>1
<1>5. ProvisioningTypeOK'
  <2>1. box' \in [Boxes -> BoxStates]
    BY <1>1, <1>3
  <2>2. QED BY <1>1, <2>1 DEF ProvisioningInv, ProvisioningTypeOK
<1>6. \A k \in Claims, b \in Boxes : HoldsBox(k, b)' <=> HoldsBox(k, b)
  BY <1>1 DEF HoldsBox
<1>7. ASSUME NEW b \in Boxes, CodeOf[b] = NoCode PROVE BlankBox(b)'
  <2>1. BlankBox(b) /\ b # a
    BY <1>2, <1>7 DEF ProvisioningInv
  <2>2. QED BY <1>1, <1>4, <1>6, <2>1, BlankFrame
<1>8. ASSUME NEW b \in Boxes, CodeOf[b] # NoCode PROVE CodedBox(b)'
  <2>1. CodedBox(b) /\ PairCodeOrg[CodeOf[b]] \in Orgs
    BY <1>8, CodedOrg DEF ProvisioningInv
  <2>2. \A k \in Claims : claim'[k].at \in {"handle", "row", "agent", "write"} => claim'[k].for # b
    BY <1>1, <2>1 DEF CodedBox
  <2>3. CASE b # a
    BY <1>1, <1>4, <2>1, <2>2, <2>3, CodedFrame
  <2>4. CASE b = a
    <3>1. NoneSaved(b)' \/ OnlyToken(b, agent[PairCodeOrg[CodeOf[b]]][b])'
      BY <1>1, <1>3, <1>4, <2>1, <2>4 DEF CodedBox, NoneSaved, OnlyToken
    <3>2. QED BY <1>1, <1>3, <1>4, <2>1, <2>2, <2>4, <3>1 DEF CodedBox
  <2>5. QED BY <2>3, <2>4
<1>9. ASSUME NEW c \in PairCodes \ contested' PROVE OneAgent(c)'
  <2>1. OneAgent(c)
    BY <1>4, <1>9 DEF ProvisioningInv
  <2>2. CASE c # c0
    <3>1. Redeeming(c)' \subseteq Redeeming(c)
      BY <1>4, <2>2 DEF Redeeming
    <3>2. QED BY <1>1, <2>1, <3>1, CodeFrame
  <2>3. CASE c = c0
    <3>1. Redeeming(c) = {}
      BY <1>1, <1>9, <2>3
    <3>2. Redeeming(c)' \subseteq {a} /\ (Redeeming(c)' # {} => x.at = "redeeming")
      BY <1>4, <3>1 DEF Redeeming
    <3>3. QED BY <1>1, <1>3, <2>1, <2>3, <3>2 DEF OneAgent
  <2>4. QED BY <2>2, <2>3
<1>10. QED BY <1>5, <1>7, <1>8, <1>9 DEF ProvisioningInv

\* A redeem consumes the code and makes the agent.
LEMMA RedeemKept ==
    ASSUME ProvisioningInv, NEW a \in Boxes, Redeem(a)
    PROVE  ProvisioningInv'
<1> DEFINE c0 == CodeOf[a]
           o == PairCodeOrg[c0]
           t == minted + 1
<1>1. /\ box \in [Boxes -> BoxStates] /\ box[a].at = "redeeming" /\ minted \in Nat
      /\ agent \in [Orgs -> [Boxes -> Nat]] /\ file \in [Boxes -> Int] /\ file[a] \in Int
      /\ code \in [PairCodes -> [expired : BOOLEAN, consumed : BOOLEAN, made : SUBSET Boxes]]
      /\ UNCHANGED <<provision, handles, claim, contested, file>>
  BY DEF ProvisioningInv, ProvisioningTypeOK, Redeem
<1>2. CodeOf[a] # NoCode
  BY <1>1 DEF ProvisioningInv, BlankBox
<1>3. c0 \in PairCodes /\ o \in Orgs /\ CodedBox(a)
  BY <1>2, CodedOrg DEF ProvisioningInv
<1>4. [at |-> "failed"] \in BoxStates
  BY DEF BoxStates
<1>5. CASE agent[o][a] # NoToken
  <2>1. box' = [box EXCEPT ![a] = [at |-> "failed"]] /\ UNCHANGED <<minted, agent, code>>
    BY <1>5 DEF Redeem, BoxDoes
  <2>2. UNCHANGED backendVars /\ file' = [file EXCEPT ![a] = file[a]]
    BY <1>1, <2>1 DEF backendVars
  <2>3. [at |-> "failed"].at = "failed" /\ file[a] \in {NoToken, Torn, file[a]}
    OBVIOUS
  <2>4. QED BY <1>1, <1>2, <1>4, <2>1, <2>2, <2>3, BoxStep
<1>6. CASE agent[o][a] = NoToken
  <2>1. PICK x \in {[at |-> "save", token |-> t], [at |-> "failed"]} :
           /\ minted' = t /\ agent' = [agent EXCEPT ![o][a] = t]
           /\ code' = [code EXCEPT ![c0].consumed = TRUE, ![c0].made = @ \cup {a}]
           /\ box' = [box EXCEPT ![a] = x]
    BY <1>6 DEF Redeem, BoxDoes
  <2>2. t \in Nat /\ t # NoToken /\ t # Torn
    BY <1>1 DEF NoToken, Torn
  <2>3. /\ x \in BoxStates /\ x.at \in {"save", "failed"} /\ (x.at = "save" => x.token = t)
    BY <2>2 DEF BoxStates
  <2> HIDE DEF t, o, c0
  <2>4. /\ agent'[o][a] = t /\ box'[a] = x
        /\ \A p \in Orgs, b \in Boxes : b # a => agent'[p][b] = agent[p][b]
        /\ \A b \in Boxes : b # a => box'[b] = box[b]
    BY <1>1, <1>3, <2>1
  <2>5. /\ code'[c0] \in [expired : BOOLEAN, consumed : BOOLEAN, made : SUBSET Boxes]
        /\ code'[c0].consumed /\ code'[c0].made = code[c0].made \cup {a}
        /\ \A c \in PairCodes : c # c0 => code'[c] = code[c]
    <3>1. code[c0] \in [expired : BOOLEAN, consumed : BOOLEAN, made : SUBSET Boxes]
      BY <1>1, <1>3
    <3>2. code'[c0] = [code[c0] EXCEPT !.consumed = TRUE, !.made = @ \cup {a}]
      BY <1>1, <1>3, <2>1
    <3>3. \A c \in PairCodes : c # c0 => code'[c] = code[c]
      BY <1>1, <2>1
    <3> DEFINE q == [code[c0] EXCEPT !.consumed = TRUE, !.made = @ \cup {a}]
    <3>4. /\ q \in [expired : BOOLEAN, consumed : BOOLEAN, made : SUBSET Boxes]
          /\ q.consumed /\ q.made = code[c0].made \cup {a}
      BY <3>1, UsedCode
    <3>5. code'[c0] = q
      BY <3>2
    <3> HIDE DEF q
    <3>6. QED BY <3>3, <3>4, <3>5
  <2>6. ProvisioningTypeOK'
    <3>1. agent' \in [Orgs -> [Boxes -> Nat]] /\ minted' \in Nat /\ box' \in [Boxes -> BoxStates]
      BY <1>1, <1>3, <2>1, <2>2, <2>3
    <3>2. \A c \in PairCodes : code'[c] \in [expired : BOOLEAN, consumed : BOOLEAN, made : SUBSET Boxes]
      <4>1. \A c \in PairCodes : code[c] \in [expired : BOOLEAN, consumed : BOOLEAN, made : SUBSET Boxes]
        BY <1>1
      <4>2. code'[c0] \in [expired : BOOLEAN, consumed : BOOLEAN, made : SUBSET Boxes]
        BY <1>3, <2>5, <4>1
      <4>3. QED BY <2>5, <4>1, <4>2
    <3>3. code' \in [PairCodes -> [expired : BOOLEAN, consumed : BOOLEAN, made : SUBSET Boxes]]
      BY <1>1, <2>1, <3>2
    <3>4. QED BY <1>1, <3>1, <3>3 DEF ProvisioningInv, ProvisioningTypeOK
  <2>7. \A k \in Claims, b \in Boxes : HoldsBox(k, b)' <=> HoldsBox(k, b)
    BY <1>1 DEF HoldsBox
  <2>8. ASSUME NEW b \in Boxes, CodeOf[b] = NoCode PROVE BlankBox(b)'
    <3>1. BlankBox(b) /\ b # a /\ contested \subseteq contested'
      BY <1>1, <1>2, <2>8 DEF ProvisioningInv
    <3>2. \A p \in Orgs : agent'[p][b] = agent[p][b]
      BY <2>4, <3>1
    <3>3. QED BY <1>1, <2>4, <2>7, <3>1, <3>2, BlankFrame
  <2>9. ASSUME NEW b \in Boxes, CodeOf[b] # NoCode PROVE CodedBox(b)'
    <3>1. CodedBox(b) /\ PairCodeOrg[CodeOf[b]] \in Orgs
      BY <2>9, CodedOrg DEF ProvisioningInv
    <3>2. \A k \in Claims : claim'[k].at \in {"handle", "row", "agent", "write"} => claim'[k].for # b
      BY <1>1, <3>1 DEF CodedBox
    <3>3. CASE b # a
      <4>1. \A p \in Orgs : agent'[p][b] = agent[p][b]
        BY <2>4, <3>3
      <4>2. QED BY <1>1, <2>4, <3>1, <3>2, <3>3, <4>1, CodedFrame
    <3>4. CASE b = a
      <4>1. NoneSaved(a)
        BY <1>1, <1>3, <1>6 DEF CodedBox, OnlyToken, NoneSaved, o, c0
      <4>2. OnlyToken(a, agent[PairCodeOrg[CodeOf[a]]][a])'
        BY <1>1, <2>2, <2>3, <2>4, <4>1 DEF NoneSaved, OnlyToken, o, c0
      <4>3. QED BY <1>1, <2>3, <2>4, <3>1, <3>2, <3>4, <4>2 DEF CodedBox
    <3>5. QED BY <3>3, <3>4
  <2>10. ASSUME NEW c \in PairCodes \ contested' PROVE OneAgent(c)'
    <3>1. OneAgent(c)
      BY <1>1, <2>10 DEF ProvisioningInv
    <3>2. Redeeming(c)' \subseteq Redeeming(c) \ {a}
      BY <2>3, <2>4 DEF Redeeming
    <3>3. CASE c # c0
      BY <2>5, <3>1, <3>2, <3>3, CodeFrame
    <3>4. CASE c = c0
      <4>1. a \in Redeeming(c)
        BY <1>1, <3>4 DEF Redeeming, c0
      <4>2. code[c].made = {} /\ Redeeming(c) = {a}
        BY <3>1, <4>1 DEF OneAgent
      <4>3. code'[c].made = {a} /\ code'[c].consumed /\ Redeeming(c)' = {}
        BY <2>5, <3>2, <3>4, <4>2
      <4>4. QED BY <4>3 DEF OneAgent
    <3>5. QED BY <3>3, <3>4
  <2>11. QED BY <2>6, <2>8, <2>9, <2>10 DEF ProvisioningInv
<1>7. QED BY <1>5, <1>6

\* A code runs out.
LEMMA CodeExpiresKept ==
    ASSUME ProvisioningInv, NEW c0 \in PairCodes, CodeExpires(c0)
    PROVE  ProvisioningInv'
<1>1. /\ code \in [PairCodes -> [expired : BOOLEAN, consumed : BOOLEAN, made : SUBSET Boxes]]
      /\ code' = [code EXCEPT ![c0].expired = TRUE]
      /\ UNCHANGED <<provision, handles, claim, agent, minted, contested, box, file>>
  BY DEF ProvisioningInv, ProvisioningTypeOK, CodeExpires
<1>2. /\ code' \in [PairCodes -> [expired : BOOLEAN, consumed : BOOLEAN, made : SUBSET Boxes]]
      /\ \A c \in PairCodes : code'[c].made = code[c].made /\ code'[c].consumed = code[c].consumed
  BY <1>1
<1>3. ProvisioningTypeOK'
  BY <1>1, <1>2 DEF ProvisioningInv, ProvisioningTypeOK
<1>4. ASSUME NEW b \in Boxes, CodeOf[b] = NoCode PROVE BlankBox(b)'
  <2>1. BlankBox(b) /\ \A k \in Claims : HoldsBox(k, b)' <=> HoldsBox(k, b)
    BY <1>1, <1>4 DEF ProvisioningInv, HoldsBox
  <2>2. QED BY <1>1, <2>1, BlankFrame
<1>5. ASSUME NEW b \in Boxes, CodeOf[b] # NoCode PROVE CodedBox(b)'
  <2>1. CodedBox(b) /\ PairCodeOrg[CodeOf[b]] \in Orgs
    BY <1>5, CodedOrg DEF ProvisioningInv
  <2>2. QED BY <1>1, <2>1, CodedFrame DEF CodedBox
<1>6. ASSUME NEW c \in PairCodes \ contested' PROVE OneAgent(c)'
  <2>1. OneAgent(c) /\ Redeeming(c)' \subseteq Redeeming(c)
    BY <1>1, <1>6 DEF ProvisioningInv, Redeeming
  <2>2. QED BY <1>2, <2>1, CodeFrame
<1>7. QED BY <1>3, <1>4, <1>5, <1>6 DEF ProvisioningInv

\* Every step keeps it.
LEMMA ProvisioningKept ==
    ASSUME ProvisioningInv, [ProvisioningNext]_provisioningVars
    PROVE  ProvisioningInv'
<1>1. CASE UNCHANGED provisioningVars
  <2>1. UNCHANGED <<provision, handles, claim, code, agent, minted, contested, box, file>>
    BY <1>1 DEF provisioningVars
  <2>2. ProvisioningTypeOK'
    BY <2>1 DEF ProvisioningInv, ProvisioningTypeOK
  <2>3. ASSUME NEW b \in Boxes, CodeOf[b] = NoCode PROVE BlankBox(b)'
    <3>1. BlankBox(b) /\ \A k \in Claims : HoldsBox(k, b)' <=> HoldsBox(k, b)
      BY <2>1, <2>3 DEF ProvisioningInv, HoldsBox
    <3>2. QED BY <2>1, <3>1, BlankFrame
  <2>4. ASSUME NEW b \in Boxes, CodeOf[b] # NoCode PROVE CodedBox(b)'
    <3>1. CodedBox(b) /\ PairCodeOrg[CodeOf[b]] \in Orgs
      BY <2>4, CodedOrg DEF ProvisioningInv
    <3>2. QED BY <2>1, <3>1, CodedFrame DEF CodedBox
  <2>5. ASSUME NEW c \in PairCodes \ contested' PROVE OneAgent(c)'
    <3>1. OneAgent(c) /\ Redeeming(c)' \subseteq Redeeming(c)
      BY <2>1, <2>5 DEF ProvisioningInv, Redeeming
    <3>2. QED BY <2>1, <3>1, CodeFrame
  <2>6. QED BY <2>2, <2>3, <2>4, <2>5 DEF ProvisioningInv
<1>2. ASSUME NEW a \in Boxes,
             \/ Boot(a) \/ Provision(a) \/ RowExpires(a) \/ PollClaimed(a) \/ PollExpired(a)
             \/ SaveToken(a) \/ Crash(a) \/ Restart(a) \/ ReadCode(a) \/ Redeem(a)
             \/ \E k \in Claims, o \in Orgs : ClaimByCode(k, a, o) \/ ReadHandle(k, a, o)
      PROVE  ProvisioningInv'
  BY <1>2, OwnStepKept, RowKept, ReadCodeKept, RedeemKept, ClaimKept
<1>3. ASSUME NEW k \in Claims, DropHandle(k) \/ FindRow(k) \/ FindAgent(k) \/ FinishClaim(k)
      PROVE  ProvisioningInv'
  BY <1>3, ClaimKept, FinishKept
<1>4. QED BY <1>1, <1>2, <1>3, CodeExpiresKept DEF ProvisioningNext

\* The token a box has saved is one the backend accepts, unless two claims of the
\* box overlapped, and a pair code makes one agent, unless two redemptions of it did,
\* whatever polls, crashes and expiries interleave (provisioning.py, agents.py).
THEOREM ProvisioningIsSafe == ProvisioningSpec => []ProvisioningSafe
<1>1. ProvisioningInit => ProvisioningInv
  <2>1. SUFFICES ASSUME ProvisioningInit PROVE ProvisioningInv
    OBVIOUS
  <2>2. ProvisioningTypeOK
    <3>1. NoRow \in ProvisionRows /\ NoClaim \in ClaimSteps /\ OffDuty \in BoxStates
      BY DEF ProvisionRows, ClaimSteps, BoxStates, OffDuty
    <3>2. NoToken \in Nat
      BY DEF NoToken
    <3>3. QED BY <2>1, <3>1, <3>2 DEF ProvisioningInit, ProvisioningTypeOK
  <2>3. \A k \in Claims : claim[k].at = "none"
    BY <2>1 DEF ProvisioningInit, NoClaim
  <2>4. \A b \in Boxes : /\ provision[b] = NoRow /\ NoRow.status = "none" /\ box[b].at = "off"
                         /\ file[b] = NoToken /\ \A o \in Orgs : agent[o][b] = NoToken
    BY <2>1 DEF ProvisioningInit, NoRow, OffDuty
  <2>5. \A b \in Boxes : BlankBox(b)
    BY <2>3, <2>4 DEF BlankBox, OneClaim, HoldsBox, NoneSaved
  <2>6. \A b \in Boxes : CodedBox(b)
    BY <2>1, <2>3, <2>4 DEF CodedBox, NoneSaved, ProvisioningInit
  <2>7. \A c \in PairCodes : Redeeming(c) = {} /\ code[c].made = {}
    BY <2>1, <2>4 DEF ProvisioningInit, Redeeming
  <2>8. QED BY <2>2, <2>5, <2>6, <2>7 DEF ProvisioningInv, OneAgent
<1>2. ProvisioningInv => ProvisioningSafe
  <2>1. SUFFICES ASSUME ProvisioningInv PROVE ProvisioningSafe
    OBVIOUS
  <2>2. ASSUME NEW b \in Boxes \ contested, file[b] \notin {NoToken, Torn} PROVE Accepted(file[b])
    <3>1. CASE CodeOf[b] = NoCode
      BY <2>1, <2>2, <3>1 DEF ProvisioningInv, BlankBox, NoneSaved, OnlyToken, Accepted
    <3>2. CASE CodeOf[b] # NoCode
      <4>1. CodedBox(b) /\ PairCodeOrg[CodeOf[b]] \in Orgs
        BY <2>1, <3>2, CodedOrg DEF ProvisioningInv
      <4>2. QED BY <2>2, <4>1 DEF CodedBox, NoneSaved, OnlyToken, Accepted
    <3>3. QED BY <3>1, <3>2
  <2>3. ASSUME NEW c \in PairCodes \ contested PROVE Cardinality(code[c].made) <= 1
    <3>1. code[c].made = {} \/ \E b \in Boxes : code[c].made = {b}
      BY <2>1, <2>3 DEF ProvisioningInv, OneAgent
    <3>2. Cardinality({}) = 0 /\ \A b \in Boxes : Cardinality({b}) = 1
      BY FS_EmptySet, FS_Singleton
    <3>3. QED BY <3>1, <3>2
  <2>4. QED BY <2>2, <2>3 DEF ProvisioningSafe, SavedIsAccepted, CodeMakesOne
<1>3. QED BY <1>1, <1>2, ProvisioningKept, PTL DEF ProvisioningSpec

-----------------------------------------------------------------------------
(***************************************************************************)
(* SetupRuns. What an approval has read stays true until it is over; the   *)
(* jobs of a camera are no fewer than its pending rows, run by run; and    *)
(* nothing answers a run that is not committed.                            *)
(***************************************************************************)
ConfigValues == Configs \union {Default}
ProposalRows == [status : {"none", "pending", "failed", "needs_input", "proposed", "approved"},
              config : ConfigValues, grouped : BOOLEAN]
SetupJobs == Cams \X Runs
HeldJobs == [job : SetupJobs, on : Servers, at : {"observe"}]
            \union [job : SetupJobs, on : Servers, at : {"write"}, to : Runs]
Grants == UNION {[C -> ConfigValues] : C \in SUBSET Cams}
ApproveRequests == {NotAsked} \union [at : {"over"}]
            \union [at : {"write"}, of : Runs, cams : SUBSET Cams, with : Grants]
            \union [at : {"commit"}, of : Runs, cams : SUBSET Cams, with : Grants, completes : BOOLEAN]
SetupTypeOK ==
    /\ host \in [Cams -> Servers] /\ config \in [Cams -> ConfigValues]
    /\ run \in [Runs -> {"none", "starting", "running", "complete"}]
    /\ row \in [Runs -> [Cams -> ProposalRows]]
    /\ jobs \in [Servers -> SUBSET SetupJobs] /\ held \subseteq HeldJobs
    /\ lost \subseteq SetupJobs /\ raced \subseteq Runs
    /\ approval \in [Approvals -> ApproveRequests]

RunStarted(r) ==
    /\ run[r] = "none" => \A c \in Cams : row[r][c] = NoProposal
    /\ run[r] = "starting" => \A c \in Cams : row[r][c].status \in {"none", "pending"}
    /\ run[r] # "none" => InRun(r) # {}
AllJobs == (UNION {jobs[b] : b \in Servers}) \union {x.job : x \in held} \union lost
JobsOfRuns ==
    /\ \A j \in AllJobs : run[j[2]] # "none"
    /\ \A x \in held : x.at = "write" => Committed(x.to)
PendingOf(c) == {r \in Runs : row[r][c].status = "pending"}
Counted(c) == /\ IsFiniteSet(PendingOf(c)) /\ IsFiniteSet(Outstanding(c))
              /\ Cardinality(PendingOf(c)) <= Cardinality(Outstanding(c))
AsksOf(r) == {k \in Asked : approval[k].of = r}
AsksSound(k) ==
    LET x == approval[k] IN
    /\ Committed(x.of)
    /\ x.with \in [x.cams -> ConfigValues]
    /\ x.of \notin raced =>
         /\ \A l \in Asked : approval[l].of = x.of => l = k
         /\ \A c \in x.cams : row[x.of][c].status = "proposed" /\ row[x.of][c].config = x.with[c]
         /\ x.at = "commit" =>
              (x.completes <=> InRun(x.of) \subseteq x.cams \union WithStatus(x.of, "approved"))
SetupInv ==
    /\ SetupTypeOK /\ JobsOfRuns
    /\ \A r \in Runs : RunStarted(r)
    /\ \A c \in Cams : Counted(c)
    /\ \A k \in Asked : AsksSound(k)
    /\ ConfiguredAsApproved /\ CompleteMeansApproved

\* A nonempty finite set of numbers has a greatest one.
LEMMA GreatestExists ==
    ASSUME NEW S, S \subseteq Nat, IsFiniteSet(S), S # {}
    PROVE  \E m \in S : \A x \in S : x <= m
<1> DEFINE Bad == {A \in SUBSET S : A # {} /\ ~ \E m \in A : \A x \in A : x <= m}
<1> SUFFICES ASSUME S \in Bad PROVE FALSE
  OBVIOUS
<1>1. IsWellFoundedOn(StrictSubsetOrdering(S), SUBSET S)
  BY FS_StrictSubsetOrderingWellFounded, FS_FiniteSubsetsOfFinite
<1>2. PICK A \in Bad : \A B \in Bad : ~(<<B, A>> \in StrictSubsetOrdering(S))
  <2>1. Bad \subseteq SUBSET S /\ Bad # {}
    OBVIOUS
  <2> HIDE DEF Bad
  <2>2. QED BY <1>1, <2>1, WFMin
<1>3. PICK a \in A : TRUE
  OBVIOUS
<1>4. CASE A \ {a} = {}
  <2>1. \A x \in A : x <= a
    BY <1>3, <1>4
  <2>2. QED BY <2>1, <1>3
<1>5. CASE A \ {a} # {}
  <2>1. <<A \ {a}, A>> \in StrictSubsetOrdering(S)
    BY <1>3 DEF StrictSubsetOrdering
  <2>2. A \ {a} \notin Bad
    BY <2>1, <1>2
  <2>3. PICK m \in A \ {a} : \A x \in A \ {a} : x <= m
    BY <2>2, <1>5
  <2>4. CASE a <= m
    <3>1. \A x \in A : x <= m
      BY <2>3, <2>4
    <3>2. QED BY <3>1, <1>2
  <2>5. CASE ~(a <= m)
    <3>1. \A x \in A : x <= a
      BY <2>3, <2>5, <1>3
    <3>2. QED BY <3>1, <1>2, <1>3
  <2>6. QED BY <2>4, <2>5
<1>6. QED BY <1>4, <1>5

\* Two finite sets, the first no greater than the second, after one step.
LEMMA CountSame ==
    ASSUME NEW P, NEW Q, IsFiniteSet(P), IsFiniteSet(Q), Cardinality(P) <= Cardinality(Q),
           NEW P2 \in SUBSET P
    PROVE  IsFiniteSet(P2) /\ Cardinality(P2) <= Cardinality(Q)
<1>1. IsFiniteSet(P2) /\ Cardinality(P2) <= Cardinality(P)
  BY FS_Subset
<1>2. Cardinality(P) \in Nat /\ Cardinality(Q) \in Nat /\ Cardinality(P2) \in Nat
  BY <1>1, FS_CardinalityType
<1>3. QED BY <1>1, <1>2

\* One more of each.
LEMMA CountUp ==
    ASSUME NEW P, NEW Q, IsFiniteSet(P), IsFiniteSet(Q), Cardinality(P) <= Cardinality(Q),
           NEW a, NEW b, b \notin Q, NEW P2 \in SUBSET (P \union {a})
    PROVE  /\ IsFiniteSet(P2) /\ IsFiniteSet(Q \union {b})
           /\ Cardinality(P2) <= Cardinality(Q \union {b})
<1>1. /\ IsFiniteSet(P \union {a}) /\ Cardinality(P \union {a}) \in {Cardinality(P), Cardinality(P) + 1}
      /\ IsFiniteSet(Q \union {b}) /\ Cardinality(Q \union {b}) = Cardinality(Q) + 1
  BY FS_AddElement
<1>2. IsFiniteSet(P2) /\ Cardinality(P2) <= Cardinality(P \union {a})
  BY <1>1, FS_Subset
<1>3. /\ Cardinality(P) \in Nat /\ Cardinality(Q) \in Nat /\ Cardinality(P2) \in Nat
  BY <1>2, FS_CardinalityType
<1>4. QED BY <1>1, <1>2, <1>3

\* One fewer on the left, at most one fewer on the right.
LEMMA CountDown ==
    ASSUME NEW P, NEW Q, IsFiniteSet(P), IsFiniteSet(Q), Cardinality(P) <= Cardinality(Q),
           NEW a \in P, NEW b, NEW P2 \in SUBSET (P \ {a}), NEW Q2 \in SUBSET Q, Q \ {b} \subseteq Q2
    PROVE  IsFiniteSet(P2) /\ IsFiniteSet(Q2) /\ Cardinality(P2) <= Cardinality(Q2)
<1>1. /\ IsFiniteSet(P \ {a}) /\ Cardinality(P \ {a}) = Cardinality(P) - 1
      /\ IsFiniteSet(Q \ {b}) /\ Cardinality(Q \ {b}) \in {Cardinality(Q), Cardinality(Q) - 1}
  BY FS_RemoveElement
<1>2. IsFiniteSet(P2) /\ Cardinality(P2) <= Cardinality(P \ {a})
  BY <1>1, FS_Subset
<1>3. IsFiniteSet(Q2) /\ Cardinality(Q \ {b}) <= Cardinality(Q2)
  <2>1. IsFiniteSet(Q2)
    BY FS_Subset
  <2>2. QED BY <2>1, FS_Subset
<1>4. /\ Cardinality(P) \in Nat /\ Cardinality(Q) \in Nat /\ Cardinality(P2) \in Nat
      /\ Cardinality(Q2) \in Nat
  BY <1>2, <1>3, FS_CardinalityType
<1>5. QED BY <1>1, <1>2, <1>3, <1>4

\* Nothing that counts for camera c, or for request k, has changed.
LEMMA CountedFrame ==
    ASSUME NEW c \in Cams, Counted(c), PendingOf(c)' \subseteq PendingOf(c),
           Outstanding(c)' = Outstanding(c)
    PROVE  Counted(c)'
<1>1. IsFiniteSet(PendingOf(c)') /\ Cardinality(PendingOf(c)') <= Cardinality(Outstanding(c))
  BY CountSame DEF Counted
<1>2. QED BY <1>1 DEF Counted

\* Nothing that request k relies on has changed.
LEMMA AsksFrame ==
    ASSUME NEW k \in Approvals, NEW r \in Runs, AsksSound(k), approval'[k] = approval[k], approval[k].of = r,
           Committed(r)', raced \subseteq raced',
           r \notin raced' =>
             /\ \A l \in Asked' : approval'[l].of = r => l = k
             /\ \A c \in approval[k].cams : row'[r][c] = row[r][c]
             /\ InRun(r)' = InRun(r) /\ WithStatus(r, "approved")' = WithStatus(r, "approved")
    PROVE  AsksSound(k)'
BY DEF AsksSound

\* The jobs of a camera, of all the jobs.
LEMMA OutstandingIs ==
    ASSUME NEW c \in Cams
    PROVE  Outstanding(c) = {j \in AllJobs : j[1] = c}
BY DEF Outstanding, AllJobs

\* Where a job is.
LEMMA AllJobsAre ==
    /\ \A j : j \in AllJobs <=>
        (\E b \in Servers : j \in jobs[b]) \/ (\E x \in held : j = x.job) \/ j \in lost
    /\ \A j : j \in AllJobs' <=>
        (\E b \in Servers : j \in jobs'[b]) \/ (\E x \in held' : j = x.job) \/ j \in lost'
<1>1. ASSUME NEW f, NEW h, NEW l, NEW j
      PROVE  j \in (UNION {f[b] : b \in Servers}) \union {x.job : x \in h} \union l <=>
                 (\E b \in Servers : j \in f[b]) \/ (\E x \in h : j = x.job) \/ j \in l
  <2> DEFINE U == UNION {f[b] : b \in Servers}
             H == {x.job : x \in h}
  <2>1. j \in U <=> \E b \in Servers : j \in f[b]
    OBVIOUS
  <2>2. j \in H <=> \E x \in h : j = x.job
    OBVIOUS
  <2>3. j \in U \union H \union l <=> j \in U \/ j \in H \/ j \in l
    <3> HIDE DEF U, H
    <3> QED OBVIOUS
  <2>4. QED BY <2>1, <2>2, <2>3, Zenon
<1>2. ASSUME NEW j
      PROVE  j \in AllJobs <=>
        (\E b \in Servers : j \in jobs[b]) \/ (\E x \in held : j = x.job) \/ j \in lost
  <2>1. j \in (UNION {jobs[b] : b \in Servers}) \union {x.job : x \in held} \union lost <=>
            (\E b \in Servers : j \in jobs[b]) \/ (\E x \in held : j = x.job) \/ j \in lost
    BY <1>1
  <2>2. QED BY <2>1 DEF AllJobs
<1>3. ASSUME NEW j
      PROVE  j \in AllJobs' <=>
        (\E b \in Servers : j \in jobs'[b]) \/ (\E x \in held' : j = x.job) \/ j \in lost'
  <2>1. j \in (UNION {jobs'[b] : b \in Servers}) \union {x.job : x \in held'} \union lost' <=>
            (\E b \in Servers : j \in jobs'[b]) \/ (\E x \in held' : j = x.job) \/ j \in lost'
    BY <1>1
  <2>2. QED BY <2>1 DEF AllJobs
<1>4. QED BY <1>2, <1>3

-----------------------------------------------------------------------------

\* A run is flushed and its jobs pushed.
LEMMA StartRunKept ==
    ASSUME SetupInv, NEW r \in Runs, NEW C \in SUBSET Cams, StartRun(r, C)
    PROVE  SetupInv'
<1> DEFINE first == [c \in Cams |-> IF c \in C THEN [NoProposal EXCEPT !.status = "pending"] ELSE NoProposal]
           new == {<<c, r>> : c \in C}
<1>1. /\ SetupTypeOK /\ run[r] = "none" /\ C # {}
      /\ run' = [run EXCEPT ![r] = "starting"] /\ row' = [row EXCEPT ![r] = first]
      /\ jobs' = [b \in Servers |-> jobs[b] \cup {<<c, r>> : c \in {d \in C : host[d] = b}}]
      /\ UNCHANGED <<host, config, held, lost, approval, raced>>
  BY DEF SetupInv, StartRun
<1>2. NoProposal \in ProposalRows /\ NoProposal.status = "none"
  BY DEF NoProposal, ProposalRows, ConfigValues
<1>3. /\ [NoProposal EXCEPT !.status = "pending"] \in ProposalRows
      /\ [NoProposal EXCEPT !.status = "pending"].status = "pending"
  BY <1>2 DEF ProposalRows
<1>4. /\ first \in [Cams -> ProposalRows]
      /\ \A c \in Cams : first[c].status = IF c \in C THEN "pending" ELSE "none"
  BY <1>2, <1>3
<1> HIDE DEF first
<1>5. /\ row'[r] = first /\ run'[r] = "starting"
      /\ \A q \in Runs : q # r => row'[q] = row[q] /\ run'[q] = run[q]
  BY <1>1 DEF SetupTypeOK
<1>6. SetupTypeOK'
  <2>1. row' \in [Runs -> [Cams -> ProposalRows]]
    BY <1>1, <1>4 DEF SetupTypeOK
  <2>2. run' \in [Runs -> {"none", "starting", "running", "complete"}]
    BY <1>1 DEF SetupTypeOK
  <2>3. jobs' \in [Servers -> SUBSET SetupJobs]
    BY <1>1 DEF SetupTypeOK, SetupJobs
  <2>4. QED BY <1>1, <2>1, <2>2, <2>3 DEF SetupTypeOK
<1>7. AllJobs' = AllJobs \union new
  <2>1. \A c \in C : host[c] \in Servers
    BY <1>1 DEF SetupTypeOK
  <2>2. \A b \in Servers : jobs'[b] = jobs[b] \cup {<<c, r>> : c \in {d \in C : host[d] = b}}
    BY <1>1
  <2>3. \A j : j \in new => \E b \in Servers : j \in jobs'[b]
    BY <2>1, <2>2
  <2>4. \A b \in Servers : \A j : j \in jobs'[b] => j \in jobs[b] \/ j \in new
    BY <2>2
  <2>5. \A b \in Servers : \A j : j \in jobs[b] => j \in jobs'[b]
    BY <2>2
  <2> HIDE DEF new
  <2>6. \A j : (\E b \in Servers : j \in jobs'[b]) <=> (\E b \in Servers : j \in jobs[b]) \/ j \in new
    BY <2>3, <2>4, <2>5
  <2>7. \A j : j \in AllJobs' <=> j \in AllJobs \/ j \in new
    BY <1>1, <2>6 DEF AllJobs
  <2>8. QED BY <2>7
<1>8. \A q \in Runs : RunStarted(q)'
  <2>1. RunStarted(r)'
    <3>1. C \subseteq InRun(r)'
      BY <1>4, <1>5 DEF InRun
    <3>2. QED BY <1>1, <1>4, <1>5, <3>1 DEF RunStarted
  <2>2. ASSUME NEW q \in Runs, q # r PROVE RunStarted(q)'
    <3>1. RunStarted(q) /\ InRun(q)' = InRun(q)
      BY <1>5, <2>2 DEF SetupInv, InRun
    <3>2. QED BY <1>5, <2>2, <3>1 DEF RunStarted
  <2>3. QED BY <2>1, <2>2
<1>9. JobsOfRuns'
  <2>1. \A j \in AllJobs : run[j[2]] # "none" /\ j[2] \in Runs
    <3>1. \A j \in AllJobs : j \in SetupJobs
      BY <1>1, AllJobsAre DEF SetupTypeOK, HeldJobs
    <3>2. QED BY <3>1 DEF SetupInv, JobsOfRuns, SetupJobs
  <2>2. \A j \in AllJobs' : run'[j[2]] # "none"
    BY <1>5, <1>7, <2>1
  <2>3. \A x \in held : x.at = "write" => x.to \in Runs /\ x.to # r /\ Committed(x.to)
    BY <1>1 DEF SetupInv, JobsOfRuns, SetupTypeOK, HeldJobs, Committed
  <2>4. \A x \in held' : x.at = "write" => run'[x.to] \in {"running", "complete"}
    BY <1>1, <1>5, <2>3 DEF Committed
  <2>5. QED BY <2>2, <2>4 DEF JobsOfRuns, Committed
<1>10. ASSUME NEW c \in Cams PROVE Counted(c)'
  <2>1. Counted(c) /\ Outstanding(c) = {j \in AllJobs : j[1] = c}
    BY OutstandingIs DEF SetupInv
  <2>2. Outstanding(c)' = {j \in AllJobs' : j[1] = c}
    BY DEF Outstanding, AllJobs
  <2>3. CASE c \in C
    <3>1. Outstanding(c)' = Outstanding(c) \union {<<c, r>>}
      BY <1>7, <2>1, <2>2, <2>3
    <3>2. <<c, r>> \notin Outstanding(c)
      BY <1>1, <2>1 DEF SetupInv, JobsOfRuns
    <3>3. PendingOf(c)' \subseteq PendingOf(c) \union {r}
      BY <1>5 DEF PendingOf
    <3>4. /\ IsFiniteSet(PendingOf(c)') /\ IsFiniteSet(Outstanding(c) \union {<<c, r>>})
          /\ Cardinality(PendingOf(c)') <= Cardinality(Outstanding(c) \union {<<c, r>>})
      BY <2>1, <3>2, <3>3, CountUp DEF Counted
    <3>5. QED BY <3>1, <3>4 DEF Counted
  <2>4. CASE c \notin C
    <3>1. Outstanding(c)' = Outstanding(c)
      BY <1>7, <2>1, <2>2, <2>4
    <3>2. PendingOf(c)' \subseteq PendingOf(c)
      BY <1>4, <1>5, <2>4 DEF PendingOf
    <3>3. QED BY <2>1, <3>1, <3>2, CountedFrame
  <2>5. QED BY <2>3, <2>4
<1>11. \A k \in Asked' : AsksSound(k)'
  <2>1. ASSUME NEW k \in Asked' PROVE AsksSound(k)'
    <3>1. Asked' = Asked
      BY <1>1 DEF Asked
    <3>2. k \in Approvals /\ AsksSound(k) /\ k \in Asked
      BY <2>1, <3>1 DEF SetupInv, Asked
    <3>3. approval[k].of \in Runs
      BY <1>1, <3>2 DEF Asked, SetupTypeOK, ApproveRequests, NotAsked
    <3>4. PICK q \in Runs : q = approval[k].of
      BY <3>3
    <3>5. Committed(q) /\ q # r /\ (q \notin raced => \A l \in Asked : approval[l].of = q => l = k)
      BY <1>1, <3>2, <3>4 DEF AsksSound, Committed
    <3>6. Committed(q)' /\ row'[q] = row[q]
      BY <1>5, <3>5 DEF Committed
    <3>7. \A l \in Asked' : approval'[l] = approval[l]
      BY <1>1
    <3>8. InRun(q)' = InRun(q) /\ WithStatus(q, "approved")' = WithStatus(q, "approved")
      BY <3>6 DEF InRun, WithStatus
    <3>9. QED BY <1>1, <3>1, <3>2, <3>4, <3>5, <3>6, <3>8, AsksFrame
  <2>2. QED BY <2>1
<1>12. ConfiguredAsApproved'
  <2>1. \A c \in Cams : row[r][c].status = "none"
    BY <1>1, <1>2 DEF SetupInv, RunStarted
  <2>2. ASSUME NEW c \in Cams, config'[c] # Default
        PROVE  \E q \in Runs : (row'[q][c].status = "approved" /\ row'[q][c].config = config'[c]) \/ q \in raced'
    <3>1. PICK q \in Runs : (row[q][c].status = "approved" /\ row[q][c].config = config[c]) \/ q \in raced
      BY <1>1, <2>2 DEF SetupInv, ConfiguredAsApproved
    <3>2. q # r \/ q \in raced
      BY <2>1, <3>1
    <3>3. QED BY <1>1, <1>5, <3>1, <3>2
  <2>3. QED BY <2>2 DEF ConfiguredAsApproved
<1>13. CompleteMeansApproved'
  <2>1. ASSUME NEW q \in Runs, q # r
        PROVE  /\ run'[q] = run[q] /\ InRun(q)' = InRun(q) /\ WithStatus(q, "approved")' = WithStatus(q, "approved")
               /\ Committed(q)' <=> Committed(q)
    BY <1>5, <2>1 DEF InRun, WithStatus, Committed
  <2>2. ~Committed(r)' /\ run'[r] # "complete"
    BY <1>5 DEF Committed
  <2>3. QED BY <1>1, <2>1, <2>2 DEF SetupInv, CompleteMeansApproved
<1>14. QED BY <1>6, <1>8, <1>9, <1>10, <1>11, <1>12, <1>13 DEF SetupInv

\* Nothing moves but the jobs, and none of them appears or disappears.
LEMMA JobsMove ==
    ASSUME SetupInv, UNCHANGED <<config, run, row, approval, raced>>, SetupTypeOK',
           AllJobs' = AllJobs, \A x \in held' : x.at = "write" => Committed(x.to)
    PROVE  SetupInv'
<1>1. \A q \in Runs : RunStarted(q)'
  BY DEF SetupInv, RunStarted, InRun
<1>2. JobsOfRuns'
  BY DEF SetupInv, JobsOfRuns, Committed
<1>3. ASSUME NEW c \in Cams PROVE Counted(c)'
  <2>1. Counted(c) /\ PendingOf(c)' = PendingOf(c)
    BY DEF SetupInv, PendingOf
  <2>2. Outstanding(c) = {j \in AllJobs : j[1] = c} /\ Outstanding(c)' = {j \in AllJobs' : j[1] = c}
    BY DEF Outstanding, AllJobs
  <2>3. QED BY <2>1, <2>2, CountedFrame
<1>4. \A k \in Asked' : AsksSound(k)'
  BY DEF SetupInv, Asked, AsksSound, Committed, InRun, WithStatus
<1>5. ConfiguredAsApproved' /\ CompleteMeansApproved'
  BY DEF SetupInv, ConfiguredAsApproved, CompleteMeansApproved, InRun, WithStatus, Committed
<1>6. QED BY <1>1, <1>2, <1>3, <1>4, <1>5 DEF SetupInv

\* A camera moves to another box.
LEMMA MoveKept ==
    ASSUME SetupInv, NEW c \in Cams, NEW b \in Servers, MoveCamera(c, b)
    PROVE  SetupInv'
<1>1. UNCHANGED <<config, run, row, jobs, held, lost, approval, raced>> /\ host' = [host EXCEPT ![c] = b]
  BY DEF MoveCamera
<1>2. SetupTypeOK'
  BY <1>1 DEF SetupInv, SetupTypeOK
<1>3. AllJobs' = AllJobs /\ \A x \in held' : x.at = "write" => Committed(x.to)
  BY <1>1 DEF AllJobs, SetupInv, JobsOfRuns
<1>4. QED BY <1>1, <1>2, <1>3, JobsMove

\* A box fetches its jobs, or loses them.
LEMMA FetchKept ==
    ASSUME SetupInv, NEW b \in Servers, FetchJobs(b)
    PROVE  SetupInv'
<1> DEFINE fetched == {[job |-> j, on |-> b, at |-> "observe"] : j \in jobs[b]}
<1>1. /\ SetupTypeOK /\ jobs' = [jobs EXCEPT ![b] = {}]
      /\ UNCHANGED <<host, config, run, row, approval, raced>>
      /\ \/ held' = held \cup fetched /\ UNCHANGED lost
         \/ lost' = lost \cup jobs[b] /\ UNCHANGED held
  BY DEF SetupInv, FetchJobs
<1>2. /\ jobs[b] \subseteq SetupJobs /\ jobs'[b] = {}
      /\ \A a \in Servers : a # b => jobs'[a] = jobs[a]
  BY <1>1 DEF SetupTypeOK
<1>3. fetched \subseteq HeldJobs /\ {x.job : x \in fetched} = jobs[b] /\ \A x \in fetched : x.at = "observe"
  <2>1. \A j \in jobs[b] : [job |-> j, on |-> b, at |-> "observe"] \in HeldJobs
    BY <1>2 DEF HeldJobs
  <2>2. \A j \in jobs[b] : [job |-> j, on |-> b, at |-> "observe"].job = j
    OBVIOUS
  <2>3. \A x \in fetched : x \in HeldJobs /\ x.job \in jobs[b] /\ x.at = "observe"
    BY <2>1
  <2>4. \A j \in jobs[b] : \E x \in fetched : x.job = j
    BY <2>2
  <2> HIDE DEF fetched
  <2>5. QED BY <2>3, <2>4
<1> HIDE DEF fetched
<1>4. SetupTypeOK'
  BY <1>1, <1>2, <1>3 DEF SetupTypeOK
<1>5. AllJobs' = AllJobs
  <2>1. \A j : (\E a \in Servers : j \in jobs[a]) <=> (\E a \in Servers : j \in jobs'[a]) \/ j \in jobs[b]
    BY <1>2
  <2>2. CASE held' = held \cup fetched /\ UNCHANGED lost
    <3>1. \A j : (\E x \in held' : j = x.job) <=> (\E x \in held : j = x.job) \/ j \in jobs[b]
      <4>1. \A j : (\E x \in fetched : j = x.job) <=> j \in jobs[b]
        BY <1>3
      <4>2. QED BY <2>2, <4>1
    <3>2. ASSUME NEW j PROVE j \in AllJobs <=> j \in AllJobs'
      <4>1. j \in AllJobs <=> (\E a \in Servers : j \in jobs[a]) \/ (\E x \in held : j = x.job) \/ j \in lost
        BY AllJobsAre
      <4>2. j \in AllJobs' <=> (\E a \in Servers : j \in jobs'[a]) \/ (\E x \in held' : j = x.job) \/ j \in lost'
        BY AllJobsAre
      <4>3. QED BY <2>1, <2>2, <3>1, <4>1, <4>2
    <3>3. QED BY <3>2
  <2>3. CASE lost' = lost \cup jobs[b] /\ UNCHANGED held
    <3>1. ASSUME NEW j PROVE j \in AllJobs <=> j \in AllJobs'
      <4>1. j \in AllJobs <=> (\E a \in Servers : j \in jobs[a]) \/ (\E x \in held : j = x.job) \/ j \in lost
        BY AllJobsAre
      <4>2. j \in AllJobs' <=> (\E a \in Servers : j \in jobs'[a]) \/ (\E x \in held' : j = x.job) \/ j \in lost'
        BY AllJobsAre
      <4>3. QED BY <2>1, <2>3, <4>1, <4>2
    <3>2. QED BY <3>1
  <2>4. QED BY <1>1, <2>2, <2>3
<1>6. \A x \in held' : x.at = "write" => Committed(x.to)
  BY <1>1, <1>3 DEF SetupInv, JobsOfRuns
<1>7. QED BY <1>1, <1>4, <1>5, <1>6, JobsMove

\* A pipeline finds the row its answer is for, or none.
LEMMA PostKept ==
    ASSUME SetupInv, NEW x \in held, PostAnswer(x)
    PROVE  SetupInv'
<1> DEFINE c == x.job[1]
           R == Pendings(c, x.on)
<1>1. /\ SetupTypeOK /\ x.at = "observe"
      /\ UNCHANGED <<host, config, run, row, jobs, approval, raced>>
      /\ \/ held' = held \ {x} /\ lost' = lost \cup {x.job}
         \/ /\ R # {} /\ UNCHANGED lost
            /\ held' = (held \ {x}) \cup {[job |-> x.job, on |-> x.on, at |-> "write", to |-> Newest(R)]}
  BY DEF SetupInv, PostAnswer
<1>2. x.job \in SetupJobs /\ x.on \in Servers /\ c \in Cams
  BY <1>1 DEF SetupTypeOK, HeldJobs, SetupJobs
<1>3. CASE held' = held \ {x} /\ lost' = lost \cup {x.job}
  <2>1. SetupTypeOK'
    BY <1>1, <1>2, <1>3 DEF SetupTypeOK
  <2>2. AllJobs' = AllJobs
    <3>1. {y.job : y \in held} = {y.job : y \in held \ {x}} \union {x.job}
      OBVIOUS
    <3>2. QED BY <1>1, <1>3, <3>1 DEF AllJobs
  <2>3. \A y \in held' : y.at = "write" => Committed(y.to)
    BY <1>3 DEF SetupInv, JobsOfRuns
  <2>4. QED BY <1>1, <2>1, <2>2, <2>3, JobsMove
<1>4. CASE /\ R # {} /\ UNCHANGED lost
           /\ held' = (held \ {x}) \cup {[job |-> x.job, on |-> x.on, at |-> "write", to |-> Newest(R)]}
  <2>1. Newest(R) \in R
    <3>1. R \subseteq PendingOf(c) /\ R \subseteq Nat
      BY SetupAssumption DEF Pendings, PendingOf
    <3>2. IsFiniteSet(R)
      <4>1. IsFiniteSet(PendingOf(c))
        BY <1>2 DEF SetupInv, Counted
      <4>2. QED BY <3>1, <4>1, FS_Subset
    <3> HIDE DEF R
    <3>3. \E m \in R : \A q \in R : q <= m
      BY <1>4, <3>1, <3>2, GreatestExists
    <3>4. QED BY <3>3 DEF Newest
  <2>2. Newest(R) \in Runs /\ Committed(Newest(R))
    BY <2>1 DEF Pendings
  <2> HIDE DEF R, c
  <2>3. PICK new : new = [job |-> x.job, on |-> x.on, at |-> "write", to |-> Newest(R)]
    OBVIOUS
  <2>4. new \in HeldJobs /\ new.job = x.job /\ new.at = "write" /\ new.to = Newest(R)
    BY <1>2, <2>2, <2>3 DEF HeldJobs
  <2>5. held' = (held \ {x}) \cup {new}
    BY <1>4, <2>3
  <2>6. SetupTypeOK'
    BY <1>1, <1>4, <2>4, <2>5 DEF SetupTypeOK
  <2>7. AllJobs' = AllJobs
    <3>1. {y.job : y \in held} = {y.job : y \in (held \ {x}) \cup {new}}
      BY <2>4
    <3>2. QED BY <1>1, <1>4, <2>5, <3>1 DEF AllJobs
  <2>8. \A y \in held' : y.at = "write" => Committed(y.to)
    BY <2>2, <2>4, <2>5 DEF SetupInv, JobsOfRuns
  <2>9. QED BY <1>1, <2>6, <2>7, <2>8, JobsMove
<1>5. QED BY <1>1, <1>3, <1>4

\* An answer is written.
LEMMA WriteKept ==
    ASSUME SetupInv, NEW x \in held, WriteAnswer(x)
    PROVE  SetupInv'
<1>1. SetupTypeOK /\ x.at = "write" /\ held' = held \ {x} /\ UNCHANGED <<host, config, run, jobs, approval>>
  BY DEF SetupInv, WriteAnswer
<1>2. PICK q \in Runs, d \in Cams :
        q = x.to /\ d = x.job[1] /\ x.job \in SetupJobs /\ Committed(q)
  BY <1>1 DEF SetupInv, JobsOfRuns, SetupTypeOK, HeldJobs, SetupJobs
<1>3. PICK a \in Answers : row' = [row EXCEPT ![q][d] = a]
  BY <1>2 DEF WriteAnswer
<1>4. IF row[q][d].status = "pending" THEN UNCHANGED <<lost, raced>>
      ELSE lost' = lost \cup {x.job} /\ raced' = raced \cup {q}
  BY <1>2 DEF WriteAnswer
<1>5. a \in ProposalRows /\ a.status \in {"failed", "needs_input", "proposed"}
  <2>1. CASE a = [status |-> "failed", config |-> Default, grouped |-> FALSE]
    BY <2>1 DEF ProposalRows, ConfigValues
  <2>2. ASSUME NEW t \in {"needs_input", "proposed"}, NEW y \in Configs, NEW g \in BOOLEAN,
               a = [status |-> t, config |-> y, grouped |-> g]
        PROVE  a \in ProposalRows /\ a.status \in {"failed", "needs_input", "proposed"}
    BY <2>2 DEF ProposalRows, ConfigValues
  <2>3. QED BY <2>1, <2>2 DEF Answers
<1>6. /\ row'[q][d] = a
      /\ \A r \in Runs, c \in Cams : r # q \/ c # d => row'[r][c] = row[r][c]
      /\ \A r \in Runs : r # q => row'[r] = row[r]
  BY <1>1, <1>3 DEF SetupTypeOK
<1>7. SetupTypeOK'
  <2>1. row' \in [Runs -> [Cams -> ProposalRows]]
    BY <1>1, <1>3, <1>5 DEF SetupTypeOK
  <2>2. held' \subseteq HeldJobs /\ lost' \subseteq SetupJobs /\ raced' \subseteq Runs
    BY <1>1, <1>2, <1>4 DEF SetupTypeOK
  <2>3. QED BY <1>1, <2>1, <2>2 DEF SetupTypeOK
\* What a run that nobody raced over shows: the row was pending.
<1>8. ASSUME NEW r \in Runs, r \notin raced'
      PROVE  /\ r \notin raced
             /\ InRun(r)' = InRun(r) /\ WithStatus(r, "approved")' = WithStatus(r, "approved")
             /\ r = q => row[r][d].status = "pending"
  <2>1. CASE r # q
    BY <1>4, <1>6, <1>8, <2>1 DEF InRun, WithStatus
  <2>2. CASE r = q
    <3>1. row[q][d].status = "pending" /\ r \notin raced
      BY <1>4, <1>8, <2>2
    <3>2. QED BY <1>5, <1>6, <2>2, <3>1 DEF InRun, WithStatus
  <2>3. QED BY <2>1, <2>2
<1>9. \A r \in Runs : RunStarted(r)'
  <2>1. ASSUME NEW r \in Runs PROVE RunStarted(r)'
    <3>1. RunStarted(r)
      BY DEF SetupInv
    <3>2. CASE r # q
      BY <1>1, <1>6, <3>1, <3>2 DEF RunStarted, InRun
    <3>3. CASE r = q
      <4>1. InRun(r) \subseteq InRun(r)'
        BY <1>5, <1>6, <3>3 DEF InRun
      <4>2. QED BY <1>1, <1>2, <3>1, <3>3, <4>1 DEF RunStarted, Committed
    <3>4. QED BY <3>2, <3>3
  <2>2. QED BY <2>1
<1>10. /\ \A j \in AllJobs' : j \in AllJobs
       /\ \A j \in AllJobs : j = x.job \/ j \in AllJobs'
       /\ row[q][d].status # "pending" => x.job \in AllJobs'
  <2>1. lost \subseteq lost' /\ lost' \subseteq lost \union {x.job} /\ (row[q][d].status # "pending" => x.job \in lost')
    BY <1>4
  <2>2. QED BY <1>1, <2>1, AllJobsAre
<1>11. JobsOfRuns'
  BY <1>1, <1>10 DEF SetupInv, JobsOfRuns, Committed
<1>12. ASSUME NEW c \in Cams PROVE Counted(c)'
  <2>1. Counted(c)
    BY DEF SetupInv
  <2>2. Outstanding(c) = {j \in AllJobs : j[1] = c} /\ Outstanding(c)' = {j \in AllJobs' : j[1] = c}
    BY DEF Outstanding, AllJobs
  <2>3. PendingOf(c)' \subseteq PendingOf(c)
    BY <1>5, <1>6 DEF PendingOf
  <2>4. CASE c # d \/ row[q][d].status # "pending"
    <3>1. Outstanding(c)' = Outstanding(c)
      BY <1>2, <1>10, <2>2, <2>4
    <3>2. QED BY <2>1, <2>3, <3>1, CountedFrame
  <2>5. CASE c = d /\ row[q][d].status = "pending"
    <3>1. q \in PendingOf(c) /\ PendingOf(c)' \subseteq PendingOf(c) \ {q}
      BY <1>5, <1>6, <2>3, <2>5 DEF PendingOf
    <3>2. Outstanding(c)' \subseteq Outstanding(c) /\ Outstanding(c) \ {x.job} \subseteq Outstanding(c)'
      BY <1>10, <2>2
    <3>3. /\ IsFiniteSet(PendingOf(c)') /\ IsFiniteSet(Outstanding(c)')
          /\ Cardinality(PendingOf(c)') <= Cardinality(Outstanding(c)')
      <4>1. /\ IsFiniteSet(PendingOf(c)) /\ IsFiniteSet(Outstanding(c))
            /\ Cardinality(PendingOf(c)) <= Cardinality(Outstanding(c))
        BY <2>1 DEF Counted
      <4>2. PendingOf(c)' \in SUBSET (PendingOf(c) \ {q}) /\ Outstanding(c)' \in SUBSET Outstanding(c)
        BY <3>1, <3>2
      <4>3. PICK P, Q, P2, Q2 : P = PendingOf(c) /\ Q = Outstanding(c) /\ P2 = PendingOf(c)' /\ Q2 = Outstanding(c)'
        OBVIOUS
      <4>4. /\ IsFiniteSet(P) /\ IsFiniteSet(Q) /\ Cardinality(P) <= Cardinality(Q)
            /\ q \in P /\ P2 \in SUBSET (P \ {q}) /\ Q2 \in SUBSET Q /\ Q \ {x.job} \subseteq Q2
        BY <3>1, <3>2, <4>1, <4>2, <4>3
      <4>5. IsFiniteSet(P2) /\ IsFiniteSet(Q2) /\ Cardinality(P2) <= Cardinality(Q2)
        BY <4>4, CountDown
      <4>6. QED BY <4>3, <4>5
    <3>4. QED BY <3>3 DEF Counted
  <2>6. QED BY <2>4, <2>5
<1>13. \A k \in Asked' : AsksSound(k)'
  <2>1. ASSUME NEW k \in Asked' PROVE AsksSound(k)'
    <3>1. Asked' = Asked
      BY <1>1 DEF Asked
    <3>2. k \in Approvals /\ AsksSound(k) /\ k \in Asked
      BY <2>1, <3>1 DEF SetupInv, Asked
    <3>3. approval[k].of \in Runs /\ approval[k].cams \subseteq Cams
      BY <1>1, <3>2 DEF Asked, SetupTypeOK, ApproveRequests, NotAsked
    <3>4. PICK r \in Runs : r = approval[k].of
      BY <3>3
    <3>5. Committed(r)' /\ raced \subseteq raced'
      BY <1>1, <1>4, <3>2, <3>4 DEF AsksSound, Committed
    <3>6. ASSUME r \notin raced'
          PROVE  /\ \A l \in Asked' : approval'[l].of = r => l = k
                 /\ \A c \in approval[k].cams : row'[r][c] = row[r][c]
      <4>1. r \notin raced /\ (r = q => row[r][d].status = "pending")
        BY <1>8, <3>6
      <4>2. /\ \A l \in Asked : approval[l].of = r => l = k
            /\ \A c \in approval[k].cams : row[r][c].status = "proposed"
        BY <3>2, <3>4, <4>1 DEF AsksSound
      <4>3. QED BY <1>1, <1>6, <3>1, <3>3, <4>1, <4>2
    <3>7. QED BY <1>1, <1>8, <3>2, <3>4, <3>5, <3>6, AsksFrame
  <2>2. QED BY <2>1
<1>14. ConfiguredAsApproved'
  <2>1. ASSUME NEW c \in Cams, config'[c] # Default
        PROVE  \E r \in Runs : (row'[r][c].status = "approved" /\ row'[r][c].config = config'[c]) \/ r \in raced'
    <3>1. PICK r \in Runs : (row[r][c].status = "approved" /\ row[r][c].config = config[c]) \/ r \in raced
      BY <1>1, <2>1 DEF SetupInv, ConfiguredAsApproved
    <3>2. raced \subseteq raced' /\ (row[q][d].status = "approved" => q \in raced')
      BY <1>4
    <3>3. QED BY <1>1, <1>6, <3>1, <3>2
  <2>2. QED BY <2>1 DEF ConfiguredAsApproved
<1>15. CompleteMeansApproved'
  BY <1>1, <1>8 DEF SetupInv, CompleteMeansApproved, Committed
<1>16. QED BY <1>7, <1>9, <1>11, <1>12, <1>13, <1>14, <1>15 DEF SetupInv

-----------------------------------------------------------------------------

\* The rows and the jobs stay as they are, and so do the runs.
LEMMA RowsStay ==
    ASSUME SetupInv, UNCHANGED <<host, config, run, row, jobs, held, lost>>, SetupTypeOK',
           raced \subseteq raced', \A k \in Asked' : AsksSound(k)'
    PROVE  SetupInv'
<1>1. \A q \in Runs : RunStarted(q)'
  BY DEF SetupInv, RunStarted, InRun
<1>2. JobsOfRuns'
  BY DEF SetupInv, JobsOfRuns, AllJobs, Committed
<1>3. ASSUME NEW c \in Cams PROVE Counted(c)'
  BY DEF SetupInv, Counted, PendingOf, Outstanding
<1>4. ConfiguredAsApproved'
  BY DEF SetupInv, ConfiguredAsApproved
<1>5. CompleteMeansApproved'
  BY DEF SetupInv, CompleteMeansApproved, InRun, WithStatus, Committed
<1>6. QED BY <1>1, <1>2, <1>3, <1>4, <1>5 DEF SetupInv

\* A request to approve reads its proposals.
LEMMA AskKept ==
    ASSUME SetupInv, NEW k \in Approvals, NEW r \in Runs, NEW C \in SUBSET Cams, Ask(k, r, C)
    PROVE  SetupInv'
<1> DEFINE x == [at |-> "write", of |-> r, cams |-> C, with |-> [c \in C |-> row[r][c].config]]
<1>1. /\ SetupTypeOK /\ approval[k] = NotAsked /\ Committed(r)
      /\ approval' = [approval EXCEPT ![k] = x]
      /\ raced' = (IF \E l \in Asked : approval[l].of = r THEN raced \cup {r} ELSE raced)
      /\ UNCHANGED <<host, config, run, row, jobs, held, lost>>
  BY DEF SetupInv, Ask
<1>2. \A c \in C : row[r][c].status = "proposed"
  BY DEF Ask, WithStatus, Agreeing, Eligible
<1>3. x.with \in [C -> ConfigValues]
  BY <1>1 DEF SetupTypeOK, ProposalRows
<1>4. x \in ApproveRequests /\ x.at = "write" /\ x.of = r /\ x.cams = C /\ \A c \in C : x.with[c] = row[r][c].config
  <2>1. x.with \in Grants
    BY <1>3 DEF Grants
  <2> DEFINE w == [c \in C |-> row[r][c].config]
  <2>2. w \in Grants
    BY <2>1
  <2>3. \A c \in C : w[c] = row[r][c].config
    OBVIOUS
  <2> HIDE DEF w
  <2>4. [at |-> "write", of |-> r, cams |-> C, with |-> w] \in ApproveRequests
    BY <2>2 DEF ApproveRequests
  <2>5. QED BY <2>3, <2>4 DEF w
<1> HIDE DEF x
<1>5. approval'[k] = x /\ \A l \in Approvals : l # k => approval'[l] = approval[l]
  BY <1>1 DEF SetupTypeOK
<1>6. SetupTypeOK'
  BY <1>1, <1>4 DEF SetupTypeOK
<1>7. Asked' = Asked \union {k} /\ k \notin Asked /\ raced \subseteq raced'
  BY <1>1, <1>4, <1>5 DEF Asked, NotAsked
<1>8. AsksSound(k)'
  <2>1. r \notin raced' => \A l \in Asked' : approval'[l].of = r => l = k
    <3>1. \A l \in Asked : l \in Approvals
      BY DEF Asked
    <3>2. QED BY <1>1, <1>5, <1>7, <3>1
  <2>2. Committed(r)'
    BY <1>1 DEF Committed
  <2>3. QED BY <1>1, <1>2, <1>3, <1>4, <1>5, <2>1, <2>2 DEF AsksSound
<1>9. ASSUME NEW l \in Asked PROVE AsksSound(l)'
  <2>1. l \in Approvals /\ AsksSound(l) /\ approval'[l] = approval[l]
    BY <1>5, <1>7, <1>9 DEF SetupInv, Asked
  <2>2. PICK q \in Runs : q = approval[l].of
    BY <1>1, <1>9, <2>1 DEF Asked, SetupTypeOK, ApproveRequests, NotAsked
  <2>3. Committed(q)'
    BY <1>1, <2>1, <2>2 DEF AsksSound, Committed
  <2>4. ASSUME q \notin raced' PROVE \A m \in Asked' : approval'[m].of = q => m = l
    <3>1. q # r /\ q \notin raced
      BY <1>1, <1>9, <2>2, <2>4
    <3>2. \A m \in Asked : m \in Approvals /\ m # k /\ (approval[m].of = q => m = l)
      BY <1>7, <2>1, <2>2, <3>1 DEF AsksSound, Asked
    <3>3. QED BY <1>4, <1>5, <1>7, <3>1, <3>2
  <2>5. InRun(q)' = InRun(q) /\ WithStatus(q, "approved")' = WithStatus(q, "approved")
    BY <1>1 DEF InRun, WithStatus
  <2>6. QED BY <1>1, <1>7, <2>1, <2>2, <2>3, <2>4, <2>5, AsksFrame
<1>10. \A l \in Asked' : AsksSound(l)'
  BY <1>7, <1>8, <1>9
<1>11. QED BY <1>1, <1>6, <1>7, <1>10, RowsStay

\* What the record of a request holds once it is made.
LEMMA AskedTyped ==
    ASSUME SetupTypeOK, NEW k \in Asked
    PROVE  /\ k \in Approvals /\ approval[k].of \in Runs /\ approval[k].cams \in SUBSET Cams
           /\ approval[k].with \in Grants /\ approval[k].at \in {"write", "commit"}
           /\ approval[k].at = "commit" => approval[k].completes \in BOOLEAN
BY DEF Asked, SetupTypeOK, ApproveRequests, NotAsked

\* A request writes them and counts what is settled.
LEMMA WriteApprovalKept ==
    ASSUME SetupInv, NEW k \in Approvals, WriteApproval(k)
    PROVE  SetupInv'
<1>1. SetupTypeOK /\ k \in Asked /\ AsksSound(k) /\ approval[k].at = "write"
      /\ UNCHANGED <<host, config, run, row, jobs, held, lost, raced>>
  BY DEF SetupInv, WriteApproval, Asked
<1>2. PICK r \in Runs, C \in SUBSET Cams, w \in Grants :
        approval[k].of = r /\ approval[k].cams = C /\ approval[k].with = w
  BY <1>1, AskedTyped
<1>3. PICK z \in BOOLEAN : z <=> InRun(r) \subseteq C \cup WithStatus(r, "approved")
  OBVIOUS
<1>4. PICK x : x = [at |-> "commit", of |-> r, cams |-> C, with |-> w, completes |-> z]
  OBVIOUS
<1>5. x \in ApproveRequests /\ x.at = "commit" /\ x.of = r /\ x.cams = C /\ x.with = w /\ x.completes = z
  BY <1>4 DEF ApproveRequests
<1>6. approval' = [approval EXCEPT ![k] = x]
  <2>1. z = (InRun(r) \subseteq C \cup WithStatus(r, "approved"))
    BY <1>3
  <2>2. x = [at |-> "commit", of |-> approval[k].of, cams |-> approval[k].cams, with |-> approval[k].with,
             completes |-> InRun(approval[k].of) \subseteq
                              approval[k].cams \cup WithStatus(approval[k].of, "approved")]
    BY <1>2, <1>4, <2>1
  <2>3. QED BY <2>2 DEF WriteApproval
<1>7. approval'[k] = x /\ \A l \in Approvals : l # k => approval'[l] = approval[l]
  BY <1>1, <1>6 DEF SetupTypeOK
<1>8. SetupTypeOK'
  BY <1>1, <1>5, <1>6 DEF SetupTypeOK
<1>9. Asked' = Asked /\ \A l \in Asked : l \in Approvals /\ approval'[l].of = approval[l].of
  BY <1>1, <1>2, <1>5, <1>7 DEF Asked
<1>10. \A q \in Runs : /\ InRun(q)' = InRun(q) /\ WithStatus(q, "approved")' = WithStatus(q, "approved")
                       /\ Committed(q)' <=> Committed(q)
  BY <1>1 DEF InRun, WithStatus, Committed
<1>11. AsksSound(k)'
  <2>1. /\ Committed(r) /\ w \in [C -> ConfigValues]
        /\ r \notin raced =>
             /\ \A l \in Asked : approval[l].of = r => l = k
             /\ \A c \in C : row[r][c].status = "proposed" /\ row[r][c].config = w[c]
    BY <1>1, <1>2 DEF AsksSound
  <2>2. r \notin raced => \A l \in Asked' : approval'[l].of = r => l = k
    BY <1>9, <2>1
  <2>3. QED BY <1>1, <1>3, <1>5, <1>7, <1>10, <2>1, <2>2 DEF AsksSound
<1>12. ASSUME NEW l \in Asked, l # k PROVE AsksSound(l)'
  <2>1. l \in Approvals /\ AsksSound(l) /\ approval'[l] = approval[l]
    BY <1>7, <1>9, <1>12 DEF SetupInv
  <2>2. PICK q \in Runs : q = approval[l].of
    BY <1>1, AskedTyped
  <2>3. Committed(q)'
    BY <1>10, <2>1, <2>2 DEF AsksSound
  <2>4. q \notin raced => \A m \in Asked' : approval'[m].of = q => m = l
    BY <1>9, <2>1, <2>2 DEF AsksSound
  <2>5. raced \subseteq raced' /\ (q \notin raced' => q \notin raced)
    BY <1>1
  <2>6. \A c \in approval[l].cams : row'[q][c] = row[q][c]
    BY <1>1
  <2>7. ASSUME q \notin raced'
        PROVE  /\ \A m \in Asked' : approval'[m].of = q => m = l
               /\ \A c \in approval[l].cams : row'[q][c] = row[q][c]
               /\ InRun(q)' = InRun(q) /\ WithStatus(q, "approved")' = WithStatus(q, "approved")
    BY <1>10, <2>4, <2>5, <2>6, <2>7
  <2>8. QED BY <2>1, <2>2, <2>3, <2>5, <2>7, AsksFrame
<1>13. \A l \in Asked' : AsksSound(l)'
  BY <1>9, <1>11, <1>12
<1>14. QED BY <1>1, <1>8, <1>13, RowsStay

\* A request commits.
LEMMA CommitApprovalKept ==
    ASSUME SetupInv, NEW k \in Approvals, CommitApproval(k)
    PROVE  SetupInv'
<1>1. SetupTypeOK /\ k \in Asked /\ AsksSound(k) /\ approval[k].at = "commit"
      /\ UNCHANGED <<host, jobs, held, lost, raced>>
  BY DEF SetupInv, CommitApproval, Asked
<1>2. PICK q \in Runs, C \in SUBSET Cams, w \in Grants :
        approval[k].of = q /\ approval[k].cams = C /\ approval[k].with = w
  BY <1>1, AskedTyped
<1>3. /\ approval' = [approval EXCEPT ![k] = [at |-> "over"]]
      /\ row' = [row EXCEPT ![q] = [c \in Cams |->
                   IF c \in C THEN [@[c] EXCEPT !.status = "approved"] ELSE @[c]]]
      /\ config' = [c \in Cams |-> IF c \in C THEN w[c] ELSE config[c]]
      /\ run' = IF approval[k].completes THEN [run EXCEPT ![q] = "complete"] ELSE run
  BY <1>2 DEF CommitApproval
<1>4. /\ Committed(q) /\ w \in [C -> ConfigValues]
      /\ q \notin raced =>
           /\ \A l \in Asked : approval[l].of = q => l = k
           /\ \A c \in C : row[q][c].status = "proposed" /\ row[q][c].config = w[c]
           /\ approval[k].completes <=> InRun(q) \subseteq C \union WithStatus(q, "approved")
  BY <1>1, <1>2 DEF AsksSound
<1>5. \A r \in Runs : r # q => row'[r] = row[r] /\ run'[r] = run[r]
  BY <1>1, <1>3 DEF SetupTypeOK
<1>6. /\ \A c \in C : row'[q][c] = [row[q][c] EXCEPT !.status = "approved"]
      /\ \A c \in Cams \ C : row'[q][c] = row[q][c]
  BY <1>1, <1>3 DEF SetupTypeOK
<1>7. \A c \in C : /\ row'[q][c] \in ProposalRows /\ row'[q][c].status = "approved"
                   /\ row'[q][c].config = row[q][c].config
  <2>1. ASSUME NEW c \in C
        PROVE  /\ row'[q][c] \in ProposalRows /\ row'[q][c].status = "approved"
               /\ row'[q][c].config = row[q][c].config
    <3>1. row[q][c] \in ProposalRows
      BY <1>1 DEF SetupTypeOK
    <3>2. QED BY <1>6, <3>1 DEF ProposalRows
  <2>2. QED BY <2>1
<1>8. SetupTypeOK'
  <2>1. row' \in [Runs -> [Cams -> ProposalRows]]
    <3>1. \A c \in Cams : row'[q][c] \in ProposalRows
      BY <1>1, <1>6, <1>7 DEF SetupTypeOK
    <3>2. \A r \in Runs : row'[r] \in [Cams -> ProposalRows]
      <4>1. row'[q] = [c \in Cams |-> IF c \in C THEN [row[q][c] EXCEPT !.status = "approved"] ELSE row[q][c]]
        BY <1>1, <1>3 DEF SetupTypeOK
      <4>2. row'[q] \in [Cams -> ProposalRows]
        BY <3>1, <4>1
      <4>3. QED BY <1>1, <1>5, <4>2 DEF SetupTypeOK
    <3>3. QED BY <1>1, <1>3, <3>2 DEF SetupTypeOK
  <2>2. config' \in [Cams -> ConfigValues]
    BY <1>1, <1>3, <1>4 DEF SetupTypeOK
  <2>3. run' \in [Runs -> {"none", "starting", "running", "complete"}]
    BY <1>1, <1>3 DEF SetupTypeOK
  <2>4. approval' \in [Approvals -> ApproveRequests]
    BY <1>1, <1>3 DEF SetupTypeOK, ApproveRequests
  <2>5. QED BY <1>1, <2>1, <2>2, <2>3, <2>4 DEF SetupTypeOK
<1>9. /\ run'[q] \in {"running", "complete"} /\ run[q] \in {"running", "complete"}
      /\ approval[k].completes => run'[q] = "complete"
      /\ ~approval[k].completes => run'[q] = run[q]
  BY <1>1, <1>3, <1>4 DEF Committed, SetupTypeOK
<1>10. \A r \in Runs : /\ Committed(r)' <=> Committed(r)
                       /\ r # q => InRun(r)' = InRun(r) /\ WithStatus(r, "approved")' = WithStatus(r, "approved")
  BY <1>5, <1>9 DEF Committed, InRun, WithStatus
<1>11. InRun(q) \subseteq InRun(q)' /\ WithStatus(q, "approved")' = WithStatus(q, "approved") \union C
  BY <1>6, <1>7 DEF InRun, WithStatus
<1>12. q \notin raced => InRun(q)' = InRun(q) /\ C \subseteq InRun(q)
  BY <1>4, <1>6, <1>7 DEF InRun
<1>13. \A r \in Runs : RunStarted(r)'
  <2>1. ASSUME NEW r \in Runs PROVE RunStarted(r)'
    <3>1. RunStarted(r)
      BY DEF SetupInv
    <3>2. CASE r # q
      BY <1>5, <1>10, <3>1, <3>2 DEF RunStarted
    <3>3. CASE r = q
      BY <1>9, <1>11, <3>1, <3>3 DEF RunStarted
    <3>4. QED BY <3>2, <3>3
  <2>2. QED BY <2>1
<1>14. JobsOfRuns'
  <2>1. AllJobs' = AllJobs
    BY <1>1 DEF AllJobs
  <2>2. \A j \in AllJobs : j[2] \in Runs /\ run[j[2]] # "none"
    <3>1. \A j \in AllJobs : j \in SetupJobs
      BY <1>1, AllJobsAre DEF SetupTypeOK, HeldJobs
    <3>2. QED BY <3>1 DEF SetupInv, JobsOfRuns, SetupJobs
  <2>3. \A x \in held : x.at = "write" => x.to \in Runs /\ Committed(x.to)
    BY <1>1 DEF SetupInv, JobsOfRuns, SetupTypeOK, HeldJobs
  <2>4. \A x \in held' : x.at = "write" => run'[x.to] \in {"running", "complete"}
    BY <1>1, <1>5, <1>9, <2>3 DEF Committed
  <2>5. \A j \in AllJobs' : run'[j[2]] # "none"
    BY <1>5, <1>9, <2>1, <2>2
  <2>6. QED BY <2>4, <2>5 DEF JobsOfRuns, Committed
<1>15. ASSUME NEW c \in Cams PROVE Counted(c)'
  <2>1. PendingOf(c)' \subseteq PendingOf(c)
    BY <1>5, <1>6, <1>7 DEF PendingOf
  <2>2. Outstanding(c)' = Outstanding(c) /\ Counted(c)
    BY <1>1 DEF Outstanding, SetupInv
  <2>3. QED BY <2>1, <2>2, CountedFrame
<1>16. \A l \in Asked' : AsksSound(l)'
  <2>1. ASSUME NEW l \in Asked' PROVE AsksSound(l)'
    <3>1. approval'[k] = [at |-> "over"] /\ \A m \in Approvals : m # k => approval'[m] = approval[m]
      BY <1>1, <1>3 DEF SetupTypeOK
    <3>2. Asked' = Asked \ {k}
      BY <3>1 DEF Asked
    <3>3. l \in Approvals /\ AsksSound(l) /\ l \in Asked /\ l # k /\ approval'[l] = approval[l]
      BY <2>1, <3>1, <3>2 DEF SetupInv, Asked
    <3>4. PICK r \in Runs : r = approval[l].of
      BY <1>1, <3>3, AskedTyped
    <3>5. Committed(r)' /\ raced \subseteq raced'
      BY <1>1, <1>10, <3>3, <3>4 DEF AsksSound
    <3>6. ASSUME r \notin raced'
          PROVE  /\ \A m \in Asked' : approval'[m].of = r => m = l
                 /\ \A c \in approval[l].cams : row'[r][c] = row[r][c]
                 /\ InRun(r)' = InRun(r) /\ WithStatus(r, "approved")' = WithStatus(r, "approved")
      <4>1. r \notin raced /\ r # q
        BY <1>1, <1>4, <3>3, <3>4, <3>6
      <4>2. \A m \in Asked : m \in Approvals /\ (approval[m].of = r => m = l)
        BY <3>3, <3>4, <4>1 DEF AsksSound, Asked
      <4>3. \A m \in Asked' : approval'[m].of = r => m = l
        BY <3>1, <3>2, <4>2
      <4>4. QED BY <1>5, <1>10, <4>1, <4>3
    <3>7. QED BY <3>3, <3>4, <3>5, <3>6, AsksFrame
  <2>2. QED BY <2>1
<1>17. ConfiguredAsApproved'
  <2>1. ASSUME NEW c \in Cams, config'[c] # Default
        PROVE  \E r \in Runs : (row'[r][c].status = "approved" /\ row'[r][c].config = config'[c]) \/ r \in raced'
    <3>1. CASE c \in C
      <4>1. config'[c] = w[c]
        BY <1>3, <3>1
      <4>2. q \notin raced => row'[q][c].status = "approved" /\ row'[q][c].config = w[c]
        BY <1>4, <1>7, <3>1
      <4>3. QED BY <1>1, <4>1, <4>2
    <3>2. CASE c \notin C
      <4>1. config'[c] = config[c]
        BY <1>3, <3>2
      <4>2. PICK r \in Runs : (row[r][c].status = "approved" /\ row[r][c].config = config[c]) \/ r \in raced
        BY <2>1, <4>1 DEF SetupInv, ConfiguredAsApproved
      <4>3. row'[r][c] = row[r][c]
        BY <1>5, <1>6, <3>2
      <4>4. QED BY <1>1, <4>1, <4>2, <4>3
    <3>3. QED BY <3>1, <3>2
  <2>2. QED BY <2>1 DEF ConfiguredAsApproved
<1>18. CompleteMeansApproved'
  <2>1. ASSUME NEW r \in Runs, r \notin raced', r = q
        PROVE  /\ run'[r] = "complete" => WithStatus(r, "approved")' = InRun(r)'
               /\ WithStatus(r, "approved")' = InRun(r)' => run'[r] = "complete"
    <3>1. q \notin raced
      BY <1>1, <2>1
    <3>2. InRun(q)' = InRun(q) /\ C \subseteq InRun(q) /\ WithStatus(q, "approved") \subseteq InRun(q)
      BY <1>12, <3>1 DEF InRun, WithStatus
    <3>3. run[q] = "complete" => WithStatus(q, "approved") = InRun(q)
      BY <3>1 DEF SetupInv, CompleteMeansApproved
    <3>4. CASE approval[k].completes
      BY <1>4, <1>9, <1>11, <2>1, <3>1, <3>2, <3>4
    <3>5. CASE ~approval[k].completes
      BY <1>4, <1>9, <1>11, <2>1, <3>1, <3>2, <3>3, <3>5
    <3>6. QED BY <3>4, <3>5
  <2>2. ASSUME NEW r \in Runs, r \notin raced', r # q
        PROVE  /\ run'[r] = "complete" => WithStatus(r, "approved")' = InRun(r)'
               /\ Committed(r)' /\ WithStatus(r, "approved")' = InRun(r)' => run'[r] = "complete"
    BY <1>1, <1>5, <1>10, <2>2 DEF SetupInv, CompleteMeansApproved
  <2>3. QED BY <2>1, <2>2 DEF CompleteMeansApproved
<1>19. QED BY <1>8, <1>13, <1>14, <1>15, <1>16, <1>17, <1>18 DEF SetupInv

\* A run commits.
LEMMA CommitRunKept ==
    ASSUME SetupInv, NEW r \in Runs, CommitRun(r)
    PROVE  SetupInv'
<1>1. /\ SetupTypeOK /\ run[r] = "starting" /\ run' = [run EXCEPT ![r] = "running"]
      /\ UNCHANGED <<host, config, row, jobs, held, lost, approval, raced>>
  BY DEF SetupInv, CommitRun
<1>2. run'[r] = "running" /\ \A q \in Runs : q # r => run'[q] = run[q]
  BY <1>1 DEF SetupTypeOK
<1>3. SetupTypeOK'
  BY <1>1 DEF SetupTypeOK
<1>4. \A q \in Runs : /\ InRun(q)' = InRun(q) /\ WithStatus(q, "approved")' = WithStatus(q, "approved")
                      /\ Committed(q) => Committed(q)'
                      /\ q # r => (Committed(q)' <=> Committed(q))
  BY <1>1, <1>2 DEF InRun, WithStatus, Committed
<1>5. \A q \in Runs : RunStarted(q)'
  <2>1. ASSUME NEW q \in Runs PROVE RunStarted(q)'
    <3>1. RunStarted(q) /\ RunStarted(r)
      BY DEF SetupInv
    <3>2. /\ run'[q] = "none" => run[q] = "none"
          /\ run'[q] = "starting" => run[q] = "starting"
          /\ run[q] # "none"  \/ run'[q] = "none"
      BY <1>1, <1>2
    <3>3. InRun(q)' = InRun(q) /\ row' = row
      BY <1>1, <1>4
    <3>4. QED BY <3>1, <3>2, <3>3 DEF RunStarted
  <2>2. QED BY <2>1
<1>6. JobsOfRuns'
  <2>1. AllJobs' = AllJobs
    BY <1>1 DEF AllJobs
  <2>2. \A j \in AllJobs : j[2] \in Runs /\ run[j[2]] # "none"
    <3>1. \A j \in AllJobs : j \in SetupJobs
      BY <1>1, AllJobsAre DEF SetupTypeOK, HeldJobs
    <3>2. QED BY <3>1 DEF SetupInv, JobsOfRuns, SetupJobs
  <2>3. \A x \in held : x.at = "write" => x.to \in Runs /\ Committed(x.to)
    BY <1>1 DEF SetupInv, JobsOfRuns, SetupTypeOK, HeldJobs
  <2>4. \A x \in held' : x.at = "write" => run'[x.to] \in {"running", "complete"}
    BY <1>1, <1>2, <2>3 DEF Committed
  <2>5. \A j \in AllJobs' : run'[j[2]] # "none"
    BY <1>2, <2>1, <2>2
  <2>6. QED BY <2>4, <2>5 DEF JobsOfRuns, Committed
<1>7. \A c \in Cams : Counted(c)'
  BY <1>1 DEF SetupInv, Counted, PendingOf, Outstanding
<1>8. \A l \in Asked' : AsksSound(l)'
  <2>1. ASSUME NEW l \in Asked PROVE AsksSound(l)'
    <3>1. l \in Approvals /\ AsksSound(l) /\ approval'[l] = approval[l]
      BY <1>1 DEF SetupInv, Asked
    <3>2. PICK q \in Runs : q = approval[l].of
      BY <1>1, AskedTyped
    <3>3. Committed(q)' /\ raced \subseteq raced'
      <4>1. Committed(q)
        BY <3>1, <3>2 DEF AsksSound
      <4>2. QED BY <1>1, <1>4, <4>1
    <3>4. ASSUME q \notin raced'
          PROVE  /\ \A m \in Asked' : approval'[m].of = q => m = l
                 /\ \A c \in approval[l].cams : row'[q][c] = row[q][c]
                 /\ InRun(q)' = InRun(q) /\ WithStatus(q, "approved")' = WithStatus(q, "approved")
      <4>1. \A m \in Asked : approval[m].of = q => m = l
        BY <1>1, <3>1, <3>2, <3>4 DEF AsksSound
      <4>2. Asked' = Asked
        BY <1>1 DEF Asked
      <4>3. QED BY <1>1, <1>4, <4>1, <4>2
    <3>5. QED BY <3>1, <3>2, <3>3, <3>4, AsksFrame
  <2>2. Asked' = Asked
    BY <1>1 DEF Asked
  <2>3. QED BY <2>1, <2>2
<1>9. ConfiguredAsApproved'
  BY <1>1 DEF SetupInv, ConfiguredAsApproved
<1>10. CompleteMeansApproved'
  <2>1. WithStatus(r, "approved") = {} /\ InRun(r) # {}
    BY <1>1 DEF SetupInv, RunStarted, WithStatus
  <2>2. ASSUME NEW q \in Runs, q \notin raced', q # r
        PROVE  /\ run'[q] = "complete" => WithStatus(q, "approved")' = InRun(q)'
               /\ Committed(q)' /\ WithStatus(q, "approved")' = InRun(q)' => run'[q] = "complete"
    BY <1>1, <1>2, <1>4, <2>2 DEF SetupInv, CompleteMeansApproved
  <2>3. WithStatus(r, "approved")' # InRun(r)' /\ run'[r] # "complete"
    BY <1>2, <1>4, <2>1
  <2>4. QED BY <2>2, <2>3 DEF CompleteMeansApproved
<1>11. QED BY <1>3, <1>5, <1>6, <1>7, <1>8, <1>9, <1>10 DEF SetupInv

\* Every step keeps it.
LEMMA SetupKept ==
    ASSUME SetupInv, [SetupNext]_setupVars
    PROVE  SetupInv'
<1>1. CASE UNCHANGED setupVars
  <2>1. UNCHANGED <<host, config, run, row, jobs, held, lost, approval, raced>>
    BY <1>1 DEF setupVars
  <2>2. SetupTypeOK' /\ AllJobs' = AllJobs /\ \A x \in held' : x.at = "write" => Committed(x.to)
    BY <2>1 DEF SetupInv, SetupTypeOK, AllJobs, JobsOfRuns
  <2>3. QED BY <2>1, <2>2, JobsMove
<1>2. CASE SetupNext
  BY <1>2, CommitRunKept, StartRunKept, FetchKept, MoveKept, PostKept, WriteKept, AskKept,
     WriteApprovalKept, CommitApprovalKept DEF SetupNext
<1>3. QED BY <1>1, <1>2

\* What is configured was approved, a run is complete exactly when all of it is
\* approved (two requests that overlapped on the run, or two answers for one row, are
\* excepted), and no proposal stays pending without a job on its way or lost
\* (camera_setup.py, agents.py, supervisor.py).
THEOREM SetupIsSafe == SetupSpec => []SetupSafe
<1>1. SetupInit => SetupInv
  <2>1. SUFFICES ASSUME SetupInit PROVE SetupInv
    OBVIOUS
  <2>2. SetupTypeOK
    <3>1. (CHOOSE b \in Servers : TRUE) \in Servers
      BY SetupAssumption
    <3>2. host \in [Cams -> Servers]
      BY <2>1, <3>1 DEF SetupInit
    <3>3. NoProposal \in ProposalRows /\ Default \in ConfigValues /\ NotAsked \in ApproveRequests
      BY DEF NoProposal, ProposalRows, ConfigValues, NotAsked, ApproveRequests
    <3>4. QED BY <2>1, <3>2, <3>3 DEF SetupInit, SetupTypeOK
  <2>3. \A j : j \notin AllJobs
    BY <2>1, AllJobsAre DEF SetupInit
  <2>4. JobsOfRuns
    BY <2>1, <2>3 DEF SetupInit, JobsOfRuns
  <2>5. \A r \in Runs : RunStarted(r)
    BY <2>1 DEF SetupInit, RunStarted
  <2>6. ASSUME NEW c \in Cams PROVE Counted(c)
    <3>1. Outstanding(c) = {}
      BY <2>3, OutstandingIs
    <3>2. PendingOf(c) = {}
      BY <2>1 DEF SetupInit, PendingOf, NoProposal
    <3>3. IsFiniteSet({}) /\ Cardinality({}) = 0
      BY FS_EmptySet
    <3>4. QED BY <3>1, <3>2, <3>3 DEF Counted
  <2>7. Asked = {}
    BY <2>1 DEF SetupInit, Asked, NotAsked
  <2>8. ConfiguredAsApproved /\ CompleteMeansApproved
    BY <2>1 DEF SetupInit, ConfiguredAsApproved, CompleteMeansApproved, Committed
  <2>9. QED BY <2>2, <2>4, <2>5, <2>6, <2>7, <2>8 DEF SetupInv
<1>2. SetupInv => SetupSafe
  <2>1. SUFFICES ASSUME SetupInv PROVE SetupSafe
    OBVIOUS
  <2>2. PendingAccounted
    BY <2>1 DEF SetupInv, Counted, PendingAccounted, PendingOf
  <2>3. QED BY <2>1, <2>2 DEF SetupInv, SetupSafe
<1>3. QED BY <1>1, <1>2, SetupKept, PTL DEF SetupSpec
=============================================================================
