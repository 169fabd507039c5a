---------------------------- MODULE Provisioning ----------------------------
(***************************************************************************)
(* How an edge box gets its device token.  A box either registers itself   *)
(* and waits for a customer to claim it by the code or the QR token it     *)
(* shows (backend: device_provision_service.py; box: devicepair and        *)
(* main.go), or redeems a pair code its installer carries                  *)
(* (pairing_service.py).  The token is kept in a file; the backend keeps   *)
(* the hash of the last token it minted for a box in an organisation.      *)
(*                                                                         *)
(* A backend request is one transaction under READ COMMITTED: it reads in  *)
(* steps of its own and writes and commits in the last.                    *)
(***************************************************************************)
EXTENDS Integers, FiniteSets

CONSTANTS Boxes, Orgs,
          Claims,          \* claim requests, each made once
          PairCodes,       \* codes an organisation minted, each for one box
          PairCodeOrg,     \* the organisation of each
          CodeOf,          \* the code the installer of a box carries; others wait
          MaxCrashes       \* bound: restarts of a box before it has its token

NoCode == "no code"

ASSUME ProvisioningAssumption ==
    /\ IsFiniteSet(Boxes) /\ MaxCrashes \in Nat
    /\ PairCodeOrg \in [PairCodes -> Orgs]
    /\ CodeOf \in [Boxes -> PairCodes \cup {NoCode}]

VARIABLES provision,  \* device_provisions: the row of each box
          handles,    \* claim tokens in Redis, by the box they stand for
          claim,      \* what each claim request has read
          code,       \* agent_pair_codes: fresh, expired, or the boxes it made
          agent,      \* agents: the token whose hash the row of a box holds
          minted,     \* how many tokens were minted
          box,        \* the process on the box
          file,       \* its token.json
          crashes,    \* restarts so far
          contested   \* history: boxes and codes two requests held at once

provisioningVars ==
    <<provision, handles, claim, code, agent, minted, box, file, crashes, contested>>

NoRow == [status |-> "none"]
NoToken == 0          \* no file, no hash
Torn == -1             \* a file that was cut short
OffDuty == [at |-> "off"]
NoClaim == [at |-> "none"]

Waiting(b) == provision[b].status = "waiting" /\ ~provision[b].late
Accepted(t) == \E o \in Orgs, b \in Boxes : agent[o][b] = t /\ t # NoToken

ProvisioningInit ==
    /\ provision = [b \in Boxes |-> NoRow]
    /\ handles = {}
    /\ claim = [k \in Claims |-> NoClaim]
    /\ code = [c \in PairCodes |-> [expired |-> FALSE, consumed |-> FALSE, made |-> {}]]
    /\ agent = [o \in Orgs |-> [b \in Boxes |-> NoToken]]
    /\ minted = 0
    /\ box = [b \in Boxes |-> OffDuty]
    /\ file = [b \in Boxes |-> NoToken]
    /\ crashes = [b \in Boxes |-> 0]
    /\ contested = {}

BoxDoes(b, x) == box' = [box EXCEPT ![b] = x]
backendVars == <<provision, handles, claim, code, agent, minted, contested>>

-----------------------------------------------------------------------------
(* The box that registers itself.                                           *)

\* A token file, whole or not, decides the way main() takes.  The identity of the
\* box (device_id, key) survives restarts.
Boot(b) ==
    /\ box[b] = OffDuty
    /\ BoxDoes(b, [at |-> IF file[b] = Torn THEN "failed"
                          ELSE IF file[b] # NoToken THEN "running"
                          ELSE IF CodeOf[b] # NoCode THEN "redeem" ELSE "provision"])
    /\ UNCHANGED <<backendVars, file, crashes>>

\* provision(): a waiting row is refreshed and keeps its code; without one a row
\* is inserted, which the primary key refuses if the box has a claimed row.
\* Either way a new handle joins those that have not expired.
Provision(b) ==
    /\ box[b].at = "provision"
    /\ \/ /\ provision[b].status # "claimed"
          /\ provision' = [provision EXCEPT ![b] = [status |-> "waiting", late |-> FALSE]]
          /\ handles' = handles \cup {b}
          /\ BoxDoes(b, [at |-> "poll"])
       \/ /\ provision[b].status = "claimed"
          /\ BoxDoes(b, [at |-> "failed"])
          /\ UNCHANGED <<provision, handles>>
    /\ UNCHANGED <<claim, code, agent, minted, contested, file, crashes>>

\* Ten minutes: the row and the handle are no longer good.
RowExpires(b) ==
    /\ Waiting(b)
    /\ provision' = [provision EXCEPT ![b].late = TRUE]
    /\ handles' = handles \ {b}
    /\ UNCHANGED <<claim, code, agent, minted, contested, box, file, crashes>>

\* A poll that fails is repeated; the row of a claimed box answers with the token
\* every time it is asked.
PollClaimed(b) ==
    /\ box[b].at = "poll" /\ provision[b].status = "claimed"
    /\ BoxDoes(b, [at |-> "save", token |-> provision[b].token])
    /\ UNCHANGED <<backendVars, file, crashes>>

\* "expired", or ten minutes without an answer that says claimed: the agent exits.
PollExpired(b) ==
    /\ box[b].at = "poll" /\ provision[b].late
    /\ BoxDoes(b, [at |-> "failed"])
    /\ UNCHANGED <<backendVars, file, crashes>>

SaveToken(b) ==
    /\ box[b].at = "save"
    /\ file' = [file EXCEPT ![b] = box[b].token]
    /\ BoxDoes(b, [at |-> "running"])
    /\ UNCHANGED <<backendVars, crashes>>

\* The box loses power; in Save the file may be left empty.
Crash(b) ==
    /\ box[b].at \in {"provision", "poll", "redeem", "save"}
    /\ crashes[b] < MaxCrashes
    /\ crashes' = [crashes EXCEPT ![b] = @ + 1]
    /\ BoxDoes(b, OffDuty)
    /\ \/ UNCHANGED file
       \/ box[b].at = "save" /\ file' = [file EXCEPT ![b] = Torn]
    /\ UNCHANGED backendVars

\* The service manager or the customer starts an agent that has exited.
Restart(b) == /\ box[b].at = "failed" /\ BoxDoes(b, OffDuty)
              /\ UNCHANGED <<backendVars, file, crashes>>

-----------------------------------------------------------------------------
(* The customer's claim.                                                    *)

Claiming(b) == {k \in Claims : claim[k].at # "none" /\ claim[k].at # "over" /\ claim[k].for = b}
ClaimGoes(k, x) == claim' = [claim EXCEPT ![k] = x]

\* claim() selects the waiting row by the code the box shows.
ClaimByCode(k, b, o) ==
    /\ claim[k] = NoClaim /\ Waiting(b)
    /\ ClaimGoes(k, [at |-> "agent", for |-> b, org |-> o])
    /\ contested' = IF Claiming(b) = {} THEN contested ELSE contested \cup {b}
    /\ UNCHANGED <<provision, handles, code, agent, minted, box, file, crashes>>

\* claim_by_token(): GET, DELETE, then the row.
ReadHandle(k, b, o) ==
    /\ claim[k] = NoClaim /\ b \in handles
    /\ ClaimGoes(k, [at |-> "handle", for |-> b, org |-> o])
    /\ UNCHANGED <<provision, handles, code, agent, minted, contested, box, file, crashes>>

DropHandle(k) ==
    /\ claim[k].at = "handle"
    /\ handles' = handles \ {claim[k].for}
    /\ ClaimGoes(k, [claim[k] EXCEPT !.at = "row"])
    /\ UNCHANGED <<provision, code, agent, minted, contested, box, file, crashes>>

FindRow(k) ==
    LET b == claim[k].for IN
    /\ claim[k].at = "row"
    /\ ClaimGoes(k, [claim[k] EXCEPT !.at = IF Waiting(b) THEN "agent" ELSE "over"])
    /\ contested' = IF Waiting(b) /\ \E l \in Claiming(b) : claim[l].at \in {"agent", "write"}
                    THEN contested \cup {b} ELSE contested
    /\ UNCHANGED <<provision, handles, code, agent, minted, box, file, crashes>>

\* _finish_claim(): does the machine have an agent in the organisation?
FindAgent(k) ==
    /\ claim[k].at = "agent"
    /\ ClaimGoes(k, [at |-> "write", for |-> claim[k].for, org |-> claim[k].org,
                     exists |-> agent[claim[k].org][claim[k].for] # NoToken])
    /\ UNCHANGED <<provision, handles, code, agent, minted, contested, box, file, crashes>>

\* The agent's row is updated, or inserted unless another claim has inserted it
\* meanwhile; then the provision is claimed, whatever its status is by now.
FinishClaim(k) ==
    LET b == claim[k].for  o == claim[k].org IN
    /\ claim[k].at = "write"
    /\ ClaimGoes(k, [at |-> "over"])
    /\ IF claim[k].exists \/ agent[o][b] = NoToken
       THEN /\ minted' = minted + 1
            /\ agent' = [agent EXCEPT ![o][b] = minted + 1]
            /\ provision' = [provision EXCEPT
                               ![b] = [status |-> "claimed", late |-> @.late, token |-> minted + 1]]
       ELSE UNCHANGED <<minted, agent, provision>>
    /\ UNCHANGED <<handles, code, contested, box, file, crashes>>

-----------------------------------------------------------------------------
(* The box with a pair code.                                                *)

CodeExpires(c) ==
    /\ ~code[c].expired /\ code' = [code EXCEPT ![c].expired = TRUE]
    /\ UNCHANGED <<provision, handles, claim, agent, minted, contested, box, file, crashes>>

Redeeming(c) == {b \in Boxes : box[b].at = "redeeming" /\ CodeOf[b] = c}

\* A test that forgets the code's use (mutant).
ReadCodeAgain(b) ==
    /\ box[b].at = "redeem"
    /\ BoxDoes(b, [at |-> IF code[CodeOf[b]].expired THEN "failed" ELSE "redeeming"])
    /\ UNCHANGED <<provision, handles, claim, code, agent, minted, contested, file, crashes>>

\* redeem_code() reads the row and tests it.
ReadCode(b) ==
    LET c == code[CodeOf[b]] IN
    /\ box[b].at = "redeem"
    /\ BoxDoes(b, [at |-> IF c.consumed \/ c.expired THEN "failed" ELSE "redeeming"])
    /\ contested' = IF Redeeming(CodeOf[b]) = {} THEN contested
                    ELSE contested \cup {CodeOf[b]}
    /\ UNCHANGED <<provision, handles, claim, code, agent, minted, file, crashes>>

\* pair_agent() writes consumed_at and inserts the agent, or rolls both back when
\* the machine has one.  The answer may be lost: the box then starts again.
Redeem(b) ==
    LET c == CodeOf[b]  o == PairCodeOrg[c] IN
    /\ box[b].at = "redeeming"
    /\ IF agent[o][b] = NoToken
       THEN /\ minted' = minted + 1
            /\ agent' = [agent EXCEPT ![o][b] = minted + 1]
            /\ code' = [code EXCEPT ![c].consumed = TRUE, ![c].made = @ \cup {b}]
            /\ \/ BoxDoes(b, [at |-> "save", token |-> minted + 1]) \/ BoxDoes(b, [at |-> "failed"])
       ELSE BoxDoes(b, [at |-> "failed"]) /\ UNCHANGED <<minted, agent, code>>
    /\ UNCHANGED <<provision, handles, claim, contested, file, crashes>>

ProvisioningNext ==
    \/ \E b \in Boxes :
         \/ Boot(b) \/ Provision(b) \/ RowExpires(b) \/ PollClaimed(b) \/ PollExpired(b)
         \/ SaveToken(b) \/ Crash(b) \/ Restart(b) \/ ReadCode(b) \/ Redeem(b)
         \/ \E k \in Claims, o \in Orgs : ClaimByCode(k, b, o) \/ ReadHandle(k, b, o)
    \/ \E k \in Claims : DropHandle(k) \/ FindRow(k) \/ FindAgent(k) \/ FinishClaim(k)
    \/ \E c \in PairCodes : CodeExpires(c)

\* An agent that is on goes on, and one that is off is switched on.
BoxFairness == \A b \in Boxes : WF_provisioningVars(
    Boot(b) \/ Provision(b) \/ PollClaimed(b) \/ PollExpired(b) \/ SaveToken(b) \/ Restart(b))

ProvisioningSpec == ProvisioningInit /\ [][ProvisioningNext]_provisioningVars

-----------------------------------------------------------------------------
(* Properties.                                                              *)

\* The token a box has saved is the one the backend accepts from it, unless two
\* claims of the box overlapped (the later one mints over the earlier).
SavedIsAccepted ==
    \A b \in Boxes \ contested : file[b] \notin {NoToken, Torn} => Accepted(file[b])

\* A pair code makes one agent, unless two redemptions of it overlapped.
CodeMakesOne == \A c \in PairCodes \ contested : Cardinality(code[c].made) <= 1

ProvisioningSafe == SavedIsAccepted /\ CodeMakesOne

\* "Device poll returns claimed + device_token -> starts streaming": a claimed box
\* runs in the end.
ClaimedBoxRuns ==
    \A b \in Boxes : provision[b].status = "claimed" ~> box[b].at = "running"
=============================================================================
