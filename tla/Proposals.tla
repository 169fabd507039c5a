------------------------------ MODULE Proposals ------------------------------
(***************************************************************************)
(* The assistant's tool loop and the proposals it leaves for a person      *)
(* (services/assistant/loop.py, registry.py, tools/propose.py,             *)
(* proposals.py, api/assistant.py, and the connection routes they share a  *)
(* table with).  A turn is one transaction: what its tools draw becomes    *)
(* visible when the answer commits.  A click (apply or reject) reads the   *)
(* proposal, runs the applier and commits; nothing locks the row between.     *)
(***************************************************************************)
EXTENDS Naturals, FiniteSets

CONSTANTS Turns,           \* assistant requests
          Clicks,          \* apply and reject requests
          RuleProposals,   \* ids for proposals of an alert rule
          LinkProposals,   \* ids for proposals of one camera connection
          MaxIterations    \* MAX_ITERATIONS of the loop

Drafts == RuleProposals \cup LinkProposals

VARIABLES status,   \* committed status of every proposal, "absent" before
          overdue,  \* proposals past expires_at
          turn,     \* where a turn is: [pc, calls, drawn, broken]
          click,    \* where a click is: [pc, op, p, saw, late, linked]
          made,     \* alert rules created from each proposal
          linked,   \* the camera connection exists (unique pair)
          raced,    \* proposals two clicks worked on at the same time
          shown     \* proposals an answer listed

proposalVars == <<status, overdue, turn, click, made, linked, raced, shown>>

NoClick == [pc |-> "idle", op |-> "apply", p |-> CHOOSE p \in Drafts : TRUE,
            saw |-> "pending", late |-> FALSE, linked |-> FALSE]

ProposalInit ==
    /\ status = [p \in Drafts |-> "absent"]
    /\ overdue = {} /\ raced = {} /\ shown = {}
    /\ turn = [t \in Turns |-> [pc |-> "idle", calls |-> 0, drawn |-> {}, broken |-> FALSE]]
    /\ click = [c \in Clicks |-> NoClick]
    /\ made = [p \in Drafts |-> 0]
    /\ linked = FALSE

-----------------------------------------------------------------------------
(* One turn of the assistant.                                              *)

Drawn == UNION {turn[t].drawn : t \in Turns}

\* The request is rolled back: the rows its tools flushed are gone.
AbandonTurn(t) ==
    turn' = [turn EXCEPT ![t].pc = "failed", ![t].drawn = {}]

\* The charge of the next model call is granted, or the turn ends with 429.
ChargeCall(t) ==
    /\ turn[t].pc = "idle"
    /\ \/ turn' = [turn EXCEPT ![t].pc = "calling", ![t].calls = @ + 1]
       \/ AbandonTurn(t)
    /\ UNCHANGED <<status, overdue, click, made, linked, raced, shown>>

\* Gemini fails or is missing: 503.
ModelFails(t) ==
    /\ turn[t].pc = "calling"
    /\ AbandonTurn(t)
    /\ UNCHANGED <<status, overdue, click, made, linked, raced, shown>>

\* dispatch runs one tool.  create_proposal flushes a row; a statement that
\* fails leaves the session unusable, though dispatch returns it as data.
RunTool(t) ==
    /\ turn[t].pc \in {"calling", "tools"}
    /\ \/ /\ ~turn[t].broken
          /\ \E p \in Drafts : /\ status[p] = "absent" /\ p \notin Drawn
                               /\ turn' = [turn EXCEPT ![t].pc = "tools",
                                                       ![t].drawn = @ \cup {p}]
       \/ turn' = [turn EXCEPT ![t].pc = "tools", ![t].broken = TRUE]
       \/ turn' = [turn EXCEPT ![t].pc = "tools"]
    /\ UNCHANGED <<status, overdue, click, made, linked, raced, shown>>

NextIteration(t) ==
    /\ turn[t].pc = "tools"
    /\ turn[t].calls < MaxIterations
    /\ turn' = [turn EXCEPT ![t].pc = "idle"]
    /\ UNCHANGED <<status, overdue, click, made, linked, raced, shown>>

\* A reply without tool calls, or the bound: the answer is stored with the
\* turn's rows and lists its proposals.  On a broken session the flush of the
\* answer raises and everything is rolled back.
StoreAnswer(t) ==
    IF turn[t].broken
    THEN /\ AbandonTurn(t)
         /\ UNCHANGED <<status, shown>>
    ELSE /\ status' = [p \in Drafts |-> IF p \in turn[t].drawn THEN "pending" ELSE status[p]]
         /\ shown' = shown \cup turn[t].drawn
         /\ turn' = [turn EXCEPT ![t].pc = "answered", ![t].drawn = {}]

FinishTurn(t) ==
    /\ \/ turn[t].pc = "calling"
       \/ turn[t].pc = "tools" /\ turn[t].calls = MaxIterations
    /\ StoreAnswer(t)
    /\ UNCHANGED <<overdue, click, made, linked, raced>>

-----------------------------------------------------------------------------
(* The person's side.                                                      *)

\* PROPOSAL_TTL passes.
ProposalExpires(p) ==
    /\ status[p] = "pending" /\ p \notin overdue
    /\ overdue' = overdue \cup {p}
    /\ UNCHANGED <<status, turn, click, made, linked, raced, shown>>

Clicking(c) == click[c].pc \in {"read", "run"}

\* apply_proposal and reject_proposal load the row.
ReadProposal(c, op, p) ==
    /\ click[c].pc = "idle" /\ status[p] # "absent"
    /\ click' = [click EXCEPT ![c] = [NoClick EXCEPT !.pc = "read", !.op = op, !.p = p,
                                                    !.saw = status[p], !.late = p \in overdue]]
    /\ raced' = IF \E d \in Clicks : Clicking(d) /\ click[d].p = p THEN raced \cup {p} ELSE raced
    /\ UNCHANGED <<status, overdue, turn, made, linked, shown>>

\* A click that does not look at the status (mutant).
AnsweredNever(c) == click[c].op = "apply" /\ click[c].late

\* Already applied; rejected; or expired, where the status is set and the
\* exception that reports it rolls it back: in each case nothing is stored.
Answered(c) ==
    \/ click[c].saw # "pending"
    \/ click[c].op = "apply" /\ click[c].late

Decline(c) ==
    /\ click[c].pc = "read" /\ Answered(c)
    /\ click' = [click EXCEPT ![c].pc = "done"]
    /\ UNCHANGED <<status, overdue, turn, made, linked, raced, shown>>

\* The applier of a connection looks for the pair before it inserts it.
RunApplier(c) ==
    /\ click[c].pc = "read" /\ ~Answered(c)
    /\ click' = [click EXCEPT ![c].pc = "run", ![c].linked = linked]
    /\ UNCHANGED <<status, overdue, turn, made, linked, raced, shown>>

\* The request commits the new row and the status together; an insert of a
\* pair that appeared meanwhile violates the unique constraint.
CommitClick(c) ==
    LET p == click[c].p
        apply == click[c].op = "apply"
        clash == apply /\ p \in LinkProposals /\ ~click[c].linked /\ linked
    IN  /\ click[c].pc = "run"
        /\ click' = [click EXCEPT ![c].pc = "done"]
        /\ IF clash
           THEN UNCHANGED <<status, made, linked>>
           ELSE /\ status' = [status EXCEPT ![p] = IF apply THEN "applied" ELSE "rejected"]
                /\ made' = [made EXCEPT ![p] = IF apply /\ p \in RuleProposals
                                               THEN @ + 1 ELSE @]
                /\ linked' = (linked \/ (apply /\ p \in LinkProposals /\ ~click[c].linked))
        /\ UNCHANGED <<overdue, turn, raced, shown>>

\* Somebody draws or deletes the same edge on the map.
DrawConnection ==
    /\ linked' = ~linked
    /\ UNCHANGED <<status, overdue, turn, click, made, raced, shown>>

ProposalNext ==
    \/ \E t \in Turns : \/ ChargeCall(t) \/ ModelFails(t) \/ RunTool(t)
                        \/ NextIteration(t) \/ FinishTurn(t)
    \/ \E p \in Drafts : \/ ProposalExpires(p)
                         \/ \E c \in Clicks, op \in {"apply", "reject"} : ReadProposal(c, op, p)
    \/ \E c \in Clicks : Decline(c) \/ RunApplier(c) \/ CommitClick(c)
    \/ DrawConnection

ProposalSpec == ProposalInit /\ [][ProposalNext]_proposalVars

-----------------------------------------------------------------------------
\* "A double-click must not create two alert rules" (proposals.py:255): two
\* rules of one proposal take two clicks inside each other's transaction.
MadeOnce == \A p \in Drafts : made[p] > 1 => p \in raced

\* A rule exists exactly when its proposal reads applied, unless an apply and
\* a reject crossed: the status the person sees is what happened.
StatusTellsTruth ==
    \A p \in RuleProposals \ raced : (made[p] > 0) <=> (status[p] = "applied")

\* Every card an answer shows can be clicked, whatever else the turn did:
\* the proposals it lists are committed.
ShownIsStored == \A p \in shown : status[p] # "absent"

\* What a person confirms happens once, is recorded as what happened, and
\* every confirmation card has a row behind it.
ProposalsHold == MadeOnce /\ StatusTellsTruth /\ ShownIsStored
=============================================================================
