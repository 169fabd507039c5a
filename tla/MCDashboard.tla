---------------------------- MODULE MCDashboard -----------------------------
(***************************************************************************)
(* The instance TLC checks of the modules about people and what the        *)
(* dashboard keeps: sessions, login guards, soft deletion, conversations,  *)
(* the assistant's proposals and digests.  They share no state, so a       *)
(* behaviour picks one of them and stays with it: the states explored are  *)
(* the sum of the parts and not their product.                             *)
(***************************************************************************)
EXTENDS Sessions, LoginGuards, Records, Conversations, Proposals, Digests, TLC

VARIABLE chosen   \* the module this behaviour is of

SiteOfCamera == [c \in Cameras |-> CHOOSE s \in Sites : TRUE]

Parts == {"sessions", "guards", "records", "conversations", "proposals", "digests"}

\* Digests start in many ways, the others in one.
Init == /\ chosen \in Parts
        /\ SessionsInit /\ GuardsInit /\ RecordInit
        /\ ConversationInit /\ ProposalInit /\ DigestInit
        /\ chosen # "digests" => /\ happened = {}
                               /\ wanted = CHOOSE w \in [morning : Mornings, evening : Evenings] : TRUE

others == <<sessionVars, guardVars, recordVars, conversationVars, proposalVars, digestVars>>

Next ==
    /\ chosen' = chosen
    /\ \/ /\ chosen = "sessions" /\ SessionsNext
          /\ UNCHANGED <<guardVars, recordVars, conversationVars, proposalVars, digestVars>>
       \/ /\ chosen = "guards" /\ GuardsNext
          /\ UNCHANGED <<sessionVars, recordVars, conversationVars, proposalVars, digestVars>>
       \/ /\ chosen = "records" /\ RecordNext
          /\ UNCHANGED <<sessionVars, guardVars, conversationVars, proposalVars, digestVars>>
       \/ /\ chosen = "conversations" /\ ConversationNext
          /\ UNCHANGED <<sessionVars, guardVars, recordVars, proposalVars, digestVars>>
       \/ /\ chosen = "proposals" /\ ProposalNext
          /\ UNCHANGED <<sessionVars, guardVars, recordVars, conversationVars, digestVars>>
       \/ /\ chosen = "digests" /\ DigestNext
          /\ UNCHANGED <<sessionVars, guardVars, recordVars, conversationVars, proposalVars>>

Spec == Init /\ [][Next]_<<chosen, others>>

Interchangeable == Permutations(Sids) \cup Permutations(Requests) \cup Permutations(Operators)
=============================================================================
