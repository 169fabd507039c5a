---------------------------- MODULE Conversations ----------------------------
(***************************************************************************)
(* Stored conversations with Gemini (api/chat.py, services/chat_service.py *)
(* and the sequence compiler of api/cameras.py).  A request flushes the    *)
(* person's message, reads the history, charges the budget, calls the      *)
(* model and commits everything at its end, or rolls everything back when  *)
(* it answers with an HTTP error.                                          *)
(***************************************************************************)
EXTENDS Naturals, FiniteSets

CONSTANTS ChatTurns,      \* requests to POST /api/chat
          CompileTurns,   \* requests to POST .../compile-sequence
          Conversation,   \* conversation ids
          MaxTurns        \* SEQUENCE_COMPILER_MAX_TURNS

ASSUME ConversationAssumption ==
    MaxTurns \in Nat \ {0} /\ ChatTurns \cap CompileTurns = {}

Asks == ChatTurns \cup CompileTurns

VARIABLES stored,   \* committed exchanges: [turn, conv, role, text]
          ask,      \* where a request is: [pc, conv]
          crowded,  \* conversations two requests worked on at once
          forced,   \* conversations a request was told to end with a draft
          cutOff    \* conversations that were refused as too long

conversationVars == <<stored, ask, crowded, forced, cutOff>>

InFlight(t) == ask[t].pc \in {"charge", "model"}

Row(t, role, text) == [turn |-> t, conv |-> ask[t].conv, role |-> role, text |-> text]

ConversationInit ==
    /\ stored = {} /\ crowded = {} /\ forced = {} /\ cutOff = {}
    /\ ask = [t \in Asks |-> [pc |-> "idle", conv |-> CHOOSE c \in Conversation : TRUE]]

\* The person's message is flushed and the committed history is read.
BeginRequest(t, c, last) ==
    /\ ask' = [ask EXCEPT ![t] = [pc |-> "charge", conv |-> c]]
    /\ crowded' = IF \E u \in Asks : InFlight(u) /\ ask[u].conv = c
                  THEN crowded \cup {c} ELSE crowded
    /\ forced' = IF last THEN forced \cup {c} ELSE forced
    /\ UNCHANGED stored

BeginChat(t, c) ==
    /\ t \in ChatTurns /\ ask[t].pc = "idle"
    /\ BeginRequest(t, c, FALSE)
    /\ UNCHANGED cutOff

\* A count that looks at the replies of the model and misses a failed one
\* (mutant).
TurnCountOfDrafts(c) ==
    1 + Cardinality({r \in stored : /\ r.conv = c /\ r.text \in {"text", "draft"}
                                    /\ r.role = "assistant" /\ r.turn \in CompileTurns})

\* user_turn_count of the history, the new message included.  Chat requests
\* keep their own purpose and are not counted.
TurnCount(c) ==
    1 + Cardinality({r \in stored : /\ r.conv = c /\ r.role = "user"
                                    /\ r.turn \in CompileTurns})

TooLong(c) == TurnCount(c) > MaxTurns

\* The last turn must produce a draft; one more is refused with 400.
BeginCompile(t, c) ==
    /\ t \in CompileTurns /\ ask[t].pc = "idle"
    /\ IF TooLong(c)
       THEN /\ ask' = [ask EXCEPT ![t].pc = "refused"]
            /\ cutOff' = cutOff \cup {c}
            /\ UNCHANGED <<stored, crowded, forced>>
       ELSE /\ BeginRequest(t, c, TurnCount(c) = MaxTurns)
            /\ UNCHANGED cutOff

\* The request commits the message with its reply.
StoreExchange(t, text) ==
    /\ ask' = [ask EXCEPT ![t].pc = "done"]
    /\ stored' = stored \cup {Row(t, "user", "text"), Row(t, "assistant", text)}

\* The request answers with an error and get_db rolls back.
RollBack(t) ==
    /\ ask' = [ask EXCEPT ![t].pc = "refused"]
    /\ UNCHANGED stored

\* try_charge: granted, or refused -- a 429 in chat, a stored reply in the compiler.
Charge(t) ==
    /\ ask[t].pc = "charge"
    /\ \/ ask' = [ask EXCEPT ![t].pc = "model"] /\ UNCHANGED stored
       \/ IF t \in ChatTurns THEN RollBack(t) ELSE StoreExchange(t, "budget")
    /\ UNCHANGED <<crowded, forced, cutOff>>

ModelReplies(t) ==
    /\ ask[t].pc = "model"
    /\ \E text \in IF t \in ChatTurns THEN {"text"} ELSE {"text", "draft"} :
           StoreExchange(t, text)
    /\ UNCHANGED <<crowded, forced, cutOff>>

\* Gemini fails.  The compiler stores an apology; chat adds its fallback to
\* the session and then raises 503, which rolls it back.
ModelFailed(t) ==
    /\ ask[t].pc = "model"
    /\ IF t \in ChatTurns THEN RollBack(t) ELSE StoreExchange(t, "fallback")
    /\ UNCHANGED <<crowded, forced, cutOff>>

\* DELETE /conversations/{id}: one statement over what is committed.
DeleteConversation(c) ==
    /\ \E r \in stored : r.conv = c
    /\ stored' = {r \in stored : r.conv # c}
    /\ UNCHANGED <<ask, crowded, forced, cutOff>>

ConversationNext ==
    \/ \E t \in Asks, c \in Conversation : BeginChat(t, c) \/ BeginCompile(t, c)
    \/ \E t \in Asks : Charge(t) \/ ModelReplies(t) \/ ModelFailed(t)
    \/ \E c \in Conversation : DeleteConversation(c)

ConversationSpec == ConversationInit /\ [][ConversationNext]_conversationVars

-----------------------------------------------------------------------------
\* History is complete: a stored message has its reply and a reply its
\* message, whatever fails, overlaps or is deleted in between.
InPairs ==
    \A r \in stored : \E s \in stored : s.turn = r.turn /\ s.conv = r.conv /\ s.role # r.role

\* A compiler conversation grows past its limit only by requests that
\* overlapped and counted the same history.
TurnsBounded ==
    \A c \in Conversation :
        Cardinality({r \in stored : r.conv = c /\ r.role = "user" /\ r.turn \in CompileTurns})
            > MaxTurns => c \in crowded

\* Nobody is cut off without a draft: before a conversation is refused as too
\* long, one of its turns was forced to produce one.  Overlapping turns can
\* step over the forced one.
DraftBeforeCutOff == \A c \in cutOff : c \in forced \cup crowded

ConversationsHold == InPairs /\ TurnsBounded /\ DraftBeforeCutOff

\* chat.py:376 "Persist the fallback so the conversation history is
\* consistent, then signal the client": a failed chat turn is in the history.
FallbackKept ==
    [][\A t \in ChatTurns : ModelFailed(t) =>
           \E r \in stored' : r.turn = t /\ r.text = "fallback"]_conversationVars
=============================================================================
