----------------------------- MODULE InstantAlerts -----------------------------
(***************************************************************************)
(* An organisation's WhatsApp contacts and the alert rule kept in step     *)
(* with them (services/whatsapp_alert_service.py, api/settings.py), which  *)
(* an admin may also delete and restore like any rule (api/alerts.py).  A  *)
(* request reads the organisation; its query for the rule first flushes    *)
(* the new contacts, if they differ, and so waits for whoever has written  *)
(* the organisation and not committed.                                     *)
(***************************************************************************)
EXTENDS Integers, FiniteSets

CONSTANTS Edits,         \* contact requests, each made once
          Numbers,       \* phone numbers
          MAX_CONTACTS,
          MaxRules,      \* bound on rules ever created
          MaxAdmin       \* bound on deletions and restorations of rules


VARIABLES contacts,   \* committed whatsapp_alert_contacts: [id, number, enabled]
          namesakes,      \* committed rules of the reserved name: [id, live, enabled, told]
          edit,       \* Edits -> [pc, read, new, seen, made]
          holder,     \* the request that holds the lock of the organisation's row, if any
          admin,      \* deletions and restorations so far
          unlocked    \* an edit that changed no contact wrote the rule

instantVars == <<contacts, namesakes, edit, holder, admin, unlocked>>

Nobody == "nobody"

ASSUME InstantAssumption ==
    MAX_CONTACTS \in Nat /\ MaxRules \in Nat /\ MaxAdmin \in Nat /\ Nobody \notin Edits

NoEdit == [pc |-> "new", read |-> {}, new |-> {}, rule |-> {}]

InstantInit ==
    /\ contacts = {} /\ namesakes = {}
    /\ edit = [x \in Edits |-> NoEdit]
    /\ holder = Nobody /\ admin = 0 /\ unlocked = FALSE

Live == {r \in namesakes : r.live}

-----------------------------------------------------------------------------
(* The requests, each from the contacts it read.                              *)

Decide(x, new) ==
    /\ edit[x].pc = "new"
    /\ edit' = [edit EXCEPT ![x] = [pc |-> "decided", read |-> contacts, new |-> new, rule |-> {}]]
    /\ UNCHANGED <<contacts, namesakes, holder, admin, unlocked>>

\* A contact's id is its request's, and new.
add_contact(x, number) ==
    /\ Cardinality(contacts) < MAX_CONTACTS
    /\ \A c \in contacts : c.number # number
    /\ Decide(x, contacts \cup {[id |-> x, number |-> number, enabled |-> FALSE]})

update_contact(x, c, number, enabled) ==
    /\ c \in contacts
    /\ \A d \in contacts : d.id # c.id => d.number # number
    /\ Decide(x, (contacts \ {c}) \cup {[id |-> c.id, number |-> number, enabled |-> enabled]})

delete_contact(x, c) == c \in contacts /\ Decide(x, contacts \ {c})

\* The autoflush of _sync_alert_rule's query: UPDATE of the organisation's row.
FlushLate(x) ==
    /\ edit[x].pc = "decided"
    /\ edit' = [edit EXCEPT ![x].pc = "flushed"]
    /\ UNCHANGED <<contacts, namesakes, holder, admin, unlocked>>
FlushContacts(x) ==
    /\ edit[x].pc = "decided"
    /\ edit[x].new # edit[x].read => holder = Nobody
    /\ holder' = IF edit[x].new # edit[x].read THEN x ELSE holder
    /\ edit' = [edit EXCEPT ![x].pc = "flushed"]
    /\ UNCHANGED <<contacts, namesakes, admin, unlocked>>

enabled_numbers(S) == {c.number : c \in {d \in S : d.enabled}}

\* Two live rules of the name raise MultipleResultsFound, and the request rolls back.
ReadRule(x) ==
    /\ edit[x].pc = "flushed"
    /\ edit' = [edit EXCEPT ![x].pc = IF Cardinality(Live) > 1 THEN "failed" ELSE "synced", ![x].rule = Live]
    /\ holder' = IF Cardinality(Live) > 1 /\ holder = x THEN Nobody ELSE holder
    /\ UNCHANGED <<contacts, namesakes, admin, unlocked>>

\* The rule as the request leaves it; without a rule and without enabled numbers none is made.
Synced(r, told) == [r EXCEPT !.enabled = (told # {}), !.told = told]
NewRule(told) == [id |-> Cardinality(namesakes) + 1, live |-> TRUE, enabled |-> TRUE, told |-> told]

\* Only what differs from what was read is written at the commit.
Commit(x) ==
    LET e == edit[x]
        told == enabled_numbers(e.new)
    IN  /\ e.pc = "synced"
        /\ e.new # e.read => holder \in {x, Nobody}
        /\ contacts' = IF e.new # e.read THEN e.new ELSE contacts
        /\ \/ \E r \in e.rule : LET s == Synced(r, told) IN
                /\ namesakes' = {IF q.id = r.id /\ s # r THEN [s EXCEPT !.live = q.live] ELSE q : q \in namesakes}
                /\ unlocked' = (unlocked \/ (s # r /\ e.new = e.read))
           \/ e.rule = {} /\ told = {} /\ UNCHANGED <<namesakes, unlocked>>
           \/ /\ e.rule = {} /\ told # {} /\ Cardinality(namesakes) < MaxRules
              /\ namesakes' = namesakes \cup {NewRule(told)}
              /\ unlocked' = (unlocked \/ e.new = e.read)
        /\ edit' = [edit EXCEPT ![x].pc = "done"]
        /\ holder' = IF holder = x THEN Nobody ELSE holder
        /\ UNCHANGED admin

\* DELETE /alerts/rules/{id} and POST /alerts/rules/{id}/restore.
delete_rule(r) ==
    /\ admin < MaxAdmin /\ admin' = admin + 1
    /\ r \in Live /\ namesakes' = (namesakes \ {r}) \cup {[r EXCEPT !.live = FALSE]}
    /\ UNCHANGED <<contacts, edit, holder, unlocked>>
restore_rule(r) ==
    /\ admin < MaxAdmin /\ admin' = admin + 1
    /\ r \in namesakes \ Live /\ namesakes' = (namesakes \ {r}) \cup {[r EXCEPT !.live = TRUE]}
    /\ UNCHANGED <<contacts, edit, holder, unlocked>>

InstantNext ==
    \/ \E x \in Edits :
         \/ \E n \in Numbers : add_contact(x, n)
         \/ \E c \in contacts : \/ delete_contact(x, c)
                                \/ \E n \in Numbers, on \in BOOLEAN : update_contact(x, c, n, on)
         \/ FlushContacts(x) \/ ReadRule(x) \/ Commit(x)
    \/ \E r \in namesakes : delete_rule(r) \/ restore_rule(r)

-----------------------------------------------------------------------------
(* Properties.                                                                *)

\* However edits overlap, the stored contacts are at most four distinct numbers, and
\* as long as no admin touched the rule it is one and tells exactly the enabled
\* numbers: the flush makes a later edit read the rule the earlier one left.  Only an
\* edit that changes no contact takes no lock and may write from an old list.
RuleFollowsContacts ==
    /\ Cardinality(contacts) <= MAX_CONTACTS
    /\ \A c, d \in contacts : c.number = d.number => c = d
    /\ admin = 0 =>
          /\ Cardinality(namesakes) <= 1
          /\ ~unlocked => UNION {r.told : r \in {q \in Live : q.enabled}} = enabled_numbers(contacts)
=============================================================================
