---------------------------- MODULE RecoveryProofs ---------------------------
(***************************************************************************)
(* No object is left in the bucket that no row points at, for any number   *)
(* of organisations, events and overlapping sweeps.  NothingOrphaned is    *)
(* not inductive: that a commit takes only rows without media has to be    *)
(* known while the transaction is open, and that nothing is uploaded for   *)
(* an event any more once a sweep has seen it.                             *)
(***************************************************************************)
(***************************************************************************)
(* The spend caps hold for any number of calls, sites, costs and caps, and *)
(* whatever the interleaving and the calls that die.  The inductive        *)
(* invariant is LedgerInv.  Only three kinds of step touch a counter: a    *)
(* charge adds one call to its holders, a refund removes one, anything     *)
(* else leaves them as they are; and only a charge can let a call pass.    *)
(***************************************************************************)
(***************************************************************************)
(* The vision client's breaker closes when it was meant to (BreakerInv     *)
(* counts what can still fail while it is open), and the capacity of a box *)
(* moves by the agreement of its readings (LoadInv ties the streaks to     *)
(* them).  That frames are analysed again and that the capacity comes to   *)
(* rest, the other halves of those properties, are liveness.               *)
(***************************************************************************)
EXTENDS Retention, SpendCap, VisionCalls, LoadShedding, FiniteSetTheorems, TLAPS

-----------------------------------------------------------------------------
(* Retention.                                                               *)

SweepRecords == [at : Nat, orgs : SUBSET {OrgOrder[i] : i \in DOMAIN OrgOrder},
                 batch : SUBSET Events, kept : SUBSET Events,
                 purged : SUBSET Events, aborted : BOOLEAN]

RetentionTypes ==
    /\ age \in [Events -> {"absent", "recent", "expired"}]
    /\ row \subseteq Events
    /\ media \in [Events -> SUBSET Objects]
    /\ window \subseteq {OrgOrder[i] : i \in DOMAIN OrgOrder}
    /\ sweep \in [Sweeps -> SweepRecords]

\* What a sweep has taken into a batch, or deleted, is there already.
TakenAreOld ==
    /\ \A e \in row : age[e] # "absent"
    /\ \A p \in Sweeps : \A e \in sweep[p].batch \cup sweep[p].purged : age[e] # "absent"

PurgedIsEmpty == \A p \in Sweeps : \A e \in sweep[p].purged : media[e] = {}

RetentionInv == RetentionTypes /\ TakenAreOld /\ PurgedIsEmpty /\ NothingOrphaned

LEMMA RetentionInit_Inv == RetentionInit => RetentionInv
<1> SUFFICES ASSUME RetentionInit PROVE RetentionInv
  OBVIOUS
<1> USE DEF RetentionInit
<1>1. NoSweep \in SweepRecords /\ NoSweep.batch = {} /\ NoSweep.purged = {}
  BY DEF NoSweep, SweepRecords
<1>2. RetentionTypes
  BY <1>1 DEF RetentionTypes
<1>3. TakenAreOld /\ PurgedIsEmpty /\ NothingOrphaned
  BY <1>1 DEF TakenAreOld, PurgedIsEmpty, NothingOrphaned
<1>4. QED BY <1>2, <1>3 DEF RetentionInv

\* A step of the sweep that leaves the media and the rows alone: it may change what
\* it has in its batch, and add to what it purged events whose media is gone.
LEMMA SweepMovesOn ==
    ASSUME RetentionInv, NEW p \in Sweeps, NEW STATE s, s \in SweepRecords,
           UNCHANGED <<age, row, media, window>>,
           sweep' = [sweep EXCEPT ![p] = s],
           \A e \in s.batch \cup s.purged : age[e] # "absent",
           \A e \in s.purged : media[e] = {}
    PROVE  RetentionInv'
<1> USE DEF RetentionInv, RetentionTypes
<1>1. RetentionTypes'
  OBVIOUS
<1>2. sweep'[p] = s /\ \A q \in Sweeps : q # p => sweep'[q] = sweep[q]
  OBVIOUS
<1>3. TakenAreOld'
  BY <1>2 DEF TakenAreOld
<1>4. PurgedIsEmpty'
  BY <1>2 DEF PurgedIsEmpty
<1>5. NothingOrphaned'
  BY DEF NothingOrphaned
<1>6. QED BY <1>1, <1>3, <1>4, <1>5

LEMMA SweepStep_Inv == ASSUME RetentionInv, NEW p \in Sweeps, SweepStep(p) PROVE RetentionInv'
<1> DEFINE s == sweep[p]
<1>0. /\ s \in SweepRecords
      /\ \A e \in s.batch \cup s.purged : age[e] # "absent"
      /\ \A e \in s.purged : media[e] = {}
  BY DEF RetentionInv, RetentionTypes, TakenAreOld, PurgedIsEmpty
<1>1. CASE BeginSweep(p)
  <2>1. /\ [NoSweep EXCEPT !.at = 1, !.orgs = window] \in SweepRecords
        /\ [NoSweep EXCEPT !.at = 1, !.orgs = window].batch = {}
        /\ [NoSweep EXCEPT !.at = 1, !.orgs = window].purged = {}
    BY DEF NoSweep, SweepRecords, RetentionInv, RetentionTypes
  <2>2. QED BY <1>1, <2>1, SweepMovesOn DEF BeginSweep, Update
<1>2. CASE SkipOrg(p)
  <2>1. /\ [s EXCEPT !.at = @ + 1] \in SweepRecords
        /\ [s EXCEPT !.at = @ + 1].batch = s.batch /\ [s EXCEPT !.at = @ + 1].purged = s.purged
    BY <1>0 DEF SweepRecords
  <2>2. QED BY <1>0, <1>2, <2>1, SweepMovesOn DEF SkipOrg, Update
<1>3. CASE SelectExpired(p)
  <2> DEFINE b == Oldest(ExpiredOf(p, Current(p)))
  <2>1. b \subseteq Events /\ \A e \in b : age[e] # "absent"
    BY DEF Oldest, ExpiredOf, RetentionInv, RetentionTypes
  <2> HIDE DEF b
  <2>2. /\ [s EXCEPT !.batch = b, !.kept = {}] \in SweepRecords
        /\ [s EXCEPT !.batch = b, !.kept = {}].batch = b
        /\ [s EXCEPT !.batch = b, !.kept = {}].purged = s.purged
    BY <1>0, <2>1 DEF SweepRecords
  <2>3. sweep' = [sweep EXCEPT ![p] = [s EXCEPT !.batch = b, !.kept = {}]]
        /\ UNCHANGED <<age, row, media, alerted, window>>
    BY <1>3 DEF SelectExpired, Update, b
  <2>4. QED BY <1>0, <2>1, <2>2, <2>3, SweepMovesOn
<1>4. ASSUME NEW e \in Events, DeleteMedia(p, e) PROVE RetentionInv'
  <2>1. PICK kept \in SUBSET media[e] :
           /\ media' = [media EXCEPT ![e] = kept]
           /\ sweep' = [sweep EXCEPT ![p] = IF kept = {} THEN s ELSE [s EXCEPT !.kept = @ \cup {e}]]
           /\ UNCHANGED <<age, row, window>>
    BY <1>4 DEF DeleteMedia, Update
  <2>2. [s EXCEPT !.kept = @ \cup {e}] \in SweepRecords
    BY <1>0, <1>4 DEF SweepRecords
  <2>3. RetentionTypes'
    BY <1>0, <2>1, <2>2 DEF RetentionInv, RetentionTypes
  <2>4. \A q \in Sweeps : sweep'[q].batch = sweep[q].batch /\ sweep'[q].purged = sweep[q].purged
    BY <1>0, <2>1 DEF RetentionInv, RetentionTypes, SweepRecords
  <2>5. \A f \in Events : media'[f] \subseteq media[f]
    BY <2>1 DEF RetentionInv, RetentionTypes
  <2>6. TakenAreOld'
    BY <2>1, <2>4 DEF RetentionInv, TakenAreOld
  <2>7. PurgedIsEmpty'
    BY <2>4, <2>5 DEF RetentionInv, RetentionTypes, SweepRecords, PurgedIsEmpty
  <2>8. NothingOrphaned'
    BY <2>1, <2>5 DEF RetentionInv, NothingOrphaned
  <2>9. QED BY <2>3, <2>6, <2>7, <2>8 DEF RetentionInv
<1>5. CASE DeleteRows(p)
  <2> DEFINE ids == s.batch \ s.kept
             next == [s EXCEPT !.batch = {}, !.at = @ + 1]
  <2>0. /\ next \in SweepRecords /\ next.batch = {} /\ next.purged = s.purged
        /\ ids \subseteq Events
    <3>1. s.batch \subseteq Events /\ s.at + 1 \in Nat
      BY <1>0 DEF SweepRecords
    <3>2. next \in SweepRecords
      BY <1>0, <3>1, Zenon DEF SweepRecords
    <3>3. next.batch = {} /\ next.purged = s.purged
      BY <1>0 DEF SweepRecords
    <3>4. QED BY <3>1, <3>2, <3>3
  <2> HIDE DEF next
  <2>1. /\ [next EXCEPT !.aborted = TRUE] \in SweepRecords
        /\ [next EXCEPT !.aborted = TRUE].batch = {}
        /\ [next EXCEPT !.aborted = TRUE].purged = s.purged
    <3>1. [next EXCEPT !.aborted = TRUE] \in SweepRecords
      BY <2>0, Zenon DEF SweepRecords
    <3>2. /\ [next EXCEPT !.aborted = TRUE].batch = {}
          /\ [next EXCEPT !.aborted = TRUE].purged = s.purged
      BY <2>0 DEF SweepRecords
    <3>3. QED BY <3>1, <3>2
  <2>2. /\ [next EXCEPT !.purged = @ \cup ids] \in SweepRecords
        /\ [next EXCEPT !.purged = @ \cup ids].batch = {}
        /\ [next EXCEPT !.purged = @ \cup ids].purged = s.purged \cup ids
    BY <2>0 DEF SweepRecords
  <2>3. /\ \A e \in ids : media[e] = {} /\ age[e] # "absent"
        /\ UNCHANGED <<age, row, media, window>>
    BY <1>0, <1>5 DEF DeleteRows
  <2>4. \/ sweep' = [sweep EXCEPT ![p] = [next EXCEPT !.aborted = TRUE]]
        \/ sweep' = [sweep EXCEPT ![p] = [next EXCEPT !.purged = @ \cup ids]]
    <3>1. CASE ids \cap alerted \cap row # {}
      BY <1>5, <3>1 DEF DeleteRows, Update, next
    <3>2. CASE ~(ids \cap alerted \cap row # {})
      BY <1>5, <3>2 DEF DeleteRows, Update, next
    <3>3. QED BY <3>1, <3>2
  <2> HIDE DEF ids
  <2>5. CASE sweep' = [sweep EXCEPT ![p] = [next EXCEPT !.aborted = TRUE]]
    BY <1>0, <2>1, <2>3, <2>5, SweepMovesOn
  <2>6. CASE sweep' = [sweep EXCEPT ![p] = [next EXCEPT !.purged = @ \cup ids]]
    BY <1>0, <2>2, <2>3, <2>6, SweepMovesOn
  <2>7. QED BY <2>4, <2>5, <2>6
<1>6. CASE EndSweep(p)
  <2>1. /\ sweep' = [sweep EXCEPT ![p] = NoSweep]
        /\ row' = row \/ row' = row \ s.purged
        /\ UNCHANGED <<age, media, window>>
    BY <1>6 DEF EndSweep, Update
  <2>2. NoSweep \in SweepRecords /\ NoSweep.batch = {} /\ NoSweep.purged = {}
    BY DEF NoSweep, SweepRecords
  <2>3. RetentionTypes'
    BY <2>1, <2>2 DEF RetentionInv, RetentionTypes
  <2>4. sweep'[p] = NoSweep /\ \A q \in Sweeps : q # p => sweep'[q] = sweep[q]
    BY <2>1 DEF RetentionInv, RetentionTypes
  <2>5. TakenAreOld' /\ PurgedIsEmpty'
    BY <2>1, <2>2, <2>4 DEF RetentionInv, TakenAreOld, PurgedIsEmpty
  <2>6. NothingOrphaned'
    BY <1>0, <2>1 DEF RetentionInv, NothingOrphaned
  <2>7. QED BY <2>3, <2>5, <2>6 DEF RetentionInv
<1>7. QED BY <1>1, <1>2, <1>3, <1>4, <1>5, <1>6 DEF SweepStep

LEMMA RetentionNext_Inv ==
    ASSUME RetentionInv, [RetentionNext]_retentionVars PROVE RetentionInv'
<1> USE DEF RetentionInv
<1>1. ASSUME NEW e \in Events, Ingest(e) PROVE RetentionInv'
  <2>1. PICK m \in SUBSET Objects : media' = [media EXCEPT ![e] = m]
    BY <1>1 DEF Ingest
  <2>2. /\ age[e] = "absent" /\ age' = [age EXCEPT ![e] = "recent"]
        /\ row' = row \cup {e} /\ UNCHANGED <<window, sweep>>
    BY <1>1 DEF Ingest
  <2>3. RetentionTypes'
    BY <2>1, <2>2 DEF RetentionTypes
  <2>4. TakenAreOld'
    BY <2>2 DEF RetentionTypes, TakenAreOld, SweepRecords
  <2>5. \A p \in Sweeps : e \notin sweep[p].purged
    BY <2>2 DEF TakenAreOld
  <2>6. PurgedIsEmpty'
    BY <2>1, <2>2, <2>5 DEF RetentionTypes, SweepRecords, PurgedIsEmpty
  <2>7. NothingOrphaned'
    BY <2>1, <2>2 DEF RetentionTypes, NothingOrphaned
  <2>8. QED BY <2>3, <2>4, <2>6, <2>7
<1>2. ASSUME NEW e \in Events, Expire(e) PROVE RetentionInv'
  <2>1. /\ age' = [age EXCEPT ![e] = "expired"] /\ UNCHANGED <<row, media, window, sweep>>
    BY <1>2 DEF Expire
  <2>2. RetentionTypes'
    BY <2>1 DEF RetentionTypes
  <2>3. TakenAreOld'
    BY <2>1 DEF RetentionTypes, TakenAreOld, SweepRecords
  <2>4. PurgedIsEmpty' /\ NothingOrphaned'
    BY <2>1 DEF PurgedIsEmpty, NothingOrphaned
  <2>5. QED BY <2>2, <2>3, <2>4
<1>3. ASSUME UNCHANGED <<age, row, media, sweep>>,
             window' \subseteq {OrgOrder[i] : i \in DOMAIN OrgOrder}
      PROVE  RetentionInv'
  BY <1>3 DEF RetentionTypes, TakenAreOld, PurgedIsEmpty, NothingOrphaned
<1>4. ASSUME NEW e \in Events, RecordAlert(e) PROVE RetentionInv'
  BY <1>3, <1>4 DEF RecordAlert, RetentionTypes
<1>5. ASSUME NEW o \in {OrgOrder[i] : i \in DOMAIN OrgOrder}, SetWindow(o) PROVE RetentionInv'
  <2>1. window' \subseteq {OrgOrder[i] : i \in DOMAIN OrgOrder}
    BY <1>5 DEF SetWindow, RetentionTypes
  <2>2. QED BY <1>3, <1>5, <2>1 DEF SetWindow
<1>6. ASSUME NEW p \in Sweeps, SweepStep(p) PROVE RetentionInv'
  BY <1>6, SweepStep_Inv
<1>7. CASE UNCHANGED retentionVars
  BY <1>3, <1>7 DEF retentionVars, RetentionTypes
<1>8. QED BY <1>1, <1>2, <1>4, <1>5, <1>6, <1>7 DEF RetentionNext

\* Whatever fails in the bucket or in the database and however sweeps overlap, media
\* is deleted before its row: no object stays behind without one (retention.py purge_org).
THEOREM NoMediaOrphaned == RetentionSpec => []NothingOrphaned
<1>1. RetentionInv /\ [RetentionNext]_retentionVars => RetentionInv'
  BY RetentionNext_Inv
<1>2. RetentionInv => NothingOrphaned
  BY DEF RetentionInv
<1>3. QED BY RetentionInit_Inv, <1>1, <1>2, PTL DEF RetentionSpec

-----------------------------------------------------------------------------
(* SpendCap.                                                                *)

(***************************************************************************)
(* Amounts of money.                                                       *)
(***************************************************************************)
LEMMA CoinsCount ==
  ASSUME SpendAssumption, NEW c \in Calls
  PROVE  IsFiniteSet(Coins(c)) /\ Cardinality(Coins(c)) = Cost[c]
<1>1. Cost[c] \in Nat \ {0}
  BY DEF SpendAssumption
<1>2. IsFiniteSet(1 .. Cost[c]) /\ Cardinality(1 .. Cost[c]) = Cost[c]
  BY <1>1, FS_Interval
<1>3. IsFiniteSet({c}) /\ Cardinality({c}) = 1
  BY FS_Singleton
<1>4. IsFiniteSet(Coins(c)) /\ Cardinality(Coins(c)) = Cardinality({c}) * Cardinality(1 .. Cost[c])
  BY <1>2, <1>3, FS_Product DEF Coins
<1>5. QED BY <1>1, <1>2, <1>3, <1>4

LEMMA MoneyFinite ==
  ASSUME SpendAssumption, NEW C \in SUBSET Calls
  PROVE  IsFiniteSet(Money(C)) /\ Amount(C) \in Nat
<1> DEFINE purses == {Coins(c) : c \in C}
           purse == [c \in C |-> Coins(c)]
<1>1. IsFiniteSet(C)
  BY FS_Subset DEF SpendAssumption
<1>2. purse \in Surjection(C, purses)
  BY DEF Surjection
<1>3. IsFiniteSet(purses)
  BY <1>1, <1>2, FS_Surjection
<1>4. \A P \in purses : IsFiniteSet(P)
  BY CoinsCount
<1>5. IsFiniteSet(UNION purses)
  BY <1>3, <1>4, FS_UNION
<1>6. QED BY <1>5, FS_CardinalityType DEF Money, Amount

LEMMA AmountEmpty ==
  Amount({}) = 0
BY FS_EmptySet DEF Amount, Money

LEMMA AmountMonotone ==
  ASSUME SpendAssumption, NEW D \in SUBSET Calls, NEW C \in SUBSET D
  PROVE  Amount(C) <= Amount(D)
<1>1. Money(C) \subseteq Money(D)
  BY DEF Money
<1>2. QED BY <1>1, MoneyFinite, FS_Subset DEF Amount

LEMMA AmountAdd ==
  ASSUME SpendAssumption, NEW C \in SUBSET Calls, NEW c \in Calls, c \notin C
  PROVE  Amount(C \cup {c}) = Amount(C) + Cost[c]
<1>1. Money(C \cup {c}) = Money(C) \cup Coins(c)
  BY DEF Money
<1>2. Money(C) \cap Coins(c) = {}
  BY DEF Money, Coins
<1>3. IsFiniteSet(Money(C)) /\ Cardinality(Money(C)) \in Nat
  BY MoneyFinite DEF Amount
<1>4. Cardinality(Money(C) \cup Coins(c)) =
        Cardinality(Money(C)) + Cardinality(Coins(c)) - Cardinality(Money(C) \cap Coins(c))
  BY <1>3, CoinsCount, FS_Union
<1>5. Cost[c] \in Nat /\ Cardinality(Coins(c)) = Cost[c]
  BY CoinsCount DEF SpendAssumption
<1>6. Cardinality(Money(C) \cap Coins(c)) = 0
  BY <1>2, FS_EmptySet
<1>7. Cardinality(Money(C) \cup Coins(c)) = Cardinality(Money(C)) + Cost[c]
  BY <1>3, <1>4, <1>5, <1>6
<1>8. QED BY <1>1, <1>7 DEF Amount

LEMMA AmountRemove ==
  ASSUME SpendAssumption, NEW C \in SUBSET Calls, NEW c \in C
  PROVE  Amount(C \ {c}) = Amount(C) - Cost[c]
<1>1. (C \ {c}) \cup {c} = C
  OBVIOUS
<1>2. Amount(C) = Amount(C \ {c}) + Cost[c]
  BY <1>1, AmountAdd
<1>3. Amount(C \ {c}) \in Nat /\ Cost[c] \in Nat
  BY MoneyFinite DEF SpendAssumption
<1>4. QED BY <1>2, <1>3

(***************************************************************************)
(* Who holds a charge, and who passed a cap, after each kind of step.      *)
(***************************************************************************)
LEMMA HoldersAreCalls ==
  /\ OnOrg \in SUBSET Calls /\ OrgPassed \in SUBSET OnOrg
  /\ \A s : /\ OnSite(s) \in SUBSET Calls
            /\ SitePassed(s) \in SUBSET OnSite(s)
BY DEF OnOrg, OrgPassed, OnSite, SitePassed

(* A charge on counter k: one holder more, everything else as it was. *)
Charged(c, k) ==
    /\ Increment(c, k)
    /\ c \notin Holders(k)
    /\ Holders(k)' = Holders(k) \cup {c}
    /\ \A other \in Counters \ {k} : Holders(other)' = Holders(other)

(* A refund. *)
Refunded(c, k) ==
    /\ TakeBack(c, k)
    /\ c \in Holders(k)
    /\ Holders(k)' = Holders(k) \ {c}
    /\ \A other \in Counters \ {k} : Holders(other)' = Holders(other)

LEMMA ChargeKeepsExact ==
  ASSUME SpendAssumption, TypeOK, CountersExact,
         NEW c \in Calls, NEW k \in Counters, Charged(c, k)
  PROVE  CountersExact' /\ spent'[k] = Amount(Holders(k)') /\ total'[c] = spent'[k]
<1>1. spent \in [Counters -> Int] /\ total \in [Calls -> Int]
  BY DEF TypeOK
<1>2. Holders(k) \in SUBSET Calls
  BY HoldersAreCalls DEF Holders
<1>3. spent'[k] = spent[k] + Cost[c] /\ total'[c] = spent[k] + Cost[c]
  BY <1>1 DEF Charged, Increment
<1>4. spent[k] = Amount(Holders(k))
  BY DEF CountersExact
<1>5. spent'[k] = Amount(Holders(k)')
  BY <1>2, <1>3, <1>4, AmountAdd DEF Charged
<1>6. ASSUME NEW other \in Counters, other # k
      PROVE  spent'[other] = Amount(Holders(other)')
  BY <1>1, <1>6 DEF Charged, Increment, CountersExact
<1>7. QED BY <1>3, <1>5, <1>6 DEF CountersExact, Amount, Money, Coins

LEMMA RefundKeepsExact ==
  ASSUME SpendAssumption, TypeOK, CountersExact,
         NEW c \in Calls, NEW k \in Counters, Refunded(c, k)
  PROVE  CountersExact'
<1>1. spent \in [Counters -> Int]
  BY DEF TypeOK
<1>2. Holders(k) \in SUBSET Calls
  BY HoldersAreCalls DEF Holders
<1>3. spent'[k] = spent[k] - Cost[c]
  BY <1>1 DEF Refunded, TakeBack
<1>4. spent'[k] = Amount(Holders(k)')
  BY <1>2, <1>3, AmountRemove DEF Refunded, CountersExact
<1>5. ASSUME NEW other \in Counters, other # k
      PROVE  spent'[other] = Amount(Holders(other)')
  BY <1>1, <1>5 DEF Refunded, TakeBack, CountersExact
<1>6. QED BY <1>4, <1>5 DEF CountersExact, Amount, Money, Coins

(***************************************************************************)
(* What each action of try_charge does to the holders.                     *)
(***************************************************************************)
LEMMA ChargeSiteCharges ==
  ASSUME SpendAssumption, TypeOK, NEW c \in Calls, ChargeSite(c)
  PROVE  SiteOf[c] \in Sites /\ Charged(c, SiteOf[c])
<1>1. SiteOf[c] \in Sites /\ SiteOf[c] # Org
  BY DEF SpendAssumption, ChargeSite, SiteCharged
<1>2. stage[c] = "new" /\ stage' = [stage EXCEPT ![c] = "site"] /\ stage \in [Calls -> Stages]
  BY DEF ChargeSite, Goto, TypeOK
<1>3. Holders(SiteOf[c]) = OnSite(SiteOf[c]) /\ Holders(SiteOf[c])' = OnSite(SiteOf[c])'
  BY <1>1 DEF Holders
<1>4. c \notin OnSite(SiteOf[c]) /\ OnSite(SiteOf[c])' = OnSite(SiteOf[c]) \cup {c}
  BY <1>1, <1>2 DEF OnSite
<1>5. OnOrg' = OnOrg
  BY <1>2 DEF OnOrg
<1>6. \A s \in Sites \ {SiteOf[c]} : OnSite(s)' = OnSite(s)
  BY <1>2 DEF OnSite
<1>7. \A k \in Counters \ {SiteOf[c]} : Holders(k)' = Holders(k)
  BY <1>5, <1>6 DEF Counters, Holders
<1>8. QED BY <1>1, <1>3, <1>4, <1>7 DEF Charged, ChargeSite

LEMMA ChargeOrgCharges ==
  ASSUME SpendAssumption, TypeOK, NEW c \in Calls, ChargeOrg(c)
  PROVE  Charged(c, Org)
<1>1. /\ stage[c] \in {"new", "site"}
      /\ stage[c] = "new" => ~SiteCharged(c)
      /\ stage' = [stage EXCEPT ![c] = "org"] /\ stage \in [Calls -> Stages]
  BY DEF ChargeOrg, Goto, TypeOK
<1>2. c \notin OnOrg /\ OnOrg' = OnOrg \cup {c}
  BY <1>1 DEF OnOrg
<1>3. \A s \in Sites : OnSite(s)' = OnSite(s)
  BY <1>1 DEF OnSite, SiteCharged, SpendAssumption
<1>4. \A k \in Counters \ {Org} : Holders(k)' = Holders(k)
  BY <1>3 DEF Counters, Holders
<1>5. QED BY <1>2, <1>4 DEF Charged, ChargeOrg, Holders

LEMMA RefuseSiteRefunds ==
  ASSUME SpendAssumption, TypeOK, NEW c \in Calls, RefuseSite(c) \/ RefundSite(c)
  PROVE  SiteOf[c] \in Sites /\ Refunded(c, SiteOf[c])
<1>1. /\ stage[c] \in {"site", "refund"} /\ TakeBack(c, SiteOf[c])
      /\ stage' = [stage EXCEPT ![c] = "refused"] /\ stage \in [Calls -> Stages]
  BY DEF RefuseSite, RefundSite, Goto, TypeOK
<1>2. SiteOf[c] \in Sites /\ SiteOf[c] # Org
  BY <1>1 DEF TypeOK, SiteCharged, SpendAssumption
<1>3. Holders(SiteOf[c]) = OnSite(SiteOf[c]) /\ Holders(SiteOf[c])' = OnSite(SiteOf[c])'
  BY <1>2 DEF Holders
<1>4. c \in OnSite(SiteOf[c]) /\ OnSite(SiteOf[c])' = OnSite(SiteOf[c]) \ {c}
  BY <1>1, <1>2 DEF OnSite
<1>5. OnOrg' = OnOrg
  BY <1>1 DEF OnOrg
<1>6. \A s \in Sites \ {SiteOf[c]} : OnSite(s)' = OnSite(s)
  BY <1>1 DEF OnSite
<1>7. \A k \in Counters \ {SiteOf[c]} : Holders(k)' = Holders(k)
  BY <1>5, <1>6 DEF Counters, Holders
<1>8. QED BY <1>1, <1>2, <1>3, <1>4, <1>7 DEF Refunded

LEMMA RefuseOrgRefunds ==
  ASSUME SpendAssumption, TypeOK, NEW c \in Calls, RefuseOrg(c)
  PROVE  Refunded(c, Org)
<1>1. /\ stage[c] = "org" /\ stage \in [Calls -> Stages]
      /\ stage' = [stage EXCEPT ![c] = IF SiteCharged(c) THEN "refund" ELSE "refused"]
  BY DEF RefuseOrg, Goto, TypeOK
<1>2. c \in OnOrg /\ OnOrg' = OnOrg \ {c}
  BY <1>1 DEF OnOrg
<1>3. \A s \in Sites : OnSite(s)' = OnSite(s)
  <2>1. CASE SiteCharged(c)
    BY <1>1, <2>1 DEF OnSite
  <2>2. CASE ~SiteCharged(c)
    BY <1>1, <2>2 DEF OnSite, SiteCharged, SpendAssumption
  <2>3. QED BY <2>1, <2>2
<1>4. \A k \in Counters \ {Org} : Holders(k)' = Holders(k)
  BY <1>3 DEF Counters, Holders
<1>5. QED BY <1>2, <1>4 DEF Refunded, RefuseOrg, Holders

LEMMA QuietKeepsHolders ==
  ASSUME SpendAssumption, TypeOK, NEW c \in Calls, Grant(c) \/ Abort(c)
  PROVE  spent' = spent /\ total' = total /\ \A k \in Counters : Holders(k)' = Holders(k)
<1>1. spent' = spent /\ total' = total /\ stage \in [Calls -> Stages]
  BY DEF Grant, Abort, TypeOK
<1>2. \/ stage[c] = "org" /\ stage' = [stage EXCEPT ![c] = "granted"]
      \/ stage[c] \in {"site", "refund"} /\ stage' = [stage EXCEPT ![c] = "lost_site"]
      \/ stage[c] = "org" /\ stage' = [stage EXCEPT ![c] = "lost_org"]
  BY DEF Grant, Abort, Goto
<1>3. OnOrg' = OnOrg
  BY <1>1, <1>2 DEF OnOrg
<1>4. \A s \in Sites : OnSite(s)' = OnSite(s)
  BY <1>1, <1>2 DEF OnSite
<1>5. QED BY <1>1, <1>3, <1>4 DEF Holders, Counters

(***************************************************************************)
(* The conjuncts of LedgerInv, step by step.                               *)
(***************************************************************************)
LEMMA TypeStep ==
  ASSUME SpendAssumption, TypeOK, NEW c \in Calls, Proceed(c) \/ Abort(c)
  PROVE  TypeOK'
<1> USE DEF TypeOK, Goto, Stages
<1>0. Cost[c] \in Int /\ Org \in Counters /\ (SiteCharged(c) => SiteOf[c] \in Counters)
  BY DEF SpendAssumption, Counters, SiteCharged
<1>1. CASE ChargeSite(c)
  BY <1>0, <1>1 DEF ChargeSite, Increment, SiteCharged
<1>2. CASE RefuseSite(c) \/ RefundSite(c)
  BY <1>0, <1>2 DEF RefuseSite, RefundSite, TakeBack, SiteCharged
<1>3. CASE ChargeOrg(c)
  BY <1>0, <1>3 DEF ChargeOrg, Increment, SiteCharged
<1>4. CASE RefuseOrg(c)
  BY <1>0, <1>4 DEF RefuseOrg, TakeBack, SiteCharged
<1>5. CASE Grant(c)
  BY <1>5 DEF Grant, SiteCharged
<1>6. CASE Abort(c)
  <2>1. spent' = spent /\ total' = total
    BY <1>6 DEF Abort
  <2>2. CASE stage[c] \in {"site", "refund"} /\ Goto(c, "lost_site")
    BY <2>1, <2>2 DEF SiteCharged
  <2>3. CASE stage[c] = "org" /\ Goto(c, "lost_org")
    BY <2>1, <2>3 DEF SiteCharged
  <2>4. QED BY <1>6, <2>2, <2>3 DEF Abort
<1>7. QED BY <1>1, <1>2, <1>3, <1>4, <1>5, <1>6 DEF Proceed

LEMMA ExactStep ==
  ASSUME SpendAssumption, TypeOK, CountersExact, NEW c \in Calls, Proceed(c) \/ Abort(c)
  PROVE  CountersExact'
<1>0. Org \in Counters /\ Sites \subseteq Counters
  BY DEF Counters
<1>1. CASE ChargeSite(c)
  BY <1>0, <1>1, ChargeSiteCharges, ChargeKeepsExact
<1>2. CASE ChargeOrg(c)
  BY <1>0, <1>2, ChargeOrgCharges, ChargeKeepsExact
<1>3. CASE RefuseSite(c) \/ RefundSite(c)
  BY <1>0, <1>3, RefuseSiteRefunds, RefundKeepsExact
<1>4. CASE RefuseOrg(c)
  BY <1>0, <1>4, RefuseOrgRefunds, RefundKeepsExact
<1>5. CASE Grant(c) \/ Abort(c)
  BY <1>5, QuietKeepsHolders DEF CountersExact, Amount, Money, Coins
<1>6. QED BY <1>1, <1>2, <1>3, <1>4, <1>5 DEF Proceed

(* Only a charge to the organisation lets a call pass the organisation's cap, *)
(* and then everybody who passed is counted in the total it saw.             *)
LEMMA OrgPassedStep ==
  ASSUME SpendAssumption, LedgerInv, NEW c \in Calls, Proceed(c) \/ Abort(c)
  PROVE  Amount(OrgPassed)' <= OrgCap
<1>0. TypeOK /\ CountersExact /\ Amount(OrgPassed) <= OrgCap
  BY DEF LedgerInv
<1>1. stage \in [Calls -> Stages] /\ total \in [Calls -> Int]
  BY <1>0 DEF TypeOK
<1>2. Amount(OrgPassed)' = Amount(OrgPassed') /\ OrgPassed \in SUBSET Calls /\ OrgPassed' \in SUBSET Calls
  BY DEF Amount, Money, Coins, OrgPassed
<1>3. Amount(OrgPassed) \in Nat /\ Amount(OrgPassed') \in Nat /\ OrgCap \in Nat
  BY <1>2, MoneyFinite DEF SpendAssumption
<1>4. ASSUME OrgPassed' \subseteq OrgPassed
      PROVE  Amount(OrgPassed') <= OrgCap
  <2>1. Amount(OrgPassed') <= Amount(OrgPassed)
    BY <1>2, <1>4, AmountMonotone
  <2>2. QED BY <1>0, <1>3, <2>1
<1>5. CASE ChargeOrg(c)
  <2>1. /\ stage' = [stage EXCEPT ![c] = "org"]
        /\ total' = [total EXCEPT ![c] = spent[Org] + Cost[c]]
        /\ stage[c] \in {"new", "site"}
    BY <1>5 DEF ChargeOrg, Goto, Increment
  <2>2. CASE total'[c] <= OrgCap
    <3>1. Org \in Counters
      BY DEF Counters
    <3>2. spent'[Org] = Amount(Holders(Org)') /\ total'[c] = spent'[Org]
      BY <1>0, <1>5, <3>1, ChargeOrgCharges, ChargeKeepsExact
    <3>3. Holders(Org)' \in SUBSET Calls /\ OrgPassed' \in SUBSET Holders(Org)'
      BY DEF Holders, OnOrg, OrgPassed
    <3>4. Amount(OrgPassed') <= Amount(Holders(Org)')
      BY <3>3, AmountMonotone
    <3>5. Amount(Holders(Org)') \in Nat
      BY <3>3, MoneyFinite
    <3>6. QED BY <1>2, <1>3, <2>2, <3>2, <3>4, <3>5
  <2>3. CASE ~(total'[c] <= OrgCap)
    <3>1. OrgPassed' \subseteq OrgPassed
      BY <1>1, <2>1, <2>3 DEF OrgPassed
    <3>2. QED BY <1>2, <1>4, <3>1
  <2>4. QED BY <2>2, <2>3
<1>6. CASE ChargeSite(c)
  <2>1. OrgPassed' \subseteq OrgPassed
    BY <1>1, <1>6 DEF OrgPassed, ChargeSite, Goto, Increment
  <2>2. QED BY <1>2, <1>4, <2>1
<1>7. CASE RefuseSite(c) \/ RefundSite(c) \/ RefuseOrg(c) \/ Abort(c)
  <2>1. OrgPassed' \subseteq OrgPassed
    BY <1>1, <1>7 DEF OrgPassed, RefuseSite, RefundSite, RefuseOrg, Abort, Goto, TakeBack
  <2>2. QED BY <1>2, <1>4, <2>1
<1>8. CASE Grant(c)
  <2>1. OrgPassed' \subseteq OrgPassed
    BY <1>1, <1>8 DEF OrgPassed, Grant, Goto
  <2>2. QED BY <1>2, <1>4, <2>1
<1>9. QED BY <1>5, <1>6, <1>7, <1>8 DEF Proceed

(* The same for a site's cap, which only a charge to that site can pass. *)
LEMMA SitePassedStep ==
  ASSUME SpendAssumption, LedgerInv, NEW c \in Calls, Proceed(c) \/ Abort(c), NEW s \in Sites
  PROVE  Amount(SitePassed(s))' <= SiteCap
<1>0. TypeOK /\ CountersExact /\ Amount(SitePassed(s)) <= SiteCap
  BY DEF LedgerInv
<1>1. stage \in [Calls -> Stages] /\ total \in [Calls -> Int]
  BY <1>0 DEF TypeOK
<1>2. /\ Amount(SitePassed(s))' = Amount(SitePassed(s)')
      /\ SitePassed(s) \in SUBSET Calls /\ SitePassed(s)' \in SUBSET Calls
  BY DEF Amount, Money, Coins, SitePassed
<1>3. Amount(SitePassed(s)) \in Nat /\ Amount(SitePassed(s)') \in Nat /\ SiteCap \in Nat
  BY <1>2, MoneyFinite DEF SpendAssumption
<1>4. ASSUME SitePassed(s)' \subseteq SitePassed(s)
      PROVE  Amount(SitePassed(s)') <= SiteCap
  <2>1. Amount(SitePassed(s)') <= Amount(SitePassed(s))
    BY <1>2, <1>4, AmountMonotone
  <2>2. QED BY <1>0, <1>3, <2>1
<1>5. CASE ChargeSite(c)
  <2>1. /\ stage' = [stage EXCEPT ![c] = "site"]
        /\ total' = [total EXCEPT ![c] = spent[SiteOf[c]] + Cost[c]]
        /\ stage[c] = "new"
    BY <1>5 DEF ChargeSite, Goto, Increment
  <2>2. CASE SiteOf[c] = s /\ total'[c] <= SiteCap
    <3>1. s \in Counters /\ s # Org
      BY DEF Counters, SpendAssumption
    <3>2. spent'[s] = Amount(Holders(s)') /\ total'[c] = spent'[s]
      BY <1>0, <1>5, <2>2, <3>1, ChargeSiteCharges, ChargeKeepsExact
    <3>3. Holders(s)' \in SUBSET Calls /\ SitePassed(s)' \in SUBSET Holders(s)'
      BY <3>1 DEF Holders, OnSite, SitePassed
    <3>4. Amount(SitePassed(s)') <= Amount(Holders(s)')
      BY <3>3, AmountMonotone
    <3>5. Amount(Holders(s)') \in Nat
      BY <3>3, MoneyFinite
    <3>6. QED BY <1>2, <1>3, <2>2, <3>2, <3>4, <3>5
  <2>3. CASE ~(SiteOf[c] = s /\ total'[c] <= SiteCap)
    <3>1. SitePassed(s)' \subseteq SitePassed(s)
      BY <1>1, <2>1, <2>3 DEF SitePassed
    <3>2. QED BY <1>2, <1>4, <3>1
  <2>4. QED BY <2>2, <2>3
<1>6. CASE ChargeOrg(c)
  <2>1. SitePassed(s)' \subseteq SitePassed(s)
    BY <1>1, <1>6 DEF SitePassed, ChargeOrg, Goto, Increment, SiteCharged, SpendAssumption
  <2>2. QED BY <1>2, <1>4, <2>1
<1>7. CASE RefuseSite(c) \/ RefundSite(c)
  <2>1. SitePassed(s)' \subseteq SitePassed(s)
    BY <1>1, <1>7 DEF SitePassed, RefuseSite, RefundSite, Goto, TakeBack
  <2>2. QED BY <1>2, <1>4, <2>1
<1>8. CASE RefuseOrg(c)
  <2>1. SitePassed(s)' \subseteq SitePassed(s)
    BY <1>1, <1>8 DEF SitePassed, RefuseOrg, Goto, TakeBack
  <2>2. QED BY <1>2, <1>4, <2>1
<1>9. CASE Grant(c) \/ Abort(c)
  <2>1. SitePassed(s)' \subseteq SitePassed(s)
    BY <1>1, <1>9 DEF SitePassed, Grant, Abort, Goto
  <2>2. QED BY <1>2, <1>4, <2>1
<1>10. QED BY <1>5, <1>6, <1>7, <1>8, <1>9 DEF Proceed

(***************************************************************************)
(* The theorems.                                                           *)
(***************************************************************************)

(* LedgerInv is inductive: the counters of try_charge are exact, and the   *)
(* calls that passed a cap never outgrow it.                               *)
THEOREM LedgerInvariant == Spec => []LedgerInv
<1>1. Init => LedgerInv
  <2> SUFFICES ASSUME Init PROVE LedgerInv
    OBVIOUS
  <2>1. TypeOK
    BY DEF Init, TypeOK, Stages
  <2>2. /\ \A k \in Counters : Holders(k) = {}
        /\ OrgPassed = {} /\ \A s \in Sites : SitePassed(s) = {}
    BY DEF Init, Holders, OnOrg, OnSite, OrgPassed, SitePassed
  <2>3. CountersExact
    BY <2>2, AmountEmpty DEF Init, CountersExact
  <2>4. OrgCap \in Nat /\ SiteCap \in Nat
    BY SpendAssumption DEF SpendAssumption
  <2>5. QED BY <2>1, <2>2, <2>3, <2>4, AmountEmpty DEF LedgerInv
<1>2. LedgerInv /\ [Next]_vars => LedgerInv'
  <2> SUFFICES ASSUME LedgerInv, [Next]_vars PROVE LedgerInv'
    OBVIOUS
  <2>1. ASSUME NEW c \in Calls, Proceed(c) \/ Abort(c)
        PROVE  LedgerInv'
    <3>1. TypeOK' /\ CountersExact'
      BY <2>1, SpendAssumption, TypeStep, ExactStep DEF LedgerInv
    <3>2. Amount(OrgPassed)' <= OrgCap
      BY <2>1, SpendAssumption, OrgPassedStep
    <3>3. \A s \in Sites : Amount(SitePassed(s))' <= SiteCap
      BY <2>1, SpendAssumption, SitePassedStep
    <3>4. QED BY <3>1, <3>2, <3>3 DEF LedgerInv
  <2>2. CASE UNCHANGED vars
    BY <2>2 DEF vars, LedgerInv, TypeOK, CountersExact, Amount, Money, Coins, Holders,
                OnOrg, OnSite, OrgPassed, SitePassed, SiteCharged
  <2>3. QED BY <2>1, <2>2 DEF Next
<1>3. QED BY <1>1, <1>2, PTL DEF Spec

(* A rejected call leaves both counters as it found them. *)
THEOREM CountersAreExact == Spec => []CountersExact
<1>1. LedgerInv => CountersExact
  BY DEF LedgerInv
<1>2. QED BY <1>1, LedgerInvariant, PTL

(* The granted calls together cost at most the caps, the organisation's and *)
(* each site's.                                                             *)
THEOREM CapsHold == Spec => []WithinCaps
<1>1. LedgerInv => WithinCaps
  <2> SUFFICES ASSUME LedgerInv PROVE WithinCaps
    OBVIOUS
  <2>1. Amount(Granted) <= OrgCap
    <3>1. OrgPassed \in SUBSET Calls /\ Granted \in SUBSET OrgPassed
      BY DEF Granted, OrgPassed
    <3>2. Amount(Granted) <= Amount(OrgPassed) /\ Amount(Granted) \in Nat /\ Amount(OrgPassed) \in Nat
      BY <3>1, SpendAssumption, AmountMonotone, MoneyFinite
    <3>3. QED BY <3>2, SpendAssumption DEF LedgerInv, SpendAssumption
  <2>2. ASSUME NEW s \in Sites
        PROVE  Amount({c \in Granted : SiteOf[c] = s}) <= SiteCap
    <3> DEFINE here == {c \in Granted : SiteOf[c] = s}
    <3>1. SitePassed(s) \in SUBSET Calls /\ here \in SUBSET SitePassed(s)
      BY DEF Granted, SitePassed
    <3>2. Amount(here) <= Amount(SitePassed(s)) /\ Amount(here) \in Nat /\ Amount(SitePassed(s)) \in Nat
      BY <3>1, SpendAssumption, AmountMonotone, MoneyFinite
    <3>3. QED BY <3>2, SpendAssumption DEF LedgerInv, SpendAssumption
  <2>3. QED BY <2>1, <2>2 DEF WithinCaps
<1>2. QED BY <1>1, LedgerInvariant, PTL

(* One site's calls never hold more of the organisation's counter than the *)
(* site's own cap, whatever became of them.                                *)
THEOREM SitesAreContained == Spec => []SiteContained
<1>1. LedgerInv => SiteContained
  <2> SUFFICES ASSUME LedgerInv, NEW s \in Sites
               PROVE  Amount({c \in OnOrg : SiteOf[c] = s}) <= SiteCap
    BY DEF SiteContained
  <2> DEFINE here == {c \in OnOrg : SiteOf[c] = s}
  <2>1. SitePassed(s) \in SUBSET Calls /\ here \in SUBSET SitePassed(s)
    BY DEF OnOrg, SitePassed
  <2>2. Amount(here) <= Amount(SitePassed(s)) /\ Amount(here) \in Nat /\ Amount(SitePassed(s)) \in Nat
    BY <2>1, SpendAssumption, AmountMonotone, MoneyFinite
  <2>3. QED BY <2>2, SpendAssumption DEF LedgerInv, SpendAssumption
<1>2. QED BY <1>1, LedgerInvariant, PTL

(* What the run of the small instance checks at once: counters are exact, the *)
(* caps hold and each site is contained, for every set of calls and any costs. *)
THEOREM BudgetIsKept == Spec => []BudgetHolds
<1>1. CountersExact /\ WithinCaps /\ SiteContained => BudgetHolds
  BY DEF BudgetHolds
<1>2. QED BY <1>1, CountersAreExact, CapsHold, SitesAreContained, PTL
-----------------------------------------------------------------------------
(* The vision client's breaker.                                             *)

\* The analyses that are past the gate, each of them one failure at most.
UnderWay == {a \in Analysts : analysis[a] # "idle"}

\* While the breaker is open nobody passes the gate, so what can still fail was
\* under way when it opened: every failure takes one of them away, and all of them
\* together are too few to open it again.
BreakerInv ==
    /\ pause \in Nat /\ failed \in Nat
    /\ analysis \in [Analysts -> {"idle", "token", "client", "queue", "call"}]
    /\ pause > 0 => failed + Cardinality(UnderWay) <= BreakAfter

\* An analysis that moves on, or leaves, does not add to those under way; the one
\* that leaves is one less.
LEMMA TurnedCounts ==
    ASSUME VisionAssumption, BreakerInv, NEW a \in Analysts, NEW from, NEW to \in
               {"idle", "client", "queue", "call"}, from # "idle", Turned(a, from, to)
    PROVE  /\ analysis' \in [Analysts -> {"idle", "token", "client", "queue", "call"}]
           /\ Cardinality(UnderWay) \in Nat /\ Cardinality(UnderWay') \in Nat
           /\ Cardinality(UnderWay) >= 1
           /\ Cardinality(UnderWay') <= Cardinality(UnderWay)
           /\ to = "idle" => Cardinality(UnderWay') = Cardinality(UnderWay) - 1
<1>1. /\ analysis' = [analysis EXCEPT ![a] = to] /\ analysis[a] = from
      /\ analysis \in [Analysts -> {"idle", "token", "client", "queue", "call"}]
  BY DEF Turned, BreakerInv
<1>2. IsFiniteSet(Analysts) /\ UnderWay \subseteq Analysts /\ a \in UnderWay
  BY <1>1 DEF VisionAssumption, UnderWay
<1>3. IsFiniteSet(UnderWay) /\ Cardinality(UnderWay) \in Nat
  BY <1>2, FS_Subset, FS_CardinalityType
<1>4. IsFiniteSet(UnderWay \ {a}) /\ Cardinality(UnderWay \ {a}) = Cardinality(UnderWay) - 1
  BY <1>2, <1>3, FS_RemoveElement
<1>5. Cardinality(UnderWay \ {a}) \in Nat
  BY <1>4, FS_CardinalityType
<1>6. UnderWay' = IF to = "idle" THEN UnderWay \ {a} ELSE UnderWay
  BY <1>1, <1>2 DEF UnderWay
<1>7. analysis' \in [Analysts -> {"idle", "token", "client", "queue", "call"}]
  BY <1>1
<1>8. QED BY <1>3, <1>4, <1>5, <1>6, <1>7

LEMMA LessStillFits ==
    \A a, b, c, d, n \in Nat : a <= b /\ c <= d /\ b + d <= n => a + c <= n
OBVIOUS

\* Every step keeps the count, and none opens a breaker that is open.
LEMMA BreakerStep ==
    ASSUME VisionAssumption, BreakerInv, VisionNext
    PROVE  BreakerInv' /\ (pause' > pause => pause = 0)
<1> USE DEF VisionAssumption
<1>1. pause \in Nat /\ failed \in Nat /\ BreakAfter \in Nat /\ Pause \in Nat
  BY DEF BreakerInv
<1>2. ASSUME UNCHANGED <<failed, analysis>>, pause' \in Nat, pause' <= pause
      PROVE  BreakerInv' /\ (pause' > pause => pause = 0)
  <2>1. UnderWay' = UnderWay
    BY <1>2 DEF UnderWay
  <2>2. Cardinality(UnderWay') = Cardinality(UnderWay)
    BY <2>1
  <2>3. QED BY <1>1, <1>2, <2>2 DEF BreakerInv
<1>3. ASSUME NEW a \in Analysts, NEW from, NEW to \in {"idle", "client", "queue", "call"},
             from # "idle", Turned(a, from, to),
             \/ UNCHANGED <<pause, failed>>
             \/ pause' = pause /\ failed' = 0
             \/ to = "idle" /\ RecordFailure
      PROVE  BreakerInv' /\ (pause' > pause => pause = 0)
  <2> DEFINE before == Cardinality(UnderWay)
             after == Cardinality(UnderWay)'
  <2>1. /\ analysis' \in [Analysts -> {"idle", "token", "client", "queue", "call"}]
        /\ before \in Nat /\ after \in Nat /\ before >= 1 /\ after <= before
        /\ to = "idle" => after = before - 1
    BY <1>3, TurnedCounts
  <2>2. pause > 0 => failed + before <= BreakAfter
    BY DEF BreakerInv
  <2>3. before - 1 <= BreakAfter
    <3>1. UnderWay \subseteq Analysts /\ IsFiniteSet(Analysts)
      BY DEF UnderWay
    <3>2. Cardinality(UnderWay) <= Cardinality(Analysts) /\ Cardinality(Analysts) \in Nat
      BY <3>1, FS_Subset, FS_CardinalityType
    <3>3. QED BY <1>1, <2>1, <3>2
  <2> HIDE DEF before, after
  <2>4. CASE UNCHANGED <<pause, failed>> \/ (pause' = pause /\ failed' = 0)
    <3>1. pause' \in Nat /\ failed' \in Nat /\ failed' <= failed /\ pause' = pause
      BY <1>1, <2>4
    <3>2. ASSUME pause' > 0 PROVE failed' + after <= BreakAfter
      <4>1. failed + before <= BreakAfter
        BY <2>2, <3>1, <3>2
      <4>2. /\ failed \in Nat /\ failed' \in Nat /\ failed' <= failed /\ BreakAfter \in Nat
            /\ before \in Nat /\ after \in Nat /\ after <= before
        BY <1>1, <2>1, <3>1
      <4>3. QED BY <4>1, <4>2, LessStillFits
    <3>3. QED BY <1>1, <2>1, <3>1, <3>2 DEF BreakerInv, after
  <2>5. CASE to = "idle" /\ RecordFailure
    <3>1. CASE failed + 1 > BreakAfter
      <4>1. pause' = Pause /\ failed' = 0 /\ pause = 0
        BY <1>1, <2>1, <2>2, <2>5, <3>1 DEF RecordFailure
      <4>2. failed' + after <= BreakAfter
        BY <1>1, <2>1, <2>3, <2>5, <4>1
      <4>3. QED BY <1>1, <2>1, <4>1, <4>2 DEF BreakerInv, after
    <3>2. CASE ~(failed + 1 > BreakAfter)
      <4>1. pause' = pause /\ failed' = failed + 1
        BY <2>5, <3>2 DEF RecordFailure
      <4>2. pause' > 0 => failed' + after <= BreakAfter
        BY <1>1, <2>1, <2>2, <2>5, <4>1
      <4>3. QED BY <1>1, <2>1, <4>1, <4>2 DEF BreakerInv, after
    <3>3. QED BY <3>1, <3>2
  <2>6. QED BY <1>3, <2>4, <2>5
<1>4. CASE VisionTick
  <2>1. pause' = (IF pause > 0 THEN pause - 1 ELSE 0) /\ UNCHANGED <<failed, analysis>>
    BY <1>4 DEF VisionTick, Down
  <2>2. pause' \in Nat /\ pause' <= pause
    BY <1>1, <2>1
  <2>3. QED BY <1>2, <2>1, <2>2
<1>5. CASE VisionWorld \/ BeginSetup \/ EndSetup
  <2>1. UNCHANGED <<pause, failed, analysis>>
    BY <1>5 DEF VisionWorld, BeginSetup, EndSetup
  <2>2. QED BY <1>1, <1>2, <2>1
<1>6. ASSUME NEW a \in Analysts, Analyse(a)
      PROVE  BreakerInv' /\ (pause' > pause => pause = 0)
  <2>1. CASE Gate(a)
    <3>1. pause = 0 /\ UNCHANGED <<pause, failed>>
      BY <2>1 DEF Gate
    <3>2. analysis' \in [Analysts -> {"idle", "token", "client", "queue", "call"}]
      BY <2>1 DEF Gate, Turned, BreakerInv
    <3>3. QED BY <1>1, <3>1, <3>2 DEF BreakerInv
  <2>2. CASE FetchToken(a)
    <3>1. \/ Turned(a, "token", "client") /\ UNCHANGED <<pause, failed>>
          \/ Turned(a, "token", "idle") /\ RecordFailure
      BY <2>2 DEF FetchToken
    <3>2. QED BY <1>3, <3>1
  <2>3. CASE CheckClient(a)
    <3>1. \/ Turned(a, "client", "queue") /\ UNCHANGED <<pause, failed>>
          \/ Turned(a, "client", "idle") /\ RecordFailure
      BY <2>3 DEF CheckClient
    <3>2. QED BY <1>3, <3>1
  <2>4. CASE Acquire(a)
    <3>1. Turned(a, "queue", "call") /\ UNCHANGED <<pause, failed>>
      BY <2>4 DEF Acquire
    <3>2. QED BY <1>3, <3>1
  <2>5. CASE EndCall(a)
    <3>1. Turned(a, "call", "idle") /\ ((pause' = pause /\ failed' = 0) \/ RecordFailure)
      BY <2>5 DEF EndCall
    <3>2. QED BY <1>3, <3>1
  <2>6. QED BY <1>6, <2>1, <2>2, <2>3, <2>4, <2>5 DEF Analyse
<1>7. QED BY <1>4, <1>5, <1>6 DEF VisionNext

\* The first half of BreakerHolds, for any number of cameras and permits and any
\* times: a pause of the breaker ends when it was meant to end.
THEOREM PausesEndOnTime == VisionInit /\ [][VisionNext]_visionVars => PausesApart
<1>1. VisionInit => BreakerInv
  <2> SUFFICES ASSUME VisionInit PROVE BreakerInv
    OBVIOUS
  <2>1. pause = 0 /\ failed = 0 /\ analysis = [a \in Analysts |-> "idle"]
    BY DEF VisionInit
  <2>2. QED BY <2>1 DEF BreakerInv
<1>2. ASSUME BreakerInv, [VisionNext]_visionVars
      PROVE  BreakerInv' /\ [pause' > pause => pause = 0]_visionVars
  <2>1. CASE VisionNext
    BY <1>2, <2>1, VisionAssumption, BreakerStep
  <2>2. CASE UNCHANGED visionVars
    <3>1. UNCHANGED <<pause, failed, analysis>>
      BY <2>2 DEF visionVars
    <3>2. BreakerInv'
      BY <1>2, <3>1 DEF BreakerInv, UnderWay
    <3>3. QED BY <2>2, <3>2
  <2>3. QED BY <1>2, <2>1, <2>2
<1>3. QED BY <1>1, <1>2, PTL DEF PausesApart
-----------------------------------------------------------------------------
(* The capacity tracker.                                                    *)

Said == {"over", "under", "fine"}

LoadTypes ==
    /\ running \in Nat /\ dead \in Nat /\ reported \in Nat
    /\ sustained \in Nat /\ sustained >= MinCapacity /\ sustained <= LoadCeiling
    /\ streak \in [over : Nat, under : Nat]
    /\ factor \in Nat /\ cost \in Nat
    /\ spread \in [least : Int, most : Int]
    /\ readings \in Seq(Said)

\* The last k of the readings say r.
LastSay(k, r) ==
    /\ k <= Len(readings)
    /\ \A i \in 1..Len(readings) : i > Len(readings) - k => readings[i] = r

\* A streak is shorter than the agreement, and as long as it is the readings since
\* the last revision end with it: the two counters of the tracker stand for the
\* history that it does not keep.
StreaksAreRead ==
    /\ streak.over < Agreement /\ LastSay(streak.over, "over")
    /\ streak.under < Agreement /\ LastSay(streak.under, "under")

LoadInv == LoadTypes /\ StreaksAreRead

LEMMA UtilisationIsInt ==
    ASSUME NEW n \in Int, NEW f \in Int, NEW c \in Int
    PROVE  Utilisation(n, f, c) \in Int
BY DEF Utilisation

LEMMA SpreadIsInt ==
    ASSUME LoadTypes, NEW n \in Int, NEW f \in Int, NEW c \in Int
    PROVE  /\ FreshWindow(n, f, c) \in [least : Int, most : Int]
           /\ Mixed(n, f, c) \in [least : Int, most : Int]
<1>1. Utilisation(n, f, c) \in Int
  BY UtilisationIsInt
<1>2. spread \in [least : Int, most : Int]
  BY DEF LoadTypes
<1>3. QED BY <1>1, <1>2 DEF FreshWindow, Mixed, Least, Most

\* What one reading does to the streaks.
LEMMA StreaksMove ==
    ASSUME LoadInv, NEW r \in Said \cup {"none"}
    PROVE  /\ Streaks(r) \in [over : Nat, under : Nat]
           /\ r = "none" => Streaks(r) = streak
           /\ r = "fine" => Streaks(r).over = 0 /\ Streaks(r).under = 0
           /\ r = "over" => Streaks(r).over = streak.over + 1 /\ Streaks(r).under = 0
           /\ r = "under" => Streaks(r).under = streak.under + 1 /\ Streaks(r).over = 0
<1>1. streak \in [over : Nat, under : Nat]
  BY DEF LoadInv, LoadTypes
<1>2. /\ r = "none" => Streaks(r) = streak
      /\ r = "fine" => Streaks(r) = [over |-> 0, under |-> 0]
      /\ r = "over" => Streaks(r) = [over |-> streak.over + 1, under |-> 0]
      /\ r = "under" => Streaks(r) = [over |-> 0, under |-> streak.under + 1]
  BY DEF Streaks
<1>3. QED BY <1>1, <1>2 DEF Said

\* A revision lowers the capacity after saturated readings and raises it after idle
\* ones, between the minimum and the ceiling of the configuration.
LEMMA RevisionStays ==
    ASSUME LoadTypes, NEW u \in Int, NEW active \in Int, NEW s \in [over : Nat, under : Nat]
    PROVE  /\ Revision(u, active, s) \in Nat
           /\ Revision(u, active, s) >= MinCapacity /\ Revision(u, active, s) <= LoadCeiling
           /\ s.over >= Agreement => Revision(u, active, s) <= sustained
           /\ s.over < Agreement /\ s.under >= Agreement => Revision(u, active, s) >= sustained
           /\ s.over < Agreement /\ s.under < Agreement => Revision(u, active, s) = sustained
<1>1. /\ Agreement \in Nat /\ LoadCeiling \in Nat /\ LoadCeiling >= 1
      /\ sustained \in Nat /\ sustained >= 1 /\ sustained <= LoadCeiling
  BY LoadAssumption DEF LoadTypes, MinCapacity
<1>2. s.over \in Nat /\ s.under \in Nat
  OBVIOUS
<1>3. Sustainable(u, active) \in Nat /\ Sustainable(u, active) >= 1
      /\ Sustainable(u, active) <= LoadCeiling /\ Sustainable(u, active) <= sustained
  <2> DEFINE fits == (active * Saturation) \div Most(u, 1)
  <2>1. fits \in Int
    BY DEF Most, Saturation
  <2> HIDE DEF fits
  <2>2. Sustainable(u, active) = Most(1, Least(Least(fits, sustained - 1), LoadCeiling))
    BY DEF Sustainable, fits, MinCapacity
  <2>3. QED BY <1>1, <2>1, <2>2 DEF Most, Least
<1>4. /\ s.over >= Agreement => Revision(u, active, s) = Sustainable(u, active)
      /\ s.over < Agreement /\ s.under >= Agreement
             => Revision(u, active, s) = Least(LoadCeiling, sustained + 1)
      /\ s.over < Agreement /\ s.under < Agreement => Revision(u, active, s) = sustained
  BY <1>1, <1>2 DEF Revision
<1>5. QED BY <1>1, <1>2, <1>3, <1>4 DEF MinCapacity, Least

\* The readings that are kept after one more: the window is as long as the
\* agreement at most, and never loses one that a streak still counts.
Kept(r) == Append(IF Len(readings) < Agreement THEN readings ELSE Tail(readings), r)

LEMMA KeptSays ==
    ASSUME LoadAssumption, readings \in Seq(Said), NEW r \in Said, NEW k \in Nat, k < Agreement,
           LastSay(k, r)
    PROVE  /\ Kept(r) \in Seq(Said)
           /\ k + 1 <= Len(Kept(r))
           /\ \A i \in 1..Len(Kept(r)) : i > Len(Kept(r)) - (k + 1) => Kept(r)[i] = r
<1> DEFINE rest == IF Len(readings) < Agreement THEN readings ELSE Tail(readings)
           dropped == IF Len(readings) < Agreement THEN 0 ELSE 1
<1>1. Len(readings) \in Nat /\ Agreement \in Nat /\ Agreement > 0 /\ k <= Len(readings)
  BY DEF LoadAssumption, LastSay
<1>2. /\ rest \in Seq(Said) /\ dropped \in {0, 1} /\ Len(rest) = Len(readings) - dropped
      /\ \A i \in 1..Len(rest) : rest[i] = readings[i + dropped]
      /\ dropped = 1 => Len(readings) >= Agreement
  <2>1. CASE Len(readings) < Agreement
    BY <1>1, <2>1
  <2>2. CASE ~(Len(readings) < Agreement)
    <3>1. readings # <<>> /\ rest = Tail(readings) /\ dropped = 1
      BY <1>1, <2>2
    <3>2. Tail(readings) \in Seq(Said) /\ Len(Tail(readings)) = Len(readings) - 1
          /\ \A i \in 1..Len(Tail(readings)) : Tail(readings)[i] = readings[i + 1]
      BY <3>1
    <3>3. QED BY <1>1, <2>2, <3>1, <3>2
  <2>3. QED BY <2>1, <2>2
<1> HIDE DEF rest, dropped
<1>3. Kept(r) = Append(rest, r)
  BY DEF Kept, rest
<1>4. Len(rest) \in Nat /\ Len(rest) >= k
  BY <1>1, <1>2
<1>5. Kept(r) \in Seq(Said) /\ Len(Kept(r)) = Len(rest) + 1
  BY <1>2, <1>3
<1>6. ASSUME NEW i \in 1..Len(Kept(r)), i > Len(Kept(r)) - (k + 1) PROVE Kept(r)[i] = r
  <2>1. CASE i = Len(rest) + 1
    BY <1>2, <1>3, <2>1
  <2>2. CASE i # Len(rest) + 1
    <3>1. i \in 1..Len(rest) /\ i > Len(rest) - k
      BY <1>4, <1>5, <1>6, <2>2
    <3>2. Kept(r)[i] = rest[i]
      BY <1>2, <1>3, <3>1
    <3>3. rest[i] = readings[i + dropped]
      BY <1>2, <3>1
    <3>4. i + dropped \in 1..Len(readings) /\ i + dropped > Len(readings) - k
      BY <1>1, <1>2, <1>4, <3>1
    <3>5. readings[i + dropped] = r
      BY <3>4 DEF LastSay
    <3>6. QED BY <3>2, <3>3, <3>5
  <2>3. QED BY <2>1, <2>2
<1>7. QED BY <1>4, <1>5, <1>6

\* What a streak of the tracker says of the readings when the capacity is revised.
LEMMA RoundStep ==
    ASSUME LoadAssumption, LoadInv, NEW u, NEW delivered \in BOOLEAN, HealthRound(u, delivered)
    PROVE  /\ LoadInv'
           /\ sustained' # sustained =>
                /\ sustained' < sustained => streak.over >= Agreement - 1
                /\ ~(sustained' < sustained) => streak.under >= Agreement - 1
<1> DEFINE active == running - dead
           r == Reading(u, active)
           s == Streaks(r)
           limit == IF r = "none" THEN sustained ELSE Revision(u, active, s)
<1>1. /\ u \in {spread.least, spread.most}
      /\ streak' = IF s.over >= Agreement THEN [s EXCEPT !.over = 0]
                   ELSE IF s.under >= Agreement THEN [s EXCEPT !.under = 0] ELSE s
      /\ sustained' = limit
      /\ factor' = FactorFor(running, limit)
      /\ spread' = FreshWindow(running, factor', cost)
      /\ reported' = IF delivered THEN limit ELSE reported
      /\ dead' = 0
      /\ readings' = IF limit # sustained \/ s.over >= Agreement \/ s.under >= Agreement
                     THEN <<>> ELSE IF r = "none" THEN readings ELSE Kept(r)
      /\ UNCHANGED <<running, cost>>
  BY DEF HealthRound, Kept
<1>2. /\ LoadTypes /\ streak \in [over : Nat, under : Nat]
      /\ streak.over < Agreement /\ LastSay(streak.over, "over")
      /\ streak.under < Agreement /\ LastSay(streak.under, "under")
      /\ Agreement \in Nat /\ Agreement > 0 /\ readings \in Seq(Said)
  BY DEF LoadAssumption, LoadInv, LoadTypes, StreaksAreRead
<1>3. u \in Int /\ active \in Int
  <2>1. /\ spread \in [least : Int, most : Int] /\ running \in Nat /\ dead \in Nat
        /\ u = spread.least \/ u = spread.most
    BY <1>2 DEF LoadTypes, HealthRound
  <2>2. QED BY <2>1
<1>4. r \in Said \cup {"none"}
  BY DEF Reading, Said
<1> HIDE DEF active, r
<1>5. /\ s \in [over : Nat, under : Nat]
      /\ r = "none" => s = streak
      /\ r = "fine" => s.over = 0 /\ s.under = 0
      /\ r = "over" => s.over = streak.over + 1 /\ s.under = 0
      /\ r = "under" => s.under = streak.under + 1 /\ s.over = 0
  BY <1>4, StreaksMove
<1> HIDE DEF s
<1>6. /\ limit \in Nat /\ limit >= MinCapacity /\ limit <= LoadCeiling
      /\ s.over >= Agreement => limit <= sustained
      /\ s.over < Agreement /\ s.under >= Agreement => limit >= sustained
      /\ s.over < Agreement /\ s.under < Agreement => limit = sustained
  <2>1. CASE r = "none"
    BY <1>2, <1>5, <2>1 DEF LoadTypes
  <2>2. CASE r # "none"
    <3>1. limit = Revision(u, active, s)
      BY <2>2
    <3>2. QED BY <1>2, <1>3, <1>5, <3>1, RevisionStays
  <2>3. QED BY <2>1, <2>2
<1> HIDE DEF limit
<1>7. sustained' # sustained =>
        /\ sustained' < sustained => streak.over >= Agreement - 1
        /\ ~(sustained' < sustained) => streak.under >= Agreement - 1
  <2> SUFFICES ASSUME limit # sustained
               PROVE  /\ limit < sustained => streak.over >= Agreement - 1
                      /\ ~(limit < sustained) => streak.under >= Agreement - 1
    BY <1>1
  <2>1. sustained \in Nat /\ s.over \in Nat /\ s.under \in Nat
        /\ streak.over \in Nat /\ streak.under \in Nat
    BY <1>2, <1>5 DEF LoadTypes
  <2>2. r \in {"over", "under"}
    BY <1>2, <1>4, <1>5, <1>6, <2>1 DEF Said
  <2>3. CASE r = "over"
    <3>1. s.over = streak.over + 1 /\ s.under = 0
      BY <1>5, <2>3
    <3>2. s.over >= Agreement
      BY <1>2, <1>6, <2>1, <3>1
    <3>3. limit < sustained
      BY <1>6, <2>1, <3>2
    <3>4. QED BY <1>2, <2>1, <3>1, <3>2, <3>3
  <2>4. CASE r = "under"
    <3>1. s.under = streak.under + 1 /\ s.over = 0
      BY <1>5, <2>4
    <3>2. s.under >= Agreement /\ s.over < Agreement
      BY <1>2, <1>6, <2>1, <3>1
    <3>3. limit >= sustained
      BY <1>6, <2>1, <3>2
    <3>4. QED BY <1>2, <1>6, <2>1, <3>1, <3>2, <3>3
  <2>5. QED BY <2>2, <2>3, <2>4
<1>8. LoadTypes'
  <2>1. running' \in Nat /\ dead' \in Nat /\ reported' \in Nat /\ factor' \in Nat /\ cost' \in Nat
    BY <1>1, <1>2, <1>6 DEF LoadTypes, FactorFor, Degraded
  <2>2. sustained' \in Nat /\ sustained' >= MinCapacity /\ sustained' <= LoadCeiling
    BY <1>1, <1>6
  <2>3. spread' \in [least : Int, most : Int]
    <3>1. running \in Int /\ factor' \in Int /\ cost \in Int
      BY <1>2, <2>1 DEF LoadTypes
    <3>2. QED BY <1>1, <1>2, <3>1, SpreadIsInt
  <2>4. streak' \in [over : Nat, under : Nat]
    BY <1>1, <1>5
  <2>5. readings' \in Seq(Said)
    <3>1. r # "none" => Kept(r) \in Seq(Said)
      <4>1. Tail(readings) \in Seq(Said) \/ readings = <<>>
        BY <1>2
      <4>2. Len(readings) < Agreement \/ readings # <<>>
        BY <1>2
      <4>3. QED BY <1>2, <1>4, <4>1, <4>2 DEF Kept
    <3>2. QED BY <1>1, <1>2, <3>1
  <2>6. QED BY <2>1, <2>2, <2>3, <2>4, <2>5 DEF LoadTypes, MinCapacity
<1>9. StreaksAreRead'
  <2>1. s.over \in Nat /\ s.under \in Nat /\ streak.over \in Nat /\ streak.under \in Nat
    BY <1>2, <1>5
  <2>2. CASE s.over >= Agreement \/ s.under >= Agreement
    <3>1. r \in {"over", "under"}
      BY <1>2, <1>4, <1>5, <2>1, <2>2 DEF Said
    <3>2. streak'.over = 0 /\ streak'.under = 0 /\ readings' = <<>>
      BY <1>1, <1>2, <1>5, <2>1, <2>2, <3>1
    <3>3. QED BY <1>2, <3>2 DEF StreaksAreRead, LastSay
  <2>3. CASE ~(s.over >= Agreement \/ s.under >= Agreement)
    <3>1. /\ streak' = s /\ s.over < Agreement /\ s.under < Agreement
          /\ readings' = IF r = "none" THEN readings ELSE Kept(r)
      BY <1>1, <1>2, <1>6, <2>1, <2>3
    <3>2. ASSUME NEW q \in Seq(Said), NEW v, readings' = q
          PROVE  LastSay(0, v)'
      BY <3>2 DEF LastSay
    <3>3. readings' \in Seq(Said)
      BY <1>8 DEF LoadTypes
    <3>4. CASE r = "none"
      BY <1>2, <1>5, <3>1, <3>4 DEF StreaksAreRead, LastSay
    <3>5. CASE r = "fine"
      <4>1. streak'.over = 0 /\ streak'.under = 0
        BY <1>5, <3>1, <3>5
      <4>2. QED BY <3>1, <3>2, <3>3, <4>1 DEF StreaksAreRead, LastSay
    <3>6. CASE r = "over"
      <4>1. streak'.over = streak.over + 1 /\ streak'.under = 0 /\ readings' = Kept("over")
        BY <1>5, <3>1, <3>6
      <4>2. /\ streak.over + 1 <= Len(Kept("over"))
            /\ \A i \in 1..Len(Kept("over")) :
                   i > Len(Kept("over")) - (streak.over + 1) => Kept("over")[i] = "over"
        <5>1. "over" \in Said
          BY DEF Said
        <5>2. QED BY <1>2, <2>1, <5>1, KeptSays
      <4>3. LastSay(streak.over, "over")'
        BY <4>1, <4>2 DEF LastSay
      <4>4. LastSay(streak.under, "under")'
        BY <3>2, <3>3, <4>1 DEF LastSay
      <4>5. QED BY <3>1, <4>3, <4>4 DEF StreaksAreRead
    <3>7. CASE r = "under"
      <4>1. streak'.under = streak.under + 1 /\ streak'.over = 0 /\ readings' = Kept("under")
        BY <1>5, <3>1, <3>7
      <4>2. /\ streak.under + 1 <= Len(Kept("under"))
            /\ \A i \in 1..Len(Kept("under")) :
                   i > Len(Kept("under")) - (streak.under + 1) => Kept("under")[i] = "under"
        <5>1. "under" \in Said
          BY DEF Said
        <5>2. QED BY <1>2, <2>1, <5>1, KeptSays
      <4>3. LastSay(streak.under, "under")'
        BY <4>1, <4>2 DEF LastSay
      <4>4. LastSay(streak.over, "over")'
        BY <3>2, <3>3, <4>1 DEF LastSay
      <4>5. QED BY <3>1, <4>3, <4>4 DEF StreaksAreRead
    <3>8. QED BY <1>4, <3>4, <3>5, <3>6, <3>7 DEF Said
  <2>4. QED BY <2>2, <2>3
<1>10. QED BY <1>7, <1>8, <1>9 DEF LoadInv

\* What is not a health round touches neither the capacity nor what it goes by.
LEMMA LoadStep ==
    ASSUME LoadAssumption, LoadInv,
           Replace \/ WorkerDies \/ \E c \in CameraCosts : ShiftCost(c)
    PROVE  LoadInv' /\ sustained' = sustained
<1>1. /\ LoadTypes /\ CameraCosts \subseteq Nat /\ Demand \in Nat
      /\ spread \in [least : Int, most : Int] /\ reported \in Nat
      /\ running \in Nat /\ dead \in Nat /\ factor \in Nat /\ cost \in Nat
  BY DEF LoadAssumption, LoadInv, LoadTypes
<1>2. ASSUME UNCHANGED <<sustained, streak, readings>>, running' \in Nat, dead' \in Nat,
             reported' \in Nat, factor' \in Nat, cost' \in Nat, spread' \in [least : Int, most : Int]
      PROVE  LoadInv' /\ sustained' = sustained
  BY <1>2 DEF LoadInv, LoadTypes, StreaksAreRead, LastSay
<1>3. CASE Replace
  <2>1. /\ running' = Least(Demand, reported) /\ dead' = Least(dead, running')
        /\ spread' = Mixed(running', factor, cost)
        /\ UNCHANGED <<sustained, reported, streak, factor, cost, readings>>
    BY <1>3 DEF Replace
  <2>2. running' \in Nat /\ dead' \in Nat
    BY <1>1, <2>1 DEF Least
  <2>3. spread' \in [least : Int, most : Int]
    <3>1. ASSUME NEW n \in Int PROVE Mixed(n, factor, cost) \in [least : Int, most : Int]
      <4>1. factor \in Int /\ cost \in Int
        BY <1>1
      <4>2. QED BY <1>1, <4>1, SpreadIsInt
    <3>2. QED BY <2>1, <2>2, <3>1
  <2>4. QED BY <1>1, <1>2, <2>1, <2>2, <2>3
<1>4. CASE WorkerDies
  <2>1. /\ dead' = dead + 1
        /\ spread' = [spread EXCEPT !.least = Least(@, Utilisation(running - dead', factor, cost))]
        /\ UNCHANGED <<running, sustained, reported, streak, factor, cost, readings>>
    BY <1>4 DEF WorkerDies
  <2>2. Utilisation(running - dead', factor, cost) \in Int
    BY <1>1, <2>1, UtilisationIsInt
  <2>3. spread' \in [least : Int, most : Int]
    BY <1>1, <2>1, <2>2 DEF Least
  <2>4. QED BY <1>1, <1>2, <2>1, <2>3
<1>5. ASSUME NEW c \in CameraCosts, ShiftCost(c) PROVE LoadInv' /\ sustained' = sustained
  <2>1. /\ cost' = c /\ spread' = Mixed(running, factor, c)
        /\ UNCHANGED <<running, dead, sustained, reported, streak, factor, readings>>
    BY <1>5 DEF ShiftCost
  <2>2. spread' \in [least : Int, most : Int]
    BY <1>1, <2>1, SpreadIsInt
  <2>3. QED BY <1>1, <1>2, <2>1, <2>2
<1>6. QED BY <1>3, <1>4, <1>5

\* The first half of ShedsCalmly, for any load, ceiling and agreement: the capacity
\* moves only when the readings since the last revision agree on the direction, a
\* whole agreement of them with the one that decides.
THEOREM CapacityMovesByAgreement == LoadInit /\ [][LoadNext]_loadVars => RevisedByAgreement
<1>1. LoadInit => LoadInv
  <2> SUFFICES ASSUME LoadInit PROVE LoadInv
    OBVIOUS
  <2>1. /\ running = 0 /\ dead = 0 /\ streak = [over |-> 0, under |-> 0] /\ factor = 100
        /\ cost \in Nat /\ readings = <<>> /\ sustained \in MinCapacity..LoadCeiling
        /\ reported = sustained /\ spread = FreshWindow(0, 100, cost)
    BY LoadAssumption DEF LoadInit, LoadAssumption
  <2>2. spread \in [least : Int, most : Int]
    BY <2>1, UtilisationIsInt DEF FreshWindow
  <2>3. LoadTypes
    BY <2>1, <2>2, LoadAssumption DEF LoadTypes, LoadAssumption, MinCapacity
  <2>4. StreaksAreRead
    BY <2>1, LoadAssumption DEF StreaksAreRead, LastSay, LoadAssumption
  <2>5. QED BY <2>3, <2>4 DEF LoadInv
<1> DEFINE Agreed ==
      sustained' # sustained =>
         /\ Len(readings) >= Agreement - 1
         /\ \A i \in Len(readings) - Agreement + 2 .. Len(readings) :
                readings[i] = (IF sustained' < sustained THEN "over" ELSE "under")
<1>2. ASSUME LoadInv, LoadNext PROVE LoadInv' /\ Agreed
  <2>1. ASSUME NEW u, NEW delivered \in BOOLEAN, HealthRound(u, delivered)
        PROVE  LoadInv' /\ Agreed
    <3>1. /\ LoadInv'
          /\ sustained' # sustained =>
               /\ sustained' < sustained => streak.over >= Agreement - 1
               /\ ~(sustained' < sustained) => streak.under >= Agreement - 1
      BY <1>2, <2>1, LoadAssumption, RoundStep
    <3>2. /\ Agreement \in Nat /\ Len(readings) \in Nat
          /\ streak.over \in Nat /\ streak.over < Agreement /\ LastSay(streak.over, "over")
          /\ streak.under \in Nat /\ streak.under < Agreement /\ LastSay(streak.under, "under")
      BY <1>2, LoadAssumption DEF LoadAssumption, LoadInv, LoadTypes, StreaksAreRead
    <3>3. ASSUME NEW k \in Nat, NEW r, k >= Agreement - 1, k < Agreement, LastSay(k, r)
          PROVE  /\ Len(readings) >= Agreement - 1
                 /\ \A i \in Len(readings) - Agreement + 2 .. Len(readings) : readings[i] = r
      <4>1. k = Agreement - 1 /\ k <= Len(readings)
        BY <3>2, <3>3 DEF LastSay
      <4>2. ASSUME NEW i \in Len(readings) - Agreement + 2 .. Len(readings)
            PROVE  readings[i] = r
        <5>1. i \in 1..Len(readings) /\ i > Len(readings) - k
          BY <3>2, <4>1
        <5>2. QED BY <3>3, <5>1 DEF LastSay
      <4>3. QED BY <3>2, <4>1, <4>2
    <3>4. ASSUME sustained' # sustained
          PROVE  /\ Len(readings) >= Agreement - 1
                 /\ \A i \in Len(readings) - Agreement + 2 .. Len(readings) :
                        readings[i] = (IF sustained' < sustained THEN "over" ELSE "under")
      <4>1. CASE sustained' < sustained
        BY <3>1, <3>2, <3>3, <3>4, <4>1
      <4>2. CASE ~(sustained' < sustained)
        BY <3>1, <3>2, <3>3, <3>4, <4>2
      <4>3. QED BY <4>1, <4>2
    <3>5. QED BY <3>1, <3>4
  <2>2. CASE Replace \/ WorkerDies \/ \E c \in CameraCosts : ShiftCost(c)
    BY <1>2, <2>2, LoadAssumption, LoadStep
  <2>3. CASE RoundDelivered \/ RoundLost
    BY <2>1, <2>3 DEF RoundDelivered, RoundLost
  <2>4. QED BY <1>2, <2>2, <2>3 DEF LoadNext
<1>3. ASSUME LoadInv, UNCHANGED loadVars PROVE LoadInv' /\ Agreed
  BY <1>3 DEF loadVars, LoadInv, LoadTypes, StreaksAreRead, LastSay
<1>4. LoadInv /\ [LoadNext]_loadVars => LoadInv' /\ [Agreed]_loadVars
  BY <1>2, <1>3
<1>5. QED BY <1>1, <1>4, PTL DEF RevisedByAgreement
=============================================================================
