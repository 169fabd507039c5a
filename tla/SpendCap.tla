------------------------------ MODULE SpendCap ------------------------------
(* The daily AI budget of one organisation                                   *)
(* (services/digest/spend_tracker.py), shared by digests, chat, the          *)
(* assistant and the sequence compiler: one Redis counter for the            *)
(* organisation and one per site.  A call first adds its cost and then looks *)
(* at the total INCRBYFLOAT returned; a total above the cap is taken back.   *)
(* Only the increments are atomic: calls of all backend processes interleave *)
(* between them, and a call that dies on the way takes nothing back.         *)
(*                                                                           *)
(* Money is counted in whole units, and a counter lives one day (its key     *)
(* holds the date the call read when it began).                              *)
EXTENDS Integers, FiniteSets

CONSTANTS Calls,     \* the try_charge calls of the day
          Sites,     \* the organisation's sites
          NoSite,    \* the call names no site, or no per-site cap is configured
          Org,       \* the organisation's own counter
          SiteOf,    \* the site a call is charged to
          Cost,      \* what a call costs (APPROX_COST_PER_CALL_USD, ...)
          OrgCap,    \* digest_daily_spend_cap_usd
          SiteCap    \* digest_site_daily_spend_cap_usd

ASSUME SpendAssumption ==
    /\ IsFiniteSet(Calls)
    /\ NoSite \notin Sites /\ Org \notin Sites
    /\ SiteOf \in [Calls -> Sites \cup {NoSite}]
    /\ Cost \in [Calls -> Nat \ {0}]
    /\ OrgCap \in Nat /\ SiteCap \in Nat

VARIABLES spent,   \* the Redis counters
          stage,   \* where each call is
          total    \* what the call's last INCRBYFLOAT returned

vars == <<spent, stage, total>>

Counters == Sites \cup {Org}

(* "site": charged to its site.  "org": charged to the organisation too.     *)
(* "refund": refused by the organisation, the site not yet paid back.        *)
(* The lost stages: the call died after that many charges.                   *)
Stages == {"new", "site", "org", "refund", "granted", "refused", "lost_site", "lost_org"}

SiteCharged(c) == SiteOf[c] # NoSite

Init ==
    /\ spent = [k \in Counters |-> 0]
    /\ stage = [c \in Calls |-> "new"]
    /\ total = [c \in Calls |-> 0]

(* Mutant: the total is read first and added to afterwards (GET, then SET). *)
IncrementStale(c, k) ==
    /\ spent' = [spent EXCEPT ![k] = @ + Cost[c]]
    /\ total' = [total EXCEPT ![c] = spent[k]]

(* INCRBYFLOAT: the increment and the read of the total are one step. *)
Increment(c, k) ==
    /\ spent' = [spent EXCEPT ![k] = @ + Cost[c]]
    /\ total' = [total EXCEPT ![c] = spent[k] + Cost[c]]

TakeBack(c, k) ==
    /\ spent' = [spent EXCEPT ![k] = @ - Cost[c]]
    /\ UNCHANGED total

Goto(c, s) == stage' = [stage EXCEPT ![c] = s]

(* The site is charged first. *)
ChargeSite(c) ==
    /\ stage[c] = "new" /\ SiteCharged(c)
    /\ Increment(c, SiteOf[c])
    /\ Goto(c, "site")

(* Mutant: the site's refusal keeps the money. *)
RefuseSiteKeeping(c) ==
    /\ stage[c] = "site" /\ total[c] > SiteCap
    /\ Goto(c, "refused")
    /\ UNCHANGED <<spent, total>>

RefuseSite(c) ==
    /\ stage[c] = "site" /\ total[c] > SiteCap
    /\ TakeBack(c, SiteOf[c])
    /\ Goto(c, "refused")

(* Mutant: the organisation is charged before the site's answer is looked at. *)
ChargeOrgAnyway(c) ==
    /\ \/ stage[c] = "new" /\ ~SiteCharged(c)
       \/ stage[c] = "site"
    /\ Increment(c, Org)
    /\ Goto(c, "org")

ChargeOrg(c) ==
    /\ \/ stage[c] = "new" /\ ~SiteCharged(c)
       \/ stage[c] = "site" /\ total[c] <= SiteCap
    /\ Increment(c, Org)
    /\ Goto(c, "org")

RefuseOrg(c) ==
    /\ stage[c] = "org" /\ total[c] > OrgCap
    /\ TakeBack(c, Org)
    /\ Goto(c, IF SiteCharged(c) THEN "refund" ELSE "refused")

(* Mutant: the organisation's refusal forgets the site. *)
RefundForgotten(c) ==
    /\ stage[c] = "refund"
    /\ Goto(c, "refused")
    /\ UNCHANGED <<spent, total>>

RefundSite(c) ==
    /\ stage[c] = "refund"
    /\ TakeBack(c, SiteOf[c])
    /\ Goto(c, "refused")

Grant(c) ==
    /\ stage[c] = "org" /\ total[c] <= OrgCap
    /\ Goto(c, "granted")
    /\ UNCHANGED <<spent, total>>

(* Redis refuses the next command, or the process dies: nothing is refunded. *)
Abort(c) ==
    /\ \/ stage[c] \in {"site", "refund"} /\ Goto(c, "lost_site")
       \/ stage[c] = "org" /\ Goto(c, "lost_org")
    /\ UNCHANGED <<spent, total>>

Proceed(c) ==
    \/ ChargeSite(c) \/ RefuseSite(c) \/ ChargeOrg(c)
    \/ RefuseOrg(c) \/ RefundSite(c) \/ Grant(c)

Next == \E c \in Calls : Proceed(c) \/ Abort(c)

(* Every call that does not die runs to its end. *)
Spec == Init /\ [][Next]_vars /\ \A c \in Calls : WF_vars(Proceed(c))

-----------------------------------------------------------------------------
(* Properties.  The money of a set of calls is a set of coins, as many per   *)
(* call as it costs, so that amounts are cardinalities.                      *)

Coins(c) == {c} \X (1 .. Cost[c])
Money(C) == UNION {Coins(c) : c \in C}
Amount(C) == Cardinality(Money(C))

OnOrg == {c \in Calls : stage[c] \in {"org", "granted", "lost_org"}}

OnSite(s) ==
    {c \in Calls : /\ SiteOf[c] = s
                   /\ stage[c] \in {"site", "org", "refund", "granted", "lost_site", "lost_org"}}

Holders(k) == IF k = Org THEN OnOrg ELSE OnSite(k)

Granted == {c \in Calls : stage[c] = "granted"}

TypeOK ==
    /\ spent \in [Counters -> Int]
    /\ stage \in [Calls -> Stages]
    /\ total \in [Calls -> Int]
    /\ \A c \in Calls : stage[c] \in {"site", "refund", "lost_site"} => SiteCharged(c)

(* "A rejected call leaves both counters exactly as it found them"           *)
(* (spend_tracker.py:66-68): whatever the interleaving, a counter is the     *)
(* money of the calls that still hold a charge on it.  A refused call holds  *)
(* none; only a call that died holds one for nothing.                        *)
CountersExact == \A k \in Counters : spent[k] = Amount(Holders(k))

(* "Returns False if any cap would break" (spend_tracker.py:60): the calls   *)
(* that were granted, together, never cost more than the organisation's cap, *)
(* nor those of one site more than the site's.                               *)
WithinCaps ==
    /\ Amount(Granted) <= OrgCap
    /\ \A s \in Sites : Amount({c \in Granted : SiteOf[c] = s}) <= SiteCap

(* "Contains the blast radius to the site that spent the money"              *)
(* (spend_tracker.py:17-22): one site's calls, the refused and the dead ones *)
(* included, never hold more of the organisation's counter than the site's   *)
(* cap, so the other sites keep the rest.                                    *)
SiteContained == \A s \in Sites : Amount({c \in OnOrg : SiteOf[c] = s}) <= SiteCap

(* The three at once: what the budget owes the organisation and its sites.   *)
BudgetHolds == CountersExact /\ WithinCaps /\ SiteContained

(* Refusals are temporary: if no call dies, both counters come to rest at    *)
(* what was really granted, and the headroom of refused calls is free again. *)
Died == {c \in Calls : stage[c] \in {"lost_site", "lost_org"}}
HeadroomReturns ==
    <>(Died # {} \/ (/\ spent[Org] = Amount(Granted)
                     /\ \A s \in Sites : spent[s] = Amount({c \in Granted : SiteOf[c] = s})
                     /\ \A c \in Calls : stage[c] \in {"granted", "refused"}))

-----------------------------------------------------------------------------
(* Why the caps hold.  The first total at or under the cap that a call sees  *)
(* already counts everybody who charged before, so the calls that passed a   *)
(* cap can never outgrow it together, long before any of them is granted.    *)

OrgPassed ==
    {c \in Calls : stage[c] = "granted" \/ (stage[c] = "org" /\ total[c] <= OrgCap)}

SitePassed(s) ==
    {c \in Calls : /\ SiteOf[c] = s
                   /\ \/ stage[c] \in {"org", "refund", "granted", "lost_org"}
                      \/ stage[c] = "site" /\ total[c] <= SiteCap}

(* The inductive invariant: exact counters, and no cap outgrown by the calls *)
(* that passed it.                                                           *)
LedgerInv ==
    /\ TypeOK
    /\ CountersExact
    /\ Amount(OrgPassed) <= OrgCap
    /\ \A s \in Sites : Amount(SitePassed(s)) <= SiteCap

=============================================================================
