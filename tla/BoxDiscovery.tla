---------------------------- MODULE BoxDiscovery ----------------------------
(***************************************************************************)
(* Scans and NVR credentials on request.  The backend pushes scan_now and  *)
(* resolve_channels down the control socket and forgets them; the Go agent *)
(* runs each in a goroutine (agent/internal/control/commands.go,           *)
(* internal/discovery/report.go).  Credentials go through a Redis key that *)
(* the fetch deletes (backend/app/api/agents.py).                          *)
(***************************************************************************)
EXTENDS Integers, FiniteSets

CONSTANTS Commands,       \* scan_now messages
          ScanCooldown,   \* scanCooldown
          LastSecond,     \* bound: the clock stops here
          Prompts,        \* times a customer types credentials
          Fetches         \* resolve_channels goroutines on the box

Nothing == "nothing"

ASSUME DiscoveryAssumption ==
    /\ IsFiniteSet(Commands) /\ IsFiniteSet(Fetches)
    /\ ScanCooldown \in Nat \ {0} /\ LastSecond \in Nat
    /\ Nothing \notin Prompts

VARIABLES second,     \* time, for the cooldown
          scanning,   \* what each scan_now goroutine does
          lastScan,   \* scanState.lastScan; -1 before the first
          starts,     \* history: which probe began when
          creds,      \* agent:nvr_creds, the prompt whose credentials it holds
          prompt,     \* what the request of each prompt does
          fetch,      \* what each resolve_channels goroutine does
          channels    \* agent:channels, the prompt they answer

discoveryVars == <<second, scanning, lastScan, starts, creds, prompt, fetch, channels>>
scanVars == <<second, scanning, lastScan, starts>>
nvrVars == <<creds, prompt, fetch, channels>>

Scan(g, from, to) == scanning[g] = from /\ scanning' = [scanning EXCEPT ![g] = to]

DiscoveryInit ==
    /\ second = 0 /\ lastScan = -1
    /\ scanning = [g \in Commands |-> "none"]
    /\ starts = {}
    /\ creds = Nothing /\ channels = Nothing
    /\ prompt = [p \in Prompts |-> "none"]
    /\ fetch = [g \in Fetches |-> [at |-> "none"]]

-----------------------------------------------------------------------------
(* scan_now.                                                                *)

PassSecond == /\ second < LastSecond /\ second' = second + 1
              /\ UNCHANGED <<scanning, lastScan, starts, nvrVars>>

ScanNow(g) == /\ Scan(g, "none", "queued")
              /\ UNCHANGED <<second, lastScan, starts, nvrVars>>

\* handleScanNow: the mutex is taken first and the cooldown looked at under it; it
\* is held until the probe has been reported.
CoolingDownShort == lastScan # -1 /\ second - lastScan < ScanCooldown - 1   \* mutant
CoolingDown == lastScan # -1 /\ second - lastScan < ScanCooldown

BeginScan(g) ==
    /\ \A h \in Commands : scanning[h] # "probing"
    /\ \/ CoolingDown /\ Scan(g, "queued", "dropped") /\ UNCHANGED <<lastScan, starts>>
       \/ ~CoolingDown /\ Scan(g, "queued", "probing")
          /\ lastScan' = second /\ starts' = starts \cup {[by |-> g, at |-> second]}
    /\ UNCHANGED <<second, nvrVars>>

\* Whether the probe or its report fails or not.
EndScan(g) == /\ Scan(g, "probing", "over")
              /\ UNCHANGED <<second, lastScan, starts, nvrVars>>

-----------------------------------------------------------------------------
(* NVR credentials.                                                         *)

\* SETEX, over whatever was staged before.
StageCreds(p) ==
    /\ prompt[p] = "none"
    /\ creds' = p /\ prompt' = [prompt EXCEPT ![p] = "staged"]
    /\ UNCHANGED <<scanVars, fetch, channels>>

\* The command is sent; any failure or cancellation deletes the key.
SendResolve(p) ==
    /\ prompt[p] = "staged"
    /\ \/ /\ prompt' = [prompt EXCEPT ![p] = "sent"] /\ UNCHANGED creds
          /\ \E g \in Fetches : fetch[g].at = "none" /\ fetch' = [fetch EXCEPT ![g].at = "fetch"]
       \/ /\ prompt' = [prompt EXCEPT ![p] = "refused"] /\ creds' = Nothing /\ UNCHANGED fetch
    /\ UNCHANGED <<scanVars, channels>>

CredsExpire == /\ creds # Nothing /\ creds' = Nothing
               /\ UNCHANGED <<scanVars, prompt, fetch, channels>>

\* GETDEL; without the key the goroutine ends, and so it does if the answer is lost.
FetchCreds(g) ==
    /\ fetch[g].at = "fetch" /\ creds' = Nothing
    /\ fetch' = [fetch EXCEPT ![g] = IF creds = Nothing THEN [at |-> "over"]
                                     ELSE [at |-> "holds", of |-> creds]]
    /\ UNCHANGED <<scanVars, prompt, channels>>

\* ResolveAllStreamURIs and the report, either of which may fail.
ReportChannels(g) ==
    /\ fetch[g].at = "holds"
    /\ channels' \in {channels, fetch[g].of}
    /\ fetch' = [fetch EXCEPT ![g].at = "over"]
    /\ UNCHANGED <<scanVars, creds, prompt>>

DiscoveryNext ==
    \/ PassSecond \/ CredsExpire
    \/ \E g \in Commands : ScanNow(g) \/ BeginScan(g) \/ EndScan(g)
    \/ \E p \in Prompts : StageCreds(p) \/ SendResolve(p)
    \/ \E g \in Fetches : FetchCreds(g) \/ ReportChannels(g)

DiscoverySpec == DiscoveryInit /\ [][DiscoveryNext]_discoveryVars

-----------------------------------------------------------------------------
(* Properties.                                                              *)

\* "A burst of requests within scanCooldown only runs the first one": probes on
\* demand begin at least the cooldown apart, however they queue for the mutex.
ScansApart == \A s, t \in starts : s # t => s.at - t.at >= ScanCooldown \/ t.at - s.at >= ScanCooldown

\* "A second fetch finds nothing, never a stale copy": credentials reach one
\* goroutine at most, and those of a refused prompt are not left in Redis.
CredsOnce ==
    /\ \A g, h \in Fetches : g # h /\ {"of"} \subseteq DOMAIN fetch[g] \cap DOMAIN fetch[h]
                             => fetch[g].of # fetch[h].of
    /\ \A p \in Prompts : prompt[p] = "refused" => creds # p

DiscoverySafe == ScansApart /\ CredsOnce
=============================================================================
