------------------------------ MODULE SetupRuns -----------------------------
(***************************************************************************)
(* Agentic camera setup: an operator starts a run over some cameras; a job *)
(* per camera goes through a Redis list to the pipeline of the box the     *)
(* camera is on; the pipeline answers with a proposal, and an operator     *)
(* approves proposals one at a time or by groups that agree                *)
(* (backend: camera_setup.py, the setup-job routes of agents.py, grouping  *)
(* and validation; box: supervisor.py and scene_analyzer.py).              *)
(*                                                                         *)
(* The job names a camera, not a run.  It is in Redis before the rows it   *)
(* is about are committed, and leaves Redis before it is worked on.        *)
(***************************************************************************)
EXTENDS Naturals, FiniteSets

CONSTANTS Cams, Servers,     \* cameras of one site; the boxes they may be on
          Runs,              \* setup runs, in the order they are started
          Approvals,         \* approve requests, each made once
          Configs            \* the configurations a proposal may hold

ASSUME SetupAssumption ==
    /\ IsFiniteSet(Cams) /\ Servers # {} /\ Runs \subseteq Nat /\ Configs \subseteq Nat \ {0}

VARIABLES host,       \* the box each camera is on
          config,     \* what is configured: 0 before any approval
          run,        \* setup_runs: status of each, "none" before its start
          row,        \* camera_setup_proposals, by run and camera
          jobs,       \* setup jobs in the Redis list of each box
          held,       \* jobs a pipeline has fetched, and what it does with them
          lost,       \* history: jobs whose answer no row received
          approval,   \* what each approve request has read
          raced       \* history: runs with overlapping approvals, or a row answered twice

setupVars == <<host, config, run, row, jobs, held, lost, approval, raced>>

Default == 0
NoProposal == [status |-> "none", config |-> Default, grouped |-> FALSE]
NotAsked == [at |-> "none"]
Asked == {k \in Approvals : approval[k].at \in {"write", "commit"}}

Committed(r) == run[r] \in {"running", "complete"}
InRun(r) == {c \in Cams : row[r][c].status # "none"}
WithStatus(r, s) == {c \in Cams : row[r][c].status = s}

SetupInit ==
    /\ host \in [Cams -> {CHOOSE b \in Servers : TRUE}]
    /\ config = [c \in Cams |-> Default]
    /\ run = [r \in Runs |-> "none"]
    /\ row = [r \in Runs |-> [c \in Cams |-> NoProposal]]
    /\ jobs = [b \in Servers |-> {}]
    /\ held = {} /\ lost = {} /\ raced = {}
    /\ approval = [k \in Approvals |-> NotAsked]

-----------------------------------------------------------------------------
(* Starting a run.                                                          *)

\* The rows are flushed and the jobs pushed; nobody else sees the rows yet.
StartRun(r, C) ==
    /\ run[r] = "none" /\ \A q \in Runs : q < r => run[q] # "none"
    /\ C # {}
    /\ run' = [run EXCEPT ![r] = "starting"]
    /\ row' = [row EXCEPT ![r] = [c \in Cams |-> IF c \in C
                                   THEN [NoProposal EXCEPT !.status = "pending"] ELSE NoProposal]]
    /\ jobs' = [b \in Servers |-> jobs[b] \cup {<<c, r>> : c \in {d \in C : host[d] = b}}]
    /\ UNCHANGED <<host, config, held, lost, approval, raced>>

CommitRun(r) == /\ run[r] = "starting"
                /\ run' = [run EXCEPT ![r] = "running"]
                /\ UNCHANGED <<host, config, row, jobs, held, lost, approval, raced>>

\* Placement moves the camera to another box; its jobs stay behind.
MoveCamera(c, b) ==
    /\ host[c] # b /\ host' = [host EXCEPT ![c] = b]
    /\ UNCHANGED <<config, run, row, jobs, held, lost, approval, raced>>

-----------------------------------------------------------------------------
(* The pipeline of a box.                                                   *)

\* GET setup-jobs pops everything; the answer may not arrive, and an hour
\* without a push empties the list as well.
FetchJobs(b) ==
    /\ jobs[b] # {}
    /\ jobs' = [jobs EXCEPT ![b] = {}]
    /\ \/ held' = held \cup {[job |-> j, on |-> b, at |-> "observe"] : j \in jobs[b]}
          /\ UNCHANGED lost
       \/ lost' = lost \cup jobs[b] /\ UNCHANGED held
    /\ UNCHANGED <<host, config, run, row, approval, raced>>

\* The rows an answer from box b about camera c may be for: pending and committed,
\* while the camera is on that box; the newest is taken.
Pendings(c, b) == {r \in Runs : Committed(r) /\ row[r][c].status = "pending" /\ host[c] = b}
Newest(R) == CHOOSE r \in R : \A q \in R : q <= r

\* The answer is posted: no pending row is a 404, and a post may fail.  A pipeline
\* that dies loses the job in the same way.
PostAnswer(x) ==
    LET c == x.job[1]  R == Pendings(c, x.on) IN
    /\ x \in held /\ x.at = "observe"
    /\ \/ held' = held \ {x} /\ lost' = lost \cup {x.job}
       \/ /\ R # {}
          /\ held' = (held \ {x}) \cup {[job |-> x.job, on |-> x.on, at |-> "write", to |-> Newest(R)]}
          /\ UNCHANGED lost
    /\ UNCHANGED <<host, config, run, row, jobs, approval, raced>>

\* An error, a proposal the validator has reasons against, or one without.
Answers == {[status |-> "failed", config |-> Default, grouped |-> FALSE]}
           \cup {[status |-> s, config |-> x, grouped |-> g] :
                   s \in {"needs_input", "proposed"}, x \in Configs, g \in BOOLEAN}

\* The row is written by its key, whatever another answer has made of it.
WriteAnswer(x) ==
    LET c == x.job[1] IN
    /\ x \in held /\ x.at = "write"
    /\ \A k \in Asked : ~(approval[k].at = "commit" /\ approval[k].of = x.to /\ c \in approval[k].cams)
    /\ \E a \in Answers : row' = [row EXCEPT ![x.to][c] = a]
    /\ held' = held \ {x}
    /\ IF row[x.to][c].status = "pending" THEN UNCHANGED <<lost, raced>>
       ELSE lost' = lost \cup {x.job} /\ raced' = raced \cup {x.to}
    /\ UNCHANGED <<host, config, run, jobs, approval>>

-----------------------------------------------------------------------------
(* Approval.                                                                *)

\* group_proposals: the proposals that can be grouped, those of them that agree
\* with the majority, and whether they may be approved together.
Eligible(r) == {c \in WithStatus(r, "proposed") : row[r][c].grouped}
Votes(r, x) == Cardinality({c \in Eligible(r) : row[r][c].config = x})
Majority(r) == CHOOSE x \in Configs : \A y \in Configs \ {x} :
                  Votes(r, x) > Votes(r, y) \/ (Votes(r, x) = Votes(r, y) /\ x > y)
Agreeing(r) == {c \in Eligible(r) : row[r][c].config = Majority(r)}

\* One proposal that is proposed, or the agreeing ones of a group of several.
Ask(k, r, C) ==
    /\ approval[k] = NotAsked /\ Committed(r)
    /\ \/ \E c \in WithStatus(r, "proposed") : C = {c}
       \/ C = Agreeing(r) /\ Cardinality(C) > 1
    /\ approval' = [approval EXCEPT ![k] = [at |-> "write", of |-> r, cams |-> C,
                                            with |-> [c \in C |-> row[r][c].config]]]
    /\ raced' = IF \E l \in Asked : approval[l].of = r THEN raced \cup {r} ELSE raced
    /\ UNCHANGED <<host, config, run, row, jobs, held, lost>>

\* Rows another approval has written and not committed: this one waits for them.
Written(r) == UNION {approval[l].cams : l \in {m \in Approvals :
                        approval[m].at = "commit" /\ approval[m].of = r}}

\* A run that counts a failed proposal as settled (mutant).
WriteApprovalSettled(k) ==
    LET x == approval[k] IN
    /\ x.at = "write" /\ x.cams \cap Written(x.of) = {}
    /\ approval' = [approval EXCEPT ![k] =
          [at |-> "commit", of |-> x.of, cams |-> x.cams, with |-> x.with,
           completes |-> InRun(x.of) \subseteq x.cams \cup WithStatus(x.of, "approved")
                                                      \cup WithStatus(x.of, "failed")]]
    /\ UNCHANGED <<host, config, run, row, jobs, held, lost, raced>>

\* The rows are written; _maybe_complete_run then reads the run's rows, of which
\* those of uncommitted approvals still look proposed.
WriteApproval(k) ==
    LET x == approval[k] IN
    /\ x.at = "write" /\ x.cams \cap Written(x.of) = {}
    /\ approval' = [approval EXCEPT ![k] =
          [at |-> "commit", of |-> x.of, cams |-> x.cams, with |-> x.with,
           completes |-> InRun(x.of) \subseteq x.cams \cup WithStatus(x.of, "approved")]]
    /\ UNCHANGED <<host, config, run, row, jobs, held, lost, raced>>

CommitApproval(k) ==
    LET x == approval[k] IN
    /\ x.at = "commit"
    /\ approval' = [approval EXCEPT ![k] = [at |-> "over"]]
    /\ row' = [row EXCEPT ![x.of] = [c \in Cams |->
                 IF c \in x.cams THEN [@[c] EXCEPT !.status = "approved"] ELSE @[c]]]
    /\ config' = [c \in Cams |-> IF c \in x.cams THEN x.with[c] ELSE config[c]]
    /\ run' = IF x.completes THEN [run EXCEPT ![x.of] = "complete"] ELSE run
    /\ UNCHANGED <<host, jobs, held, lost, raced>>

SetupNext ==
    \/ \E r \in Runs : CommitRun(r) \/ \E C \in SUBSET Cams : StartRun(r, C)
    \/ \E b \in Servers : FetchJobs(b) \/ \E c \in Cams : MoveCamera(c, b)
    \/ \E x \in held : PostAnswer(x) \/ WriteAnswer(x)
    \/ \E k \in Approvals : \/ \E r \in Runs, C \in SUBSET Cams : Ask(k, r, C)
                            \/ WriteApproval(k) \/ CommitApproval(k)

SetupSpec == SetupInit /\ [][SetupNext]_setupVars

-----------------------------------------------------------------------------
(* Properties.                                                              *)

\* A camera's configuration is one that an approved proposal of it holds: nothing
\* is written from a proposal that failed or needs input.  (Two answers that found
\* the same row may write it one after the other, with an approval between them.)
ConfiguredAsApproved ==
    \A c \in Cams : config[c] # Default =>
        \E r \in Runs : \/ row[r][c].status = "approved" /\ row[r][c].config = config[c]
                        \/ r \in raced

\* "Mark a run complete once every one of its proposals is terminal": complete
\* means all approved, and all approved means complete once no approval is under
\* way, unless two requests for the run overlapped.
CompleteMeansApproved ==
    \A r \in Runs :
        /\ run[r] = "complete" /\ r \notin raced => WithStatus(r, "approved") = InRun(r)
        /\ Committed(r) /\ r \notin raced /\ WithStatus(r, "approved") = InRun(r)
           => run[r] = "complete"

\* A proposal stays pending for no other reason than that its camera has a job on
\* its way or one was lost.
Outstanding(c) == {j \in (UNION {jobs[b] : b \in Servers}) \cup {x.job : x \in held} \cup lost : j[1] = c}
PendingAccounted ==
    \A c \in Cams : Cardinality({r \in Runs : row[r][c].status = "pending"})
                    <= Cardinality(Outstanding(c))

SetupSafe == ConfiguredAsApproved /\ CompleteMeansApproved /\ PendingAccounted
=============================================================================
