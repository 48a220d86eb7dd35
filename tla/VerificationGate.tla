--------------------------- MODULE VerificationGate ---------------------------
(***************************************************************************)
(* One verification level of one case: its runs, their issues, what the    *)
(* assessor and the MD do to them (app/api/routers/verification.py,        *)
(* admin_l3_rerun.py) and the decisions a new run carries forward          *)
(* (app/verification/levels/_common.py).  No transaction touches the rows  *)
(* of two levels, so the levels are independent.                           *)
(*                                                                         *)
(* A handler reads, decides and commits later, as in the other modules.    *)
(* An MD decision holds the row lock of the run its issue belongs to; an   *)
(* assessor's resolution holds nothing.                                    *)
(***************************************************************************)
EXTENDS Naturals

CONSTANTS Sessions,     \* database sessions
          SubSteps,     \* what the level checks; a run fires each at most once
          MaxRuns       \* bound: runs ever triggered

ASSUME RunsAssumption == MaxRuns \in Nat

Runs == 1..MaxRuns

VARIABLES
    status,     \* per run: verification_results.status, "NONE" before its commit
    issue,      \* per run and sub-step: level_issues.status, "NONE" without a row
    inserted,   \* runs inserted so far; a run's number is its created_at
    sess        \* the transaction each session is in

vars == <<status, issue, inserted, sess>>

Undecided == {"OPEN", "ASSESSOR_RESOLVED"}
Decisions == {"MD_APPROVED", "MD_REJECTED"}
IssueStatus == {"NONE"} \cup Undecided \cup Decisions

NoIssues == [i \in SubSteps |-> "NONE"]

\* What a session remembers: the run it is about, the issue it will write and the
\* status it will have, the rows a level will leave, the status of the run.
Txn(pc, r) == [pc |-> pc, run |-> r, on |-> {}, to |-> "NONE",
               rows |-> NoIssues, end |-> "NONE"]
Idle == Txn("idle", 0)

Init ==
    /\ status = [r \in Runs |-> "NONE"]
    /\ issue = [r \in Runs |-> NoIssues]
    /\ inserted = 0
    /\ sess = [s \in Sessions |-> Idle]

Set(s, t) == sess' = [sess EXCEPT ![s] = t]
Busy(s, pc) == sess[s].pc = pc
Free(s) == Busy(s, "idle")

Committed == {r \in Runs : status[r] # "NONE"}
Locked(r) == \E s \in Sessions : Busy(s, "decided") /\ sess[s].run = r

(***************************************************************************)
(* POST /cases/{id}/verification/{level} and the mass re-run of level 3    *)
(***************************************************************************)
\* The run's row is inserted, and so dated, before the level's work is done.
InsertRun(s) ==
    /\ Free(s) /\ inserted < MaxRuns
    /\ inserted' = inserted + 1
    /\ Set(s, Txn("running", inserted + 1))
    /\ UNCHANGED <<status, issue>>

\* The guard looks for a RUNNING row among the committed ones.
TriggerBegin(s) ==
    /\ \A r \in Committed : status[r] # "RUNNING"
    /\ InsertRun(s)

\* The background task of rerun-stale calls the level without the guard.
RerunBegin(s) == InsertRun(s)

\* The most recent other run this transaction sees, which a slower, older run
\* may find to be newer than itself.
Previous(r) == {q \in Committed \ {r} : \A p \in Committed \ {r} : p <= q}

\* carry_forward_prior_decisions: a settled or resolved issue keeps its status,
\* by sub-step, whatever was found this time.
Carried(found, q) ==
    [i \in found |-> IF issue[q][i] = "NONE" THEN "OPEN" ELSE issue[q][i]]

FiredOpen(found) == [i \in found |-> "OPEN"]
AsRows(fired) == [i \in SubSteps |-> IF i \in DOMAIN fired THEN fired[i] ELSE "NONE"]

\* The level's own verdict, and what carrying forward makes of it.
Verdict(critical) == IF critical = {} THEN "PASSED" ELSE "BLOCKED"

\* Seeded fault: a rejected issue does not keep the level blocked.
OverriddenIfSettled(fired, critical) ==
    IF critical # {} /\ \A i \in critical : fired[i] \in Decisions
      THEN "PASSED_WITH_MD_OVERRIDE" ELSE Verdict(critical)
Recomputed(fired, critical) ==
    IF /\ critical # {}
       /\ \A i \in DOMAIN fired : fired[i] # "MD_REJECTED"
       /\ \A i \in critical : fired[i] \in Decisions
      THEN "PASSED_WITH_MD_OVERRIDE" ELSE Verdict(critical)

Finish(s, fired, verdict) ==
    /\ Set(s, [pc |-> "finished", run |-> sess[s].run, on |-> {}, to |-> "NONE",
               rows |-> AsRows(fired), end |-> verdict])
    /\ UNCHANGED <<status, issue, inserted>>

\* The level fires issues, some of them critical, and there is nothing to carry
\* forward ...
RunFirst(s, found, critical) ==
    /\ Busy(s, "running") /\ Previous(sess[s].run) = {}
    /\ Finish(s, FiredOpen(found), Verdict(critical))

\* ... or it carries forward what the previous run's issues are at this moment.
RunCarries(s, q, found, critical) ==
    LET fired == Carried(found, q)
    IN /\ Busy(s, "running") /\ q \in Previous(sess[s].run)
       /\ Finish(s, fired, IF issue[q] = NoIssues THEN Verdict(critical)
                                                  ELSE Recomputed(fired, critical))

\* Seeded fault: the run's row is committed as it was inserted.
RunLeftRunning(s) ==
    /\ Busy(s, "finished")
    /\ status' = [status EXCEPT ![sess[s].run] = "RUNNING"]
    /\ issue' = [issue EXCEPT ![sess[s].run] = sess[s].rows]
    /\ Set(s, Idle)
    /\ UNCHANGED inserted
RunCommit(s) ==
    /\ Busy(s, "finished")
    /\ status' = [status EXCEPT ![sess[s].run] = sess[s].end]
    /\ issue' = [issue EXCEPT ![sess[s].run] = sess[s].rows]
    /\ Set(s, Idle)
    /\ UNCHANGED inserted

(***************************************************************************)
(* POST /cases/verification/issues/{id}/resolve: no lock                   *)
(***************************************************************************)
\* Reading an issue, of any run, also a superseded one, to give it the status to: the
\* column is written only when the status read is another one.
OpenIssue(s, pc, r, i, to) ==
    /\ Free(s) /\ r \in Committed /\ issue[r][i] \in Undecided
    /\ Set(s, [pc |-> pc, run |-> r, on |-> {j \in {i} : issue[r][j] # to},
               to |-> to, rows |-> NoIssues, end |-> "NONE"])
    /\ UNCHANGED <<status, issue, inserted>>

ResolveBegin(s, r, i) == OpenIssue(s, "resolving", r, i, "ASSESSOR_RESOLVED")

\* The issues of the transaction's run, its own as it will be.
SeenRow(s, i) == IF i \in sess[s].on THEN sess[s].to ELSE issue[sess[s].run][i]

WriteIssue(s) ==
    issue' = [issue EXCEPT ![sess[s].run] = [i \in SubSteps |-> SeenRow(s, i)]]

ResolveCommit(s) ==
    /\ Busy(s, "resolving")
    /\ WriteIssue(s)
    /\ Set(s, Idle)
    /\ UNCHANGED <<status, inserted>>

(***************************************************************************)
(* POST /cases/verification/issues/{id}/decide                             *)
(***************************************************************************)
\* The issue's status is checked before the run's row is locked.
DecideBegin(s, r, i, d) == d \in Decisions /\ OpenIssue(s, "deciding", r, i, d)

\* An approval promotes a blocked level once every issue is approved; a rejection
\* blocks an overridden one.
Promotes(s, st) ==
    /\ st = "BLOCKED" /\ sess[s].to = "MD_APPROVED"
    /\ \A i \in SubSteps : SeenRow(s, i) \in {"NONE", "MD_APPROVED"}
Demotes(s, st) == st = "PASSED_WITH_MD_OVERRIDE" /\ sess[s].to = "MD_REJECTED"

\* Seeded fault: a rejection does not take an override back.
OnlyPromoted(s, st) == IF Promotes(s, st) THEN "PASSED_WITH_MD_OVERRIDE" ELSE st
Decided(s, st) ==
    IF Promotes(s, st) THEN "PASSED_WITH_MD_OVERRIDE"
    ELSE IF Demotes(s, st) THEN "BLOCKED" ELSE st

\* Seeded fault: the parent row is not locked.
DecideUnlocked(s) ==
    LET r == sess[s].run
    IN /\ Busy(s, "deciding")
       /\ Set(s, [sess[s] EXCEPT !.pc = "decided", !.end = Decided(s, status[r])])
       /\ UNCHANGED <<status, issue, inserted>>
\* SELECT ... FOR UPDATE of the run, then its issues.
DecideLock(s) ==
    LET r == sess[s].run
    IN /\ Busy(s, "deciding") /\ ~Locked(r)
       /\ Set(s, [sess[s] EXCEPT !.pc = "decided", !.end = Decided(s, status[r])])
       /\ UNCHANGED <<status, issue, inserted>>

DecideCommit(s) ==
    /\ Busy(s, "decided")
    /\ status' = [status EXCEPT ![sess[s].run] = sess[s].end]
    /\ WriteIssue(s)
    /\ Set(s, Idle)
    /\ UNCHANGED inserted

(***************************************************************************)
(* GET /verification/md-queue                                              *)
(***************************************************************************)
\* The issues of superseded runs are left out.
_latest_vr_ids == {r \in Committed : \A p \in Committed : p <= r}

Queued(statuses) ==
    {q \in Runs \X SubSteps : q[1] \in _latest_vr_ids /\ issue[q[1]][q[2]] \in statuses}
\* Seeded fault: the MD sees what an assessor has resolved and nothing else.
ResolvedOnly == Queued({"ASSESSOR_RESOLVED"})
md_queue == Queued(Undecided)

\* An exception or a crash: the transaction rolls back, and an inserted run with it.
Abort(s) ==
    /\ ~Free(s)
    /\ Set(s, Idle)
    /\ UNCHANGED <<status, issue, inserted>>

-----------------------------------------------------------------------------
Run(s) ==
    \/ TriggerBegin(s) \/ RerunBegin(s) \/ RunCommit(s)
    \/ \E found \in SUBSET SubSteps : \E critical \in SUBSET found :
         \/ RunFirst(s, found, critical)
         \/ \E q \in Runs : RunCarries(s, q, found, critical)

Resolve(s) == ResolveCommit(s) \/ \E r \in Runs, i \in SubSteps : ResolveBegin(s, r, i)

Decide(s) ==
    \/ DecideLock(s) \/ DecideCommit(s)
    \/ \E r \in Runs, i \in SubSteps, d \in Decisions : DecideBegin(s, r, i, d)

Next == \E s \in Sessions : Run(s) \/ Resolve(s) \/ Decide(s) \/ Abort(s)

Spec == Init /\ [][Next]_vars

-----------------------------------------------------------------------------
\* Type invariant.  A committed run has its verdict: RUNNING is only ever flushed.
LevelStatus == {"PASSED", "BLOCKED", "PASSED_WITH_MD_OVERRIDE"}

Transaction ==
    [pc : {"idle", "running", "finished", "resolving", "deciding", "decided"},
     run : 0..MaxRuns, on : SUBSET SubSteps, to : IssueStatus,
     rows : [SubSteps -> IssueStatus], end : LevelStatus \cup {"NONE"}]

TypeOK ==
    /\ status \in [Runs -> LevelStatus \cup {"NONE"}]
    /\ issue \in [Runs -> [SubSteps -> IssueStatus]]
    /\ inserted \in 0..MaxRuns
    /\ sess \in [Sessions -> Transaction]

\* A level that passes by the MD's override has no issue the MD rejected, whatever
\* decisions, resolutions and re-runs overlap.  (decide_issue's second branch and
\* carry_forward's any_rejected: "the rejection silently rides under a promoted
\* level".)
OverrideHasNoRejection ==
    \A r \in Runs : status[r] = "PASSED_WITH_MD_OVERRIDE" =>
        \A i \in SubSteps : issue[r][i] # "MD_REJECTED"

\* No promotion is lost: a blocked level has an issue the MD has yet to approve, or
\* rejected.  (The lock of the parent row is there so that two approvals of
\* siblings see each other.)
BlockedHasUnapproved ==
    \A r \in Runs : status[r] = "BLOCKED" =>
        \E i \in SubSteps : issue[r][i] \notin {"NONE", "MD_APPROVED"}

\* A level does not wait for anybody unseen: while its latest run is blocked the MD's
\* queue has an issue of it, or the MD has rejected one and it is the assessor's turn.
BlockedIsQueued ==
    \A r \in _latest_vr_ids : status[r] = "BLOCKED" =>
        \/ \E i \in SubSteps : <<r, i>> \in md_queue
        \/ \E i \in SubSteps : issue[r][i] = "MD_REJECTED"

\* Nobody is blocked for nothing: a blocked run has an issue that is not approved, and
\* that of the latest run is one somebody is shown.
BlockedAwaitsSomebody == BlockedHasUnapproved /\ BlockedIsQueued

\* The guard's comment: a second trigger of a level at work is bounced, and makes no
\* second model call and no second row.
OneRunAtWork ==
    \A s, t \in Sessions :
        {sess[s].pc, sess[t].pc} \subseteq {"running", "finished"} => s = t
=============================================================================
