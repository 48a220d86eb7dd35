--------------------------- MODULE Phase1Decisioning ---------------------------
(***************************************************************************)
(* Phase 1 decisioning of one case: POST /cases/{id}/phase1 and its cancel *)
(* (app/api/routers/cases.py), the decisioning queue, the worker           *)
(* (app/worker_decisioning) and the engine it runs                         *)
(* (app/decisioning/engine.py).                                            *)
(*                                                                         *)
(* As in CaseIngestion a handler reads, decides and commits later, writing *)
(* blindly the columns it changed.  One thing is locked: the engine's      *)
(* first flush updates the decision_results row (status RUNNING), and      *)
(* Postgres holds that row lock until the whole run commits or rolls back. *)
(* Everything a run writes, the step rows too, becomes visible only then.  *)
(***************************************************************************)
EXTENDS CaseStages, Naturals, FiniteSets

CONSTANTS Api, Workers,  \* database sessions of these requests, of workers,
          Others,        \* and of the rest of the system
          NSteps,        \* steps of the pipeline; 1 is the policy gate, the
                         \* last one the synthesis
          Covered,       \* steps the verification gate makes redundant
          MaxRuns,       \* bound: runs ever started
          MaxReceive     \* maxReceiveCount of the queue's redrive policy

ASSUME StepsAssumption == NSteps \in Nat /\ NSteps >= 2 /\ Covered \subseteq 2..(NSteps - 1)
ASSUME RunsAssumption == MaxRuns \in Nat /\ MaxReceive \in Nat

Steps == 1..NSteps
Gate == 1
Synthesis == NSteps
Runs == 1..MaxRuns
Sessions == Api \cup Workers \cup Others

VARIABLES
    stage,      \* cases.current_stage
    status,     \* per run: decision_results.status, "NONE" before it is committed
    decided,    \* per run: decision_results.final_decision is set
    step,       \* per run and step: decision_steps.status, "NONE" without a row
    verified,   \* some verification_results row exists for the case
    started,    \* runs inserted so far; a run's number is its created_at
    jobs,       \* runs whose message is in the queue
    received,   \* ReceiveCount of each message
    dead,       \* messages moved to the dead-letter queue
    sess        \* the transaction each session is in

runRows == <<status, decided, step>>
queue   == <<jobs, received, dead>>
vars    == <<stage, status, decided, step, verified, started, jobs, received,
             dead, sess>>

StepStatus == {"NONE", "SUCCEEDED", "SKIPPED", "FAILED"}
Done == {"SUCCEEDED", "SKIPPED"}   \* what a resumed run keeps

\* What a session remembers: the run it is about, the stage of the case row it
\* read, whether it saw a verification result, the step rows as it will leave
\* them, the next step and the status it will commit.
NoSteps == [k \in Steps |-> "NONE"]
Txn(pc, r, seen) == [pc |-> pc, run |-> r, seen |-> seen, ver |-> FALSE,
                     work |-> NoSteps, next |-> 1, end |-> "NONE"]
Idle == Txn("idle", 0, "INGESTED")

Init ==
    /\ stage = "INGESTED"
    /\ status = [r \in Runs |-> "NONE"] /\ decided = [r \in Runs |-> FALSE]
    /\ step = [r \in Runs |-> NoSteps]
    /\ verified = FALSE /\ started = 0
    /\ jobs = {} /\ received = [r \in Runs |-> 0] /\ dead = {}
    /\ sess = [s \in Sessions |-> Idle]

Set(s, t) == sess' = [sess EXCEPT ![s] = t]
Busy(s, pc) == sess[s].pc = pc
Free(s) == sess[s].pc = "idle"

\* Seeded fault: nothing is locked.
NeverLocked(r) == FALSE
\* The row lock on a run, held from the engine's first flush to its commit.
Locked(r) == \E w \in Workers : sess[w].pc \in {"running", "closing"} /\ sess[w].run = r

Committed == {r \in Runs : status[r] # "NONE"}
IsLatest(r) == r \in Committed /\ \A q \in Committed : q <= r

(***************************************************************************)
(* POST /cases/{id}/phase1: insert, publish, then commit                   *)
(***************************************************************************)
StartInsert(s) ==
    /\ Free(s) /\ stage = "INGESTED" /\ started < MaxRuns
    /\ started' = started + 1
    /\ Set(s, Txn("insert", started + 1, stage))
    /\ UNCHANGED <<stage, runRows, verified, queue>>

StartPublish(s) ==
    /\ Busy(s, "insert")
    /\ jobs' = jobs \cup {sess[s].run}
    /\ Set(s, Txn("published", sess[s].run, sess[s].seen))
    /\ UNCHANGED <<stage, runRows, verified, started, received, dead>>

StartCommit(s) ==
    /\ Busy(s, "published")
    /\ status' = [status EXCEPT ![sess[s].run] = "PENDING"]
    /\ stage' = "PHASE_1_DECISIONING"
    /\ Set(s, Idle)
    /\ UNCHANGED <<decided, step, verified, started, queue>>

(***************************************************************************)
(* POST /cases/{id}/phase1/cancel: the case row is read before the run's   *)
(***************************************************************************)
CancelBegin(s) ==
    /\ Free(s) /\ Committed # {}
    /\ Set(s, Txn("cancel", 0, stage))
    /\ UNCHANGED <<stage, runRows, verified, started, queue>>

\* RUNNING is only ever flushed, so what another session reads is PENDING.
CancelRead(s, r) ==
    /\ Busy(s, "cancel") /\ IsLatest(r) /\ status[r] \in {"PENDING", "RUNNING"}
    /\ Set(s, Txn("cancelling", r, sess[s].seen))
    /\ UNCHANGED <<stage, runRows, verified, started, queue>>

\* Seeded faults: a cancel that leaves the stage, or does not look at it.
StageLeftByCancel(s) == stage
StageForcedByCancel(s) == "INGESTED"
\* The rollback to INGESTED, by the stage this request read.
StageAfterCancel(s) ==
    IF sess[s].seen = "PHASE_1_DECISIONING" THEN "INGESTED" ELSE stage

\* The flush waits for the run's lock, that is, for the run to end.
CancelCommit(s) ==
    LET r == sess[s].run
    IN /\ Busy(s, "cancelling") /\ ~Locked(r)
       /\ status' = [status EXCEPT ![r] = "CANCELLED"]
       /\ stage' = StageAfterCancel(s)
       /\ Set(s, Idle)
       /\ UNCHANGED <<decided, step, verified, started, queue>>

(***************************************************************************)
(* The rest of the system, as far as a run sees it: whole transactions     *)
(***************************************************************************)
\* An approved re-upload takes the case back to ingestion from any stage.
Reupload(s) ==
    /\ Free(s) /\ stage # "UPLOADED" /\ stage' = "UPLOADED"
    /\ UNCHANGED <<runRows, verified, started, queue, sess>>

\* The ingestion pipeline ends.
Ingested(s) ==
    /\ Free(s) /\ stage = "UPLOADED" /\ stage' = "INGESTED"
    /\ UNCHANGED <<runRows, verified, started, queue, sess>>

\* A verification level ends with a verification_results row.
Verify(s) ==
    /\ Free(s) /\ ~verified /\ verified' = TRUE
    /\ UNCHANGED <<stage, runRows, started, queue, sess>>

(***************************************************************************)
(* The worker: process_decisioning_job and run_phase1                      *)
(***************************************************************************)
\* Seeded fault: one delivery too many.
ReceiveOnceMore(r) ==
    /\ r \in jobs /\ received[r] <= MaxReceive
    /\ received' = [received EXCEPT ![r] = @ + 1]
Receive(r) ==
    /\ r \in jobs /\ received[r] < MaxReceive
    /\ received' = [received EXCEPT ![r] = @ + 1]

\* A run that is not there, or COMPLETED, is left alone and its message dropped.
RunBegin(s, r) ==
    /\ Free(s) /\ Receive(r)
    /\ Set(s, Txn(IF status[r] \in {"NONE", "COMPLETED"} THEN "ack" ELSE "opened",
                  r, "INGESTED"))
    /\ UNCHANGED <<stage, runRows, verified, started, jobs, dead>>

\* The flush of RUNNING: waits for the row lock, then reads the case, the
\* verification results and the step rows.
RunLock(s) ==
    LET r == sess[s].run
    IN /\ Busy(s, "opened") /\ ~Locked(r)
       /\ Set(s, [pc |-> "running", run |-> r, seen |-> stage, ver |-> verified,
                  work |-> step[r], next |-> 1, end |-> "NONE"])
       /\ UNCHANGED <<stage, runRows, verified, started, queue>>

\* One turn of the loop leaves the step row with status st and goes on; the loop
\* ends with the last step.
Advance(s, st) ==
    LET k == sess[s].next
        last == k = NSteps
    IN /\ Set(s, [pc |-> IF last THEN "closing" ELSE "running",
                  run |-> sess[s].run, seen |-> sess[s].seen, ver |-> sess[s].ver,
                  work |-> [sess[s].work EXCEPT ![k] = st], next |-> k + 1,
                  end |-> IF last THEN "COMPLETED" ELSE "NONE"])
       /\ UNCHANGED <<stage, runRows, verified, started, queue>>

\* It ends early with status e.
Break(s, e) ==
    /\ Set(s, [pc |-> "closing", run |-> sess[s].run, seen |-> sess[s].seen,
               ver |-> sess[s].ver,
               work |-> [sess[s].work EXCEPT ![sess[s].next] = "FAILED"],
               next |-> sess[s].next, end |-> e])
    /\ UNCHANGED <<stage, runRows, verified, started, queue>>

Kept(s) == sess[s].work[sess[s].next] \in Done
Redundant(s) == ~Kept(s) /\ sess[s].ver /\ sess[s].next \in Covered
ToRun(s) == ~Kept(s) /\ ~Redundant(s)

StepKept(s) ==
    Busy(s, "running") /\ Kept(s) /\ Advance(s, sess[s].work[sess[s].next])

StepSkipped(s) ==
    Busy(s, "running") /\ Redundant(s) /\ Advance(s, "SKIPPED")

\* A step that fails without raising does not stop the run ...
StepRuns(s, st) ==
    /\ Busy(s, "running") /\ ToRun(s) /\ st \in {"SUCCEEDED", "FAILED"}
    /\ sess[s].next = Gate => st = "SUCCEEDED"
    /\ Advance(s, st)

\* Seeded fault: hard_fail does not end the run.
GateIgnored(s) ==
    Busy(s, "running") /\ ToRun(s) /\ sess[s].next = Gate /\ Advance(s, "FAILED")
\* ... except the policy gate: hard_fail ends it, without a synthesis.
GateFails(s) ==
    Busy(s, "running") /\ ToRun(s) /\ sess[s].next = Gate /\ Break(s, "COMPLETED")

StepRaises(s) ==
    Busy(s, "running") /\ ToRun(s) /\ Break(s, "FAILED")

\* The handler's commit.  A move of the stage the table forbids is swallowed; a
\* FAILED run moves nothing.
Synthesised(s) ==
    /\ sess[s].end = "COMPLETED" /\ sess[s].next > Synthesis
    /\ sess[s].work[Synthesis] = "SUCCEEDED"

\* Seeded fault: a completed run leaves the stage.
StageLeftByRun(s) == stage
StageAfterRun(s) ==
    IF sess[s].end = "COMPLETED" /\ CanTransition(sess[s].seen, "PHASE_1_COMPLETE")
      THEN "PHASE_1_COMPLETE" ELSE stage

RunCommit(s) ==
    LET r == sess[s].run
    IN /\ Busy(s, "closing")
       /\ status' = [status EXCEPT ![r] = sess[s].end]
       /\ decided' = [decided EXCEPT ![r] = @ \/ Synthesised(s)]
       /\ step' = [step EXCEPT ![r] = sess[s].work]
       /\ stage' = StageAfterRun(s)
       /\ Set(s, Txn("ack", r, "INGESTED"))
       /\ UNCHANGED <<verified, started, queue>>

Acknowledge(s) ==
    /\ Busy(s, "ack")
    /\ jobs' = jobs \ {sess[s].run}
    /\ Set(s, Idle)
    /\ UNCHANGED <<stage, runRows, verified, started, received, dead>>

\* Seeded fault: the message of a failed handler is deleted all the same.
AbortAcknowledges(s) ==
    /\ ~Free(s)
    /\ jobs' = jobs \ {sess[s].run}
    /\ Set(s, Idle)
    /\ UNCHANGED <<stage, runRows, verified, started, received, dead>>
\* A crash, or an exception outside a step: the transaction rolls back, and a
\* message already published or not yet deleted stays in the queue.
Abort(s) ==
    /\ ~Free(s)
    /\ Set(s, Idle)
    /\ UNCHANGED <<stage, runRows, verified, started, queue>>

\* Seeded fault: the redrive waits for a delivery that never comes.
DeadLetterLate(r) ==
    /\ r \in jobs /\ received[r] > MaxReceive
    /\ jobs' = jobs \ {r} /\ dead' = dead \cup {r}
    /\ UNCHANGED <<stage, runRows, verified, started, received, sess>>
DeadLetter(r) ==
    /\ r \in jobs /\ received[r] = MaxReceive
    /\ jobs' = jobs \ {r} /\ dead' = dead \cup {r}
    /\ UNCHANGED <<stage, runRows, verified, started, received, sess>>

-----------------------------------------------------------------------------
Request(s) == StartInsert(s) \/ CancelBegin(s)

Answer(s) ==
    \/ StartPublish(s) \/ StartCommit(s) \/ CancelCommit(s)
    \/ \E r \in Runs : CancelRead(s, r)

Step(s) ==
    \/ StepKept(s) \/ StepSkipped(s) \/ GateFails(s) \/ StepRaises(s)
    \/ \E st \in StepStatus : StepRuns(s, st)

Work(s) == RunLock(s) \/ Step(s) \/ RunCommit(s) \/ Acknowledge(s)

Elsewhere(s) == Reupload(s) \/ Ingested(s) \/ Verify(s)

Next ==
    \/ \E s \in Others : Elsewhere(s)
    \/ \E s \in Api : Request(s) \/ Answer(s) \/ Abort(s)
    \/ \E s \in Workers : Work(s) \/ Abort(s) \/ \E r \in Runs : RunBegin(s, r)
    \/ \E r \in Runs : DeadLetter(r)

Spec == Init /\ [][Next]_vars

\* A worker polls for ever, a transaction ends (it commits or it fails), and
\* SQS moves a message it has delivered maxReceiveCount times.
Fairness ==
    /\ \A s \in Workers : /\ SF_vars(\E r \in Runs : RunBegin(s, r))
                          /\ WF_vars(Work(s) \/ Abort(s))
    /\ \A s \in Api : WF_vars(Answer(s) \/ Abort(s))
    /\ \A r \in Runs : WF_vars(DeadLetter(r))

FairSpec == Spec /\ Fairness

-----------------------------------------------------------------------------
\* Type invariant: the run rows, the queue and what each session remembers.
Transaction ==
    [pc : {"idle", "insert", "published", "cancel", "cancelling",
           "opened", "running", "closing", "ack"},
     run : 0..MaxRuns, seen : Stages, ver : BOOLEAN,
     work : [Steps -> StepStatus], next : 1..(NSteps + 1),
     end : {"NONE", "COMPLETED", "FAILED"}]

TypeOK ==
    /\ stage \in Stages
    /\ status \in [Runs -> {"NONE", "PENDING", "COMPLETED", "FAILED", "CANCELLED"}]
    /\ decided \in [Runs -> BOOLEAN]
    /\ step \in [Runs -> [Steps -> StepStatus]]
    /\ verified \in BOOLEAN /\ started \in 0..MaxRuns
    /\ jobs \subseteq Runs /\ dead \subseteq Runs
    /\ received \in [Runs -> 0..MaxReceive]
    /\ sess \in [Sessions -> Transaction]

\* A run with a final decision passed the policy gate, ran its synthesis, and has
\* a row for every step - whatever deliveries of its message overlap, however
\* often it crashed, failed, was cancelled and was run again.  (run_phase1's resume
\* branch, hard_fail short-circuit and synthesis extraction.)
DecisionRestsOnSteps ==
    \A r \in Runs : decided[r] =>
        /\ step[r][Gate] = "SUCCEEDED" /\ step[r][Synthesis] = "SUCCEEDED"
        /\ \A k \in Steps : step[r][k] # "NONE"

\* A step that succeeded or was skipped is never run, and paid for, a second time:
\* no step row leaves SUCCEEDED or SKIPPED, also when two workers hold the same
\* message.  (The resume branch reads the rows only once the row lock is held.)
DoneStepsStay ==
    [][\A r \in Runs, k \in Steps :
          step[r][k] \in Done => step'[r][k] = step[r][k]]_vars

\* Every message leaves the queue, handled or dead-lettered: no wait for a run's
\* lock, by a second delivery or a cancel, lasts for ever.
MessageLeaves == \A r \in Runs : r \in jobs ~> r \notin jobs

\* The decisioning queue is the queue of services/queue.py: a run's message is
\* deleted only once a worker that received it committed the run or had nothing to
\* do, or is moved after maxReceiveCount deliveries; none is lost to a worker that
\* fails, and none is published twice - whatever deliveries and requests overlap.
WorkOf(t) ==
    IF t.pc \in {"opened", "running", "closing"} THEN [does |-> "handling", msg |-> t.run]
    ELSE IF t.pc = "ack" THEN [does |-> "handled", msg |-> t.run]
    ELSE [does |-> "waiting"]
Queue == INSTANCE JobQueue WITH
    Messages <- Runs, Handlers <- Sessions, queued <- jobs, dead <- (dead # {}),
    handler <- [s \in Sessions |-> WorkOf(sess[s])]
RefinesJobQueue == Queue!Spec

\* Transactions that do not overlap: a case in PHASE_1_DECISIONING has a run that
\* is yet to run or one that failed.
DecisioningAccounted ==
    stage = "PHASE_1_DECISIONING" => \E r \in Runs : status[r] \in {"PENDING", "FAILED"}

\* Transactions that do not overlap: a pending run has its message in the queue,
\* or in the dead-letter queue.  (start_phase1 publishes before it commits; the
\* engine drops the message of a run it does not find.)
PendingRunHasMessage ==
    \A r \in Runs : status[r] = "PENDING" => r \in jobs \cup dead

\* Transactions that do not overlap: the stage moves only as stages.py permits,
\* or back to UPLOADED by a re-upload.
StageMovesPermitted ==
    [][stage' # stage => CommittedMove(stage, stage') \/ stage' = "UPLOADED"]_vars

\* Under fairness a case leaves PHASE_1_DECISIONING, unless a run failed or its
\* message went to the dead-letter queue.
DecisioningResolves ==
    stage = "PHASE_1_DECISIONING" ~>
        \/ stage # "PHASE_1_DECISIONING" \/ dead # {}
        \/ \E r \in Runs : status[r] = "FAILED"

\* The knowledge-transfer guide: each step persists its row before the run moves
\* on, so a crashed run resumes after the last successful step.
StepsPersisted ==
    \A s \in Workers : Busy(s, "running") =>
        \A k \in 1..(sess[s].next - 1) : step[sess[s].run][k] # "NONE"

\* The M5 design: the worker checks for cancellation and exits, so a cancelled run
\* stays cancelled.
CancelledStays ==
    [][\A r \in Runs : status[r] = "CANCELLED" => status'[r] = "CANCELLED"]_vars

=============================================================================
