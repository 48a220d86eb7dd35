----------------------------- MODULE Phase1Proofs -----------------------------
(***************************************************************************)
(* Theorems about Phase1Decisioning, for every set of sessions, number of  *)
(* steps and bound.                                                        *)
(***************************************************************************)
EXTENDS Phase1Decisioning, TLAPS

-----------------------------------------------------------------------------
(***************************************************************************)
(* Type correctness                                                        *)
(***************************************************************************)
\* What TypeOK needs to be inductive: a session at work on a run has one, the
\* loop's next step exists, and a run about to commit has its status.
SessionOK ==
    \A s \in Sessions :
        /\ sess[s].pc \notin {"idle", "cancel"} => sess[s].run # 0
        /\ Busy(s, "running") => sess[s].next \in Steps
        /\ Busy(s, "closing") => sess[s].end # "NONE"

LEMMA Constants ==
    /\ NSteps \in Nat /\ Gate \in Steps /\ Synthesis \in Steps /\ Gate \notin Covered
    /\ NoSteps \in [Steps -> StepStatus]
  BY StepsAssumption DEF Steps, Gate, Synthesis, NoSteps, StepStatus

LEMMA TxnType ==
  ASSUME NEW pc \in {"idle", "insert", "published", "cancel", "cancelling", "opened", "ack"},
         NEW r \in 0..MaxRuns, NEW seen \in Stages
  PROVE  Txn(pc, r, seen) \in Transaction
<1>1. 1 \in 1..(NSteps + 1)
  BY Constants
<1>2. pc \in {"idle", "insert", "published", "cancel", "cancelling",
              "opened", "running", "closing", "ack"}
  OBVIOUS
<1>3. NoSteps \in [Steps -> StepStatus] /\ FALSE \in BOOLEAN
      /\ "NONE" \in {"NONE", "COMPLETED", "FAILED"}
  BY Constants
<1>4. [pc |-> pc, run |-> r, seen |-> seen, ver |-> FALSE,
       work |-> NoSteps, next |-> 1, end |-> "NONE"] \in Transaction
  BY <1>1, <1>2, <1>3, Zenon DEF Transaction
<1>5. QED
  BY <1>4 DEF Txn

LEMMA IdleType == Idle \in Transaction /\ Idle.pc = "idle"
<1>1. 0 \in 0..MaxRuns /\ "INGESTED" \in Stages
  BY RunsAssumption DEF Stages
<1>2. QED
  BY <1>1, TxnType DEF Idle, Txn

LEMMA TypeInit == Init => TypeOK /\ SessionOK
<1> SUFFICES ASSUME Init PROVE TypeOK /\ SessionOK
  OBVIOUS
<1>1. 0 \in 0..MaxReceive /\ 0 \in 0..MaxRuns
  BY RunsAssumption
<1>2. /\ step \in [Runs -> [Steps -> StepStatus]]
      /\ received \in [Runs -> 0..MaxReceive]
      /\ sess \in [Sessions -> Transaction]
  BY <1>1, Constants, IdleType DEF Init
<1>3. SessionOK
  BY IdleType DEF Init, SessionOK, Busy
<1>4. QED
  BY <1>1, <1>2, <1>3 DEF Init, TypeOK, Stages

USE DEF Set, Busy, Free

\* A step that puts one session in a well-formed transaction keeps all of them so.
LEMMA SetSession ==
  ASSUME TypeOK, SessionOK, NEW s \in Sessions, NEW t \in Transaction, Set(s, t),
         t.pc \notin {"idle", "cancel"} => t.run # 0,
         t.pc = "running" => t.next \in Steps,
         t.pc = "closing" => t.end # "NONE"
  PROVE  /\ sess' \in [Sessions -> Transaction] /\ SessionOK'
         /\ sess'[s] = t /\ \A q \in Sessions \ {s} : sess'[q] = sess[q]
  BY DEF TypeOK, SessionOK

LEMMA SetTxn ==
  ASSUME TypeOK, SessionOK, NEW s \in Sessions,
         NEW pc \in {"insert", "published", "cancelling", "opened", "ack"},
         NEW r \in Runs, NEW seen \in Stages, Set(s, Txn(pc, r, seen))
  PROVE  sess' \in [Sessions -> Transaction] /\ SessionOK'
<1>1. r \in 0..MaxRuns /\ r # 0
  BY RunsAssumption DEF Runs
<1>2. Txn(pc, r, seen) \in Transaction
  BY <1>1, TxnType
<1>3. Txn(pc, r, seen).run = r /\ Txn(pc, r, seen).pc = pc
  BY DEF Txn
<1>4. QED
  BY <1>1, <1>2, <1>3, SetSession

LEMMA TypeRequests ==
  ASSUME TypeOK, SessionOK, NEW s \in Api, Request(s) \/ Answer(s)
  PROVE  TypeOK' /\ SessionOK'
<1> USE RunsAssumption DEF runRows, queue
<1>0. /\ s \in Sessions /\ sess[s].run \in 0..MaxRuns /\ sess[s].seen \in Stages
      /\ started \in 0..MaxRuns /\ stage \in Stages
      /\ sess[s].pc \notin {"idle", "cancel"} => sess[s].run \in Runs
  BY DEF Sessions, TypeOK, Transaction, SessionOK, Runs
<1>1. CASE StartInsert(s)
  <2>1. started + 1 \in 0..MaxRuns /\ started + 1 # 0
    BY <1>0, <1>1 DEF StartInsert
  <2>2. Txn("insert", started + 1, stage) \in Transaction
    BY <1>0, <2>1, TxnType
  <2>3. Txn("insert", started + 1, stage).run # 0
        /\ Txn("insert", started + 1, stage).pc = "insert"
    BY <2>1 DEF Txn
  <2>4. sess' \in [Sessions -> Transaction] /\ SessionOK'
    BY <1>0, <1>1, <2>2, <2>3, SetSession DEF StartInsert
  <2>5. QED
    BY <1>1, <2>1, <2>4 DEF StartInsert, TypeOK
<1>2. CASE StartPublish(s)
  <2>1. sess[s].run \in Runs
    BY <1>0, <1>2 DEF StartPublish
  <2>3. sess' \in [Sessions -> Transaction] /\ SessionOK'
    BY <1>0, <1>2, <2>1, SetTxn DEF StartPublish
  <2>4. QED
    BY <1>2, <2>1, <2>3 DEF StartPublish, TypeOK
<1>3. CASE StartCommit(s)
  <2>1. sess' \in [Sessions -> Transaction] /\ SessionOK'
    BY <1>0, <1>3, IdleType, SetSession DEF StartCommit
  <2>2. QED
    BY <1>3, <2>1 DEF StartCommit, TypeOK, Stages
<1>4. CASE CancelBegin(s)
  <2>1. Txn("cancel", 0, stage) \in Transaction
    BY <1>0, TxnType
  <2>2. sess' \in [Sessions -> Transaction] /\ SessionOK'
    BY <1>0, <1>4, <2>1, SetSession DEF CancelBegin, Txn
  <2>3. QED
    BY <1>4, <2>2 DEF CancelBegin, TypeOK
<1>5. ASSUME NEW r \in Runs, CancelRead(s, r)
      PROVE  TypeOK' /\ SessionOK'
  <2>2. sess' \in [Sessions -> Transaction] /\ SessionOK'
    BY <1>0, <1>5, SetTxn DEF CancelRead
  <2>3. QED
    BY <1>5, <2>2 DEF CancelRead, TypeOK
<1>6. CASE CancelCommit(s)
  <2>1. sess' \in [Sessions -> Transaction] /\ SessionOK'
    BY <1>0, <1>6, IdleType, SetSession DEF CancelCommit
  <2>2. stage' \in Stages
    BY <1>0, <1>6 DEF CancelCommit, StageAfterCancel, Stages
  <2>3. QED
    BY <1>6, <2>1, <2>2 DEF CancelCommit, TypeOK
<1>7. QED
  BY <1>1, <1>2, <1>3, <1>4, <1>5, <1>6 DEF Request, Answer

\* One turn of the loop, or its end.
LEMMA TypeLoop ==
  ASSUME TypeOK, SessionOK, NEW s \in Workers, Step(s)
  PROVE  TypeOK' /\ SessionOK'
<1>0. /\ s \in Sessions /\ sess[s] \in Transaction
      /\ Busy(s, "running") /\ sess[s].run # 0 /\ sess[s].next \in Steps
      /\ sess[s].work \in [Steps -> StepStatus]
  BY DEF Sessions, TypeOK, SessionOK, Transaction, Step, StepKept, StepSkipped, StepRuns,
         GateFails, StepRaises
<1>1. ASSUME NEW t \in Transaction, Set(s, t), t.run # 0,
             t.pc = "running" => t.next \in Steps,
             t.pc = "closing" => t.end # "NONE",
             UNCHANGED <<stage, runRows, verified, started, queue>>
      PROVE  TypeOK' /\ SessionOK'
  <2>1. sess' \in [Sessions -> Transaction] /\ SessionOK'
    BY <1>0, <1>1, SetSession
  <2>2. QED
    BY <1>1, <2>1 DEF TypeOK, runRows, queue
<1>2. ASSUME NEW st \in StepStatus, Advance(s, st)
      PROVE  TypeOK' /\ SessionOK'
  <2> DEFINE k == sess[s].next
             w == [sess[s].work EXCEPT ![k] = st]
             t == [pc |-> IF k = NSteps THEN "closing" ELSE "running",
                   run |-> sess[s].run, seen |-> sess[s].seen, ver |-> sess[s].ver,
                   work |-> w, next |-> k + 1,
                   end |-> IF k = NSteps THEN "COMPLETED" ELSE "NONE"]
  <2>1. w \in [Steps -> StepStatus]
    BY <1>0
  <2>2. k + 1 \in 1..(NSteps + 1) /\ (k # NSteps => k + 1 \in Steps)
    BY <1>0, Constants DEF Steps
  <2> HIDE DEF w
  <2>3. t \in Transaction
    BY <1>0, <2>1, <2>2 DEF Transaction
  <2>4. Set(s, t) /\ UNCHANGED <<stage, runRows, verified, started, queue>>
    BY <1>2 DEF Advance, w
  <2>5. QED
    BY <1>0, <1>1, <2>2, <2>3, <2>4
<1>3. ASSUME NEW e \in {"COMPLETED", "FAILED"}, Break(s, e)
      PROVE  TypeOK' /\ SessionOK'
  <2> DEFINE w == [sess[s].work EXCEPT ![sess[s].next] = "FAILED"]
             t == [pc |-> "closing", run |-> sess[s].run, seen |-> sess[s].seen,
                   ver |-> sess[s].ver, work |-> w, next |-> sess[s].next, end |-> e]
  <2>1. w \in [Steps -> StepStatus]
    BY <1>0 DEF StepStatus
  <2> HIDE DEF w
  <2>2. t \in Transaction
    BY <1>0, <2>1 DEF Transaction
  <2>3. Set(s, t) /\ UNCHANGED <<stage, runRows, verified, started, queue>>
    BY <1>3 DEF Break, w
  <2>4. QED
    BY <1>0, <1>1, <2>2, <2>3
<1>4. QED
  <2>1. sess[s].work[sess[s].next] \in StepStatus
    BY <1>0
  <2>2. QED
    BY <1>2, <1>3, <2>1
    DEF Step, StepKept, StepSkipped, StepRuns, GateFails, StepRaises, StepStatus

LEMMA TypeWork ==
  ASSUME TypeOK, SessionOK, NEW s \in Workers,
         \/ RunLock(s) \/ RunCommit(s) \/ Acknowledge(s)
         \/ \E r \in Runs : RunBegin(s, r)
  PROVE  TypeOK' /\ SessionOK'
<1> USE RunsAssumption DEF runRows, queue
<1>0. /\ s \in Sessions /\ sess[s] \in Transaction /\ sess[s].run \in 0..MaxRuns
      /\ sess[s].work \in [Steps -> StepStatus] /\ "INGESTED" \in Stages
      /\ sess[s].pc \notin {"idle", "cancel"} => sess[s].run \in Runs
  BY DEF Sessions, TypeOK, Transaction, SessionOK, Runs, Stages
<1>1. ASSUME NEW r \in Runs, RunBegin(s, r)
      PROVE  TypeOK' /\ SessionOK'
  <2>1. PICK pc \in {"ack", "opened"} : Set(s, Txn(pc, r, "INGESTED"))
    BY <1>1 DEF RunBegin
  <2>3. sess' \in [Sessions -> Transaction] /\ SessionOK'
    BY <1>0, <2>1, SetTxn
  <2>4. received' \in [Runs -> 0..MaxReceive]
    BY <1>1 DEF RunBegin, Receive, TypeOK
  <2>5. QED
    BY <1>1, <2>3, <2>4 DEF RunBegin, TypeOK
<1>2. CASE RunLock(s)
  <2> DEFINE r == sess[s].run
             t == [pc |-> "running", run |-> r, seen |-> stage, ver |-> verified,
                   work |-> step[r], next |-> 1, end |-> "NONE"]
  <2>1. r \in Runs /\ r \in 0..MaxRuns /\ r # 0
    BY <1>0, <1>2 DEF RunLock, Runs
  <2>2. step[r] \in [Steps -> StepStatus] /\ stage \in Stages /\ verified \in BOOLEAN
    BY <2>1 DEF TypeOK
  <2>3. 1 \in 1..(NSteps + 1) /\ 1 \in Steps
    BY Constants DEF Gate
  <2> HIDE DEF r
  <2>4. t \in Transaction
    BY <2>1, <2>2, <2>3 DEF Transaction
  <2>5. sess' \in [Sessions -> Transaction] /\ SessionOK'
    BY <1>0, <1>2, <2>1, <2>3, <2>4, SetSession DEF RunLock, r
  <2>6. QED
    BY <1>2, <2>5 DEF RunLock, TypeOK
<1>3. CASE RunCommit(s)
  <2>1. sess[s].run \in Runs
    BY <1>0, <1>3 DEF RunCommit
  <2>2. sess' \in [Sessions -> Transaction] /\ SessionOK'
    BY <1>0, <1>3, <2>1, SetTxn DEF RunCommit
  <2>3. stage' \in Stages
    BY <1>3 DEF RunCommit, StageAfterRun, TypeOK, Stages
  <2>4. step' \in [Runs -> [Steps -> StepStatus]]
    BY <1>0, <1>3 DEF RunCommit, TypeOK
  <2>5. sess[s].end \in {"COMPLETED", "FAILED"}
    BY <1>0, <1>3 DEF RunCommit, SessionOK, Transaction
  <2>6. QED
    BY <1>3, <2>2, <2>3, <2>4, <2>5 DEF RunCommit, TypeOK
<1>4. CASE Acknowledge(s)
  <2>1. sess' \in [Sessions -> Transaction] /\ SessionOK'
    BY <1>0, <1>4, IdleType, SetSession DEF Acknowledge
  <2>2. QED
    BY <1>4, <2>1 DEF Acknowledge, TypeOK
<1>5. QED
  BY <1>1, <1>2, <1>3, <1>4

LEMMA TypeRest ==
  ASSUME TypeOK, SessionOK,
         \/ \E s \in Others : Elsewhere(s)
         \/ \E s \in Sessions : Abort(s)
         \/ \E r \in Runs : DeadLetter(r)
  PROVE  TypeOK' /\ SessionOK'
<1> USE DEF TypeOK, runRows, queue
<1>1. ASSUME NEW s \in Others, Elsewhere(s)
      PROVE  TypeOK' /\ SessionOK'
  BY <1>1 DEF Elsewhere, Reupload, Ingested, Verify, SessionOK, Stages
<1>2. ASSUME NEW s \in Sessions, Abort(s)
      PROVE  TypeOK' /\ SessionOK'
  <2>1. sess' \in [Sessions -> Transaction] /\ SessionOK'
    BY <1>2, IdleType, SetSession DEF Abort
  <2>2. QED
    BY <1>2, <2>1 DEF Abort
<1>3. ASSUME NEW r \in Runs, DeadLetter(r)
      PROVE  TypeOK' /\ SessionOK'
  BY <1>3 DEF DeadLetter, SessionOK
<1>4. QED
  BY <1>1, <1>2, <1>3

LEMMA TypeStep ==
  ASSUME TypeOK, SessionOK, [Next]_vars
  PROVE  TypeOK' /\ SessionOK'
<1>1. CASE UNCHANGED vars
  BY <1>1 DEF vars, TypeOK, SessionOK
<1>2. CASE Next
  BY <1>2, TypeRequests, TypeLoop, TypeWork, TypeRest DEF Next, Work, Sessions
<1>3. QED
  BY <1>1, <1>2

\* Run rows, queue and session memories always have their types.
THEOREM TypeCorrect == Spec => []TypeOK
<1>1. Init => TypeOK /\ SessionOK
  BY TypeInit
<1>2. TypeOK /\ SessionOK /\ [Next]_vars => TypeOK' /\ SessionOK'
  BY TypeStep
<1>3. QED
  BY <1>1, <1>2, PTL DEF Spec

-----------------------------------------------------------------------------
(***************************************************************************)
(* What a run decides rests on its steps                                   *)
(***************************************************************************)
\* A run holding the row lock of its run row works from the committed step rows
\* and adds to them: nobody else can commit to them meanwhile.
Holds(s) == sess[s].pc \in {"running", "closing"}

Exclusive ==
    \A s, t \in Workers : Holds(s) /\ Holds(t) /\ sess[s].run = sess[t].run => s = t

Resumes(s) ==
    Holds(s) => \A k \in Steps :
        /\ step[sess[s].run][k] # "NONE" => sess[s].work[k] # "NONE"
        /\ step[sess[s].run][k] \in Done => sess[s].work[k] = step[sess[s].run][k]

\* The steps behind the loop have rows, and the loop is beyond the policy gate only
\* if the gate succeeded; the gate is never skipped.
Progress(s) ==
    /\ Busy(s, "running") => sess[s].end = "NONE"
    /\ Holds(s) => sess[s].work[Gate] # "SKIPPED"
    /\ Holds(s) /\ sess[s].end # "FAILED" =>
          /\ \A k \in Steps : k < sess[s].next => sess[s].work[k] # "NONE"
          /\ Gate < sess[s].next => sess[s].work[Gate] = "SUCCEEDED"

RunInv ==
    /\ Exclusive
    /\ \A s \in Workers : Resumes(s) /\ Progress(s)
    /\ \A r \in Runs : step[r][Gate] # "SKIPPED"
    /\ DecisionRestsOnSteps

LEMMA RunInit == Init => RunInv
<1> SUFFICES ASSUME Init PROVE RunInv
  OBVIOUS
<1>1. \A s \in Workers : ~Holds(s)
  BY IdleType DEF Init, Holds, Sessions
<1>2. \A r \in Runs : step[r][Gate] # "SKIPPED" /\ ~decided[r]
  BY Constants DEF Init, NoSteps
<1>3. \A s \in Workers : Resumes(s) /\ Progress(s)
  BY <1>1 DEF Resumes, Progress, Holds
<1>4. QED
  BY <1>1, <1>2, <1>3 DEF RunInv, Exclusive, DecisionRestsOnSteps

\* A step that writes no step row and gives no session the lock.
LEMMA RunQuiet ==
  ASSUME TypeOK, SessionOK, RunInv, UNCHANGED <<step, decided>>,
         \/ UNCHANGED sess
         \/ \E s \in Sessions : \E t : Set(s, t) /\ t.pc \notin {"running", "closing"}
  PROVE  RunInv'
<1>1. \A s \in Workers : Holds(s)' => Holds(s) /\ sess'[s] = sess[s]
  BY DEF Holds, TypeOK, Sessions
<1>2. QED
  BY <1>1 DEF RunInv, Exclusive, Resumes, Progress, DecisionRestsOnSteps, Holds

LEMMA RunLocks ==
  ASSUME TypeOK, SessionOK, RunInv, NEW s \in Workers, RunLock(s)
  PROVE  RunInv'
<1>1. /\ s \in Sessions /\ sess[s].run \in Runs /\ ~Locked(sess[s].run)
      /\ UNCHANGED <<step, decided>>
      /\ sess'[s].pc = "running" /\ sess'[s].run = sess[s].run
      /\ sess'[s].work = step[sess[s].run] /\ sess'[s].next = 1 /\ sess'[s].end = "NONE"
      /\ \A t \in Sessions \ {s} : sess'[t] = sess[t]
  BY DEF RunLock, Sessions, TypeOK, SessionOK, Transaction, Runs, runRows
<1>2. \A t \in Workers : Holds(t) => sess[t].run # sess[s].run
  BY <1>1 DEF Locked, Holds
<1>3. Exclusive'
  BY <1>1, <1>2 DEF RunInv, Exclusive, Holds, Sessions
<1>4. Resumes(s)' /\ Progress(s)'
  BY <1>1, Constants DEF RunInv, Resumes, Progress, Holds, Gate, Steps
<1>5. \A t \in Workers \ {s} : Resumes(t)' /\ Progress(t)'
  BY <1>1 DEF RunInv, Resumes, Progress, Holds, Sessions
<1>6. QED
  BY <1>1, <1>3, <1>4, <1>5 DEF RunInv, DecisionRestsOnSteps

\* A turn of the loop keeps the worker in step with the rows it resumed from.
LEMMA RunLoops ==
  ASSUME TypeOK, SessionOK, RunInv, NEW s \in Workers, Step(s)
  PROVE  RunInv'
<1> DEFINE k == sess[s].next
           w == sess[s].work
<1>1. /\ s \in Sessions /\ Busy(s, "running") /\ k \in Steps /\ Holds(s)
      /\ w \in [Steps -> StepStatus] /\ sess[s].end = "NONE"
      /\ sess[s].run \in Runs /\ Resumes(s) /\ Progress(s)
  BY DEF Sessions, Step, StepKept, StepSkipped, StepRuns, GateFails, StepRaises,
         TypeOK, SessionOK, Transaction, Holds, Runs, RunInv, Progress
\* Each turn leaves one row, of a step that had no row worth keeping or the same row.
<1>2. ASSUME NEW st \in StepStatus, UNCHANGED <<step, decided>>,
             sess'[s].run = sess[s].run, sess'[s].pc \in {"running", "closing"},
             sess'[s].work = [w EXCEPT ![k] = st],
             \A t \in Sessions \ {s} : sess'[t] = sess[t],
             st # "NONE", w[k] \in Done => st = w[k],
             Progress(s)'
      PROVE  RunInv'
  <2>1. \A t \in Workers : Holds(t)' <=> Holds(t)
    BY <1>1, <1>2 DEF Holds, Sessions
  <2>2. \A t \in Workers : sess'[t].run = sess[t].run
    BY <1>2 DEF Sessions
  <2>3. Exclusive'
    BY <2>1, <2>2 DEF RunInv, Exclusive
  <2>4. Resumes(s)'
    BY <1>1, <1>2 DEF Resumes, Done
  <2>5. \A t \in Workers \ {s} : Resumes(t)' /\ Progress(t)'
    BY <1>2 DEF RunInv, Resumes, Progress, Holds, Sessions
  <2>6. QED
    BY <1>2, <2>3, <2>4, <2>5 DEF RunInv, DecisionRestsOnSteps
<1>3. ASSUME NEW st \in StepStatus, Advance(s, st), st # "NONE",
             w[k] \in Done => st = w[k], k = Gate => st = "SUCCEEDED"
      PROVE  RunInv'
  <2> DEFINE last == k = NSteps
  <2>1. /\ sess'[s].run = sess[s].run
        /\ sess'[s].pc = IF last THEN "closing" ELSE "running"
        /\ sess'[s].end = IF last THEN "COMPLETED" ELSE "NONE"
        /\ sess'[s].work = [w EXCEPT ![k] = st] /\ sess'[s].next = k + 1
        /\ UNCHANGED <<step, decided>>
        /\ \A t \in Sessions \ {s} : sess'[t] = sess[t]
    BY <1>1, <1>3 DEF Advance, runRows, TypeOK
  <2>2. Progress(s)'
    BY <1>1, <1>3, <2>1, Constants DEF Progress, Gate, Steps
  <2>3. QED
    BY <1>2, <1>3, <2>1, <2>2
<1>4. ASSUME NEW e \in {"COMPLETED", "FAILED"}, Break(s, e), w[k] \notin Done,
             k = Gate \/ e = "FAILED"
      PROVE  RunInv'
  <2>1. /\ sess'[s].run = sess[s].run /\ sess'[s].pc = "closing" /\ sess'[s].end = e
        /\ sess'[s].work = [w EXCEPT ![k] = "FAILED"] /\ sess'[s].next = k
        /\ UNCHANGED <<step, decided>>
        /\ \A t \in Sessions \ {s} : sess'[t] = sess[t]
    BY <1>1, <1>4 DEF Break, runRows, TypeOK
  <2>2. Progress(s)'
    BY <1>1, <1>4, <2>1, Constants DEF Progress, Gate, Steps
  <2>3. "FAILED" \in StepStatus
    BY DEF StepStatus
  <2>4. QED
    BY <1>2, <1>4, <2>1, <2>2, <2>3
<1>5. CASE StepKept(s)
  <2>1. w[k] \in StepStatus /\ w[k] \in Done /\ w[k] # "NONE"
    BY <1>1, <1>5 DEF StepKept, Kept, Done
  <2>2. k = Gate => w[k] = "SUCCEEDED"
    BY <1>1, <2>1 DEF Progress, Done
  <2>3. QED
    BY <1>3, <1>5, <2>1, <2>2 DEF StepKept
<1>6. CASE StepSkipped(s)
  <2>1. k # Gate /\ w[k] \notin Done
    BY <1>6, Constants DEF StepSkipped, Redundant, Kept
  <2>2. QED
    BY <1>3, <1>6, <2>1 DEF StepSkipped, StepStatus
<1>7. ASSUME NEW st \in StepStatus, StepRuns(s, st)
      PROVE  RunInv'
  BY <1>3, <1>7 DEF StepRuns, ToRun, Kept
<1>8. CASE GateFails(s)
  BY <1>4, <1>8 DEF GateFails, ToRun, Kept
<1>9. CASE StepRaises(s)
  BY <1>4, <1>9 DEF StepRaises, ToRun, Kept
<1>10. QED
  BY <1>5, <1>6, <1>7, <1>8, <1>9 DEF Step

\* The commit replaces the run's rows by what the worker made of them.
LEMMA RunCommits ==
  ASSUME TypeOK, SessionOK, RunInv, NEW s \in Workers, RunCommit(s)
  PROVE  /\ RunInv'
         /\ \A r \in Runs, k \in Steps : step[r][k] \in Done => step'[r][k] = step[r][k]
<1> DEFINE r == sess[s].run
           w == sess[s].work
<1>1. /\ s \in Sessions /\ r \in Runs /\ Holds(s) /\ Resumes(s) /\ Progress(s)
      /\ w \in [Steps -> StepStatus]
  BY DEF RunCommit, Sessions, TypeOK, SessionOK, Transaction, Runs, RunInv, Holds
<1>2. /\ step'[r] = w /\ \A q \in Runs \ {r} : step'[q] = step[q]
      /\ decided'[r] <=> decided[r] \/ Synthesised(s)
      /\ \A q \in Runs \ {r} : decided'[q] = decided[q]
      /\ sess'[s] = Txn("ack", r, "INGESTED")
      /\ \A t \in Sessions \ {s} : sess'[t] = sess[t]
  BY <1>1 DEF RunCommit, TypeOK
<1>3. \A k \in Steps : step[r][k] \in Done => w[k] = step[r][k]
  BY <1>1 DEF Resumes
<1>4. ~Holds(s)' /\ \A t \in Workers \ {s} : Holds(t) => sess[t].run # r
  BY <1>1, <1>2 DEF RunInv, Exclusive, Holds, Txn
<1>5. Exclusive'
  BY <1>2, <1>4 DEF RunInv, Exclusive, Holds, Sessions
<1>6. ASSUME NEW t \in Workers
      PROVE  Resumes(t)' /\ Progress(t)'
  <2>1. CASE t = s
    BY <1>2, <1>4, <2>1 DEF Resumes, Progress, Txn
  <2>2. CASE t # s
    <3>1. t \in Sessions /\ sess'[t] = sess[t] /\ Resumes(t) /\ Progress(t)
      BY <1>2, <2>2 DEF Sessions, RunInv
    <3>2. Progress(t)'
      BY <3>1 DEF Progress, Holds
    <3>3. Holds(t) => sess[t].run \in Runs /\ step'[sess[t].run] = step[sess[t].run]
      BY <1>2, <1>4, <2>2, <3>1 DEF TypeOK, SessionOK, Transaction, Holds, Runs
    <3>4. Resumes(t)'
      BY <3>1, <3>3 DEF Resumes, Holds
    <3>5. QED
      BY <3>2, <3>4
  <2>3. QED
    BY <2>1, <2>2
<1>7. \A q \in Runs : step'[q][Gate] # "SKIPPED"
  BY <1>1, <1>2 DEF RunInv, Progress
<1>8. ASSUME NEW q \in Runs, decided'[q]
      PROVE  /\ step'[q][Gate] = "SUCCEEDED" /\ step'[q][Synthesis] = "SUCCEEDED"
             /\ \A k \in Steps : step'[q][k] # "NONE"
  <2>1. CASE q # r
    BY <1>2, <1>8, <2>1 DEF RunInv, DecisionRestsOnSteps
  <2>2. CASE q = r /\ decided[r]
    <3>1. /\ step[r][Gate] = "SUCCEEDED" /\ step[r][Synthesis] = "SUCCEEDED"
          /\ \A k \in Steps : step[r][k] # "NONE"
      BY <1>1, <2>2 DEF RunInv, DecisionRestsOnSteps
    <3>2. \A k \in Steps : w[k] # "NONE"
      BY <1>1, <3>1 DEF Resumes
    <3>3. QED
      BY <1>2, <1>3, <2>2, <3>1, <3>2, Constants DEF Done
  <2>3. CASE q = r /\ Synthesised(s)
    <3>1. /\ sess[s].end # "FAILED" /\ w[Synthesis] = "SUCCEEDED"
          /\ sess[s].next > NSteps /\ sess[s].next \in 1..(NSteps + 1)
      BY <1>1, <2>3 DEF Synthesised, Synthesis, TypeOK, Transaction
    <3>2. \A k \in Steps : k < sess[s].next
      BY <3>1, Constants DEF Steps
    <3>3. w[Gate] = "SUCCEEDED" /\ \A k \in Steps : w[k] # "NONE"
      BY <1>1, <3>1, <3>2, Constants DEF Progress
    <3>4. QED
      BY <1>2, <2>3, <3>1, <3>3
  <2>4. QED
    BY <1>2, <1>8, <2>1, <2>2, <2>3
<1>9. DecisionRestsOnSteps'
  BY <1>8 DEF DecisionRestsOnSteps
<1>10. \A q \in Runs, k \in Steps : step[q][k] \in Done => step'[q][k] = step[q][k]
  BY <1>2, <1>3
<1>11. QED
  BY <1>5, <1>6, <1>7, <1>9, <1>10 DEF RunInv

\* Everything else neither writes a step row nor takes the lock.
LEMMA RunOthers ==
  ASSUME TypeOK, SessionOK, RunInv,
         \/ \E s \in Others : Elsewhere(s)
         \/ \E s \in Api : Request(s) \/ Answer(s)
         \/ \E s \in Sessions : Abort(s)
         \/ \E s \in Workers : Acknowledge(s) \/ \E r \in Runs : RunBegin(s, r)
         \/ \E r \in Runs : DeadLetter(r)
  PROVE  RunInv' /\ UNCHANGED step
<1> USE DEF runRows, Txn, Idle
<1>1. ASSUME NEW s \in Others, Elsewhere(s)
      PROVE  UNCHANGED <<step, decided, sess>>
  BY <1>1 DEF Elsewhere, Reupload, Ingested, Verify
<1>2. ASSUME NEW s \in Api, Request(s) \/ Answer(s)
      PROVE  /\ UNCHANGED <<step, decided>>
             /\ \E t : Set(s, t) /\ t.pc \notin {"running", "closing"}
  BY <1>2 DEF Request, Answer, StartInsert, StartPublish, StartCommit, CancelBegin,
              CancelRead, CancelCommit
<1>3. ASSUME NEW s \in Sessions, Abort(s) \/ Acknowledge(s)
      PROVE  /\ UNCHANGED <<step, decided>>
             /\ \E t : Set(s, t) /\ t.pc \notin {"running", "closing"}
  BY <1>3 DEF Abort, Acknowledge
<1>4. ASSUME NEW s \in Workers, NEW r \in Runs, RunBegin(s, r)
      PROVE  /\ UNCHANGED <<step, decided>>
             /\ \E t : Set(s, t) /\ t.pc \notin {"running", "closing"}
  <2>1. PICK pc \in {"ack", "opened"} : Set(s, Txn(pc, r, "INGESTED"))
    BY <1>4 DEF RunBegin
  <2>2. QED
    BY <1>4, <2>1 DEF RunBegin
<1>5. ASSUME NEW r \in Runs, DeadLetter(r)
      PROVE  UNCHANGED <<step, decided, sess>>
  BY <1>5 DEF DeadLetter
<1>6. UNCHANGED <<step, decided>>
  BY <1>1, <1>2, <1>3, <1>4, <1>5 DEF Sessions
<1>7. \/ UNCHANGED sess
      \/ \E s \in Sessions : \E t : Set(s, t) /\ t.pc \notin {"running", "closing"}
  BY <1>1, <1>2, <1>3, <1>4, <1>5 DEF Sessions
<1>8. QED
  BY <1>6, <1>7, RunQuiet

LEMMA RunStep ==
  ASSUME TypeOK, SessionOK, RunInv, [Next]_vars
  PROVE  /\ RunInv'
         /\ \A r \in Runs, k \in Steps : step[r][k] \in Done => step'[r][k] = step[r][k]
<1>1. CASE UNCHANGED vars
  BY <1>1, RunQuiet DEF vars
<1>2. CASE \E s \in Workers : RunLock(s)
  BY <1>2, RunLocks DEF RunLock, runRows
<1>3. CASE \E s \in Workers : Step(s)
  <2>1. UNCHANGED step
    BY <1>3 DEF Step, StepKept, StepSkipped, StepRuns, GateFails, StepRaises, Advance,
                Break, runRows
  <2>2. QED
    BY <1>3, <2>1, RunLoops
<1>4. CASE \E s \in Workers : RunCommit(s)
  BY <1>4, RunCommits
<1>5. CASE \/ \E s \in Others : Elsewhere(s)
           \/ \E s \in Api : Request(s) \/ Answer(s)
           \/ \E s \in Sessions : Abort(s)
           \/ \E s \in Workers : Acknowledge(s) \/ \E r \in Runs : RunBegin(s, r)
           \/ \E r \in Runs : DeadLetter(r)
  BY <1>5, RunOthers
<1>6. QED
  BY <1>1, <1>2, <1>3, <1>4, <1>5 DEF Next, Work, Sessions

\* A final decision rests on a passed policy gate, a synthesis that succeeded and a
\* row for every step, however many workers share the queue and whatever crashes.
THEOREM DecisionsRestOnSteps == Spec => []DecisionRestsOnSteps
<1>1. Init => TypeOK /\ SessionOK /\ RunInv
  BY TypeInit, RunInit
<1>2. TypeOK /\ SessionOK /\ RunInv /\ [Next]_vars => TypeOK' /\ SessionOK' /\ RunInv'
  BY TypeStep, RunStep
<1>3. RunInv => DecisionRestsOnSteps
  BY DEF RunInv
<1>4. QED
  BY <1>1, <1>2, <1>3, PTL DEF Spec

\* No step row ever leaves SUCCEEDED or SKIPPED: a step is paid for once.
THEOREM DoneStepsAreKept == Spec => DoneStepsStay
<1> DEFINE RowsKept == \A r \in Runs, k \in Steps :
                       step[r][k] \in Done => step'[r][k] = step[r][k]
<1>1. Init => TypeOK /\ SessionOK /\ RunInv
  BY TypeInit, RunInit
<1>2. TypeOK /\ SessionOK /\ RunInv /\ [Next]_vars => TypeOK' /\ SessionOK' /\ RunInv'
  BY TypeStep, RunStep
<1>3. TypeOK /\ SessionOK /\ RunInv /\ [Next]_vars => [RowsKept]_vars
  BY RunStep
<1>4. QED
  BY <1>1, <1>2, <1>3, PTL DEF Spec, DoneStepsStay
-----------------------------------------------------------------------------
(***************************************************************************)
(* Transactions that do not overlap                                        *)
(***************************************************************************)
\* While a session's transaction is open, or its message not yet deleted, no other
\* begins or ends, and neither the case nor a run is written.  The redrive and the
\* verification levels may still act at any moment.
AloneStep ==
    \A s \in Sessions :
        Free(s) \/ sess'[s] # sess[s] \/ UNCHANGED <<stage, runRows, sess>>

\* So at most one transaction is open ...
OneOpen == \A s, t \in Sessions : Free(s) \/ Free(t) \/ s = t

\* ... what it has read of the case is what is there, the message of a run about to
\* be committed is still on its way, and one about to be deleted is nobody's.
ReadIsCurrent(s) ==
    /\ sess[s].pc \in {"insert", "published", "cancel", "cancelling", "running", "closing"}
         => sess[s].seen = stage
    /\ sess[s].pc \in {"insert", "published"} => stage = "INGESTED"
    /\ Busy(s, "published") => sess[s].run \in jobs \cup dead
    /\ Busy(s, "ack") => status[sess[s].run] # "PENDING"

SerialInv ==
    /\ DecisioningAccounted /\ PendingRunHasMessage
    /\ OneOpen
    /\ \A s \in Sessions : ReadIsCurrent(s)

LEMMA SerialInit == Init => SerialInv
<1> SUFFICES ASSUME Init PROVE SerialInv
  OBVIOUS
<1>1. \A s \in Sessions : sess[s].pc = "idle"
  BY IdleType DEF Init
<1>2. QED
  BY <1>1
  DEF Init, SerialInv, DecisioningAccounted, PendingRunHasMessage, OneOpen, ReadIsCurrent

\* What leaves the case, its runs and the sessions alone and loses no message.
LEMMA SerialQuiet ==
  ASSUME SerialInv, UNCHANGED <<stage, runRows, sess>>, jobs \cup dead \subseteq jobs' \cup dead'
  PROVE  SerialInv'
BY DEF SerialInv, DecisioningAccounted, PendingRunHasMessage, OneOpen, ReadIsCurrent, runRows

\* A step of one session finds the others idle, so only what it says itself of
\* the runs and of the session is left to show.
LEMMA SerialBySession ==
  ASSUME TypeOK, SerialInv, AloneStep, NEW s \in Sessions, NEW t, Set(s, t), t # sess[s],
         DecisioningAccounted', PendingRunHasMessage', ReadIsCurrent(s)'
  PROVE  SerialInv'
<1>1. sess'[s] = t /\ \A q \in Sessions : q # s => sess'[q] = sess[q]
  BY DEF TypeOK
<1>2. \A q \in Sessions : q # s => Free(q)
  BY <1>1 DEF AloneStep
<1>3. \A q \in Sessions : q # s => sess'[q].pc = "idle"
  BY <1>1, <1>2
<1>4. OneOpen'
  BY <1>3 DEF OneOpen
<1>5. ASSUME NEW q \in Sessions
      PROVE  ReadIsCurrent(q)'
  BY <1>3 DEF ReadIsCurrent
<1>6. QED
  BY <1>4, <1>5 DEF SerialInv

\* The same for a step that writes neither the case nor a run, and drops no message.
LEMMA SerialReads ==
  ASSUME TypeOK, SerialInv, AloneStep, NEW s \in Sessions, NEW t, Set(s, t), t # sess[s],
         UNCHANGED <<stage, runRows>>, jobs \cup dead \subseteq jobs' \cup dead',
         ReadIsCurrent(s)'
  PROVE  SerialInv'
<1>1. DecisioningAccounted' /\ PendingRunHasMessage'
  BY DEF SerialInv, DecisioningAccounted, PendingRunHasMessage, runRows
<1>2. QED
  BY <1>1, SerialBySession

LEMMA SerialRequests ==
  ASSUME TypeOK, SessionOK, SerialInv, AloneStep, NEW s \in Sessions, Request(s) \/ Answer(s)
  PROVE  SerialInv'
<1> USE DEF TypeOK
<1>0. /\ DecisioningAccounted /\ PendingRunHasMessage /\ ReadIsCurrent(s)
      /\ sess[s].pc \notin {"idle", "cancel"} => sess[s].run \in Runs
  BY DEF SerialInv, SessionOK, Transaction, Runs
<1>1. ASSUME NEW t, Set(s, t)
      PROVE  sess'[s] = t
  BY <1>1
<1>2. CASE StartInsert(s)
  <2> DEFINE t == Txn("insert", started + 1, stage)
  <2>1. /\ Set(s, t) /\ Free(s) /\ stage = "INGESTED"
        /\ UNCHANGED <<stage, runRows, jobs, dead>>
    BY <1>2 DEF StartInsert, queue
  <2>2. t.pc = "insert" /\ t.seen = stage
    BY DEF Txn
  <2> HIDE DEF t
  <2>3. ReadIsCurrent(s)' /\ t # sess[s]
    BY <1>1, <2>1, <2>2 DEF ReadIsCurrent
  <2>4. QED
    BY <2>1, <2>3, SerialReads
<1>3. CASE StartPublish(s)
  <2> DEFINE t == Txn("published", sess[s].run, sess[s].seen)
  <2>1. /\ Set(s, t) /\ Busy(s, "insert") /\ jobs' = jobs \cup {sess[s].run} /\ dead' = dead
        /\ UNCHANGED <<stage, runRows>>
    BY <1>3 DEF StartPublish
  <2>2. t.pc = "published" /\ t.seen = sess[s].seen /\ t.run = sess[s].run
    BY DEF Txn
  <2> HIDE DEF t
  <2>3. ReadIsCurrent(s)' /\ t # sess[s]
    BY <1>0, <1>1, <2>1, <2>2 DEF ReadIsCurrent
  <2>4. QED
    BY <2>1, <2>3, SerialReads
<1>4. CASE StartCommit(s)
  <2>1. /\ Set(s, Idle) /\ Busy(s, "published")
        /\ status' = [status EXCEPT ![sess[s].run] = "PENDING"]
        /\ stage' = "PHASE_1_DECISIONING" /\ UNCHANGED <<jobs, dead>>
    BY <1>4 DEF StartCommit, queue
  <2>2. sess[s].run \in Runs /\ sess[s].run \in jobs \cup dead
    BY <1>0, <2>1 DEF ReadIsCurrent
  <2>3. DecisioningAccounted' /\ PendingRunHasMessage'
    BY <1>0, <2>1, <2>2 DEF DecisioningAccounted, PendingRunHasMessage
  <2>4. ReadIsCurrent(s)' /\ Idle # sess[s]
    BY <1>1, <2>1, IdleType DEF ReadIsCurrent
  <2>5. QED
    BY <2>1, <2>3, <2>4, SerialBySession
<1>5. CASE CancelBegin(s)
  <2> DEFINE t == Txn("cancel", 0, stage)
  <2>1. Set(s, t) /\ Free(s) /\ UNCHANGED <<stage, runRows, jobs, dead>>
    BY <1>5 DEF CancelBegin, queue
  <2>2. t.pc = "cancel" /\ t.seen = stage
    BY DEF Txn
  <2> HIDE DEF t
  <2>3. ReadIsCurrent(s)' /\ t # sess[s]
    BY <1>1, <2>1, <2>2 DEF ReadIsCurrent
  <2>4. QED
    BY <2>1, <2>3, SerialReads
<1>6. ASSUME NEW r \in Runs, CancelRead(s, r)
      PROVE  SerialInv'
  <2> DEFINE t == Txn("cancelling", r, sess[s].seen)
  <2>1. Set(s, t) /\ Busy(s, "cancel") /\ UNCHANGED <<stage, runRows, jobs, dead>>
    BY <1>6 DEF CancelRead, queue
  <2>2. t.pc = "cancelling" /\ t.seen = sess[s].seen
    BY DEF Txn
  <2> HIDE DEF t
  <2>3. ReadIsCurrent(s)' /\ t # sess[s]
    BY <1>0, <1>1, <2>1, <2>2 DEF ReadIsCurrent
  <2>4. QED
    BY <2>1, <2>3, SerialReads
<1>7. CASE CancelCommit(s)
  <2>1. /\ Set(s, Idle) /\ Busy(s, "cancelling")
        /\ status' = [status EXCEPT ![sess[s].run] = "CANCELLED"]
        /\ stage' = StageAfterCancel(s) /\ UNCHANGED <<jobs, dead>>
    BY <1>7 DEF CancelCommit, queue
  <2>2. stage' # "PHASE_1_DECISIONING"
    BY <1>0, <2>1 DEF ReadIsCurrent, StageAfterCancel
  <2>3. DecisioningAccounted' /\ PendingRunHasMessage'
    BY <1>0, <2>1, <2>2 DEF DecisioningAccounted, PendingRunHasMessage
  <2>4. ReadIsCurrent(s)' /\ Idle # sess[s]
    BY <1>1, <2>1, IdleType DEF ReadIsCurrent
  <2>5. QED
    BY <2>1, <2>3, <2>4, SerialBySession
<1>8. QED
  BY <1>2, <1>3, <1>4, <1>5, <1>6, <1>7 DEF Request, Answer

LEMMA SerialLoop ==
  ASSUME TypeOK, SessionOK, SerialInv, AloneStep, NEW s \in Sessions, Step(s)
  PROVE  SerialInv'
<1>1. ReadIsCurrent(s) /\ Busy(s, "running") /\ sess[s].next \in Steps
  BY DEF SerialInv, SessionOK, Step, StepKept, StepSkipped, StepRuns, GateFails, StepRaises
<1>2. ASSUME NEW t, Set(s, t), t.pc \in {"running", "closing"}, t.seen = sess[s].seen,
             t # sess[s], UNCHANGED <<stage, runRows, queue>>
      PROVE  SerialInv'
  <2>1. sess'[s] = t
    BY <1>2 DEF TypeOK
  <2>2. ReadIsCurrent(s)'
    BY <1>1, <1>2, <2>1 DEF ReadIsCurrent
  <2>3. QED
    BY <1>2, <2>2, SerialReads DEF queue
<1>3. ASSUME NEW st, Advance(s, st)
      PROVE  SerialInv'
  <2> DEFINE k == sess[s].next
             last == k = NSteps
             t == [pc |-> IF last THEN "closing" ELSE "running",
                   run |-> sess[s].run, seen |-> sess[s].seen, ver |-> sess[s].ver,
                   work |-> [sess[s].work EXCEPT ![k] = st], next |-> k + 1,
                   end |-> IF last THEN "COMPLETED" ELSE "NONE"]
  <2>1. Set(s, t) /\ UNCHANGED <<stage, runRows, queue>>
    BY <1>3 DEF Advance
  <2>2. t.pc \in {"running", "closing"} /\ t.seen = sess[s].seen /\ t.next = k + 1
    OBVIOUS
  <2>3. k + 1 # k
    BY <1>1, StepsAssumption DEF Steps
  <2> HIDE DEF t
  <2>4. t # sess[s]
    BY <2>2, <2>3
  <2>5. QED
    BY <1>2, <2>1, <2>2, <2>4
<1>4. ASSUME NEW e, Break(s, e)
      PROVE  SerialInv'
  <2> DEFINE t == [pc |-> "closing", run |-> sess[s].run, seen |-> sess[s].seen,
                   ver |-> sess[s].ver,
                   work |-> [sess[s].work EXCEPT ![sess[s].next] = "FAILED"],
                   next |-> sess[s].next, end |-> e]
  <2>1. Set(s, t) /\ UNCHANGED <<stage, runRows, queue>>
    BY <1>4 DEF Break
  <2>2. t.pc = "closing" /\ t.seen = sess[s].seen
    OBVIOUS
  <2> HIDE DEF t
  <2>3. t # sess[s]
    BY <1>1, <2>2
  <2>4. QED
    BY <1>2, <2>1, <2>2, <2>3
<1>5. QED
  BY <1>3, <1>4 DEF Step, StepKept, StepSkipped, StepRuns, GateFails, StepRaises

LEMMA SerialWork ==
  ASSUME TypeOK, SessionOK, SerialInv, AloneStep, NEW s \in Sessions,
         \/ RunLock(s) \/ RunCommit(s) \/ Acknowledge(s)
         \/ \E r \in Runs : RunBegin(s, r)
  PROVE  SerialInv'
<1> USE DEF TypeOK
<1>0. /\ DecisioningAccounted /\ PendingRunHasMessage /\ ReadIsCurrent(s)
      /\ sess[s].pc \notin {"idle", "cancel"} => sess[s].run \in Runs
  BY DEF SerialInv, SessionOK, Transaction, Runs
<1>1. ASSUME NEW t, Set(s, t)
      PROVE  sess'[s] = t
  BY <1>1
<1>2. ASSUME NEW r \in Runs, RunBegin(s, r)
      PROVE  SerialInv'
  <2> DEFINE pc == IF status[r] \in {"NONE", "COMPLETED"} THEN "ack" ELSE "opened"
             t == Txn(pc, r, "INGESTED")
  <2>1. Set(s, t) /\ Free(s) /\ UNCHANGED <<stage, runRows, jobs, dead>>
    BY <1>2 DEF RunBegin
  <2>2. t.pc = pc /\ t.run = r
    BY DEF Txn
  <2> HIDE DEF t
  <2>3. ReadIsCurrent(s)' /\ t # sess[s]
    BY <1>1, <2>1, <2>2 DEF ReadIsCurrent, runRows
  <2>4. QED
    BY <2>1, <2>3, SerialReads
<1>3. CASE RunLock(s)
  <2> DEFINE r == sess[s].run
             t == [pc |-> "running", run |-> r, seen |-> stage, ver |-> verified,
                   work |-> step[r], next |-> 1, end |-> "NONE"]
  <2>1. Set(s, t) /\ Busy(s, "opened") /\ UNCHANGED <<stage, runRows, jobs, dead>>
    BY <1>3 DEF RunLock, queue
  <2>2. t.pc = "running" /\ t.seen = stage
    OBVIOUS
  <2> HIDE DEF t
  <2>3. ReadIsCurrent(s)' /\ t # sess[s]
    BY <1>1, <2>1, <2>2 DEF ReadIsCurrent
  <2>4. QED
    BY <2>1, <2>3, SerialReads
<1>4. CASE RunCommit(s)
  <2> DEFINE r == sess[s].run
             t == Txn("ack", r, "INGESTED")
  <2>1. /\ Set(s, t) /\ Busy(s, "closing") /\ UNCHANGED <<jobs, dead>>
        /\ status' = [status EXCEPT ![r] = sess[s].end] /\ stage' = StageAfterRun(s)
    BY <1>4 DEF RunCommit, queue
  <2>2. r \in Runs /\ sess[s].end \in {"COMPLETED", "FAILED"} /\ sess[s].seen = stage
    BY <1>0, <2>1 DEF SessionOK, Transaction, ReadIsCurrent
  <2>3. ASSUME sess[s].end = "FAILED"
        PROVE  DecisioningAccounted'
    <3>1. status'[r] = "FAILED"
      BY <2>1, <2>2, <2>3
    <3>2. QED
      BY <2>2, <3>1 DEF DecisioningAccounted
  <2>4. ASSUME sess[s].end = "COMPLETED"
        PROVE  DecisioningAccounted'
    <3>1. stage' # "PHASE_1_DECISIONING"
      BY <2>1, <2>2, <2>4 DEF StageAfterRun, CanTransition, AllowedTransitions
    <3>2. QED
      BY <3>1 DEF DecisioningAccounted
  <2>5. DecisioningAccounted'
    BY <2>2, <2>3, <2>4
  <2>6. PendingRunHasMessage'
    BY <1>0, <2>1, <2>2 DEF PendingRunHasMessage
  <2>7. t.pc = "ack" /\ t.run = r
    BY DEF Txn
  <2> HIDE DEF t
  <2>8. ReadIsCurrent(s)' /\ t # sess[s]
    BY <1>1, <2>1, <2>2, <2>7 DEF ReadIsCurrent
  <2>9. QED
    BY <2>1, <2>5, <2>6, <2>8, SerialBySession
<1>5. CASE Acknowledge(s)
  <2>1. /\ Set(s, Idle) /\ Busy(s, "ack") /\ jobs' = jobs \ {sess[s].run} /\ dead' = dead
        /\ UNCHANGED <<stage, status>>
    BY <1>5 DEF Acknowledge, runRows
  <2>2. status[sess[s].run] # "PENDING"
    BY <1>0, <2>1 DEF ReadIsCurrent
  <2>3. DecisioningAccounted' /\ PendingRunHasMessage'
    BY <1>0, <2>1, <2>2 DEF DecisioningAccounted, PendingRunHasMessage
  <2>4. ReadIsCurrent(s)' /\ Idle # sess[s]
    BY <1>1, <2>1, IdleType DEF ReadIsCurrent
  <2>5. QED
    BY <2>1, <2>3, <2>4, SerialBySession
<1>6. QED
  BY <1>2, <1>3, <1>4, <1>5

LEMMA SerialRest ==
  ASSUME TypeOK, SerialInv, AloneStep,
         \/ \E s \in Others : Elsewhere(s)
         \/ \E s \in Sessions : Abort(s)
         \/ \E r \in Runs : DeadLetter(r)
         \/ UNCHANGED vars
  PROVE  SerialInv'
<1>1. ASSUME NEW s \in Others, Reupload(s) \/ Ingested(s)
      PROVE  SerialInv'
  <2>1. /\ UNCHANGED <<runRows, queue, sess>>
        /\ stage' \in {"UPLOADED", "INGESTED"} /\ stage' # stage
    BY <1>1 DEF Reupload, Ingested
  <2>2. \A q \in Sessions : Free(q)
    BY <2>1 DEF AloneStep
  <2>3. \A q \in Sessions : ReadIsCurrent(q)'
    BY <2>1, <2>2 DEF ReadIsCurrent
  <2>4. DecisioningAccounted' /\ PendingRunHasMessage' /\ OneOpen'
    BY <2>1 DEF SerialInv, DecisioningAccounted, PendingRunHasMessage, OneOpen, queue, runRows
  <2>5. QED
    BY <2>3, <2>4 DEF SerialInv
<1>2. ASSUME NEW s \in Others, Verify(s)
      PROVE  SerialInv'
  BY <1>2, SerialQuiet DEF Verify, queue
<1>3. ASSUME NEW s \in Sessions, Abort(s)
      PROVE  SerialInv'
  <2>1. Set(s, Idle) /\ ~Free(s) /\ UNCHANGED <<stage, runRows, jobs, dead>>
    BY <1>3 DEF Abort, queue
  <2>2. ReadIsCurrent(s)' /\ Idle # sess[s]
    BY <2>1, IdleType DEF TypeOK, ReadIsCurrent
  <2>3. QED
    BY <2>1, <2>2, SerialReads
<1>4. ASSUME NEW r \in Runs, DeadLetter(r)
      PROVE  SerialInv'
  BY <1>4, SerialQuiet DEF DeadLetter
<1>5. CASE UNCHANGED vars
  BY <1>5, SerialQuiet DEF vars, runRows
<1>6. QED
  BY <1>1, <1>2, <1>3, <1>4, <1>5 DEF Elsewhere

LEMMA SerialStep ==
  ASSUME TypeOK, SessionOK, SerialInv, AloneStep, [Next]_vars
  PROVE  SerialInv'
  BY SerialRequests, SerialLoop, SerialWork, SerialRest DEF Next, Work, Sessions

LEMMA SerialAlways == Spec /\ [][AloneStep]_vars => [](TypeOK /\ SerialInv)
<1>1. Init => TypeOK /\ SessionOK /\ SerialInv
  BY TypeInit, SerialInit
<1>2. UNCHANGED vars => AloneStep
  BY DEF vars, AloneStep, runRows
<1>3. TypeOK /\ SessionOK /\ SerialInv /\ [Next]_vars /\ [AloneStep]_vars
        => TypeOK' /\ SessionOK' /\ SerialInv'
  BY <1>2, TypeStep, SerialStep
<1>4. QED
  BY <1>1, <1>3, PTL DEF Spec

\* As long as no two transactions overlap, a case in PHASE_1_DECISIONING has a run
\* that is yet to run or one that failed, through any number of starts, cancels,
\* crashes, redeliveries and re-uploads.
THEOREM DecisioningIsAccounted == Spec /\ [][AloneStep]_vars => []DecisioningAccounted
<1>1. SerialInv => DecisioningAccounted
  BY DEF SerialInv
<1>2. QED
  BY <1>1, SerialAlways, PTL

\* As long as no two transactions overlap, publishing before the commit loses no
\* message: every pending run has one in the queue or in the dead-letter queue.
THEOREM PendingRunIsAnnounced == Spec /\ [][AloneStep]_vars => []PendingRunHasMessage
<1>1. SerialInv => PendingRunHasMessage
  BY DEF SerialInv
<1>2. QED
  BY <1>1, SerialAlways, PTL

\* The stage moves by permitted chains or back to UPLOADED.
StageMove == stage' # stage => CommittedMove(stage, stage') \/ stage' = "UPLOADED"

LEMMA StageStep ==
  ASSUME TypeOK, SessionOK, SerialInv, [Next]_vars
  PROVE  StageMove
<1>1. /\ CommittedMove("UPLOADED", "INGESTED")
      /\ CommittedMove("INGESTED", "PHASE_1_DECISIONING")
      /\ CommittedMove("PHASE_1_DECISIONING", "INGESTED")
  <2>1. /\ CanTransition("UPLOADED", "CHECKLIST_VALIDATION")
        /\ CanTransition("CHECKLIST_VALIDATION", "CHECKLIST_VALIDATED")
        /\ CanTransition("CHECKLIST_VALIDATED", "INGESTED")
        /\ CanTransition("INGESTED", "PHASE_1_DECISIONING")
        /\ CanTransition("PHASE_1_DECISIONING", "INGESTED")
    BY DEF CanTransition, AllowedTransitions
  <2>2. QED
    BY <2>1 DEF CommittedMove, PassedThrough
<1>2. ASSUME NEW s \in Sessions, StartCommit(s)
      PROVE  StageMove
  <2>1. stage = "INGESTED" /\ stage' = "PHASE_1_DECISIONING"
    BY <1>2 DEF StartCommit, SerialInv, ReadIsCurrent
  <2>2. QED
    BY <1>1, <2>1 DEF StageMove
<1>3. ASSUME NEW s \in Sessions, CancelCommit(s)
      PROVE  StageMove
  <2>1. stage' = IF stage = "PHASE_1_DECISIONING" THEN "INGESTED" ELSE stage
    BY <1>3 DEF CancelCommit, StageAfterCancel, SerialInv, ReadIsCurrent
  <2>2. QED
    BY <1>1, <2>1 DEF StageMove
<1>4. ASSUME NEW s \in Sessions, RunCommit(s)
      PROVE  StageMove
  <2>1. \/ stage' = stage
        \/ stage' = "PHASE_1_COMPLETE" /\ CanTransition(stage, "PHASE_1_COMPLETE")
    BY <1>4 DEF RunCommit, StageAfterRun, SerialInv, ReadIsCurrent
  <2>2. QED
    BY <2>1 DEF StageMove, CommittedMove
<1>5. ASSUME NEW s \in Others, Elsewhere(s)
      PROVE  StageMove
  BY <1>1, <1>5 DEF Elsewhere, Reupload, Ingested, Verify, StageMove
<1>6. ASSUME NEW s \in Sessions,
             \/ Request(s) \/ StartPublish(s) \/ (\E r \in Runs : CancelRead(s, r))
             \/ RunLock(s) \/ Step(s) \/ Acknowledge(s) \/ Abort(s)
             \/ \E r \in Runs : RunBegin(s, r)
      PROVE  UNCHANGED stage
  BY <1>6
  DEF Request, StartInsert, CancelBegin, StartPublish, CancelRead, RunLock, Step, StepKept,
      StepSkipped, StepRuns, GateFails, StepRaises, Advance, Break, Acknowledge, Abort, RunBegin
<1>7. ASSUME NEW r \in Runs, DeadLetter(r)
      PROVE  UNCHANGED stage
  BY <1>7 DEF DeadLetter
<1>8. UNCHANGED vars \/ UNCHANGED stage => StageMove
  BY DEF vars, StageMove
<1>9. QED
  BY <1>2, <1>3, <1>4, <1>5, <1>6, <1>7, <1>8 DEF Next, Answer, Work, Sessions

\* As long as no two transactions overlap, starts, cancels and runs move the stage
\* only as stages.py permits.
THEOREM StageMovesArePermitted == Spec /\ [][AloneStep]_vars => StageMovesPermitted
<1>1. Init => TypeOK /\ SessionOK
  BY TypeInit
<1>2. TypeOK /\ SessionOK /\ [Next]_vars => TypeOK' /\ SessionOK'
  BY TypeStep
<1>3. TypeOK /\ SessionOK /\ SerialInv /\ [Next]_vars => [StageMove]_vars
  BY StageStep
<1>4. QED
  BY <1>1, <1>2, <1>3, SerialAlways, PTL DEF Spec, StageMovesPermitted, StageMove

\* The hypothesis is what a single session does by itself: one user, one worker.
THEOREM OneSessionIsAlone ==
  ASSUME \A s, t \in Sessions : s = t
  PROVE  Spec => [][AloneStep]_vars
<1>1. ASSUME TypeOK, SessionOK, [Next]_vars
      PROVE  AloneStep
  <2>1. ASSUME NEW s \in Sessions, NEW t, Set(s, t), t # sess[s]
        PROVE  AloneStep
    <3>1. sess'[s] = t
      BY <1>1, <2>1 DEF TypeOK
    <3>2. QED
      BY <2>1, <3>1 DEF AloneStep
  <2>2. ASSUME UNCHANGED <<stage, runRows, sess>>
        PROVE  AloneStep
    BY <2>2 DEF AloneStep
  <2>3. ASSUME NEW s \in Sessions, Free(s)
        PROVE  AloneStep
    BY <2>3 DEF AloneStep
  <2>4. CASE UNCHANGED vars \/ \E r \in Runs : DeadLetter(r)
    BY <2>2, <2>4 DEF vars, DeadLetter, runRows
  <2>5. ASSUME NEW s \in Sessions,
               Elsewhere(s) \/ Request(s) \/ \E r \in Runs : RunBegin(s, r)
        PROVE  AloneStep
    BY <2>3, <2>5
    DEF Elsewhere, Reupload, Ingested, Verify, Request, StartInsert, CancelBegin, RunBegin
  <2>6. ASSUME NEW s \in Sessions,
               StartCommit(s) \/ CancelCommit(s) \/ Acknowledge(s) \/ Abort(s)
        PROVE  AloneStep
    <3>1. Set(s, Idle) /\ Idle # sess[s]
      BY <2>6, IdleType DEF StartCommit, CancelCommit, Acknowledge, Abort
    <3>2. QED
      BY <2>1, <3>1
  <2>7. ASSUME NEW s \in Sessions, NEW pc, NEW r, NEW seen, Set(s, Txn(pc, r, seen)),
               sess[s].pc # pc
        PROVE  AloneStep
    <3>1. Txn(pc, r, seen).pc = pc
      BY DEF Txn
    <3>2. QED
      BY <2>1, <2>7, <3>1
  <2>8. ASSUME NEW s \in Sessions, Answer(s)
        PROVE  AloneStep
    BY <2>6, <2>7, <2>8 DEF Answer, StartPublish, CancelRead
  <2>9. ASSUME NEW s \in Sessions, RunLock(s) \/ Step(s) \/ RunCommit(s)
        PROVE  AloneStep
    <3>1. CASE RunCommit(s)
      BY <2>7, <3>1 DEF RunCommit
    <3>2. CASE RunLock(s)
      <4> DEFINE t == [pc |-> "running", run |-> sess[s].run, seen |-> stage,
                       ver |-> verified, work |-> step[sess[s].run], next |-> 1,
                       end |-> "NONE"]
      <4>1. Set(s, t) /\ t.pc = "running" /\ Busy(s, "opened")
        BY <3>2 DEF RunLock
      <4> HIDE DEF t
      <4>2. QED
        BY <2>1, <4>1
    <3>3. ASSUME NEW st, Advance(s, st), Busy(s, "running")
          PROVE  AloneStep
      <4> DEFINE k == sess[s].next
                 last == k = NSteps
                 t == [pc |-> IF last THEN "closing" ELSE "running",
                       run |-> sess[s].run, seen |-> sess[s].seen, ver |-> sess[s].ver,
                       work |-> [sess[s].work EXCEPT ![k] = st], next |-> k + 1,
                       end |-> IF last THEN "COMPLETED" ELSE "NONE"]
      <4>1. Set(s, t) /\ t.next = k + 1
        BY <3>3 DEF Advance
      <4>2. k + 1 # k
        BY <1>1, <3>3, StepsAssumption DEF SessionOK, Steps
      <4> HIDE DEF t
      <4>3. QED
        BY <2>1, <4>1, <4>2
    <3>4. ASSUME NEW e, Break(s, e), Busy(s, "running")
          PROVE  AloneStep
      <4> DEFINE t == [pc |-> "closing", run |-> sess[s].run, seen |-> sess[s].seen,
                       ver |-> sess[s].ver,
                       work |-> [sess[s].work EXCEPT ![sess[s].next] = "FAILED"],
                       next |-> sess[s].next, end |-> e]
      <4>1. Set(s, t) /\ t.pc = "closing"
        BY <3>4 DEF Break
      <4> HIDE DEF t
      <4>2. QED
        BY <2>1, <3>4, <4>1
    <3>5. QED
      BY <2>9, <3>1, <3>2, <3>3, <3>4
      DEF Step, StepKept, StepSkipped, StepRuns, GateFails, StepRaises
  <2>10. QED
    BY <1>1, <2>4, <2>5, <2>6, <2>8, <2>9 DEF Next, Work, Sessions
<1>2. Init => TypeOK /\ SessionOK
  BY TypeInit
<1>3. TypeOK /\ SessionOK /\ [Next]_vars => TypeOK' /\ SessionOK' /\ [AloneStep]_vars
  BY <1>1, TypeStep
<1>4. QED
  BY <1>2, <1>3, PTL DEF Spec

-----------------------------------------------------------------------------
(***************************************************************************)
(* The decisioning queue implements JobQueue                               *)
(***************************************************************************)
\* A run whose message is yet to be published is new to the queue, and no two
\* requests insert the same run.
FreshInv ==
    /\ \A r \in jobs : r <= started
    /\ \A r \in Runs : r > started => received[r] = 0
    /\ \A s \in Sessions : Busy(s, "insert") =>
          /\ sess[s].run \in Runs \ jobs /\ sess[s].run <= started
          /\ received[sess[s].run] = 0
          /\ \A q \in Sessions : Busy(q, "insert") /\ sess[q].run = sess[s].run => q = s

LEMMA FreshInit == Init => FreshInv
  BY IdleType DEF Init, FreshInv

LEMMA TxnPc == \A pc, r, seen : Txn(pc, r, seen).pc = pc /\ Txn(pc, r, seen).run = r
  BY DEF Txn

AtWork == {"opened", "running", "closing"}

\* A request that publishes nothing, and the rest of the system, is no business of
\* the queue's.
LEMMA QuietSteps ==
  ASSUME TypeOK, NEW s \in Sessions,
         \/ StartInsert(s) \/ StartCommit(s) \/ CancelBegin(s) \/ CancelCommit(s)
         \/ \E r \in Runs : CancelRead(s, r)
  PROVE  /\ sess[s].pc \in {"idle", "published", "cancel", "cancelling"}
         /\ \E t : Set(s, t) /\ t.pc \in {"idle", "insert", "cancel", "cancelling"}
         /\ UNCHANGED <<jobs, received, dead>>
<1>1. \A pc, r, seen : Txn(pc, r, seen).pc = pc
  BY TxnPc
<1>2. CASE StartInsert(s) \/ CancelBegin(s)
  BY <1>1, <1>2 DEF StartInsert, CancelBegin, queue
<1>3. CASE StartCommit(s) \/ CancelCommit(s)
  <2>1. /\ sess[s].pc \in {"published", "cancelling"} /\ Set(s, Idle)
        /\ UNCHANGED <<jobs, received, dead>>
    BY <1>3 DEF StartCommit, CancelCommit, queue
  <2>2. QED
    BY <2>1, IdleType
<1>4. ASSUME NEW r \in Runs, CancelRead(s, r)
      PROVE  /\ sess[s].pc = "cancel"
             /\ \E t : Set(s, t) /\ t.pc = "cancelling"
             /\ UNCHANGED <<jobs, received, dead>>
  <2> DEFINE t == Txn("cancelling", r, sess[s].seen)
  <2>1. Set(s, t) /\ t.pc = "cancelling" /\ sess[s].pc = "cancel"
    BY <1>1, <1>4 DEF CancelRead
  <2> HIDE DEF t
  <2>2. UNCHANGED <<jobs, received, dead>>
    BY <1>4 DEF CancelRead, queue
  <2>3. QED
    BY <2>1, <2>2
<1>5. QED
  BY <1>2, <1>3, <1>4

\* A worker that has opened a run stays with it until it commits.
LEMMA RunningSteps ==
  ASSUME TypeOK, NEW s \in Sessions, RunLock(s) \/ Step(s)
  PROVE  /\ sess[s].pc \in AtWork
         /\ \E t : Set(s, t) /\ t.pc \in AtWork /\ t.run = sess[s].run
         /\ UNCHANGED <<jobs, received, dead, started>>
<1> USE DEF AtWork
<1>1. CASE RunLock(s)
  <2> DEFINE t == [pc |-> "running", run |-> sess[s].run, seen |-> stage, ver |-> verified,
                   work |-> step[sess[s].run], next |-> 1, end |-> "NONE"]
  <2>1. Set(s, t) /\ t.run = sess[s].run /\ t.pc = "running" /\ sess[s].pc = "opened"
    BY <1>1 DEF RunLock
  <2> HIDE DEF t
  <2>2. UNCHANGED <<jobs, received, dead, started>>
    BY <1>1 DEF RunLock, queue
  <2>3. QED
    BY <2>1, <2>2
<1>2. ASSUME NEW st, Advance(s, st)
      PROVE  /\ \E t : Set(s, t) /\ t.pc \in AtWork /\ t.run = sess[s].run
             /\ UNCHANGED <<jobs, received, dead, started>>
  <2> DEFINE last == sess[s].next = NSteps
             t == [pc |-> IF last THEN "closing" ELSE "running",
                   run |-> sess[s].run, seen |-> sess[s].seen, ver |-> sess[s].ver,
                   work |-> [sess[s].work EXCEPT ![sess[s].next] = st],
                   next |-> sess[s].next + 1,
                   end |-> IF last THEN "COMPLETED" ELSE "NONE"]
  <2>1. Set(s, t) /\ t.run = sess[s].run
    BY <1>2 DEF Advance
  <2>2. t.pc \in {"closing", "running"}
    OBVIOUS
  <2> HIDE DEF t
  <2>3. UNCHANGED <<jobs, received, dead, started>>
    BY <1>2 DEF Advance, queue
  <2>4. QED
    BY <2>1, <2>2, <2>3
<1>3. ASSUME NEW e, Break(s, e)
      PROVE  /\ \E t : Set(s, t) /\ t.pc \in AtWork /\ t.run = sess[s].run
             /\ UNCHANGED <<jobs, received, dead, started>>
  <2> DEFINE t == [pc |-> "closing", run |-> sess[s].run, seen |-> sess[s].seen,
                   ver |-> sess[s].ver,
                   work |-> [sess[s].work EXCEPT ![sess[s].next] = "FAILED"],
                   next |-> sess[s].next, end |-> e]
  <2>1. Set(s, t) /\ t.run = sess[s].run /\ t.pc = "closing"
    BY <1>3 DEF Break
  <2> HIDE DEF t
  <2>2. UNCHANGED <<jobs, received, dead, started>>
    BY <1>3 DEF Break, queue
  <2>3. QED
    BY <2>1, <2>2
<1>4. CASE Step(s)
  <2>1. sess[s].pc = "running" /\ \E st : Advance(s, st) \/ Break(s, st)
    BY <1>4 DEF Step, StepKept, StepSkipped, GateFails, StepRaises, StepRuns
  <2>2. QED
    BY <1>2, <1>3, <2>1
<1>5. QED
  BY <1>1, <1>4

LEMMA BeginStep ==
  ASSUME TypeOK, NEW s \in Sessions, NEW r \in Runs, RunBegin(s, r)
  PROVE  \E t : /\ Set(s, t) /\ t.run = r /\ t.pc \in {"opened", "ack"}
                /\ sess[s].pc = "idle" /\ Receive(r)
                /\ UNCHANGED <<jobs, dead, started>>
<1> DEFINE t == Txn(IF status[r] \in {"NONE", "COMPLETED"} THEN "ack" ELSE "opened",
                    r, "INGESTED")
<1>1. t.run = r /\ t.pc \in {"opened", "ack"}
  BY DEF Txn
<1>2. Set(s, t) /\ sess[s].pc = "idle" /\ Receive(r) /\ UNCHANGED <<jobs, dead, started>>
  BY DEF RunBegin
<1> HIDE DEF t
<1>3. QED
  BY <1>1, <1>2

LEMMA FreshStep ==
  ASSUME TypeOK, SessionOK, FreshInv, [Next]_vars
  PROVE  FreshInv'
<1> USE DEF FreshInv
<1>1. /\ started \in Nat /\ jobs \subseteq Runs /\ received \in [Runs -> Nat]
      /\ Api \subseteq Sessions /\ Workers \subseteq Sessions
      /\ \A r \in Runs : r \in Nat
  BY RunsAssumption DEF TypeOK, Sessions, Runs
\* No new run is inserted, and what is published was inserted by this session.
<1>2. ASSUME NEW s \in Sessions, NEW t, Set(s, t), t.pc # "insert",
             jobs' \subseteq jobs \cup (IF Busy(s, "insert") THEN {sess[s].run} ELSE {}),
             UNCHANGED <<received, started>>
      PROVE  FreshInv'
  <2>1. sess'[s] = t /\ \A q \in Sessions \ {s} : sess'[q] = sess[q]
    BY <1>2 DEF TypeOK
  <2>2. ASSUME NEW q \in Sessions, sess'[q].pc = "insert"
        PROVE  /\ sess'[q].run \in Runs \ jobs' /\ sess'[q].run <= started'
               /\ received'[sess'[q].run] = 0
               /\ \A u \in Sessions :
                     sess'[u].pc = "insert" /\ sess'[u].run = sess'[q].run => u = q
    BY <1>2, <2>1, <2>2
  <2>3. \A r \in jobs' : r <= started'
    BY <1>2
  <2>4. QED
    BY <1>2, <2>2, <2>3
<1>3. ASSUME UNCHANGED <<sess, received, started>>, jobs' \subseteq jobs
      PROVE  FreshInv'
  BY <1>3
<1>4. CASE UNCHANGED vars \/ (\E s \in Others : Elsewhere(s)) \/ \E r \in Runs : DeadLetter(r)
  BY <1>3, <1>4 DEF vars, Elsewhere, Reupload, Ingested, Verify, DeadLetter, queue
<1>5. ASSUME NEW s \in Sessions, StartInsert(s)
      PROVE  FreshInv'
  <2>1. /\ Set(s, Txn("insert", started + 1, stage))
        /\ started' = started + 1 /\ started < MaxRuns
        /\ UNCHANGED <<jobs, received>>
    BY <1>5 DEF StartInsert, queue
  <2>2. /\ sess'[s].pc = "insert" /\ sess'[s].run = started + 1
        /\ \A q \in Sessions \ {s} : sess'[q] = sess[q]
    BY <2>1 DEF TypeOK, Txn
  <2>3. started + 1 \in Runs
    BY <1>1, <2>1, RunsAssumption DEF Runs
  <2>4. started + 1 \notin jobs /\ received[started + 1] = 0
    BY <1>1, <2>3
  <2>5. ASSUME NEW q \in Sessions, sess'[q].pc = "insert"
        PROVE  /\ sess'[q].run \in Runs \ jobs' /\ sess'[q].run <= started'
               /\ received'[sess'[q].run] = 0
               /\ \A u \in Sessions :
                     sess'[u].pc = "insert" /\ sess'[u].run = sess'[q].run => u = q
    BY <1>1, <2>1, <2>2, <2>3, <2>4, <2>5
  <2>6. (\A r \in Runs : r > started' => received'[r] = 0) /\ \A r \in jobs' : r <= started'
    BY <1>1, <2>1
  <2>7. QED
    BY <2>5, <2>6
<1>6. ASSUME NEW s \in Sessions, StartPublish(s)
      PROVE  FreshInv'
  <2> DEFINE t == Txn("published", sess[s].run, sess[s].seen)
  <2>1. t.pc # "insert"
    BY TxnPc
  <2>2. /\ Set(s, t) /\ sess[s].pc = "insert" /\ jobs' = jobs \cup {sess[s].run}
        /\ UNCHANGED <<received, started>>
    BY <1>6 DEF StartPublish
  <2> HIDE DEF t
  <2>3. QED
    BY <1>2, <2>1, <2>2
<1>7. ASSUME NEW s \in Sessions,
             \/ StartCommit(s) \/ CancelBegin(s) \/ CancelCommit(s)
             \/ \E r \in Runs : CancelRead(s, r)
      PROVE  FreshInv'
  <2>1. UNCHANGED <<jobs, received, started>>
    BY <1>7 DEF StartCommit, CancelBegin, CancelCommit, CancelRead, queue
  <2>2. \E t : Set(s, t) /\ t.pc # "insert"
    <3>1. CASE CancelBegin(s)
      <4>1. Set(s, Txn("cancel", 0, stage)) /\ Txn("cancel", 0, stage).pc = "cancel"
        BY <3>1, TxnPc DEF CancelBegin
      <4>2. QED
        BY <4>1
    <3>2. ASSUME NEW r \in Runs, CancelRead(s, r)
          PROVE  \E t : Set(s, t) /\ t.pc # "insert"
      <4> DEFINE t == Txn("cancelling", r, sess[s].seen)
      <4>1. Set(s, t) /\ t.pc = "cancelling"
        BY <3>2, TxnPc DEF CancelRead
      <4> HIDE DEF t
      <4>2. QED
        BY <4>1
    <3>3. CASE StartCommit(s) \/ CancelCommit(s)
      <4>1. Set(s, Idle) /\ Idle.pc # "insert"
        BY <3>3, IdleType DEF StartCommit, CancelCommit
      <4>2. QED
        BY <4>1
    <3>4. QED
      BY <1>7, <3>1, <3>2, <3>3
  <2>3. QED
    BY <1>2, <2>1, <2>2
<1>8. ASSUME NEW s \in Sessions, Abort(s) \/ Acknowledge(s)
      PROVE  FreshInv'
  BY <1>2, <1>8, IdleType DEF Abort, Acknowledge, queue
<1>9. ASSUME NEW s \in Sessions, RunLock(s) \/ Step(s)
      PROVE  FreshInv'
  BY <1>2, <1>9, RunningSteps DEF AtWork
<1>10. ASSUME NEW s \in Sessions, RunCommit(s)
       PROVE  FreshInv'
  BY <1>2, <1>10 DEF RunCommit, Txn, queue
\* A delivery counts a message that is in the queue, so published and not new.
<1>11. ASSUME NEW s \in Sessions, NEW r \in Runs, RunBegin(s, r)
       PROVE  FreshInv'
  <2>1. PICK t : /\ Set(s, t) /\ t.pc \in {"opened", "ack"} /\ Receive(r)
                 /\ UNCHANGED <<jobs, started>>
    BY <1>11, BeginStep
  <2>2. sess'[s] = t /\ \A q \in Sessions \ {s} : sess'[q] = sess[q]
    BY <2>1 DEF TypeOK
  <2>3. \A q \in Sessions : sess'[q].pc = "insert" => sess'[q] = sess[q]
    BY <2>1, <2>2
  <2>4. r \in jobs /\ r <= started /\ \A q \in Runs : q # r => received'[q] = received[q]
    BY <1>1, <2>1 DEF Receive
  <2>5. QED
    BY <1>1, <2>1, <2>3, <2>4
<1>12. QED
  BY <1>1, <1>4, <1>5, <1>6, <1>7, <1>8, <1>9, <1>10, <1>11
  DEF Next, Request, Answer, Work

Handlers == [s \in Sessions |-> WorkOf(sess[s])]
Lost == dead # {}
QueueVars == <<jobs, received, Lost, Handlers>>

LEMMA HandlerBecomes ==
  ASSUME TypeOK, NEW s \in Sessions, NEW r, Set(s, r)
  PROVE  Handlers' = [Handlers EXCEPT ![s] = WorkOf(r)]
<1>1. sess' = [t \in Sessions |-> IF t = s THEN r ELSE sess[t]]
  BY DEF TypeOK
<1>2. \A t \in Sessions : WorkOf(sess'[t]) = IF t = s THEN WorkOf(r) ELSE WorkOf(sess[t])
  BY <1>1
<1>3. QED
  BY <1>2, Zenon DEF Handlers

LEMMA QueueActions ==
  /\ \A i : Queue!Send(i) <=>
        /\ i \notin jobs /\ received[i] = 0
        /\ jobs' = jobs \cup {i} /\ UNCHANGED <<received, Lost, Handlers>>
  /\ \A h, i : Queue!Deliver(h, i) <=>
        /\ Handlers[h] = [does |-> "waiting"] /\ Receive(i)
        /\ \/ Handlers' = [Handlers EXCEPT ![h] = [does |-> "handling", msg |-> i]]
           \/ Handlers' = [Handlers EXCEPT ![h] = [does |-> "handled", msg |-> i]]
        /\ UNCHANGED <<jobs, Lost>>
  /\ \A h : Queue!Return(h) <=>
        /\ Handlers[h].does = "handling"
        /\ Handlers' = [Handlers EXCEPT ![h] = [does |-> "handled", msg |-> Handlers[h].msg]]
        /\ UNCHANGED <<jobs, received, Lost>>
  /\ \A h : Queue!Delete(h) <=>
        /\ Handlers[h].does = "handled"
        /\ jobs' = jobs \ {Handlers[h].msg}
        /\ Handlers' = [Handlers EXCEPT ![h] = [does |-> "waiting"]]
        /\ UNCHANGED <<received, Lost>>
  /\ \A h : Queue!Raise(h) <=>
        /\ Handlers[h].does \in {"handling", "handled"}
        /\ Handlers' = [Handlers EXCEPT ![h] = [does |-> "waiting"]]
        /\ UNCHANGED <<jobs, received, Lost>>
  /\ \A i : Queue!Redrive(i) <=>
        /\ i \in jobs /\ received[i] = MaxReceive
        /\ jobs' = jobs \ {i} /\ Lost' = TRUE /\ UNCHANGED <<received, Handlers>>
  /\ (UNCHANGED QueueVars) => UNCHANGED Queue!vars
  BY Zenon
  DEF Handlers, Lost, Queue!Waiting, Queue!Handling, Queue!Handled, Queue!Becomes, Queue!Send,
      Queue!Received, Queue!Deliver, Queue!Return, Queue!Delete,
      Queue!Raise, Queue!Redrive, Receive, QueueVars, Queue!vars

LEMMA Working ==
  ASSUME NEW t
  PROVE  /\ t.pc \in AtWork => WorkOf(t) = [does |-> "handling", msg |-> t.run]
         /\ t.pc = "ack" => WorkOf(t) = [does |-> "handled", msg |-> t.run]
         /\ t.pc \notin AtWork \cup {"ack"} => WorkOf(t) = [does |-> "waiting"]
  BY DEF WorkOf, AtWork

LEMMA QueueInit == Init => Queue!Init
  BY IdleType DEF Init, Queue!Init, Queue!Waiting, WorkOf

LEMMA QueueStep ==
  ASSUME TypeOK, SessionOK, FreshInv, [Next]_vars
  PROVE  [Queue!Next]_Queue!vars
<1>0. Api \subseteq Sessions /\ Workers \subseteq Sessions
  BY DEF Sessions
<1>1. \A s \in Sessions : Handlers[s] = WorkOf(sess[s])
  BY DEF Handlers
<1>2. WorkOf(Idle) = [does |-> "waiting"]
  BY IdleType DEF WorkOf
<1>3. ASSUME UNCHANGED QueueVars
      PROVE  [Queue!Next]_Queue!vars
  BY <1>3, QueueActions
<1>4. \A r \in Runs : Queue!Send(r) \/ Queue!Redrive(r) => Queue!Next
  BY DEF Queue!Next
<1>5. \A s \in Sessions :
         /\ Queue!Return(s) \/ Queue!Delete(s) \/ Queue!Raise(s) => Queue!Next
         /\ \A r \in Runs : Queue!Deliver(s, r) => Queue!Next
  BY DEF Queue!Next
\* A session that goes on with the same work, or with none, is no step of its handler.
<1>6. ASSUME NEW s \in Sessions, NEW t, Set(s, t), WorkOf(t) = WorkOf(sess[s])
      PROVE  UNCHANGED Handlers
  <2>1. Handlers' = [Handlers EXCEPT ![s] = Handlers[s]]
    BY <1>1, <1>6, HandlerBecomes
  <2>2. QED
    BY <2>1 DEF Handlers
<1>7. CASE UNCHANGED vars \/ \E s \in Others : Elsewhere(s)
  <2>1. UNCHANGED <<jobs, received, dead, sess>>
    BY <1>7 DEF vars, Elsewhere, Reupload, Ingested, Verify, queue
  <2>2. Handlers' = Handlers /\ UNCHANGED Lost
    BY <2>1 DEF Handlers, Lost
  <2>3. QED
    BY <1>3, <2>1, <2>2 DEF QueueVars
<1>8. ASSUME NEW r \in Runs, DeadLetter(r)
      PROVE  Queue!Redrive(r)
  <2>1. Handlers' = Handlers
    BY <1>8 DEF DeadLetter, Handlers
  <2>2. Lost'
    BY <1>8 DEF DeadLetter, Lost
  <2>3. Lost' = TRUE
    BY <2>2 DEF Lost
  <2>4. QED
    BY <1>8, <2>1, <2>3, QueueActions DEF DeadLetter
<1>9. ASSUME NEW s \in Sessions,
             \/ StartInsert(s) \/ StartCommit(s) \/ CancelBegin(s) \/ CancelCommit(s)
             \/ \E r \in Runs : CancelRead(s, r)
      PROVE  UNCHANGED QueueVars
  <2>1. PICK t : /\ Set(s, t) /\ t.pc \notin AtWork \cup {"ack"}
                 /\ sess[s].pc \notin AtWork \cup {"ack"}
    BY <1>9, QuietSteps DEF AtWork
  <2>2. WorkOf(t) = WorkOf(sess[s])
    BY <2>1, Working
  <2>3. UNCHANGED <<jobs, received, dead>> /\ UNCHANGED Handlers
    BY <1>6, <1>9, <2>1, <2>2, QuietSteps
  <2>4. QED
    BY <2>3 DEF QueueVars, Lost
<1>10. ASSUME NEW s \in Sessions, StartPublish(s)
       PROVE  Queue!Send(sess[s].run) /\ sess[s].run \in Runs
  <2> DEFINE t == Txn("published", sess[s].run, sess[s].seen)
  <2>1. /\ sess[s].run \in Runs \ jobs /\ received[sess[s].run] = 0
        /\ sess[s].pc = "insert"
    BY <1>10 DEF StartPublish, FreshInv
  <2>2. /\ Set(s, t) /\ jobs' = jobs \cup {sess[s].run}
        /\ UNCHANGED <<received, dead>>
    BY <1>10 DEF StartPublish
  <2>3. WorkOf(t) = WorkOf(sess[s])
    <3>1. t.pc = "published"
      BY TxnPc
    <3> HIDE DEF t
    <3>2. QED
      BY <2>1, <3>1, Working DEF AtWork
  <2> HIDE DEF t
  <2>4. UNCHANGED Handlers /\ UNCHANGED Lost
    BY <1>6, <2>2, <2>3 DEF Lost
  <2>5. QED
    BY <2>1, <2>2, <2>4, QueueActions
<1>11. ASSUME NEW s \in Sessions, NEW r \in Runs, RunBegin(s, r)
       PROVE  Queue!Deliver(s, r)
  <2>1. PICK t : /\ Set(s, t) /\ t.run = r /\ t.pc \in {"opened", "ack"}
                 /\ sess[s].pc = "idle" /\ Receive(r) /\ UNCHANGED <<jobs, dead>>
    BY <1>11, BeginStep
  <2>2. WorkOf(t) \in {[does |-> "handling", msg |-> r], [does |-> "handled", msg |-> r]}
    BY <2>1, Working DEF AtWork
  <2>3. Handlers[s] = [does |-> "waiting"]
    BY <1>1, <2>1, Working DEF AtWork
  <2>4. Handlers' = [Handlers EXCEPT ![s] = WorkOf(t)] /\ UNCHANGED Lost
    BY <2>1, HandlerBecomes DEF Lost
  <2>5. QED
    BY <2>1, <2>2, <2>3, <2>4, QueueActions
<1>12. ASSUME NEW s \in Sessions, RunLock(s) \/ Step(s)
       PROVE  UNCHANGED QueueVars
  <2>1. PICK t : Set(s, t) /\ t.pc \in AtWork /\ t.run = sess[s].run
    BY <1>12, RunningSteps
  <2>2. WorkOf(t) = WorkOf(sess[s])
    <3>1. sess[s].pc \in AtWork
      BY <1>12, RunningSteps
    <3>2. QED
      BY <2>1, <3>1, Working
  <2>3. UNCHANGED <<jobs, received, dead>> /\ UNCHANGED Handlers
    BY <1>6, <1>12, <2>1, <2>2, RunningSteps
  <2>4. QED
    BY <2>3 DEF QueueVars, Lost
<1>13. ASSUME NEW s \in Sessions, RunCommit(s)
       PROVE  Queue!Return(s)
  <2>1. /\ sess[s].pc = "closing" /\ UNCHANGED <<jobs, received, dead>>
        /\ Set(s, Txn("ack", sess[s].run, "INGESTED"))
    BY <1>13 DEF RunCommit, queue
  <2>2. Handlers[s] = [does |-> "handling", msg |-> sess[s].run]
    BY <1>1, <2>1, Working DEF AtWork
  <2>3. WorkOf(Txn("ack", sess[s].run, "INGESTED")) = [does |-> "handled", msg |-> sess[s].run]
    BY TxnPc, Working
  <2>4. Handlers[s].does = "handling" /\ Handlers[s].msg = sess[s].run
    BY <2>2
  <2>5. Handlers' = [Handlers EXCEPT ![s] = [does |-> "handled", msg |-> sess[s].run]]
    BY <2>1, <2>3, HandlerBecomes
  <2>6. Handlers' = [Handlers EXCEPT ![s] = [does |-> "handled", msg |-> Handlers[s].msg]]
    BY <2>4, <2>5, Zenon
  <2>7. QED
    BY <2>1, <2>4, <2>6, QueueActions DEF Lost
<1>14. ASSUME NEW s \in Sessions, Acknowledge(s)
       PROVE  Queue!Delete(s)
  <2>1. /\ sess[s].pc = "ack" /\ jobs' = jobs \ {sess[s].run}
        /\ Set(s, Idle) /\ UNCHANGED <<received, dead>>
    BY <1>14 DEF Acknowledge
  <2>2. Handlers[s].does = "handled" /\ Handlers[s].msg = sess[s].run
    <3>1. Handlers[s] = [does |-> "handled", msg |-> sess[s].run]
      BY <1>1, <2>1, Working
    <3>2. QED
      BY <3>1
  <2>3. Handlers' = [Handlers EXCEPT ![s] = [does |-> "waiting"]]
    BY <1>2, <2>1, HandlerBecomes
  <2>4. QED
    BY <2>1, <2>2, <2>3, QueueActions DEF Lost
<1>15. ASSUME NEW s \in Sessions, Abort(s)
       PROVE  Queue!Raise(s) \/ UNCHANGED QueueVars
  <2>1. Set(s, Idle) /\ UNCHANGED <<jobs, received, dead>>
    BY <1>15 DEF Abort, queue
  <2>2. Handlers' = [Handlers EXCEPT ![s] = [does |-> "waiting"]] /\ UNCHANGED Lost
    BY <1>2, <2>1, HandlerBecomes DEF Lost
  <2>3. CASE sess[s].pc \in AtWork \cup {"ack"}
    <3>1. \/ Handlers[s] = [does |-> "handling", msg |-> sess[s].run]
          \/ Handlers[s] = [does |-> "handled", msg |-> sess[s].run]
      BY <1>1, <2>3, Working
    <3>2. Handlers[s].does \in {"handling", "handled"}
      BY <3>1
    <3>3. QED
      BY <2>1, <2>2, <3>2, QueueActions
  <2>4. CASE sess[s].pc \notin AtWork \cup {"ack"}
    <3>1. WorkOf(Idle) = WorkOf(sess[s])
      BY <1>2, <2>4, Working
    <3>2. QED
      BY <1>6, <2>1, <2>2, <3>1 DEF QueueVars
  <2>5. QED
    BY <2>3, <2>4
<1>16. CASE \E s \in Api : Request(s) \/ Answer(s) \/ Abort(s)
  BY <1>0, <1>3, <1>4, <1>5, <1>9, <1>10, <1>15, <1>16 DEF Request, Answer
<1>17. CASE \E s \in Workers : Work(s) \/ Abort(s) \/ \E r \in Runs : RunBegin(s, r)
  BY <1>0, <1>3, <1>5, <1>11, <1>12, <1>13, <1>14, <1>15, <1>17 DEF Work
<1>18. CASE \E r \in Runs : DeadLetter(r)
  BY <1>4, <1>8, <1>18
<1>19. QED
  BY <1>7, <1>16, <1>17, <1>18 DEF Next

\* The decisioning queue keeps queue.py's promise, for any number of workers and
\* runs: a message leaves only after the worker that received it committed the run
\* or had nothing to do, or after maxReceiveCount deliveries, and never comes back.
THEOREM DecisioningQueueIsImplemented == Spec => RefinesJobQueue
<1> DEFINE QueueInv == TypeOK /\ SessionOK /\ FreshInv
<1>1. Init => QueueInv
  BY TypeInit, FreshInit
<1>2. QueueInv /\ [Next]_vars => QueueInv'
  BY TypeStep, FreshStep
<1>3. QueueInv /\ [Next]_vars => [Queue!Next]_Queue!vars
  BY QueueStep
<1>4. Init => Queue!Init
  BY QueueInit
<1>5. QED
  BY <1>1, <1>2, <1>3, <1>4, PTL DEF Spec, RefinesJobQueue, Queue!Spec
=============================================================================
