--------------------------- MODULE VerificationProofs ---------------------------
(***************************************************************************)
(* Theorems about VerificationGate, for every number of sessions, runs and *)
(* sub-steps.                                                              *)
(***************************************************************************)
EXTENDS VerificationGate, TLAPS

\* The rows of a run fit its status.
Fits(st, rows) ==
    /\ st = "PASSED_WITH_MD_OVERRIDE" => \A i \in SubSteps : rows[i] # "MD_REJECTED"
    /\ st = "BLOCKED" => \E i \in SubSteps : rows[i] \notin {"NONE", "MD_APPROVED"}

SeenRows(s) == [i \in SubSteps |-> SeenRow(s, i)]
AtWork(s) == sess[s].pc \in {"running", "finished"}

\* What a session at work knows of itself.
SessionOK(s) ==
    /\ ~Free(s) => sess[s].run \in Runs
    /\ Busy(s, "finished") => sess[s].end # "NONE"
    /\ Busy(s, "resolving") => sess[s].to = "ASSESSOR_RESOLVED"
    /\ sess[s].pc \in {"deciding", "decided"} =>
         sess[s].to \in Decisions /\ sess[s].on # {}
    /\ sess[s].pc \in {"resolving", "deciding", "decided"} => status[sess[s].run] # "NONE"
    /\ Busy(s, "decided") => sess[s].end # "NONE"

TypeInv == TypeOK /\ \A s \in Sessions : SessionOK(s)

\* A level at work has a run of its own, not yet visible to anyone.
OwnRuns ==
    /\ \A r \in Runs : r > inserted => status[r] = "NONE"
    /\ \A s \in Sessions : AtWork(s) =>
         sess[s].run <= inserted /\ status[sess[s].run] = "NONE"
    /\ \A s, t \in Sessions :
         AtWork(s) /\ AtWork(t) /\ sess[s].run = sess[t].run => s = t

\* The parent row's lock.
Exclusive ==
    \A s, t \in Sessions :
        Busy(s, "decided") /\ Busy(t, "decided") /\ sess[s].run = sess[t].run => s = t

\* A run fits its status, and would if a transaction about to commit did so now.
AllFit ==
    /\ \A r \in Runs : Fits(status[r], issue[r])
    /\ \A s \in Sessions : Busy(s, "finished") => Fits(sess[s].end, sess[s].rows)
    /\ \A s \in Sessions : Busy(s, "decided") => Fits(sess[s].end, SeenRows(s))

GateInv == TypeInv /\ OwnRuns /\ Exclusive /\ AllFit

-----------------------------------------------------------------------------
(***************************************************************************)
(* Facts about the operators                                               *)
(***************************************************************************)
LEMMA IdleType == Idle \in Transaction /\ Idle.pc = "idle"
<1>1. 0 \in 0..MaxRuns /\ NoIssues \in [SubSteps -> IssueStatus] /\ {} \in SUBSET SubSteps
  BY RunsAssumption DEF NoIssues, IssueStatus
<1>2. QED
  BY <1>1 DEF Idle, Txn, Transaction, IssueStatus

LEMMA SetSession ==
  ASSUME TypeOK, NEW s \in Sessions, NEW t \in Transaction, Set(s, t)
  PROVE  /\ sess' \in [Sessions -> Transaction] /\ sess'[s] = t
         /\ \A q \in Sessions \ {s} : sess'[q] = sess[q]
BY DEF TypeOK, Set

\* An assessor's resolution never spoils the fit of a run.
LEMMA ResolutionFits ==
  ASSUME NEW st, NEW f, NEW g, Fits(st, f),
         \A i \in SubSteps : g[i] = f[i] \/ g[i] = "ASSESSOR_RESOLVED"
  PROVE  Fits(st, g)
BY DEF Fits

\* The level's verdict fits the rows it fires, and so does the recomputed one.
LEMMA VerdictFits ==
  ASSUME NEW found \in SUBSET SubSteps, NEW critical \in SUBSET found
  PROVE  /\ Verdict(critical) \in {"PASSED", "BLOCKED"}
         /\ FiredOpen(found) \in [found -> IssueStatus]
         /\ Fits(Verdict(critical), AsRows(FiredOpen(found)))
BY DEF Verdict, FiredOpen, Fits, AsRows, IssueStatus, Undecided

LEMMA CarriedFits ==
  ASSUME TypeOK, NEW q \in Runs,
         NEW found \in SUBSET SubSteps, NEW critical \in SUBSET found
  PROVE  LET fired == Carried(found, q)
             verdict == IF issue[q] = NoIssues THEN Verdict(critical)
                                               ELSE Recomputed(fired, critical)
         IN /\ fired \in [found -> IssueStatus \ {"NONE"}] /\ verdict \in LevelStatus
            /\ Fits(verdict, AsRows(fired))
<1> DEFINE fired == Carried(found, q)
           verdict == IF issue[q] = NoIssues THEN Verdict(critical)
                                             ELSE Recomputed(fired, critical)
<1>1. \A i \in found : issue[q][i] \in IssueStatus
  BY DEF TypeOK
<1>2. fired \in [found -> IssueStatus \ {"NONE"}]
  BY <1>1 DEF Carried, IssueStatus, Undecided
<1>3. \A i \in found : AsRows(fired)[i] = fired[i]
  BY <1>2 DEF AsRows
<1>4. \A i \in SubSteps \ found : AsRows(fired)[i] = "NONE"
  BY <1>2 DEF AsRows
<1>5. CASE issue[q] = NoIssues
  <2>1. \A i \in found : fired[i] = "OPEN"
    BY <1>5 DEF Carried, NoIssues
  <2>2. QED
    BY <1>2, <1>3, <1>4, <1>5, <2>1 DEF Verdict, Fits, LevelStatus
<1>6. CASE issue[q] # NoIssues
  <2>1. verdict = Recomputed(fired, critical)
    BY <1>6
  <2>2. verdict = "PASSED_WITH_MD_OVERRIDE" => \A i \in SubSteps : AsRows(fired)[i] # "MD_REJECTED"
    BY <1>2, <1>3, <1>4, <2>1 DEF Recomputed, Verdict
  <2>3. verdict = "BLOCKED" =>
          \E i \in SubSteps : AsRows(fired)[i] \notin {"NONE", "MD_APPROVED"}
    BY <1>2, <1>3, <2>1 DEF Recomputed, Verdict, Decisions, IssueStatus, Undecided
  <2>4. verdict \in LevelStatus
    BY <2>1 DEF Recomputed, Verdict, LevelStatus
  <2>5. QED
    BY <1>2, <2>2, <2>3, <2>4 DEF Fits
<1>7. QED
  BY <1>5, <1>6

-----------------------------------------------------------------------------
(***************************************************************************)
(* The invariant is inductive                                              *)
(***************************************************************************)
LEMMA InvInit == Init => GateInv
<1> SUFFICES ASSUME Init PROVE GateInv
  OBVIOUS
<1>1. NoIssues \in [SubSteps -> IssueStatus] /\ 0 \in 0..MaxRuns
  BY RunsAssumption DEF NoIssues, IssueStatus
<1>2. \A s \in Sessions : sess[s] = Idle /\ sess[s].pc = "idle"
  BY IdleType DEF Init
<1>3. TypeInv
  BY <1>1, <1>2, IdleType DEF Init, TypeInv, TypeOK, SessionOK, Free, Busy
<1>4. OwnRuns /\ Exclusive
  BY <1>2 DEF Init, OwnRuns, Exclusive, AtWork, Busy
<1>5. AllFit
  BY <1>2 DEF Init, AllFit, Fits, Busy
<1>6. QED
  BY <1>3, <1>4, <1>5 DEF GateInv

\* A transaction that ends without writing anything.
LEMMA InvAbort ==
  ASSUME GateInv, NEW s \in Sessions, Abort(s)
  PROVE  GateInv'
<1>1. /\ TypeOK /\ Idle \in Transaction /\ Set(s, Idle) /\ UNCHANGED <<status, issue, inserted>>
  BY IdleType DEF GateInv, TypeInv, Abort
<1>2. /\ sess' \in [Sessions -> Transaction] /\ sess'[s].pc = "idle"
      /\ \A q \in Sessions \ {s} : sess'[q] = sess[q]
  BY <1>1, IdleType, SetSession
<1>3. TypeInv'
  BY <1>1, <1>2 DEF GateInv, TypeInv, TypeOK, SessionOK, Free, Busy
<1>4. OwnRuns' /\ Exclusive'
  BY <1>1, <1>2 DEF GateInv, OwnRuns, Exclusive, AtWork, Busy
<1>5. AllFit'
  BY <1>1, <1>2 DEF GateInv, AllFit, SeenRows, SeenRow, Busy
<1>6. QED
  BY <1>3, <1>4, <1>5 DEF GateInv

LEMMA InvInsert ==
  ASSUME GateInv, NEW s \in Sessions, InsertRun(s)
  PROVE  GateInv'
<1> DEFINE r == inserted + 1
           t == Txn("running", r)
<1>1. /\ TypeOK /\ r \in Runs /\ r \in 0..MaxRuns /\ inserted' = r /\ inserted \in Nat
      /\ Set(s, t) /\ UNCHANGED <<status, issue>>
  BY RunsAssumption DEF GateInv, TypeInv, TypeOK, InsertRun, Runs
<1>2. t \in Transaction /\ t.pc = "running" /\ t.run = r
  <2>1. NoIssues \in [SubSteps -> IssueStatus] /\ {} \in SUBSET SubSteps
    BY DEF NoIssues, IssueStatus
  <2>2. QED
    BY <1>1, <2>1 DEF Txn, Transaction, IssueStatus
<1> HIDE DEF t
<1>3. /\ sess' \in [Sessions -> Transaction] /\ sess'[s] = t
      /\ \A q \in Sessions \ {s} : sess'[q] = sess[q]
  BY <1>1, <1>2, SetSession
<1>4. TypeInv'
  BY <1>1, <1>2, <1>3 DEF GateInv, TypeInv, TypeOK, SessionOK, Free, Busy
<1>5. OwnRuns'
  <2>1. \A x \in Runs : x \in Nat
    BY RunsAssumption DEF Runs
  <2>2. \A q \in Sessions : AtWork(q) => sess[q].run \in Nat
    BY DEF GateInv, TypeInv, TypeOK, Transaction
  <2>3. QED
    BY <1>1, <1>2, <1>3, <2>1, <2>2 DEF GateInv, OwnRuns, AtWork
<1>6. Exclusive'
  BY <1>1, <1>2, <1>3 DEF GateInv, Exclusive, Busy
<1>7. AllFit'
  BY <1>1, <1>2, <1>3 DEF GateInv, AllFit, SeenRows, SeenRow, Busy
<1>8. QED
  BY <1>4, <1>5, <1>6, <1>7 DEF GateInv

\* The level's work ends with rows that fit its verdict.
LEMMA InvFinish ==
  ASSUME GateInv, NEW s \in Sessions, Busy(s, "running"),
         NEW found \in SUBSET SubSteps, NEW fired \in [found -> IssueStatus],
         NEW verdict \in LevelStatus, Fits(verdict, AsRows(fired)),
         Finish(s, fired, verdict)
  PROVE  GateInv'
<1> DEFINE t == [pc |-> "finished", run |-> sess[s].run, on |-> {}, to |-> "NONE",
                 rows |-> AsRows(fired), end |-> verdict]
<1>1. /\ TypeOK /\ Set(s, t) /\ UNCHANGED <<status, issue, inserted>>
      /\ sess[s] \in Transaction /\ sess[s].run \in Runs
  BY DEF GateInv, TypeInv, TypeOK, SessionOK, Finish, Free, Busy
<1>2. t \in Transaction
  <2>1. AsRows(fired) \in [SubSteps -> IssueStatus] /\ {} \in SUBSET SubSteps
    BY DEF AsRows, IssueStatus
  <2>2. QED
    BY <1>1, <2>1 DEF Transaction, IssueStatus
<1>3. /\ t.pc = "finished" /\ t.run = sess[s].run /\ t.end = verdict
      /\ t.rows = AsRows(fired) /\ verdict # "NONE"
  BY DEF LevelStatus
<1> HIDE DEF t
<1>4. /\ sess' \in [Sessions -> Transaction] /\ sess'[s] = t
      /\ \A q \in Sessions \ {s} : sess'[q] = sess[q]
  BY <1>1, <1>2, SetSession
<1>5. TypeInv'
  BY <1>1, <1>3, <1>4 DEF GateInv, TypeInv, TypeOK, SessionOK, Free, Busy
<1>6. OwnRuns' /\ Exclusive'
  BY <1>1, <1>3, <1>4 DEF GateInv, OwnRuns, Exclusive, AtWork, Busy
<1>7. AllFit'
  BY <1>1, <1>3, <1>4 DEF GateInv, AllFit, SeenRows, SeenRow, Busy
<1>8. QED
  BY <1>5, <1>6, <1>7 DEF GateInv

LEMMA InvRunFirst ==
  ASSUME GateInv, NEW s \in Sessions, NEW found \in SUBSET SubSteps,
         NEW critical \in SUBSET found, RunFirst(s, found, critical)
  PROVE  GateInv'
<1>1. Verdict(critical) \in LevelStatus
  BY VerdictFits DEF LevelStatus
<1>2. QED
  BY <1>1, VerdictFits, InvFinish DEF RunFirst

LEMMA InvRunCarries ==
  ASSUME GateInv, NEW s \in Sessions, NEW q \in Runs, NEW found \in SUBSET SubSteps,
         NEW critical \in SUBSET found, RunCarries(s, q, found, critical)
  PROVE  GateInv'
<1>1. TypeOK
  BY DEF GateInv, TypeInv
<1>2. Carried(found, q) \in [found -> IssueStatus]
  BY <1>1, CarriedFits
<1>3. QED
  BY <1>1, <1>2, CarriedFits, InvFinish DEF RunCarries

\* The commit of a run: nobody else knows of it.
LEMMA InvRunCommit ==
  ASSUME GateInv, NEW s \in Sessions, RunCommit(s)
  PROVE  GateInv'
<1> DEFINE r == sess[s].run
<1>1. /\ TypeOK /\ Idle \in Transaction /\ Set(s, Idle)
      /\ r \in Runs /\ sess[s].end \in LevelStatus /\ inserted' = inserted
      /\ sess[s].rows \in [SubSteps -> IssueStatus] /\ Busy(s, "finished")
      /\ r <= inserted /\ status[r] = "NONE"
  BY IdleType DEF GateInv, TypeInv, TypeOK, SessionOK, RunCommit, Free, Busy, Transaction,
                  OwnRuns, AtWork
<1>2. /\ sess' \in [Sessions -> Transaction] /\ sess'[s].pc = "idle"
      /\ \A q \in Sessions \ {s} : sess'[q] = sess[q]
  BY <1>1, IdleType, SetSession
<1>3. /\ status'[r] = sess[s].end /\ issue'[r] = sess[s].rows
      /\ \A x \in Runs \ {r} : status'[x] = status[x] /\ issue'[x] = issue[x]
      /\ status' \in [Runs -> LevelStatus \cup {"NONE"}]
      /\ issue' \in [Runs -> [SubSteps -> IssueStatus]]
  BY <1>1 DEF TypeOK, RunCommit
<1>4. \A q \in Sessions \ {s} : AtWork(q) => sess[q].run # r
  BY <1>1 DEF GateInv, OwnRuns, AtWork, Busy
<1>5. \A q \in Sessions \ {s} :
        sess[q].pc \in {"resolving", "deciding", "decided"} => sess[q].run # r
  BY <1>1 DEF GateInv, TypeInv, SessionOK
<1>6. TypeInv'
  <2>1. TypeOK'
    BY <1>1, <1>2, <1>3 DEF TypeOK
  <2>2. \A q \in Sessions \ {s} : SessionOK(q)'
    BY <1>1, <1>2, <1>3, <1>5 DEF GateInv, TypeInv, SessionOK, Free, Busy
  <2>3. SessionOK(s)'
    BY <1>2 DEF SessionOK, Free, Busy
  <2>4. QED
    BY <2>1, <2>2, <2>3 DEF TypeInv
<1>7. OwnRuns'
  <2>1. \A x \in Runs : x > inserted => x # r
    BY <1>1, RunsAssumption DEF Runs, TypeOK
  <2>2. \A q \in Sessions : AtWork(q) => sess[q].run \in Runs
    BY DEF GateInv, TypeInv, SessionOK, AtWork, Free, Busy
  <2>3. QED
    BY <1>1, <1>2, <1>3, <1>4, <2>1, <2>2 DEF GateInv, OwnRuns, AtWork
<1>8. Exclusive'
  BY <1>1, <1>2 DEF GateInv, Exclusive, Busy
<1>9. AllFit'
  <2>1. \A x \in Runs : Fits(status'[x], issue'[x])
    BY <1>1, <1>3 DEF GateInv, AllFit
  <2>2. \A q \in Sessions : Busy(q, "finished")' => Fits(sess'[q].end, sess'[q].rows)
    BY <1>2 DEF GateInv, AllFit, Busy
  <2>3. ASSUME NEW q \in Sessions, Busy(q, "decided")'
        PROVE  Fits(sess'[q].end, SeenRows(q)')
    <3>1. q # s /\ sess'[q] = sess[q] /\ Busy(q, "decided") /\ sess[q].run \in Runs \ {r}
      BY <1>2, <1>5, <2>3 DEF Busy, GateInv, TypeInv, SessionOK, Free
    <3>2. SeenRows(q)' = SeenRows(q)
      BY <1>3, <3>1 DEF SeenRows, SeenRow
    <3>3. QED
      BY <3>1, <3>2 DEF GateInv, AllFit
  <2>4. QED
    BY <2>1, <2>2, <2>3 DEF AllFit
<1>10. QED
  BY <1>6, <1>7, <1>8, <1>9 DEF GateInv

LEMMA InvOpen ==
  ASSUME GateInv, NEW s \in Sessions, NEW r \in Runs, NEW i \in SubSteps,
         NEW pc \in {"resolving", "deciding"}, NEW to \in IssueStatus,
         pc = "resolving" => to = "ASSESSOR_RESOLVED",
         pc = "deciding" => to \in Decisions,
         OpenIssue(s, pc, r, i, to)
  PROVE  GateInv'
<1> DEFINE t == [pc |-> pc, run |-> r, on |-> {j \in {i} : issue[r][j] # to},
                 to |-> to, rows |-> NoIssues, end |-> "NONE"]
<1>1. /\ TypeOK /\ Set(s, t) /\ UNCHANGED <<status, issue, inserted>>
      /\ status[r] # "NONE" /\ issue[r][i] \in Undecided
  BY DEF GateInv, TypeInv, OpenIssue, Committed
<1>2. t \in Transaction
  <2>1. /\ NoIssues \in [SubSteps -> IssueStatus] /\ r \in 0..MaxRuns
        /\ {j \in {i} : issue[r][j] # to} \in SUBSET SubSteps
    BY RunsAssumption DEF NoIssues, IssueStatus, Runs
  <2>2. QED
    BY <2>1 DEF Transaction
<1>3. t.on # {} \/ pc = "resolving"
  BY <1>1 DEF Undecided, Decisions
<1>4. t.pc = pc /\ t.run = r /\ t.to = to
  OBVIOUS
<1> HIDE DEF t
<1>5. /\ sess' \in [Sessions -> Transaction] /\ sess'[s] = t
      /\ \A q \in Sessions \ {s} : sess'[q] = sess[q]
  BY <1>1, <1>2, SetSession
<1>6. TypeInv'
  BY <1>1, <1>3, <1>4, <1>5 DEF GateInv, TypeInv, TypeOK, SessionOK, Free, Busy
<1>7. OwnRuns' /\ Exclusive'
  BY <1>1, <1>4, <1>5 DEF GateInv, OwnRuns, Exclusive, AtWork, Busy
<1>8. AllFit'
  BY <1>1, <1>4, <1>5 DEF GateInv, AllFit, SeenRows, SeenRow, Busy
<1>9. QED
  BY <1>6, <1>7, <1>8 DEF GateInv

\* A resolution may come between a decision's lock and its commit.
LEMMA InvResolveCommit ==
  ASSUME GateInv, NEW s \in Sessions, ResolveCommit(s)
  PROVE  GateInv'
<1> DEFINE r == sess[s].run
<1>1. /\ TypeOK /\ Idle \in Transaction /\ Set(s, Idle) /\ UNCHANGED <<status, inserted>>
      /\ r \in Runs /\ status[r] # "NONE" /\ sess[s].to = "ASSESSOR_RESOLVED"
      /\ WriteIssue(s)
  BY IdleType DEF GateInv, TypeInv, SessionOK, ResolveCommit, Free, Busy
<1>2. /\ sess' \in [Sessions -> Transaction] /\ sess'[s].pc = "idle"
      /\ \A q \in Sessions \ {s} : sess'[q] = sess[q]
  BY <1>1, IdleType, SetSession
<1>3. /\ \A x \in Runs, i \in SubSteps :
           issue'[x][i] = issue[x][i] \/ issue'[x][i] = "ASSESSOR_RESOLVED"
      /\ issue' \in [Runs -> [SubSteps -> IssueStatus]]
  BY <1>1 DEF TypeOK, WriteIssue, SeenRow, IssueStatus, Undecided
<1>4. TypeInv'
  BY <1>1, <1>2, <1>3 DEF GateInv, TypeInv, TypeOK, SessionOK, Free, Busy
<1>5. OwnRuns' /\ Exclusive'
  BY <1>1, <1>2 DEF GateInv, OwnRuns, Exclusive, AtWork, Busy
<1>6. AllFit'
  <2>1. \A x \in Runs : Fits(status'[x], issue'[x])
    BY <1>1, <1>3, ResolutionFits DEF GateInv, AllFit
  <2>2. \A q \in Sessions : Busy(q, "finished")' => Fits(sess'[q].end, sess'[q].rows)
    BY <1>2 DEF GateInv, AllFit, Busy
  <2>3. ASSUME NEW q \in Sessions, Busy(q, "decided")'
        PROVE  Fits(sess'[q].end, SeenRows(q)')
    <3>1. sess'[q] = sess[q] /\ Busy(q, "decided") /\ sess[q].run \in Runs
      BY <1>2, <2>3 DEF Busy, GateInv, TypeInv, SessionOK, Free
    <3>2. \A i \in SubSteps : SeenRows(q)'[i] = SeenRows(q)[i]
                              \/ SeenRows(q)'[i] = "ASSESSOR_RESOLVED"
      BY <1>3, <3>1 DEF SeenRows, SeenRow
    <3>3. Fits(sess[q].end, SeenRows(q))
      BY <3>1 DEF GateInv, AllFit
    <3>4. QED
      BY <3>1, <3>2, <3>3, ResolutionFits
  <2>4. QED
    BY <2>1, <2>2, <2>3 DEF AllFit
<1>7. QED
  BY <1>4, <1>5, <1>6 DEF GateInv

\* What a decision will leave fits, judged by the rows it saw under its lock.
LEMMA DecisionFits ==
  ASSUME GateInv, NEW s \in Sessions, Busy(s, "deciding")
  PROVE  LET st == Decided(s, status[sess[s].run])
         IN Fits(st, SeenRows(s)) /\ st \in LevelStatus
<1> DEFINE r == sess[s].run
           st == Decided(s, status[r])
<1>1. /\ r \in Runs /\ sess[s].to \in Decisions /\ status[r] \in LevelStatus
      /\ Fits(status[r], issue[r])
      /\ \E i \in SubSteps : i \in sess[s].on
  BY DEF GateInv, TypeInv, TypeOK, Transaction, SessionOK, Free, Busy, AllFit
<1>2. \A i \in SubSteps : /\ SeenRows(s)[i] = SeenRow(s, i)
                          /\ i \in sess[s].on => SeenRow(s, i) = sess[s].to
                          /\ i \notin sess[s].on => SeenRow(s, i) = issue[r][i]
  BY DEF SeenRows, SeenRow
<1>3. CASE Promotes(s, status[r])
  BY <1>2, <1>3 DEF Promotes, Decided, Fits, LevelStatus
<1>4. CASE ~Promotes(s, status[r]) /\ Demotes(s, status[r])
  BY <1>1, <1>2, <1>4 DEF Demotes, Decided, Fits, LevelStatus
<1>5. CASE ~Promotes(s, status[r]) /\ ~Demotes(s, status[r])
  <2>1. st = status[r]
    BY <1>5 DEF Decided
  <2>2. status[r] = "PASSED_WITH_MD_OVERRIDE" =>
          \A i \in SubSteps : SeenRows(s)[i] # "MD_REJECTED"
    BY <1>1, <1>2, <1>5 DEF Demotes, Fits, Decisions
  <2>3. status[r] = "BLOCKED" =>
          \E i \in SubSteps : SeenRows(s)[i] \notin {"NONE", "MD_APPROVED"}
    BY <1>1, <1>2, <1>5 DEF Promotes, Decisions
  <2>4. QED
    BY <1>1, <2>1, <2>2, <2>3 DEF Fits
<1>6. QED
  BY <1>3, <1>4, <1>5

LEMMA InvDecideLock ==
  ASSUME GateInv, NEW s \in Sessions, DecideLock(s)
  PROVE  GateInv'
<1> DEFINE r == sess[s].run
           t == [sess[s] EXCEPT !.pc = "decided", !.end = Decided(s, status[r])]
<1>1. /\ TypeOK /\ Set(s, t) /\ UNCHANGED <<status, issue, inserted>>
      /\ Busy(s, "deciding") /\ r \in Runs /\ sess[s] \in Transaction
      /\ sess[s].to \in Decisions /\ sess[s].on # {} /\ status[r] # "NONE"
  BY DEF GateInv, TypeInv, TypeOK, SessionOK, DecideLock, Free, Busy
<1>2. Decided(s, status[r]) \in LevelStatus /\ Fits(Decided(s, status[r]), SeenRows(s))
  BY <1>1, DecisionFits
<1>3. /\ t \in Transaction /\ t.pc = "decided" /\ t.run = r /\ t.to = sess[s].to
      /\ t.on = sess[s].on /\ t.end = Decided(s, status[r])
  BY <1>1, <1>2 DEF Transaction
<1> HIDE DEF t
<1>4. /\ sess' \in [Sessions -> Transaction] /\ sess'[s] = t
      /\ \A q \in Sessions \ {s} : sess'[q] = sess[q]
  BY <1>1, <1>3, SetSession
<1>5. TypeInv'
  <2>1. Decided(s, status[r]) # "NONE"
    BY <1>2 DEF LevelStatus
  <2>2. QED
    BY <1>1, <1>3, <1>4, <2>1 DEF GateInv, TypeInv, TypeOK, SessionOK, Free, Busy
<1>6. OwnRuns'
  BY <1>1, <1>3, <1>4 DEF GateInv, OwnRuns, AtWork
<1>7. Exclusive'
  BY <1>1, <1>3, <1>4 DEF GateInv, Exclusive, Busy, DecideLock, Locked
<1>8. AllFit'
  <2>1. SeenRows(s)' = SeenRows(s)
    BY <1>1, <1>3, <1>4 DEF SeenRows, SeenRow
  <2>2. \A q \in Sessions \ {s} : SeenRows(q)' = SeenRows(q)
    BY <1>1, <1>4 DEF SeenRows, SeenRow
  <2>3. QED
    BY <1>1, <1>2, <1>3, <1>4, <2>1, <2>2 DEF GateInv, AllFit, Busy
<1>9. QED
  BY <1>5, <1>6, <1>7, <1>8 DEF GateInv

\* Under the lock no other decision is about the same run.
LEMMA InvDecideCommit ==
  ASSUME GateInv, NEW s \in Sessions, DecideCommit(s)
  PROVE  GateInv'
<1> DEFINE r == sess[s].run
<1>1. /\ TypeOK /\ Idle \in Transaction /\ Set(s, Idle) /\ inserted' = inserted
      /\ r \in Runs /\ status[r] # "NONE" /\ sess[s].to \in IssueStatus
      /\ sess[s].end \in LevelStatus /\ WriteIssue(s) /\ Busy(s, "decided")
  BY IdleType DEF GateInv, TypeInv, TypeOK, Transaction, SessionOK, DecideCommit, Free, Busy
<1>2. /\ sess' \in [Sessions -> Transaction] /\ sess'[s].pc = "idle"
      /\ \A q \in Sessions \ {s} : sess'[q] = sess[q]
  BY <1>1, IdleType, SetSession
<1>3. /\ status'[r] = sess[s].end /\ issue'[r] = SeenRows(s)
      /\ \A x \in Runs \ {r} : status'[x] = status[x] /\ issue'[x] = issue[x]
      /\ status' \in [Runs -> LevelStatus \cup {"NONE"}]
      /\ issue' \in [Runs -> [SubSteps -> IssueStatus]]
  BY <1>1 DEF TypeOK, DecideCommit, WriteIssue, SeenRows, SeenRow
<1>4. status'[r] # "NONE"
  BY <1>1, <1>3 DEF LevelStatus
<1>5. TypeInv'
  <2>1. TypeOK'
    BY <1>1, <1>2, <1>3 DEF TypeOK
  <2>2. \A q \in Sessions \ {s} : SessionOK(q)'
    BY <1>2, <1>3, <1>4 DEF GateInv, TypeInv, SessionOK, Free, Busy
  <2>3. SessionOK(s)'
    BY <1>2 DEF SessionOK, Free, Busy
  <2>4. QED
    BY <2>1, <2>2, <2>3 DEF TypeInv
<1>6. OwnRuns'
  BY <1>1, <1>2, <1>3 DEF GateInv, OwnRuns, AtWork, TypeInv, SessionOK, Free, Busy
<1>7. Exclusive'
  BY <1>2 DEF GateInv, Exclusive, Busy
<1>8. AllFit'
  <2>1. \A x \in Runs : Fits(status'[x], issue'[x])
    BY <1>1, <1>3 DEF GateInv, AllFit
  <2>2. \A q \in Sessions : Busy(q, "finished")' => Fits(sess'[q].end, sess'[q].rows)
    BY <1>2 DEF GateInv, AllFit, Busy
  <2>3. ASSUME NEW q \in Sessions, Busy(q, "decided")'
        PROVE  Fits(sess'[q].end, SeenRows(q)')
    <3>1. sess'[q] = sess[q] /\ Busy(q, "decided") /\ sess[q].run \in Runs \ {r}
      BY <1>1, <1>2, <2>3 DEF Busy, GateInv, TypeInv, SessionOK, Free, Exclusive
    <3>2. SeenRows(q)' = SeenRows(q)
      BY <1>3, <3>1 DEF SeenRows, SeenRow
    <3>3. QED
      BY <3>1, <3>2 DEF GateInv, AllFit
  <2>4. QED
    BY <2>1, <2>2, <2>3 DEF AllFit
<1>9. QED
  BY <1>5, <1>6, <1>7, <1>8 DEF GateInv

LEMMA InvNext == GateInv /\ [Next]_vars => GateInv'
<1> SUFFICES ASSUME GateInv, [Next]_vars PROVE GateInv'
  OBVIOUS
<1>1. CASE UNCHANGED vars
  <2>1. UNCHANGED <<status, issue, inserted, sess>>
    BY <1>1 DEF vars
  <2>2. UNCHANGED TypeInv
    BY <2>1 DEF TypeInv, TypeOK, SessionOK, Free, Busy
  <2>3. UNCHANGED OwnRuns /\ UNCHANGED Exclusive
    BY <2>1 DEF OwnRuns, Exclusive, AtWork, Busy
  <2>4. UNCHANGED AllFit
    BY <2>1 DEF AllFit, SeenRows, SeenRow, Busy
  <2>5. QED
    BY <2>2, <2>3, <2>4 DEF GateInv
<1>2. ASSUME NEW s \in Sessions, Run(s)
      PROVE  GateInv'
  BY <1>2, InvInsert, InvRunFirst, InvRunCarries, InvRunCommit
     DEF Run, TriggerBegin, RerunBegin
<1>3. ASSUME NEW s \in Sessions, Resolve(s)
      PROVE  GateInv'
  <2>1. "ASSESSOR_RESOLVED" \in IssueStatus
    BY DEF IssueStatus, Undecided
  <2>2. ASSUME NEW r \in Runs, NEW i \in SubSteps, ResolveBegin(s, r, i)
        PROVE  GateInv'
    BY <2>1, <2>2, InvOpen DEF ResolveBegin
  <2>3. QED
    BY <1>3, <2>2, InvResolveCommit DEF Resolve
<1>4. ASSUME NEW s \in Sessions, Decide(s)
      PROVE  GateInv'
  <2>1. ASSUME NEW r \in Runs, NEW i \in SubSteps, NEW d \in Decisions,
               DecideBegin(s, r, i, d)
        PROVE  GateInv'
    BY <2>1, InvOpen DEF DecideBegin, IssueStatus
  <2>2. QED
    BY <1>4, <2>1, InvDecideLock, InvDecideCommit DEF Decide
<1>5. QED
  BY <1>1, <1>2, <1>3, <1>4, InvAbort DEF Next

LEMMA Invariance == Spec => []GateInv
  BY InvInit, InvNext, PTL DEF Spec

-----------------------------------------------------------------------------
\* Type correctness: among others, no run is ever committed as RUNNING.
THEOREM TypeCorrect == Spec => []TypeOK
<1>1. GateInv => TypeOK
  BY DEF GateInv, TypeInv
<1>2. QED
  BY <1>1, Invariance, PTL

\* An overridden level never holds a rejected issue, however many decisions,
\* resolutions and re-runs of the level overlap.
THEOREM RejectionNeverOverridden == Spec => []OverrideHasNoRejection
<1>1. GateInv => OverrideHasNoRejection
  BY DEF GateInv, AllFit, Fits, OverrideHasNoRejection
<1>2. QED
  BY <1>1, Invariance, PTL

\* A level whose issues are all approved never stays blocked.
THEOREM PromotionNeverLost == Spec => []BlockedHasUnapproved
<1>1. GateInv => BlockedHasUnapproved
  BY DEF GateInv, AllFit, Fits, BlockedHasUnapproved
<1>2. QED
  BY <1>1, Invariance, PTL

\* While the latest run of a level is blocked, an issue of it is in the MD's queue or has
\* been rejected.
THEOREM BlockedIsInQueue == Spec => []BlockedIsQueued
<1>1. GateInv => BlockedIsQueued
  <2> SUFFICES ASSUME GateInv, NEW r \in _latest_vr_ids, status[r] = "BLOCKED"
               PROVE  \/ \E i \in SubSteps : <<r, i>> \in md_queue
                      \/ \E i \in SubSteps : issue[r][i] = "MD_REJECTED"
    BY DEF BlockedIsQueued
  <2>1. r \in Runs
    BY DEF _latest_vr_ids, Committed
  <2>2. PICK i \in SubSteps : issue[r][i] \notin {"NONE", "MD_APPROVED"}
    BY <2>1 DEF GateInv, AllFit, Fits
  <2>3. issue[r][i] \in IssueStatus
    BY <2>1 DEF GateInv, TypeInv, TypeOK
  <2>4. CASE issue[r][i] \in Undecided
    BY <2>1, <2>4 DEF md_queue, Queued
  <2>5. CASE issue[r][i] = "MD_REJECTED"
    BY <2>5
  <2> QED
    BY <2>2, <2>3, <2>4, <2>5 DEF IssueStatus, Undecided, Decisions
<1>2. QED
  BY <1>1, Invariance, PTL

\* A blocked run waits for an approval, and the latest one for somebody who is shown it:
\* what the two theorems above say, as one invariant.
THEOREM BlockedIsAwaited == Spec => []BlockedAwaitsSomebody
  BY PromotionNeverLost, BlockedIsInQueue, PTL DEF BlockedAwaitsSomebody
=============================================================================
