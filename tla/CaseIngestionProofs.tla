------------------------- MODULE CaseIngestionProofs -------------------------
(***************************************************************************)
(* Theorems about CaseIngestion, for every set of sessions, every set of   *)
(* documents and every bound.                                              *)
(***************************************************************************)
EXTENDS CaseIngestion, TLAPS

-----------------------------------------------------------------------------
(***************************************************************************)
(* Type correctness                                                        *)
(***************************************************************************)
\* What TypeOK needs to be inductive: a session that will publish has a message,
\* and one that re-uploads read a version below the bound.
SessionOK ==
    \A s \in Sessions : /\ Busy(s, "publish") => sess[s].msg # 0
                        /\ Busy(s, "reupload") => sess[s].ver < MaxVersion

LEMMA IdleIsSession == Idle \in Session
  BY BoundsAssumption DEF Idle, Txn, Session, Stages, Gens

LEMMA TxnIsSession ==
  ASSUME NEW pc \in {"finalize", "publish", "add", "waive", "phase1", "loaded", "ack"},
         NEW seen \in Stages, NEW docs \in SUBSET Docs, NEW upd \in SUBSET Docs,
         NEW i \in 0..MaxJobs
  PROVE  Txn(pc, seen, docs, upd, i) \in Session
<1>1. 0 \in 0..MaxVersion /\ 0 \in Gens
  BY BoundsAssumption DEF Gens
<1>2. pc \in {"idle", "finalize", "publish", "add", "waive", "reupload",
              "phase1", "loaded", "unpacked", "ack"}
  OBVIOUS
<1>3. {} \in SUBSET Docs /\ FALSE \in BOOLEAN
  OBVIOUS
<1>4. [pc |-> pc, seen |-> seen, ver |-> 0, fin |-> FALSE, docs |-> docs,
       new |-> {}, upd |-> upd, gen |-> 0, msg |-> i] \in Session
  BY <1>1, <1>2, <1>3, Zenon DEF Session
<1>5. QED
  BY <1>4 DEF Txn

LEMMA FinalStageIsStage == \A m : FinalStage(m) \in Stages
  BY DEF FinalStage, Stages

LEMMA TypeInit == Init => TypeOK
<1> SUFFICES ASSUME Init PROVE TypeOK
  OBVIOUS
<1>1. /\ 0 \in 0..MaxVersion /\ 0 \in Gens
      /\ 0 \in 0..MaxReceive /\ 0 \in 0..MaxJobs
  BY BoundsAssumption DEF Gens
<1>2. NoZip \in [gen : Gens, docs : SUBSET Docs]
  BY <1>1 DEF NoZip
<1>3. check \in [row : BOOLEAN, missing : SUBSET Docs, waived : SUBSET Docs]
  BY DEF Init
<1>4. /\ arts \in [Docs -> Gens] /\ received \in [JobIds -> 0..MaxReceive]
      /\ sess \in [Sessions -> Session]
  BY <1>1, IdleIsSession DEF Init
<1>5. QED
  BY <1>1, <1>2, <1>3, <1>4 DEF Init, TypeOK, Stages

USE DEF Set, Busy, Free

LEMMA TypeRequest ==
  ASSUME TypeOK, NEW s \in Sessions, Request(s)
  PROVE  TypeOK'
<1> USE IdleIsSession, BoundsAssumption DEF TypeOK, caseRow, s3, rows, queue
<1>1. CASE FinalizeBegin(s)
  <2>1. Txn("finalize", stage, {}, {}, 0) \in Session
    BY TxnIsSession
  <2>2. QED
    BY <1>1, <2>1 DEF FinalizeBegin
<1>2. CASE ReuploadBegin(s)
  <2>1. [pc |-> "reupload", seen |-> stage, ver |-> version, fin |-> finalized,
         docs |-> {}, new |-> {}, upd |-> {}, gen |-> 0, msg |-> 0] \in Session
    BY DEF Session, Gens
  <2>2. NoZip \in [gen : Gens, docs : SUBSET Docs]
    BY DEF NoZip, Gens
  <2>3. QED
    BY <1>2, <2>1, <2>2 DEF ReuploadBegin
<1>3. CASE Phase1Begin(s)
  <2>1. Txn("phase1", stage, {}, {}, 0) \in Session
    BY TxnIsSession
  <2>2. QED
    BY <1>3, <2>1 DEF Phase1Begin
<1>4. ASSUME NEW d \in Docs, AddBegin(s, d)
      PROVE  TypeOK'
  <2>1. Txn("add", stage, {d}, {}, 0) \in Session
    BY TxnIsSession
  <2>2. QED
    BY <1>4, <2>1 DEF AddBegin
<1>5. ASSUME NEW d \in Docs, WaiveBegin(s, d)
      PROVE  TypeOK'
  <2>1. Txn("waive", stage, check.missing \ {d}, check.waived \cup {d}, 0) \in Session
    BY TxnIsSession
  <2>2. QED
    BY <1>5, <2>1 DEF WaiveBegin
<1>6. QED
  BY <1>1, <1>2, <1>3, <1>4, <1>5 DEF Request

LEMMA TypeWork ==
  ASSUME TypeOK, NEW s \in Sessions, Work(s)
  PROVE  TypeOK'
<1> USE IdleIsSession, BoundsAssumption DEF TypeOK, caseRow, s3, rows, queue
<1>1. PICK i \in JobIds : PipelineLoad(s, i) \/ PipelineSkip(s, i)
  BY DEF Work
<1>2. received' \in [JobIds -> 0..MaxReceive]
  BY <1>1 DEF PipelineLoad, PipelineSkip, Receive
<1>3. CASE PipelineLoad(s, i)
  <2>1. Txn("loaded", stage, {}, {}, i) \in Session
    BY TxnIsSession DEF JobIds
  <2>2. QED
    BY <1>2, <1>3, <2>1 DEF PipelineLoad
<1>4. CASE PipelineSkip(s, i)
  BY <1>2, <1>4 DEF PipelineSkip
<1>5. QED
  BY <1>1, <1>3, <1>4

LEMMA TypeProceed ==
  ASSUME TypeOK, SessionOK, NEW s \in Sessions, Proceed(s)
  PROVE  TypeOK'
<1> USE IdleIsSession, BoundsAssumption DEF TypeOK, caseRow, s3, rows, queue
<1>0. /\ sess[s] \in Session
      /\ sess[s].seen \in Stages
      /\ sess[s].docs \subseteq Docs /\ sess[s].upd \subseteq Docs
      /\ sess[s].ver \in 0..MaxVersion /\ sess[s].gen \in Gens
      /\ sess[s].msg \in 0..MaxJobs
  BY DEF Session
<1>1. ASSUME published < MaxJobs
      PROVE  /\ published + 1 \in 0..MaxJobs
             /\ Holding("publish", published + 1) \in Session
  BY <1>1, TxnIsSession DEF Holding, Stages
<1>2. CASE FinalizeCommit(s)
  BY <1>1, <1>2 DEF FinalizeCommit, WriteStage, Stages
<1>3. CASE Publish(s)
  <2>1. sess[s].msg \in JobIds
    BY <1>0, <1>3 DEF JobIds, Publish, SessionOK
  <2>2. QED
    BY <1>3, <2>1 DEF Publish
<1>4. CASE AddCommit(s)
  BY <1>0, <1>4 DEF AddCommit
<1>5. CASE AddCommitRevalidate(s)
  BY <1>0, <1>1, <1>5 DEF AddCommitRevalidate, WriteStage, Stages
<1>6. CASE WaiveCommit(s)
  <2>1. WaivedRow(s) \in [row : BOOLEAN, missing : SUBSET Docs, waived : SUBSET Docs]
    BY <1>0 DEF WaivedRow
  <2>2. stage' \in Stages
    BY <1>6 DEF WaiveCommit, Stages
  <2>3. QED
    BY <1>6, <2>1, <2>2 DEF WaiveCommit
<1>7. CASE ReuploadCommit(s)
  <2>1. version' \in 0..MaxVersion
    BY <1>0, <1>7 DEF ReuploadCommit, SessionOK
  <2>2. QED
    BY <1>7, <2>1 DEF ReuploadCommit, FinalizedAfter, WriteStage, Stages
<1>8. CASE Phase1Commit(s)
  BY <1>8 DEF Phase1Commit, WriteStage, Stages
<1>9. CASE PipelineUnpack(s)
  <2> DEFINE new == zip.docs \ DocsOf(arts)
             upd == IF sess[s].msg \in reingests THEN zip.docs ELSE new
             docs == zip.docs \cup DocsOf(arts)
  <2>1. new \subseteq Docs /\ upd \subseteq Docs /\ docs \subseteq Docs
    BY DEF DocsOf
  <2> HIDE DEF new, upd, docs
  <2>2. [pc |-> "unpacked", seen |-> sess[s].seen, ver |-> 0, fin |-> FALSE,
         docs |-> docs, new |-> new, upd |-> upd,
         gen |-> zip.gen, msg |-> sess[s].msg] \in Session
    BY <1>0, <2>1 DEF Session
  <2>3. QED
    BY <1>9, <2>2 DEF PipelineUnpack, new, upd, docs
<1>10. CASE PipelineCommit(s)
  <2>1. Holding("ack", sess[s].msg) \in Session
    BY <1>0, TxnIsSession DEF Holding, Stages
  <2>2. stage' \in Stages
    BY <1>10, FinalStageIsStage DEF PipelineCommit
  <2>3. arts' \in [Docs -> Gens]
    BY <1>0, <1>10 DEF PipelineCommit, Extracted
  <2>4. check' \in [row : BOOLEAN, missing : SUBSET Docs, waived : SUBSET Docs]
    BY <1>10 DEF PipelineCommit
  <2>5. QED
    BY <1>10, <2>1, <2>2, <2>3, <2>4 DEF PipelineCommit
<1>11. CASE Acknowledge(s)
  BY <1>11 DEF Acknowledge
<1>12. QED
  BY <1>2, <1>3, <1>4, <1>5, <1>6, <1>7, <1>8, <1>9, <1>10, <1>11 DEF Proceed

LEMMA TypeAdmin ==
  ASSUME TypeOK, Client \/ Admin
  PROVE  TypeOK'
<1> USE BoundsAssumption DEF TypeOK, caseRow, s3, rows, queue
<1>1. ASSUME NEW z \in ZipChoices, Upload(z)
      PROVE  TypeOK'
  BY <1>1, ZipAssumption DEF Upload, Gens
<1>2. CASE Reingest
  BY <1>2 DEF Reingest, JobIds
<1>3. CASE ApproveReupload
  BY <1>3 DEF ApproveReupload
<1>4. CASE SoftDelete
  BY <1>4 DEF SoftDelete
<1>5. QED
  BY <1>1, <1>2, <1>3, <1>4 DEF Client, Admin

LEMMA TypeEnd ==
  ASSUME TypeOK,
         \/ \E s \in Sessions : Abort(s) \/ CrashBeforePublish(s)
         \/ \E i \in JobIds : DeadLetter(i)
  PROVE  TypeOK'
<1> USE IdleIsSession DEF TypeOK, caseRow, s3, rows, queue
<1>1. ASSUME NEW s \in Sessions, Abort(s)
      PROVE  TypeOK'
  BY <1>1 DEF Abort
<1>2. ASSUME NEW s \in Sessions, CrashBeforePublish(s)
      PROVE  TypeOK'
  BY <1>2 DEF CrashBeforePublish
<1>3. ASSUME NEW i \in JobIds, DeadLetter(i)
      PROVE  TypeOK'
  BY <1>3 DEF DeadLetter
<1>4. QED
  BY <1>1, <1>2, <1>3

LEMMA TypeStep ==
  ASSUME TypeOK, SessionOK, [Next]_vars
  PROVE  TypeOK'
<1>1. CASE UNCHANGED vars
  BY <1>1 DEF vars, TypeOK
<1>2. CASE Next
  BY <1>2, TypeAdmin, TypeRequest, TypeWork, TypeProceed, TypeEnd DEF Next
<1>3. QED
  BY <1>1, <1>2

\* Which sessions a step changes, and to what: one session, to a transaction in
\* state pc, or none.
LEMMA SessionStep ==
  ASSUME TypeOK, SessionOK, [Next]_vars
  PROVE  SessionOK'
<1> USE DEF TypeOK, SessionOK
<1>1. ASSUME NEW s \in Sessions, NEW r, Set(s, r),
             r.pc = "publish" => r.msg # 0,
             r.pc = "reupload" => r.ver < MaxVersion
      PROVE  SessionOK'
  BY <1>1
<1>2. ASSUME UNCHANGED sess
      PROVE  SessionOK'
  BY <1>2
<1>3. CASE UNCHANGED vars
  BY <1>2, <1>3 DEF vars
<1>4. CASE Client \/ Admin
  BY <1>2, <1>4 DEF Client, Admin, Upload, Reingest, ApproveReupload, SoftDelete
<1>5. ASSUME NEW s \in Sessions, Request(s)
      PROVE  SessionOK'
  <2>1. CASE FinalizeBegin(s)
    BY <1>1, <2>1 DEF FinalizeBegin, Txn
  <2>2. CASE ReuploadBegin(s)
    BY <1>1, <2>2 DEF ReuploadBegin
  <2>3. CASE Phase1Begin(s)
    BY <1>1, <2>3 DEF Phase1Begin, Txn
  <2>4. ASSUME NEW d \in Docs, AddBegin(s, d)
        PROVE  SessionOK'
    BY <1>1, <2>4 DEF AddBegin, Txn
  <2>5. ASSUME NEW d \in Docs, WaiveBegin(s, d)
        PROVE  SessionOK'
    BY <1>1, <2>5 DEF WaiveBegin, Txn
  <2>6. QED
    BY <1>5, <2>1, <2>2, <2>3, <2>4, <2>5 DEF Request
<1>6. ASSUME NEW s \in Sessions, Work(s)
      PROVE  SessionOK'
  <2>1. ASSUME NEW i \in JobIds, PipelineLoad(s, i)
        PROVE  SessionOK'
    BY <1>1, <2>1 DEF PipelineLoad, Txn
  <2>2. ASSUME NEW i \in JobIds, PipelineSkip(s, i)
        PROVE  SessionOK'
    BY <1>2, <2>2 DEF PipelineSkip
  <2>3. QED
    BY <1>6, <2>1, <2>2 DEF Work
<1>7. ASSUME NEW s \in Sessions, Proceed(s)
      PROVE  SessionOK'
  <2>1. Idle.pc = "idle"
    BY DEF Idle, Txn
  <2>2. published + 1 # 0
    OBVIOUS
  <2>3. CASE FinalizeCommit(s) \/ AddCommitRevalidate(s)
    BY <1>1, <2>2, <2>3 DEF FinalizeCommit, AddCommitRevalidate, Holding, Txn
  <2>4. CASE \/ Publish(s) \/ AddCommit(s) \/ WaiveCommit(s) \/ ReuploadCommit(s)
             \/ Phase1Commit(s) \/ Acknowledge(s)
    BY <1>1, <2>1, <2>4
    DEF Publish, AddCommit, WaiveCommit, ReuploadCommit, Phase1Commit, Acknowledge
  <2>5. CASE PipelineUnpack(s)
    BY <1>1, <2>5 DEF PipelineUnpack
  <2>6. CASE PipelineCommit(s)
    BY <1>1, <2>6 DEF PipelineCommit, Holding, Txn
  <2>7. QED
    BY <1>7, <2>3, <2>4, <2>5, <2>6 DEF Proceed
<1>8. ASSUME NEW s \in Sessions, Abort(s) \/ CrashBeforePublish(s)
      PROVE  SessionOK'
  BY <1>1, <1>8 DEF Abort, CrashBeforePublish, Idle, Txn
<1>9. ASSUME NEW i \in JobIds, DeadLetter(i)
      PROVE  SessionOK'
  BY <1>2, <1>9 DEF DeadLetter
<1>10. QED
  BY <1>3, <1>4, <1>5, <1>6, <1>7, <1>8, <1>9 DEF Next

\* Rows, queue and session memories always have their types: no interleaving of
\* handlers and pipeline runs writes a stage, version, row or message outside them.
THEOREM TypeCorrect == Spec => []TypeOK
<1>1. Init => TypeOK /\ SessionOK
  BY TypeInit DEF Init, SessionOK, Idle, Txn
<1>2. TypeOK /\ SessionOK /\ [Next]_vars => TypeOK' /\ SessionOK'
  BY TypeStep, SessionStep
<1>3. QED
  BY <1>1, <1>2, PTL DEF Spec

-----------------------------------------------------------------------------
(***************************************************************************)
(* What the checklist row reports present is backed                        *)
(***************************************************************************)
\* A waiver in flight will still be backed when it commits, because artifact
\* rows are never removed; so will a pipeline run, which commits the rows it
\* counted together with the checklist row.
WaiverBacked(s) ==
    Busy(s, "waive") => Docs \ sess[s].docs \subseteq DocsOf(arts) \cup sess[s].upd
RunBacked(s) ==
    Busy(s, "unpacked") => /\ sess[s].docs \subseteq DocsOf(arts) \cup sess[s].upd
                           /\ sess[s].upd # {} => sess[s].gen # 0

BackedInv ==
    /\ PresentDocsBacked
    /\ zip.docs # {} => zip.gen # 0
    /\ \A s \in Sessions : WaiverBacked(s) /\ RunBacked(s)

LEMMA BackedInit == Init => BackedInv
  BY DEF Init, BackedInv, PresentDocsBacked, WaiverBacked, RunBacked, NoZip, Idle, Txn

\* No step removes an artifact row.
LEMMA ArtifactsStay ==
  ASSUME TypeOK, BackedInv, [Next]_vars
  PROVE  DocsOf(arts) \subseteq DocsOf(arts')
<1>1. ASSUME UNCHANGED arts
      PROVE  DocsOf(arts) \subseteq DocsOf(arts')
  BY <1>1
<1>2. ASSUME NEW s \in Sessions, PipelineCommit(s)
      PROVE  DocsOf(arts) \subseteq DocsOf(arts')
  <2>1. /\ Busy(s, "unpacked")
        /\ \A d \in Docs : arts'[d] = IF d \in sess[s].upd THEN sess[s].gen ELSE arts[d]
    BY <1>2 DEF PipelineCommit, Extracted
  <2>2. sess[s].upd # {} => sess[s].gen # 0
    BY <2>1 DEF BackedInv, RunBacked
  <2>3. QED
    BY <2>1, <2>2 DEF DocsOf
<1>3. ASSUME NEW s \in Sessions, Proceed(s), ~PipelineCommit(s)
      PROVE  UNCHANGED arts
  BY <1>3
  DEF Proceed, FinalizeCommit, Publish, AddCommit, AddCommitRevalidate, WaiveCommit,
      ReuploadCommit, Phase1Commit, PipelineUnpack, Acknowledge, rows
<1>4. ASSUME NEW s \in Sessions,
             Request(s) \/ Work(s) \/ Abort(s) \/ CrashBeforePublish(s)
      PROVE  UNCHANGED arts
  BY <1>4
  DEF Request, FinalizeBegin, ReuploadBegin, Phase1Begin, AddBegin, WaiveBegin,
      Work, PipelineLoad, PipelineSkip, Abort, CrashBeforePublish, rows
<1>5. CASE Client \/ Admin \/ \E i \in JobIds : DeadLetter(i)
  BY <1>1, <1>5
  DEF Client, Admin, Upload, Reingest, ApproveReupload, SoftDelete, DeadLetter, rows
<1>6. CASE UNCHANGED vars
  BY <1>1, <1>6 DEF vars
<1>7. QED
  BY <1>1, <1>2, <1>3, <1>4, <1>5, <1>6 DEF Next

\* A step that gives a waiving or unpacked state to no session disturbs no
\* session's part of the invariant.
LEMMA BackedSessions ==
  ASSUME TypeOK, BackedInv, [Next]_vars,
         NEW s \in Sessions, NEW r, Set(s, r), r.pc \notin {"waive", "unpacked"}
  PROVE  \A t \in Sessions : (WaiverBacked(t) /\ RunBacked(t))'
<1> TAKE t \in Sessions
<1>1. DocsOf(arts) \subseteq DocsOf(arts')
  BY ArtifactsStay
<1>2. CASE t = s
  BY <1>2 DEF TypeOK, WaiverBacked, RunBacked
<1>3. CASE t # s
  <2>1. sess'[t] = sess[t]
    BY <1>3 DEF TypeOK
  <2>2. WaiverBacked(t) /\ RunBacked(t)
    BY DEF BackedInv
  <2>3. DocsOf(arts)' = DocsOf(arts')
    BY DEF DocsOf
  <2>4. QED
    BY <1>1, <2>1, <2>2, <2>3 DEF WaiverBacked, RunBacked
<1>4. QED
  BY <1>2, <1>3

LEMMA BackedStep ==
  ASSUME TypeOK, BackedInv, [Next]_vars
  PROVE  BackedInv'
<1>1. DocsOf(arts) \subseteq DocsOf(arts') /\ DocsOf(arts)' = DocsOf(arts')
  BY ArtifactsStay DEF DocsOf
<1>2. ASSUME UNCHANGED check
      PROVE  PresentDocsBacked'
  BY <1>1, <1>2 DEF BackedInv, PresentDocsBacked
<1>3. ASSUME UNCHANGED sess
      PROVE  \A t \in Sessions : (WaiverBacked(t) /\ RunBacked(t))'
  BY <1>1, <1>3 DEF BackedInv, WaiverBacked, RunBacked
<1>4. ASSUME NEW s \in Sessions, NEW r, Set(s, r), NEW t \in Sessions, t # s
      PROVE  (WaiverBacked(t) /\ RunBacked(t))'
  <2>1. sess'[t] = sess[t]
    BY <1>4 DEF TypeOK
  <2>2. QED
    BY <1>1, <2>1 DEF BackedInv, WaiverBacked, RunBacked
<1>5. CASE UNCHANGED vars \/ Client \/ Admin \/ \E i \in JobIds : DeadLetter(i)
  <2>1. UNCHANGED <<check, sess>> /\ (zip'.docs # {} => zip'.gen # 0)
    <3>1. ASSUME NEW z \in ZipChoices, Upload(z)
          PROVE  zip'.gen # 0
      BY <3>1 DEF Upload, TypeOK, Gens
    <3>2. QED
      BY <1>5, <3>1
      DEF vars, Client, Admin, Upload, Reingest, ApproveReupload, SoftDelete, DeadLetter,
          rows, s3, BackedInv
  <2>2. QED
    BY <1>2, <1>3, <2>1 DEF BackedInv
<1>6. ASSUME NEW s \in Sessions, NEW d \in Docs, WaiveBegin(s, d)
      PROVE  BackedInv'
  <2>1. /\ UNCHANGED <<check, zip, arts>>
        /\ Set(s, Txn("waive", stage, check.missing \ {d}, check.waived \cup {d}, 0))
        /\ check.row
    BY <1>6 DEF WaiveBegin, rows, s3
  <2>2. sess'[s] = Txn("waive", stage, check.missing \ {d}, check.waived \cup {d}, 0)
    BY <2>1 DEF TypeOK
  <2>3. Docs \ check.missing \subseteq DocsOf(arts) \cup check.waived
    BY <2>1 DEF BackedInv, PresentDocsBacked
  <2>4. (WaiverBacked(s) /\ RunBacked(s))'
    BY <1>1, <2>2, <2>3 DEF WaiverBacked, RunBacked, Txn
  <2>5. QED
    BY <1>2, <1>4, <2>1, <2>4 DEF BackedInv
<1>7. ASSUME NEW s \in Sessions, PipelineUnpack(s)
      PROVE  BackedInv'
  <2>1. /\ UNCHANGED <<check, zip, arts>>
        /\ sess'[s].pc = "unpacked"
        /\ sess'[s].docs = zip.docs \cup DocsOf(arts)
        /\ sess'[s].upd \in {zip.docs, zip.docs \ DocsOf(arts)}
        /\ sess'[s].gen = zip.gen
    BY <1>7 DEF PipelineUnpack, rows, s3, TypeOK
  <2>2. (WaiverBacked(s) /\ RunBacked(s))'
    BY <1>1, <2>1 DEF WaiverBacked, RunBacked, BackedInv
  <2>3. QED
    BY <1>2, <1>4, <1>7, <2>1, <2>2 DEF BackedInv, PipelineUnpack
<1>8. ASSUME NEW s \in Sessions, WaiveCommit(s)
      PROVE  BackedInv'
  <2>1. PresentDocsBacked'
    BY <1>1, <1>8 DEF WaiveCommit, WaivedRow, BackedInv, WaiverBacked, PresentDocsBacked
  <2>2. QED
    BY <1>8, <2>1, BackedSessions DEF WaiveCommit, BackedInv, Idle, Txn, s3
<1>9. ASSUME NEW s \in Sessions, PipelineCommit(s)
      PROVE  BackedInv'
  <2>1. /\ sess[s].docs \subseteq DocsOf(arts) \cup sess[s].upd
        /\ sess[s].upd # {} => sess[s].gen # 0
    BY <1>9 DEF PipelineCommit, BackedInv, RunBacked
  <2>2. DocsOf(arts') = (Docs \cap sess[s].upd) \cup DocsOf(arts)
    BY <1>1, <1>9, <2>1 DEF PipelineCommit, Extracted, DocsOf
  <2>3. PresentDocsBacked'
    BY <1>1, <1>9, <2>1, <2>2 DEF PipelineCommit, PresentDocsBacked
  <2>4. QED
    BY <1>9, <2>3, BackedSessions DEF PipelineCommit, BackedInv, Holding, Txn, s3
<1>10. ASSUME NEW s \in Sessions, Request(s), ~\E d \in Docs : WaiveBegin(s, d)
       PROVE  BackedInv'
  <2>1. PICK r : Set(s, r) /\ r.pc \notin {"waive", "unpacked"}
    BY <1>10
    DEF Request, FinalizeBegin, ReuploadBegin, Phase1Begin, AddBegin, Txn
  <2>2. UNCHANGED check /\ zip' \in {zip, NoZip}
    BY <1>10
    DEF Request, FinalizeBegin, ReuploadBegin, Phase1Begin, AddBegin, rows, s3
  <2>3. zip'.docs # {} => zip'.gen # 0
    BY <2>2 DEF BackedInv, NoZip
  <2>4. \A t \in Sessions : (WaiverBacked(t) /\ RunBacked(t))'
    BY <2>1, BackedSessions
  <2>5. QED
    BY <1>2, <2>2, <2>3, <2>4 DEF BackedInv
<1>11. ASSUME NEW s \in Sessions, Work(s)
       PROVE  BackedInv'
  <2>1. UNCHANGED <<check, zip>>
    BY <1>11 DEF Work, PipelineLoad, PipelineSkip, rows, s3
  <2>2. ASSUME NEW i \in JobIds, PipelineLoad(s, i)
        PROVE  BackedInv'
    BY <1>2, <2>1, <2>2, BackedSessions DEF PipelineLoad, BackedInv, Txn
  <2>3. ASSUME NEW i \in JobIds, PipelineSkip(s, i)
        PROVE  BackedInv'
    BY <1>2, <1>3, <2>1, <2>3 DEF PipelineSkip, BackedInv
  <2>4. QED
    BY <1>11, <2>2, <2>3 DEF Work
<1>12. ASSUME NEW s \in Sessions,
              \/ FinalizeCommit(s) \/ Publish(s) \/ AddCommit(s) \/ AddCommitRevalidate(s)
              \/ ReuploadCommit(s) \/ Phase1Commit(s) \/ Acknowledge(s)
              \/ Abort(s) \/ CrashBeforePublish(s)
       PROVE  BackedInv'
  <2>1. PICK r : Set(s, r) /\ r.pc \notin {"waive", "unpacked"}
    BY <1>12
    DEF FinalizeCommit, Publish, AddCommit, AddCommitRevalidate, ReuploadCommit,
        Phase1Commit, Acknowledge, Abort, CrashBeforePublish, Idle, Holding, Txn
  <2>2. UNCHANGED <<check, zip>>
    BY <1>12
    DEF FinalizeCommit, Publish, AddCommit, AddCommitRevalidate, ReuploadCommit,
        Phase1Commit, Acknowledge, Abort, CrashBeforePublish, rows, s3
  <2>3. QED
    BY <1>2, <2>1, <2>2, BackedSessions DEF BackedInv
<1>13. QED
  BY <1>5, <1>6, <1>7, <1>8, <1>9, <1>10, <1>11, <1>12 DEF Next, Request, Proceed

\* Whatever overlaps, a document the checklist row does not report missing has an
\* artifact row or a waiver in that same row (waive_missing_doc, the pipeline's
\* upsert).
THEOREM PresentDocsAreBacked == Spec => []PresentDocsBacked
<1>1. Init => TypeOK /\ SessionOK /\ BackedInv
  BY TypeInit, BackedInit DEF Init, SessionOK, Idle, Txn
<1>2. TypeOK /\ SessionOK /\ BackedInv /\ [Next]_vars
        => TypeOK' /\ SessionOK' /\ BackedInv'
  BY TypeStep, SessionStep, BackedStep
<1>3. BackedInv => PresentDocsBacked
  BY DEF BackedInv
<1>4. QED
  BY <1>1, <1>2, <1>3, PTL DEF Spec

-----------------------------------------------------------------------------
(***************************************************************************)
(* A case in CHECKLIST_VALIDATION keeps its message                        *)
(***************************************************************************)
\* Message m will still move the case on: it is queued or about to be, and every
\* session handling it read CHECKLIST_VALIDATION, so that its commit writes the
\* stage; none has committed and is about to delete it.
Pending(m) ==
    /\ \/ m \in jobs
       \/ \E s \in Sessions : Busy(s, "publish") /\ sess[s].msg = m
    /\ \A s \in Sessions : sess[s].msg = m =>
          /\ sess[s].pc \in {"loaded", "unpacked"} => sess[s].seen = "CHECKLIST_VALIDATION"
          /\ sess[s].pc # "ack"

Resolvable ==
    \/ stage # "CHECKLIST_VALIDATION" \/ crashed \/ dead \/ deleted
    \/ \E m \in 1..published : Pending(m)

StrandInv ==
    /\ jobs \subseteq 1..published
    /\ \A s \in Sessions : sess[s].msg <= published
    /\ Resolvable

LEMMA StrandInit == Init => StrandInv
<1> SUFFICES ASSUME Init PROVE StrandInv
  OBVIOUS
<1>1. \A s \in Sessions : sess[s].msg <= published
  BY DEF Init, Idle, Txn
<1>2. QED
  BY <1>1 DEF Init, StrandInv, Resolvable

LEMMA PendingStays ==
  ASSUME TypeOK, NEW m \in 1..published, Pending(m),
         NEW s \in Sessions, NEW r, Set(s, r), ~Busy(s, "publish"),
         m \in jobs => m \in jobs',
         r.msg = m => /\ r.pc \in {"loaded", "unpacked"} => r.seen = "CHECKLIST_VALIDATION"
                      /\ r.pc # "ack"
  PROVE  Pending(m)'
<1>1. sess'[s] = r /\ \A t \in Sessions \ {s} : sess'[t] = sess[t]
  BY DEF TypeOK
<1>2. m \in jobs' \/ \E t \in Sessions : sess'[t].pc = "publish" /\ sess'[t].msg = m
  BY <1>1 DEF Pending
<1>3. ASSUME NEW t \in Sessions, sess'[t].msg = m
      PROVE  /\ sess'[t].pc \in {"loaded", "unpacked"} =>
                  sess'[t].seen = "CHECKLIST_VALIDATION"
             /\ sess'[t].pc # "ack"
  BY <1>1, <1>3 DEF Pending
<1>4. QED
  BY <1>2, <1>3 DEF Pending

\* The numbering of messages: none in the queue or in a session is yet to come.
LEMMA NumberingStep ==
  ASSUME TypeOK, SessionOK, StrandInv, [Next]_vars
  PROVE  jobs' \subseteq 1..published' /\ \A s \in Sessions : sess'[s].msg <= published'
<1> DEFINE Numbered == jobs \subseteq 1..published /\ \A t \in Sessions : sess[t].msg <= published
<1> SUFFICES Numbered'
  OBVIOUS
<1>1. Numbered /\ published \in Nat /\ \A t \in Sessions : sess[t].msg \in Nat
  BY DEF StrandInv, TypeOK, Session
<1>2. ASSUME NEW s \in Sessions, NEW r, Set(s, r), r.msg \in Nat, r.msg <= published',
             published' \in {published, published + 1}, jobs' \subseteq 1..published'
      PROVE  Numbered'
  <2>1. sess'[s] = r /\ \A t \in Sessions \ {s} : sess'[t] = sess[t]
    BY <1>2 DEF TypeOK
  <2>2. QED
    BY <1>1, <1>2, <2>1
<1>3. Idle.msg = 0 /\ \A pc, i : Holding(pc, i).msg = i
  BY DEF Idle, Holding, Txn
<1>4. CASE UNCHANGED vars \/ Client \/ Admin \/ \E i \in JobIds : DeadLetter(i)
  <2>1. UNCHANGED sess
    BY <1>4
    DEF vars, Client, Admin, Upload, Reingest, ApproveReupload, SoftDelete, DeadLetter
  <2>2. /\ published' \in {published, published + 1}
        /\ jobs' \subseteq jobs \cup {published'}
        /\ published' = published => jobs' \subseteq jobs
    BY <1>1, <1>4
    DEF vars, Client, Admin, Upload, Reingest, ApproveReupload, SoftDelete, DeadLetter, queue
  <2>3. QED
    BY <1>1, <2>1, <2>2
<1>5. ASSUME NEW s \in Sessions, Request(s)
      PROVE  Numbered'
  <2>0. \A pc, seen, docs, upd : Txn(pc, seen, docs, upd, 0).msg = 0
    BY DEF Txn
  <2>1. PICK r : Set(s, r) /\ r.msg = 0
    <3>1. ASSUME NEW d \in Docs, AddBegin(s, d) \/ WaiveBegin(s, d)
          PROVE  \E r : Set(s, r) /\ r.msg = 0
      BY <2>0, <3>1 DEF AddBegin, WaiveBegin
    <3>2. CASE FinalizeBegin(s) \/ Phase1Begin(s)
      BY <2>0, <3>2 DEF FinalizeBegin, Phase1Begin
    <3>3. CASE ReuploadBegin(s)
      <4> DEFINE q == [pc |-> "reupload", seen |-> stage, ver |-> version,
                       fin |-> finalized, docs |-> {}, new |-> {}, upd |-> {},
                       gen |-> 0, msg |-> 0]
      <4>1. Set(s, q) /\ q.msg = 0
        BY <3>3 DEF ReuploadBegin
      <4>2. QED
        BY <4>1
    <3>4. QED
      BY <1>5, <3>1, <3>2, <3>3 DEF Request
  <2>2. UNCHANGED <<jobs, published>>
    BY <1>5
    DEF Request, FinalizeBegin, ReuploadBegin, Phase1Begin, AddBegin, WaiveBegin, queue
  <2>3. QED
    BY <1>1, <1>2, <2>1, <2>2
<1>6. ASSUME NEW s \in Sessions, NEW i \in JobIds, PipelineLoad(s, i)
      PROVE  Numbered'
  BY <1>1, <1>2, <1>6 DEF PipelineLoad, Receive, Txn
<1>7. ASSUME NEW s \in Sessions, NEW i \in JobIds, PipelineSkip(s, i)
      PROVE  Numbered'
  BY <1>1, <1>7 DEF PipelineSkip
<1>8. ASSUME NEW s \in Sessions, FinalizeCommit(s) \/ AddCommitRevalidate(s)
      PROVE  Numbered'
  <2>1. /\ Set(s, Holding("publish", published + 1))
        /\ published' = published + 1 /\ jobs' = jobs
    BY <1>8 DEF FinalizeCommit, AddCommitRevalidate
  <2>2. QED
    BY <1>1, <1>2, <1>3, <2>1
<1>9. ASSUME NEW s \in Sessions, Publish(s)
      PROVE  Numbered'
  <2>1. sess[s].msg \in 1..published
    BY <1>1, <1>9 DEF SessionOK, Publish
  <2>2. /\ Set(s, Idle) /\ published' = published
        /\ jobs' = jobs \cup {sess[s].msg}
    BY <1>9 DEF Publish
  <2>3. jobs' \subseteq 1..published'
    BY <1>1, <2>1, <2>2
  <2>4. QED
    BY <1>1, <1>2, <1>3, <2>2, <2>3
<1>10. ASSUME NEW s \in Sessions,
              \/ AddCommit(s) \/ WaiveCommit(s) \/ ReuploadCommit(s) \/ Phase1Commit(s)
              \/ Acknowledge(s) \/ Abort(s) \/ CrashBeforePublish(s)
       PROVE  Numbered'
  <2>1. Set(s, Idle) /\ published' = published /\ jobs' \subseteq jobs
    BY <1>10
    DEF AddCommit, WaiveCommit, ReuploadCommit, Phase1Commit, Acknowledge, Abort,
        CrashBeforePublish, queue
  <2>2. QED
    BY <1>1, <1>2, <1>3, <2>1
<1>11. ASSUME NEW s \in Sessions, PipelineUnpack(s)
       PROVE  Numbered'
  BY <1>1, <1>2, <1>11 DEF PipelineUnpack, queue
<1>12. ASSUME NEW s \in Sessions, PipelineCommit(s)
       PROVE  Numbered'
  BY <1>1, <1>2, <1>3, <1>12 DEF PipelineCommit, queue
<1>13. QED
  BY <1>4, <1>5, <1>6, <1>7, <1>8, <1>9, <1>10, <1>11, <1>12 DEF Next, Work, Proceed

LEMMA ResolvableStep ==
  ASSUME TypeOK, SessionOK, StrandInv, [Next]_vars
  PROVE  Resolvable'
<1>1. CASE stage' # "CHECKLIST_VALIDATION" \/ crashed' \/ dead' \/ deleted'
  BY <1>1 DEF Resolvable
<1>2. CASE \E s \in Sessions : FinalizeCommit(s) \/ AddCommitRevalidate(s)
  <2>1. PICK s \in Sessions : FinalizeCommit(s) \/ AddCommitRevalidate(s)
    BY <1>2
  <2>2. /\ sess'[s] = Holding("publish", published + 1)
        /\ \A t \in Sessions \ {s} : sess'[t] = sess[t]
        /\ published' = published + 1
    BY <2>1 DEF FinalizeCommit, AddCommitRevalidate, TypeOK
  <2>3. published \in Nat /\ \A t \in Sessions : sess[t].msg \in Nat /\ sess[t].msg <= published
    BY DEF StrandInv, TypeOK, Session
  <2>4. PICK m \in Nat : m = published + 1
    BY <2>3
  <2>5. sess'[s].pc = "publish" /\ sess'[s].msg = m
    BY <2>2, <2>4 DEF Holding, Txn
  <2>6. \A t \in Sessions : sess'[t].msg = m => t = s
    BY <2>2, <2>3, <2>4
  <2>7. \E t \in Sessions : sess'[t].pc = "publish" /\ sess'[t].msg = m
    BY <2>5
  <2>8. ASSUME NEW t \in Sessions, sess'[t].msg = m
        PROVE  sess'[t].pc \notin {"loaded", "unpacked", "ack"}
    BY <2>5, <2>6, <2>8
  <2>9. Pending(m)'
    BY <2>7, <2>8 DEF Pending
  <2>10. m \in 1..published'
    BY <2>2, <2>3, <2>4
  <2>11. QED
    BY <2>9, <2>10 DEF Resolvable
<1>3. ASSUME stage' = "CHECKLIST_VALIDATION", ~crashed', ~dead', ~deleted',
             ~\E s \in Sessions : FinalizeCommit(s) \/ AddCommitRevalidate(s)
      PROVE  Resolvable'
  <2>1. /\ stage = "CHECKLIST_VALIDATION" /\ ~crashed /\ ~dead /\ ~deleted
        /\ published \in Nat /\ published' \in Nat /\ published <= published'
    <3>1. CASE UNCHANGED vars
      BY <1>3, <3>1 DEF vars, TypeOK
    <3>2. CASE Client \/ Admin \/ \E i \in JobIds : DeadLetter(i)
      BY <1>3, <3>2
      DEF Client, Admin, Upload, Reingest, ApproveReupload, SoftDelete, DeadLetter,
          caseRow, queue, TypeOK
    <3>3. ASSUME NEW s \in Sessions, Request(s) \/ Work(s)
          PROVE  UNCHANGED <<stage, crashed, dead, deleted, published>>
      BY <3>3
      DEF Request, FinalizeBegin, ReuploadBegin, Phase1Begin, AddBegin, WaiveBegin,
          Work, PipelineLoad, PipelineSkip, caseRow, queue
    <3>4. ASSUME NEW s \in Sessions, Abort(s) \/ CrashBeforePublish(s)
          PROVE  stage' = stage /\ dead' = dead /\ deleted' = deleted
                 /\ published' = published /\ (crashed => crashed')
      BY <3>4 DEF Abort, CrashBeforePublish, caseRow, queue
    <3>5. ASSUME NEW s \in Sessions, Proceed(s), ~PipelineCommit(s)
          PROVE  /\ stage' # stage => stage' # "CHECKLIST_VALIDATION"
                 /\ UNCHANGED <<crashed, dead, deleted, published>>
      BY <1>3, <3>5
      DEF Proceed, Publish, AddCommit, WaiveCommit, ReuploadCommit, Phase1Commit,
          PipelineUnpack, Acknowledge, WriteStage, caseRow, queue
    <3>6. ASSUME NEW s \in Sessions, PipelineCommit(s)
          PROVE  /\ stage' # stage => stage' # "CHECKLIST_VALIDATION"
                 /\ UNCHANGED <<crashed, dead, deleted, published>>
      BY <3>6 DEF PipelineCommit, FinalStage, queue
    <3>7. QED
      BY <1>3, <3>1, <3>2, <3>3, <3>4, <3>5, <3>6 DEF Next, TypeOK
  <2>2. PICK m \in 1..published : Pending(m)
    BY <2>1 DEF StrandInv, Resolvable
  <2>3. m \in 1..published'
    BY <2>1
  <2>4. SUFFICES Pending(m)'
    BY <2>3 DEF Resolvable
  <2>5. m # 0
    BY <2>1
  <2>6. Idle.msg = 0 /\ \A pc, seen, docs, upd : Txn(pc, seen, docs, upd, 0).msg = 0
    BY DEF Idle, Txn
  <2>7. ASSUME UNCHANGED sess, jobs \subseteq jobs'
        PROVE  Pending(m)'
    BY <2>2, <2>7 DEF Pending
  <2>8. ASSUME NEW s \in Sessions, NEW r, Set(s, r), ~Busy(s, "publish"),
               m \in jobs => m \in jobs', r.msg # m
        PROVE  Pending(m)'
    BY <2>2, <2>8, PendingStays
  <2>9. CASE UNCHANGED vars \/ Client \/ Admin
    BY <2>7, <2>9
    DEF vars, Client, Admin, Upload, Reingest, ApproveReupload, SoftDelete, queue
  <2>10. ASSUME NEW i \in JobIds, DeadLetter(i)
         PROVE  FALSE
    BY <1>3, <2>10 DEF DeadLetter
  <2>11. ASSUME NEW s \in Sessions, Request(s)
         PROVE  Pending(m)'
    <3>1. ~Busy(s, "publish") /\ jobs' = jobs
      BY <2>11
      DEF Request, FinalizeBegin, ReuploadBegin, Phase1Begin, AddBegin, WaiveBegin, queue
    <3>2. ASSUME NEW d \in Docs, AddBegin(s, d) \/ WaiveBegin(s, d)
          PROVE  \E r : Set(s, r) /\ r.msg = 0
      BY <2>6, <3>2 DEF AddBegin, WaiveBegin
    <3>3. CASE FinalizeBegin(s) \/ Phase1Begin(s)
      BY <2>5, <2>6, <2>8, <3>1, <3>3 DEF FinalizeBegin, Phase1Begin
    <3>4. CASE ReuploadBegin(s)
      <4> DEFINE q == [pc |-> "reupload", seen |-> stage, ver |-> version,
                       fin |-> finalized, docs |-> {}, new |-> {}, upd |-> {},
                       gen |-> 0, msg |-> 0]
      <4>1. Set(s, q) /\ q.msg = 0
        BY <3>4 DEF ReuploadBegin
      <4>2. QED
        BY <2>5, <2>8, <3>1, <4>1
    <3>5. QED
      BY <2>5, <2>8, <2>11, <3>1, <3>2, <3>3, <3>4 DEF Request
  <2>12. ASSUME NEW s \in Sessions, NEW i \in JobIds, PipelineLoad(s, i)
         PROVE  Pending(m)'
    <3>1. /\ Set(s, Txn("loaded", stage, {}, {}, i)) /\ jobs' = jobs
          /\ ~Busy(s, "publish")
      BY <2>12 DEF PipelineLoad
    <3>2. /\ Txn("loaded", stage, {}, {}, i).seen = "CHECKLIST_VALIDATION"
          /\ Txn("loaded", stage, {}, {}, i).pc # "ack"
      BY <2>1 DEF Txn
    <3>3. QED
      BY <2>2, <3>1, <3>2, PendingStays
  <2>13. ASSUME NEW s \in Sessions, NEW i \in JobIds, PipelineSkip(s, i)
         PROVE  FALSE
    BY <2>1, <2>13 DEF PipelineSkip, Ingestable
  <2>14. ASSUME NEW s \in Sessions, Publish(s)
         PROVE  Pending(m)'
    <3>1. /\ sess'[s] = Idle /\ \A t \in Sessions \ {s} : sess'[t] = sess[t]
          /\ jobs' = jobs \cup {sess[s].msg}
      BY <2>14 DEF Publish, TypeOK
    <3>2. m \in jobs' \/ \E t \in Sessions : sess'[t].pc = "publish" /\ sess'[t].msg = m
      BY <2>2, <3>1 DEF Pending
    <3>3. ASSUME NEW t \in Sessions, sess'[t].msg = m
          PROVE  t # s
      BY <2>5, <2>6, <3>1, <3>3
    <3>4. QED
      BY <2>2, <3>1, <3>2, <3>3 DEF Pending
  <2>15. ASSUME NEW s \in Sessions, CrashBeforePublish(s)
         PROVE  FALSE
    BY <1>3, <2>15 DEF CrashBeforePublish
  <2>16. ASSUME NEW s \in Sessions, 
                AddCommit(s) \/ WaiveCommit(s) \/ ReuploadCommit(s) \/ Phase1Commit(s) \/ Abort(s)
         PROVE  Pending(m)'
    <3>1. Set(s, Idle) /\ jobs' = jobs /\ ~Busy(s, "publish")
      BY <2>16
      DEF AddCommit, WaiveCommit, ReuploadCommit, Phase1Commit, Abort, queue
    <3>2. QED
      BY <2>5, <2>6, <2>8, <3>1
  <2>17. ASSUME NEW s \in Sessions, PipelineUnpack(s)
         PROVE  Pending(m)'
    <3> DEFINE new == zip.docs \ DocsOf(arts)
               q == [pc |-> "unpacked", seen |-> sess[s].seen, ver |-> 0, fin |-> FALSE,
                     docs |-> zip.docs \cup DocsOf(arts), new |-> new,
                     upd |-> IF sess[s].msg \in reingests THEN zip.docs ELSE new,
                     gen |-> zip.gen, msg |-> sess[s].msg]
    <3>1. Set(s, q) /\ q.pc = "unpacked" /\ q.seen = sess[s].seen /\ q.msg = sess[s].msg
      BY <2>17 DEF PipelineUnpack
    <3>2. Busy(s, "loaded") /\ jobs' = jobs
      BY <2>17 DEF PipelineUnpack, queue
    <3>3. sess[s].msg = m => sess[s].seen = "CHECKLIST_VALIDATION"
      BY <2>2, <3>2 DEF Pending
    <3> HIDE DEF q
    <3>4. QED
      BY <2>2, <3>1, <3>2, <3>3, PendingStays
  <2>18. ASSUME NEW s \in Sessions, PipelineCommit(s)
         PROVE  Pending(m)'
    <3>1. Busy(s, "unpacked") /\ jobs' = jobs /\ Set(s, Holding("ack", sess[s].msg))
      BY <2>18 DEF PipelineCommit, queue
    <3>2. sess[s].seen # "CHECKLIST_VALIDATION"
      BY <1>3, <2>18 DEF PipelineCommit, FinalStage
    <3>3. sess[s].msg # m
      BY <2>2, <3>1, <3>2 DEF Pending
    <3>4. Holding("ack", sess[s].msg).msg # m
      BY <3>3 DEF Holding, Txn
    <3>5. QED
      BY <2>8, <3>1, <3>4
  <2>19. ASSUME NEW s \in Sessions, Acknowledge(s)
         PROVE  Pending(m)'
    <3>1. Busy(s, "ack") /\ Set(s, Idle) /\ jobs' = jobs \ {sess[s].msg}
      BY <2>19 DEF Acknowledge
    <3>2. sess[s].msg # m
      BY <2>2, <3>1 DEF Pending
    <3>3. QED
      BY <2>5, <2>6, <2>8, <3>1, <3>2
  <2>20. QED
    BY <1>3, <2>9, <2>10, <2>11, <2>12, <2>13, <2>14, <2>15, <2>16, <2>17, <2>18, <2>19
    DEF Next, Work, Proceed
<1>4. QED
  BY <1>1, <1>2, <1>3

\* A live case in CHECKLIST_VALIDATION has a message queued or about to be
\* published unless a process died before publishing or SQS gave a message up,
\* for any number of sessions, redeliveries and overlapping handlers.
THEOREM ValidationNeverStranded == Spec => []NoStrandedValidation
<1>1. Init => TypeOK /\ SessionOK /\ StrandInv
  BY TypeInit, StrandInit DEF Init, SessionOK, Idle, Txn
<1>2. TypeOK /\ SessionOK /\ StrandInv /\ [Next]_vars
        => TypeOK' /\ SessionOK' /\ StrandInv'
  BY TypeStep, SessionStep, NumberingStep, ResolvableStep DEF StrandInv
<1>3. StrandInv => NoStrandedValidation
  BY DEF StrandInv, Resolvable, Pending, NoStrandedValidation
<1>4. QED
  BY <1>1, <1>2, <1>3, PTL DEF Spec
-----------------------------------------------------------------------------
(***************************************************************************)
(* Transactions that do not overlap                                        *)
(***************************************************************************)
\* While a session's transaction is open, or its message not yet published or
\* deleted, no other begins or ends and nothing else moves the case or its rows.
\* The client's PUT, the administrator's requests, and the redrive may still
\* come at any moment.
AloneStep ==
    \A s \in Sessions :
        Free(s) \/ sess'[s] # sess[s] \/ UNCHANGED <<stage, version, finalized, rows, sess>>

\* So at most one transaction is open ...
OneOpen == \A s, t \in Sessions : Free(s) \/ Free(t) \/ s = t

\* ... and what it has read of the case is what is there.
ReadIsCurrent(s) ==
    /\ sess[s].pc \in {"finalize", "add", "waive", "reupload", "phase1", "loaded", "unpacked"}
         => sess[s].seen = stage
    /\ Busy(s, "finalize") => stage = "UPLOADED"
    /\ Busy(s, "phase1") => stage = "INGESTED"
    /\ Busy(s, "waive") => stage \notin {"INGESTED", "PHASE_1_DECISIONING"}
    /\ Busy(s, "reupload") => sess[s].ver = version /\ sess[s].fin = finalized
    /\ sess[s].pc \in {"loaded", "unpacked"} => stage \in Ingestable

SerialInv ==
    /\ IngestedComplete /\ MissingDocsExplained /\ FinalizedHasZipRow
    /\ OneOpen
    /\ \A s \in Sessions : ReadIsCurrent(s)

LEMMA SerialInit == Init => SerialInv
  BY DEF Init, SerialInv, IngestedComplete, MissingDocsExplained, FinalizedHasZipRow,
         OneOpen, ReadIsCurrent, Idle, Txn

\* What leaves the case, its rows and the sessions alone.
LEMMA SerialQuiet ==
  ASSUME SerialInv, UNCHANGED <<stage, version, finalized, rows, sess>>
  PROVE  SerialInv'
BY DEF SerialInv, IngestedComplete, MissingDocsExplained, FinalizedHasZipRow, OneOpen,
       ReadIsCurrent, rows

\* A step of one session finds the others idle, so only what it says itself of
\* the case and of the session is left to show.
LEMMA SerialBySession ==
  ASSUME TypeOK, SerialInv, AloneStep, NEW s \in Sessions, NEW r, Set(s, r),
         IngestedComplete', MissingDocsExplained', FinalizedHasZipRow', ReadIsCurrent(s)'
  PROVE  SerialInv'
<1>1. CASE UNCHANGED <<stage, version, finalized, rows, sess>>
  BY <1>1, SerialQuiet
<1>2. CASE ~UNCHANGED <<stage, version, finalized, rows, sess>>
  <2>1. \A t \in Sessions : t # s => sess'[t] = sess[t]
    BY DEF TypeOK
  <2>2. \A t \in Sessions : t # s => Free(t)
    BY <1>2, <2>1 DEF AloneStep
  <2>3. \A t \in Sessions : t # s => sess'[t].pc = "idle"
    BY <2>1, <2>2
  <2>4. OneOpen'
    BY <2>3 DEF OneOpen
  <2>5. ASSUME NEW t \in Sessions
        PROVE  ReadIsCurrent(t)'
    BY <2>3 DEF ReadIsCurrent
  <2>6. QED
    BY <2>4, <2>5 DEF SerialInv
<1>3. QED
  BY <1>1, <1>2

\* A transaction begins with what it reads.
LEMMA SerialRequest ==
  ASSUME TypeOK, SerialInv, AloneStep, NEW s \in Sessions, Request(s)
  PROVE  SerialInv'
<1> USE DEF TypeOK
<1>1. UNCHANGED <<stage, version, finalized, rows>>
  BY DEF Request, FinalizeBegin, ReuploadBegin, Phase1Begin, AddBegin, WaiveBegin, caseRow
<1>2. IngestedComplete' /\ MissingDocsExplained' /\ FinalizedHasZipRow'
  BY <1>1 DEF SerialInv, IngestedComplete, MissingDocsExplained, FinalizedHasZipRow, rows
<1>3. CASE FinalizeBegin(s)
  <2>1. Set(s, Txn("finalize", stage, {}, {}, 0)) /\ stage = "UPLOADED"
    BY <1>3 DEF FinalizeBegin
  <2>2. ReadIsCurrent(s)'
    BY <1>1, <2>1 DEF ReadIsCurrent, Txn
  <2>3. QED
    BY <1>2, <2>1, <2>2, SerialBySession
<1>4. CASE ReuploadBegin(s)
  <2> DEFINE r == [pc |-> "reupload", seen |-> stage, ver |-> version, fin |-> finalized,
                   docs |-> {}, new |-> {}, upd |-> {}, gen |-> 0, msg |-> 0]
  <2>1. Set(s, r)
    BY <1>4 DEF ReuploadBegin
  <2>2. ReadIsCurrent(s)'
    BY <1>1, <2>1 DEF ReadIsCurrent
  <2>3. QED
    BY <1>2, <2>1, <2>2, SerialBySession
<1>5. CASE Phase1Begin(s)
  <2>1. Set(s, Txn("phase1", stage, {}, {}, 0)) /\ stage = "INGESTED"
    BY <1>5 DEF Phase1Begin
  <2>2. ReadIsCurrent(s)'
    BY <1>1, <2>1 DEF ReadIsCurrent, Txn
  <2>3. QED
    BY <1>2, <2>1, <2>2, SerialBySession
<1>6. ASSUME NEW d \in Docs, AddBegin(s, d)
      PROVE  SerialInv'
  <2>1. Set(s, Txn("add", stage, {d}, {}, 0))
    BY <1>6 DEF AddBegin
  <2>2. ReadIsCurrent(s)'
    BY <1>1, <2>1 DEF ReadIsCurrent, Txn
  <2>3. QED
    BY <1>2, <2>1, <2>2, SerialBySession
<1>7. ASSUME NEW d \in Docs, WaiveBegin(s, d)
      PROVE  SerialInv'
  <2>1. Set(s, Txn("waive", stage, check.missing \ {d}, check.waived \cup {d}, 0))
    BY <1>7 DEF WaiveBegin
  <2>2. stage \notin {"INGESTED", "PHASE_1_DECISIONING"}
    BY <1>7 DEF WaiveBegin, SerialInv, IngestedComplete
  <2>3. ReadIsCurrent(s)'
    BY <1>1, <2>1, <2>2 DEF ReadIsCurrent, Txn
  <2>4. QED
    BY <1>2, <2>1, <2>3, SerialBySession
<1>8. QED
  BY <1>3, <1>4, <1>5, <1>6, <1>7 DEF Request

\* The handlers' commits.
LEMMA SerialHandlers ==
  ASSUME TypeOK, SerialInv, AloneStep, NEW s \in Sessions,
         \/ FinalizeCommit(s) \/ AddCommit(s) \/ AddCommitRevalidate(s)
         \/ WaiveCommit(s) \/ ReuploadCommit(s) \/ Phase1Commit(s)
  PROVE  SerialInv'
<1> USE DEF TypeOK
<1>0. /\ IngestedComplete /\ MissingDocsExplained /\ FinalizedHasZipRow
      /\ ReadIsCurrent(s)
  BY DEF SerialInv
<1>1. ASSUME NEW r, Set(s, r), r.pc \in {"idle", "publish"},
             IngestedComplete', MissingDocsExplained', FinalizedHasZipRow'
      PROVE  SerialInv'
  <2>1. ReadIsCurrent(s)'
    BY <1>1 DEF ReadIsCurrent
  <2>2. QED
    BY <1>1, <2>1, SerialBySession
<1>2. Idle.pc = "idle" /\ \A i : Holding("publish", i).pc = "publish"
  BY DEF Idle, Holding, Txn
<1> USE DEF IngestedComplete, MissingDocsExplained, FinalizedHasZipRow
<1>3. CASE FinalizeCommit(s)
  <2>1. /\ Set(s, Holding("publish", published + 1))
        /\ stage' = "CHECKLIST_VALIDATION" /\ finalized' /\ origZip'
        /\ UNCHANGED check
    BY <1>0, <1>3 DEF FinalizeCommit, ReadIsCurrent, WriteStage
  <2>2. QED
    BY <1>1, <1>2, <2>1
<1>4. CASE AddCommit(s)
  <2>1. Set(s, Idle) /\ UNCHANGED <<stage, finalized, origZip, check>>
    BY <1>4 DEF AddCommit, caseRow
  <2>2. QED
    BY <1>0, <1>1, <1>2, <2>1
<1>5. CASE AddCommitRevalidate(s)
  <2>1. /\ Set(s, Holding("publish", published + 1))
        /\ stage' = "CHECKLIST_VALIDATION" /\ UNCHANGED <<finalized, origZip, check>>
    BY <1>5 DEF AddCommitRevalidate, WriteStage
  <2>2. QED
    BY <1>0, <1>1, <1>2, <2>1
<1>6. CASE WaiveCommit(s)
  <2>1. /\ Set(s, Idle) /\ UNCHANGED <<finalized, origZip>>
        /\ check'.row /\ check'.missing = sess[s].docs
        /\ stage' = IF Completes(s) THEN "INGESTED" ELSE stage
    BY <1>6 DEF WaiveCommit, WaivedRow
  <2>2. sess[s].seen = stage /\ stage \notin {"INGESTED", "PHASE_1_DECISIONING"}
    BY <1>0, <1>6 DEF WaiveCommit, ReadIsCurrent
  <2>3. QED
    BY <1>0, <1>1, <1>2, <2>1, <2>2 DEF Completes
<1>7. CASE ReuploadCommit(s)
  <2>1. Set(s, Idle) /\ ~origZip' /\ ~finalized' /\ stage' = "UPLOADED"
    BY <1>0, <1>7 DEF ReuploadCommit, ReadIsCurrent, FinalizedAfter, WriteStage
  <2>2. QED
    BY <1>1, <1>2, <2>1
<1>8. CASE Phase1Commit(s)
  <2>1. /\ Set(s, Idle) /\ UNCHANGED <<finalized, origZip, check>>
        /\ stage = "INGESTED" /\ stage' = "PHASE_1_DECISIONING"
    BY <1>0, <1>8 DEF Phase1Commit, ReadIsCurrent, WriteStage, rows
  <2>2. QED
    BY <1>0, <1>1, <1>2, <2>1
<1>9. QED
  BY <1>3, <1>4, <1>5, <1>6, <1>7, <1>8

\* The pipeline: its final stage is the one its checklist row calls for.
LEMMA SerialPipeline ==
  ASSUME TypeOK, SerialInv, AloneStep, NEW s \in Sessions,
         \/ \E i \in JobIds : PipelineLoad(s, i)
         \/ PipelineUnpack(s) \/ PipelineCommit(s)
  PROVE  SerialInv'
<1> USE DEF TypeOK
<1>0. /\ IngestedComplete /\ MissingDocsExplained /\ FinalizedHasZipRow
      /\ ReadIsCurrent(s)
  BY DEF SerialInv
<1> USE DEF IngestedComplete, MissingDocsExplained, FinalizedHasZipRow
<1>1. ASSUME NEW i \in JobIds, PipelineLoad(s, i)
      PROVE  SerialInv'
  <2>1. /\ Set(s, Txn("loaded", stage, {}, {}, i)) /\ stage \in Ingestable
        /\ UNCHANGED <<stage, version, finalized, rows>>
    BY <1>1 DEF PipelineLoad, caseRow
  <2>2. ReadIsCurrent(s)'
    BY <2>1 DEF ReadIsCurrent, Txn
  <2>3. QED
    BY <1>0, <2>1, <2>2, SerialBySession DEF rows
<1>2. CASE PipelineUnpack(s)
  <2> DEFINE new == zip.docs \ DocsOf(arts)
             r == [pc |-> "unpacked", seen |-> sess[s].seen, ver |-> 0, fin |-> FALSE,
                   docs |-> zip.docs \cup DocsOf(arts), new |-> new,
                   upd |-> IF sess[s].msg \in reingests THEN zip.docs ELSE new,
                   gen |-> zip.gen, msg |-> sess[s].msg]
  <2>1. Set(s, r) /\ Busy(s, "loaded") /\ UNCHANGED <<stage, version, finalized, rows>>
    BY <1>2 DEF PipelineUnpack, caseRow
  <2>2. r.pc = "unpacked" /\ r.seen = sess[s].seen
    OBVIOUS
  <2> HIDE DEF r
  <2>3. ReadIsCurrent(s)'
    BY <1>0, <2>1, <2>2 DEF ReadIsCurrent
  <2>4. QED
    BY <1>0, <2>1, <2>3, SerialBySession DEF rows
<1>3. CASE PipelineCommit(s)
  <2> DEFINE missing == Docs \ sess[s].docs
  <2>1. /\ Set(s, Holding("ack", sess[s].msg)) /\ UNCHANGED <<finalized, origZip>>
        /\ check' = [row |-> TRUE, missing |-> missing, waived |-> {}]
        /\ Busy(s, "unpacked")
    BY <1>3 DEF PipelineCommit
  <2>2. sess[s].seen = stage
    BY <1>0, <2>1 DEF ReadIsCurrent
  <2>3. stage' = FinalStage(missing)
    BY <1>3, <2>2 DEF PipelineCommit
  <2>4. IngestedComplete' /\ MissingDocsExplained' /\ FinalizedHasZipRow'
    BY <1>0, <2>1, <2>3 DEF FinalStage
  <2>5. ReadIsCurrent(s)'
    BY <2>1 DEF ReadIsCurrent, Holding, Txn
  <2>6. QED
    BY <2>1, <2>4, <2>5, SerialBySession
<1>4. QED
  BY <1>1, <1>2, <1>3

LEMMA SerialStep ==
  ASSUME TypeOK, SerialInv, AloneStep, [Next]_vars
  PROVE  SerialInv'
<1>1. CASE UNCHANGED vars
  BY <1>1, SerialQuiet DEF vars, rows
<1>2. CASE Client \/ Admin \/ \E i \in JobIds : DeadLetter(i)
  BY <1>2, SerialQuiet
  DEF Client, Admin, Upload, Reingest, ApproveReupload, SoftDelete, DeadLetter, caseRow
<1>3. ASSUME NEW s \in Sessions, NEW i \in JobIds, PipelineSkip(s, i)
      PROVE  SerialInv'
  BY <1>3, SerialQuiet DEF PipelineSkip, caseRow
<1>4. ASSUME NEW s \in Sessions,
             Publish(s) \/ Acknowledge(s) \/ Abort(s) \/ CrashBeforePublish(s)
      PROVE  SerialInv'
  <2>1. Set(s, Idle) /\ UNCHANGED <<stage, version, finalized, rows>>
    BY <1>4 DEF Publish, Acknowledge, Abort, CrashBeforePublish, caseRow
  <2>2. IngestedComplete' /\ MissingDocsExplained' /\ FinalizedHasZipRow'
    BY <2>1 DEF SerialInv, IngestedComplete, MissingDocsExplained, FinalizedHasZipRow, rows
  <2>3. ReadIsCurrent(s)'
    BY <2>1 DEF TypeOK, ReadIsCurrent, Idle, Txn
  <2>4. QED
    BY <2>1, <2>2, <2>3, SerialBySession
<1>5. QED
  BY <1>1, <1>2, <1>3, <1>4, SerialRequest, SerialHandlers, SerialPipeline
  DEF Next, Work, Proceed

LEMMA SerialAlways == Spec /\ [][AloneStep]_vars => [](TypeOK /\ SerialInv)
<1>1. Init => TypeOK /\ SessionOK /\ SerialInv
  BY TypeInit, SerialInit DEF Init, SessionOK, Idle, Txn
<1>2. UNCHANGED vars => AloneStep
  BY DEF vars, AloneStep, rows
<1>3. TypeOK /\ SessionOK /\ SerialInv /\ [Next]_vars /\ [AloneStep]_vars
        => TypeOK' /\ SessionOK' /\ SerialInv'
  BY <1>2, TypeStep, SessionStep, SerialStep
<1>4. QED
  BY <1>1, <1>3, PTL DEF Spec

\* As long as no two transactions overlap, a case that is ingested or in Phase 1
\* has a complete checklist on file, for any number of sessions, uploads,
\* waivers, redeliveries and failed pipeline runs.
THEOREM IngestedIsComplete == Spec /\ [][AloneStep]_vars => []IngestedComplete
<1>1. SerialInv => IngestedComplete
  BY DEF SerialInv
<1>2. QED
  BY <1>1, SerialAlways, PTL

\* As long as no two transactions overlap, a case parked for missing documents
\* says which, so it is never parked without a way out.
THEOREM ParkedCaseIsExplained == Spec /\ [][AloneStep]_vars => []MissingDocsExplained
<1>1. SerialInv => MissingDocsExplained
  BY DEF SerialInv
<1>2. QED
  BY <1>1, SerialAlways, PTL

\* As long as no two transactions overlap, finalized_at is set exactly while the
\* ORIGINAL_ZIP row exists, through any number of re-uploads.
THEOREM FinalizedWithZipRow == Spec /\ [][AloneStep]_vars => []FinalizedHasZipRow
<1>1. SerialInv => FinalizedHasZipRow
  BY DEF SerialInv
<1>2. QED
  BY <1>1, SerialAlways, PTL
\* One permitted chain for each way the worker and the handlers move the stage.
LEMMA Walks ==
  /\ SM!CommittedMove("UPLOADED", "CHECKLIST_VALIDATION")
  /\ SM!CommittedMove("CHECKLIST_MISSING_DOCS", "CHECKLIST_VALIDATION")
  /\ SM!CommittedMove("INGESTED", "PHASE_1_DECISIONING")
  /\ \A from \in Ingestable : \A to \in {"INGESTED", "CHECKLIST_MISSING_DOCS"} :
        from # to => SM!CommittedMove(from, to)
<1>1. /\ SM!CanTransition("UPLOADED", "CHECKLIST_VALIDATION")
      /\ SM!CanTransition("CHECKLIST_MISSING_DOCS", "CHECKLIST_VALIDATION")
      /\ SM!CanTransition("INGESTED", "PHASE_1_DECISIONING")
      /\ SM!CanTransition("INGESTED", "CHECKLIST_VALIDATION")
      /\ SM!CanTransition("CHECKLIST_VALIDATED", "CHECKLIST_VALIDATION")
      /\ SM!CanTransition("CHECKLIST_VALIDATION", "CHECKLIST_VALIDATED")
      /\ SM!CanTransition("CHECKLIST_VALIDATION", "CHECKLIST_MISSING_DOCS")
      /\ SM!CanTransition("CHECKLIST_VALIDATED", "INGESTED")
  BY DEF SM!CanTransition, SM!AllowedTransitions
<1>2. /\ "CHECKLIST_VALIDATION" \in SM!PassedThrough
      /\ "CHECKLIST_VALIDATED" \in SM!PassedThrough
  BY DEF SM!PassedThrough
<1>3. ASSUME NEW from \in Ingestable, from \notin {"CHECKLIST_VALIDATION"}
      PROVE  SM!CommittedMove(from, "CHECKLIST_MISSING_DOCS")
  BY <1>1, <1>2, <1>3 DEF Ingestable, SM!CommittedMove
<1>4. ASSUME NEW from \in Ingestable, from # "INGESTED"
      PROVE  SM!CommittedMove(from, "INGESTED")
  BY <1>1, <1>2, <1>4 DEF Ingestable, SM!CommittedMove
<1>5. QED
  BY <1>1, <1>3, <1>4 DEF Ingestable, SM!CommittedMove

\* Every step maps to a step of the stage machine or to none.
LEMMA StageStep ==
  ASSUME TypeOK, SerialInv, [Next]_vars
  PROVE  [SM!Next]_<<stage, version>>
<1> USE DEF TypeOK
<1>1. ASSUME NEW to \in Stages, stage' = to, version' = version,
             to # stage => SM!CommittedMove(stage, to)
      PROVE  [SM!Next]_<<stage, version>>
  BY <1>1 DEF SM!Next, SM!Move, SM!Stages, Stages
<1>2. ASSUME NEW s \in Sessions, FinalizeCommit(s)
      PROVE  [SM!Next]_<<stage, version>>
  <2>1. /\ stage = "UPLOADED" /\ stage' = "CHECKLIST_VALIDATION" /\ version' = version
    BY <1>2 DEF FinalizeCommit, WriteStage, SerialInv, ReadIsCurrent
  <2>2. QED
    BY <1>1, <2>1, Walks DEF Stages
<1>3. ASSUME NEW s \in Sessions, AddCommitRevalidate(s)
      PROVE  [SM!Next]_<<stage, version>>
  <2>1. /\ stage = "CHECKLIST_MISSING_DOCS" /\ stage' = "CHECKLIST_VALIDATION"
        /\ version' = version
    BY <1>3 DEF AddCommitRevalidate, WriteStage, SerialInv, ReadIsCurrent
  <2>2. QED
    BY <1>1, <2>1, Walks DEF Stages
<1>4. ASSUME NEW s \in Sessions, WaiveCommit(s)
      PROVE  [SM!Next]_<<stage, version>>
  <2>1. /\ version' = version /\ sess[s].seen = stage
        /\ stage' = IF Completes(s) THEN "INGESTED" ELSE stage
    BY <1>4 DEF WaiveCommit, SerialInv, ReadIsCurrent
  <2>2. QED
    BY <1>1, <2>1, Walks DEF Stages, Completes, Ingestable
<1>5. ASSUME NEW s \in Sessions, ReuploadCommit(s)
      PROVE  [SM!Next]_<<stage, version>>
  <2>1. stage' = "UPLOADED" /\ version' = version + 1
    BY <1>5 DEF ReuploadCommit, WriteStage, SerialInv, ReadIsCurrent
  <2>2. QED
    BY <2>1 DEF SM!Next, SM!Reupload
<1>6. ASSUME NEW s \in Sessions, Phase1Commit(s)
      PROVE  [SM!Next]_<<stage, version>>
  <2>1. /\ stage = "INGESTED" /\ stage' = "PHASE_1_DECISIONING" /\ version' = version
    BY <1>6 DEF Phase1Commit, WriteStage, SerialInv, ReadIsCurrent
  <2>2. QED
    BY <1>1, <2>1, Walks DEF Stages
<1>7. ASSUME NEW s \in Sessions, PipelineCommit(s)
      PROVE  [SM!Next]_<<stage, version>>
  <2>1. /\ stage \in Ingestable /\ version' = version
        /\ stage' = FinalStage(Docs \ sess[s].docs)
    BY <1>7 DEF PipelineCommit, SerialInv, ReadIsCurrent
  <2>2. stage' \in {"INGESTED", "CHECKLIST_MISSING_DOCS"}
    BY <2>1 DEF FinalStage
  <2>3. QED
    BY <1>1, <2>1, <2>2, Walks DEF Stages
<1>8. ASSUME UNCHANGED <<stage, version>>
      PROVE  [SM!Next]_<<stage, version>>
  BY <1>8
<1>9. ASSUME NEW s \in Sessions,
             \/ Request(s) \/ Work(s) \/ Abort(s) \/ CrashBeforePublish(s)
             \/ Publish(s) \/ AddCommit(s) \/ PipelineUnpack(s) \/ Acknowledge(s)
      PROVE  UNCHANGED <<stage, version>>
  BY <1>9
  DEF Request, FinalizeBegin, ReuploadBegin, Phase1Begin, AddBegin, WaiveBegin, Work,
      PipelineLoad, PipelineSkip, Abort, CrashBeforePublish, Publish, AddCommit,
      PipelineUnpack, Acknowledge, caseRow
<1>10. CASE UNCHANGED vars \/ Client \/ Admin \/ \E i \in JobIds : DeadLetter(i)
  BY <1>8, <1>10
  DEF vars, Client, Admin, Upload, Reingest, ApproveReupload, SoftDelete, DeadLetter, caseRow
<1>11. QED
  BY <1>2, <1>3, <1>4, <1>5, <1>6, <1>7, <1>8, <1>9, <1>10 DEF Next, Proceed

\* As long as no two transactions overlap, the handlers and the pipeline implement
\* the stage machine: what they commit is a chain of transitions stages.py permits,
\* and only a new version of the case goes back to UPLOADED.
THEOREM StageMachineIsImplemented == Spec /\ [][AloneStep]_vars => RefinesStageMachine
<1>1. Init => SM!Init
  BY DEF Init, SM!Init
<1>2. TypeOK /\ SerialInv /\ [Next]_vars => [SM!Next]_<<stage, version>>
  BY StageStep
<1>3. QED
  BY <1>1, <1>2, SerialAlways, PTL DEF Spec, SM!Spec, RefinesStageMachine

\* The hypothesis of these theorems is what a single session does by itself, so
\* they cover one user with one worker process.
THEOREM OneSessionIsAlone ==
  ASSUME \A s, t \in Sessions : s = t
  PROVE  Spec => [][AloneStep]_vars
<1>1. ASSUME TypeOK, [Next]_vars
      PROVE  AloneStep
  <2>1. ASSUME NEW s \in Sessions, NEW r, Set(s, r), r.pc # sess[s].pc
        PROVE  AloneStep
    <3>1. sess'[s] = r
      BY <1>1, <2>1 DEF TypeOK
    <3>2. QED
      BY <2>1, <3>1 DEF AloneStep
  <2>2. ASSUME UNCHANGED <<stage, version, finalized, rows, sess>>
        PROVE  AloneStep
    BY <2>2 DEF AloneStep
  <2>3. ASSUME NEW s \in Sessions, Free(s)
        PROVE  AloneStep
    BY <2>3 DEF AloneStep
  <2>4. CASE UNCHANGED vars \/ Client \/ Admin \/ \E i \in JobIds : DeadLetter(i)
    BY <2>2, <2>4
    DEF vars, Client, Admin, Upload, Reingest, ApproveReupload, SoftDelete, DeadLetter,
        caseRow, rows
  <2>5. ASSUME NEW s \in Sessions, Request(s) \/ Work(s)
        PROVE  AloneStep
    BY <2>3, <2>5
    DEF Request, FinalizeBegin, ReuploadBegin, Phase1Begin, AddBegin, WaiveBegin, Work,
        PipelineLoad, PipelineSkip
  <2>6. ASSUME NEW s \in Sessions,
               \/ Publish(s) \/ AddCommit(s) \/ WaiveCommit(s) \/ ReuploadCommit(s)
               \/ Phase1Commit(s) \/ Acknowledge(s) \/ Abort(s) \/ CrashBeforePublish(s)
        PROVE  AloneStep
    <3>1. Set(s, Idle) /\ Idle.pc = "idle" /\ sess[s].pc # "idle"
      BY <2>6
      DEF Publish, AddCommit, WaiveCommit, ReuploadCommit, Phase1Commit, Acknowledge,
          Abort, CrashBeforePublish, Idle, Txn
    <3>2. QED
      BY <2>1, <3>1
  <2>7. ASSUME NEW s \in Sessions, FinalizeCommit(s) \/ AddCommitRevalidate(s)
        PROVE  AloneStep
    <3>1. Set(s, Holding("publish", published + 1)) /\ sess[s].pc # "publish"
      BY <2>7 DEF FinalizeCommit, AddCommitRevalidate
    <3>2. QED
      BY <2>1, <3>1 DEF Holding, Txn
  <2>8. ASSUME NEW s \in Sessions, PipelineUnpack(s) \/ PipelineCommit(s)
        PROVE  AloneStep
    <3>1. CASE PipelineUnpack(s)
      <4> DEFINE new == zip.docs \ DocsOf(arts)
                 r == [pc |-> "unpacked", seen |-> sess[s].seen, ver |-> 0, fin |-> FALSE,
                       docs |-> zip.docs \cup DocsOf(arts), new |-> new,
                       upd |-> IF sess[s].msg \in reingests THEN zip.docs ELSE new,
                       gen |-> zip.gen, msg |-> sess[s].msg]
      <4>1. Set(s, r) /\ r.pc = "unpacked" /\ Busy(s, "loaded")
        BY <3>1 DEF PipelineUnpack
      <4> HIDE DEF r
      <4>2. QED
        BY <2>1, <4>1
    <3>2. CASE PipelineCommit(s)
      BY <2>1, <3>2 DEF PipelineCommit, Holding, Txn
    <3>3. QED
      BY <2>8, <3>1, <3>2
  <2>9. QED
    BY <1>1, <2>4, <2>5, <2>6, <2>7, <2>8 DEF Next, Proceed
<1>2. Spec => []TypeOK
  BY TypeCorrect
<1>3. TypeOK /\ [Next]_vars => [AloneStep]_vars
  BY <1>1
<1>4. QED
  BY <1>2, <1>3, PTL DEF Spec

-----------------------------------------------------------------------------
(***************************************************************************)
(* The ingestion queue implements JobQueue                                 *)
(***************************************************************************)
\* A message that is yet to be published is new to the queue, and no two sessions
\* are about to publish the same one.
Reserved(s) == Busy(s, "publish")

FreshInv ==
    /\ \A i \in JobIds : i > published => received[i] = 0
    /\ \A s \in Sessions : Reserved(s) =>
          /\ sess[s].msg \in JobIds \ jobs /\ received[sess[s].msg] = 0
          /\ \A t \in Sessions : Reserved(t) /\ sess[t].msg = sess[s].msg => t = s

QueueInv == TypeOK /\ SessionOK /\ StrandInv /\ FreshInv

LEMMA FreshInit == Init => FreshInv
  BY DEF Init, FreshInv, Reserved, Idle, Txn

WithMessage == {"loaded", "unpacked", "ack"}

\* A request, and the end of one that publishes nothing, is no business of the
\* queue's.
LEMMA QuietSteps ==
  ASSUME TypeOK, NEW s \in Sessions,
         \/ Request(s) \/ AddCommit(s) \/ WaiveCommit(s) \/ ReuploadCommit(s)
         \/ Phase1Commit(s) \/ CrashBeforePublish(s)
  PROVE  /\ sess[s].pc \notin WithMessage
         /\ \E r : Set(s, r) /\ r.pc \notin WithMessage \cup {"publish"}
         /\ UNCHANGED <<jobs, received, dead, published>>
<1> USE DEF WithMessage
<1>1. \A pc, seen, docs, upd : Txn(pc, seen, docs, upd, 0).pc = pc
  BY DEF Txn
<1>2. Idle.pc = "idle"
  BY DEF Idle, Txn
<1>3. ASSUME NEW d \in Docs, AddBegin(s, d) \/ WaiveBegin(s, d)
      PROVE  /\ sess[s].pc = "idle"
             /\ \E r : Set(s, r) /\ r.pc \in {"add", "waive"}
             /\ UNCHANGED <<jobs, received, dead, published>>
  BY <1>1, <1>3 DEF AddBegin, WaiveBegin, queue
<1>4. CASE FinalizeBegin(s) \/ Phase1Begin(s)
  BY <1>1, <1>4 DEF FinalizeBegin, Phase1Begin, queue
<1>5. CASE ReuploadBegin(s)
  <2> DEFINE q == [pc |-> "reupload", seen |-> stage, ver |-> version,
                   fin |-> finalized, docs |-> {}, new |-> {}, upd |-> {},
                   gen |-> 0, msg |-> 0]
  <2>1. Set(s, q) /\ q.pc = "reupload" /\ sess[s].pc = "idle"
    BY <1>5 DEF ReuploadBegin
  <2>2. UNCHANGED <<jobs, received, dead, published>>
    BY <1>5 DEF ReuploadBegin, queue
  <2> HIDE DEF q
  <2>3. QED
    BY <2>1, <2>2
<1>6. CASE \/ AddCommit(s) \/ WaiveCommit(s) \/ ReuploadCommit(s)
           \/ Phase1Commit(s) \/ CrashBeforePublish(s)
  <2>1. /\ sess[s].pc \in {"add", "waive", "reupload", "phase1", "publish"}
        /\ Set(s, Idle)
    BY <1>6 DEF AddCommit, WaiveCommit, ReuploadCommit, Phase1Commit, CrashBeforePublish
  <2>2. UNCHANGED <<jobs, received, dead, published>>
    BY <1>6
    DEF AddCommit, WaiveCommit, ReuploadCommit, Phase1Commit, CrashBeforePublish, queue
  <2>3. QED
    BY <1>2, <2>1, <2>2
<1>7. QED
  BY <1>3, <1>4, <1>5, <1>6 DEF Request

LEMMA FreshStep ==
  ASSUME TypeOK, SessionOK, StrandInv, FreshInv, [Next]_vars
  PROVE  FreshInv'
<1> USE DEF FreshInv, Reserved
<1>1. /\ published \in Nat /\ jobs \subseteq 1..published /\ jobs \subseteq JobIds
      /\ received \in [JobIds -> Nat]
      /\ \A t \in Sessions : sess[t].msg \in Nat /\ sess[t].msg <= published
  BY BoundsAssumption DEF StrandInv, TypeOK, Session
\* Nothing new is reserved, and what is sent was reserved by no other session.
<1>2. ASSUME NEW s \in Sessions, NEW r, Set(s, r), r.pc # "publish",
             jobs' \subseteq jobs \cup (IF Reserved(s) THEN {sess[s].msg} ELSE {}),
             UNCHANGED <<received, published>>
      PROVE  FreshInv'
  <2>1. sess'[s] = r /\ \A t \in Sessions \ {s} : sess'[t] = sess[t]
    BY <1>2 DEF TypeOK
  <2>2. ASSUME NEW t \in Sessions, sess'[t].pc = "publish"
        PROVE  /\ sess'[t].msg \in JobIds \ jobs' /\ received'[sess'[t].msg] = 0
               /\ \A u \in Sessions :
                     sess'[u].pc = "publish" /\ sess'[u].msg = sess'[t].msg => u = t
    BY <1>2, <2>1, <2>2
  <2>3. QED
    BY <1>2, <2>2
<1>3. ASSUME UNCHANGED <<sess, received, published>>, jobs' \subseteq jobs
      PROVE  FreshInv'
  BY <1>3
<1>4. CASE UNCHANGED vars \/ Client \/ ApproveReupload \/ SoftDelete \/ \E i \in JobIds : DeadLetter(i)
  BY <1>3, <1>4 DEF vars, Client, Upload, ApproveReupload, SoftDelete, DeadLetter, queue
<1>5. CASE Reingest
  <2>1. jobs' = jobs \cup {published + 1} /\ published' = published + 1
        /\ UNCHANGED <<sess, received>>
    BY <1>5 DEF Reingest
  <2>2. \A t \in Sessions : sess[t].msg # published + 1
    BY <1>1
  <2>3. QED
    BY <1>1, <2>1, <2>2
\* A delivery counts a message that is in the queue, so published and not reserved.
<1>6. ASSUME NEW i \in JobIds, Receive(i), UNCHANGED published, jobs' \subseteq jobs,
             \A t \in Sessions : sess'[t].pc = "publish" => sess'[t] = sess[t]
      PROVE  FreshInv'
  <2>1. i \in jobs /\ i <= published /\ \A j \in JobIds : j # i => received'[j] = received[j]
    BY <1>1, <1>6 DEF Receive
  <2>2. QED
    BY <1>1, <1>6, <2>1
<1>7. ASSUME NEW s \in Sessions, NEW i \in JobIds, PipelineLoad(s, i) \/ PipelineSkip(s, i)
      PROVE  FreshInv'
  <2>1. CASE PipelineSkip(s, i)
    BY <1>6, <2>1 DEF PipelineSkip
  <2>2. CASE PipelineLoad(s, i)
    <3>1. /\ Receive(i) /\ UNCHANGED <<jobs, published>>
          /\ Set(s, Txn("loaded", stage, {}, {}, i))
      BY <2>2 DEF PipelineLoad
    <3>2. Txn("loaded", stage, {}, {}, i).pc # "publish"
      BY DEF Txn
    <3>3. \A t \in Sessions : sess'[t].pc = "publish" => sess'[t] = sess[t]
      BY <3>1, <3>2 DEF TypeOK
    <3>4. QED
      BY <1>6, <3>1, <3>3
  <2>3. QED
    BY <1>7, <2>1, <2>2
<1>8. ASSUME NEW s \in Sessions, FinalizeCommit(s) \/ AddCommitRevalidate(s)
      PROVE  FreshInv'
  <2>1. /\ Set(s, Holding("publish", published + 1))
        /\ published' = published + 1 /\ published < MaxJobs
        /\ UNCHANGED <<jobs, received>>
    BY <1>8 DEF FinalizeCommit, AddCommitRevalidate
  <2>2. /\ sess'[s].pc = "publish" /\ sess'[s].msg = published + 1
        /\ \A t \in Sessions \ {s} : sess'[t] = sess[t]
    BY <2>1 DEF TypeOK, Holding, Txn
  <2>3. published + 1 \in JobIds
    BY <1>1, <2>1, BoundsAssumption DEF JobIds
  <2>4. published + 1 \notin jobs /\ received[published + 1] = 0
    BY <1>1, <2>3
  <2>5. ASSUME NEW t \in Sessions, sess'[t].pc = "publish"
        PROVE  /\ sess'[t].msg \in JobIds \ jobs' /\ received'[sess'[t].msg] = 0
               /\ \A u \in Sessions :
                     sess'[u].pc = "publish" /\ sess'[u].msg = sess'[t].msg => u = t
    BY <1>1, <2>1, <2>2, <2>3, <2>4, <2>5
  <2>6. \A i \in JobIds : i > published' => received'[i] = 0
    BY <1>1, <2>1 DEF JobIds
  <2>7. QED
    BY <2>5, <2>6
<1>9. ASSUME NEW s \in Sessions, Publish(s) \/ Acknowledge(s) \/ Abort(s)
      PROVE  FreshInv'
  <2>1. /\ Set(s, Idle) /\ UNCHANGED <<received, published>>
        /\ jobs' \subseteq jobs \cup (IF Reserved(s) THEN {sess[s].msg} ELSE {})
    BY <1>9 DEF Publish, Acknowledge, Abort, queue
  <2>2. Idle.pc # "publish"
    BY DEF Idle, Txn
  <2>3. QED
    BY <1>2, <2>1, <2>2
<1>10. ASSUME NEW s \in Sessions, PipelineUnpack(s) \/ PipelineCommit(s)
       PROVE  FreshInv'
  <2>1. CASE PipelineUnpack(s)
    BY <1>2, <2>1 DEF PipelineUnpack, queue
  <2>2. CASE PipelineCommit(s)
    BY <1>2, <2>2 DEF PipelineCommit, Holding, Txn, queue
  <2>3. QED
    BY <1>10, <2>1, <2>2
<1>11. ASSUME NEW s \in Sessions,
              \/ Request(s) \/ AddCommit(s) \/ WaiveCommit(s) \/ ReuploadCommit(s)
              \/ Phase1Commit(s) \/ CrashBeforePublish(s)
       PROVE  FreshInv'
  BY <1>2, <1>11, QuietSteps
<1>12. QED
  BY <1>4, <1>5, <1>7, <1>8, <1>9, <1>10, <1>11 DEF Next, Admin, Work, Proceed

Handlers == [s \in Sessions |-> WorkOf(sess[s])]
QueueVars == <<jobs, received, dead, Handlers>>

LEMMA HandlerBecomes ==
  ASSUME TypeOK, NEW s \in Sessions, NEW r, Set(s, r)
  PROVE  Handlers' = [Handlers EXCEPT ![s] = WorkOf(r)]
<1>1. sess' = [t \in Sessions |-> IF t = s THEN r ELSE sess[t]]
  BY DEF TypeOK
<1>2. \A t \in Sessions : WorkOf(sess'[t]) = IF t = s THEN WorkOf(r) ELSE WorkOf(sess[t])
  BY <1>1
<1>3. QED
  BY <1>2, Zenon DEF Handlers

LEMMA QueueActions ==
  /\ \A i : Queue!Send(i) <=>
        /\ i \notin jobs /\ received[i] = 0
        /\ jobs' = jobs \cup {i} /\ UNCHANGED <<received, dead, Handlers>>
  /\ \A h, i : Queue!Deliver(h, i) <=>
        /\ Handlers[h] = [does |-> "waiting"] /\ Receive(i)
        /\ \/ Handlers' = [Handlers EXCEPT ![h] = [does |-> "handling", msg |-> i]]
           \/ Handlers' = [Handlers EXCEPT ![h] = [does |-> "handled", msg |-> i]]
        /\ UNCHANGED <<jobs, dead>>
  /\ \A h, i : Queue!Dispatch(h, i) <=>
        /\ Handlers[h] = [does |-> "waiting"] /\ Receive(i)
        /\ jobs' = jobs \ {i} /\ UNCHANGED <<dead, Handlers>>
  /\ \A h : Queue!Return(h) <=>
        /\ Handlers[h].does = "handling"
        /\ Handlers' = [Handlers EXCEPT ![h] = [does |-> "handled", msg |-> Handlers[h].msg]]
        /\ UNCHANGED <<jobs, received, dead>>
  /\ \A h : Queue!Delete(h) <=>
        /\ Handlers[h].does = "handled"
        /\ jobs' = jobs \ {Handlers[h].msg}
        /\ Handlers' = [Handlers EXCEPT ![h] = [does |-> "waiting"]]
        /\ UNCHANGED <<received, dead>>
  /\ \A h : Queue!Raise(h) <=>
        /\ Handlers[h].does \in {"handling", "handled"}
        /\ Handlers' = [Handlers EXCEPT ![h] = [does |-> "waiting"]]
        /\ UNCHANGED <<jobs, received, dead>>
  /\ \A i : Queue!Redrive(i) <=>
        /\ i \in jobs /\ received[i] = MaxReceive
        /\ jobs' = jobs \ {i} /\ dead' = TRUE /\ UNCHANGED <<received, Handlers>>
  /\ (UNCHANGED QueueVars) => UNCHANGED Queue!vars
  BY Zenon
  DEF Handlers, Queue!Waiting, Queue!Handling, Queue!Handled, Queue!Becomes, Queue!Send,
      Queue!Received, Queue!Deliver, Queue!Dispatch, Queue!Return, Queue!Delete,
      Queue!Raise, Queue!Redrive, Receive, QueueVars, Queue!vars

LEMMA Working ==
  ASSUME NEW t
  PROVE  /\ t.pc \in {"loaded", "unpacked"} =>
               WorkOf(t) = [does |-> "handling", msg |-> t.msg]
         /\ t.pc = "ack" => WorkOf(t) = [does |-> "handled", msg |-> t.msg]
         /\ t.pc \notin WithMessage => WorkOf(t) = [does |-> "waiting"]
  BY DEF WorkOf, WithMessage

LEMMA QueueInit == Init => Queue!Init
  BY DEF Init, Queue!Init, Queue!Waiting, WorkOf, Idle, Txn

LEMMA QueueStep ==
  ASSUME TypeOK, SessionOK, StrandInv, FreshInv, [Next]_vars
  PROVE  [Queue!Next]_Queue!vars
<1>1. \A s \in Sessions : Handlers[s] = WorkOf(sess[s])
  BY DEF Handlers
<1>2. WorkOf(Idle) = [does |-> "waiting"]
  BY DEF WorkOf, Idle, Txn
<1>3. ASSUME UNCHANGED QueueVars
      PROVE  [Queue!Next]_Queue!vars
  BY <1>3, QueueActions
<1>4. \A i \in JobIds : Queue!Send(i) \/ Queue!Redrive(i) => Queue!Next
  BY DEF Queue!Next
<1>5. \A s \in Sessions :
         /\ Queue!Return(s) \/ Queue!Delete(s) \/ Queue!Raise(s) => Queue!Next
         /\ \A i \in JobIds : Queue!Deliver(s, i) \/ Queue!Dispatch(s, i) => Queue!Next
  BY DEF Queue!Next
<1>6. CASE UNCHANGED vars \/ Client \/ ApproveReupload \/ SoftDelete
  <2>1. UNCHANGED <<jobs, received, dead, sess>>
    BY <1>6 DEF vars, Client, Upload, ApproveReupload, SoftDelete, queue
  <2>2. Handlers' = Handlers
    BY <2>1 DEF Handlers
  <2>3. QED
    BY <1>3, <2>1, <2>2 DEF QueueVars
<1>7. CASE Reingest
  <2>1. /\ published < MaxJobs /\ jobs' = jobs \cup {published + 1}
        /\ UNCHANGED <<received, dead, sess>>
    BY <1>7 DEF Reingest
  <2>2. published \in Nat /\ jobs \subseteq 1..published
    BY DEF TypeOK, StrandInv
  <2>3. PICK i \in JobIds : i = published + 1
    BY <2>1, <2>2, BoundsAssumption DEF JobIds
  <2>4. i \notin jobs /\ received[i] = 0
    BY <2>2, <2>3 DEF FreshInv
  <2>5. Handlers' = Handlers
    BY <2>1 DEF Handlers
  <2>6. Queue!Send(i)
    BY <2>1, <2>3, <2>4, <2>5, QueueActions
  <2>7. QED
    BY <1>4, <2>6
<1>8. ASSUME NEW i \in JobIds, DeadLetter(i)
      PROVE  Queue!Redrive(i)
  <2>1. Handlers' = Handlers
    BY <1>8 DEF DeadLetter, Handlers
  <2>2. QED
    BY <1>8, <2>1, QueueActions DEF DeadLetter
<1>9. ASSUME NEW s \in Sessions,
             \/ Request(s) \/ AddCommit(s) \/ WaiveCommit(s) \/ ReuploadCommit(s)
             \/ Phase1Commit(s) \/ CrashBeforePublish(s)
             \/ FinalizeCommit(s) \/ AddCommitRevalidate(s)
      PROVE  UNCHANGED QueueVars
  <2>1. /\ sess[s].pc \notin WithMessage
        /\ \E r : Set(s, r) /\ r.pc \notin WithMessage
        /\ UNCHANGED <<jobs, received, dead>>
    <3>1. CASE FinalizeCommit(s) \/ AddCommitRevalidate(s)
      <4>1. /\ sess[s].pc \in {"finalize", "add"}
            /\ Set(s, Holding("publish", published + 1))
            /\ UNCHANGED <<jobs, received, dead>>
        BY <3>1 DEF FinalizeCommit, AddCommitRevalidate
      <4>2. Holding("publish", published + 1).pc = "publish"
        BY DEF Holding, Txn
      <4>3. QED
        BY <4>1, <4>2 DEF WithMessage
    <3>2. QED
      BY <1>9, <3>1, QuietSteps
  <2>2. PICK r : Set(s, r) /\ r.pc \notin WithMessage
    BY <2>1
  <2>3. WorkOf(r) = WorkOf(sess[s])
    BY <2>1, <2>2 DEF WorkOf, WithMessage
  <2>4. Handlers' = [Handlers EXCEPT ![s] = Handlers[s]]
    BY <1>1, <2>2, <2>3, HandlerBecomes
  <2>5. Handlers' = Handlers
    BY <2>4 DEF Handlers
  <2>6. QED
    BY <2>1, <2>5 DEF QueueVars
<1>10. ASSUME NEW s \in Sessions, Publish(s)
       PROVE  Queue!Send(sess[s].msg) /\ sess[s].msg \in JobIds
  <2>1. /\ sess[s].msg \in JobIds \ jobs /\ received[sess[s].msg] = 0
        /\ sess[s].pc = "publish"
    BY <1>10 DEF Publish, FreshInv, Reserved
  <2>2. /\ Set(s, Idle) /\ jobs' = jobs \cup {sess[s].msg}
        /\ UNCHANGED <<received, dead>>
    BY <1>10 DEF Publish
  <2>3. WorkOf(Idle) = Handlers[s]
    BY <1>1, <1>2, <2>1 DEF WorkOf
  <2>4. Handlers' = Handlers
    <3>1. Handlers' = [Handlers EXCEPT ![s] = Handlers[s]]
      BY <2>2, <2>3, HandlerBecomes
    <3>2. QED
      BY <3>1 DEF Handlers
  <2>5. QED
    BY <2>1, <2>2, <2>4, QueueActions
<1>11. ASSUME NEW s \in Sessions, NEW i \in JobIds, PipelineLoad(s, i)
       PROVE  Queue!Deliver(s, i)
  <2>1. /\ sess[s].pc = "idle" /\ Receive(i) /\ UNCHANGED <<jobs, dead>>
        /\ Set(s, Txn("loaded", stage, {}, {}, i))
    BY <1>11 DEF PipelineLoad
  <2>2. WorkOf(Txn("loaded", stage, {}, {}, i)) = [does |-> "handling", msg |-> i]
    BY DEF WorkOf, Txn
  <2>3. Handlers[s] = [does |-> "waiting"]
    BY <1>1, <2>1 DEF WorkOf
  <2>4. Handlers' = [Handlers EXCEPT ![s] = [does |-> "handling", msg |-> i]]
    BY <2>1, <2>2, HandlerBecomes
  <2>5. QED
    BY <2>1, <2>3, <2>4, QueueActions
<1>12. ASSUME NEW s \in Sessions, NEW i \in JobIds, PipelineSkip(s, i)
       PROVE  Queue!Dispatch(s, i)
  <2>1. /\ sess[s].pc = "idle" /\ Receive(i) /\ jobs' = jobs \ {i}
        /\ UNCHANGED <<dead, sess>>
    BY <1>12 DEF PipelineSkip
  <2>2. Handlers[s] = [does |-> "waiting"] /\ Handlers' = Handlers
    BY <1>1, <2>1 DEF WorkOf, Handlers
  <2>3. QED
    BY <2>1, <2>2, QueueActions
<1>13. ASSUME NEW s \in Sessions, PipelineUnpack(s)
       PROVE  UNCHANGED QueueVars
  <2>1. sess[s].pc = "loaded" /\ UNCHANGED <<jobs, received, dead>>
    BY <1>13 DEF PipelineUnpack, queue
  <2>2. PICK r : Set(s, r) /\ r.pc = "unpacked" /\ r.msg = sess[s].msg
    <3> DEFINE new == zip.docs \ DocsOf(arts)
               q == [pc |-> "unpacked", seen |-> sess[s].seen, ver |-> 0, fin |-> FALSE,
                     docs |-> zip.docs \cup DocsOf(arts), new |-> new,
                     upd |-> IF sess[s].msg \in reingests THEN zip.docs ELSE new,
                     gen |-> zip.gen, msg |-> sess[s].msg]
    <3>1. Set(s, q) /\ q.pc = "unpacked" /\ q.msg = sess[s].msg
      BY <1>13 DEF PipelineUnpack
    <3> HIDE DEF q
    <3>2. QED
      BY <3>1
  <2>3. WorkOf(r) = Handlers[s]
    BY <1>1, <2>1, <2>2 DEF WorkOf
  <2>4. Handlers' = [Handlers EXCEPT ![s] = Handlers[s]]
    BY <2>2, <2>3, HandlerBecomes
  <2>5. Handlers' = Handlers
    BY <2>4 DEF Handlers
  <2>6. QED
    BY <2>1, <2>5 DEF QueueVars
<1>14. ASSUME NEW s \in Sessions, PipelineCommit(s)
       PROVE  Queue!Return(s)
  <2>1. /\ sess[s].pc = "unpacked" /\ UNCHANGED <<jobs, received, dead>>
        /\ Set(s, Holding("ack", sess[s].msg))
    BY <1>14 DEF PipelineCommit, queue
  <2>2. Handlers[s] = [does |-> "handling", msg |-> sess[s].msg]
    BY <1>1, <2>1, Working
  <2>3. WorkOf(Holding("ack", sess[s].msg)) = [does |-> "handled", msg |-> sess[s].msg]
    BY DEF WorkOf, Holding, Txn
  <2>4. Handlers[s].does = "handling" /\ Handlers[s].msg = sess[s].msg
    BY <2>2
  <2>5. Handlers' = [Handlers EXCEPT ![s] = [does |-> "handled", msg |-> sess[s].msg]]
    BY <2>1, <2>3, HandlerBecomes
  <2>6. Handlers' = [Handlers EXCEPT ![s] = [does |-> "handled", msg |-> Handlers[s].msg]]
    BY <2>4, <2>5, Zenon
  <2>7. QED
    BY <2>1, <2>4, <2>6, QueueActions
<1>15. ASSUME NEW s \in Sessions, Acknowledge(s)
       PROVE  Queue!Delete(s)
  <2>1. /\ sess[s].pc = "ack" /\ jobs' = jobs \ {sess[s].msg}
        /\ Set(s, Idle) /\ UNCHANGED <<received, dead>>
    BY <1>15 DEF Acknowledge
  <2>2. Handlers[s].does = "handled" /\ Handlers[s].msg = sess[s].msg
    <3>1. Handlers[s] = [does |-> "handled", msg |-> sess[s].msg]
      BY <1>1, <2>1, Working
    <3>2. QED
      BY <3>1
  <2>3. Handlers' = [Handlers EXCEPT ![s] = [does |-> "waiting"]]
    BY <1>2, <2>1, HandlerBecomes
  <2>4. QED
    BY <2>1, <2>2, <2>3, QueueActions
<1>16. ASSUME NEW s \in Sessions, Abort(s)
       PROVE  Queue!Raise(s) \/ UNCHANGED QueueVars
  <2>1. Set(s, Idle) /\ UNCHANGED <<jobs, received, dead>>
    BY <1>16 DEF Abort, queue
  <2>2. Handlers' = [Handlers EXCEPT ![s] = [does |-> "waiting"]]
    BY <1>2, <2>1, HandlerBecomes
  <2>3. CASE sess[s].pc \in WithMessage
    <3>1. \/ Handlers[s] = [does |-> "handling", msg |-> sess[s].msg]
          \/ Handlers[s] = [does |-> "handled", msg |-> sess[s].msg]
      BY <1>1, <2>3, Working DEF WithMessage
    <3>2. Handlers[s].does \in {"handling", "handled"}
      BY <3>1
    <3>3. QED
      BY <2>1, <2>2, <3>2, QueueActions
  <2>4. CASE sess[s].pc \notin WithMessage
    <3>1. Handlers[s] = [does |-> "waiting"]
      BY <1>1, <2>4 DEF WorkOf, WithMessage
    <3>2. Handlers' = Handlers
      BY <2>2, <3>1 DEF Handlers
    <3>3. QED
      BY <2>1, <3>2 DEF QueueVars
  <2>5. QED
    BY <2>3, <2>4
<1>17. CASE \E i \in JobIds : DeadLetter(i)
  BY <1>4, <1>8, <1>17
<1>18. ASSUME NEW s \in Sessions,
              Request(s) \/ Work(s) \/ Proceed(s) \/ Abort(s) \/ CrashBeforePublish(s)
       PROVE  [Queue!Next]_Queue!vars
  <2>1. CASE Work(s)
    BY <1>5, <1>11, <1>12, <2>1 DEF Work
  <2>2. CASE Publish(s) \/ PipelineCommit(s) \/ Acknowledge(s)
    BY <1>4, <1>5, <1>10, <1>14, <1>15, <2>2
  <2>3. CASE PipelineUnpack(s) \/ Abort(s)
    BY <1>3, <1>5, <1>13, <1>16, <2>3
  <2>4. QED
    BY <1>3, <1>9, <1>18, <2>1, <2>2, <2>3 DEF Proceed
<1>19. QED
  BY <1>6, <1>7, <1>17, <1>18 DEF Next, Admin

\* The ingestion queue keeps queue.py's promise, for any number of sessions and
\* messages: a message leaves only after the pipeline that received it committed or
\* had nothing to do, or after maxReceiveCount deliveries, and never comes back.
THEOREM IngestionQueueIsImplemented == Spec => RefinesJobQueue
<1>1. Init => QueueInv
  BY TypeInit, StrandInit, FreshInit DEF QueueInv, Init, SessionOK, Idle, Txn
<1>2. QueueInv /\ [Next]_vars => QueueInv'
  BY TypeStep, SessionStep, NumberingStep, ResolvableStep, FreshStep DEF QueueInv, StrandInv
<1>3. QueueInv /\ [Next]_vars => [Queue!Next]_Queue!vars
  BY QueueStep DEF QueueInv
<1>4. Init => Queue!Init
  BY QueueInit
<1>5. QED
  BY <1>1, <1>2, <1>3, <1>4, PTL DEF Spec, RefinesJobQueue, Queue!Spec
=============================================================================
