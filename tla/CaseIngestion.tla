---------------------------- MODULE CaseIngestion ----------------------------
(***************************************************************************)
(* One case from its first upload to the start of Phase 1: the case        *)
(* handlers of the API (app/services/cases.py, app/api/routers/cases.py),  *)
(* the ingestion queue and the ingestion worker (app/worker/pipeline.py).  *)
(*                                                                         *)
(* Every handler and every pipeline run is one database transaction of a   *)
(* session.  It reads the case row (READ COMMITTED, no lock), decides, and *)
(* commits later; SQLAlchemy then writes only the columns whose value      *)
(* differs from the value read.  So a transaction is a Begin action, which *)
(* remembers what was read in sess[s], and a Commit action, which writes   *)
(* blindly from that memory.  With one session transactions do not         *)
(* overlap; with two or more they race exactly as the code's do.           *)
(*                                                                         *)
(* S3 is not transactional: its effects happen at once and stay when the   *)
(* transaction is rolled back.                                             *)
(***************************************************************************)
EXTENDS CaseStages, Naturals, FiniteSets

CONSTANTS Sessions,     \* database sessions: API requests and workers
          Docs,         \* the documents the checklist requires
          ZipChoices,   \* what a client's ZIP may contain: sets of Docs
          MaxVersion,   \* bound: re-uploads of the case
          MaxUploads,   \* bound: S3 PUTs of original.zip
          MaxJobs,      \* bound: messages ever published
          MaxReceive    \* maxReceiveCount of the queue's redrive policy

ASSUME BoundsAssumption ==
    /\ MaxVersion \in Nat /\ MaxUploads \in Nat
    /\ MaxJobs \in Nat /\ MaxReceive \in Nat
ASSUME ZipAssumption == ZipChoices \subseteq SUBSET Docs

JobIds == 1..MaxJobs
Gens == 0..MaxUploads   \* a ZIP's upload generation; 0 stands for none

VARIABLES
    stage, deleted,      \* cases.current_stage, cases.is_deleted
    version,             \* cases.reupload_count
    window,              \* cases.reupload_allowed_until is set (its 24 hours are
                         \* not timed: a window may simply never be used)
    finalized,           \* cases.finalized_at is not NULL
    zip,                 \* the S3 object at cases.zip_s3_key: [gen, docs]
    uploads,             \* client PUTs so far
    origZip,             \* the ORIGINAL_ZIP artifact row exists
    arts,                \* per document: generation its artifact and extraction
                         \* rows come from, 0 when there is no row
    extra,               \* documents sent through POST /artifacts
    check,               \* the checklist_validation_results row
    jobs,                \* ids of the ingestion messages still in the queue
    reingests,           \* those published with trigger = "reingest"
    received,            \* ReceiveCount of each message
    published,           \* messages published (or reserved to be) so far
    dead,                \* some message went to the dead-letter queue
    crashed,             \* some process died between commit and publish
    sess                 \* the transaction each session is in

caseRow == <<stage, deleted, version, window, finalized>>
s3      == <<zip, uploads>>
rows    == <<origZip, arts, extra, check>>
queue   == <<jobs, reingests, received, published, dead, crashed>>
vars    == <<stage, deleted, version, window, finalized, zip, uploads,
             origZip, arts, extra, check, jobs, reingests, received, published,
             dead, crashed, sess>>

\* What a session remembers of its transaction.
\*   seen   stage of the case row it read        ver, fin  version, finalized read
\*   docs   documents it will write (see each action)
\*   new    documents whose artifact rows it has inserted, not yet committed
\*   upd    documents whose extraction it rewrites, gen: from which ZIP
\*   msg    the message it handles, or will publish
Txn(pc, seen, docs, upd, msg) ==
    [pc |-> pc, seen |-> seen, ver |-> 0, fin |-> FALSE,
     docs |-> docs, new |-> {}, upd |-> upd, gen |-> 0, msg |-> msg]
Idle == Txn("idle", "UPLOADED", {}, {}, 0)
Holding(pc, i) == Txn(pc, "UPLOADED", {}, {}, i)   \* only a message to see to

NoZip == [gen |-> 0, docs |-> {}]
DocsOf(a) == {d \in Docs : a[d] # 0}

Init ==
    \* the state POST /cases/initiate leaves for a new loan
    /\ stage = "UPLOADED" /\ deleted = FALSE /\ version = 0
    /\ window = FALSE /\ finalized = FALSE
    /\ zip = NoZip /\ uploads = 0
    /\ origZip = FALSE /\ arts = [d \in Docs |-> 0] /\ extra = {}
    /\ check = [row |-> FALSE, missing |-> {}, waived |-> {}]
    /\ jobs = {} /\ reingests = {} /\ received = [i \in JobIds |-> 0]
    /\ published = 0 /\ dead = FALSE /\ crashed = FALSE
    /\ sess = [s \in Sessions |-> Idle]

Set(s, r) == sess' = [sess EXCEPT ![s] = r]
Busy(s, pc) == sess[s].pc = pc
Free(s) == sess[s].pc = "idle"

\* The case row is UPDATEd, so locked until commit, by a pipeline that moved
\* the stage in memory and then flushed its first new artifact.
HoldsCaseLock(s) ==
    Busy(s, "unpacked") /\ sess[s].new # {} /\ sess[s].seen # "CHECKLIST_VALIDATION"
CaseUnlocked(s) == \A t \in Sessions \ {s} : ~HoldsCaseLock(t)

\* UPDATE cases SET current_stage: issued only when the value changed.
WriteStage(seen, to) == stage' = IF seen # to THEN to ELSE stage

(***************************************************************************)
(* The client and S3                                                       *)
(***************************************************************************)
\* A presigned URL is out from the start (initiate returns it); its 15 minutes
\* are not timed, so a PUT may come at any moment or never.
Upload(z) ==
    /\ uploads < MaxUploads
    /\ uploads' = uploads + 1
    /\ zip' = [gen |-> uploads + 1, docs |-> z]
    /\ UNCHANGED <<caseRow, rows, queue, sess>>

(***************************************************************************)
(* POST /cases/{id}/finalize: commit, then publish                         *)
(***************************************************************************)
FinalizeBegin(s) ==
    /\ Free(s) /\ ~deleted
    /\ stage = "UPLOADED" /\ zip # NoZip
    /\ Set(s, Txn("finalize", stage, {}, {}, 0))
    /\ UNCHANGED <<caseRow, s3, rows, queue>>

\* case_artifacts.s3_key is unique: a second ORIGINAL_ZIP row is refused, and
\* the transaction can only abort.
FinalizeCommit(s) ==
    /\ Busy(s, "finalize") /\ CaseUnlocked(s)
    /\ ~origZip /\ published < MaxJobs
    /\ origZip' = TRUE /\ finalized' = TRUE
    /\ WriteStage("UPLOADED", "CHECKLIST_VALIDATION")
    /\ published' = published + 1
    /\ Set(s, Holding("publish", published + 1))
    /\ UNCHANGED <<deleted, version, window, s3, arts, extra, check, jobs,
                   reingests, received, dead, crashed>>

\* queue.publish_job after session.commit
Publish(s) ==
    /\ Busy(s, "publish")
    /\ jobs' = jobs \cup {sess[s].msg}
    /\ Set(s, Idle)
    /\ UNCHANGED <<caseRow, s3, rows, reingests, received, published, dead, crashed>>

\* The process dies, or SQS refuses, after the commit.
CrashBeforePublish(s) ==
    /\ Busy(s, "publish")
    /\ crashed' = TRUE
    /\ Set(s, Idle)
    /\ UNCHANGED <<caseRow, s3, rows, jobs, reingests, received, published, dead>>

(***************************************************************************)
(* POST /cases/{id}/artifacts: a file holding document d                   *)
(***************************************************************************)
AddBegin(s, d) ==
    /\ Free(s) /\ ~deleted
    /\ Set(s, Txn("add", stage, {d}, {}, 0))
    /\ UNCHANGED <<caseRow, s3, rows, queue>>

AddCommit(s) ==
    /\ Busy(s, "add") /\ sess[s].seen # "CHECKLIST_MISSING_DOCS"
    /\ extra' = extra \cup sess[s].docs
    /\ Set(s, Idle)
    /\ UNCHANGED <<caseRow, s3, origZip, arts, check, queue>>

AddCommitRevalidate(s) ==
    /\ Busy(s, "add") /\ sess[s].seen = "CHECKLIST_MISSING_DOCS"
    /\ CaseUnlocked(s) /\ published < MaxJobs
    /\ extra' = extra \cup sess[s].docs
    /\ WriteStage(sess[s].seen, "CHECKLIST_VALIDATION")
    /\ published' = published + 1
    /\ Set(s, Holding("publish", published + 1))
    /\ UNCHANGED <<deleted, version, window, finalized, s3, origZip, arts, check,
                   jobs, reingests, received, dead, crashed>>

(***************************************************************************)
(* POST /cases/{id}/checklist/waive                                        *)
(***************************************************************************)
WaiveBegin(s, d) ==
    /\ Free(s) /\ ~deleted
    /\ check.row /\ d \in check.missing
    /\ Set(s, Txn("waive", stage, check.missing \ {d}, check.waived \cup {d}, 0))
    /\ UNCHANGED <<caseRow, s3, rows, queue>>

\* Seeded fault: the waiver is not stamped into present_docs.
UnstampedRow(s) == [row |-> TRUE, missing |-> sess[s].docs, waived |-> check.waived]
WaivedRow(s) == [row |-> TRUE, missing |-> sess[s].docs, waived |-> sess[s].upd]

\* Seeded fault: the last waiver does not walk the stage.
NeverCompletes(s) == FALSE
Completes(s) == sess[s].docs = {} /\ sess[s].seen = "CHECKLIST_MISSING_DOCS"

WaiveCommit(s) ==
    /\ Busy(s, "waive")
    /\ Completes(s) => CaseUnlocked(s)
    /\ check' = WaivedRow(s)
    /\ stage' = IF Completes(s) THEN "INGESTED" ELSE stage
    /\ Set(s, Idle)
    /\ UNCHANGED <<deleted, version, window, finalized, s3, origZip, arts, extra, queue>>

(***************************************************************************)
(* POST /cases/{id}/reingest publishes and writes nothing to the case.  A  *)
(* message published late and one received late are the same to a worker,  *)
(* so its read and its publish are one action.                             *)
(***************************************************************************)
Reingest ==
    /\ ~deleted /\ published < MaxJobs
    /\ stage \in {"INGESTED", "CHECKLIST_MISSING_DOCS", "CHECKLIST_VALIDATED"}
    /\ published' = published + 1
    /\ jobs' = jobs \cup {published + 1}
    /\ reingests' = reingests \cup {published + 1}
    /\ UNCHANGED <<caseRow, s3, rows, received, dead, crashed, sess>>

(***************************************************************************)
(* Re-upload: approve_reupload opens the window, initiate uses it          *)
(***************************************************************************)
ApproveReupload ==
    /\ ~deleted /\ window' = TRUE
    /\ UNCHANGED <<stage, deleted, version, finalized, s3, rows, queue, sess>>

\* _archive_existing_state copies the ZIP aside and deletes it at once.
ReuploadBegin(s) ==
    /\ Free(s) /\ ~deleted /\ window /\ version < MaxVersion
    /\ zip' = NoZip
    /\ Set(s, [pc |-> "reupload", seen |-> stage, ver |-> version, fin |-> finalized,
               docs |-> {}, new |-> {}, upd |-> {}, gen |-> 0, msg |-> 0])
    /\ UNCHANGED <<caseRow, uploads, rows, queue>>

\* Seeded fault: a re-upload keeps finalized_at.
FinalizedKept(s) == finalized
FinalizedAfter(s) == IF sess[s].fin THEN FALSE ELSE finalized

\* It reads the ORIGINAL_ZIP row only now.  The archive JSON's s3_key carries
\* the version, so two re-uploads of one version cannot both commit.
ReuploadCommit(s) ==
    /\ Busy(s, "reupload") /\ CaseUnlocked(s)
    /\ version = sess[s].ver
    /\ origZip' = FALSE
    /\ version' = sess[s].ver + 1
    /\ window' = FALSE
    /\ finalized' = FinalizedAfter(s)
    /\ WriteStage(sess[s].seen, "UPLOADED")
    /\ Set(s, Idle)
    /\ UNCHANGED <<deleted, zip, uploads, arts, extra, check, queue>>

(***************************************************************************)
(* Deletion and the start of Phase 1, as far as ingestion sees them        *)
(***************************************************************************)
SoftDelete ==
    /\ ~deleted /\ deleted' = TRUE
    /\ UNCHANGED <<stage, version, window, finalized, s3, rows, queue, sess>>

\* POST /cases/{id}/phase1, its decision rows left to module Phase1Decisioning.
\* (Before it, a seeded fault: the stage is not checked.)
Phase1AnyStage(s) ==
    /\ Free(s) /\ ~deleted
    /\ Set(s, Txn("phase1", stage, {}, {}, 0))
    /\ UNCHANGED <<caseRow, s3, rows, queue>>
Phase1Begin(s) ==
    /\ Free(s) /\ ~deleted /\ stage = "INGESTED"
    /\ Set(s, Txn("phase1", stage, {}, {}, 0))
    /\ UNCHANGED <<caseRow, s3, rows, queue>>

Phase1Commit(s) ==
    /\ Busy(s, "phase1") /\ CaseUnlocked(s)
    /\ WriteStage(sess[s].seen, "PHASE_1_DECISIONING")
    /\ Set(s, Idle)
    /\ UNCHANGED <<deleted, version, window, finalized, s3, rows, queue>>

(***************************************************************************)
(* The worker: process_ingestion_job                                       *)
(***************************************************************************)
\* Seeded fault: the pipeline skips a case that finalize has just moved.
OnlyReingestable == {"INGESTED", "CHECKLIST_VALIDATED", "CHECKLIST_MISSING_DOCS", "UPLOADED"}
\* _preflight_stage
Ingestable == {"CHECKLIST_VALIDATION", "INGESTED", "CHECKLIST_VALIDATED",
               "CHECKLIST_MISSING_DOCS", "UPLOADED"}

\* Seeded fault: one delivery too many.
ReceiveOnceMore(i) ==
    /\ i \in jobs /\ received[i] <= MaxReceive
    /\ received' = [received EXCEPT ![i] = @ + 1]
\* SQS delivers a message again whenever its visibility timeout runs out, also
\* while a session still handles it.
Receive(i) ==
    /\ i \in jobs /\ received[i] < MaxReceive
    /\ received' = [received EXCEPT ![i] = @ + 1]

PipelineLoad(s, i) ==
    /\ Free(s) /\ Receive(i)
    /\ ~deleted /\ stage \in Ingestable
    /\ Set(s, Txn("loaded", stage, {}, {}, i))
    /\ UNCHANGED <<caseRow, s3, rows, jobs, reingests, published, dead, crashed>>

\* The pipeline returns normally, so consume_jobs deletes the message.
PipelineSkip(s, i) ==
    /\ Free(s) /\ Receive(i)
    /\ deleted \/ stage \notin Ingestable
    /\ jobs' = jobs \ {i}
    /\ UNCHANGED <<caseRow, s3, rows, reingests, published, dead, crashed, sess>>

\* Download and unpack; insert a row per file whose key has none; read back all
\* artifact rows.  Files sent through POST /artifacts have no subtype, so the
\* checklist never sees them.  An insert waits for another session's
\* uncommitted insert of the same key.
PipelineUnpack(s) ==
    LET new == zip.docs \ DocsOf(arts)
    IN /\ Busy(s, "loaded") /\ zip # NoZip
       /\ \A t \in Sessions \ {s} :
             Busy(t, "unpacked") => sess[t].new \cap new = {}
       /\ (new # {} /\ sess[s].seen # "CHECKLIST_VALIDATION") => CaseUnlocked(s)
       /\ Set(s, [pc |-> "unpacked", seen |-> sess[s].seen, ver |-> 0, fin |-> FALSE,
                  docs |-> zip.docs \cup DocsOf(arts), new |-> new,
                  upd  |-> IF sess[s].msg \in reingests THEN zip.docs ELSE new,
                  gen  |-> zip.gen, msg |-> sess[s].msg])
       /\ UNCHANGED <<caseRow, s3, rows, queue>>

\* Seeded fault: one missing document is let pass.
LenientFinalStage(missing) ==
    IF Cardinality(missing) <= 1 THEN "INGESTED" ELSE "CHECKLIST_MISSING_DOCS"
\* _transition_final_stage
FinalStage(missing) ==
    IF missing = {} THEN "INGESTED" ELSE "CHECKLIST_MISSING_DOCS"

\* _run_extractors upserts the extraction rows of the documents it was given.
Extracted(s) ==
    [d \in Docs |-> IF d \in sess[s].upd THEN sess[s].gen ELSE arts[d]]

\* The checklist row is upserted, any waiver in it replaced.  Without a flush
\* in between, leaving the stage where it was read writes nothing.
PipelineCommit(s) ==
    LET missing == Docs \ sess[s].docs
        final   == FinalStage(missing)
        writes  == final # sess[s].seen \/ HoldsCaseLock(s)
    IN /\ Busy(s, "unpacked")
       /\ writes => CaseUnlocked(s)
       /\ arts' = Extracted(s)
       /\ check' = [row |-> TRUE, missing |-> missing, waived |-> {}]
       /\ stage' = IF writes THEN final ELSE stage
       /\ Set(s, Holding("ack", sess[s].msg))
       /\ UNCHANGED <<deleted, version, window, finalized, s3, origZip, extra, queue>>

\* delete_message, after the commit
Acknowledge(s) ==
    /\ Busy(s, "ack")
    /\ jobs' = jobs \ {sess[s].msg}
    /\ Set(s, Idle)
    /\ UNCHANGED <<caseRow, s3, rows, reingests, received, published, dead, crashed>>

\* Seeded fault: the message of a failed handler is deleted all the same.
AbortAcknowledges(s) ==
    /\ sess[s].pc \notin {"idle", "publish"}
    /\ jobs' = jobs \ {sess[s].msg}
    /\ Set(s, Idle)
    /\ UNCHANGED <<caseRow, s3, rows, reingests, received, published, dead, crashed>>
\* An exception or a crash: the database rolls back, the message stays.
Abort(s) ==
    /\ sess[s].pc \notin {"idle", "publish"}
    /\ Set(s, Idle)
    /\ UNCHANGED <<caseRow, s3, rows, queue>>

DeadLetter(i) ==
    /\ i \in jobs /\ received[i] = MaxReceive
    /\ jobs' = jobs \ {i} /\ dead' = TRUE
    /\ UNCHANGED <<caseRow, s3, rows, reingests, received, published, crashed, sess>>

-----------------------------------------------------------------------------
Client == \E z \in ZipChoices : Upload(z)

Work(s) == \E i \in JobIds : PipelineLoad(s, i) \/ PipelineSkip(s, i)

\* The steps that end what a session has begun.
Proceed(s) ==
    \/ FinalizeCommit(s) \/ Publish(s) \/ AddCommit(s) \/ AddCommitRevalidate(s)
    \/ WaiveCommit(s) \/ ReuploadCommit(s) \/ Phase1Commit(s)
    \/ PipelineUnpack(s) \/ PipelineCommit(s) \/ Acknowledge(s)

Request(s) ==
    \/ FinalizeBegin(s) \/ ReuploadBegin(s) \/ Phase1Begin(s)
    \/ \E d \in Docs : AddBegin(s, d) \/ WaiveBegin(s, d)

Admin == Reingest \/ ApproveReupload \/ SoftDelete

Next ==
    \/ Client \/ Admin
    \/ \E s \in Sessions : \/ Request(s) \/ Work(s) \/ Proceed(s)
                           \/ Abort(s) \/ CrashBeforePublish(s)
    \/ \E i \in JobIds : DeadLetter(i)

Spec == Init /\ [][Next]_vars

\* The worker polls for ever, a transaction ends (it commits or it fails), and
\* SQS moves a message it has delivered maxReceiveCount times.
Fairness ==
    /\ \A s \in Sessions : /\ SF_vars(Work(s))
                           /\ WF_vars(Proceed(s) \/ Abort(s))
    /\ \A i \in JobIds : WF_vars(DeadLetter(i))

FairSpec == Spec /\ Fairness

-----------------------------------------------------------------------------
\* Type invariant: rows, queue and what each session remembers.
Session == [pc : {"idle", "finalize", "publish", "add", "waive", "reupload",
                  "phase1", "loaded", "unpacked", "ack"},
            seen : Stages, ver : 0..MaxVersion, fin : BOOLEAN,
            docs : SUBSET Docs, new : SUBSET Docs, upd : SUBSET Docs,
            gen : Gens, msg : 0..MaxJobs]

TypeOK ==
    /\ stage \in Stages /\ deleted \in BOOLEAN /\ version \in 0..MaxVersion
    /\ window \in BOOLEAN /\ finalized \in BOOLEAN
    /\ zip \in [gen : Gens, docs : SUBSET Docs]
    /\ uploads \in Gens
    /\ origZip \in BOOLEAN /\ arts \in [Docs -> Gens] /\ extra \subseteq Docs
    /\ check \in [row : BOOLEAN, missing : SUBSET Docs, waived : SUBSET Docs]
    /\ jobs \subseteq JobIds /\ reingests \subseteq JobIds
    /\ received \in [JobIds -> 0..MaxReceive] /\ published \in 0..MaxJobs
    /\ dead \in BOOLEAN /\ crashed \in BOOLEAN
    /\ sess \in [Sessions -> Session]

\* A live case in CHECKLIST_VALIDATION is never forgotten: as long as no process died
\* between a commit and its publish and no message was dead-lettered, a message
\* for it is in the queue or about to be published - however finalize,
\* add_artifact, re-uploads, redeliveries and failed pipeline runs interleave.
\* (finalize and add_artifact publish after their commit; consume_jobs deletes a
\* message only after the pipeline's commit.)
NoStrandedValidation ==
    stage = "CHECKLIST_VALIDATION" =>
        \/ crashed \/ dead \/ deleted \/ jobs # {}
        \/ \E s \in Sessions : Busy(s, "publish")

\* What the checklist row reports as not missing has an artifact row or a waiver
\* in the same row, even when waivers and pipeline runs overwrite each other.
\* (waive_missing_doc rewrites a row it read earlier; the pipeline upserts it.)
PresentDocsBacked ==
    check.row => Docs \ check.missing \subseteq DocsOf(arts) \cup check.waived

\* Transactions that do not overlap: a case that is ingested, or further, has a
\* complete checklist on file.  (The pipeline's final stage, the waiver's walk
\* to INGESTED, and the stage guard of POST /phase1.)
IngestedComplete ==
    stage \in {"INGESTED", "PHASE_1_DECISIONING"} => check.row /\ check.missing = {}

\* Transactions that do not overlap: a case parked in CHECKLIST_MISSING_DOCS says
\* which document is missing, so a waiver or an upload can release it.
MissingDocsExplained ==
    stage = "CHECKLIST_MISSING_DOCS" => check.row /\ check.missing # {}

\* Transactions that do not overlap: cases.finalized_at and the ORIGINAL_ZIP row
\* come and go together (finalize writes both, a re-upload takes back both).
FinalizedHasZipRow == finalized <=> origZip

\* Transactions that do not overlap: the committed stage moves as stages.py
\* permits, and back to UPLOADED only with a new version of the case.
SM == INSTANCE StageMachine WITH stage <- stage, version <- version
RefinesStageMachine == SM!Spec

\* The ingestion queue is the queue of services/queue.py: a message is deleted only
\* once a pipeline that received it committed or had nothing to do, or is moved after
\* maxReceiveCount deliveries; none is lost to a handler that fails, and none is
\* published twice - whatever deliveries, requests and failures overlap.
WorkOf(t) ==
    IF t.pc \in {"loaded", "unpacked"} THEN [does |-> "handling", msg |-> t.msg]
    ELSE IF t.pc = "ack" THEN [does |-> "handled", msg |-> t.msg]
    ELSE [does |-> "waiting"]
Queue == INSTANCE JobQueue WITH
    Messages <- JobIds, Handlers <- Sessions, queued <- jobs,
    handler <- [s \in Sessions |-> WorkOf(sess[s])]
RefinesJobQueue == Queue!Spec

\* Under fairness a case leaves CHECKLIST_VALIDATION: its message is handled, or
\* dead-lettered after maxReceiveCount deliveries, unless the message was never
\* published or the case is deleted.
ValidationResolves ==
    stage = "CHECKLIST_VALIDATION" ~>
        (stage # "CHECKLIST_VALIDATION" \/ deleted \/ crashed \/ dead)

\* The M3 design's self-serve path: a required document uploaded through
\* POST /artifacts is no longer missing after validation re-ran.
UploadedDocCounts ==
    stage = "CHECKLIST_MISSING_DOCS" => check.missing \cap extra = {}
=============================================================================
