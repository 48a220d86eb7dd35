# A verification development of the PFL credit back end

TLA+ models, TLC runs and TLAPS proofs about the loan-case back end in
`src/backend/app`, and about the browser's auto-run driver in `src/frontend`: the
workflow of a case from its first upload to the end of Phase 1 decisioning, the
rules of the seven verification levels that run before it, and the registers
around it (loan numbers, customer lists, prices, CAM disagreements).

## 1. The system

A FastAPI application over Postgres (SQLAlchemy, async), two SQS queues, S3 and an
LLM; two worker processes; a Next.js client. A *case* is a row of `cases` whose
`current_stage` moves along a table of permitted transitions.

| Component | State it keeps | Operations | Correct when |
|---|---|---|---|
| Stage machine (`services/stages.py`) | `cases.current_stage` | `transition_stage` | every committed stage change is a permitted chain; only a re-upload goes back to the start |
| Case handlers (`services/cases.py`, `api/routers/cases.py`) | case row, artifact rows, checklist row | initiate, re-upload, finalize, add artifact, waive, re-ingest, deletion, start and cancel of Phase 1 | stage, checklist and artifacts agree; no case is stuck |
| Ingestion worker (`worker/pipeline.py`) | artifact, extraction, checklist, dedupe rows | one pipeline run per message | idempotent under redelivery; a validation always ends |
| Job queues (`services/queue.py`) | messages, receive counts, DLQ | publish, consume, delete, redrive | every message is handled or dead-lettered |
| Phase 1 engine (`decisioning/engine.py`, `worker_decisioning`) | `decision_results`, `decision_steps` | run, resume, skip, fail, synthesise | a decision rests on its steps; no step is paid for twice; decisioning ends |
| Verification (`verification/`, `api/routers/verification.py`) | `verification_results`, `level_issues` | trigger level, resolve, MD decision, carry-forward | an overridden level has no rejected issue; decisions are not lost |
| Level rules (`verification/levels/*`, `services/scoring_model.py`) | none; they read extractions, photos, earlier results | judge a file, explain what passed | worse evidence never turns a block into a pass; what is shown as passed was judged |
| Evidence of a level (`level_1_address.py`, `level_1_5_credit.py`) | the cached commute, the scanned agreement, the choice among bureau reports | reuse, re-scan, choose | asking again does not clear a finding; no party's record goes unread |
| CAM discrepancies (`services/cam_discrepancy.py`) | resolutions, edit requests | resolve, decide | Phase 1 is blocked while a critical flag is unresolved |
| Loan numbers (`services/cases.py`) | the cases of a number, deletion requests, re-upload windows and archives | initiate, re-upload, two-person deletion | an approval replaces the ZIP once, and what it replaced is archived |
| Dedupe snapshots (`routers/dedupe_snapshots.py`) | snapshots and their active flag | upload, screen | no case is screened against a list that was replaced; uploads never leave none |
| MRP catalogue (`services/mrp_catalogue.py`) | one row per item | AI estimate, create, edit, delete | the label tells who set the price |
| Rule and area overrides | single rows | switch a rule off and on | an override removes its issue and nothing else |
| Auth (`services/auth.py`), users | users, cookies | login, refresh, MFA | a deactivated user gets no token |
| Client (`AutoRunProvider.tsx`, the proxy) | localStorage, in-flight sets | drive all levels and Phase 1; refresh tokens | each step is fired once per run; no run is stuck |

**Interaction.** Handlers and workers share the database rows, and meet in the
queues: finalize, add-artifact and re-ingest publish ingestion jobs; the start of
Phase 1 publishes decisioning jobs. `PROJECT.json` lists every component, also
those not modelled, with the reason.

**What is hard.** Every handler and every job is one READ COMMITTED transaction
that reads without locks, decides, and commits later; the ORM writes only the
columns whose value changed and there are no version columns, so a stale
transaction overwrites part of a newer one. SQS delivers at least once, again
after 60 s whether or not the first delivery is still at work, and counts
deliveries, not failures. Publishing is not atomic with the commit, in either
order. S3 effects survive a rollback. `PROJECT.json` lists each hazard at its line.

## 2. Modules

| Module | Models |
|---|---|
| `CaseStages` | stages, transition table, what one commit may do to the stage |
| `StageMachine` | abstract specification: the promise about the committed stage |
| `JobQueue` | abstract specification: what a queue promises the code on either side of it |
| `CaseIngestion` | the case handlers, the ingestion queue, the ingestion worker |
| `Phase1Decisioning` | start and cancel of Phase 1, the decisioning queue, worker, engine |
| `VerificationGate` | one verification level of a case: its runs, their issues, resolutions, MD decisions, the MD's queue |
| `LevelRules` | what every level does with the issues its rules fire: overrides, verdict |
| `AddressRules`, `CreditRules`, `BankingRules`, `VisionRules`, `DocumentRules` | the rules of levels 1, 1.5, 2, 3, and 4 with 5.5 |
| `ScoringRules` | level 5: the 32 rows, their sections, the issues of a score |
| `PassEvidence` | what a run shows of the rules that left no issue |
| `DecisionRules` | Phase 1: the hard gates and what the synthesis makes of the model's answer |
| `AutocamRules`, `ChecklistRules` | the comparison of the two CAM sheets; the checklist and the completeness gate |
| `LevelRuns` | runs of the levels on a file whose evidence and overrides change |
| `CreditReports` | which bureau report stands for whom, in levels 1.5 and 5 |
| `AddressLevel` | what level 1 keeps between runs: photos, the cached commute, approvals |
| `AgreementScans` | what level 1 learns from the agreement, its cache and failing scans |
| `DedupeSnapshots` | the customer lists cases are screened against |
| `MrpCatalogue` | one item of the price catalogue |
| `CamGate` | CAM disagreements, resolutions, edit requests, the gate of Phase 1 |
| `LoanRegister` | the cases of one loan number, their re-uploads and their deletion |
| `AutoRunClient` | the browser's driver: tabs, runners, localStorage |
| `CaseIngestionProofs`, `Phase1Proofs`, `VerificationProofs`, `DedupeProofs`, `MrpProofs`, `ClientProofs` | theorems of the modules they are named after |
| `LevelProofs` | theorems of `LevelRuns`, and the lemmas about the rules of every level they rest on |
| `BackOfficeProofs` | theorems of the composition: those of the last four lifted to it; those of the CAM gate, the register, the bureau reports, the commute and the agreement |
| `MCIngestionSerial`, `MCIngestionRaces`, `MCPhase1`, `MCVerification`, `MCBackOffice` | instances for TLC |

The first three machines meet in the case row and the queues, so each of them has
the others' transactions as actions of their own (`Reupload`, `Ingested`, `Verify`
in `Phase1Decisioning`). `CaseIngestion` implements `StageMachine`:
`SM == INSTANCE StageMachine WITH stage <- stage, version <- version`, checked as the
property `RefinesStageMachine`. `CaseIngestion` and `Phase1Decisioning` each implement
`JobQueue` with the messages of their queue and their sessions as its handlers
(`RefinesJobQueue`): a session with a message it has yet to commit is "handling", one
about to delete it has "handled" it, one without is "waiting". The rule modules have no state; `LevelRuns` is the
machine that runs them. The registers share no row with one another, so
`MCBackOffice` checks them side by side: one behaviour is a behaviour of one part,
and the variables of the others are parked. What the parts are about (people, places,
prices, fields, levels) are its constants, with the assumptions the proofs need;
`back_office.cfg` gives them values.

### Transactions

The models share one idea. `sess[s]` is the transaction session `s` is in. A
`...Begin` action checks the handler's guards against the committed rows and
records what it read; a `...Commit` action writes from that memory, blindly, as
the ORM does. With one session transactions do not overlap; with more of them they
race. `WriteStage(seen, to)` is the ORM's rule that an unchanged column is not
written. `Abort` is an exception or a crash inside a transaction: the rows are as
before, a message being handled stays in the queue. Row locks appear where the
code holds one across other work: a pipeline whose flush has UPDATEd the case row
(`HoldsCaseLock`), a run whose row carries an uncommitted RUNNING, and a
verification run whose issue the MD is deciding (`Locked`, in each module).

### CaseIngestion

| State | Code |
|---|---|
| `stage deleted version window finalized` | `cases.current_stage`, `is_deleted`, `reupload_count`, `reupload_allowed_until`, `finalized_at` |
| `zip uploads` | the S3 object at `zip_s3_key`, a record of its upload and the required documents in it |
| `origZip arts extra check` | ORIGINAL_ZIP row; per document the upload its rows come from; hand-uploaded artifacts; `checklist_validation_results` |
| `jobs reingests received published dead` | the queue; `dead` once something is in the DLQ |
| `crashed` | history: some process died between its commit and its publish |

A pipeline run is `PipelineLoad` (load and preflight), `PipelineUnpack` (download,
artifact rows), `PipelineCommit` (extraction, checklist, final stage, commit) and
`Acknowledge`; `PipelineSkip` is a run that returns early. S3 copying and deletion
of a re-upload happen at `ReuploadBegin`, before its transaction commits.

Abstractions: a document is satisfied or not (counts and any-of groups of the
checklist are data); dedupe matches, mail and audit rows are left out; the
15-minute URL and the 24-hour window are untimed (each may go unused); two files
with one artifact key in the same ZIP do not occur; roles only restrict who may
call; the checklist's `is_complete` is computed from the missing documents.

### Phase1Decisioning

| State | Code |
|---|---|
| `stage` | `cases.current_stage` |
| `status decided` | `decision_results.status`, `final_decision` is set; run `r` is the `r`-th inserted, so "latest" is the greatest committed |
| `step` | `decision_steps.status` per run and step |
| `verified` | some `verification_results` row exists |
| `jobs received dead` | the decisioning queue |

`StartInsert`, `StartPublish`, `StartCommit` keep the code's order: publish, then
commit. `CancelBegin` and `CancelRead` are its two reads. `RunLock` is the first
flush, after which the engine has the row lock and reads everything else; each
step is one action (`StepKept` resume, `StepSkipped` redundant, `StepRuns`,
`GateFails` hard fail, `StepRaises`), and `RunCommit` makes all of it visible.
The other components appear as whole transactions: `Reupload`, `Ingested`,
`Verify`. A deleted case, the CAM gate and roles only keep requests from being
made, and a request may always not be made. Costs and the payload of a decision
are left out.

### VerificationGate

| State | Code |
|---|---|
| `status` | `verification_results.status` of the level's runs; "NONE" until the commit |
| `issue` | `level_issues.status` per run and sub-step; "NONE" where the run fired none |
| `inserted` | runs inserted so far; a run's number stands for its `created_at` |
| `md_queue` (derived) | the undecided issues of the run with the newest `created_at` |

A level is run by `TriggerBegin` (the endpoint, with its guard) or `RerunBegin`
(the mass re-run of level 3, without one), then `RunFirst` or `RunCarries`, then
`RunCommit`. `RunCarries` is `carry_forward_prior_decisions` as a whole: choose the
latest other run that is visible, take over its statuses, recompute the verdict.
`ResolveBegin` and `ResolveCommit` hold no lock. A decision checks the issue
(`DecideBegin`), locks the parent run and reads its issues (`DecideLock`), and
writes both (`DecideCommit`). Sessions do not autoflush and unchanged columns are
not written, so a transaction sees and writes its own issue only if the status it
read was another one (`on`).

Abstractions: no transaction writes two levels, so one level of one case is
modelled; which sub-steps fire and which of those are critical is free, a sub-step
firing at most once per run; suppressed rules, rationales, notes and scores are
left out. The guard's five-minute window of freshness is left out: it limits a
guard that looks for RUNNING rows, and none is ever committed.

### The rules of the levels

A rule is an operator with the source's name that returns the severity of the issue
it fires, "ok" without one. Its argument is a record of what the code reads: the
answers of OCR, geocoders, bureaus, models and the LLM are input, as members of
small sets; thresholds, priorities, fallbacks, early returns and the order of
tests are kept. Names are a first name, its spelling and a surname; distances,
addresses and village matches are three-valued ("yes", "no", "unknown"). Wording,
evidence layout and the printed report are left out.

| Module | Its file |
|---|---|
| `AddressRules` | scans of Aadhaar, PAN, ration cards and bills, geocoded photos, commute, outside addresses |
| `CreditRules` | bureau reports, newest first: whose name, a hit or not, account statuses, score; the analyst's verdict |
| `BankingRules` | the statement's coverage and the analyser's numbers |
| `VisionRules` | how each photo scorer ended and its estimates |
| `DocumentRules` | the agreement's scan; dedupe, TVR, NACH and the post-dated cheque |
| `ScoringRules` | the `ScoringContext`; a row is earned points, fail, pending or not applicable |
| `PassEvidence` | the same files; a card is "passed" or "skipped" |
| `DecisionRules` | what the hard gates read, level verdicts, the model's recommendation |

`LevelRuns` gives every field of a file a *ladder* of values, the best first. A
state is a position on every ladder and the set of rules switched off; a step moves
one field (`Worsens`, `Improves`) or switches a rule that fired
(`upsert_rule_override`, `clear_rule_override`), and the level runs again. `Outcome`
is the level's verdict, or that of the CAM comparison, the two document checks and
Phase 1, which have no rules that can be switched off.
The ladder of the applicant's score (`BureauScores`) says where a score comes from, as row
8 of level 5 passes unlisted enquiries for a report that has one, the -1 of a newcomer
included, and leaves them pending for a score only the CAM has. A good score of the CAM
is therefore no rung: a newcomer's report below it would earn row 8.

### Evidence that changes between runs

| Module, state | Code |
|---|---|
| `CreditReports`: `rows coapp` | `case_extractions` of Equifax, newest first; `cases.co_applicant_name` |
| `AddressLevel`: `house business runs` | photos with the place they show; the completed runs with the commute they cached, their issues and approvals |
| `AgreementScans`: `onFile cache runs` | agreement PDFs; the `case_extractions` row per document kind; completed runs |

In `AddressLevel` any photo may fail to download or to be geocoded (`SomeHouse`,
`SomeBusiness`), and the distance service and the judge answer anything; the last
run neither overridden nor about other coordinates is replayed. The case has a
bill on file (without one the code stops with an error, see below). In
`AgreementScans` a scan, or its download, may fail at any run.

### The registers

| Module, state | Code |
|---|---|
| `DedupeSnapshots`: `rows active uploading screened` | `dedupe_snapshots` and `is_active`; per session the upload in progress; history of the cases screened, with the list compared, if any |
| `MrpCatalogue`: `row sess` | the item's `mrp_catalogue` row with its id; the row each session has read |
| `CamGate`: `flags resolution requests ingested started` | disagreements of the latest full CAM, `cam_discrepancy_resolutions`, `system_cam_edit_requests`; history of starts |
| `LoanRegister`: `cases reuploads sess` | deleted, deletion requested, re-upload window, `reupload_count` and archive rows of each case of one loan number; history of approvals and re-uploads |

Sessions read, then commit. An upload of a customer list dates its row before the
file goes to storage, deactivates the rows it sees, and inserts an active one. A case
is screened against the active list uploaded last (`Screen`), or against none
(`ScreenMissed`): no list is active, it cannot be downloaded or read, or the case has no
applicant. A
price edit writes the columns it changed into the row with the id it read; a row
that is gone fails the write. A deletion is requested, then approved or rejected by
a second person, who reads the case before he commits. A re-upload takes its version
from the count it read and inserts the archive row of that version, whose key is unique;
the copies it makes in storage, which survive a refusal, are left out here (`CaseIngestion`
has those of the ZIP). A window may go unused, so its expiry is no step.

### AutoRunClient

| State | Code |
|---|---|
| `server` | per step the latest result the server has |
| `storage` | the run in localStorage, which every tab overwrites |
| `tabs` | per tab: its React state for the case, the runner in flight, a re-run being asked about |

The loop between two calls is one turn of the event loop and one action
(`Advance`). `Served` with `Answer(t, FALSE)` is an answer that was lost; `CutOff`
a tab closed while its call is out. Minimizing, badges and several cases in one
tab are left out; another case's update is `Touch`, which writes the store.

## 3. Runs

Bounds are constants, named in the module, and guards only where a counter grows.

| Run | Instance | Shows |
|---|---|---|
| `ingestion_serial` | one session, two documents, two uploads, one re-upload, two messages, two deliveries each | an ingested case has a complete checklist (`IngestedComplete`); a case waiting for documents says for which (`MissingDocsExplained`); `finalized_at` and the ORIGINAL_ZIP row come and go together (`FinalizedHasZipRow`); the stage refines `StageMachine` (`RefinesStageMachine`); validation ends (`ValidationResolves`) |
| `ingestion_races` | two sessions, one document, one upload, otherwise the same; sessions symmetric | `TypeOK`; no live case in validation is without a message (`NoStrandedValidation`); what is not missing is backed by a row or a waiver (`PresentDocsBacked`); the queue refines `JobQueue`: no message is lost to a handler that fails, deleted before its handler returned, or published twice (`RefinesJobQueue`) |
| `phase1_serial` | one session for everything, two runs, three steps, two deliveries | a case in decisioning has a run to wait for or a failed one (`DecisioningAccounted`); a pending run has its message (`PendingRunHasMessage`); the stage moves as permitted (`StageMovesPermitted`); decisioning ends (`DecisioningResolves`) |
| `phase1_races` | two workers, one API session, one session for the rest, one run | `TypeOK`; a decision rests on gate, synthesis and all steps (`DecisionRestsOnSteps`); finished steps stay (`DoneStepsStay`); the queue refines `JobQueue` (`RefinesJobQueue`); no wait for a lock lasts for ever (`MessageLeaves`) |
| `verification_races` | two sessions, two sub-steps, two runs; symmetric | `TypeOK`; a level passed by override has no rejected issue (`OverrideHasNoRejection`); a blocked run has an issue yet to be approved, and the latest one has it in the MD's queue unless the MD rejected it (`BlockedAwaitsSomebody`) |
| `back_office` | the nine parts of `MCBackOffice`, bounds below; sessions and tabs symmetric; 229 268 states | the table below |

What `back_office` shows, by part:

| Part | Property | Shows |
|---|---|---|
| all | `PartTypeOK` | every part's variables have their type |
| levels | `WorseFileNoBetter` | no level, comparison, document check nor Phase 1 goes from blocking to passing because evidence got worse, whatever rules replace one another and however rows add up; the rules that stand for others (`StandIns`, and row 3 of level 5) are not switched off in these runs |
| levels | `CleanFilePasses` | a file with nothing against it passes every level, although two rows of level 5 can never be earned |
| levels | `SectionWithinMaximum` | no file earns a section of level 5 more than its points |
| levels | `EvidenceBacked` | a rule shown as passed had something to judge by (`Unjudged`), but for the cases the code shows anyway (`ShownAnyway`); if it did fire, it is switched off. It does not say that a rule shown as passed did not fire: the code shows one that is switched off |
| reports | `PartiesJudged` | neither party's bureau record goes unread, whatever strangers' and misspelt reports are on file |
| reports | `LevelsAgree` | level 5, which reads the rows in any order, scores the people level 1.5 judged |
| addresses | `CommuteStands` | asking again does not clear a commute, whatever the services would answer by then |
| agreements | `PartiesStand` | what a complete scan showed is what later runs find, however scans then fail |
| dedupe | `ScreenedByCurrent`, `ActivesOverlap` | a case that is compared with a list is never compared with a replaced one, but may be compared with none; some list is active once one was uploaded, and more than one only after uploads that overlapped (`dedupe_overlap`) |
| catalogue | `LabelTellsEditor`, `PriceStands` | a row says AI_ESTIMATED as long as no administrator wrote to it; a run of level 3 never moves a price |
| cam | `StartedReviewed` | every critical disagreement a start of Phase 1 saw has a resolution, and keeps one |
| register | `ReuploadsApproved` | initiates that read the same open window spend an approval once, also when one commits after the next approval; every replaced state has its archive |
| client | `DoneWasServed`, `LevelsBeforeDecision`, `FiredOnce`, `Restartable` | a step shown as done has a result; Phase 1 starts after every level was tried; no step is fired twice by a run; a run nobody drives can be resumed or has ended |

Its bounds: two sessions and two tabs; three reports; two house photos, one of the
premises, two places and three runs of level 1 (a cached finding, a run that cannot
see the photos, a replay); three agreement runs over two kinds of document; three
uploads of a list (two overlapping, one later); two rows of an item (a deletion and
a new row); one edit request and two starts; two cases of a number, two approvals to re-upload
each (the second while an initiate that read the first is still at work); three tab
openings, two clicks and one level besides Phase 1. `ChangesOf` bounds the changes
of a file: three, from the best or the worst file, which reaches every triple of
fields and a rule override before or after a change; two for the five files with
very many fields, and one for scoring without a co-applicant, whose rows are those
of scoring with one. `WorseFileNoBetter` compares two states of one step, so a
change anywhere in the reached region is compared with its predecessor. Sessions
and tabs occur only as indices of functions and in quantifiers, so permuting them
is a symmetry, and no liveness property is checked in that run. The parts stop when
their bounds are used up.

The instances are the smallest in which the interesting cases happen: two
sessions overlap any two transactions; two deliveries give one redelivery and the
redrive (the code's three add nothing but a second redelivery); one re-upload with
a second ZIP, in the serial run, gives rows of two generations (the racing run has
one upload only, and its three invariants are proved for every bound); three steps
give the gate, a step the verification gate makes redundant and the synthesis; two
runs give a cancelled or failed run followed by a new one. Two sub-steps give two
decisions on siblings of one level, and two verification runs one carry-forward;
its invariants too are proved for every bound.

The *serial* runs matter because several properties hold only when transactions
on one case do not overlap, which is what the code assumes and a single
user with one worker gives it. The *races* runs check what survives when it does
not. The invariants of the serial runs are not claimed for overlapping
transactions; `ingestion_overlap` shows one of them fail.

Deadlock checking is off everywhere: with every message handled and no request
made the system rests.

### Disagreements between the code and its documents

| Run | Property | The code | The document |
|---|---|---|---|
| `ingestion_selfserve` | `UploadedDocCounts` | a hand-uploaded artifact has no subtype, so the checklist does not count it | M3 design: self-serve path |
| `ingestion_overlap` | `IngestedComplete` | a waiver and a pipeline that overlap end in INGESTED with a missing document | M3 design, section 3.5 |
| `phase1_crash` | `StepsPersisted` | step rows are flushed, the run has a single commit | knowledge-transfer guide: persists each step, resumes after a crash |
| `phase1_cancelled` | `CancelledStays` | the engine does not look for CANCELLED | M5 design, section 5.5 |
| `verification_guard` | `OneRunAtWork` | the RUNNING row is only flushed, so the guard of a second trigger never sees it; the mass re-run has no guard | comment in `verification.py`: a second request is bounced, without a second model call |
| `dedupe_overlap` | `OneActive` | two uploads deactivate the same rows and insert an active one each; the index that forbade it was dropped (`b47f40f5fbcc:125`) | M3 design, line 140: a partial unique index "ensures at most one active snapshot at any time" |

`ActivesOverlap` says what holds in spite of `dedupe_overlap`.

Disagreements met while modelling that no run shows; the model follows the code, and the
properties state what holds of it:

- Level 1: `guarantor_names_from_lagr` is bound only where a bill was found and used
  in every run (`level_1_address.py` ~2312, ~2545): a case with neither ration card
  nor electricity bill raises, where the docstring (~1345) has the entry skipped. An
  unreadable ration card hides a readable electricity bill; a failed Aadhaar scan
  leaves the address rules unevaluated; the level passes in both cases. The warning
  of an unavailable distance service says "Re-run Level 1", but the cache replays the
  warning while the coordinates are the same. `carry_forward` goes by sub-step: an
  approved commute warning is carried onto a later critical commute.
- Level 1.5: the docstring's "DPD >= 90 within last 12 months" is not implemented; a
  newer report without a hit displaces the co-applicant's hit.
- Levels 2, 3, 5.5, evidence: an answer that is not JSON shows the photo rules as passed,
  and so does a case without photos; overriding a rule that stands for others
  (`bank_statement_missing`, `*_scorer_failed`) passes a file the call would block.
  In level 5 row 3, the bureau score, is such a rule: with a scored report row 8 takes
  unlisted enquiries for few, so with row 3 overridden a score of 600 earns section A the points of
  row 8 that a report without a score leaves pending.
- Level 5: the docstring of `r_a13` counts an MD rejection as not decided, the code as
  decided; `_pick_primary_equifax` "mirrors the L1.5 picker" but its rows come
  unordered; `manual_overrides` is never filled; the verdict is not renewed when
  another level is run again.
- Evidence of levels 1 to 4: the cards are built from the issues the overrides have left, so
  a rule that fired and is switched off is shown as passed, next to its entry in
  `suppressed_rules` (`level_2_banking.py:803,823`; line 278 says the evidence is that of
  "every L2 rule that DIDN'T fire"). Bounces, payers and concerns of a statement that was
  never analysed are shown as passed (`:372`; `:333` says "an entry is omitted when its
  required input is missing"). `Unjudged` and `ShownAnyway` name these cases for each level.
- Screening: a list the worker cannot download or read counts as none: a warning
  (`pipeline.py:616`, `dedupe.py:78`), and the case goes on to INGESTED; without an AutoCAM
  applicant there is not even a warning. The M3 design (line 242) has every case matched
  "if active snapshot exists".
- Phase 1: a run whose step raised leaves the case in PHASE_1_DECISIONING
  (`engine.py:265`), and cancel refuses a FAILED run, where the M5 design (line 293) has the
  stage revert to INGESTED; `DecisioningAccounted` admits that failed run.
  `step_01_policy_gates` reads flat keys that the extractor nests per sheet
  (`auto_cam.py:318-408`), so no hard gate ever fires on extracted data; a hard fail
  ends the engine before step 11, so the run is COMPLETED without a decision, where
  the M5 plan (`2026-04-18-m5-decisioning-engine.md:551,701`) has a REJECT.
- CAM: the comparator flags when either tolerance is exceeded, its docstring says
  both; a swapped day and month passes; SYSTEMCAM_EDIT_REQUESTED "Requires CEO / admin
  approval" (`enums.py:235-237`), but the gate opens on the request and stays open
  after a rejection.
- Registers: an approved deletion keeps the columns of its request (`cases.py:453`), which
  `models/case.py:65-69` says "are cleared", so it can be rejected afterwards;
  `reject_deletion` does not look at `is_deleted`, its docstring returns the
  case to its former state; the "non-fatal" catalogue failure of level 3 leaves the
  session unusable and fails the run; a duplicate catalogue entry is a 500, the
  docstring says 400; the active list is read with LIMIT 1 and no order outside the
  worker.
- Gates: `_gate_open` says Phase 1 is allowed iff every level passed, and `start_phase1`
  does not ask it; the checklist always wants the co-applicant's KYC, the auto-run
  gate only with a co-applicant.
- Auto-run client: a reload while ingestion is awaited leaves a run that can be
  neither resumed, repeated nor dismissed (against lines 13-16 of the file); a START
  while a runner is in flight resets steps that then stay pending; two tabs overwrite
  each other's store; the branch that starts Phase 1 after the loop (648-669) is
  never taken (`LoopReachesPhaseOne`).

### Fairness

Weak fairness of a session's next step or its abort: a transaction ends, one way or
the other (the database and the process do not hang for ever). Strong fairness of
taking up a message: the workers poll in an endless loop, and a worker session is
again and again free. Weak fairness of the redrive, which is SQS's promise. No
fairness for any client or administrator, and none between commit and abort, so a
transaction may fail every time.

## 4. Proofs

Every theorem is about any sets of sessions, tabs, documents, fields, prices and
places, and any number of runs, cases, uploads and reports. What is assumed:

- of the three large modules, their named assumptions: the bounds are naturals, a ZIP
  holds documents, there are at least two steps, and the steps verification covers are
  neither the gate nor the synthesis;
- of `LevelRuns`, that the bound of every level is a natural (`MaxChangesAssumption`);
- of `MCBackOffice`, its five: applicant, co-applicant and stranger are three people
  (`PeopleAssumption`), the bounds are naturals (`BoundsAssumption`), the sessions are
  finitely many (`SessionsAssumption`, for the count of active lists), the kinds of agreement and the levels are listed
  (`AgreementsAssumption`, `LevelsAssumption`), each level once and Phase 1 apart. The
  theorems of `ClientProofs` and, of the lists and the catalogue, `ActiveListsOverlap`,
  `DedupeTypeCorrect` and `CatalogueTypeCorrect` state theirs as hypotheses;
- of the *serial* theorems, that transactions on the case do not overlap:
  `[][AloneStep]_vars` says that while a session's transaction is open no other begins or
  ends, and nothing else writes the case or its rows; uploads, the redrive and the
  verification levels may still come at any moment. `OneSessionIsAlone` proves that this
  is what a single session does, so it is met by one user with one worker, as
  `ingestion_serial` and `phase1_serial` check it. Without it `ingestion_overlap` shows
  one of these properties fail.

### The three machines

- `TypeCorrect` (the three large modules). `TypeOK` is strengthened by what a session at
  work knows of itself (`SessionOK`): a transaction about a message or a run has
  one, a running loop's next step exists.
- `PresentDocsAreBacked`. `PresentDocsBacked` is not inductive: a waiver or a
  pipeline about to commit carries the checklist row it will write in its memory.
  `BackedInv` says of each such memory that the row will be backed when written,
  which rests on the lemma that artifact rows are never taken away
  (`ArtifactsStay`).
- `ValidationNeverStranded`. That some message exists is not inductive: it may be
  one whose handler has committed, or will commit without writing the stage.
  `StrandInv` names a message that will still move the case (`Pending`): queued or
  about to be, with every session that handles it still to commit and having read
  CHECKLIST_VALIDATION, so that its commit writes the stage. Message numbers only
  grow, so a new message is never confused with one being handled.
- `DecisionsRestOnSteps` and `DoneStepsAreKept`. `RunInv`: at most one worker holds
  the lock of a run (`Exclusive`); what it holds in memory extends the committed
  rows and keeps the finished ones (`Resumes`); all steps behind the loop have
  rows and the loop is past the gate only if the gate succeeded (`Progress`). The
  action property then follows from `Resumes` at the only action that writes
  step rows.
- `RejectionNeverOverridden` and `PromotionNeverLost`. `AllFit`: the status of a
  run fits its issues, and so would the status and issues of every transaction
  about to commit if it committed now. It holds of a decision because the lock
  admits one decision per run (`Exclusive`) and a resolution, which needs no lock,
  can only turn an issue into ASSESSOR_RESOLVED, which never spoils the fit
  (`ResolutionFits`); of a run because its row is its own until then (`OwnRuns`).
- `BlockedIsInQueue`: a corollary of the same invariant for the latest run;
  `BlockedIsAwaited` is both.
- `IngestedIsComplete`, `ParkedCaseIsExplained`, `FinalizedWithZipRow` (serial). `SerialInv`
  says that at most one transaction is open (`OneOpen`) and that what it read of the case
  is what is there (`ReadIsCurrent`), so the blind write of its commit is not stale. The
  three properties are conjuncts: each commit writes stage and checklist, or
  `finalized_at` and the ZIP row, together.
- `StageMachineIsImplemented` (serial): `CaseIngestion` implements `StageMachine`. From
  `SerialInv` each commit's `CommittedMove` starts at the stage that is there; a
  re-upload maps to the abstract new version, everything else to a move or a stutter.
- `DecisioningIsAccounted`, `PendingRunIsAnnounced`, `StageMovesArePermitted` (serial). The
  `SerialInv` of `Phase1Decisioning` adds that the message of a run about to be committed
  is on its way, since the start publishes first, and that a message about to be deleted
  is that of no pending run.
- `IngestionQueueIsImplemented`, `DecisioningQueueIsImplemented`: `CaseIngestion` and
  `Phase1Decisioning` implement `JobQueue`, for every bound and without the serial
  hypothesis. Every action maps to one of the queue or leaves it alone. The invariant it
  takes beside the types is `FreshInv`: a message about to be published has a number that
  no other transaction publishes, is not in the queue and was never delivered, because the
  numbers come from a counter that only grows.

### The parts of the back office

A part's behaviour inside the composition is a behaviour of its component
(`DedupeBehaves`, ...), a parked part stays parked (`DedupeParked`, ...), so a theorem of
the component becomes one of `PartSpec`: `CasesScreenedByCurrent`, `OverlapOnly`,
`LabelTellsTheEditor`, `PriceMovesByEditOnly`, `NoUnreviewedStart`, `ShownDoneWasServed`,
`DecisionComesLast`, `StepsFiredOnce`, `RunsCanRestart`. They state the very properties
`back_office` checks. The first lemmas of each section say that the instance of the
composition and the instance of the proof module are the same formulas; `LevelRuns` needs
none, as `MCBackOffice` extends it, and the CAM gate is proved of the composition's
instance itself.

- `StartsAreReviewed`, `GateTypeCorrect` (CamGate). A resolution is never taken away, so what a start
  has read as settled still is when it commits: the invariant says of each session
  about to start that the critical flags it saw are resolved.
- `ScreeningIsCurrent`, `ActiveListsOverlap` (DedupeSnapshots). `ActiveIsCurrent`: each
  active list was committed after the upload of any other began. It survives a commit
  because an upload that has deactivated what it saw leaves only lists committed
  since (`LeavesOnlyLater`). For the count, `Owners` maps the active lists one-to-one to
  sessions, each of which deactivates its own before it uploads another; the
  cardinality follows from the injection.
- `LabelIsTruthful`, `PriceIsEdited` (MrpCatalogue). An id is never used twice
  (`IdsGivenOut`), so a write by id reaches the row that was read, and a row that did
  not say AI_ESTIMATED when it was read still does not (`LabelStays`).
- `NoStepTwice`, `LoopReachesPhaseOne` (AutoRunClient). What a runner has fired lies behind
  it (`Behind`), and the loop looks ahead only (`ReachedAhead`); at the end of the loop
  Phase 1 has been noted, or is being called (`Ended`, `Calling`), so nothing is due
  after it (`NothingAfterLoop`).
- `DoneIsServed`, `LevelsComeFirst`, `RunsRestart` (AutoRunClient). `ShownInv` says of every
  copy of a run, in a tab or in the store, that its done steps have results (`Backed`) and
  that a reload makes it one that can be resumed (`Recovers`), so it does not matter
  which tab wrote the store last; of a runner, that what lies behind it was fired or had
  a result when the runner set out (`Tried`, `Asked`).
- `ApprovalsSpentOnce` (LoanRegister). That re-uploads do not outnumber approvals is not
  inductive. `RowSound` says of each case that its count and its archives are those of the
  re-uploads done, and that while the window is open there is an approval more than that;
  `RegisterInv` adds that a session about to re-upload carries a version that is taken or
  the next one, and that is not above the approvals. The first to commit takes that version's key; whoever read the same
  count finds the key taken, also after the next approval.
- `NoPartyUnread`, `ScoredAreJudged` (CreditReports). The invariant says only that the rows
  are reports; the content is in the two pickers. Level 5 reads the rows in any order, a
  bijection of the newest-first one, and its fallbacks are shown to reach the same person.
- `CommuteIsNotCleared` (AddressLevel). `CommuteStands` is not inductive, as it compares two
  runs and a new one may replay any earlier run. `Replayable` says of every completed run
  that its commute issue is what a replay of its cached status gives, and that the
  commute was skipped only where a place was unknown.
- `ScannedPartiesStand` (AgreementScans). `Repeated` says of every complete run that the row of
  the document it read still says SUCCESS with the same answer: a scan only writes rows
  that had none.
- `PartsTyped`. Nine types, one per part. That of the dedupe list needs a count (`InTime`):
  the clock has advanced by at most two for each upload begun, less one for each still at
  work.

### The levels

`LevelProofs` is about `LevelRuns`; `SectionsWithinMaximum`, `WorseFileStaysBlocked`,
`CleanFilesPass` and `ShownIsBacked` lift its theorems to the composition.

- `WorseningNeverPasses`. `Judged` is the inductive invariant: the verdict is that of the
  file and the overrides as they are, and no rule that stands for others is switched off
  (`StandsFor`). A step then compares two files under the same overrides, and what is left
  is about the rules: under any overrides that leave those alone, if a file is blocked then
  so is every file below it (`OutcomeWorse`). A level need not keep each critical issue, as rules replace
  one another. What it keeps is (`Kept`) that each critical issue of the better file is
  critical in the worse one or gives way to a critical one that cannot be switched off:
  `AgreementKept`, `BankingKept`, `DocumentKept`, `VisionKept`, `CreditKept`, `AddressKept`,
  `CamKept`, each from a lemma that says when the level's rules are critical
  (`BankingCritical`, ...). For the checklist and the auto-run gate no document missing
  before is there afterwards (`ChecklistWorse`, `AutoRunWorse`), and for Phase 1 an
  approval of the worse file is one of the better (`DecisionWorse`). In level 5 a critical
  row stays critical and, unless row 3 is, no row earns more (`RowsWorse`): row 8 may earn
  its points only by a score so bad that row 3 is critical, and row 24 may go from failed
  to pending, which earns nothing either. A sum of rows none of which gains does not grow
  (`EarnedOrdered`), so no section and not the grade climbs over its threshold
  (`ScoringKept`).
- `CleanFilesPassed`. From `Judged` and one lemma per level that says that its best file has
  no critical issue (`AgreementClean`, ..., `CleanApproved`), which an override cannot
  change. For level 5 the rows of the best file are evaluated one by one (`FirstRows`) and
  their sums against every threshold (`FirstEarned`), with and without a co-applicant.
- `SectionsAreBounded`. `Earned` is a recursive function over the 32 rows; that it has a
  value is shown from the least row at which a running sum could fail (`SumExists`,
  `EarnedSum`), and that it stays within the weights of a section from the least row at
  which it could pass them (`SectionSum`, over the table `Points` of what the first rows
  are worth together). Each row earns at most its weight (`SectionAScores`, ...), and the
  rows of a section are consecutive. All of it holds for every context of level 5
  (`ContextWithinMaximum`); of the ladders it is only used that their values are such
  contexts (`FileIsContext`).
- `PassesAreBacked`. A fact about every file and every set of overrides, level by level
  (`ShownRightly`): a card is shown only where its rule has no issue left, so that one that
  fired is switched off (`SuppressedFired`), and the inputs it needs were there, but for
  the rules of `ShownAnyway`. No ladder of the instance is used.
- `LevelsTypeCorrect` needs that every ladder has a first and a last rung.

The ladders are part of `LevelRuns`: what is proved of the order of files is proved of
theirs. Of them it covers every pair of positions on all ladders at once, and every set
of overrides that a run of any length reaches, where the run of TLC changes three fields.

### What is only model-checked

The liveness properties `ValidationResolves`, `DecisioningResolves` and `MessageLeaves`:
the prover does not handle liveness under fairness. Every invariant and every other
property of a passing run is stated by a theorem.

## 5. What is not modelled, and what is left

- Authentication, users, token refresh: stateless tokens over a user row that no
  other component of the models reads.
- What is data: prompts, OCR, parsing of spreadsheets and bureau reports, the fuzzy
  match of the dedupe, amounts and costs, mail, notifications, the printed report.
- The photo re-upload of level 3, assignment and feedback: single-row writes.
- The batch of up to ten messages a worker receives with one visibility clock: a message
  that waits for its turn is one whose handler has done nothing yet (`JobQueue`).
- The gate over all levels, once the start of Phase 1 consults it.
