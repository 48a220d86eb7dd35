---------------------------- MODULE DedupeSnapshots ----------------------------
(***************************************************************************)
(* The customer list that new cases are screened against: administrators   *)
(* upload snapshots (app/api/routers/dedupe_snapshots.py), the ingestion   *)
(* worker reads the active one (_run_dedupe_and_persist in                 *)
(* app/worker/pipeline.py) and goes on without when it cannot.  No index   *)
(* keeps two rows from being active.                                       *)
(*                                                                         *)
(* The UPDATE that deactivates waits for the row locks of another upload,  *)
(* but sees the rows committed when it started; the model leaves the wait  *)
(* out, which only adds behaviours.                                        *)
(***************************************************************************)
EXTENDS Naturals, FiniteSets

CONSTANTS Sessions,     \* uploads that can be in progress at once
          MaxUploads    \* bound: uploads ever started

VARIABLES clock,        \* how many events have been dated
          rows,         \* the committed snapshots: when they were uploaded and committed
          active,       \* the committed snapshots that are active
          uploading,    \* per session: the upload in progress
          started,      \* uploads started
          screened      \* per case: the snapshots uploaded by then, and the one compared with

vars == <<clock, rows, active, uploading, started, screened>>

Idle == [pc |-> "idle", at |-> 0, off |-> {}]
Instants == 1..(2 * MaxUploads)
Snapshots == [at : Instants, done : Instants]

Init ==
    /\ clock = 0 /\ started = 0 /\ rows = {} /\ active = {} /\ screened = {}
    /\ uploading = [s \in Sessions |-> Idle]

\* uploaded_at is taken before the file goes to storage.
UploadBegin(s) ==
    /\ uploading[s].pc = "idle" /\ started < MaxUploads
    /\ clock' = clock + 1 /\ started' = started + 1
    /\ uploading' = [uploading EXCEPT ![s] = [pc |-> "storing", at |-> clock', off |-> {}]]
    /\ UNCHANGED <<rows, active, screened>>

UploadRefused(s) ==
    /\ uploading[s].pc = "storing"
    /\ uploading' = [uploading EXCEPT ![s] = Idle]
    /\ UNCHANGED <<clock, rows, active, started, screened>>

\* Seeded fault: the update that deactivates matches no row.
NoneSeen(s) ==
    /\ uploading[s].pc = "storing"
    /\ uploading' = [uploading EXCEPT ![s].pc = "updated"]
    /\ UNCHANGED <<clock, rows, active, started, screened>>

\* The UPDATE: the rows it sees active.
Deactivate(s) ==
    /\ uploading[s].pc = "storing"
    /\ uploading' = [uploading EXCEPT ![s].pc = "updated", ![s].off = active]
    /\ UNCHANGED <<clock, rows, active, started, screened>>

\* Seeded fault: the new row is flushed before the UPDATE, which deactivates it too.
ActiveAfterOwn(off, row) == active \ (off \cup {row})
ActiveAfter(off, row) == (active \ off) \cup {row}

UploadCommit(s) ==
    LET row == [at |-> uploading[s].at, done |-> clock']
    IN /\ uploading[s].pc = "updated"
       /\ clock' = clock + 1
       /\ rows' = rows \cup {row}
       /\ active' = ActiveAfter(uploading[s].off, row)
       /\ uploading' = [uploading EXCEPT ![s] = Idle]
       /\ UNCHANGED <<started, screened>>

\* Seeded fault: the query has lost its WHERE and its ORDER BY.
AnySnapshot(r) == r \in rows
\* The active row uploaded last.
ActiveSnapshot(r) == r \in active /\ \A q \in active : q.at <= r.at

\* The aggregate row is stored and the pipeline goes on, whatever was compared.
_run_dedupe(compared) ==
    /\ screened' = screened \cup {[known |-> rows, used |-> compared]}
    /\ UNCHANGED <<clock, rows, active, uploading, started>>
Screen == \E r \in rows : ActiveSnapshot(r) /\ _run_dedupe({r})

\* No list is active; or the list cannot be downloaded, is no workbook, or is empty; or
\* the case names no applicant.
ScreenMissed == _run_dedupe({})

Next ==
    \/ \E s \in Sessions :
          UploadBegin(s) \/ UploadRefused(s) \/ Deactivate(s) \/ UploadCommit(s)
    \/ Screen \/ ScreenMissed

Spec == Init /\ [][Next]_vars

-----------------------------------------------------------------------------
TypeOK ==
    /\ clock \in 0..(2 * MaxUploads) /\ started \in 0..MaxUploads
    /\ rows \in SUBSET Snapshots /\ active \in SUBSET rows
    /\ \A s \in Sessions : uploading[s].pc \in {"idle", "storing", "updated"}
    /\ \A c \in screened : c.known \in SUBSET Snapshots /\ c.used \in SUBSET c.known

\* A case that is compared with a list is never compared with one that had been replaced:
\* by an upload that began after the list was committed and was itself committed by then.
\* Two active rows, and a worker that reads between two uploads, do not change that.
ScreenedByCurrent ==
    \A c \in screened : \A r \in c.used, q \in c.known : q.at <= r.done

\* Uploads that overlap may leave several lists active, but some list is active from the
\* first upload on, lists stay active together only if their uploads overlapped, and there
\* are never more of them than uploads in progress at one time.
ActivesOverlap ==
    /\ rows # {} => active # {}
    /\ \A r, q \in active : q.at <= r.done
    /\ Cardinality(active) <= Cardinality(Sessions)

-----------------------------------------------------------------------------
(***************************************************************************)
(* What the design says of this code, and the code does not do.            *)
(***************************************************************************)
\* The M3 design: "ensures at most one active snapshot at any time".  Two uploads that
\* overlap both deactivate what was active before either of them.
OneActive == Cardinality(active) <= 1
===============================================================================
