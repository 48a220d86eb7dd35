------------------------------ MODULE LoanRegister ------------------------------
(***************************************************************************)
(* The cases of one loan number: who may open one, how its ZIP is replaced *)
(* and how it is deleted (initiate, approve_reupload, soft_delete,         *)
(* request_deletion, approve_deletion and reject_deletion in               *)
(* app/services/cases.py).  Each reads the rows it needs and commits       *)
(* later, with no row lock.  Two unique indexes decide between those that  *)
(* overlap: ix_cases_loan_id admits one case per number that is not        *)
(* deleted, and case_artifacts.s3_key one row per archive version.         *)
(***************************************************************************)
EXTENDS Naturals, FiniteSets

CONSTANTS Sessions,     \* database sessions
          MaxCases,     \* bound: cases ever opened under the number
          MaxApprovals  \* bound: approvals to re-upload, per case

VARIABLES cases,        \* per case opened: its row and its archive rows
          reuploads,    \* per case: approvals to re-upload, and re-uploads
          sess          \* the transaction each session is in

vars == <<cases, reuploads, sess>>

Case == [deleted : BOOLEAN, requested : BOOLEAN,
         window : BOOLEAN,              \* reupload_allowed_until is set
         reupload_count : Nat,
         archives : SUBSET Nat]         \* versions with an _archive_v{n}.json artifact
New == [deleted |-> FALSE, requested |-> FALSE, window |-> FALSE,
        reupload_count |-> 0, archives |-> {}]
Ids == DOMAIN cases
Live == {c \in Ids : ~cases[c].deleted}
Requested == {c \in Ids : cases[c].requested}

Idle == [pc |-> "idle", case |-> 0, version |-> 0]
Begin(s, pc, c, version) ==
    /\ sess[s].pc = "idle"
    /\ sess' = [sess EXCEPT ![s] = [pc |-> pc, case |-> c, version |-> version]]
    /\ UNCHANGED <<cases, reuploads>>
Busy(s, pc) == sess[s].pc = pc
End(s) == sess' = [sess EXCEPT ![s] = Idle]
Mine(s) == sess[s].case

Init == cases = << >> /\ reuploads = << >> /\ sess = [s \in Sessions |-> Idle]

(***************************************************************************)
(* POST /cases/initiate                                                    *)
(***************************************************************************)
InitiateNew(s) == Live = {} /\ Begin(s, "open", 0, 0)

Open(s) ==
    /\ Busy(s, "open") /\ Live = {} /\ Cardinality(Ids) < MaxCases
    /\ cases' = [c \in Ids \cup {Cardinality(Ids) + 1} |-> IF c \in Ids THEN cases[c] ELSE New]
    /\ reuploads' = [c \in DOMAIN cases' |->
                        IF c \in Ids THEN reuploads[c] ELSE [approved |-> 0, done |-> 0]]
    /\ End(s)
OpenRefused(s) == Busy(s, "open") /\ Live # {} /\ End(s) /\ UNCHANGED <<cases, reuploads>>

\* The window is open; the archive's version is one more than the row's count.
InitiateReupload(s, c) ==
    c \in Live /\ cases[c].window /\ Begin(s, "reupload", c, cases[c].reupload_count + 1)

\* Seeded fault: an archive is stored under a key of its own, not under its version's.
NeverTaken(c, version) == FALSE
\* s3_key is unique, and an archive's holds its version.
ArchiveKeyTaken(c, version) == version \in cases[c].archives

\* Seeded fault: the window stays open.
ArchivedOpen(entry, version) ==
    [entry EXCEPT !.reupload_count = version, !.archives = @ \cup {version}]
Archived(entry, version) ==
    [entry EXCEPT !.window = FALSE, !.reupload_count = version, !.archives = @ \cup {version}]

\* The existing case is archived and starts over.
Reupload(s) ==
    /\ Busy(s, "reupload") /\ ~ArchiveKeyTaken(Mine(s), sess[s].version)
    /\ cases' = [cases EXCEPT ![Mine(s)] = Archived(@, sess[s].version)]
    /\ reuploads' = [reuploads EXCEPT ![Mine(s)].done = @ + 1]
    /\ End(s)

\* The insert of the archive's row fails, and with it the transaction.
ReuploadRefused(s) ==
    /\ Busy(s, "reupload") /\ ArchiveKeyTaken(Mine(s), sess[s].version)
    /\ End(s) /\ UNCHANGED <<cases, reuploads>>

\* An open window is renewed.  A window may also lapse unused.
approve_reupload(c) ==
    /\ c \in Live /\ reuploads[c].approved < MaxApprovals
    /\ cases' = [cases EXCEPT ![c].window = TRUE]
    /\ reuploads' = [reuploads EXCEPT ![c].approved = @ + 1] /\ UNCHANGED sess

(***************************************************************************)
(* Deletion                                                                *)
(***************************************************************************)
\* soft_delete, of an administrator, looks at nothing.
SoftDelete(c) ==
    cases' = [cases EXCEPT ![c].deleted = TRUE] /\ UNCHANGED <<reuploads, sess>>

RequestBegin(s, c) == c \in Live \ Requested /\ Begin(s, "request", c, 0)
RequestCommit(s) ==
    /\ Busy(s, "request") /\ cases' = [cases EXCEPT ![Mine(s)].requested = TRUE]
    /\ End(s) /\ UNCHANGED reuploads

\* The request's columns stay after an approval ...
ApproveBegin(s, c) == c \in Live \cap Requested /\ Begin(s, "approve", c, 0)
ApproveCommit(s) ==
    /\ Busy(s, "approve") /\ cases' = [cases EXCEPT ![Mine(s)].deleted = TRUE]
    /\ End(s) /\ UNCHANGED reuploads

\* ... and a rejection does not look whether the case was deleted.
RejectBegin(s, c) == c \in Requested /\ Begin(s, "reject", c, 0)
RejectCommit(s) ==
    /\ Busy(s, "reject") /\ cases' = [cases EXCEPT ![Mine(s)].requested = FALSE]
    /\ End(s) /\ UNCHANGED reuploads

Next ==
    \/ \E s \in Sessions :
          \/ InitiateNew(s) \/ Open(s) \/ OpenRefused(s) \/ Reupload(s) \/ ReuploadRefused(s)
          \/ RequestCommit(s) \/ ApproveCommit(s) \/ RejectCommit(s)
          \/ \E c \in Ids : \/ InitiateReupload(s, c) \/ RequestBegin(s, c)
                            \/ ApproveBegin(s, c) \/ RejectBegin(s, c)
    \/ \E c \in Ids : approve_reupload(c) \/ SoftDelete(c)

Spec == Init /\ [][Next]_vars

-----------------------------------------------------------------------------
TypeOK ==
    /\ Ids = 1..Cardinality(Ids) /\ cases \in [Ids -> Case]
    /\ reuploads \in [Ids -> [approved : Nat, done : Nat]]
    /\ \A s \in Sessions : sess[s].case \in Ids \cup {0}

\* An approval lets the ZIP be replaced once, and every replacement leaves the archive of
\* its version: not even initiates that read the same open window and the same count
\* spend it twice, nor one that commits after the next approval was given.
ReuploadsApproved ==
    \A c \in Ids :
        /\ reuploads[c].done <= reuploads[c].approved
        /\ cases[c].archives = 1..reuploads[c].done
===============================================================================
