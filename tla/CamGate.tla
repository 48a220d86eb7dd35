-------------------------------- MODULE CamGate --------------------------------
(***************************************************************************)
(* The disagreements between the two sheets of a CAM, how assessors settle *)
(* them and how they gate Phase 1 (app/services/cam_discrepancy.py,        *)
(* app/api/routers/cam_discrepancies.py and start_phase1 in                *)
(* app/api/routers/cases.py).  Handlers read, then commit.                 *)
(***************************************************************************)
EXTENDS Naturals, Sequences

CONSTANTS Sessions,     \* database sessions
          Critical,     \* fields whose disagreement blocks Phase 1
          Minor,        \* fields whose disagreement only warns
          MaxStarts,    \* bound: runs of Phase 1
          MaxRequests   \* bound: SystemCam edit requests

VARIABLES flags,        \* the fields the latest full CAM disagrees on
          resolution,   \* per field: the kind of its resolution row, "none" without one
          requests,     \* the edit requests, oldest first: field and status
          ingested,     \* is the case in stage INGESTED?
          started,      \* per run of Phase 1: the critical flags its start had seen
          sess          \* the transaction each session is in

vars == <<flags, resolution, requests, ingested, started, sess>>

Fields == Critical \cup Minor
Kinds == {"JUSTIFIED", "CORRECTED_CM_IL", "SYSTEMCAM_EDIT_REQUESTED"}
Idle == [pc |-> "idle", field |-> "none", request |-> 0, saw |-> {}]

Init ==
    /\ flags \in SUBSET Fields
    /\ resolution = [f \in Fields |-> "none"]
    /\ requests = << >> /\ ingested = TRUE /\ started = << >>
    /\ sess = [s \in Sessions |-> Idle]

Begin(s, t) ==
    /\ sess[s].pc = "idle" /\ sess' = [sess EXCEPT ![s] = t]
    /\ UNCHANGED <<flags, resolution, requests, ingested, started>>
Busy(s, pc) == sess[s].pc = pc
End(s) == sess' = [sess EXCEPT ![s] = Idle]

\* Seeded fault: a resolution lasts as long as its disagreement.
ExtractForgets(now) ==
    /\ now # flags /\ flags' = now
    /\ resolution' = [f \in Fields |-> IF f \in now THEN resolution[f] ELSE "none"]
    /\ UNCHANGED <<requests, ingested, started, sess>>

\* A run of the auto_cam extractor; the resolutions stay.
Extract(now) ==
    /\ now # flags /\ flags' = now
    /\ UNCHANGED <<resolution, requests, ingested, started, sess>>

(***************************************************************************)
(* get_summary                                                             *)
(***************************************************************************)
Resolved == {f \in Fields : resolution[f] # "none"}
Pending == {i \in DOMAIN requests : requests[i].status = "PENDING"}
Viewed == flags \cup Resolved \cup {requests[i].field : i \in Pending}
Blocking == (flags \cap Critical) \ Resolved

(***************************************************************************)
(* upsert_resolution, of a field that has a view                           *)
(***************************************************************************)
ResolveBegin(s, f) ==
    f \in Viewed /\ Begin(s, [Idle EXCEPT !.pc = "resolve", !.field = f])

ResolveCommit(s, kind) ==
    /\ Busy(s, "resolve")
    /\ kind = "SYSTEMCAM_EDIT_REQUESTED" => Len(requests) < MaxRequests
    /\ resolution' = [resolution EXCEPT ![sess[s].field] = kind]
    /\ requests' = IF kind = "SYSTEMCAM_EDIT_REQUESTED"
                   THEN Append(requests, [field |-> sess[s].field, status |-> "PENDING"])
                   ELSE requests
    /\ End(s) /\ UNCHANGED <<flags, ingested, started>>

(***************************************************************************)
(* decide_edit_request: the resolution stays whatever is decided           *)
(***************************************************************************)
DecideBegin(s, i) ==
    i \in Pending /\ Begin(s, [Idle EXCEPT !.pc = "decide", !.request = i])

DecideCommit(s, decision) ==
    /\ Busy(s, "decide")
    /\ requests' = [requests EXCEPT ![sess[s].request].status = decision]
    /\ End(s) /\ UNCHANGED <<flags, resolution, ingested, started>>

(***************************************************************************)
(* start_phase1, of which Phase1Decisioning has the rest                   *)
(***************************************************************************)
\* Seeded fault: the gate looks at the disagreements whose edit is pending only.
StartIfNonePending(s) ==
    /\ ingested /\ {requests[i].field : i \in Pending} \cap Critical = {}
    /\ Begin(s, [Idle EXCEPT !.pc = "start", !.saw = flags \cap Critical])

StartBegin(s) ==
    /\ ingested /\ Blocking = {}
    /\ Begin(s, [Idle EXCEPT !.pc = "start", !.saw = flags \cap Critical])

StartCommit(s) ==
    /\ Busy(s, "start") /\ Len(started) < MaxStarts
    /\ started' = Append(started, sess[s].saw) /\ ingested' = FALSE
    /\ End(s) /\ UNCHANGED <<flags, resolution, requests>>

\* The run is cancelled, or the case is ingested again.
Ingested == ~ingested /\ ingested' = TRUE /\ UNCHANGED <<flags, resolution, requests, started, sess>>

Next ==
    \/ \E now \in SUBSET Fields : Extract(now)
    \/ \E s \in Sessions :
          \/ \E f \in Fields : ResolveBegin(s, f)
          \/ \E kind \in Kinds : ResolveCommit(s, kind)
          \/ \E i \in DOMAIN requests : DecideBegin(s, i)
          \/ \E decision \in {"APPROVED", "REJECTED"} : DecideCommit(s, decision)
          \/ StartBegin(s) \/ StartCommit(s)
    \/ Ingested

Spec == Init /\ [][Next]_vars

-----------------------------------------------------------------------------
TypeOK ==
    /\ flags \in SUBSET Fields /\ resolution \in [Fields -> Kinds \cup {"none"}]
    /\ \A i \in DOMAIN requests : /\ requests[i].field \in Fields
                                 /\ requests[i].status \in {"PENDING", "APPROVED", "REJECTED"}
    /\ \A i \in DOMAIN started : started[i] \in SUBSET Critical
    /\ \A s \in Sessions : sess[s].pc \in {"idle", "resolve", "decide", "start"}

\* Every critical disagreement that was on file when a start of Phase 1 looked has a
\* resolution, and keeps one: through later CAMs, through what is decided about an edit
\* request, and whatever other sessions commit between the start's look and its commit.
\* (A disagreement that arrives in between is not seen, and one resolved for other
\* values, or whose edit request was rejected, counts as settled.)
StartedReviewed == \A i \in DOMAIN started : started[i] \subseteq Resolved
===============================================================================
