----------------------------- MODULE StageMachine -----------------------------
(***************************************************************************)
(* What app/services/stages.py promises of a case's committed stage: it    *)
(* starts at UPLOADED, every committed change is a chain of permitted      *)
(* transitions, and only an approved re-upload, which opens the next       *)
(* version of the case, takes it back to UPLOADED.                         *)
(***************************************************************************)
EXTENDS CaseStages, Naturals

VARIABLES stage,     \* cases.current_stage
          version    \* cases.reupload_count

Init == stage = "UPLOADED" /\ version = 0

Move == \E to \in Stages : /\ CommittedMove(stage, to)
                           /\ stage' = to
                           /\ version' = version

Reupload == stage' = "UPLOADED" /\ version' = version + 1

Next == Move \/ Reupload

Spec == Init /\ [][Next]_<<stage, version>>
=============================================================================
