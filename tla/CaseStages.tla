------------------------------ MODULE CaseStages ------------------------------
(***************************************************************************)
(* The case workflow stages and the table of permitted transitions         *)
(* (app/enums.py, app/services/stages.py).                                 *)
(***************************************************************************)

Stages ==
    { "UPLOADED", "CHECKLIST_VALIDATION", "CHECKLIST_MISSING_DOCS",
      "CHECKLIST_VALIDATED", "INGESTED", "PHASE_1_DECISIONING",
      "PHASE_1_COMPLETE", "PHASE_1_REJECTED", "PHASE_2_AUDITING",
      "PHASE_2_COMPLETE", "HUMAN_REVIEW", "APPROVED", "REJECTED",
      "ESCALATED_TO_CEO" }

\* ALLOWED_TRANSITIONS as a relation: the pairs validate_transition accepts.
AllowedTransitions ==
    { <<"UPLOADED", "CHECKLIST_VALIDATION">>,
      <<"CHECKLIST_VALIDATION", "CHECKLIST_MISSING_DOCS">>,
      <<"CHECKLIST_VALIDATION", "CHECKLIST_VALIDATED">>,
      <<"CHECKLIST_MISSING_DOCS", "CHECKLIST_VALIDATION">>,
      <<"CHECKLIST_VALIDATED", "INGESTED">>,
      <<"CHECKLIST_VALIDATED", "CHECKLIST_VALIDATION">>,
      <<"INGESTED", "PHASE_1_DECISIONING">>,
      <<"INGESTED", "CHECKLIST_VALIDATION">>,
      <<"PHASE_1_DECISIONING", "PHASE_1_COMPLETE">>,
      <<"PHASE_1_DECISIONING", "PHASE_1_REJECTED">>,
      <<"PHASE_1_DECISIONING", "INGESTED">>,
      <<"PHASE_1_COMPLETE", "PHASE_2_AUDITING">>,
      <<"PHASE_2_AUDITING", "PHASE_2_COMPLETE">>,
      <<"PHASE_2_COMPLETE", "HUMAN_REVIEW">>,
      <<"HUMAN_REVIEW", "APPROVED">>,
      <<"HUMAN_REVIEW", "REJECTED">>,
      <<"HUMAN_REVIEW", "ESCALATED_TO_CEO">>,
      <<"ESCALATED_TO_CEO", "APPROVED">>,
      <<"ESCALATED_TO_CEO", "REJECTED">> }

\* transition_stage: a move is taken only when the table permits it.
CanTransition(from, to) == <<from, to>> \in AllowedTransitions

\* The two stages a transaction may pass through without committing them:
\* the pipeline and the waiver walk VALIDATION -> VALIDATED -> INGESTED in one
\* transaction, and the pipeline enters VALIDATION from a re-ingest stage.
PassedThrough == {"CHECKLIST_VALIDATION", "CHECKLIST_VALIDATED"}

\* What one committed transaction may do to the stage: a chain of permitted
\* transitions whose inner stages are all passed through.
CommittedMove(from, to) ==
    \/ CanTransition(from, to)
    \/ \E i \in PassedThrough : CanTransition(from, i) /\ CanTransition(i, to)
    \/ \E i, j \in PassedThrough :
          CanTransition(from, i) /\ CanTransition(i, j) /\ CanTransition(j, to)
=============================================================================
