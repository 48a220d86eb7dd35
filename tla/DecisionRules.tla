----------------------------- MODULE DecisionRules -----------------------------
(***************************************************************************)
(* The rules of Phase 1: the policy gate (step_01_policy_gates.py) and     *)
(* what the synthesis (step_11_synthesis.py) makes of the model's answer.  *)
(*                                                                         *)
(* g is what the gate reads, -1 where the field is missing.                *)
(***************************************************************************)
EXTENDS Integers

(***************************************************************************)
(* Step 1.  A gate whose field is missing, and zero is as good as missing  *)
(* except for the applicant's own score, only warns.                       *)
(***************************************************************************)
OrNone(x) == IF x = 0 THEN -1 ELSE x

cibil_gate(x) == x = -1 \/ (IF x = 0 THEN 650 ELSE x) >= 700
age_gate(x) == x = -1 \/ x \in 21..60
indebtedness_gate(x) == x < 500
distance_gate(x) == x <= 25

\* Seeded fault: the newcomer's score of zero counts as a missing one.
ZeroIsMissing(g) ==
    /\ cibil_gate(OrNone(g.cibil)) /\ cibil_gate(OrNone(g.coCibil))
    /\ age_gate(OrNone(g.age)) /\ indebtedness_gate(OrNone(g.debt))
    /\ ~g.negative /\ distance_gate(g.distance)
policy_gates(g) ==
    /\ cibil_gate(g.cibil) /\ cibil_gate(OrNone(g.coCibil))
    /\ age_gate(OrNone(g.age)) /\ indebtedness_gate(OrNone(g.debt))
    /\ ~g.negative /\ distance_gate(g.distance)

(***************************************************************************)
(* Step 11.  levels are the statuses of the latest runs, PENDING for a     *)
(* level never run; a is the model's answer, of which a missing confidence *)
(* is 0 and a missing decision an escalation.  "none" without a decision.  *)
(***************************************************************************)
BlockingStates == {"BLOCKED", "FAILED", "RUNNING", "PENDING"}
Threshold == 60

synthesis(levels, a) ==
    IF a.failed THEN "none"
    ELSE IF levels \cap BlockingStates # {} \/ a.deviations \/ a.confidence < Threshold
      THEN "ESCALATE_TO_CEO" ELSE a.decision

\* A hard fail ends the run before the synthesis: completed, with no decision.
final_decision(g, levels, a) == IF policy_gates(g) THEN synthesis(levels, a) ELSE "none"
=============================================================================
