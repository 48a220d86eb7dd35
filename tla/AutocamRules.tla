----------------------------- MODULE AutocamRules -----------------------------
(***************************************************************************)
(* The disagreements between the SystemCam and the CM CAM IL sheets        *)
(* (app/worker/extractors/autocam_discrepancies.py).  A pair is what each  *)
(* sheet says of a field; Missing stands for an empty cell or one that is  *)
(* no number.  Ratios are in thousandths, so 0.45 is 450 and 45 is 45000.  *)
(***************************************************************************)
EXTENDS Integers

Missing == -1

Pair(system, manual) == [system |-> system, manual |-> manual]
Larger(p) == IF p.system > p.manual THEN p.system ELSE p.manual
Gap(p) == 2 * Larger(p) - p.system - p.manual
Both(p) == p.system # Missing /\ p.manual # Missing

\* The tolerances of _numeric_comparator; it accepts a pair that keeps both.
WithinAbs(p, tol) == Gap(p) <= tol
WithinPct(p, pct) == 100 * Gap(p) <= pct * (IF Larger(p) > 1 THEN Larger(p) ELSE 1)

BothTolerances(p, tol, pct) == WithinAbs(p, tol) /\ WithinPct(p, pct)

\* A ratio of at most 1 is a fraction, a larger one a percentage.
_foir_to_pct(v) == IF v <= 1000 THEN 100 * v ELSE v
AsPercent(p) == Pair(_foir_to_pct(p.system), _foir_to_pct(p.manual))

\* Names may differ in case and word order, dates in format; "swapped" is a date whose
\* day and month change places, which passes for another format.
Identical(relation) == relation \in {"same", "missing", "reordered", "swapped"}

detect_discrepancies(c) ==
    [applicant_name |-> IF Identical(c.name) THEN "ok" ELSE "CRITICAL",
     pan |-> IF c.pan \in {"same", "missing"} THEN "ok" ELSE "CRITICAL",
     date_of_birth |-> IF Identical(c.dob) THEN "ok" ELSE "CRITICAL",
     loan_amount |->
        IF Both(c.loan) /\ ~BothTolerances(c.loan, 500, 2) THEN "CRITICAL" ELSE "ok",
     foir |-> IF Both(c.foir) /\ ~WithinAbs(AsPercent(c.foir), 1000) THEN "WARNING" ELSE "ok",
     cibil |-> IF Both(c.cibil) /\ ~WithinAbs(c.cibil, 0) THEN "CRITICAL" ELSE "ok",
     total_monthly_income |-> IF Both(c.income) /\ ~WithinPct(c.income, 2) THEN "WARNING" ELSE "ok",
     tenure_months |-> IF Both(c.tenure) /\ ~WithinAbs(c.tenure, 0) THEN "WARNING" ELSE "ok"]
===============================================================================
