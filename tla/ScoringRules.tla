----------------------------- MODULE ScoringRules -----------------------------
(***************************************************************************)
(* Verification level 5, the 32-point audit: services/scoring_model.py     *)
(* (its rows) and level_5_scoring.py (the issues of a score).              *)
(*                                                                         *)
(* c is the ScoringContext: what the extractions and the latest runs of    *)
(* the other levels say.  A number that is not known is -1.  cibil is the  *)
(* bureau report's score or else the CAM's; scored: has the report one,    *)
(* the -1 of a newcomer to credit included?                                *)
(***************************************************************************)
EXTENDS LevelRules, Sequences

(***************************************************************************)
(* What the context holds of the CAM's pincodes, in the order in which the *)
(* sheets are searched, and of the income proofs that could be fetched.    *)
(***************************************************************************)
_resolve_negative_area(pincodes, blocked) ==
    IF pincodes = << >> THEN "no_pincode"
    ELSE IF Head(pincodes) \in blocked THEN "negative" ELSE "clear"

\* Without bytes to read there is no analysis, and the file counts by its presence.
_run_income_proof_analyser(proofs, fetched, verdict, sources) ==
    [onFile |-> proofs > 0, verdict |-> IF fetched = 0 THEN "none" ELSE verdict,
     sources |-> IF fetched = 0 THEN -1 ELSE sources]

Rows == 1..32
\* Seeded fault: section C takes a row too many.
SectionCTo30(n) ==
    CASE n <= 13 -> "A" [] n \in 14..24 -> "B" [] n \in 25..30 -> "C" [] n >= 31 -> "D"
Section(n) == CASE n <= 13 -> "A" [] n \in 14..24 -> "B" [] n \in 25..29 -> "C" [] n >= 30 -> "D"
SECTIONS == [A |-> 45, B |-> 35, C |-> 13, D |-> 7]
CATALOG == <<3, 3, 4, 3, 4, 4, 4, 3, 2, 4, 2, 4, 5,      \* weights, section A
             3, 4, 5, 4, 3, 3, 2, 2, 4, 3, 2,            \* B
             3, 3, 2, 2, 3,                              \* C
             1, 3, 3>>                                   \* D
FORCE_CRITICAL_SNOS == {25, 26}

_pass(n) == [status |-> "PASS", score |-> CATALOG[n]]
_fail == [status |-> "FAIL", score |-> 0]
_pending == [status |-> "PENDING", score |-> 0]
NA == [status |-> "NA", score |-> 0]                    \* its score is never earned
_graded(k) == IF k > 0 THEN [status |-> "PASS", score |-> k] ELSE _fail

Judge(n, holds) == IF holds THEN _pass(n) ELSE _fail
IfKnown(x, row) == IF x < 0 THEN _pending ELSE row
OnFile(n, uploaded) == IF uploaded THEN _pass(n) ELSE _pending

(***************************************************************************)
(* Section A                                                               *)
(***************************************************************************)
\* Three months of bank credits must reach half the declared income.
Corroborated(c) == 2 * c.credits >= 3 * c.income

r_a01_household_income(c) ==
    IF c.income < 0 \/ (c.credits >= 0 /\ c.income > 0 /\ ~Corroborated(c))
      THEN _pending ELSE _pass(1)
r_a02_business_vintage == _pending
r_a03_applicant_cibil(c) == IfKnown(c.cibil, Judge(3, c.cibil >= 750))
r_a04_coapp_cibil(c) ==
    CASE ~c.coapp -> NA
      [] c.coapp /\ c.coCibil = -1 -> _fail
      [] c.coapp /\ c.coCibil # -1 -> IF c.coCibil < 300 THEN NA ELSE _pass(4)
r_a05_unsecured_outstanding(c) == OnFile(5, c.report)
r_a06_dpd_12m(c) == IF c.report THEN IfKnown(c.pastDue, Judge(6, c.pastDue = 0)) ELSE _pending
\* Without a report there is no account to find a write-off in.
r_a07_writeoff_settled_3y(c) == Judge(7, ~(c.report /\ c.writtenOff))
\* enquiries: those of the last three months, or all when none is dated.
r_a08_enquiries_3m(c) ==
    CASE c.enquiries >= 0 -> Judge(8, c.enquiries < 3)
      [] c.enquiries < 0 -> OnFile(8, c.report /\ c.scored)
r_a09_cibil_address_match(c) ==
    CASE c.l1 = "not_run" -> _pending
      [] c.l1 = "flagged" -> _fail
      [] c.l1 = "approved" -> _pass(9)
      [] c.l1 = "clear" /\ c.report -> _pass(9)
      [] c.l1 = "clear" /\ ~c.report ->
            CASE c.gps = "match" -> _pass(9)
              [] c.gps \in {"doubtful", "mismatch"} -> _fail
              [] c.gps = "unknown" -> _pending
r_a10_foir(c) ==
    CASE c.foir < 0 -> _pending
      [] c.foir \in 0..40 -> _pass(10)
      [] c.foir \in 41..50 -> _graded(3)
      [] c.foir > 50 -> _fail
r_a11_negative_area(c) ==
    IF c.area = "no_pincode" THEN _pending ELSE Judge(11, c.area = "clear")
Grade(x, marks) == _graded(Cardinality({m \in marks : x >= m}))
r_a12_dscr(c) == IfKnown(c.dscr, Grade(c.dscr, {75, 90, 100, 120}))
\* deviations: the critical issues of the latest runs of all levels, of which a
\* rejection counts as a decision.
r_a13_deviation_approved(c) == OnFile(13, c.deviations \in {"none", "decided"})

(***************************************************************************)
(* Section B                                                               *)
(***************************************************************************)
r_b14_shop_qr(c) == Judge(14, c.qr)
r_b15_qr_owner_match(c) == IF c.qr THEN _pending ELSE _fail
r_b16_income_proof_applicant(c) ==
    Judge(16, c.proofVerdict \notin {"adverse", "caution"}
              /\ (c.proofVerdict = "clean" \/ c.proof \/ c.statement))
r_b17_income_proof_coapp(c) == IF c.coapp THEN Judge(17, c.coProof) ELSE NA
r_b18_additional_income(c) ==
    IF c.sources >= 0 THEN Judge(18, c.sources >= 2) ELSE OnFile(18, c.other > 0)
r_b19_banking_6_12m(c) ==
    IF c.lines < 0 THEN Judge(19, c.statement) ELSE Judge(19, c.lines >= 50)
r_b20_total_credit(c) == OnFile(20, c.credits >= 0)
r_b21_coapp_banking(c) ==
    CASE ~c.coapp -> NA
      [] c.coapp /\ c.coStatement -> _pass(21)
      [] c.coapp /\ ~c.coStatement ->
            IF c.coCibil # -1 /\ c.coCibil < 300 THEN NA ELSE _pending
r_b22_abb_ratio(c) ==
    IF c.balance < 0 \/ c.emi <= 0 THEN _pending
    ELSE CASE 2 * c.balance >= 3 * c.emi -> _graded(4)
           [] 2 * c.balance < 3 * c.emi /\ 5 * c.balance >= 6 * c.emi -> _graded(3)
           [] 5 * c.balance < 6 * c.emi /\ c.balance >= c.emi -> _graded(2)
           [] c.balance < c.emi -> _fail
r_b23_no_bouncing(c) == IfKnown(c.bounces, Judge(23, c.bounces = 0))
r_b24_banking_matches_income(c) ==
    IF c.income <= 0 \/ c.credits <= 0 THEN _pending ELSE Judge(24, Corroborated(c))

(***************************************************************************)
(* Sections C and D                                                        *)
(***************************************************************************)
r_c25_loan_purpose(c) == Judge(25, c.purpose)
r_c26_end_use(c) == Judge(26, c.endUse)
r_c27_house_ownership(c) == Judge(27, c.houseProof)
r_c28_business_ownership(c) == Judge(28, c.businessProof)
r_c29_additional_assets(c) == OnFile(29, c.assets > 0)
r_d30_bcm_cross_verification(c) == OnFile(30, c.references)
r_d31_tvr(c) == OnFile(31, c.tvr)
r_d32_fraud_call(c) == OnFile(32, c.fraudCall)

ScoreRows(c) ==
    <<r_a01_household_income(c), r_a02_business_vintage, r_a03_applicant_cibil(c),
      r_a04_coapp_cibil(c), r_a05_unsecured_outstanding(c), r_a06_dpd_12m(c),
      r_a07_writeoff_settled_3y(c), r_a08_enquiries_3m(c), r_a09_cibil_address_match(c),
      r_a10_foir(c), r_a11_negative_area(c), r_a12_dscr(c), r_a13_deviation_approved(c),
      r_b14_shop_qr(c), r_b15_qr_owner_match(c), r_b16_income_proof_applicant(c),
      r_b17_income_proof_coapp(c), r_b18_additional_income(c), r_b19_banking_6_12m(c),
      r_b20_total_credit(c), r_b21_coapp_banking(c), r_b22_abb_ratio(c),
      r_b23_no_bouncing(c), r_b24_banking_matches_income(c), r_c25_loan_purpose(c),
      r_c26_end_use(c), r_c27_house_ownership(c), r_c28_business_ownership(c),
      r_c29_additional_assets(c), r_d30_bcm_cross_verification(c), r_d31_tvr(c),
      r_d32_fraud_call(c)>>

(***************************************************************************)
(* The score and the issues it raises                                      *)
(***************************************************************************)
Earned(rows, S) ==
    LET upTo[n \in 0..32] ==
            IF n = 0 THEN 0 ELSE upTo[n - 1] + (IF n \in S THEN rows[n].score ELSE 0)
    IN upTo[32]
SectionRows == [s \in DOMAIN SECTIONS |-> {n \in Rows : Section(n) = s}]
RowsOf(s) == SectionRows[s]

overall_pct(rows) == Earned(rows, Rows)     \* of 100: a row that is NA is not taken out

\* Seeded fault: a pending row weighs like a failed one.
PendingWeighs(n, row) ==
    CASE row.status \notin {"FAIL", "PENDING"} -> "ok"
      [] row.status \in {"FAIL", "PENDING"} ->
            IF CATALOG[n] >= 4 \/ n \in FORCE_CRITICAL_SNOS THEN "CRITICAL" ELSE "WARNING"
RowIssue(n, row) ==
    CASE row.status = "FAIL" /\ (CATALOG[n] >= 4 \/ n \in FORCE_CRITICAL_SNOS) -> "CRITICAL"
      [] row.status = "FAIL" /\ CATALOG[n] = 3 /\ n \notin FORCE_CRITICAL_SNOS -> "WARNING"
      [] row.status = "PENDING" ->
            IF n \in FORCE_CRITICAL_SNOS THEN "CRITICAL" ELSE "WARNING"
      [] OTHER -> "ok"

\* A section below half of its points blocks, one below 70 % warns.
SectionIssue(s, rows) ==
    LET got == 100 * Earned(rows, RowsOf(s))
    IN IF got < 50 * SECTIONS[s] THEN "CRITICAL"
       ELSE IF got < 70 * SECTIONS[s] THEN "WARNING" ELSE "ok"

GradeIssue(rows) ==
    IF overall_pct(rows) < 60 THEN "CRITICAL" ELSE IF overall_pct(rows) < 70 THEN "WARNING" ELSE "ok"

ScoringIssues(c) ==
    LET rows == ScoreRows(c)
    IN [r \in ({"row"} \X Rows) \cup ({"section"} \X DOMAIN SECTIONS) \cup {<<"grade", "all">>} |->
          CASE r[1] = "row" -> RowIssue(r[2], rows[r[2]])
            [] r[1] = "section" -> SectionIssue(r[2], rows)
            [] r[1] = "grade" -> GradeIssue(rows)]
=============================================================================
