----------------------------- MODULE PassEvidence -----------------------------
(***************************************************************************)
(* What a run shows the assessor of the rules that left no issue           *)
(* (sub_step_results.pass_evidence of every level, and the analysis of the *)
(* stock next to it).  A card is "passed", or "skipped" with a reason; a   *)
(* rule with neither card nor issue is blank.                              *)
(*                                                                         *)
(* fired: the rules with an issue after the overrides; their evidence is   *)
(* on the issue.  Files are those of the rule modules.                     *)
(***************************************************************************)
EXTENDS AddressRules, CreditRules, BankingRules, VisionRules, DocumentRules

Cards(passed, skipped) ==
    [r \in passed \cup skipped |-> IF r \in passed THEN "passed" ELSE "skipped"]
ShownPassed(cards) == {r \in DOMAIN cards : cards[r] = "passed"}
Only(rule, condition) == IF condition THEN {rule} ELSE {}

(***************************************************************************)
(* Level 1.  e is [aadhaar, coAddress, kind, bill, minutes, bureau]: is    *)
(* the applicant's Aadhaar address known, the co-applicant's, what the     *)
(* geocoders made of the house photo, the file of the bill, how long the   *)
(* commute takes ("unknown" unless the distance service answered), the     *)
(* addresses of the outside source.                                        *)
(***************************************************************************)
build_pass_evidence_l1(e, fired) ==
    LET passed ==
          Only("coapp_address", e.aadhaar /\ e.coAddress # "missing")
          \cup Only("gps_vs_aadhaar", e.aadhaar /\ e.kind # "no_coords")
          \cup Only("ration_owner_rule", e.bill.owner # NoName /\ e.bill.applicant # NoName)
          \cup Only("commute", e.minutes = "near")
          \cup Only("bureau_bank", e.aadhaar /\ e.bureau # {})
        skipped == Only("bureau_bank", ~(e.aadhaar /\ e.bureau # {}))
    IN Cards(passed \ fired, skipped \ fired)

(***************************************************************************)
(* Level 1.5.  The applicant's statuses always have a card; the            *)
(* co-applicant's need an account list or a score.                         *)
(***************************************************************************)
coapp_scanned(f) ==
    CoReport(f) # 0 /\ (f.rows[CoReport(f)].hit \/ f.rows[CoReport(f)].score # -1)
HasScore(f, i) == i # 0 /\ f.rows[i].score >= 0

build_pass_evidence_l1_5(f, fired) ==
    LET statuses == {"applicant"} \X Marks
        coStatuses == IF coapp_scanned(f) THEN {"co_applicant"} \X Marks ELSE {}
        floor == <<"applicant", "credit_score_floor">>
        coFloor == <<"co_applicant", "credit_score_floor">>
        passed ==
          statuses \cup coStatuses
          \cup Only(floor, HasScore(f, Primary(f)))
          \cup Only(coFloor, coapp_scanned(f) /\ HasScore(f, CoReport(f)))
          \cup Only(<<"case", "bureau_report_missing">>, f.rows # << >>)
          \cup Only(<<"case", "opus_credit_verdict">>, f.rows # << >> /\ ~f.analyst.failed)
        skipped == {floor} \cup Only(coFloor, coapp_scanned(f))
    IN Cards(passed \ fired, skipped \ (passed \cup fired))

(***************************************************************************)
(* Level 2.  Without an answer of the AI chartered accountant there are no *)
(* numbers to show, but the rules that count from nothing have a card.     *)
(***************************************************************************)
\* The numbers are there, as an answer of these files has them all.
Answered(b) == b.lines /\ ~b.failed

build_pass_evidence_l2(b, fired) ==
    LET emi == estimate_proposed_emi_inr(b.loan, b.tenure)
        counted == {"nach_bounces", "ca_narrative_concerns"}
        weighed == {"avg_balance_vs_emi", "credits_vs_declared_income",
                    "single_payer_concentration", "impulsive_debit_overspend",
                    "chronic_low_balance", "bank_statement_months_coverage"}
        passed ==
          {"bank_statement_missing"} \cup counted
          \cup Only("bank_statement_months_coverage", b.months >= 0)
          \cup Only("avg_balance_vs_emi", Answered(b) /\ emi > 0)
          \cup Only("credits_vs_declared_income", Answered(b) /\ b.income > 0)
          \cup Only("single_payer_concentration", b.income >= 15000)
          \cup Only("impulsive_debit_overspend", Answered(b) /\ b.income > 0)
          \cup Only("chronic_low_balance", Answered(b))
    IN Cards(passed \ fired, weighed \ (passed \cup fired))

(***************************************************************************)
(* Level 3.  A call that failed leaves no data; an answer that is not JSON *)
(* leaves its text, and no photos an empty form: both count as data.       *)
(***************************************************************************)
HasData(end) == end # "failed"

build_stock_analysis(v) ==
    IF ~HasData(v.biz) THEN << >>
    ELSE <<[collateral |-> Collateral(v), loan |-> v.loan,
            stock_warning |-> Drifts(v.stock, v.items),
            equipment_warning |-> Drifts(v.equipment, v.machines)]>>

build_pass_evidence(v, fired) ==
    LET dairy == v.biz = "scored" /\ v.type \in {"cattle_dairy", "mixed"} /\ v.cattle > 0
        passed ==
          Only("house_living_condition", HasData(v.house))
          \cup Only("business_infrastructure", HasData(v.biz))
          \cup Only("loan_amount_reduction", HasData(v.biz))
          \cup Only("stock_vs_loan", build_stock_analysis(v) # << >>)
          \cup Only("cattle_health", HasData(v.biz) /\ dairy)
        skipped == Only("cattle_health", HasData(v.biz) /\ ~dairy)
    IN Cards(passed \ fired, skipped \ fired)

(***************************************************************************)
(* Level 4 shows a rule only with the scanner's word for it.               *)
(***************************************************************************)
\* Seeded fault: what did not fire is shown, as the other levels do.
ShownUnlessFired(a, fired) ==
    Cards({"loan_agreement_missing", "loan_agreement_annexure", "hypothecation_clause",
           "asset_annexure_empty"} \ fired, {})
build_pass_evidence_l4(a, fired) ==
    LET Says(answer) == a.pdf /\ a.scan = "ok" /\ answer
        passed ==
          Only("loan_agreement_missing", a.pdf)
          \cup Only("loan_agreement_annexure", Says(a.annexure))
          \cup Only("hypothecation_clause", Says(a.clause))
          \cup Only("asset_annexure_empty", Says(a.assets > 0))
    IN Cards(passed \ fired, {})

(***************************************************************************)
(* Level 5.5 decides each card with its rule, before the overrides.        *)
(***************************************************************************)
DedupeTvrEvidence(d) ==
    LET compared == cross_validate_pdc_vs_bank_statement(d)
        passed ==
          {r \in {"dedupe_clear", "tvr_present", "nach_present"} : DedupeTvrIssues(d)[r] = "ok"}
          \cup Only("pdc_present", d.cheque = "cheque")
          \cup Only("pdc_matches_bank", d.cheque = "cheque" /\ compared = "pass")
        skipped ==
          Only("pdc_matches_bank", d.cheque \in {"unverified", "not_cheque"}
                                   \/ (d.cheque = "cheque" /\ compared = "skipped"))
    IN Cards(passed, skipped)
===============================================================================
