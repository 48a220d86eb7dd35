----------------------------- MODULE DocumentRules ----------------------------
(***************************************************************************)
(* The rules of verification levels 4 and 5.5: the loan agreement          *)
(* (level_4_agreement.py), and the dedupe report, the verification call,   *)
(* the post-dated cheque and the NACH mandate (level_5_5_dedupe_tvr.py,    *)
(* services/pdc_verifier.py).                                              *)
(***************************************************************************)
EXTENDS LevelRules

(***************************************************************************)
(* Level 4.  a is [pdf, scan, annexure, clause, assets]: is an agreement   *)
(* PDF on file, did the download and the scan succeed ("raised" stops the  *)
(* level, "failed" leaves every answer empty), and the scanner's answers.  *)
(***************************************************************************)
\* The subtypes an agreement may be filed under, the best one first.
preferred_subtypes == <<"LAGR", "LOAN_AGREEMENT", "LAPP", "DPN">>
agreement_artifact(onFile) ==
    LET ranks == {i \in DOMAIN preferred_subtypes : preferred_subtypes[i] \in onFile}
    IN IF ranks = {} THEN "none"
       ELSE preferred_subtypes[CHOOSE i \in ranks : \A j \in ranks : i <= j]

AgreementIssues(a) ==
    LET read == a.pdf /\ a.scan # "raised"
        Says(answer) == a.scan = "ok" /\ answer
    IN [loan_agreement_missing |-> Flag(~a.pdf, "CRITICAL"),
        loan_agreement_scan_failed |-> Flag(a.pdf /\ a.scan = "raised", "CRITICAL"),
        loan_agreement_annexure |-> Flag(read /\ ~Says(a.annexure), "CRITICAL"),
        hypothecation_clause |-> Flag(read /\ ~Says(a.clause), "CRITICAL"),
        asset_annexure_empty |-> Flag(read /\ ~Says(a.assets > 0), "CRITICAL")]

(***************************************************************************)
(* Level 5.5.  d is [dedupe, matches, tvr, cheque, bank, ifsc, tail,       *)
(* holder, nach]: the latest dedupe report's extraction and the customers  *)
(* it matched, what the vision model makes of the latest cheque, whether a *)
(* statement was extracted, and how the cheque's fields compare with it    *)
(* ("same", "differ", "missing" on a side).                                *)
(***************************************************************************)
\* verify_pdc_cheque: nothing readable, a PDF or a failed call cannot be verified.
verify_pdc_cheque(file, answer) ==
    IF file \in {"empty", "pdf"} \/ answer = "failed" THEN "unverified" ELSE answer

\* Seeded fault: a differing name softens a differing account.
NameDecides(d) ==
    CASE ~d.bank -> "skipped"
      [] d.bank /\ d.holder = "differ" -> "warning"
      [] d.bank /\ d.holder # "differ" /\ "differ" \in {d.ifsc, d.tail} -> "critical"
      [] OTHER -> "pass"
cross_validate_pdc_vs_bank_statement(d) ==
    CASE ~d.bank -> "skipped"
      [] d.bank /\ "differ" \in {d.ifsc, d.tail} -> "critical"
      [] d.bank /\ "differ" \notin {d.ifsc, d.tail} /\ d.holder = "differ" -> "warning"
      [] d.bank /\ d.holder # "differ" /\ {d.ifsc, d.tail} = {"missing"} -> "skipped"
      [] OTHER -> "pass"

pdc_matches_bank(d) ==
    CASE cross_validate_pdc_vs_bank_statement(d) = "critical" -> "CRITICAL"
      [] cross_validate_pdc_vs_bank_statement(d) = "warning" -> "WARNING"
      [] OTHER -> "ok"

DedupeTvrIssues(d) ==
    [dedupe_clear |-> Flag(d.dedupe # "SUCCESS" \/ d.matches > 0, "CRITICAL"),
     tvr_present |-> Flag(~d.tvr, "CRITICAL"),
     pdc_present |->
        CASE d.cheque \in {"missing", "not_cheque"} -> "CRITICAL"
          [] d.cheque = "unverified" -> "WARNING"
          [] d.cheque = "cheque" -> "ok",
     pdc_matches_bank |-> IF d.cheque = "cheque" THEN pdc_matches_bank(d) ELSE "ok",
     nach_present |-> Flag(~d.nach, "CRITICAL")]
=============================================================================
