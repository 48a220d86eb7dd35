----------------------------- MODULE BankingRules -----------------------------
(***************************************************************************)
(* The rules of verification level 2 (level_2_banking.py).                 *)
(*                                                                         *)
(* b is what is on file: lines (does the statement extraction have         *)
(* transactions), months (tenths of a month the statement covers, -1       *)
(* unknown), income (the CAM's monthly income, 0 unknown), loan and tenure *)
(* of the case (0 unknown), and what the AI chartered accountant says:     *)
(* failed, bounces, balance, credits (of three months), payers, impulsive, *)
(* concerns.  A number it leaves out is 0.                                 *)
(***************************************************************************)
EXTENDS LevelRules

\* Flat interest of 24 % a year.
estimate_proposed_emi_inr(loan, tenure) ==
    IF loan = 0 \/ tenure <= 0 THEN 0 ELSE (loan * (1200 + 24 * tenure)) \div (1200 * tenure)

cross_check_nach_bounces(n) == Flag(n > 0, "CRITICAL")
cross_check_avg_balance_vs_emi(balance, emi) ==
    Flag(emi > 0 /\ 2 * balance < 3 * emi, "CRITICAL")
cross_check_credits_vs_declared_income(credits, income) ==
    Flag(income > 0 /\ 2 * credits < 3 * income, "WARNING")
cross_check_distinct_payer_concentration(payers, income) ==
    Flag(income >= 15000 /\ payers < 2, "WARNING")
cross_check_impulsive_debits(spent, income) == Flag(income > 0 /\ spent > income, "WARNING")
cross_check_chronic_low_balance(balance) == Flag(balance < 1000, "CRITICAL")
cross_check_statement_months_coverage(months) == Flag(months >= 0 /\ months < 60, "CRITICAL")
cross_check_ca_narrative(concerns) == Flag(concerns, "WARNING")

\* Analysed when there are transactions; the rules need the analyser's answer.
BankingIssues(b) ==
    LET emi == estimate_proposed_emi_inr(b.loan, b.tenure)
        judged == b.lines /\ ~b.failed
        Rule(sev) == IF judged THEN sev ELSE "ok"
    IN [bank_statement_missing |-> Flag(~b.lines, "CRITICAL"),
        bank_statement_months_coverage |->
            IF b.lines THEN cross_check_statement_months_coverage(b.months) ELSE "ok",
        ca_analyzer_failed |-> Flag(b.lines /\ b.failed, "CRITICAL"),
        nach_bounces |-> Rule(cross_check_nach_bounces(b.bounces)),
        avg_balance_vs_emi |-> Rule(cross_check_avg_balance_vs_emi(b.balance, emi)),
        credits_vs_declared_income |->
            Rule(cross_check_credits_vs_declared_income(b.credits, b.income)),
        single_payer_concentration |->
            Rule(cross_check_distinct_payer_concentration(b.payers, b.income)),
        impulsive_debit_overspend |-> Rule(cross_check_impulsive_debits(b.impulsive, b.income)),
        chronic_low_balance |-> Rule(cross_check_chronic_low_balance(b.balance)),
        ca_narrative_concerns |-> Rule(cross_check_ca_narrative(b.concerns))]
=============================================================================
