------------------------------- MODULE LevelRuns -------------------------------
(***************************************************************************)
(* Runs of the verification levels on a case file whose evidence changes   *)
(* between them.  A level judges a file field by field, but its rules read *)
(* several fields, replace each other and add up to scores; this module    *)
(* asks whether the level as a whole still orders files sensibly.          *)
(*                                                                         *)
(* Every field has a ladder of values, the best first.  A file is a        *)
(* position on each ladder.  A field with "unknown" values has them where  *)
(* the code treats them, which is often above a bad known value.           *)
(***************************************************************************)
EXTENDS PassEvidence, ScoringRules, DecisionRules, AutocamRules, ChecklistRules

CONSTANTS MaxChanges      \* bound, per level: changes of the file or of the rule overrides

VARIABLES level,          \* the level that is run
          pos,            \* per field of its file: the position on the ladder
          suppressed,     \* rules an administrator has switched off (rule_overrides)
          verdict,        \* verification_results.status of the latest run
          changes         \* changes so far

vars == <<level, pos, suppressed, verdict, changes>>

Known == <<TRUE, FALSE>>
Against == <<FALSE, TRUE>>

\* Where the photos were taken, and the commute between them: a photo without
\* coordinates leaves the commute unasked (AddressLevel has the photos themselves).
AddressLadder(bills) ==
    LET Seen(kind, state, pins, village) ==
            [kind |-> kind, state |-> state, pins |-> pins, district |-> "unknown",
             village |-> village, similar |-> pins = "yes"]
        At(gps, dm, judge) ==
            [gps |-> gps, dm |-> dm, minutes |-> IF judge = "near" THEN "near" ELSE "far",
             judge |-> judge]
        Burnt(pins, village) == [pins |-> pins, village |-> village]
        No == "no" Yes == "yes" Unknown == "unknown"
    IN [places |-> <<At(gps_match(Seen("structured", Yes, No, No), Burnt(Yes, Yes)), "ok", "near"),
                     At(Seen("text", Yes, Yes, Yes), "ok", "WARNING"),
                     At(gps_match(Seen("structured", Yes, Unknown, No), Burnt(Unknown, Yes)),
                        "error", "none"),
                     At(Seen("no_coords", No, No, No), "unasked", "none"),
                     At(Seen("structured", No, Yes, No), "ok", "near"),
                     At(gps_match(Seen("structured", Yes, Yes, Yes), Burnt(No, Unknown)),
                        "ok", "none"),
                     At(Seen("text", No, No, No), "ok", "CRITICAL"),
                     At(Seen("structured", No, No, No), "zero_results", "none")>>,
        coAddress |-> <<"similar", "missing", "different">>,
        bureau |-> LET Bureau(listed, flat) == [listed |-> listed, flat |-> flat]
                   IN <<{Bureau({}, {"similar"}), Bureau({"different"}, {})}, {},
                        {Bureau({}, {}), Bureau({"different"}, {})}>>,
        bills |-> bills, pan |-> Known, parties |-> Known]

\* The scans of the ration cards and of the electricity bills on file, by whom they name.
Bills(ration, electricity) == [ration |-> ration, electricity |-> electricity]
OwnBills == <<Bills(<<"applicant">>, <<"stranger">>), Bills(<<"unread", "applicant">>, << >>),
              Bills(<<"unread">>, <<"stranger">>)>>
BillsOfOthers ==
    <<Bills(<<"father", "stranger">>, << >>), Bills(<< >>, <<"namesake">>),
      Bills(<<"child">>, << >>), Bills(<<"stranger", "applicant">>, << >>)>>

CreditLadder ==
    [applicant |-> <<[marks |-> {}, score |-> 780], [marks |-> {}, score |-> -1],
                     [marks |-> {"sma"}, score |-> 690], [marks |-> {"sma", "loss"}, score |-> 690],
                     [marks |-> {"sma", "loss"}, score |-> 600]>>,
     coapp |-> <<[marks |-> {}, score |-> 720], [marks |-> {"settled"}, score |-> 720]>>,
     report |-> Known,
     analyst |-> <<"clean", "failed", "caution", "adverse">>]

BankingLadder ==
    [lines |-> Known, months |-> <<70, -1, 40>>, income |-> <<0, 40000>>, loan |-> <<0, 100000>>,
     failed |-> Against, bounces |-> <<0, 1>>, balance |-> <<90000, 4000, 900>>,
     credits |-> <<200000, 30000>>, payers |-> <<3, 1>>, impulsive |-> <<0, 50000>>,
     concerns |-> Against]

VisionLadder ==
    [house |-> <<[end |-> score(1, "json"), rating |-> "good"],
                 [end |-> score(0, "none"), rating |-> "none"],
                 [end |-> score(1, "json"), rating |-> "other"],
                 [end |-> score(1, "json"), rating |-> "bad"],
                 [end |-> score(1, "text"), rating |-> "none"],
                 [end |-> score(1, "none"), rating |-> "none"]>>,
     biz |-> <<score(0, "none"), score(1, "json"), score(1, "text"), score(1, "none")>>,
     stock |-> <<[worth |-> 100, items |-> 100], [worth |-> 70, items |-> 70],
                 [worth |-> 70, items |-> 20], [worth |-> 10, items |-> 50]>>,
     equipment |-> <<[worth |-> 60, items |-> 60], [worth |-> 20, items |-> 20],
                     [worth |-> 20, items |-> 60]>>,
     recommended |-> <<0, 90, 30>>, loan |-> <<0, 80, 200>>,
     health |-> <<"healthy", "unhealthy">>, cattle |-> <<0, 2>>,
     infra |-> <<"good", "bad", "worst">>]

AgreementLadder ==
    [filed |-> <<{"LAGR"}, {"DPN", "LAPP"}, {}>>, scan |-> <<"ok", "failed", "raised">>, annexure |-> Known, clause |-> Known,
     assets |-> <<2, 0>>]

DocumentLadder ==
    [dedupe |-> <<"SUCCESS", "FAILED">>, matches |-> <<0, 1>>, tvr |-> Known, nach |-> Known,
     cheque |->
        LET Cheque(bank, ifsc, tail, holder) ==
                [is |-> "cheque", bank |-> bank, ifsc |-> ifsc, tail |-> tail, holder |-> holder]
            Other(is) == [is |-> is, bank |-> TRUE, ifsc |-> "same", tail |-> "same", holder |-> "same"]
        IN <<Cheque(TRUE, "same", "same", "same"), Cheque(FALSE, "same", "same", "same"),
             Other(verify_pdc_cheque("pdf", "cheque")), Cheque(TRUE, "same", "same", "differ"),
             Cheque(TRUE, "differ", "same", "same"), Cheque(TRUE, "differ", "differ", "differ"),
             Other(verify_pdc_cheque("photo", "not_cheque")), Other("missing")>>]

\* The applicant's score: the report's, a newcomer's -1, none, a bad one, and a bad one
\* only the CAM has.  A good one only the CAM has is no rung: row 8, pending for it, would
\* pass the newcomer.
BureauScores ==
    <<[score |-> 780, scored |-> TRUE], [score |-> -1, scored |-> TRUE],
      [score |-> -1, scored |-> FALSE], [score |-> 600, scored |-> TRUE],
      [score |-> 600, scored |-> FALSE]>>

\* The bureau report is on file: without it row 7 passes, but level 1.5 blocks the case.
ScoringLadder ==
    [income |-> <<40000, -1>>, other |-> <<9000, -1>>, credits |-> <<90000, 20000>>,
     cibil |-> BureauScores, coCibil |-> <<750, -1>>,
     pastDue |-> <<0, -1, 2>>, writtenOff |-> Against,
     enquiries |-> <<1, -1, 5>>, l1 |-> <<"approved", "clear", "not_run", "flagged">>,
     gps |-> <<"match", "unknown", "mismatch">>, foir |-> <<30, 45, -1, 60>>,
     area |-> <<_resolve_negative_area(<<"town", "blocked">>, {"blocked"}),
                _resolve_negative_area(<< >>, {"blocked"}),
                _resolve_negative_area(<<"blocked", "town">>, {"blocked"})>>,
     dscr |-> <<130, 95, -1, 60>>,
     deviations |-> <<"none", "decided", "open">>, qr |-> Known,
     proof |-> LET Proofs(fetched, says, sources) ==
                        _run_income_proof_analyser(1, fetched, says, sources)
               IN <<Proofs(1, "clean", 2), Proofs(0, "adverse", 0),
                    _run_income_proof_analyser(0, 0, "clean", 2),
                    Proofs(1, "caution", 1), Proofs(1, "adverse", 0)>>,
     coProof |-> Known, statement |-> Known, lines |-> <<80, 20>>, coStatement |-> Known,
     balance |-> <<20000, 9000, -1, 1000>>, bounces |-> <<0, -1, 2>>,
     purpose |-> Known, endUse |-> Known, houseProof |-> Known, businessProof |-> Known,
     assets |-> <<1, 0>>, references |-> Known, tvr |-> Known, fraudCall |-> Known]

PhaseOneLadder ==
    [cibil |-> <<780, -1, 600, 0>>, coCibil |-> <<720, 0, 600>>, age |-> <<30, -1, 70>>,
     debt |-> <<100, -1, 500>>, negative |-> Against, distance |-> <<10, -1, 30>>,
     address |-> <<"PASSED", "PASSED_WITH_MD_OVERRIDE", "BLOCKED">>,
     scoring |-> <<"PASSED", "BLOCKED", "PENDING">>,
     failed |-> Against, deviations |-> Against, confidence |-> <<90, 60, 59, 0>>]

\* What the system sheet says is fixed; the manual sheet drifts away from it.
CamLadder ==
    LET Sheets(system, manuals) == [i \in DOMAIN manuals |-> Pair(system, manuals[i])]
    IN [name |-> <<"same", "missing", "reordered", "differ">>, pan |-> <<"same", "missing", "differ">>,
        dob |-> <<"same", "swapped", "differ">>,
        loan |-> Sheets(20000, <<20000, Missing, 20400, 20450, 20600>>),
        cibil |-> Sheets(700, <<700, Missing, 701>>), foir |-> Sheets(450, <<45000, 46000, 50000>>),
        income |-> Sheets(30000, <<30000, 30700>>), tenure |-> Sheets(24, <<24, 36>>)]

\* The documents of a file whose checklist is complete, and what may be lost of them.
Bundle ==
    DOMAIN _HARD_REQUIREMENTS \cup _REQUIRED_BASE \cup {"RATION_CARD", "KYC_VOTER", "CIBIL_HTML"}
DocumentCounts ==
    [d \in Bundle \cup {"coapp"} |->
        IF d = "coapp" THEN Against ELSE IF d \in Photographs THEN <<3, 2, 0>> ELSE <<1, 0>>]

\* A case with no co-applicant is judged by the same rules, and scored by the same rows.
Ladder ==
    [address |-> AddressLadder(OwnBills \o <<Bills(<<"coapp">>, << >>)>> \o BillsOfOthers),
     address_alone |-> AddressLadder(OwnBills \o BillsOfOthers),
     credit |-> CreditLadder, banking |-> BankingLadder, trade |-> VisionLadder,
     service |-> VisionLadder, dairy |-> VisionLadder, agreement |-> AgreementLadder,
     documents |-> DocumentLadder, scoring |-> ScoringLadder, scoring_alone |-> ScoringLadder,
     cam |-> CamLadder, checklist |-> DocumentCounts, autorun |-> DocumentCounts,
     phase1 |-> PhaseOneLadder]

ASSUME MaxChangesAssumption == MaxChanges \in [DOMAIN Ladder -> Nat]

(***************************************************************************)
(* The file as the level's rules read it.  f is the value of every field.  *)
(***************************************************************************)
\* Ravi borrows, his father is Om, his wife Asha; the bill is in somebody's name, his
\* son's being Ravi too.
Called(first, sur) == [first |-> first, spelt |-> 0, sur |-> sur]
Scan(name, father) == [name |-> name, father |-> father]
Ravi == Called("ravi", "das")
BillScan(who) ==
    CASE who = "applicant" -> Scan(Ravi, NoName)
      [] who = "coapp" -> Scan(Called("asha", "das"), NoName)
      [] who = "father" -> Scan(Called("om", "das"), NoName)
      [] who = "namesake" -> Scan(Called("om", "kumar"), NoName)
      [] who = "child" -> Scan(Called("ravi", "kumar"), Ravi)
      [] who = "stranger" -> Scan(Called("raju", "kumar"), NoName)
      [] who = "unread" -> Unread
BillOf(coapp, f) ==
    LET Scans(whose) == [i \in DOMAIN whose |-> BillScan(whose[i])]
        bill == ration_bill(Scans(f.bills.ration), Scans(f.bills.electricity))
        aadhaar == _scan_all_and_merge(<<Scan(Ravi, NoName), Scan(NoName, Called("om", "das"))>>)
        pan == IF f.pan THEN Scan(Ravi, NoName) ELSE Unread
    IN [owner |-> bill.name, via |-> bill.father,
        applicant |-> party_name(pan, aadhaar), appFather |-> aadhaar.father,
        coapp |-> IF coapp THEN Called("asha", "das") ELSE NoName, coFather |-> NoName,
        parties |-> IF f.parties THEN {Called("om", "das"), Called("asha", "das")} ELSE {}]

AddressIssues(coapp, f) ==
    [coapp_address |-> coapp_address(TRUE, IF coapp THEN f.coAddress ELSE "missing"),
     gps_vs_aadhaar |-> gps_vs_aadhaar(TRUE, f.places.gps),
     commute |-> IF f.places.dm = "unasked" THEN "ok"
                 ELSE commute(f.places.dm, f.places.minutes, f.places.judge),
     bureau_bank |-> outside_address(TRUE, outside_addresses(f.bureau)),
     ration_owner_rule |-> ration_owner_rule(BillOf(coapp, f))]

Analyst(a) ==
    [failed |-> a = "failed", rec |-> "approve", verdict |-> IF a = "failed" THEN "clean" ELSE a]
Report(who, r) == [of |-> who, exact |-> TRUE, hit |-> TRUE, marks |-> r.marks, score |-> r.score]
CreditFile(f) ==
    [rows |-> IF f.report THEN <<Report("ravi", f.applicant), Report("asha", f.coapp)>> ELSE << >>,
     applicant |-> "ravi", coapp |-> "asha", analyst |-> Analyst(f.analyst)]

BankingFile(f) ==
    [tenure |-> 24, lines |-> f.lines, months |-> IF f.lines THEN f.months ELSE -1,
     income |-> f.income,
     loan |-> f.loan, failed |-> f.failed, bounces |-> f.bounces, balance |-> f.balance,
     credits |-> f.credits, payers |-> f.payers, impulsive |-> f.impulsive,
     concerns |-> f.concerns]

VisionFile(type, f) ==
    [house |-> f.house.end, rating |-> f.house.rating, biz |-> f.biz, type |-> type,
     stock |-> f.stock.worth, items |-> f.stock.items, equipment |-> f.equipment.worth,
     machines |-> f.equipment.items, recommended |-> f.recommended, loan |-> f.loan,
     cattle |-> f.cattle, health |-> f.health, infra |-> f.infra]

DocumentFile(f) ==
    [dedupe |-> f.dedupe, matches |-> f.matches, tvr |-> f.tvr, nach |-> f.nach,
     cheque |-> f.cheque.is, bank |-> f.cheque.bank, ifsc |-> f.cheque.ifsc,
     tail |-> f.cheque.tail, holder |-> f.cheque.holder]

AgreementFile(f) ==
    [pdf |-> agreement_artifact(f.filed) # "none", scan |-> f.scan, annexure |-> f.annexure,
     clause |-> f.clause, assets |-> f.assets]

ScoringFile(coapp, f) ==
    [coapp |-> coapp, report |-> TRUE, emi |-> 8000, sources |-> f.proof.sources,
     proofVerdict |-> f.proof.verdict, proof |-> f.proof.onFile, income |-> f.income,
     other |-> f.other, credits |-> f.credits, cibil |-> f.cibil.score,
     scored |-> f.cibil.scored, coCibil |-> f.coCibil,
     pastDue |-> f.pastDue, writtenOff |-> f.writtenOff, enquiries |-> f.enquiries,
     l1 |-> f.l1, gps |-> f.gps, foir |-> f.foir, area |-> f.area, dscr |-> f.dscr,
     deviations |-> f.deviations, qr |-> f.qr, coProof |-> f.coProof,
     statement |-> f.statement, lines |-> f.lines, coStatement |-> f.coStatement,
     balance |-> f.balance, bounces |-> f.bounces, purpose |-> f.purpose,
     endUse |-> f.endUse, houseProof |-> f.houseProof, businessProof |-> f.businessProof,
     assets |-> f.assets, references |-> f.references, tvr |-> f.tvr,
     fraudCall |-> f.fraudCall]

Issues(l, f) ==
    CASE l \in {"address", "address_alone"} -> AddressIssues(l = "address", f)
      [] l = "credit" -> CreditIssues(CreditFile(f))
      [] l = "banking" -> BankingIssues(BankingFile(f))
      [] l \in {"trade", "service", "dairy"} ->
            VisionIssues(VisionFile(IF l = "dairy" THEN "cattle_dairy" ELSE l, f))
      [] l = "agreement" -> AgreementIssues(AgreementFile(f))
      [] l = "documents" -> DedupeTvrIssues(DocumentFile(f))
      [] l \in {"scoring", "scoring_alone"} -> ScoringIssues(ScoringFile(l = "scoring", f))

\* What the run says of the rules that left no issue; level 5 has its rows instead.
AddressEvidenceFile(coapp, f) ==
    [aadhaar |-> TRUE, coAddress |-> IF coapp THEN f.coAddress ELSE "missing",
     kind |-> f.places.gps.kind, bill |-> BillOf(coapp, f), bureau |-> outside_addresses(f.bureau),
     minutes |-> IF f.places.dm = "ok" THEN f.places.minutes ELSE "unknown"]
Evidence(l, f, fired) ==
    CASE l \in {"address", "address_alone"} ->
            build_pass_evidence_l1(AddressEvidenceFile(l = "address", f), fired)
      [] l = "credit" -> build_pass_evidence_l1_5(CreditFile(f), fired)
      [] l = "banking" -> build_pass_evidence_l2(BankingFile(f), fired)
      [] l \in {"trade", "service", "dairy"} ->
            build_pass_evidence(VisionFile(IF l = "dairy" THEN "cattle_dairy" ELSE l, f), fired)
      [] l = "agreement" -> build_pass_evidence_l4(AgreementFile(f), fired)
      [] l = "documents" -> DedupeTvrEvidence(DocumentFile(f))
      [] OTHER -> << >>

Decision(f) ==
    final_decision(f, {f.address, f.scoring},
                   [failed |-> f.failed, deviations |-> f.deviations,
                    confidence |-> f.confidence, decision |-> "APPROVE"])

\* Phase 1 passes a file it approves; the CAM gate and the document checks have no rules
\* an administrator can switch off.
Passes(ok) == IF ok THEN "PASSED" ELSE "BLOCKED"
Unruled == {"phase1", "cam", "checklist", "autorun"}
Outcome(l, f, off) ==
    CASE l = "phase1" -> Passes(Decision(f) = "APPROVE")
      [] l = "cam" -> LevelVerdict(detect_discrepancies(f))
      [] l = "checklist" -> Passes(validate_completeness(f) = {})
      [] l = "autorun" -> Passes(compute_missing_required_artifacts(f, f["coapp"]) = {})
      [] OTHER -> LevelVerdict(filter_suppressed_issues(Issues(l, f), off))

(***************************************************************************)
(* Changes, each followed by a run                                         *)
(***************************************************************************)
Fields == DOMAIN Ladder[level]
FileAt(p) == [x \in Fields |-> Ladder[level][x][p[x]]]
File == FileAt(pos)

\* The best file and the worst one.
Init ==
    /\ level \in DOMAIN Ladder
    /\ pos \in {[x \in Fields |-> 1], [x \in Fields |-> Len(Ladder[level][x])]}
    /\ suppressed = {} /\ changes = 0
    /\ verdict = Outcome(level, FileAt(pos), {})

\* The run after a change: its verdict is of the file and the overrides as they now are.
run_level(p, off) ==
    /\ changes' = changes + 1
    /\ pos' = p /\ suppressed' = off /\ verdict' = Outcome(level, FileAt(p), off)
    /\ UNCHANGED level

Worsens(x) ==
    \E p \in DOMAIN Ladder[level][x] : p > pos[x] /\ run_level([pos EXCEPT ![x] = p], suppressed)
Improves(x) ==
    \E p \in DOMAIN Ladder[level][x] : p < pos[x] /\ run_level([pos EXCEPT ![x] = p], suppressed)

\* The rules that say evidence is missing or could not be read stand for the rules
\* that would have judged it.  In level 5 so does row 3, the bureau score: with a score,
\* however bad, row 8 takes the enquiries for few when none is listed.
StandIns ==
    {"bank_statement_missing", "ca_analyzer_failed", "house_scorer_failed",
     "business_scorer_failed", "loan_agreement_missing", "loan_agreement_scan_failed",
     "pdc_present"}
Judging ==
    CASE level \in Unruled -> {}
      [] level = "credit" -> {r \in Fired(Issues(level, File)) : r[1] # "case"}
      [] level \in {"scoring", "scoring_alone"} ->
            Fired(Issues(level, File)) \ {<<"row", 3>>}
      [] OTHER -> Fired(Issues(level, File)) \ StandIns

\* PUT /admin/rules/{id}, of a rule that fired, and its DELETE.
upsert_rule_override(r) == r \notin suppressed /\ run_level(pos, suppressed \cup {r})
clear_rule_override(r) == run_level(pos, suppressed \ {r})

Next ==
    /\ changes < MaxChanges[level]
    /\ \/ \E x \in Fields : Worsens(x) \/ Improves(x)
       \/ \E r \in Judging : upsert_rule_override(r)
       \/ \E r \in suppressed : clear_rule_override(r)

Spec == Init /\ [][Next]_vars

-----------------------------------------------------------------------------
TypeOK ==
    /\ level \in DOMAIN Ladder /\ DOMAIN pos = Fields
    /\ \A x \in Fields : pos[x] \in DOMAIN Ladder[level][x]
    /\ verdict \in {"PASSED", "BLOCKED"} /\ changes \in 0..MaxChanges[level]

\* No level, nor Phase 1, turns from blocking a file to passing it because evidence got
\* worse while the rule overrides stayed: whatever rules replace one another when a
\* model call fails or a document is missing, and however rows add up.  Overriding one
\* of the rules that stand for others is excepted (StandIns): with it, a failed call
\* does pass a file the call would have blocked, and a bad bureau score lifts section A.
WorseningKeepsBlocked ==
    suppressed' = suppressed /\ (\A x \in Fields : pos'[x] >= pos[x])
        => (verdict = "BLOCKED" => verdict' = "BLOCKED")
WorseFileNoBetter == [][WorseningKeepsBlocked]_vars

\* A file with nothing against it passes every level: what the rows can never earn
\* (the two that are always pending, the co-applicant's when there is none) does not
\* push a section or the grade below its threshold.
CleanFilePasses ==
    (\A x \in Fields : pos[x] = 1) => verdict = "PASSED"

\* No file earns a section more than the section's points, so a percentage is one.
SectionWithinMaximum ==
    level \in {"scoring", "scoring_alone"} =>
        LET rows == ScoreRows(ScoringFile(level = "scoring", File))
        IN \A s \in DOMAIN SECTIONS : Earned(rows, RowsOf(s)) \in 0..SECTIONS[s]

\* The rules that need the chartered accountant's answer, the CAM's income, the scorer's.
OfAnalysis ==
    {"nach_bounces", "avg_balance_vs_emi", "credits_vs_declared_income",
     "single_payer_concentration", "impulsive_debit_overspend", "chronic_low_balance",
     "ca_narrative_concerns"}
OfIncome ==
    {"credits_vs_declared_income", "single_payer_concentration", "impulsive_debit_overspend"}
OfPremises ==
    {"stock_vs_loan", "loan_amount_reduction", "cattle_health", "business_infrastructure"}

\* Rules the level had nothing to judge by: a document or a number they compare is
\* missing, a call failed, or another rule's issue stands for them.
Unjudged(l, f) ==
    CASE l \in {"address", "address_alone"} ->
            Only("coapp_address", l = "address_alone" \/ f.coAddress = "missing")
            \cup Only("gps_vs_aadhaar", f.places.gps.kind = "no_coords")
            \cup Only("commute", f.places.dm \in {"unasked", "error"})
            \cup Only("ration_owner_rule", BillOf(l = "address", f).owner = NoName)
            \cup Only("bureau_bank", outside_addresses(f.bureau) = {})
      [] l = "credit" ->
            (IF f.report THEN {} ELSE {"applicant", "co_applicant"} \X Marks)
            \cup Only(<<"applicant", "credit_score_floor">>, ~f.report \/ f.applicant.score = -1)
            \cup Only(<<"co_applicant", "credit_score_floor">>, ~f.report \/ f.coapp.score = -1)
            \cup Only(<<"case", "opus_credit_verdict">>, ~f.report \/ f.analyst = "failed")
      [] l = "banking" ->
            (IF f.lines /\ ~f.failed THEN {} ELSE OfAnalysis)
            \cup Only("bank_statement_months_coverage", ~f.lines \/ f.months = -1)
            \cup Only("avg_balance_vs_emi", f.loan = 0)
            \cup (IF f.income = 0 THEN OfIncome ELSE {})
      [] l \in {"trade", "service", "dairy"} ->
            Only("house_living_condition", f.house.end # "scored")
            \cup (IF f.biz = "scored" THEN {} ELSE OfPremises)
            \cup Only("stock_vs_loan", f.loan = 0)
            \cup Only("loan_amount_reduction", f.loan = 0 \/ f.recommended = 0)
            \cup Only("cattle_health", l # "dairy" \/ f.cattle = 0)
      [] l = "agreement" ->
            IF f.filed # {} /\ f.scan = "ok" THEN {}
            ELSE {"loan_agreement_annexure", "hypothecation_clause", "asset_annexure_empty"}
      [] l = "documents" ->
            IF f.cheque.is = "cheque" /\ f.cheque.bank THEN {} ELSE {"pdc_matches_bank"}
      [] OTHER -> {}

\* Where the code shows one of them as passed all the same: the applicant's statuses without
\* a report; the bounces, payers and concerns of a statement that was never analysed;
\* the rules of photos there are none of, or that got an answer which is not JSON; the
\* loan amount compared with no amount.
ShownAnyway(l, f) ==
    CASE l = "credit" -> IF f.report THEN {} ELSE {"applicant"} \X Marks
      [] l = "banking" ->
            IF f.lines /\ ~f.failed THEN {}
            ELSE {"nach_bounces", "ca_narrative_concerns", "single_payer_concentration"}
      [] l \in {"trade", "service", "dairy"} ->
            Only("house_living_condition", f.house.end # "failed")
            \cup (IF f.biz = "failed" THEN {} ELSE OfPremises \ {"cattle_health"})
      [] OTHER -> {}

\* The rules shown as passed after a run.
Shown ==
    ShownPassed(Evidence(level, File,
                         Fired(filter_suppressed_issues(Issues(level, File), suppressed))))
ShowsCards == level \notin Unruled \cup {"scoring", "scoring_alone"}

\* What the assessor sees as passed had something to judge by, the exceptions of
\* ShownAnyway apart; and if the rule did fire, an administrator has switched it off
\* (the run lists it under suppressed_rules).
EvidenceBacked ==
    ShowsCards => /\ Shown \cap Unjudged(level, File) \subseteq ShownAnyway(level, File)
                  /\ Shown \cap Fired(Issues(level, File)) \subseteq suppressed
=============================================================================
