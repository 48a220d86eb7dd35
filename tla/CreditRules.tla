----------------------------- MODULE CreditRules ------------------------------
(***************************************************************************)
(* The rules of verification level 1.5 (level_1_5_credit.py): which bureau *)
(* reports stand for the applicant and the co-applicant, what their        *)
(* account statuses and scores fire, and what the AI credit analyst adds.  *)
(*                                                                         *)
(* A report is [of, exact, hit, marks, score]: whose name it bears, spelt  *)
(* as on the case or not, whether the bureau knows the person, the         *)
(* derogatory statuses of the accounts, the score (-1 without one).  The   *)
(* reports on file are a sequence, newest first.                           *)
(***************************************************************************)
EXTENDS LevelRules, Sequences

Marks == {"write_off", "loss", "settled", "substandard", "doubtful", "sma"}
BlockingMarks == {"write_off", "loss", "settled"}

cross_check_status(marks, m) ==
    Flag(m \in marks, IF m \in BlockingMarks THEN "CRITICAL" ELSE "WARNING")

\* No score, or a negative one (a newcomer to credit), is not judged.
cross_check_credit_score(score) ==
    CASE score < 0 -> "ok"
      [] score \in 0..679 -> "CRITICAL"
      [] score \in 680..699 -> "WARNING"
      [] OTHER -> "ok"

(***************************************************************************)
(* Which report is whose.  0 stands for none.                              *)
(***************************************************************************)
Newest(S) == IF S = {} THEN 0 ELSE CHOOSE i \in S : \A j \in S : i <= j

\* The reports among S that bear the name, those that spell it as the case does first.
Named(rows, S, name) ==
    LET mine == {i \in S : rows[i].of = name}
        spelt == {i \in mine : rows[i].exact}
    IN IF spelt # {} THEN spelt ELSE mine

Highest(rows, S) == {i \in S : \A j \in S : rows[j].score <= rows[i].score}

\* Seeded fault: reports without a bureau hit take part.
PickAmongAll(rows, name) ==
    LET mine == Named(rows, DOMAIN rows, name)
    IN Newest(IF mine # {} THEN mine ELSE Highest(rows, DOMAIN rows))
_pick_primary_equifax(rows, name) ==
    LET hits == {i \in DOMAIN rows : rows[i].hit}
        pool == IF hits # {} THEN hits ELSE DOMAIN rows
        mine == Named(rows, pool, name)
    IN Newest(IF mine # {} THEN mine ELSE Highest(rows, pool))

_pick_co_applicant_equifax(rows, primary, name) ==
    LET others == DOMAIN rows \ {primary}
        mine == Named(rows, others, name)
    IN Newest(IF mine # {} THEN mine ELSE others)

(***************************************************************************)
(* The run.  f.rows are the reports, f.applicant and f.coapp the names on  *)
(* the case ("" without one), f.analyst what the AI answers.  A rule is    *)
(* <<whose accounts, rule>>.                                               *)
(***************************************************************************)
Primary(f) == _pick_primary_equifax(f.rows, f.applicant)
CoReport(f) == _pick_co_applicant_equifax(f.rows, Primary(f), f.coapp)

PartyIssues(rows, i, party) ==
    [r \in {party} \X (Marks \cup {"credit_score_floor"}) |->
        IF i = 0 THEN "ok"
        ELSE IF r[2] \in Marks THEN cross_check_status(rows[i].marks, r[2])
        ELSE cross_check_credit_score(rows[i].score)]

opus_credit_verdict(a) ==
    CASE a.rec = "reject" \/ a.verdict = "adverse" -> "CRITICAL"
      [] a.rec # "reject" /\ a.verdict # "adverse"
            /\ (a.rec = "escalate_md" \/ a.verdict = "caution") -> "WARNING"
      [] OTHER -> "ok"

CaseIssues(f) ==
    LET missing == f.rows = << >>
    IN [r \in {"case"} \X {"bureau_report_missing", "credit_analyst_failed", "opus_credit_verdict"} |->
          CASE r[2] = "bureau_report_missing" -> Flag(missing, "CRITICAL")
            [] r[2] = "credit_analyst_failed" -> Flag(~missing /\ f.analyst.failed, "WARNING")
            [] r[2] = "opus_credit_verdict" ->
                 IF missing \/ f.analyst.failed THEN "ok" ELSE opus_credit_verdict(f.analyst)]

CreditIssues(f) ==
    LET app == PartyIssues(f.rows, Primary(f), "applicant")
        co == PartyIssues(f.rows, CoReport(f), "co_applicant")
        both == CaseIssues(f)
    IN [r \in DOMAIN app \cup DOMAIN co \cup DOMAIN both |->
          IF r \in DOMAIN app THEN app[r] ELSE IF r \in DOMAIN co THEN co[r] ELSE both[r]]
=============================================================================
