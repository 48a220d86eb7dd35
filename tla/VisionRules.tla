------------------------------ MODULE VisionRules -----------------------------
(***************************************************************************)
(* The rules of verification level 3 (level_3_vision.py) over what the     *)
(* photo scorers answer (services/vision_scorers.py).                      *)
(*                                                                         *)
(* v is [house, rating, biz, type, stock, equipment, items, machines,      *)
(* recommended, loan, cattle, health, infra]: how each scorer ended        *)
(* ("scored", "failed", "garbled", "no_photos") and its estimates, 0 or    *)
(* "none" when it gives none; items and machines are the sums of the       *)
(* itemised lists.                                                         *)
(***************************************************************************)
EXTENDS LevelRules

\* Every scorer: nothing to score is no error, a failed call is, and so is an answer
\* that is not JSON.
score(photos, answer) ==
    CASE photos = 0 -> "no_photos"
      [] photos > 0 /\ answer = "json" -> "scored"
      [] photos > 0 /\ answer = "text" -> "garbled"
      [] photos > 0 /\ answer = "none" -> "failed"

cross_check_house_rating(rating) ==
    CASE rating \in {"ok", "good", "excellent"} -> "ok"
      [] rating \in {"bad", "worst"} -> "CRITICAL"
      [] OTHER -> "WARNING"

\* What secures the loan: a service business's machines count with its stock.
Collateral(v) == v.stock + (IF v.type = "service" THEN v.equipment ELSE 0)

cross_check_stock_vs_loan(v) ==
    CASE v.loan = 0 -> "ok"
      [] v.loan > 0 /\ v.type = "service" -> Flag(10 * Collateral(v) < 4 * v.loan, "CRITICAL")
      [] v.loan > 0 /\ v.type # "service" ->
            IF v.stock = 0 \/ Collateral(v) >= v.loan THEN "ok"
            ELSE IF 2 * Collateral(v) < v.loan THEN "CRITICAL" ELSE "WARNING"

cross_check_loan_amount_reduction(v) ==
    Flag(v.recommended > 0 /\ v.loan > 0 /\ 10 * v.recommended < 8 * v.loan, "WARNING")

cross_check_cattle_health(v) ==
    Flag(v.health = "unhealthy" /\ v.type \in {"cattle_dairy", "mixed"} /\ v.cattle > 0,
         "CRITICAL")

cross_check_infrastructure_rating(rating) ==
    CASE rating = "worst" -> "CRITICAL" [] rating = "bad" -> "WARNING" [] OTHER -> "ok"

\* Claim and itemised sum drift apart by more than a fifth of the larger.
Drifts(claim, sum) ==
    LET larger == IF claim >= sum THEN claim ELSE sum
        apart == IF claim >= sum THEN claim - sum ELSE sum - claim
    IN 5 * apart > larger
cross_check_aggregate_drift(v) ==
    Flag(Drifts(v.stock, v.items) \/ Drifts(v.equipment, v.machines), "WARNING")

\* Without photos the house has no rating, and the business nothing to flag.
VisionIssues(v) ==
    LET OfBusiness(sev) == IF v.biz = "scored" THEN sev ELSE "ok"
        Failed(end) == end \in {"failed", "garbled"}
    IN [house_scorer_failed |-> Flag(Failed(v.house), "CRITICAL"),
        house_living_condition |->
            CASE Failed(v.house) -> "ok"
              [] v.house = "no_photos" -> cross_check_house_rating("none")
              [] v.house = "scored" -> cross_check_house_rating(v.rating),
        business_scorer_failed |-> Flag(Failed(v.biz), "CRITICAL"),
        stock_vs_loan |-> OfBusiness(cross_check_stock_vs_loan(v)),
        loan_amount_reduction |-> OfBusiness(cross_check_loan_amount_reduction(v)),
        cattle_health |-> OfBusiness(cross_check_cattle_health(v)),
        business_infrastructure |-> OfBusiness(cross_check_infrastructure_rating(v.infra)),
        stock_aggregate_drift |-> OfBusiness(cross_check_aggregate_drift(v))]
=============================================================================
