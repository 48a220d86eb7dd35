------------------------------ MODULE LevelProofs ------------------------------
(***************************************************************************)
(* What the runs of the verification levels, of Phase 1 and of the         *)
(* document checks promise, for any number of changes of the file and of   *)
(* the overrides: a section of the audit earns no more than it has, a      *)
(* worse file does not pass where the better one is blocked, a clean file  *)
(* passes, and no rule is shown as passed without something to judge by.   *)
(*                                                                         *)
(* Every level has a lemma that it keeps its critical issues on a worse    *)
(* file and one that the best file has none; the sums of level 5 come      *)
(* first, then the levels one by one, then their runs.                     *)
(***************************************************************************)
EXTENDS LevelRuns, FiniteSetTheorems, SequenceTheorems, WellFoundedInduction, TLAPS

\* A set of naturals has a least one.
LEMMA LeastOfNats ==
    ASSUME NEW S \in SUBSET Nat, S # {}
    PROVE  \E i \in S : \A j \in S : i <= j
<1> DEFINE R == {p \in Nat \X Nat : p[1] < p[2]}
<1>1. IsWellFoundedOn(R, Nat)
  BY NatLessThanWellFounded DEF OpToRel
<1> HIDE DEF R
<1>2. PICK i \in S : \A j \in S : ~ (<<j, i>> \in R)
  BY <1>1, WFMin
<1>3. \A j \in S : ~ (j < i)
  BY <1>2 DEF R
<1> QED
  BY <1>3

(***************************************************************************)
(* The ladders of LevelRuns                                                *)
(***************************************************************************)
\* A ladder has a first and a last rung.
Rungs(s) == 1 \in DOMAIN s /\ Len(s) \in DOMAIN s

LEMMA AddressRungs ==
    ASSUME NEW bills, Rungs(bills)
    PROVE  \A x \in DOMAIN AddressLadder(bills) : Rungs(AddressLadder(bills)[x])
BY DEF AddressLadder, Rungs, Known, Against

LEMMA CreditRungs == \A x \in DOMAIN CreditLadder : Rungs(CreditLadder[x])
BY DEF CreditLadder, Rungs, Known, Against

LEMMA BankingRungs == \A x \in DOMAIN BankingLadder : Rungs(BankingLadder[x])
BY DEF BankingLadder, Rungs, Known, Against

LEMMA VisionRungs == \A x \in DOMAIN VisionLadder : Rungs(VisionLadder[x])
BY DEF VisionLadder, Rungs, Known, Against

LEMMA AgreementRungs == \A x \in DOMAIN AgreementLadder : Rungs(AgreementLadder[x])
BY DEF AgreementLadder, Rungs, Known, Against

LEMMA DocumentRungs == \A x \in DOMAIN DocumentLadder : Rungs(DocumentLadder[x])
BY DEF DocumentLadder, Rungs, Known, Against

LEMMA PhaseOneRungs == \A x \in DOMAIN PhaseOneLadder : Rungs(PhaseOneLadder[x])
BY DEF PhaseOneLadder, Rungs, Known, Against

LEMMA CountRungs == \A x \in DOMAIN DocumentCounts : Rungs(DocumentCounts[x])
BY DEF DocumentCounts, Against, Rungs

LEMMA BillRungs ==
    Rungs(OwnBills \o <<Bills(<<"coapp">>, << >>)>> \o BillsOfOthers)
    /\ Rungs(OwnBills \o BillsOfOthers)
BY DEF OwnBills, BillsOfOthers, Rungs

LEMMA ScoringRungs == \A x \in DOMAIN ScoringLadder : Rungs(ScoringLadder[x])
<1> DEFINE L == ScoringLadder
           R(x) == Rungs(L[x])
<1>1. R("income") /\ R("other") /\ R("credits") /\ R("cibil") /\ R("coCibil")
  BY DEF ScoringLadder, BureauScores, Known, Against, Rungs
<1>2. R("pastDue") /\ R("writtenOff") /\ R("enquiries") /\ R("l1") /\ R("gps")
  BY DEF ScoringLadder, Known, Against, Rungs
<1>3. R("foir") /\ R("area") /\ R("dscr") /\ R("deviations") /\ R("qr")
  BY DEF ScoringLadder, Known, Against, Rungs
<1>4. R("proof") /\ R("coProof") /\ R("statement") /\ R("lines") /\ R("coStatement")
  BY DEF ScoringLadder, Known, Against, Rungs
<1>5. R("balance") /\ R("bounces") /\ R("purpose") /\ R("endUse") /\ R("houseProof")
  BY DEF ScoringLadder, Known, Against, Rungs
<1>6. R("businessProof") /\ R("assets") /\ R("references") /\ R("tvr") /\ R("fraudCall")
  BY DEF ScoringLadder, Known, Against, Rungs
<1>7. DOMAIN L = {"income", "other", "credits", "cibil", "coCibil", "pastDue",
                 "writtenOff", "enquiries", "l1", "gps", "foir", "area",
                 "dscr", "deviations", "qr", "proof", "coProof", "statement",
                 "lines", "coStatement", "balance", "bounces", "purpose", "endUse",
                 "houseProof", "businessProof", "assets", "references", "tvr", "fraudCall"}
  BY DEF ScoringLadder
<1>8. \A x \in DOMAIN L : R(x)
  <2> HIDE DEF L, R
  <2> QED
    BY <1>1, <1>2, <1>3, <1>4, <1>5, <1>6, <1>7
<1> QED
  BY <1>8

LEMMA CamRungs == \A x \in DOMAIN CamLadder : Rungs(CamLadder[x])
<1> DEFINE Sheets(system, manuals) == [i \in DOMAIN manuals |-> Pair(system, manuals[i])]
           L == CamLadder
           R(x) == Rungs(L[x])
<1>1. ASSUME NEW s, NEW m \in Seq(Int), Rungs(m)
      PROVE  Rungs(Sheets(s, m))
  <2>1. DOMAIN Sheets(s, m) = 1..Len(m) /\ Len(m) \in Nat
    BY LenProperties
  <2> HIDE DEF Sheets
  <2>2. Len(Sheets(s, m)) = Len(m)
    BY <2>1
  <2> QED
    BY <1>1, <2>1, <2>2 DEF Rungs
<1>2. R("name") /\ R("pan") /\ R("dob")
  BY DEF CamLadder, Rungs
<1>3. L.loan = Sheets(20000, <<20000, Missing, 20400, 20450, 20600>>)
  BY DEF CamLadder
<1>4. L.cibil = Sheets(700, <<700, Missing, 701>>)
  BY DEF CamLadder
<1>5. L.foir = Sheets(450, <<45000, 46000, 50000>>)
  BY DEF CamLadder
<1>6. L.income = Sheets(30000, <<30000, 30700>>) /\ L.tenure = Sheets(24, <<24, 36>>)
  BY DEF CamLadder
<1>7. R("loan") /\ R("cibil") /\ R("foir") /\ R("income") /\ R("tenure")
  <2>1. ASSUME NEW s, NEW a \in Int, NEW b \in Int
        PROVE  Rungs(Sheets(s, <<a, b>>))
    <3>1. <<a, b>> \in Seq(Int) /\ Rungs(<<a, b>>)
      BY DEF Rungs
    <3> HIDE DEF Sheets
    <3> QED
      BY <1>1, <3>1
  <2>2. ASSUME NEW s, NEW a \in Int, NEW b \in Int, NEW c \in Int
        PROVE  Rungs(Sheets(s, <<a, b, c>>))
    <3>1. <<a, b, c>> \in Seq(Int) /\ Rungs(<<a, b, c>>)
      BY DEF Rungs
    <3> HIDE DEF Sheets
    <3> QED
      BY <1>1, <3>1
  <2>3. ASSUME NEW s, NEW a \in Int, NEW b \in Int, NEW c \in Int, NEW d \in Int, NEW e \in Int
        PROVE  Rungs(Sheets(s, <<a, b, c, d, e>>))
    <3>1. <<a, b, c, d, e>> \in Seq(Int) /\ Rungs(<<a, b, c, d, e>>)
      BY DEF Rungs
    <3> HIDE DEF Sheets
    <3> QED
      BY <1>1, <3>1
  <2>4. Missing \in Int
    BY DEF Missing
  <2>5. Rungs(Sheets(20000, <<20000, Missing, 20400, 20450, 20600>>))
    <3> HIDE DEF Sheets
    <3> QED
      BY <2>3, <2>4
  <2>6. Rungs(Sheets(700, <<700, Missing, 701>>))
    <3> HIDE DEF Sheets
    <3> QED
      BY <2>2, <2>4
  <2>7. Rungs(Sheets(450, <<45000, 46000, 50000>>))
    <3> HIDE DEF Sheets
    <3> QED
      BY <2>2
  <2>8. Rungs(Sheets(30000, <<30000, 30700>>)) /\ Rungs(Sheets(24, <<24, 36>>))
    <3> HIDE DEF Sheets
    <3> QED
      BY <2>1
  <2> HIDE DEF Sheets, L
  <2> QED
    BY <1>3, <1>4, <1>5, <1>6, <2>5, <2>6, <2>7, <2>8
<1>8. DOMAIN L = {"name", "pan", "dob", "loan", "cibil", "foir", "income", "tenure"}
  BY DEF CamLadder
<1>9. \A x \in DOMAIN L : R(x)
  <2> HIDE DEF L, R
  <2> QED
    BY <1>2, <1>7, <1>8
<1> QED
  BY <1>9

(***************************************************************************)
(* The points of level 5                                                   *)
(***************************************************************************)
\* What a scoring context must be for its rows to be scored: numbers where rows compare
\* them, an outcome of level 1 and one of the match of the photos' coordinates.
IsContext(c) ==
    /\ c.enquiries \in Int /\ c.foir \in Int /\ c.balance \in Int /\ c.emi \in Int
    /\ c.l1 \in {"not_run", "flagged", "approved", "clear"}
    /\ c.gps \in {"match", "doubtful", "mismatch", "unknown"}

LEMMA GradeScore ==
    ASSUME NEW x
    PROVE  Grade(x, {75, 90, 100, 120}).score \in 0..4
<1> DEFINE M == {75, 90, 100, 120}
           got == {m \in M : x >= m}
<1>1. IsFiniteSet(M) /\ Cardinality(M) = 4
  <2>1. IsFiniteSet({}) /\ Cardinality({}) = 0
    BY FS_EmptySet
  <2>2. IsFiniteSet({75}) /\ Cardinality({75}) = 1
    BY FS_Singleton
  <2>3. IsFiniteSet({75, 90}) /\ Cardinality({75, 90}) = 2
    <3>1. {75, 90} = {75} \cup {90}
      OBVIOUS
    <3> QED
      BY <2>2, <3>1, FS_AddElement
  <2>4. IsFiniteSet({75, 90, 100}) /\ Cardinality({75, 90, 100}) = 3
    <3>1. {75, 90, 100} = {75, 90} \cup {100}
      OBVIOUS
    <3> QED
      BY <2>3, <3>1, FS_AddElement
  <2> QED
    <3>1. M = {75, 90, 100} \cup {120}
      OBVIOUS
    <3> QED
      BY <2>4, <3>1, FS_AddElement
<1>2. Cardinality(got) \in Nat /\ Cardinality(got) <= 4
  <2>1. got \subseteq M
    OBVIOUS
  <2> HIDE DEF M, got
  <2> QED
    BY <1>1, <2>1, FS_Subset, FS_CardinalityType
<1>3. Grade(x, M) = _graded(Cardinality(got))
  BY Zenon DEF Grade
<1> HIDE DEF got
<1> QED
  BY <1>2, <1>3 DEF _graded, _fail

LEMMA SectionAScores ==
    ASSUME NEW c, IsContext(c)
    PROVE  /\ r_a01_household_income(c).score \in 0..3
           /\ r_a02_business_vintage.score \in 0..3
           /\ r_a03_applicant_cibil(c).score \in 0..4
           /\ r_a04_coapp_cibil(c).score \in 0..3
           /\ r_a05_unsecured_outstanding(c).score \in 0..4
           /\ r_a06_dpd_12m(c).score \in 0..4
           /\ r_a07_writeoff_settled_3y(c).score \in 0..4
           /\ r_a08_enquiries_3m(c).score \in 0..3
           /\ r_a09_cibil_address_match(c).score \in 0..2
           /\ r_a10_foir(c).score \in 0..4
           /\ r_a11_negative_area(c).score \in 0..2
           /\ r_a12_dscr(c).score \in 0..4
           /\ r_a13_deviation_approved(c).score \in 0..5
<1> USE DEF _pass, _fail, _pending, CATALOG
<1>1. r_a01_household_income(c).score \in 0..3
  BY DEF r_a01_household_income
<1>2. r_a02_business_vintage.score \in 0..3
  BY DEF r_a02_business_vintage
<1>3. r_a03_applicant_cibil(c).score \in 0..4
  BY DEF r_a03_applicant_cibil, IfKnown, Judge
<1>4. r_a04_coapp_cibil(c).score \in 0..3
  BY DEF r_a04_coapp_cibil, NA
<1>5. r_a05_unsecured_outstanding(c).score \in 0..4
  BY DEF r_a05_unsecured_outstanding, OnFile
<1>6. r_a06_dpd_12m(c).score \in 0..4
  BY DEF r_a06_dpd_12m, IfKnown, Judge
<1>7. r_a07_writeoff_settled_3y(c).score \in 0..4
  BY DEF r_a07_writeoff_settled_3y, Judge
<1>8. r_a08_enquiries_3m(c).score \in 0..3
  BY DEF r_a08_enquiries_3m, Judge, OnFile, IsContext
<1>9. r_a09_cibil_address_match(c).score \in 0..2
  BY DEF r_a09_cibil_address_match, IsContext
<1>10. r_a10_foir(c).score \in 0..4
  BY DEF r_a10_foir, _graded, IsContext
<1>11. r_a11_negative_area(c).score \in 0..2
  BY DEF r_a11_negative_area, Judge
<1>12. r_a12_dscr(c).score \in 0..4
  BY GradeScore DEF r_a12_dscr, IfKnown
<1>13. r_a13_deviation_approved(c).score \in 0..5
  BY DEF r_a13_deviation_approved, OnFile
<1> QED
  BY <1>1, <1>2, <1>3, <1>4, <1>5, <1>6, <1>7, <1>8, <1>9, <1>10, <1>11, <1>12, <1>13

LEMMA SectionBScores ==
    ASSUME NEW c, IsContext(c)
    PROVE  /\ r_b14_shop_qr(c).score \in 0..3
           /\ r_b15_qr_owner_match(c).score \in 0..4
           /\ r_b16_income_proof_applicant(c).score \in 0..5
           /\ r_b17_income_proof_coapp(c).score \in 0..4
           /\ r_b18_additional_income(c).score \in 0..3
           /\ r_b19_banking_6_12m(c).score \in 0..3
           /\ r_b20_total_credit(c).score \in 0..2
           /\ r_b21_coapp_banking(c).score \in 0..2
           /\ r_b22_abb_ratio(c).score \in 0..4
           /\ r_b23_no_bouncing(c).score \in 0..3
           /\ r_b24_banking_matches_income(c).score \in 0..2
<1> USE DEF _pass, _fail, _pending, CATALOG
<1>1. r_b14_shop_qr(c).score \in 0..3
  BY DEF r_b14_shop_qr, Judge
<1>2. r_b15_qr_owner_match(c).score \in 0..4
  BY DEF r_b15_qr_owner_match
<1>3. r_b16_income_proof_applicant(c).score \in 0..5
  BY DEF r_b16_income_proof_applicant, Judge
<1>4. r_b17_income_proof_coapp(c).score \in 0..4
  BY DEF r_b17_income_proof_coapp, Judge, NA
<1>5. r_b18_additional_income(c).score \in 0..3
  BY DEF r_b18_additional_income, Judge, OnFile
<1>6. r_b19_banking_6_12m(c).score \in 0..3
  BY DEF r_b19_banking_6_12m, Judge
<1>7. r_b20_total_credit(c).score \in 0..2
  BY DEF r_b20_total_credit, OnFile
<1>8. r_b21_coapp_banking(c).score \in 0..2
  BY DEF r_b21_coapp_banking, NA
<1>9. r_b22_abb_ratio(c).score \in 0..4
  BY DEF r_b22_abb_ratio, _graded, IsContext
<1>10. r_b23_no_bouncing(c).score \in 0..3
  BY DEF r_b23_no_bouncing, IfKnown, Judge
<1>11. r_b24_banking_matches_income(c).score \in 0..2
  BY DEF r_b24_banking_matches_income, Judge
<1> QED
  BY <1>1, <1>2, <1>3, <1>4, <1>5, <1>6, <1>7, <1>8, <1>9, <1>10, <1>11

LEMMA SectionCDScores ==
    ASSUME NEW c
    PROVE  /\ r_c25_loan_purpose(c).score \in 0..3
           /\ r_c26_end_use(c).score \in 0..3
           /\ r_c27_house_ownership(c).score \in 0..2
           /\ r_c28_business_ownership(c).score \in 0..2
           /\ r_c29_additional_assets(c).score \in 0..3
           /\ r_d30_bcm_cross_verification(c).score \in 0..1
           /\ r_d31_tvr(c).score \in 0..3
           /\ r_d32_fraud_call(c).score \in 0..3
BY DEF r_c25_loan_purpose, r_c26_end_use, r_c27_house_ownership, r_c28_business_ownership,
       r_c29_additional_assets, r_d30_bcm_cross_verification, r_d31_tvr, r_d32_fraud_call,
       Judge, OnFile, _pass, _fail, _pending, CATALOG

(***************************************************************************)
(* A sum along a sequence of numbers.                                      *)
(***************************************************************************)
\* f is the running sum of the first n numbers of w.
Sums(w, n, f) == f \in [0..n -> Int] /\ f[0] = 0 /\ \A k \in 1..n : f[k] = f[k - 1] + w[k]

LEMMA SumExtends ==
    ASSUME NEW n \in Nat, n # 0, NEW w, w[n] \in Int, NEW f, Sums(w, n - 1, f)
    PROVE  \E g : Sums(w, n, g)
<1> DEFINE g == [k \in 0..n |-> IF k = n THEN f[n - 1] + w[n] ELSE f[k]]
<1>1. f \in [0..(n - 1) -> Int] /\ f[0] = 0 /\ \A k \in 1..(n - 1) : f[k] = f[k - 1] + w[k]
  BY DEF Sums
<1>2. n - 1 \in 0..(n - 1) /\ f[n - 1] \in Int
  BY <1>1
<1>3. \A k \in 0..n : g[k] \in Int
  BY <1>1, <1>2
<1>4. g \in [0..n -> Int]
  BY <1>3
<1>5. g[0] = 0
  BY <1>1
<1>6. ASSUME NEW k \in 1..n
      PROVE  g[k] = g[k - 1] + w[k]
  <2>1. k - 1 \in 0..n /\ k - 1 # n /\ g[k - 1] = f[k - 1]
    OBVIOUS
  <2>2. CASE k = n
    <3>1. g[k] = f[n - 1] + w[n]
      BY <2>2
    <3> HIDE DEF g
    <3> QED
      BY <2>1, <2>2, <3>1
  <2>3. CASE k # n
    <3>1. k \in 1..(n - 1) /\ g[k] = f[k]
      BY <2>3
    <3> HIDE DEF g
    <3> QED
      BY <1>1, <2>1, <3>1
  <2> QED
    BY <2>2, <2>3
<1> HIDE DEF g
<1>7. Sums(w, n, g)
  BY <1>4, <1>5, <1>6 DEF Sums
<1> QED
  BY <1>7

LEMMA SumExists ==
    ASSUME NEW N \in Nat, NEW w, \A k \in 1..N : w[k] \in Int
    PROVE  \E f : Sums(w, N, f)
<1> DEFINE T == {n \in 0..N : ~\E f : Sums(w, n, f)}
<1>1. CASE T = {}
  <2>1. N \notin T /\ N \in 0..N
    BY <1>1
  <2> QED
    BY <2>1
<1>2. CASE T # {}
  <2>1. T \in SUBSET Nat
    OBVIOUS
  <2>2. PICK n \in T : \A m \in T : n <= m
    <3> HIDE DEF T
    <3> QED
      BY <1>2, <2>1, LeastOfNats
  <2>3. n \in 0..N /\ ~\E f : Sums(w, n, f)
    BY <2>2
  <2>4. n # 0
    <3>1. Sums(w, 0, [k \in 0..0 |-> 0])
      BY DEF Sums
    <3> QED
      BY <2>3, <3>1
  <2>5. n - 1 \in 0..N /\ n \in 1..N
    BY <2>3, <2>4
  <2>6. n - 1 \notin T
    <3> HIDE DEF T
    <3> QED
      BY <2>1, <2>2, <2>3
  <2>7. PICK f : Sums(w, n - 1, f)
    BY <2>5, <2>6
  <2>8. \E g : Sums(w, n, g)
    <3>1. w[n] \in Int
      BY <2>5
    <3> HIDE DEF T
    <3> QED
      BY <2>3, <2>4, <2>7, <3>1, SumExtends
  <2> QED
    BY <2>3, <2>8
<1> QED
  BY <1>1, <1>2

\* The points of a set of rows are a running sum.
LEMMA EarnedSum ==
    ASSUME NEW rs, NEW S, \A n \in 1..32 : rs[n].score \in Int
    PROVE  \E f : Sums([n \in 1..32 |-> IF n \in S THEN rs[n].score ELSE 0], 32, f)
                  /\ Earned(rs, S) = f[32]
<1> DEFINE w == [n \in 1..32 |-> IF n \in S THEN rs[n].score ELSE 0]
           Next1(f) == [n \in 0..32 |-> IF n = 0 THEN 0
                                     ELSE f[n - 1] + (IF n \in S THEN rs[n].score ELSE 0)]
           upTo == CHOOSE f : f = Next1(f)
<1>1. Earned(rs, S) = upTo[32]
  BY DEF Earned
<1>2. \A n \in 1..32 : w[n] \in Int /\ w[n] = (IF n \in S THEN rs[n].score ELSE 0)
  OBVIOUS
<1>3. PICK f : Sums(w, 32, f)
  <2> HIDE DEF w
  <2> QED
    BY <1>2, SumExists
<1>4. f = Next1(f)
  <2>1. f \in [0..32 -> Int] /\ f[0] = 0 /\ \A k \in 1..32 : f[k] = f[k - 1] + w[k]
    <3> HIDE DEF w
    <3> QED
      BY <1>3 DEF Sums
  <2>2. \A n \in 0..32 : f[n] = Next1(f)[n]
    BY <1>2, <2>1
  <2> QED
    BY <2>1, <2>2
<1>5. upTo = Next1(upTo)
  BY <1>4
<1> HIDE DEF upTo
<1>6. upTo = [n \in 0..32 |-> IF n = 0 THEN 0
                              ELSE upTo[n - 1] + (IF n \in S THEN rs[n].score ELSE 0)]
  BY <1>5
<1>7. upTo[0] = 0 /\ \A n \in 1..32 : upTo[n] = upTo[n - 1] + w[n]
  <2> HIDE DEF Next1
  <2>1. upTo[0] = 0
    <3>1. 0 \in 0..32
      OBVIOUS
    <3> QED
      BY <1>6, <3>1
  <2>2. ASSUME NEW n \in 1..32 PROVE upTo[n] = upTo[n - 1] + w[n]
    <3>1. n \in 0..32 /\ n # 0
      OBVIOUS
    <3>2. upTo[n] = IF n = 0 THEN 0 ELSE upTo[n - 1] + (IF n \in S THEN rs[n].score ELSE 0)
      <4> DEFINE value(m) == IF m = 0 THEN 0 ELSE upTo[m - 1] + (IF m \in S THEN rs[m].score ELSE 0)
      <4>1. upTo = [m \in 0..32 |-> value(m)]
        BY Zenon, <1>6
      <4> HIDE DEF value
      <4>2. upTo[n] = value(n)
        BY <4>1, <3>1
      <4> QED
        BY Zenon, <4>2 DEF value
    <3> QED
      BY Zenon, <3>1, <3>2, <1>2
  <2> QED
    BY <2>1, <2>2
<1>8. \A n \in 0..32 : upTo[n] \in Int
  <2> DEFINE T == {n \in 0..32 : upTo[n] \notin Int}
  <2>1. SUFFICES ASSUME T # {} PROVE FALSE
    OBVIOUS
  <2>2. T \in SUBSET Nat
    OBVIOUS
  <2>3. PICK n \in T : \A m \in T : n <= m
    <3> HIDE DEF T
    <3> QED
      BY <2>1, <2>2, LeastOfNats
  <2>4. n \in 0..32 /\ upTo[n] \notin Int
    BY <2>3
  <2>5. n # 0
    BY <1>7, <2>4
  <2>6. n \in 1..32 /\ n - 1 \in 0..32
    BY <2>4, <2>5
  <2>7. n - 1 \notin T
    <3> HIDE DEF T
    <3> QED
      BY <2>3, <2>4
  <2>8. upTo[n - 1] \in Int
    BY <2>6, <2>7
  <2>9. upTo[n] = upTo[n - 1] + w[n] /\ w[n] \in Int
    BY <1>2, <1>7, <2>6
  <2> HIDE DEF w, T
  <2> QED
    BY <2>4, <2>8, <2>9
<1>9. Sums(w, 32, upTo)
  <2>1. upTo \in [0..32 -> Int]
    BY <1>6, <1>8
  <2> HIDE DEF w
  <2> QED
    BY <1>7, <2>1 DEF Sums
<1> QED
  BY Zenon, <1>1, <1>9

\* What the first rows are worth together: Points[n + 1] is the worth of rows 1 to n.
Points == <<0, 3, 6, 10, 13, 17, 21, 25, 28, 30, 34, 36, 40, 45, 48, 52, 57,
            61, 64, 67, 69, 71, 75, 78, 80, 83, 86, 88, 90, 93, 94, 97, 100>>

LEMMA PointsAdd ==
    \A n \in 1..32 : /\ Points[n] \in Nat /\ Points[n + 1] \in Nat
                     /\ CATALOG[n] \in Nat /\ Points[n + 1] = Points[n] + CATALOG[n]
BY DEF Points, CATALOG

\* Rows that earn at most their weights, and nothing outside a..b, earn together at most
\* the weights of a..b.
LEMMA SectionSum ==
    ASSUME NEW a \in 1..32, NEW b \in 1..32, a <= b, NEW w, NEW f, Sums(w, 32, f),
           \A n \in 1..32 : w[n] \in 0..(IF n \in a..b THEN CATALOG[n] ELSE 0)
    PROVE  f[32] \in 0..(Points[b + 1] - Points[a])
<1> DEFINE bound(n) == IF n < a THEN 0
                       ELSE IF n <= b THEN Points[n + 1] - Points[a]
                       ELSE Points[b + 1] - Points[a]
           T == {n \in 0..32 : f[n] \notin 0..bound(n)}
<1>1. f \in [0..32 -> Int] /\ f[0] = 0 /\ \A n \in 1..32 : f[n] = f[n - 1] + w[n]
  BY DEF Sums
<1>2. bound(0) = 0
  OBVIOUS
<1>3. ASSUME NEW n \in 1..32
      PROVE  bound(n) = bound(n - 1) + (IF n \in a..b THEN CATALOG[n] ELSE 0)
             /\ bound(n - 1) \in Int
  <2>1. Points[n] \in Nat /\ Points[n + 1] \in Nat /\ Points[n + 1] = Points[n] + CATALOG[n]
        /\ Points[a] \in Nat /\ Points[b + 1] \in Nat /\ CATALOG[n] \in Nat
    BY PointsAdd
  <2>2. (n - 1) + 1 = n
    OBVIOUS
  <2>3. CASE n < a
    BY <2>3
  <2>4. CASE n = a
    BY <2>1, <2>4
  <2>5. CASE n > a /\ n <= b
    BY <2>1, <2>2, <2>5
  <2>6. CASE n = b + 1
    BY <2>1, <2>2, <2>6
  <2>7. CASE n > b + 1
    BY <2>1, <2>7
  <2> QED
    BY <2>3, <2>4, <2>5, <2>6, <2>7
<1>4. CASE T = {}
  <2>1. 32 \notin T
    BY <1>4
  <2>2. f[32] \in 0..bound(32)
    BY <2>1
  <2>3. bound(32) = Points[b + 1] - Points[a]
    OBVIOUS
  <2> QED
    BY <2>2, <2>3
<1>5. CASE T # {}
  <2>1. T \in SUBSET Nat
    OBVIOUS
  <2>2. PICK n \in T : \A m \in T : n <= m
    <3> HIDE DEF T
    <3> QED
      BY <1>5, <2>1, LeastOfNats
  <2>3. n \in 0..32 /\ f[n] \notin 0..bound(n)
    BY <2>2
  <2>4. n # 0
    BY <1>1, <1>2, <2>3
  <2>5. n \in 1..32 /\ n - 1 \in 0..32
    BY <2>3, <2>4
  <2>6. n - 1 \notin T
    <3> HIDE DEF T
    <3> QED
      BY <2>2, <2>3
  <2>7. f[n - 1] \in 0..bound(n - 1)
    BY <2>5, <2>6
  <2>8. f[n] = f[n - 1] + w[n] /\ w[n] \in 0..(IF n \in a..b THEN CATALOG[n] ELSE 0)
    BY <1>1, <2>5
  <2>9. bound(n) = bound(n - 1) + (IF n \in a..b THEN CATALOG[n] ELSE 0)
        /\ bound(n - 1) \in Int
    BY <1>3, <2>5
  <2>10. (IF n \in a..b THEN CATALOG[n] ELSE 0) \in Nat
    BY PointsAdd, <2>5
  <2> HIDE DEF T, bound
  <2> DEFINE step == IF n \in a..b THEN CATALOG[n] ELSE 0
  <2>11. f[n] \in 0..bound(n)
    <3>1. step \in Nat /\ w[n] \in 0..step /\ bound(n) = bound(n - 1) + step
      BY <2>8, <2>9, <2>10
    <3> HIDE DEF step
    <3> QED
      BY <2>7, <2>8, <2>9, <3>1
  <2> QED
    BY <2>3, <2>11
<1> QED
  BY <1>4, <1>5

LEMMA RowScores ==
    ASSUME NEW c, IsContext(c)
    PROVE  \A n \in 1..32 : ScoreRows(c)[n].score \in 0..CATALOG[n]
<1> DEFINE audit == ScoreRows(c)
<1>1. /\ audit[1].score \in 0..CATALOG[1]
      /\ audit[2].score \in 0..CATALOG[2]
      /\ audit[3].score \in 0..CATALOG[3]
      /\ audit[4].score \in 0..CATALOG[4]
      /\ audit[5].score \in 0..CATALOG[5]
      /\ audit[6].score \in 0..CATALOG[6]
      /\ audit[7].score \in 0..CATALOG[7]
      /\ audit[8].score \in 0..CATALOG[8]
  <2>1. /\ audit[1] = r_a01_household_income(c) /\ CATALOG[1] = 3
        /\ audit[2] = r_a02_business_vintage /\ CATALOG[2] = 3
        /\ audit[3] = r_a03_applicant_cibil(c) /\ CATALOG[3] = 4
        /\ audit[4] = r_a04_coapp_cibil(c) /\ CATALOG[4] = 3
        /\ audit[5] = r_a05_unsecured_outstanding(c) /\ CATALOG[5] = 4
        /\ audit[6] = r_a06_dpd_12m(c) /\ CATALOG[6] = 4
        /\ audit[7] = r_a07_writeoff_settled_3y(c) /\ CATALOG[7] = 4
        /\ audit[8] = r_a08_enquiries_3m(c) /\ CATALOG[8] = 3
    BY DEF ScoreRows, CATALOG
  <2> HIDE DEF audit
  <2> QED
    BY <2>1, SectionAScores, SectionBScores, SectionCDScores
<1>2. /\ audit[9].score \in 0..CATALOG[9]
      /\ audit[10].score \in 0..CATALOG[10]
      /\ audit[11].score \in 0..CATALOG[11]
      /\ audit[12].score \in 0..CATALOG[12]
      /\ audit[13].score \in 0..CATALOG[13]
      /\ audit[14].score \in 0..CATALOG[14]
      /\ audit[15].score \in 0..CATALOG[15]
      /\ audit[16].score \in 0..CATALOG[16]
  <2>1. /\ audit[9] = r_a09_cibil_address_match(c) /\ CATALOG[9] = 2
        /\ audit[10] = r_a10_foir(c) /\ CATALOG[10] = 4
        /\ audit[11] = r_a11_negative_area(c) /\ CATALOG[11] = 2
        /\ audit[12] = r_a12_dscr(c) /\ CATALOG[12] = 4
        /\ audit[13] = r_a13_deviation_approved(c) /\ CATALOG[13] = 5
        /\ audit[14] = r_b14_shop_qr(c) /\ CATALOG[14] = 3
        /\ audit[15] = r_b15_qr_owner_match(c) /\ CATALOG[15] = 4
        /\ audit[16] = r_b16_income_proof_applicant(c) /\ CATALOG[16] = 5
    BY DEF ScoreRows, CATALOG
  <2> HIDE DEF audit
  <2> QED
    BY <2>1, SectionAScores, SectionBScores, SectionCDScores
<1>3. /\ audit[17].score \in 0..CATALOG[17]
      /\ audit[18].score \in 0..CATALOG[18]
      /\ audit[19].score \in 0..CATALOG[19]
      /\ audit[20].score \in 0..CATALOG[20]
      /\ audit[21].score \in 0..CATALOG[21]
      /\ audit[22].score \in 0..CATALOG[22]
      /\ audit[23].score \in 0..CATALOG[23]
      /\ audit[24].score \in 0..CATALOG[24]
  <2>1. /\ audit[17] = r_b17_income_proof_coapp(c) /\ CATALOG[17] = 4
        /\ audit[18] = r_b18_additional_income(c) /\ CATALOG[18] = 3
        /\ audit[19] = r_b19_banking_6_12m(c) /\ CATALOG[19] = 3
        /\ audit[20] = r_b20_total_credit(c) /\ CATALOG[20] = 2
        /\ audit[21] = r_b21_coapp_banking(c) /\ CATALOG[21] = 2
        /\ audit[22] = r_b22_abb_ratio(c) /\ CATALOG[22] = 4
        /\ audit[23] = r_b23_no_bouncing(c) /\ CATALOG[23] = 3
        /\ audit[24] = r_b24_banking_matches_income(c) /\ CATALOG[24] = 2
    BY DEF ScoreRows, CATALOG
  <2> HIDE DEF audit
  <2> QED
    BY <2>1, SectionAScores, SectionBScores, SectionCDScores
<1>4. /\ audit[25].score \in 0..CATALOG[25]
      /\ audit[26].score \in 0..CATALOG[26]
      /\ audit[27].score \in 0..CATALOG[27]
      /\ audit[28].score \in 0..CATALOG[28]
      /\ audit[29].score \in 0..CATALOG[29]
      /\ audit[30].score \in 0..CATALOG[30]
      /\ audit[31].score \in 0..CATALOG[31]
      /\ audit[32].score \in 0..CATALOG[32]
  <2>1. /\ audit[25] = r_c25_loan_purpose(c) /\ CATALOG[25] = 3
        /\ audit[26] = r_c26_end_use(c) /\ CATALOG[26] = 3
        /\ audit[27] = r_c27_house_ownership(c) /\ CATALOG[27] = 2
        /\ audit[28] = r_c28_business_ownership(c) /\ CATALOG[28] = 2
        /\ audit[29] = r_c29_additional_assets(c) /\ CATALOG[29] = 3
        /\ audit[30] = r_d30_bcm_cross_verification(c) /\ CATALOG[30] = 1
        /\ audit[31] = r_d31_tvr(c) /\ CATALOG[31] = 3
        /\ audit[32] = r_d32_fraud_call(c) /\ CATALOG[32] = 3
    BY DEF ScoreRows, CATALOG
  <2> HIDE DEF audit
  <2> QED
    BY <2>1, SectionAScores, SectionBScores, SectionCDScores
<1> HIDE DEF audit
<1>5. SUFFICES ASSUME NEW n \in 1..32 PROVE audit[n].score \in 0..CATALOG[n]
  BY DEF audit
<1>6. n \in 1..8 \/ n \in 9..16 \/ n \in 17..24 \/ n \in 25..32
  OBVIOUS
<1> QED
  BY <1>1, <1>2, <1>3, <1>4, <1>6

\* Which rows a section has.
LEMMA SectionsOfRows ==
    /\ RowsOf("A") = 1..13 /\ RowsOf("B") = 14..24
    /\ RowsOf("C") = 25..29 /\ RowsOf("D") = 30..32
<1>1. \A n \in Rows : /\ Section(n) = "A" <=> n \in 1..13
                      /\ Section(n) = "B" <=> n \in 14..24
                      /\ Section(n) = "C" <=> n \in 25..29
                      /\ Section(n) = "D" <=> n \in 30..32
  BY DEF Section, Rows
<1>2. \A s \in {"A", "B", "C", "D"} : RowsOf(s) = {n \in Rows : Section(n) = s}
  BY DEF RowsOf, SectionRows, SECTIONS
<1> QED
  BY <1>1, <1>2 DEF Rows

\* No context earns a section more than the section's points.
LEMMA ContextWithinMaximum ==
    ASSUME NEW c, IsContext(c)
    PROVE  \A s \in DOMAIN SECTIONS : Earned(ScoreRows(c), RowsOf(s)) \in 0..SECTIONS[s]
<1> DEFINE audit == ScoreRows(c)
<1>1. \A n \in 1..32 : audit[n].score \in 0..CATALOG[n] /\ CATALOG[n] \in Nat
  BY RowScores, PointsAdd
<1> HIDE DEF audit
<1>2. \A n \in 1..32 : audit[n].score \in Int
  BY <1>1
<1>3. ASSUME NEW a \in 1..32, NEW b \in 1..32, a <= b
      PROVE  Earned(audit, a..b) \in 0..(Points[b + 1] - Points[a])
  <2> DEFINE w == [n \in 1..32 |-> IF n \in a..b THEN audit[n].score ELSE 0]
  <2>1. PICK f : Sums(w, 32, f) /\ Earned(audit, a..b) = f[32]
    BY <1>2, EarnedSum
  <2>2. \A n \in 1..32 : w[n] \in 0..(IF n \in a..b THEN CATALOG[n] ELSE 0)
    BY <1>1
  <2> HIDE DEF w
  <2> QED
    BY <1>3, <2>1, <2>2, SectionSum
<1>4. /\ RowsOf("A") = 1..13 /\ RowsOf("B") = 14..24
      /\ RowsOf("C") = 25..29 /\ RowsOf("D") = 30..32
  BY SectionsOfRows
<1>5. /\ Points[1] = 0 /\ Points[14] = 45 /\ Points[25] = 80
      /\ Points[30] = 93 /\ Points[33] = 100
  BY DEF Points
<1>6. /\ Earned(audit, 1..13) \in 0..(Points[14] - Points[1])
      /\ Earned(audit, 14..24) \in 0..(Points[25] - Points[14])
      /\ Earned(audit, 25..29) \in 0..(Points[30] - Points[25])
      /\ Earned(audit, 30..32) \in 0..(Points[33] - Points[30])
  BY <1>3
<1>7. /\ Earned(audit, RowsOf("A")) \in 0..45 /\ Earned(audit, RowsOf("B")) \in 0..35
      /\ Earned(audit, RowsOf("C")) \in 0..13 /\ Earned(audit, RowsOf("D")) \in 0..7
  BY <1>4, <1>5, <1>6
<1> QED
  BY <1>7 DEF SECTIONS, audit

(***************************************************************************)
(* Worse files.  A file is a position on each ladder of its level; it is   *)
(* worse when it is further down on some and nowhere further up.           *)
(***************************************************************************)
Below(L, p, q) ==
    \A x \in DOMAIN L : p[x] \in DOMAIN L[x] /\ q[x] \in DOMAIN L[x] /\ p[x] <= q[x]
At(L, p) == [x \in DOMAIN L |-> L[x][p[x]]]

\* What was critical stays critical, or a rule that stands for it is.
Kept(I, J, stand) ==
    \A r \in DOMAIN I :
        I[r] = "CRITICAL" => \/ r \in DOMAIN J /\ J[r] = "CRITICAL"
                             \/ \E s \in stand \cap DOMAIN J : J[s] = "CRITICAL"

\* Two files on a ladder of two, three, ... values, the second not above the first.
LEMMA TwoRungs ==
    ASSUME NEW a, NEW b, NEW i \in DOMAIN <<a, b>>, NEW j \in DOMAIN <<a, b>>, i <= j
    PROVE  \/ <<a, b>>[i] = a /\ <<a, b>>[j] \in {a, b}
           \/ <<a, b>>[i] = b /\ <<a, b>>[j] = b
OBVIOUS

LEMMA ThreeRungs ==
    ASSUME NEW a, NEW b, NEW c,
           NEW i \in DOMAIN <<a, b, c>>, NEW j \in DOMAIN <<a, b, c>>, i <= j
    PROVE  \/ <<a, b, c>>[i] = a /\ <<a, b, c>>[j] \in {a, b, c}
           \/ <<a, b, c>>[i] = b /\ <<a, b, c>>[j] \in {b, c}
           \/ <<a, b, c>>[i] = c /\ <<a, b, c>>[j] = c
OBVIOUS

LEMMA FourRungs ==
    ASSUME NEW a, NEW b, NEW c, NEW d,
           NEW i \in DOMAIN <<a, b, c, d>>, NEW j \in DOMAIN <<a, b, c, d>>, i <= j
    PROVE  \/ <<a, b, c, d>>[i] = a /\ <<a, b, c, d>>[j] \in {a, b, c, d}
           \/ <<a, b, c, d>>[i] = b /\ <<a, b, c, d>>[j] \in {b, c, d}
           \/ <<a, b, c, d>>[i] = c /\ <<a, b, c, d>>[j] \in {c, d}
           \/ <<a, b, c, d>>[i] = d /\ <<a, b, c, d>>[j] = d
OBVIOUS

LEMMA FiveRungs ==
    ASSUME NEW a, NEW b, NEW c, NEW d, NEW e,
           NEW i \in DOMAIN <<a, b, c, d, e>>, NEW j \in DOMAIN <<a, b, c, d, e>>, i <= j
    PROVE  \/ <<a, b, c, d, e>>[i] = a /\ <<a, b, c, d, e>>[j] \in {a, b, c, d, e}
           \/ <<a, b, c, d, e>>[i] = b /\ <<a, b, c, d, e>>[j] \in {b, c, d, e}
           \/ <<a, b, c, d, e>>[i] = c /\ <<a, b, c, d, e>>[j] \in {c, d, e}
           \/ <<a, b, c, d, e>>[i] = d /\ <<a, b, c, d, e>>[j] \in {d, e}
           \/ <<a, b, c, d, e>>[i] = e /\ <<a, b, c, d, e>>[j] = e
OBVIOUS

LEMMA KnownRungs ==
    ASSUME NEW i \in DOMAIN Known, NEW j \in DOMAIN Known, i <= j
    PROVE  Known[i] \in BOOLEAN /\ Known[j] \in BOOLEAN /\ (Known[j] => Known[i])
<1>1. DOMAIN Known = 1..2 /\ Known[1] = TRUE /\ Known[2] = FALSE
  BY DEF Known
<1>2. \/ i = 1 /\ (j = 1 \/ j = 2)
      \/ i = 2 /\ j = 2
  <2>1. i \in 1..2 /\ j \in 1..2
    BY <1>1
  <2> QED
    BY <2>1
<1> QED
  BY Zenon, <1>1, <1>2

LEMMA FieldBelow ==
    ASSUME NEW L, NEW p, NEW q, Below(L, p, q), NEW x \in DOMAIN L
    PROVE  /\ p[x] \in DOMAIN L[x] /\ q[x] \in DOMAIN L[x] /\ p[x] <= q[x]
           /\ At(L, p)[x] = L[x][p[x]] /\ At(L, q)[x] = L[x][q[x]]
BY DEF Below, At

\* f and g are the files at the positions p and q, field by field.
Compare(L, p, q, f, g) ==
    \A x \in DOMAIN L : /\ p[x] \in DOMAIN L[x] /\ q[x] \in DOMAIN L[x] /\ p[x] <= q[x]
                        /\ f[x] = L[x][p[x]] /\ g[x] = L[x][q[x]]

LEMMA Compared ==
    ASSUME NEW L, NEW p, NEW q, Below(L, p, q)
    PROVE  Compare(L, p, q, At(L, p), At(L, q))
BY FieldBelow DEF Compare

LEMMA KnownWorse ==
    ASSUME NEW L, NEW p, NEW q, NEW f, NEW g, Compare(L, p, q, f, g),
           NEW x \in DOMAIN L, L[x] = Known
    PROVE  f[x] \in BOOLEAN /\ g[x] \in BOOLEAN /\ (g[x] => f[x])
<1>1. /\ p[x] \in DOMAIN Known /\ q[x] \in DOMAIN Known /\ p[x] <= q[x]
      /\ f[x] = Known[p[x]] /\ g[x] = Known[q[x]]
  <2>1. /\ p[x] \in DOMAIN L[x] /\ q[x] \in DOMAIN L[x] /\ p[x] <= q[x]
        /\ f[x] = L[x][p[x]] /\ g[x] = L[x][q[x]]
    BY DEF Compare
  <2> QED
    BY Zenon, <2>1
<1> QED
  BY Zenon, <1>1, KnownRungs

LEMMA AgainstWorse ==
    ASSUME NEW L, NEW p, NEW q, NEW f, NEW g, Compare(L, p, q, f, g),
           NEW x \in DOMAIN L, L[x] = Against
    PROVE  f[x] \in BOOLEAN /\ g[x] \in BOOLEAN /\ (f[x] => g[x])
<1>1. DOMAIN Against = 1..2 /\ Against[1] = FALSE /\ Against[2] = TRUE
  BY DEF Against
<1>2. /\ p[x] \in DOMAIN Against /\ q[x] \in DOMAIN Against /\ p[x] <= q[x]
      /\ f[x] = Against[p[x]] /\ g[x] = Against[q[x]]
  <2>1. /\ p[x] \in DOMAIN L[x] /\ q[x] \in DOMAIN L[x] /\ p[x] <= q[x]
        /\ f[x] = L[x][p[x]] /\ g[x] = L[x][q[x]]
    BY DEF Compare
  <2> QED
    BY Zenon, <2>1
<1>3. \/ p[x] = 1 /\ (q[x] = 1 \/ q[x] = 2)
      \/ p[x] = 2 /\ q[x] = 2
  <2>1. p[x] \in 1..2 /\ q[x] \in 1..2
    BY <1>1, <1>2
  <2> QED
    BY <1>2, <2>1
<1> QED
  BY Zenon, <1>1, <1>2, <1>3

\* An agreement is on file exactly if one of its four subtypes is.
LEMMA AgreementFiled ==
    ASSUME NEW S
    PROVE  agreement_artifact(S) # "none" <=> S \cap {"LAGR", "LOAN_AGREEMENT", "LAPP", "DPN"} # {}
<1> DEFINE ranks == {i \in DOMAIN preferred_subtypes : preferred_subtypes[i] \in S}
           best == CHOOSE i \in ranks : \A j \in ranks : i <= j
<1>1. /\ DOMAIN preferred_subtypes = 1..4
      /\ preferred_subtypes[1] = "LAGR" /\ preferred_subtypes[2] = "LOAN_AGREEMENT"
      /\ preferred_subtypes[3] = "LAPP" /\ preferred_subtypes[4] = "DPN"
  BY DEF preferred_subtypes
<1>2. CASE ranks = {}
  <2>1. S \cap {"LAGR", "LOAN_AGREEMENT", "LAPP", "DPN"} = {}
    BY <1>1, <1>2
  <2> QED
    BY <1>2, <2>1 DEF agreement_artifact
<1>3. CASE ranks # {}
  <2>1. ranks \in SUBSET Nat
    BY <1>1
  <2>2. \E i \in ranks : \A j \in ranks : i <= j
    <3> HIDE DEF ranks
    <3> QED
      BY <1>3, <2>1, LeastOfNats
  <2>3. best \in ranks
    <3> HIDE DEF ranks
    <3> QED
      BY <2>2
  <2>4. agreement_artifact(S) = preferred_subtypes[best]
    BY <1>3 DEF agreement_artifact
  <2> HIDE DEF best
  <2>5. preferred_subtypes[best] \in S /\ best \in 1..4
    BY <1>1, <2>3
  <2> QED
    BY <1>1, <2>4, <2>5
<1> QED
  BY <1>2, <1>3

AgreementRules ==
    {"loan_agreement_missing", "loan_agreement_scan_failed", "loan_agreement_annexure",
     "hypothecation_clause", "asset_annexure_empty"}

LEMMA AgreementCritical ==
    ASSUME NEW a
    PROVE  LET I == AgreementIssues(a)
               read == a.pdf /\ a.scan # "raised"
           IN /\ DOMAIN I = AgreementRules
              /\ I.loan_agreement_missing = "CRITICAL" <=> ~a.pdf
              /\ I.loan_agreement_scan_failed = "CRITICAL" <=> a.pdf /\ a.scan = "raised"
              /\ I.loan_agreement_annexure = "CRITICAL"
                    <=> read /\ ~(a.scan = "ok" /\ a.annexure)
              /\ I.hypothecation_clause = "CRITICAL"
                    <=> read /\ ~(a.scan = "ok" /\ a.clause)
              /\ I.asset_annexure_empty = "CRITICAL"
                    <=> read /\ ~(a.scan = "ok" /\ a.assets > 0)
BY DEF AgreementIssues, AgreementRules, Flag

LEMMA AgreementKept ==
    ASSUME NEW p, NEW q, Below(AgreementLadder, p, q)
    PROVE  Kept(AgreementIssues(AgreementFile(At(AgreementLadder, p))),
                AgreementIssues(AgreementFile(At(AgreementLadder, q))), StandIns)
<1> DEFINE L == AgreementLadder
           f == At(L, p)
           g == At(L, q)
           a == AgreementFile(f)
           b == AgreementFile(g)
           I == AgreementIssues(a)
           J == AgreementIssues(b)
<1>1. /\ DOMAIN L = {"filed", "scan", "annexure", "clause", "assets"}
      /\ L.filed = <<{"LAGR"}, {"DPN", "LAPP"}, {}>>
      /\ L.scan = <<"ok", "failed", "raised">>
      /\ L.annexure = Known /\ L.clause = Known /\ L.assets = <<2, 0>>
  BY DEF AgreementLadder
<1> HIDE DEF L
<1>2. Compare(L, p, q, f, g)
  BY Compared DEF L
<1> HIDE DEF f, g
<1>3. (g.annexure => f.annexure) /\ (g.clause => f.clause)
  <2>1. \A x \in {"annexure", "clause"} : g[x] => f[x]
    BY Zenon, <1>1, <1>2, KnownWorse
  <2> QED
    BY <2>1
<1>4. /\ f.filed = {} => g.filed = {}
      /\ f.filed # {} => f.filed \in {{"LAGR"}, {"DPN", "LAPP"}}
      /\ g.filed # {} => g.filed \in {{"LAGR"}, {"DPN", "LAPP"}}
  BY <1>1, <1>2, ThreeRungs DEF Compare
<1>5. /\ f.scan \in {"failed", "raised"} => g.scan \in {"failed", "raised"}
      /\ f.scan = "raised" => g.scan = "raised"
      /\ f.scan \in {"ok", "failed", "raised"} /\ g.scan \in {"ok", "failed", "raised"}
  BY <1>1, <1>2, ThreeRungs DEF Compare
<1>6. g.assets > 0 => f.assets > 0
  BY <1>1, <1>2, TwoRungs DEF Compare
<1>7. (a.pdf <=> f.filed # {}) /\ (b.pdf <=> g.filed # {})
  BY <1>4, AgreementFiled DEF AgreementFile
<1>8. /\ a.scan = f.scan /\ a.annexure = f.annexure /\ a.clause = f.clause /\ a.assets = f.assets
      /\ b.scan = g.scan /\ b.annexure = g.annexure /\ b.clause = g.clause /\ b.assets = g.assets
  BY DEF AgreementFile
<1> HIDE DEF a, b, I, J
<1>9. ASSUME NEW r \in AgreementRules, I[r] = "CRITICAL"
      PROVE  \/ J[r] = "CRITICAL" \/ J.loan_agreement_missing = "CRITICAL"
             \/ J.loan_agreement_scan_failed = "CRITICAL"
  BY <1>3, <1>4, <1>5, <1>6, <1>7, <1>8, <1>9, AgreementCritical DEF AgreementRules, I, J
<1>10. /\ DOMAIN I = AgreementRules /\ DOMAIN J = AgreementRules
       /\ {"loan_agreement_missing", "loan_agreement_scan_failed"} \subseteq StandIns
  BY AgreementCritical DEF I, J, StandIns
<1>11. {"loan_agreement_missing", "loan_agreement_scan_failed"} \subseteq AgreementRules
  BY DEF AgreementRules
<1> QED
  BY <1>9, <1>10, <1>11 DEF Kept, I, J, a, b, f, g, L

RulesOfBanking ==
    {"bank_statement_missing", "bank_statement_months_coverage", "ca_analyzer_failed",
     "nach_bounces", "avg_balance_vs_emi", "credits_vs_declared_income",
     "single_payer_concentration", "impulsive_debit_overspend", "chronic_low_balance",
     "ca_narrative_concerns"}

LEMMA BankingCritical ==
    ASSUME NEW b
    PROVE  LET I == BankingIssues(b)
               emi == estimate_proposed_emi_inr(b.loan, b.tenure)
               judged == b.lines /\ ~b.failed
           IN /\ DOMAIN I = RulesOfBanking
              /\ I.bank_statement_missing = "CRITICAL" <=> ~b.lines
              /\ I.bank_statement_months_coverage = "CRITICAL"
                    <=> b.lines /\ b.months >= 0 /\ b.months < 60
              /\ I.ca_analyzer_failed = "CRITICAL" <=> b.lines /\ b.failed
              /\ I.nach_bounces = "CRITICAL" <=> judged /\ b.bounces > 0
              /\ I.avg_balance_vs_emi = "CRITICAL" <=> judged /\ emi > 0 /\ 2 * b.balance < 3 * emi
              /\ I.chronic_low_balance = "CRITICAL" <=> judged /\ b.balance < 1000
              /\ I.credits_vs_declared_income # "CRITICAL"
              /\ I.single_payer_concentration # "CRITICAL"
              /\ I.impulsive_debit_overspend # "CRITICAL"
              /\ I.ca_narrative_concerns # "CRITICAL"
<1> DEFINE I == BankingIssues(b)
           emi == estimate_proposed_emi_inr(b.loan, b.tenure)
           judged == b.lines /\ ~b.failed
           Rule(sev) == IF judged THEN sev ELSE "ok"
<1>1. /\ DOMAIN I = RulesOfBanking
      /\ I.bank_statement_missing = Flag(~b.lines, "CRITICAL")
      /\ I.bank_statement_months_coverage =
            IF b.lines THEN cross_check_statement_months_coverage(b.months) ELSE "ok"
      /\ I.ca_analyzer_failed = Flag(b.lines /\ b.failed, "CRITICAL")
  BY DEF BankingIssues, RulesOfBanking
<1>2. /\ I.nach_bounces = Rule(cross_check_nach_bounces(b.bounces))
      /\ I.avg_balance_vs_emi = Rule(cross_check_avg_balance_vs_emi(b.balance, emi))
      /\ I.chronic_low_balance = Rule(cross_check_chronic_low_balance(b.balance))
  BY DEF BankingIssues
<1>3. /\ I.credits_vs_declared_income =
            Rule(cross_check_credits_vs_declared_income(b.credits, b.income))
      /\ I.single_payer_concentration =
            Rule(cross_check_distinct_payer_concentration(b.payers, b.income))
      /\ I.impulsive_debit_overspend = Rule(cross_check_impulsive_debits(b.impulsive, b.income))
      /\ I.ca_narrative_concerns = Rule(cross_check_ca_narrative(b.concerns))
  BY DEF BankingIssues
<1> HIDE DEF I, emi
<1>4. /\ I.bank_statement_missing = "CRITICAL" <=> ~b.lines
      /\ I.bank_statement_months_coverage = "CRITICAL"
            <=> b.lines /\ b.months >= 0 /\ b.months < 60
      /\ I.ca_analyzer_failed = "CRITICAL" <=> b.lines /\ b.failed
  BY <1>1 DEF Flag, cross_check_statement_months_coverage
<1>5. /\ I.nach_bounces = "CRITICAL" <=> judged /\ b.bounces > 0
      /\ I.avg_balance_vs_emi = "CRITICAL" <=> judged /\ emi > 0 /\ 2 * b.balance < 3 * emi
      /\ I.chronic_low_balance = "CRITICAL" <=> judged /\ b.balance < 1000
  BY <1>2
  DEF Flag, cross_check_nach_bounces, cross_check_avg_balance_vs_emi,
      cross_check_chronic_low_balance
<1>6. /\ I.credits_vs_declared_income # "CRITICAL"
      /\ I.single_payer_concentration # "CRITICAL"
      /\ I.impulsive_debit_overspend # "CRITICAL"
      /\ I.ca_narrative_concerns # "CRITICAL"
  BY <1>3
  DEF Flag, cross_check_credits_vs_declared_income, cross_check_distinct_payer_concentration,
      cross_check_impulsive_debits, cross_check_ca_narrative
<1> QED
  BY <1>1, <1>4, <1>5, <1>6 DEF I, emi

LEMMA BankingKept ==
    ASSUME NEW p, NEW q, Below(BankingLadder, p, q)
    PROVE  Kept(BankingIssues(BankingFile(At(BankingLadder, p))),
                BankingIssues(BankingFile(At(BankingLadder, q))), StandIns)
<1> DEFINE L == BankingLadder
           f == At(L, p)
           g == At(L, q)
           a == BankingFile(f)
           b == BankingFile(g)
           I == BankingIssues(a)
           J == BankingIssues(b)
           Emi(x) == estimate_proposed_emi_inr(x.loan, x.tenure)
<1>1. /\ {"lines", "months", "loan", "failed", "bounces", "balance"} \subseteq DOMAIN L
      /\ L.lines = Known /\ L.failed = Against /\ L.months = <<70, -1, 40>>
      /\ L.loan = <<0, 100000>> /\ L.bounces = <<0, 1>> /\ L.balance = <<90000, 4000, 900>>
  BY DEF BankingLadder
<1> HIDE DEF L
<1>2. Compare(L, p, q, f, g)
  BY Compared DEF L
<1> HIDE DEF f, g
<1>3. /\ f.lines \in BOOLEAN /\ g.lines \in BOOLEAN /\ (g.lines => f.lines)
      /\ f.failed \in BOOLEAN /\ g.failed \in BOOLEAN /\ (f.failed => g.failed)
  <2>1. "lines" \in DOMAIN L /\ "failed" \in DOMAIN L
    BY <1>1
  <2>2. f["lines"] \in BOOLEAN /\ g["lines"] \in BOOLEAN /\ (g["lines"] => f["lines"])
    BY <1>1, <1>2, <2>1, KnownWorse
  <2>3. f["failed"] \in BOOLEAN /\ g["failed"] \in BOOLEAN /\ (f["failed"] => g["failed"])
    BY <1>1, <1>2, <2>1, AgainstWorse
  <2> QED
    BY <2>2, <2>3
<1>4. /\ f.months = 40 => g.months = 40
      /\ f.months \in {70, -1, 40} /\ g.months \in {70, -1, 40}
  BY <1>1, <1>2, ThreeRungs DEF Compare
<1>5. f.loan = 0 \/ (f.loan = 100000 /\ g.loan = 100000)
  BY <1>1, <1>2, TwoRungs DEF Compare
<1>6. f.bounces = 0 \/ (f.bounces = 1 /\ g.bounces = 1)
  BY <1>1, <1>2, TwoRungs DEF Compare
<1>7. /\ f.balance \in {90000, 4000, 900} /\ g.balance \in {90000, 4000, 900}
      /\ g.balance <= f.balance
  BY <1>1, <1>2, ThreeRungs DEF Compare
<1>8. /\ a.lines = f.lines /\ a.failed = f.failed /\ a.loan = f.loan
      /\ a.months = IF f.lines THEN f.months ELSE -1
      /\ a.bounces = f.bounces /\ a.balance = f.balance /\ a.tenure = 24
      /\ b.lines = g.lines /\ b.failed = g.failed /\ b.loan = g.loan
      /\ b.months = IF g.lines THEN g.months ELSE -1
      /\ b.bounces = g.bounces /\ b.balance = g.balance /\ b.tenure = 24
  BY DEF BankingFile
<1> HIDE DEF a, b
<1>9. Emi(a) = 0 \/ (Emi(a) = 6166 /\ Emi(b) = 6166)
  BY <1>5, <1>8 DEF estimate_proposed_emi_inr
<1> HIDE DEF I, J, Emi
<1>10. ASSUME NEW r \in RulesOfBanking, I[r] = "CRITICAL"
       PROVE  \/ J[r] = "CRITICAL" \/ J.bank_statement_missing = "CRITICAL"
              \/ J.ca_analyzer_failed = "CRITICAL"
  BY <1>3, <1>4, <1>6, <1>7, <1>8, <1>9, <1>10, BankingCritical DEF RulesOfBanking, I, J, Emi
<1>11. DOMAIN I = RulesOfBanking /\ DOMAIN J = RulesOfBanking
  BY BankingCritical DEF I, J
<1>12. {"bank_statement_missing", "ca_analyzer_failed"} \subseteq StandIns \cap RulesOfBanking
  BY DEF StandIns, RulesOfBanking
<1> QED
  BY <1>10, <1>11, <1>12 DEF Kept, I, J, a, b, f, g, L

RulesOfDocument ==
    {"dedupe_clear", "tvr_present", "pdc_present", "pdc_matches_bank", "nach_present"}

LEMMA DocumentCritical ==
    ASSUME NEW d, d.cheque \in {"missing", "not_cheque", "unverified", "cheque"}
    PROVE  LET I == DedupeTvrIssues(d)
           IN /\ DOMAIN I = RulesOfDocument
              /\ I.dedupe_clear = "CRITICAL" <=> d.dedupe # "SUCCESS" \/ d.matches > 0
              /\ I.tvr_present = "CRITICAL" <=> ~d.tvr
              /\ I.pdc_present = "CRITICAL" <=> d.cheque \in {"missing", "not_cheque"}
              /\ I.pdc_matches_bank = "CRITICAL"
                    <=> d.cheque = "cheque" /\ d.bank /\ "differ" \in {d.ifsc, d.tail}
              /\ I.nach_present = "CRITICAL" <=> ~d.nach
<1> DEFINE I == DedupeTvrIssues(d)
<1>1. /\ DOMAIN I = RulesOfDocument
      /\ I.dedupe_clear = Flag(d.dedupe # "SUCCESS" \/ d.matches > 0, "CRITICAL")
      /\ I.tvr_present = Flag(~d.tvr, "CRITICAL") /\ I.nach_present = Flag(~d.nach, "CRITICAL")
  BY DEF DedupeTvrIssues, RulesOfDocument
<1>2. I.pdc_matches_bank = IF d.cheque = "cheque" THEN pdc_matches_bank(d) ELSE "ok"
  BY DEF DedupeTvrIssues
<1>3. I.pdc_present =
        CASE d.cheque \in {"missing", "not_cheque"} -> "CRITICAL"
          [] d.cheque = "unverified" -> "WARNING"
          [] d.cheque = "cheque" -> "ok"
  BY DEF DedupeTvrIssues
<1> HIDE DEF I
<1>4. pdc_matches_bank(d) = "CRITICAL" <=> d.bank /\ "differ" \in {d.ifsc, d.tail}
  <2>1. CASE ~d.bank
    <3>1. cross_validate_pdc_vs_bank_statement(d) = "skipped"
      BY <2>1 DEF cross_validate_pdc_vs_bank_statement
    <3> QED
      BY <2>1, <3>1 DEF pdc_matches_bank
  <2>2. CASE d.bank /\ "differ" \in {d.ifsc, d.tail}
    <3>1. cross_validate_pdc_vs_bank_statement(d) = "critical"
      BY <2>2 DEF cross_validate_pdc_vs_bank_statement
    <3> QED
      BY <2>2, <3>1 DEF pdc_matches_bank
  <2>3. CASE d.bank /\ "differ" \notin {d.ifsc, d.tail}
    <3>1. cross_validate_pdc_vs_bank_statement(d) \in {"warning", "skipped", "pass"}
      BY <2>3 DEF cross_validate_pdc_vs_bank_statement
    <3> QED
      BY <2>3, <3>1 DEF pdc_matches_bank
  <2> QED
    BY <2>1, <2>2, <2>3
<1> QED
  BY <1>1, <1>2, <1>3, <1>4 DEF Flag, I

\* The cheques by how far down the ladder they are: nothing critical, another account,
\* no cheque.
LEMMA ChequeRungs ==
    LET C == DocumentLadder.cheque
    IN /\ DOMAIN C = 1..8
       /\ \A k \in 1..4 : \/ C[k].is = "unverified"
                          \/ C[k].is = "cheque" /\ ~(C[k].bank /\ "differ" \in {C[k].ifsc, C[k].tail})
       /\ \A k \in 5..6 : C[k].is = "cheque" /\ C[k].bank /\ "differ" \in {C[k].ifsc, C[k].tail}
       /\ \A k \in 7..8 : C[k].is \in {"missing", "not_cheque"}
<1> DEFINE C == DocumentLadder.cheque
           Other(is) == [is |-> is, bank |-> TRUE, ifsc |-> "same", tail |-> "same", holder |-> "same"]
<1>1. verify_pdc_cheque("pdf", "cheque") = "unverified"
      /\ verify_pdc_cheque("photo", "not_cheque") = "not_cheque"
  BY DEF verify_pdc_cheque
<1>2. DOMAIN C = 1..8
  BY DEF DocumentLadder
<1>3. /\ C[1].is = "cheque" /\ C[1].ifsc = "same" /\ C[1].tail = "same"
      /\ C[2].is = "cheque" /\ C[2].ifsc = "same" /\ C[2].tail = "same"
      /\ C[4].is = "cheque" /\ C[4].ifsc = "same" /\ C[4].tail = "same"
  BY DEF DocumentLadder
<1>4. /\ C[5].is = "cheque" /\ C[5].bank /\ C[5].ifsc = "differ"
      /\ C[6].is = "cheque" /\ C[6].bank /\ C[6].ifsc = "differ"
  BY DEF DocumentLadder
<1>5. C[3].is = "unverified" /\ C[7].is = "not_cheque" /\ C[8].is = "missing"
  BY <1>1 DEF DocumentLadder
<1> HIDE DEF C
<1> QED
  BY <1>2, <1>3, <1>4, <1>5 DEF C

LEMMA DocumentKept ==
    ASSUME NEW p, NEW q, Below(DocumentLadder, p, q)
    PROVE  Kept(DedupeTvrIssues(DocumentFile(At(DocumentLadder, p))),
                DedupeTvrIssues(DocumentFile(At(DocumentLadder, q))), StandIns)
<1> DEFINE L == DocumentLadder
           f == At(L, p)
           g == At(L, q)
           a == DocumentFile(f)
           b == DocumentFile(g)
           I == DedupeTvrIssues(a)
           J == DedupeTvrIssues(b)
           Differs(d) == d.bank /\ "differ" \in {d.ifsc, d.tail}
<1>1. /\ DOMAIN L = {"dedupe", "matches", "tvr", "nach", "cheque"}
      /\ L.dedupe = <<"SUCCESS", "FAILED">> /\ L.matches = <<0, 1>>
      /\ L.tvr = Known /\ L.nach = Known
  BY DEF DocumentLadder
<1>2. /\ DOMAIN L.cheque = 1..8
      /\ \A k \in 1..4 : \/ L.cheque[k].is = "unverified"
                         \/ L.cheque[k].is = "cheque" /\ ~Differs(L.cheque[k])
      /\ \A k \in 5..6 : L.cheque[k].is = "cheque" /\ Differs(L.cheque[k])
      /\ \A k \in 7..8 : L.cheque[k].is \in {"missing", "not_cheque"}
  BY ChequeRungs
<1> HIDE DEF L
<1>3. Compare(L, p, q, f, g)
  BY Compared DEF L
<1> HIDE DEF f, g
<1>4. (g.tvr => f.tvr) /\ (g.nach => f.nach)
  <2>1. \A x \in {"tvr", "nach"} : g[x] => f[x]
    BY Zenon, <1>1, <1>3, KnownWorse
  <2> QED
    BY <2>1
<1>5. (f.dedupe # "SUCCESS" => g.dedupe # "SUCCESS") /\ (f.matches > 0 => g.matches > 0)
  BY <1>1, <1>3, TwoRungs DEF Compare
<1>6. /\ p["cheque"] \in 1..8 /\ q["cheque"] \in 1..8 /\ p["cheque"] <= q["cheque"]
      /\ f.cheque = L.cheque[p["cheque"]] /\ g.cheque = L.cheque[q["cheque"]]
  BY <1>1, <1>2, <1>3 DEF Compare
<1>7. /\ a.dedupe = f.dedupe /\ a.matches = f.matches /\ a.tvr = f.tvr /\ a.nach = f.nach
      /\ b.dedupe = g.dedupe /\ b.matches = g.matches /\ b.tvr = g.tvr /\ b.nach = g.nach
  BY DEF DocumentFile
<1>8. /\ a.cheque = f.cheque.is /\ (Differs(a) <=> Differs(f.cheque))
      /\ b.cheque = g.cheque.is /\ (Differs(b) <=> Differs(g.cheque))
  BY DEF DocumentFile
<1> HIDE DEF a, b, I, J, Differs
<1>9. \/ p["cheque"] \in 1..4 \/ (p["cheque"] \in 5..6 /\ q["cheque"] \in 5..6)
      \/ q["cheque"] \in 7..8
  BY <1>6
<1>10. \/ a.cheque \in {"unverified", "cheque"} /\ ~(a.cheque = "cheque" /\ Differs(a))
       \/ b.cheque = "cheque" /\ Differs(b) /\ a.cheque = "cheque"
       \/ b.cheque \in {"missing", "not_cheque"}
  BY <1>2, <1>6, <1>8, <1>9
<1>11. a.cheque \in {"missing", "not_cheque", "unverified", "cheque"}
       /\ b.cheque \in {"missing", "not_cheque", "unverified", "cheque"}
  <2>1. \A k \in 1..8 : L.cheque[k].is \in {"missing", "not_cheque", "unverified", "cheque"}
    BY <1>2
  <2> QED
    BY <1>6, <1>8, <2>1
<1>12. ASSUME NEW r \in RulesOfDocument, I[r] = "CRITICAL"
       PROVE  J[r] = "CRITICAL" \/ J.pdc_present = "CRITICAL"
  BY <1>4, <1>5, <1>7, <1>10, <1>11, <1>12, DocumentCritical DEF RulesOfDocument, I, J, Differs
<1>13. DOMAIN I = RulesOfDocument /\ DOMAIN J = RulesOfDocument
       /\ "pdc_present" \in StandIns \cap RulesOfDocument
  BY <1>11, DocumentCritical DEF I, J, StandIns, RulesOfDocument
<1> QED
  BY <1>12, <1>13 DEF Kept, I, J, a, b, f, g, L

RulesOfVision ==
    {"house_scorer_failed", "house_living_condition", "business_scorer_failed", "stock_vs_loan",
     "loan_amount_reduction", "cattle_health", "business_infrastructure",
     "stock_aggregate_drift"}

\* The stock is worth too little of the loan.
Short(v) ==
    IF v.type = "service" THEN 10 * (v.stock + v.equipment) < 4 * v.loan
    ELSE v.stock # 0 /\ v.stock < v.loan /\ 2 * v.stock < v.loan

LEMMA VisionCritical ==
    ASSUME NEW v, v.house \in {"scored", "failed", "garbled", "no_photos"},
           v.loan \in Nat, v.stock \in Nat, v.equipment \in Nat
    PROVE  LET I == VisionIssues(v)
           IN /\ DOMAIN I = RulesOfVision
              /\ I.house_scorer_failed = "CRITICAL" <=> v.house \in {"failed", "garbled"}
              /\ I.house_living_condition = "CRITICAL"
                    <=> v.house = "scored" /\ v.rating \in {"bad", "worst"}
              /\ I.business_scorer_failed = "CRITICAL" <=> v.biz \in {"failed", "garbled"}
              /\ I.stock_vs_loan = "CRITICAL" <=> v.biz = "scored" /\ v.loan > 0 /\ Short(v)
              /\ I.loan_amount_reduction # "CRITICAL"
              /\ I.cattle_health = "CRITICAL"
                    <=> /\ v.biz = "scored" /\ v.health = "unhealthy"
                        /\ v.type \in {"cattle_dairy", "mixed"} /\ v.cattle > 0
              /\ I.business_infrastructure = "CRITICAL" <=> v.biz = "scored" /\ v.infra = "worst"
              /\ I.stock_aggregate_drift # "CRITICAL"
<1> DEFINE I == VisionIssues(v)
           OfBusiness(sev) == IF v.biz = "scored" THEN sev ELSE "ok"
           Failed(end) == end \in {"failed", "garbled"}
<1>1. /\ DOMAIN I = RulesOfVision
      /\ I.house_scorer_failed = Flag(Failed(v.house), "CRITICAL")
      /\ I.business_scorer_failed = Flag(Failed(v.biz), "CRITICAL")
  BY DEF VisionIssues, RulesOfVision
<1>2. I.house_living_condition =
            CASE Failed(v.house) -> "ok"
              [] v.house = "no_photos" -> cross_check_house_rating("none")
              [] v.house = "scored" -> cross_check_house_rating(v.rating)
  BY DEF VisionIssues
<1>3. /\ I.stock_vs_loan = OfBusiness(cross_check_stock_vs_loan(v))
      /\ I.loan_amount_reduction = OfBusiness(cross_check_loan_amount_reduction(v))
      /\ I.cattle_health = OfBusiness(cross_check_cattle_health(v))
  BY DEF VisionIssues
<1>4. /\ I.business_infrastructure = OfBusiness(cross_check_infrastructure_rating(v.infra))
      /\ I.stock_aggregate_drift = OfBusiness(cross_check_aggregate_drift(v))
  BY DEF VisionIssues
<1> HIDE DEF I
<1>5. /\ I.house_scorer_failed = "CRITICAL" <=> v.house \in {"failed", "garbled"}
      /\ I.business_scorer_failed = "CRITICAL" <=> v.biz \in {"failed", "garbled"}
  BY <1>1 DEF Flag
<1>6. I.house_living_condition = "CRITICAL" <=> v.house = "scored" /\ v.rating \in {"bad", "worst"}
  <2>1. cross_check_house_rating("none") = "WARNING"
    BY DEF cross_check_house_rating
  <2>2. cross_check_house_rating(v.rating) = "CRITICAL" <=> v.rating \in {"bad", "worst"}
    BY DEF cross_check_house_rating
  <2> QED
    BY <1>2, <2>1, <2>2
<1>7. cross_check_stock_vs_loan(v) = "CRITICAL" <=> v.loan > 0 /\ Short(v)
  <2>1. CASE v.loan = 0
    BY <2>1 DEF cross_check_stock_vs_loan
  <2>2. CASE v.loan > 0 /\ v.type = "service"
    <3>1. cross_check_stock_vs_loan(v) = Flag(10 * Collateral(v) < 4 * v.loan, "CRITICAL")
      BY <2>2 DEF cross_check_stock_vs_loan
    <3>2. Collateral(v) = v.stock + v.equipment
      BY <2>2 DEF Collateral
    <3> QED
      BY <2>2, <3>1, <3>2 DEF Flag, Short
  <2>3. CASE v.loan > 0 /\ v.type # "service"
    <3>1. cross_check_stock_vs_loan(v) =
            IF v.stock = 0 \/ Collateral(v) >= v.loan THEN "ok"
            ELSE IF 2 * Collateral(v) < v.loan THEN "CRITICAL" ELSE "WARNING"
      BY <2>3 DEF cross_check_stock_vs_loan
    <3>2. Collateral(v) = v.stock
      BY <2>3 DEF Collateral
    <3> QED
      BY <2>3, <3>1, <3>2 DEF Short
  <2> QED
    BY <2>1, <2>2, <2>3
<1>8. /\ cross_check_loan_amount_reduction(v) # "CRITICAL"
      /\ cross_check_aggregate_drift(v) # "CRITICAL"
      /\ cross_check_cattle_health(v) = "CRITICAL"
            <=> v.health = "unhealthy" /\ v.type \in {"cattle_dairy", "mixed"} /\ v.cattle > 0
  BY DEF cross_check_loan_amount_reduction, cross_check_aggregate_drift,
         cross_check_cattle_health, Flag
<1>9. cross_check_infrastructure_rating(v.infra) = "CRITICAL" <=> v.infra = "worst"
  BY DEF cross_check_infrastructure_rating
<1>10. /\ I.stock_vs_loan = "CRITICAL" <=> v.biz = "scored" /\ v.loan > 0 /\ Short(v)
       /\ I.loan_amount_reduction # "CRITICAL" /\ I.stock_aggregate_drift # "CRITICAL"
  BY <1>3, <1>4, <1>7, <1>8
<1>11. /\ I.cattle_health = "CRITICAL"
             <=> /\ v.biz = "scored" /\ v.health = "unhealthy"
                 /\ v.type \in {"cattle_dairy", "mixed"} /\ v.cattle > 0
       /\ I.business_infrastructure = "CRITICAL" <=> v.biz = "scored" /\ v.infra = "worst"
  BY <1>3, <1>4, <1>8, <1>9
<1> QED
  BY <1>1, <1>5, <1>6, <1>10, <1>11 DEF I

\* How the scorers ended, by how far down the ladder.
LEMMA ScorerRungs ==
    LET H == VisionLadder.house
        B == VisionLadder.biz
    IN /\ DOMAIN H = 1..6 /\ DOMAIN B = 1..4
       /\ H[1].end = "scored" /\ H[1].rating = "good"
       /\ H[2].end = "no_photos"
       /\ H[3].end = "scored" /\ H[3].rating = "other"
       /\ H[4].end = "scored" /\ H[4].rating = "bad"
       /\ H[5].end = "garbled" /\ H[6].end = "failed"
       /\ B[1] = "no_photos" /\ B[2] = "scored" /\ B[3] = "garbled" /\ B[4] = "failed"
<1> DEFINE H == VisionLadder.house
           B == VisionLadder.biz
<1>1. /\ score(0, "none") = "no_photos" /\ score(1, "json") = "scored"
      /\ score(1, "text") = "garbled" /\ score(1, "none") = "failed"
  BY DEF score
<1>2. /\ DOMAIN H = 1..6 /\ DOMAIN B = 1..4
  BY DEF VisionLadder
<1>3. /\ B[1] = "no_photos" /\ B[2] = "scored" /\ B[3] = "garbled" /\ B[4] = "failed"
  BY <1>1 DEF VisionLadder
<1>4. /\ H[1].end = "scored" /\ H[1].rating = "good"
      /\ H[2].end = "no_photos"
      /\ H[3].end = "scored" /\ H[3].rating = "other"
  BY <1>1 DEF VisionLadder
<1>5. /\ H[4].end = "scored" /\ H[4].rating = "bad"
      /\ H[5].end = "garbled" /\ H[6].end = "failed"
  BY <1>1 DEF VisionLadder
<1> QED
  BY <1>2, <1>3, <1>4, <1>5

LEMMA VisionKept ==
    ASSUME NEW type, NEW p, NEW q, Below(VisionLadder, p, q)
    PROVE  Kept(VisionIssues(VisionFile(type, At(VisionLadder, p))),
                VisionIssues(VisionFile(type, At(VisionLadder, q))), StandIns)
<1> DEFINE L == VisionLadder
           f == At(L, p)
           g == At(L, q)
           a == VisionFile(type, f)
           b == VisionFile(type, g)
           I == VisionIssues(a)
           J == VisionIssues(b)
<1>1. /\ {"house", "biz", "stock", "equipment", "loan", "health", "cattle", "infra"}
            \subseteq DOMAIN L
      /\ L.loan = <<0, 80, 200>> /\ L.health = <<"healthy", "unhealthy">>
      /\ L.cattle = <<0, 2>> /\ L.infra = <<"good", "bad", "worst">>
  BY DEF VisionLadder
<1>2. /\ DOMAIN L.stock = 1..4
      /\ L.stock[1].worth = 100 /\ L.stock[2].worth = 70
      /\ L.stock[3].worth = 70 /\ L.stock[4].worth = 10
      /\ DOMAIN L.equipment = 1..3
      /\ L.equipment[1].worth = 60 /\ L.equipment[2].worth = 20 /\ L.equipment[3].worth = 20
  BY DEF VisionLadder
<1>3. /\ DOMAIN L.house = 1..6 /\ DOMAIN L.biz = 1..4
      /\ L.house[1].end = "scored" /\ L.house[1].rating = "good"
      /\ L.house[2].end = "no_photos"
      /\ L.house[3].end = "scored" /\ L.house[3].rating = "other"
      /\ L.house[4].end = "scored" /\ L.house[4].rating = "bad"
      /\ L.house[5].end = "garbled" /\ L.house[6].end = "failed"
      /\ L.biz[1] = "no_photos" /\ L.biz[2] = "scored"
      /\ L.biz[3] = "garbled" /\ L.biz[4] = "failed"
  BY ScorerRungs
<1> HIDE DEF L
<1>4. Compare(L, p, q, f, g)
  BY Compared DEF L
<1> HIDE DEF f, g
<1>5. /\ f.loan \in {0, 80, 200} /\ g.loan \in {0, 80, 200} /\ f.loan <= g.loan
      /\ f.infra = "worst" => g.infra = "worst"
  BY <1>1, <1>4, ThreeRungs DEF Compare
<1>6. /\ f.health = "unhealthy" => g.health = "unhealthy"
      /\ f.cattle > 0 => g.cattle > 0
  BY <1>1, <1>4, TwoRungs DEF Compare
<1>7. /\ f.stock.worth \in {100, 70, 10} /\ g.stock.worth \in {100, 70, 10}
      /\ g.stock.worth <= f.stock.worth
  BY <1>1, <1>2, <1>4 DEF Compare
<1>8. /\ f.equipment.worth \in {60, 20} /\ g.equipment.worth \in {60, 20}
      /\ g.equipment.worth <= f.equipment.worth
  BY <1>1, <1>2, <1>4 DEF Compare
<1>9. /\ f.house.end \in {"scored", "failed", "garbled", "no_photos"}
      /\ g.house.end \in {"scored", "failed", "garbled", "no_photos"}
      /\ f.house.end \in {"failed", "garbled"} => g.house.end \in {"failed", "garbled"}
      /\ f.house.end = "scored" /\ f.house.rating \in {"bad", "worst"}
            => \/ g.house.end = "scored" /\ g.house.rating \in {"bad", "worst"}
               \/ g.house.end \in {"failed", "garbled"}
  <2>1. p["house"] \in 1..6 /\ q["house"] \in 1..6 /\ p["house"] <= q["house"]
        /\ f.house = L.house[p["house"]] /\ g.house = L.house[q["house"]]
    BY <1>1, <1>3, <1>4 DEF Compare
  <2> QED
    BY <1>3, <2>1
<1>10. /\ f.biz \in {"failed", "garbled"} => g.biz \in {"failed", "garbled"}
       /\ f.biz = "scored" => g.biz \in {"scored", "failed", "garbled"}
  <2>1. p["biz"] \in 1..4 /\ q["biz"] \in 1..4 /\ p["biz"] <= q["biz"]
        /\ f.biz = L.biz[p["biz"]] /\ g.biz = L.biz[q["biz"]]
    BY <1>1, <1>3, <1>4 DEF Compare
  <2> QED
    BY <1>3, <2>1
<1>11. /\ a.house = f.house.end /\ a.rating = f.house.rating /\ a.biz = f.biz /\ a.type = type
       /\ a.stock = f.stock.worth /\ a.equipment = f.equipment.worth /\ a.loan = f.loan
       /\ a.cattle = f.cattle /\ a.health = f.health /\ a.infra = f.infra
  BY DEF VisionFile
<1>12. /\ b.house = g.house.end /\ b.rating = g.house.rating /\ b.biz = g.biz /\ b.type = type
       /\ b.stock = g.stock.worth /\ b.equipment = g.equipment.worth /\ b.loan = g.loan
       /\ b.cattle = g.cattle /\ b.health = g.health /\ b.infra = g.infra
  BY DEF VisionFile
<1> HIDE DEF a, b, I, J
<1>13. a.loan > 0 /\ Short(a) => b.loan > 0 /\ Short(b)
  BY <1>5, <1>7, <1>8, <1>11, <1>12 DEF Short
<1>14. /\ a.house \in {"scored", "failed", "garbled", "no_photos"} /\ a.loan \in Nat
       /\ a.stock \in Nat /\ a.equipment \in Nat
       /\ b.house \in {"scored", "failed", "garbled", "no_photos"} /\ b.loan \in Nat
       /\ b.stock \in Nat /\ b.equipment \in Nat
  BY <1>5, <1>7, <1>8, <1>9, <1>11, <1>12
<1>15. ASSUME NEW r \in RulesOfVision, I[r] = "CRITICAL"
       PROVE  \/ J[r] = "CRITICAL" \/ J.house_scorer_failed = "CRITICAL"
              \/ J.business_scorer_failed = "CRITICAL"
  BY <1>5, <1>6, <1>9, <1>10, <1>11, <1>12, <1>13, <1>14, <1>15, VisionCritical
  DEF RulesOfVision, I, J
<1>16. /\ DOMAIN I = RulesOfVision /\ DOMAIN J = RulesOfVision
       /\ {"house_scorer_failed", "business_scorer_failed"} \subseteq StandIns \cap RulesOfVision
  BY <1>14, VisionCritical DEF I, J, StandIns, RulesOfVision
<1> QED
  BY <1>15, <1>16 DEF Kept, I, J, a, b, f, g, L

LEMMA CreditPicked ==
    ASSUME NEW x, NEW y
    PROVE  LET reports_ == <<Report("ravi", x), Report("asha", y)>>
           IN /\ _pick_primary_equifax(reports_, "ravi") = 1
              /\ _pick_co_applicant_equifax(reports_, 1, "asha") = 2
<1> DEFINE rs == <<Report("ravi", x), Report("asha", y)>>
<1>1. /\ DOMAIN rs = {1, 2}
      /\ rs[1].of = "ravi" /\ rs[1].exact = TRUE /\ rs[1].hit = TRUE
      /\ rs[2].of = "asha" /\ rs[2].exact = TRUE /\ rs[2].hit = TRUE
  BY DEF Report
<1> HIDE DEF rs
<1>2. ASSUME NEW S, NEW i \in {1, 2}, S \subseteq {1, 2}, i \in S, NEW name,
             rs[i].of = name, \A j \in S : j # i => rs[j].of # name
      PROVE  Named(rs, S, name) = {i}
  <2>1. {j \in S : rs[j].of = name} = {i}
    BY <1>2
  <2>2. {j \in {i} : rs[j].exact} = {i}
    BY <1>1, <1>2
  <2> QED
    BY <2>1, <2>2 DEF Named
<1>3. \A i \in {1, 2} : Newest({i}) = i
  BY DEF Newest
<1>4. {i \in DOMAIN rs : rs[i].hit} = {1, 2}
  BY <1>1
<1>5. Named(rs, {1, 2}, "ravi") = {1}
  BY <1>1, <1>2
<1>6. _pick_primary_equifax(rs, "ravi") = 1
  <2>1. _pick_primary_equifax(rs, "ravi") = Newest({1})
    BY <1>4, <1>5 DEF _pick_primary_equifax
  <2> QED
    BY <1>3, <2>1
<1>7. Named(rs, {2}, "asha") = {2}
  BY <1>1, <1>2
<1>8. _pick_co_applicant_equifax(rs, 1, "asha") = 2
  <2>1. DOMAIN rs \ {1} = {2}
    BY <1>1
  <2>2. _pick_co_applicant_equifax(rs, 1, "asha") = Newest({2})
    BY <1>7, <2>1 DEF _pick_co_applicant_equifax
  <2> QED
    BY <1>3, <2>2
<1> QED
  BY <1>6, <1>8 DEF rs

LEMMA CreditUnpicked ==
    _pick_primary_equifax(<< >>, "ravi") = 0 /\ _pick_co_applicant_equifax(<< >>, 0, "asha") = 0
<1>1. DOMAIN << >> = {}
  OBVIOUS
<1>2. Newest({}) = 0
  BY DEF Newest
<1>3. \A name : Named(<< >>, {}, name) = {}
  BY DEF Named
<1>4. Highest(<< >>, {}) = {}
  BY DEF Highest
<1>5. _pick_primary_equifax(<< >>, "ravi") = 0
  BY <1>1, <1>2, <1>3, <1>4 DEF _pick_primary_equifax
<1>6. _pick_co_applicant_equifax(<< >>, 0, "asha") = 0
  BY <1>1, <1>2, <1>3 DEF _pick_co_applicant_equifax
<1> QED
  BY <1>5, <1>6

OfParty(party) == {party} \X (Marks \cup {"credit_score_floor"})
OfCase == {"case"} \X {"bureau_report_missing", "credit_analyst_failed", "opus_credit_verdict"}

\* What a record of a party fires.
Black(record, rule) ==
    IF rule \in Marks THEN rule \in record.marks /\ rule \in BlockingMarks
    ELSE record.score \in 0..679

LEMMA PartyCritical ==
    ASSUME NEW rs, NEW i, NEW party, NEW r \in OfParty(party), rs[i].score \in Int
    PROVE  PartyIssues(rs, i, party)[r] = "CRITICAL" <=> i # 0 /\ Black(rs[i], r[2])
<1> DEFINE sev == IF i = 0 THEN "ok"
                  ELSE IF r[2] \in Marks THEN cross_check_status(rs[i].marks, r[2])
                  ELSE cross_check_credit_score(rs[i].score)
<1>1. PartyIssues(rs, i, party)[r] = sev
  BY DEF PartyIssues, OfParty
<1>2. cross_check_status(rs[i].marks, r[2]) = "CRITICAL"
        <=> r[2] \in rs[i].marks /\ r[2] \in BlockingMarks
  BY DEF cross_check_status, Flag
<1>3. ASSUME NEW s \in Int
      PROVE  cross_check_credit_score(s) = "CRITICAL" <=> s \in 0..679
  <2>1. CASE s < 0
    BY <2>1 DEF cross_check_credit_score
  <2>2. CASE s \in 0..679
    BY <2>2 DEF cross_check_credit_score
  <2>3. CASE s >= 680
    BY <2>3 DEF cross_check_credit_score
  <2> QED
    BY <2>1, <2>2, <2>3
<1> HIDE DEF sev
<1>4. sev = "CRITICAL" <=> i # 0 /\ Black(rs[i], r[2])
  <2>1. CASE i = 0
    BY <2>1 DEF sev
  <2>2. CASE i # 0 /\ r[2] \in Marks
    BY <1>2, <2>2 DEF sev, Black
  <2>3. CASE i # 0 /\ r[2] \notin Marks
    BY <1>3, <2>3 DEF sev, Black
  <2> QED
    BY <2>1, <2>2, <2>3
<1> QED
  BY <1>1, <1>4

LEMMA PartyQuiet ==
    ASSUME NEW rs, NEW party, NEW r \in OfParty(party)
    PROVE  PartyIssues(rs, 0, party)[r] # "CRITICAL"
BY DEF PartyIssues, OfParty

LEMMA CaseCritical ==
    ASSUME NEW c, NEW a, c.analyst = Analyst(a), a \in {"clean", "failed", "caution", "adverse"}
    PROVE  LET I == CaseIssues(c)
           IN /\ DOMAIN I = OfCase
              /\ I[<<"case", "bureau_report_missing">>] = "CRITICAL" <=> c.rows = << >>
              /\ I[<<"case", "credit_analyst_failed">>] # "CRITICAL"
              /\ I[<<"case", "opus_credit_verdict">>] = "CRITICAL"
                    <=> c.rows # << >> /\ a = "adverse"
<1> DEFINE I == CaseIssues(c)
           missing == c.rows = << >>
           sev(r) == CASE r[2] = "bureau_report_missing" -> Flag(missing, "CRITICAL")
                       [] r[2] = "credit_analyst_failed" ->
                            Flag(~missing /\ c.analyst.failed, "WARNING")
                       [] r[2] = "opus_credit_verdict" ->
                            IF missing \/ c.analyst.failed THEN "ok"
                            ELSE opus_credit_verdict(c.analyst)
<1>1. I = [r \in OfCase |-> sev(r)]
  BY DEF CaseIssues, OfCase
<1>2. /\ <<"case", "bureau_report_missing">> \in OfCase
      /\ <<"case", "credit_analyst_failed">> \in OfCase
      /\ <<"case", "opus_credit_verdict">> \in OfCase
  BY DEF OfCase
<1> HIDE DEF I
<1>3. I[<<"case", "bureau_report_missing">>] = Flag(missing, "CRITICAL")
  BY <1>1, <1>2
<1>4. I[<<"case", "credit_analyst_failed">>] = Flag(~missing /\ c.analyst.failed, "WARNING")
  BY <1>1, <1>2
<1>5. I[<<"case", "opus_credit_verdict">>] =
        IF missing \/ c.analyst.failed THEN "ok" ELSE opus_credit_verdict(c.analyst)
  BY <1>1, <1>2
<1>6. /\ c.analyst.failed <=> a = "failed"
      /\ c.analyst.rec = "approve"
      /\ c.analyst.verdict = IF a = "failed" THEN "clean" ELSE a
  <2>1. c.analyst = [failed |-> a = "failed", rec |-> "approve",
                     verdict |-> IF a = "failed" THEN "clean" ELSE a]
    BY DEF Analyst
  <2>2. CASE a = "failed"
    <3>1. c.analyst = [failed |-> TRUE, rec |-> "approve", verdict |-> "clean"]
      BY Zenon, <2>1, <2>2
    <3> QED
      BY <2>2, <3>1
  <2>3. CASE a # "failed"
    <3>1. c.analyst = [failed |-> FALSE, rec |-> "approve", verdict |-> a]
      BY Zenon, <2>1, <2>3
    <3> QED
      BY <2>3, <3>1
  <2> QED
    BY <2>2, <2>3
<1>7. opus_credit_verdict(c.analyst) = "CRITICAL" <=> a = "adverse"
  BY <1>6 DEF opus_credit_verdict
<1>8. DOMAIN I = OfCase
  BY <1>1
<1> HIDE DEF sev
<1> QED
  BY <1>3, <1>4, <1>5, <1>6, <1>7, <1>8 DEF Flag, I

LEMMA CreditCritical ==
    ASSUME NEW f, f.applicant.score \in Int, f.coapp.score \in Int,
           f.report \in BOOLEAN, f.analyst \in {"clean", "failed", "caution", "adverse"}
    PROVE  LET I == CreditIssues(CreditFile(f))
           IN /\ DOMAIN I = OfParty("applicant") \cup OfParty("co_applicant") \cup OfCase
              /\ \A r \in OfParty("applicant") :
                    I[r] = "CRITICAL" <=> f.report /\ Black(f.applicant, r[2])
              /\ \A r \in OfParty("co_applicant") :
                    I[r] = "CRITICAL" <=> f.report /\ Black(f.coapp, r[2])
              /\ I[<<"case", "bureau_report_missing">>] = "CRITICAL" <=> ~f.report
              /\ I[<<"case", "credit_analyst_failed">>] # "CRITICAL"
              /\ I[<<"case", "opus_credit_verdict">>] = "CRITICAL"
                    <=> f.report /\ f.analyst = "adverse"
<1> DEFINE c == CreditFile(f)
           rs == c.rows
           app == PartyIssues(rs, Primary(c), "applicant")
           co == PartyIssues(rs, CoReport(c), "co_applicant")
           both == CaseIssues(c)
           I == CreditIssues(c)
<1>1. /\ rs = IF f.report THEN <<Report("ravi", f.applicant), Report("asha", f.coapp)>> ELSE << >>
      /\ c.applicant = "ravi" /\ c.coapp = "asha" /\ c.analyst = Analyst(f.analyst)
  BY DEF CreditFile
<1>2. I = [r \in DOMAIN app \cup DOMAIN co \cup DOMAIN both |->
             IF r \in DOMAIN app THEN app[r] ELSE IF r \in DOMAIN co THEN co[r] ELSE both[r]]
  BY DEF CreditIssues
<1> HIDE DEF c, I
<1>3. rs = << >> <=> ~f.report
  BY <1>1
<1>4. /\ \A r \in OfParty("applicant") : app[r] = "CRITICAL" <=> f.report /\ Black(f.applicant, r[2])
      /\ \A r \in OfParty("co_applicant") : co[r] = "CRITICAL" <=> f.report /\ Black(f.coapp, r[2])
  <2>1. CASE f.report
    <3>1. rs = <<Report("ravi", f.applicant), Report("asha", f.coapp)>>
      BY <1>1, <2>1
    <3>2. Primary(c) = 1 /\ CoReport(c) = 2
      BY <1>1, <3>1, CreditPicked DEF Primary, CoReport
    <3>3. /\ rs[1].marks = f.applicant.marks /\ rs[1].score = f.applicant.score
          /\ rs[2].marks = f.coapp.marks /\ rs[2].score = f.coapp.score
      BY <3>1 DEF Report
    <3>4. \A rule : (Black(rs[1], rule) <=> Black(f.applicant, rule))
                    /\ (Black(rs[2], rule) <=> Black(f.coapp, rule))
      BY <3>3 DEF Black
    <3> DEFINE app1 == PartyIssues(rs, 1, "applicant")
               co2 == PartyIssues(rs, 2, "co_applicant")
    <3>5. rs[1].score \in Int /\ rs[2].score \in Int
      BY <3>3
    <3>6. \A r \in OfParty("applicant") : app1[r] = "CRITICAL" <=> Black(rs[1], r[2])
      BY <3>5, PartyCritical
    <3>7. \A r \in OfParty("co_applicant") : co2[r] = "CRITICAL" <=> Black(rs[2], r[2])
      BY <3>5, PartyCritical
    <3>8. app = app1 /\ co = co2
      BY <3>2
    <3> HIDE DEF app, co, app1, co2, rs
    <3> QED
      BY <2>1, <3>4, <3>6, <3>7, <3>8
  <2>2. CASE ~f.report
    <3>1. rs = << >>
      BY <1>1, <2>2
    <3>2. Primary(c) = 0 /\ CoReport(c) = 0
      BY <1>1, <3>1, CreditUnpicked DEF Primary, CoReport
    <3>3. /\ \A r \in OfParty("applicant") : app[r] # "CRITICAL"
          /\ \A r \in OfParty("co_applicant") : co[r] # "CRITICAL"
      BY <3>2, PartyQuiet
    <3> HIDE DEF app, co, rs
    <3> QED
      BY <2>2, <3>3
  <2> QED
    BY <2>1, <2>2
<1>5. DOMAIN app = OfParty("applicant") /\ DOMAIN co = OfParty("co_applicant")
  BY DEF PartyIssues, OfParty
<1>6. /\ DOMAIN both = OfCase
      /\ both[<<"case", "bureau_report_missing">>] = "CRITICAL" <=> ~f.report
      /\ both[<<"case", "credit_analyst_failed">>] # "CRITICAL"
      /\ both[<<"case", "opus_credit_verdict">>] = "CRITICAL"
            <=> f.report /\ f.analyst = "adverse"
  BY <1>1, <1>3, CaseCritical
<1>7. /\ \A r \in OfParty("applicant") : r[1] = "applicant"
      /\ \A r \in OfParty("co_applicant") : r[1] = "co_applicant"
      /\ \A r \in OfCase : r[1] = "case"
  BY DEF OfParty, OfCase
<1>8. /\ <<"case", "bureau_report_missing">> \in OfCase
      /\ <<"case", "credit_analyst_failed">> \in OfCase
      /\ <<"case", "opus_credit_verdict">> \in OfCase
  BY DEF OfCase
<1> HIDE DEF app, co, both
<1>9. /\ \A r \in OfParty("applicant") : I[r] = app[r]
      /\ \A r \in OfParty("co_applicant") : I[r] = co[r]
      /\ \A r \in OfCase : I[r] = both[r]
  BY <1>2, <1>5, <1>6, <1>7
<1>10. DOMAIN I = OfParty("applicant") \cup OfParty("co_applicant") \cup OfCase
  BY <1>2, <1>5, <1>6
<1>11. /\ I[<<"case", "bureau_report_missing">>] = "CRITICAL" <=> ~f.report
       /\ I[<<"case", "credit_analyst_failed">>] # "CRITICAL"
       /\ I[<<"case", "opus_credit_verdict">>] = "CRITICAL"
             <=> f.report /\ f.analyst = "adverse"
  BY <1>6, <1>8, <1>9
<1>12. /\ \A r \in OfParty("applicant") : I[r] = "CRITICAL" <=> f.report /\ Black(f.applicant, r[2])
       /\ \A r \in OfParty("co_applicant") : I[r] = "CRITICAL" <=> f.report /\ Black(f.coapp, r[2])
  BY <1>4, <1>9
<1> QED
  BY <1>10, <1>11, <1>12 DEF I, c

LEMMA CreditKept ==
    ASSUME NEW p, NEW q, Below(CreditLadder, p, q)
    PROVE  Kept(CreditIssues(CreditFile(At(CreditLadder, p))),
                CreditIssues(CreditFile(At(CreditLadder, q))), OfCase)
<1> DEFINE L == CreditLadder
           f == At(L, p)
           g == At(L, q)
           I == CreditIssues(CreditFile(f))
           J == CreditIssues(CreditFile(g))
<1>1. /\ {"applicant", "coapp", "report", "analyst"} \subseteq DOMAIN L
      /\ L.report = Known /\ L.analyst = <<"clean", "failed", "caution", "adverse">>
  BY DEF CreditLadder
<1>2. /\ DOMAIN L.applicant = 1..5 /\ DOMAIN L.coapp = 1..2
      /\ L.applicant[1].marks = {} /\ L.applicant[1].score = 780
      /\ L.applicant[2].marks = {} /\ L.applicant[2].score = -1
      /\ L.applicant[3].marks = {"sma"} /\ L.applicant[3].score = 690
      /\ L.applicant[4].marks = {"sma", "loss"} /\ L.applicant[4].score = 690
      /\ L.applicant[5].marks = {"sma", "loss"} /\ L.applicant[5].score = 600
      /\ L.coapp[1].marks = {} /\ L.coapp[1].score = 720
      /\ L.coapp[2].marks = {"settled"} /\ L.coapp[2].score = 720
  BY DEF CreditLadder
<1> HIDE DEF L
<1>3. Compare(L, p, q, f, g)
  BY Compared DEF L
<1> HIDE DEF f, g
<1>4. f.report \in BOOLEAN /\ g.report \in BOOLEAN /\ (g.report => f.report)
  <2>1. f["report"] \in BOOLEAN /\ g["report"] \in BOOLEAN /\ (g["report"] => f["report"])
    BY <1>1, <1>3, KnownWorse
  <2> QED
    BY <2>1
<1>5. /\ f.analyst \in {"clean", "failed", "caution", "adverse"}
      /\ g.analyst \in {"clean", "failed", "caution", "adverse"}
      /\ f.analyst = "adverse" => g.analyst = "adverse"
  BY <1>1, <1>3, FourRungs DEF Compare
<1>6. /\ f.applicant.score \in Int /\ g.applicant.score \in Int
      /\ f.applicant.marks \subseteq g.applicant.marks
      /\ f.applicant.score \in 0..679 => g.applicant.score \in 0..679
  <2>1. /\ p["applicant"] \in 1..5 /\ q["applicant"] \in 1..5 /\ p["applicant"] <= q["applicant"]
        /\ f.applicant = L.applicant[p["applicant"]] /\ g.applicant = L.applicant[q["applicant"]]
    BY <1>1, <1>2, <1>3 DEF Compare
  <2>2. \A k \in 1..5 : L.applicant[k].score \in {780, -1, 690, 600}
    BY <1>2
  <2>3. \A k \in 1..4 : L.applicant[k].score \in {780, -1, 690}
    BY <1>2
  <2>4. \A k \in 1..5 : L.applicant[k].marks =
            {m \in {"sma"} : k >= 3} \cup {m \in {"loss"} : k >= 4}
    BY <1>2
  <2>5. f.applicant.marks \subseteq g.applicant.marks
    BY <2>1, <2>4
  <2>6. {780, -1, 690, 600} \subseteq Int
    OBVIOUS
  <2>7. f.applicant.score \in 0..679 => g.applicant.score \in 0..679
    <3>1. CASE p["applicant"] \in 1..4
      <4>1. f.applicant.score \in {780, -1, 690}
        BY <2>1, <2>3, <3>1
      <4> DEFINE sc == f.applicant.score
      <4> HIDE DEF sc
      <4>2. sc \in {780, -1, 690}
        BY <4>1 DEF sc
      <4>3. sc \notin 0..679
        BY <4>2
      <4> QED
        BY Zenon, <4>3 DEF sc
    <3>2. CASE p["applicant"] = 5
      <4>1. q["applicant"] = 5
        BY <2>1, <3>2
      <4>2. g.applicant.score = 600
        BY <1>2, <2>1, <4>1
      <4> QED
        BY <4>2
    <3>3. p["applicant"] \in 1..4 \/ p["applicant"] = 5
      BY <2>1
    <3> QED
      BY Zenon, <3>1, <3>2, <3>3
  <2>8. f.applicant.score \in Int /\ g.applicant.score \in Int
    BY <2>1, <2>2, <2>6
  <2> QED
    BY <2>5, <2>7, <2>8
<1>7. /\ f.coapp.score \in Int /\ g.coapp.score \in Int
      /\ f.coapp.marks \subseteq g.coapp.marks
      /\ f.coapp.score \in 0..679 => g.coapp.score \in 0..679
  <2>1. /\ p["coapp"] \in 1..2 /\ q["coapp"] \in 1..2 /\ p["coapp"] <= q["coapp"]
        /\ f.coapp = L.coapp[p["coapp"]] /\ g.coapp = L.coapp[q["coapp"]]
    BY <1>1, <1>2, <1>3 DEF Compare
  <2>2. \A k \in 1..2 : L.coapp[k].score = 720
    BY <1>2
  <2>3. \A k \in 1..2 : L.coapp[k].marks = {m \in {"settled"} : k >= 2}
    BY <1>2
  <2>4. f.coapp.marks \subseteq g.coapp.marks
    BY <2>1, <2>3
  <2>5. f.coapp.score = 720 /\ g.coapp.score = 720
    BY <2>1, <2>2
  <2> QED
    BY <2>4, <2>5
<1>8. \A rule : /\ Black(f.applicant, rule) => Black(g.applicant, rule)
                /\ Black(f.coapp, rule) => Black(g.coapp, rule)
  BY <1>6, <1>7 DEF Black
<1> DEFINE missing == <<"case", "bureau_report_missing">>
           failed == <<"case", "credit_analyst_failed">>
           opus == <<"case", "opus_credit_verdict">>
           A == OfParty("applicant")
           C == OfParty("co_applicant")
<1>9. OfCase = {missing, failed, opus}
  BY DEF OfCase
<1>10. /\ DOMAIN I = A \cup C \cup OfCase
       /\ \A r \in A : I[r] = "CRITICAL" <=> f.report /\ Black(f.applicant, r[2])
       /\ \A r \in C : I[r] = "CRITICAL" <=> f.report /\ Black(f.coapp, r[2])
       /\ I[missing] = "CRITICAL" <=> ~f.report
       /\ I[failed] # "CRITICAL"
       /\ I[opus] = "CRITICAL" <=> f.report /\ f.analyst = "adverse"
  BY <1>4, <1>5, <1>6, <1>7, CreditCritical
<1>11. /\ DOMAIN J = A \cup C \cup OfCase
       /\ \A r \in A : J[r] = "CRITICAL" <=> g.report /\ Black(g.applicant, r[2])
       /\ \A r \in C : J[r] = "CRITICAL" <=> g.report /\ Black(g.coapp, r[2])
       /\ J[missing] = "CRITICAL" <=> ~g.report
       /\ J[failed] # "CRITICAL"
       /\ J[opus] = "CRITICAL" <=> g.report /\ g.analyst = "adverse"
  BY <1>4, <1>5, <1>6, <1>7, CreditCritical
<1> HIDE DEF I, J, missing, failed, opus, A, C
<1>12. ASSUME NEW r \in DOMAIN I, I[r] = "CRITICAL"
       PROVE  J[r] = "CRITICAL" \/ J[missing] = "CRITICAL"
  BY <1>4, <1>5, <1>8, <1>9, <1>10, <1>11, <1>12
<1> QED
  BY <1>9, <1>10, <1>11, <1>12 DEF Kept, I, J, f, g, L

CamRules ==
    {"applicant_name", "pan", "date_of_birth", "loan_amount", "foir", "cibil",
     "total_monthly_income", "tenure_months"}

LEMMA CamCritical ==
    ASSUME NEW c
    PROVE  LET I == detect_discrepancies(c)
           IN /\ DOMAIN I = CamRules
              /\ I.applicant_name = "CRITICAL" <=> ~Identical(c.name)
              /\ I.pan = "CRITICAL" <=> c.pan \notin {"same", "missing"}
              /\ I.date_of_birth = "CRITICAL" <=> ~Identical(c.dob)
              /\ I.loan_amount = "CRITICAL" <=> Both(c.loan) /\ ~BothTolerances(c.loan, 500, 2)
              /\ I.cibil = "CRITICAL" <=> Both(c.cibil) /\ ~WithinAbs(c.cibil, 0)
              /\ I.foir # "CRITICAL" /\ I.total_monthly_income # "CRITICAL"
              /\ I.tenure_months # "CRITICAL"
<1> DEFINE I == detect_discrepancies(c)
<1>1. /\ DOMAIN I = CamRules
      /\ I.applicant_name = "CRITICAL" <=> ~Identical(c.name)
      /\ I.pan = "CRITICAL" <=> c.pan \notin {"same", "missing"}
      /\ I.date_of_birth = "CRITICAL" <=> ~Identical(c.dob)
  BY DEF detect_discrepancies, CamRules
<1>2. /\ I.loan_amount = "CRITICAL" <=> Both(c.loan) /\ ~BothTolerances(c.loan, 500, 2)
      /\ I.cibil = "CRITICAL" <=> Both(c.cibil) /\ ~WithinAbs(c.cibil, 0)
  BY DEF detect_discrepancies
<1>3. I.foir # "CRITICAL" /\ I.total_monthly_income # "CRITICAL" /\ I.tenure_months # "CRITICAL"
  BY DEF detect_discrepancies
<1> HIDE DEF I
<1> QED
  BY <1>1, <1>2, <1>3 DEF I

\* Which sheets disagree, by how far down the ladder: an amount missing in one does not.
LEMMA SheetRungs ==
    LET L == CamLadder
    IN /\ DOMAIN L = {"name", "pan", "dob", "loan", "cibil", "foir", "income", "tenure"}
       /\ L.name = <<"same", "missing", "reordered", "differ">>
       /\ L.pan = <<"same", "missing", "differ">> /\ L.dob = <<"same", "swapped", "differ">>
       /\ DOMAIN L.loan = 1..5 /\ DOMAIN L.cibil = 1..3
       /\ \A k \in 1..3 : ~(Both(L.loan[k]) /\ ~BothTolerances(L.loan[k], 500, 2))
       /\ \A k \in 4..5 : Both(L.loan[k]) /\ ~BothTolerances(L.loan[k], 500, 2)
       /\ \A k \in 1..2 : ~(Both(L.cibil[k]) /\ ~WithinAbs(L.cibil[k], 0))
       /\ Both(L.cibil[3]) /\ ~WithinAbs(L.cibil[3], 0)
<1> DEFINE L == CamLadder
           N == <<20000, Missing, 20400, 20450, 20600>>
           M == <<700, Missing, 701>>
<1>1. /\ DOMAIN L = {"name", "pan", "dob", "loan", "cibil", "foir", "income", "tenure"}
      /\ L.name = <<"same", "missing", "reordered", "differ">>
      /\ L.pan = <<"same", "missing", "differ">> /\ L.dob = <<"same", "swapped", "differ">>
  BY DEF CamLadder
<1>2. /\ L.loan = [i \in DOMAIN N |-> Pair(20000, N[i])]
      /\ L.cibil = [i \in DOMAIN M |-> Pair(700, M[i])]
  BY DEF CamLadder
<1> HIDE DEF L
<1>3. /\ DOMAIN N = 1..5 /\ N[1] = 20000 /\ N[2] = -1 /\ N[3] = 20400 /\ N[4] = 20450
      /\ N[5] = 20600
      /\ DOMAIN M = 1..3 /\ M[1] = 700 /\ M[2] = -1 /\ M[3] = 701
  BY DEF Missing
<1> HIDE DEF N, M
<1>4. /\ \A k \in 1..5 : L.loan[k] = Pair(20000, N[k])
      /\ \A k \in 1..3 : L.cibil[k] = Pair(700, M[k])
      /\ DOMAIN L.loan = 1..5 /\ DOMAIN L.cibil = 1..3
  BY <1>2, <1>3
<1>5. ASSUME NEW s \in Nat, NEW m \in Int
      PROVE  /\ Both(Pair(s, m)) <=> m # -1
             /\ m >= s => /\ WithinAbs(Pair(s, m), 0) <=> m = s
                          /\ s > 1 => (BothTolerances(Pair(s, m), 500, 2)
                                          <=> m - s <= 500 /\ 100 * (m - s) <= 2 * m)
  <2>1. Pair(s, m).system = s /\ Pair(s, m).manual = m
    BY DEF Pair
  <2>2. m >= s => Larger(Pair(s, m)) = m
    BY <2>1 DEF Larger
  <2>3. m >= s => Gap(Pair(s, m)) = m - s
    BY <2>1, <2>2 DEF Gap
  <2>4. Both(Pair(s, m)) <=> m # -1
    BY <2>1 DEF Both, Missing
  <2> QED
    BY <2>2, <2>3, <2>4 DEF WithinAbs, WithinPct, BothTolerances
<1>6. /\ ~(Both(L.loan[1]) /\ ~BothTolerances(L.loan[1], 500, 2))
      /\ ~(Both(L.loan[2]) /\ ~BothTolerances(L.loan[2], 500, 2))
      /\ ~(Both(L.loan[3]) /\ ~BothTolerances(L.loan[3], 500, 2))
  BY <1>3, <1>4, <1>5
<1>7. /\ Both(L.loan[4]) /\ ~BothTolerances(L.loan[4], 500, 2)
      /\ Both(L.loan[5]) /\ ~BothTolerances(L.loan[5], 500, 2)
  BY <1>3, <1>4, <1>5
<1>8. /\ ~(Both(L.cibil[1]) /\ ~WithinAbs(L.cibil[1], 0))
      /\ ~(Both(L.cibil[2]) /\ ~WithinAbs(L.cibil[2], 0))
      /\ Both(L.cibil[3]) /\ ~WithinAbs(L.cibil[3], 0)
  BY <1>3, <1>4, <1>5
<1>9. /\ \A k \in 1..3 : k = 1 \/ k = 2 \/ k = 3
      /\ \A k \in 4..5 : k = 4 \/ k = 5
      /\ \A k \in 1..2 : k = 1 \/ k = 2
  OBVIOUS
<1>10. /\ \A k \in 1..3 : ~(Both(L.loan[k]) /\ ~BothTolerances(L.loan[k], 500, 2))
       /\ \A k \in 4..5 : Both(L.loan[k]) /\ ~BothTolerances(L.loan[k], 500, 2)
       /\ \A k \in 1..2 : ~(Both(L.cibil[k]) /\ ~WithinAbs(L.cibil[k], 0))
  <2>1. \A k \in 1..3 : ~(Both(L.loan[k]) /\ ~BothTolerances(L.loan[k], 500, 2))
    BY Zenon, <1>6, <1>9
  <2>2. \A k \in 4..5 : Both(L.loan[k]) /\ ~BothTolerances(L.loan[k], 500, 2)
    BY Zenon, <1>7, <1>9
  <2>3. \A k \in 1..2 : ~(Both(L.cibil[k]) /\ ~WithinAbs(L.cibil[k], 0))
    BY Zenon, <1>8, <1>9
  <2> QED
    BY Zenon, <2>1, <2>2, <2>3
<1> QED
  BY <1>1, <1>4, <1>8, <1>10 DEF L

LEMMA CamKept ==
    ASSUME NEW p, NEW q, Below(CamLadder, p, q)
    PROVE  Kept(detect_discrepancies(At(CamLadder, p)),
                detect_discrepancies(At(CamLadder, q)), {})
<1> DEFINE L == CamLadder
           f == At(L, p)
           g == At(L, q)
           I == detect_discrepancies(f)
           J == detect_discrepancies(g)
           Loan(x) == Both(x) /\ ~BothTolerances(x, 500, 2)
           Cibil(x) == Both(x) /\ ~WithinAbs(x, 0)
<1>1. /\ {"name", "pan", "dob", "loan", "cibil"} \subseteq DOMAIN L
      /\ L.name = <<"same", "missing", "reordered", "differ">>
      /\ L.pan = <<"same", "missing", "differ">> /\ L.dob = <<"same", "swapped", "differ">>
  BY SheetRungs
<1>2. /\ DOMAIN L.loan = 1..5 /\ DOMAIN L.cibil = 1..3
      /\ \A k \in 1..3 : ~Loan(L.loan[k])
      /\ \A k \in 4..5 : Loan(L.loan[k])
      /\ \A k \in 1..2 : ~Cibil(L.cibil[k])
      /\ Cibil(L.cibil[3])
  BY SheetRungs
<1> HIDE DEF L
<1>3. Compare(L, p, q, f, g)
  BY Compared DEF L
<1> HIDE DEF f, g
<1>4. ~Identical(f.name) => ~Identical(g.name)
  BY <1>1, <1>3, FourRungs DEF Compare, Identical
<1>5. ~Identical(f.dob) => ~Identical(g.dob)
  BY <1>1, <1>3, ThreeRungs DEF Compare, Identical
<1>6. f.pan \notin {"same", "missing"} => g.pan \notin {"same", "missing"}
  BY <1>1, <1>3, ThreeRungs DEF Compare
<1> HIDE DEF Loan, Cibil
<1>7. Loan(f.loan) => Loan(g.loan)
  <2>1. /\ p["loan"] \in 1..5 /\ q["loan"] \in 1..5 /\ p["loan"] <= q["loan"]
        /\ f.loan = L.loan[p["loan"]] /\ g.loan = L.loan[q["loan"]]
    BY <1>1, <1>2, <1>3 DEF Compare
  <2>2. p["loan"] \in 1..3 \/ q["loan"] \in 4..5
    BY <2>1
  <2> QED
    BY Zenon, <1>2, <2>1, <2>2
<1>8. Cibil(f.cibil) => Cibil(g.cibil)
  <2>1. /\ p["cibil"] \in 1..3 /\ q["cibil"] \in 1..3 /\ p["cibil"] <= q["cibil"]
        /\ f.cibil = L.cibil[p["cibil"]] /\ g.cibil = L.cibil[q["cibil"]]
    BY <1>1, <1>2, <1>3 DEF Compare
  <2>2. p["cibil"] \in 1..2 \/ q["cibil"] = 3
    BY <2>1
  <2> QED
    BY Zenon, <1>2, <2>1, <2>2
<1>9. /\ DOMAIN I = CamRules /\ DOMAIN J = CamRules
      /\ I.applicant_name = "CRITICAL" => J.applicant_name = "CRITICAL"
      /\ I.pan = "CRITICAL" => J.pan = "CRITICAL"
      /\ I.date_of_birth = "CRITICAL" => J.date_of_birth = "CRITICAL"
  BY <1>4, <1>5, <1>6, CamCritical
<1>10. /\ I.loan_amount = "CRITICAL" <=> Loan(f.loan)
       /\ J.loan_amount = "CRITICAL" <=> Loan(g.loan)
       /\ I.cibil = "CRITICAL" <=> Cibil(f.cibil)
       /\ J.cibil = "CRITICAL" <=> Cibil(g.cibil)
       /\ I.foir # "CRITICAL" /\ I.total_monthly_income # "CRITICAL"
       /\ I.tenure_months # "CRITICAL"
  BY CamCritical DEF Loan, Cibil
<1> HIDE DEF I, J
<1>11. ASSUME NEW r \in CamRules, I[r] = "CRITICAL"
       PROVE  J[r] = "CRITICAL"
  BY <1>7, <1>8, <1>9, <1>10, <1>11 DEF CamRules
<1> QED
  BY <1>9, <1>11 DEF Kept, I, J, f, g, L

LEMMA CountRung ==
    /\ DOMAIN DocumentCounts = Bundle \cup {"coapp"} /\ "coapp" \notin Bundle
    /\ DocumentCounts["coapp"] = Against
    /\ \A d \in Bundle \ Photographs : DocumentCounts[d] = <<1, 0>>
    /\ \A d \in Photographs : d \in Bundle /\ DocumentCounts[d] = <<3, 2, 0>>
<1>1. "coapp" \notin Bundle /\ Photographs \subseteq Bundle
  BY DEF Bundle, _HARD_REQUIREMENTS, _REQUIRED_BASE, Photographs
<1> QED
  BY <1>1 DEF DocumentCounts

LEMMA CountsWorse ==
    ASSUME NEW p, NEW q, Below(DocumentCounts, p, q), NEW d, d # "coapp"
    PROVE  /\ CountOf(d, At(DocumentCounts, p)) \in Nat
           /\ CountOf(d, At(DocumentCounts, q)) \in Nat
           /\ CountOf(d, At(DocumentCounts, q)) <= CountOf(d, At(DocumentCounts, p))
<1> DEFINE L == DocumentCounts
           f == At(L, p)
           g == At(L, q)
<1>1. DOMAIN f = DOMAIN L /\ DOMAIN g = DOMAIN L
  BY DEF At
<1>2. Compare(L, p, q, f, g)
  BY Compared
<1>3. DOMAIN L = Bundle \cup {"coapp"}
  BY CountRung
<1>4. \A x \in Bundle : L[x] = <<1, 0>> \/ L[x] = <<3, 2, 0>>
  BY CountRung
<1> HIDE DEF L, f, g
<1>5. CASE d \in Bundle
  <2>1. /\ p[d] \in DOMAIN L[d] /\ q[d] \in DOMAIN L[d] /\ p[d] <= q[d]
        /\ f[d] = L[d][p[d]] /\ g[d] = L[d][q[d]]
    BY <1>2, <1>3, <1>5 DEF Compare
  <2>2. CountOf(d, f) = f[d] /\ CountOf(d, g) = g[d]
    BY <1>1, <1>3, <1>5 DEF CountOf
  <2>3. CASE L[d] = <<1, 0>>
    BY <2>1, <2>2, <2>3, TwoRungs DEF f, g, L
  <2>4. CASE L[d] = <<3, 2, 0>>
    BY <2>1, <2>2, <2>4, ThreeRungs DEF f, g, L
  <2> QED
    BY <1>4, <1>5, <2>3, <2>4
<1>6. CASE d \notin Bundle
  <2>1. CountOf(d, f) = 0 /\ CountOf(d, g) = 0
    BY <1>1, <1>3, <1>6 DEF CountOf
  <2> QED
    BY <2>1 DEF f, g, L
<1> QED
  BY <1>5, <1>6

LEMMA NoneRead ==
    /\ "coapp" \notin DOMAIN _HARD_REQUIREMENTS
    /\ \A s \in DOMAIN _HARD_REQUIREMENTS : _HARD_REQUIREMENTS[s] \in {1, 3}
    /\ "coapp" \notin _RESIDENCE_PROOF_OPTIONS /\ "coapp" \notin _CREDIT_REPORT_OPTIONS
    /\ "coapp" \notin _REQUIRED_BASE /\ "coapp" \notin _REQUIRED_IF_COAPP
    /\ "coapp" \notin _ADDRESS_PROOF_GROUP
BY DEF _HARD_REQUIREMENTS, _RESIDENCE_PROOF_OPTIONS, _CREDIT_REPORT_OPTIONS, _REQUIRED_BASE,
       _REQUIRED_IF_COAPP, _ADDRESS_PROOF_GROUP, Photographs

LEMMA SomeOfWorse ==
    ASSUME NEW p, NEW q, Below(DocumentCounts, p, q), NEW options, "coapp" \notin options,
           SomeOf(options, At(DocumentCounts, q))
    PROVE  SomeOf(options, At(DocumentCounts, p))
<1> DEFINE f == At(DocumentCounts, p)
           g == At(DocumentCounts, q)
<1>1. PICK o \in options : CountOf(o, g) > 0
  BY DEF SomeOf
<1>2. CountOf(o, f) \in Nat /\ CountOf(o, g) \in Nat /\ CountOf(o, g) <= CountOf(o, f)
  BY CountsWorse
<1> HIDE DEF f, g
<1>3. CountOf(o, f) > 0
  BY <1>1, <1>2
<1> QED
  BY <1>3 DEF SomeOf, f

\* A document short on a file is short on a worse one.
LEMMA ChecklistWorse ==
    ASSUME NEW p, NEW q, Below(DocumentCounts, p, q),
           validate_completeness(At(DocumentCounts, q)) = {}
    PROVE  validate_completeness(At(DocumentCounts, p)) = {}
<1> DEFINE f == At(DocumentCounts, p)
           g == At(DocumentCounts, q)
<1>1. ASSUME NEW s \in DOMAIN _HARD_REQUIREMENTS
      PROVE  ~(CountOf(s, f) < _HARD_REQUIREMENTS[s])
  <2>1. ~(CountOf(s, g) < _HARD_REQUIREMENTS[s])
    BY DEF validate_completeness
  <2>2. CountOf(s, f) \in Nat /\ CountOf(s, g) \in Nat /\ CountOf(s, g) <= CountOf(s, f)
    BY CountsWorse, NoneRead
  <2>3. _HARD_REQUIREMENTS[s] \in {1, 3}
    BY NoneRead
  <2> HIDE DEF f, g
  <2> QED
    BY <2>1, <2>2, <2>3
<1>2. SomeOf(_RESIDENCE_PROOF_OPTIONS, g) /\ SomeOf(_CREDIT_REPORT_OPTIONS, g)
  BY DEF validate_completeness
<1>3. SomeOf(_RESIDENCE_PROOF_OPTIONS, f) /\ SomeOf(_CREDIT_REPORT_OPTIONS, f)
  BY <1>2, NoneRead, SomeOfWorse
<1> HIDE DEF f, g
<1> QED
  BY <1>1, <1>3 DEF validate_completeness, f

LEMMA AutoRunWorse ==
    ASSUME NEW p, NEW q, Below(DocumentCounts, p, q),
           compute_missing_required_artifacts(At(DocumentCounts, q),
                                              At(DocumentCounts, q)["coapp"]) = {}
    PROVE  compute_missing_required_artifacts(At(DocumentCounts, p),
                                              At(DocumentCounts, p)["coapp"]) = {}
<1> DEFINE f == At(DocumentCounts, p)
           g == At(DocumentCounts, q)
           Needed(h) == _REQUIRED_BASE \cup (IF h["coapp"] THEN _REQUIRED_IF_COAPP ELSE {})
<1>1. f["coapp"] \in BOOLEAN /\ g["coapp"] \in BOOLEAN /\ (f["coapp"] => g["coapp"])
  <2>1. Compare(DocumentCounts, p, q, f, g)
    BY Compared
  <2>2. "coapp" \in DOMAIN DocumentCounts /\ DocumentCounts["coapp"] = Against
    BY CountRung
  <2> HIDE DEF f, g
  <2> QED
    BY <2>1, <2>2, AgainstWorse
<1>2. ASSUME NEW s \in Needed(f)
      PROVE  CountOf(s, f) # 0
  <2>1. s \in Needed(g)
    BY <1>1
  <2>2. CountOf(s, g) # 0
    BY <2>1 DEF compute_missing_required_artifacts
  <2>3. s # "coapp"
    BY NoneRead
  <2>4. CountOf(s, f) \in Nat /\ CountOf(s, g) \in Nat /\ CountOf(s, g) <= CountOf(s, f)
    BY <2>3, CountsWorse
  <2> HIDE DEF f, g
  <2> QED
    BY <2>2, <2>4
<1>3. SomeOf(_ADDRESS_PROOF_GROUP, g)
  BY DEF compute_missing_required_artifacts
<1>4. SomeOf(_ADDRESS_PROOF_GROUP, f)
  BY <1>3, NoneRead, SomeOfWorse
<1> HIDE DEF f, g
<1> QED
  BY <1>2, <1>4 DEF compute_missing_required_artifacts, f

\* The whole bundle, and no co-applicant.
LEMMA BundleComplete ==
    ASSUME NEW p, \A x \in DOMAIN DocumentCounts : p[x] = 1
    PROVE  LET f == At(DocumentCounts, p)
           IN /\ validate_completeness(f) = {}
              /\ compute_missing_required_artifacts(f, f["coapp"]) = {}
<1> DEFINE f == At(DocumentCounts, p)
<1>1. /\ DOMAIN f = Bundle \cup {"coapp"}
      /\ \A x \in DOMAIN f : f[x] = DocumentCounts[x][1]
  BY CountRung DEF At
<1>2. \A d \in Bundle : CountOf(d, f) = IF d \in Photographs THEN 3 ELSE 1
  BY <1>1, CountRung DEF CountOf
<1>3. f["coapp"] = FALSE
  <2>1. f["coapp"] = Against[1]
    BY <1>1, CountRung
  <2>2. Against[1] = FALSE
    BY DEF Against
  <2> QED
    BY Zenon, <2>1, <2>2
<1> HIDE DEF f
<1>4. /\ DOMAIN _HARD_REQUIREMENTS \subseteq Bundle /\ _REQUIRED_BASE \subseteq Bundle
      /\ {"RATION_CARD", "CIBIL_HTML"} \subseteq Bundle \ Photographs
      /\ "RATION_CARD" \in _RESIDENCE_PROOF_OPTIONS \cap _ADDRESS_PROOF_GROUP
      /\ "CIBIL_HTML" \in _CREDIT_REPORT_OPTIONS
  BY DEF Bundle, Photographs, _RESIDENCE_PROOF_OPTIONS, _ADDRESS_PROOF_GROUP,
         _CREDIT_REPORT_OPTIONS
<1>5. \A s \in DOMAIN _HARD_REQUIREMENTS :
         _HARD_REQUIREMENTS[s] = IF s \in Photographs THEN 3 ELSE 1
  BY DEF _HARD_REQUIREMENTS
<1>6. \A s \in DOMAIN _HARD_REQUIREMENTS : ~(CountOf(s, f) < _HARD_REQUIREMENTS[s])
  BY <1>2, <1>4, <1>5
<1>7. CountOf("RATION_CARD", f) > 0 /\ CountOf("CIBIL_HTML", f) > 0
  BY <1>2, <1>4
<1>8. /\ SomeOf(_RESIDENCE_PROOF_OPTIONS, f) /\ SomeOf(_ADDRESS_PROOF_GROUP, f)
      /\ SomeOf(_CREDIT_REPORT_OPTIONS, f)
  BY <1>4, <1>7 DEF SomeOf
<1>9. validate_completeness(f) = {}
  BY <1>6, <1>8 DEF validate_completeness
<1>10. \A s \in _REQUIRED_BASE : CountOf(s, f) # 0
  BY <1>2, <1>4
<1>11. compute_missing_required_artifacts(f, FALSE) = {}
  BY <1>8, <1>10 DEF compute_missing_required_artifacts
<1> QED
  BY <1>3, <1>9, <1>11 DEF f

LEMMA Approves ==
    ASSUME NEW f
    PROVE  Decision(f) = "APPROVE"
              <=> /\ cibil_gate(f.cibil) /\ cibil_gate(OrNone(f.coCibil))
                  /\ age_gate(OrNone(f.age)) /\ indebtedness_gate(OrNone(f.debt))
                  /\ ~f.negative /\ distance_gate(f.distance)
                  /\ ~f.failed /\ ~f.deviations /\ ~(f.confidence < 60)
                  /\ f.address \notin BlockingStates /\ f.scoring \notin BlockingStates
<1> DEFINE a == [failed |-> f.failed, deviations |-> f.deviations,
                 confidence |-> f.confidence, decision |-> "APPROVE"]
<1>1. /\ a.failed = f.failed /\ a.deviations = f.deviations
      /\ a.confidence = f.confidence /\ a.decision = "APPROVE"
  OBVIOUS
<1>2. Decision(f) = final_decision(f, {f.address, f.scoring}, a)
  BY DEF Decision
<1> HIDE DEF a
<1>3. synthesis({f.address, f.scoring}, a) = "APPROVE"
        <=> /\ ~f.failed /\ ~f.deviations /\ ~(f.confidence < 60)
            /\ f.address \notin BlockingStates /\ f.scoring \notin BlockingStates
  BY <1>1 DEF synthesis, Threshold
<1>4. Decision(f) = "APPROVE"
        <=> policy_gates(f) /\ synthesis({f.address, f.scoring}, a) = "APPROVE"
  BY <1>2 DEF final_decision
<1> QED
  BY <1>3, <1>4 DEF policy_gates

LEMMA DecisionWorse ==
    ASSUME NEW p, NEW q, Below(PhaseOneLadder, p, q),
           Decision(At(PhaseOneLadder, q)) = "APPROVE"
    PROVE  Decision(At(PhaseOneLadder, p)) = "APPROVE"
<1> DEFINE L == PhaseOneLadder
           f == At(L, p)
           g == At(L, q)
<1>1. /\ {"cibil", "coCibil", "age", "debt", "negative", "distance", "address", "scoring",
          "failed", "deviations", "confidence"} \subseteq DOMAIN L
      /\ L.cibil = <<780, -1, 600, 0>> /\ L.coCibil = <<720, 0, 600>> /\ L.age = <<30, -1, 70>>
      /\ L.debt = <<100, -1, 500>> /\ L.negative = Against
  BY DEF PhaseOneLadder
<1>2. /\ L.distance = <<10, -1, 30>>
      /\ L.address = <<"PASSED", "PASSED_WITH_MD_OVERRIDE", "BLOCKED">>
      /\ L.scoring = <<"PASSED", "BLOCKED", "PENDING">>
      /\ L.failed = Against /\ L.deviations = Against
      /\ L.confidence = <<90, 60, 59, 0>>
  BY DEF PhaseOneLadder
<1> HIDE DEF L
<1>3. Compare(L, p, q, f, g)
  BY Compared DEF L
<1> HIDE DEF f, g
<1>4. cibil_gate(g.cibil) => cibil_gate(f.cibil)
  BY <1>1, <1>3, FourRungs DEF Compare, cibil_gate
<1>5. cibil_gate(OrNone(g.coCibil)) => cibil_gate(OrNone(f.coCibil))
  BY <1>1, <1>3, ThreeRungs DEF Compare, cibil_gate, OrNone
<1>6. age_gate(OrNone(g.age)) => age_gate(OrNone(f.age))
  BY <1>1, <1>3, ThreeRungs DEF Compare, age_gate, OrNone
<1>7. indebtedness_gate(OrNone(g.debt)) => indebtedness_gate(OrNone(f.debt))
  BY <1>1, <1>3, ThreeRungs DEF Compare, indebtedness_gate, OrNone
<1>8. distance_gate(g.distance) => distance_gate(f.distance)
  BY <1>1, <1>2, <1>3, ThreeRungs DEF Compare, distance_gate
<1>9. g.confidence < 60 \/ ~(f.confidence < 60)
  BY <1>1, <1>2, <1>3, FourRungs DEF Compare
<1>10. g.address \notin BlockingStates => f.address \notin BlockingStates
  BY <1>1, <1>2, <1>3, ThreeRungs DEF Compare, BlockingStates
<1>11. g.scoring \notin BlockingStates => f.scoring \notin BlockingStates
  BY <1>1, <1>2, <1>3, ThreeRungs DEF Compare, BlockingStates
<1>12. (f.negative => g.negative) /\ (f.failed => g.failed) /\ (f.deviations => g.deviations)
  <2>1. \A x \in {"negative", "failed", "deviations"} : x \in DOMAIN L /\ L[x] = Against
    BY <1>1, <1>2
  <2>2. \A x \in {"negative", "failed", "deviations"} : f[x] => g[x]
    BY Zenon, <1>3, <2>1, AgainstWorse
  <2> QED
    BY <2>2
<1>13. Decision(g) = "APPROVE"
  BY DEF f, g, L
<1>14. Decision(f) = "APPROVE"
  BY <1>4, <1>5, <1>6, <1>7, <1>8, <1>9, <1>10, <1>11, <1>12, <1>13, Approves
<1> QED
  BY <1>14 DEF f, g, L

LEMMA CleanApproved ==
    ASSUME NEW p, \A x \in DOMAIN PhaseOneLadder : p[x] = 1
    PROVE  Decision(At(PhaseOneLadder, p)) = "APPROVE"
<1> DEFINE L == PhaseOneLadder
           f == At(L, p)
<1>1. \A x \in DOMAIN L : f[x] = L[x][1]
  BY DEF At
<1>2. /\ {"cibil", "coCibil", "age", "debt", "negative", "distance", "address", "scoring",
          "failed", "deviations", "confidence"} \subseteq DOMAIN L
      /\ L.cibil[1] = 780 /\ L.coCibil[1] = 720 /\ L.age[1] = 30 /\ L.debt[1] = 100
      /\ L.distance[1] = 10 /\ L.address[1] = "PASSED" /\ L.scoring[1] = "PASSED"
      /\ L.confidence[1] = 90
  BY DEF PhaseOneLadder
<1>3. L.negative = Against /\ L.failed = Against /\ L.deviations = Against
  BY DEF PhaseOneLadder
<1>4. Against[1] = FALSE
  BY DEF Against
<1> HIDE DEF f, L
<1>5. f["negative"] = FALSE /\ f["failed"] = FALSE /\ f["deviations"] = FALSE
  <2>1. f["negative"] = Against[1] /\ f["failed"] = Against[1] /\ f["deviations"] = Against[1]
    BY <1>1, <1>2, <1>3
  <2> QED
    BY Zenon, <1>4, <2>1
<1>6. /\ f.cibil = 780 /\ f.coCibil = 720 /\ f.age = 30 /\ f.debt = 100 /\ f.distance = 10
      /\ f.address = "PASSED" /\ f.scoring = "PASSED" /\ f.confidence = 90
  BY <1>1, <1>2
<1>7. /\ cibil_gate(780) /\ cibil_gate(OrNone(720)) /\ age_gate(OrNone(30))
      /\ indebtedness_gate(OrNone(100)) /\ distance_gate(10)
  BY DEF cibil_gate, OrNone, age_gate, indebtedness_gate, distance_gate
<1>8. Decision(f) = "APPROVE"
  <2>1. "PASSED" \notin BlockingStates /\ ~(90 < 60)
    BY DEF BlockingStates
  <2> QED
    BY <1>5, <1>6, <1>7, <2>1, Approves
<1> QED
  BY <1>8 DEF f, L

(***************************************************************************)
(* Clean files: the first value on every ladder.                           *)
(***************************************************************************)
Topmost(L, p) == \A x \in DOMAIN L : p[x] = 1
Quiet(I) == \A r \in DOMAIN I : I[r] # "CRITICAL"

LEMMA FirstRung ==
    ASSUME NEW L, NEW p, Topmost(L, p)
    PROVE  \A x \in DOMAIN L : At(L, p)[x] = L[x][1]
BY DEF Topmost, At

LEMMA FirstKnown ==
    Known[1] = TRUE /\ Against[1] = FALSE
BY DEF Known, Against

LEMMA AgreementClean ==
    ASSUME NEW p, Topmost(AgreementLadder, p)
    PROVE  Quiet(AgreementIssues(AgreementFile(At(AgreementLadder, p))))
<1> DEFINE L == AgreementLadder
           f == At(L, p)
           a == AgreementFile(f)
           I == AgreementIssues(a)
<1>1. /\ {"filed", "scan", "annexure", "clause", "assets"} \subseteq DOMAIN L
      /\ L.filed[1] = {"LAGR"} /\ L.scan[1] = "ok" /\ L.assets[1] = 2
      /\ L.annexure = Known /\ L.clause = Known
  BY DEF AgreementLadder
<1>2. \A x \in DOMAIN L : f[x] = L[x][1]
  BY FirstRung
<1> HIDE DEF L, f
<1>3. f.annexure /\ f.clause
  <2>1. f["annexure"] /\ f["clause"]
    BY <1>1, <1>2, FirstKnown
  <2> QED
    BY <2>1
<1>4. /\ a.scan = "ok" /\ a.assets = 2 /\ a.annexure = f.annexure /\ a.clause = f.clause
      /\ (a.pdf <=> f.filed # {})
  <2>1. f.filed = {"LAGR"} /\ f.scan = "ok" /\ f.assets = 2
    BY <1>1, <1>2
  <2>2. agreement_artifact(f.filed) # "none"
    BY <2>1, AgreementFiled
  <2> QED
    BY <2>1, <2>2 DEF AgreementFile
<1>5. f.filed # {}
  BY <1>1, <1>2
<1> HIDE DEF a
<1>6. a.pdf /\ a.annexure /\ a.clause /\ a.scan = "ok" /\ a.assets > 0
  BY <1>3, <1>4, <1>5
<1>7. \A r \in AgreementRules : I[r] # "CRITICAL"
  BY <1>6, AgreementCritical DEF AgreementRules
<1> QED
  BY <1>7, AgreementCritical DEF Quiet, a, f, L

LEMMA BankingClean ==
    ASSUME NEW p, Topmost(BankingLadder, p)
    PROVE  Quiet(BankingIssues(BankingFile(At(BankingLadder, p))))
<1> DEFINE L == BankingLadder
           f == At(L, p)
           a == BankingFile(f)
           I == BankingIssues(a)
<1>1. /\ {"lines", "months", "loan", "failed", "bounces", "balance"} \subseteq DOMAIN L
      /\ L.lines = Known /\ L.failed = Against /\ L.months[1] = 70 /\ L.loan[1] = 0
      /\ L.bounces[1] = 0 /\ L.balance[1] = 90000
  BY DEF BankingLadder
<1>2. \A x \in DOMAIN L : f[x] = L[x][1]
  BY FirstRung
<1> HIDE DEF L, f
<1>3. f.lines /\ ~f.failed
  <2>1. f["lines"] /\ ~f["failed"]
    BY <1>1, <1>2, FirstKnown
  <2> QED
    BY <2>1
<1>4. /\ a.lines = f.lines /\ a.failed = f.failed /\ a.loan = f.loan
      /\ a.months = IF f.lines THEN f.months ELSE -1
      /\ a.bounces = f.bounces /\ a.balance = f.balance /\ a.tenure = 24
  BY DEF BankingFile
<1>5. /\ f.months = 70 /\ f.loan = 0 /\ f.bounces = 0 /\ f.balance = 90000
  BY <1>1, <1>2
<1> HIDE DEF a
<1>6. estimate_proposed_emi_inr(a.loan, a.tenure) = 0
  BY <1>4, <1>5 DEF estimate_proposed_emi_inr
<1>7. /\ a.lines /\ ~a.failed /\ a.months = 70 /\ a.loan = 0 /\ a.bounces = 0
      /\ a.balance = 90000
  BY <1>3, <1>4, <1>5
<1>8. \A r \in RulesOfBanking : I[r] # "CRITICAL"
  BY <1>6, <1>7, BankingCritical DEF RulesOfBanking
<1> QED
  BY <1>8, BankingCritical DEF Quiet, a, f, L

LEMMA DocumentClean ==
    ASSUME NEW p, Topmost(DocumentLadder, p)
    PROVE  Quiet(DedupeTvrIssues(DocumentFile(At(DocumentLadder, p))))
<1> DEFINE L == DocumentLadder
           f == At(L, p)
           a == DocumentFile(f)
           I == DedupeTvrIssues(a)
<1>1. /\ DOMAIN L = {"dedupe", "matches", "tvr", "nach", "cheque"}
      /\ L.dedupe[1] = "SUCCESS" /\ L.matches[1] = 0 /\ L.tvr = Known /\ L.nach = Known
  BY DEF DocumentLadder
<1>2. L.cheque[1].is = "cheque" /\ L.cheque[1].ifsc = "same" /\ L.cheque[1].tail = "same"
  BY DEF DocumentLadder
<1>3. \A x \in DOMAIN L : f[x] = L[x][1]
  BY FirstRung
<1> HIDE DEF L, f
<1>4. f.tvr /\ f.nach
  <2>1. f["tvr"] /\ f["nach"]
    BY <1>1, <1>3, FirstKnown
  <2> QED
    BY <2>1
<1>5. /\ a.dedupe = f.dedupe /\ a.matches = f.matches /\ a.tvr = f.tvr /\ a.nach = f.nach
      /\ a.cheque = f.cheque.is /\ a.ifsc = f.cheque.ifsc /\ a.tail = f.cheque.tail
  BY DEF DocumentFile
<1>6. /\ f.dedupe = "SUCCESS" /\ f.matches = 0 /\ f.cheque = L.cheque[1]
  BY <1>1, <1>3
<1> HIDE DEF a
<1>7. /\ a.cheque = "cheque" /\ a.ifsc = "same" /\ a.tail = "same"
      /\ a.tvr /\ a.nach /\ a.dedupe = "SUCCESS" /\ a.matches = 0
  BY <1>2, <1>4, <1>5, <1>6
<1>8. \A r \in RulesOfDocument : I[r] # "CRITICAL"
  BY <1>7, DocumentCritical DEF RulesOfDocument
<1> QED
  BY <1>7, <1>8, DocumentCritical DEF Quiet, a, f, L

LEMMA VisionClean ==
    ASSUME NEW type, NEW p, Topmost(VisionLadder, p)
    PROVE  Quiet(VisionIssues(VisionFile(type, At(VisionLadder, p))))
<1> DEFINE L == VisionLadder
           f == At(L, p)
           a == VisionFile(type, f)
           I == VisionIssues(a)
<1>1. /\ {"house", "biz", "stock", "equipment", "loan", "health", "cattle", "infra"}
            \subseteq DOMAIN L
      /\ L.loan[1] = 0 /\ L.health[1] = "healthy" /\ L.cattle[1] = 0 /\ L.infra[1] = "good"
  BY DEF VisionLadder
<1>2. L.stock[1].worth = 100 /\ L.equipment[1].worth = 60
  BY DEF VisionLadder
<1>3. L.house[1].end = "scored" /\ L.house[1].rating = "good" /\ L.biz[1] = "no_photos"
  BY ScorerRungs
<1>4. \A x \in DOMAIN L : f[x] = L[x][1]
  BY FirstRung
<1> HIDE DEF L, f
<1>5. /\ a.house = f.house.end /\ a.rating = f.house.rating /\ a.biz = f.biz /\ a.type = type
      /\ a.stock = f.stock.worth /\ a.equipment = f.equipment.worth /\ a.loan = f.loan
      /\ a.cattle = f.cattle /\ a.health = f.health /\ a.infra = f.infra
  BY DEF VisionFile
<1>6. /\ f.house = L.house[1] /\ f.biz = "no_photos" /\ f.stock = L.stock[1]
      /\ f.equipment = L.equipment[1] /\ f.loan = 0
  BY <1>1, <1>3, <1>4
<1> HIDE DEF a
<1>7. /\ a.house = "scored" /\ a.rating = "good" /\ a.biz = "no_photos" /\ a.loan = 0
      /\ a.stock = 100 /\ a.equipment = 60
  BY <1>2, <1>3, <1>5, <1>6
<1>8. \A r \in RulesOfVision : I[r] # "CRITICAL"
  BY <1>7, VisionCritical DEF RulesOfVision
<1> QED
  BY <1>7, <1>8, VisionCritical DEF Quiet, a, f, L

LEMMA CreditClean ==
    ASSUME NEW p, Topmost(CreditLadder, p)
    PROVE  Quiet(CreditIssues(CreditFile(At(CreditLadder, p))))
<1> DEFINE L == CreditLadder
           f == At(L, p)
           I == CreditIssues(CreditFile(f))
<1>1. /\ {"applicant", "coapp", "report", "analyst"} \subseteq DOMAIN L
      /\ L.report = Known /\ L.analyst[1] = "clean"
      /\ L.applicant[1].marks = {} /\ L.applicant[1].score = 780
      /\ L.coapp[1].marks = {} /\ L.coapp[1].score = 720
  BY DEF CreditLadder
<1>2. \A x \in DOMAIN L : f[x] = L[x][1]
  BY FirstRung
<1> HIDE DEF L, f
<1>3. f["report"] = TRUE
  <2>1. f["report"] = Known[1]
    BY <1>1, <1>2
  <2> QED
    BY Zenon, <2>1, FirstKnown
<1>4. /\ f.analyst = "clean" /\ f.applicant.marks = {} /\ f.applicant.score = 780
      /\ f.coapp.marks = {} /\ f.coapp.score = 720
  BY <1>1, <1>2
<1>5. \A rule : ~Black(f.applicant, rule) /\ ~Black(f.coapp, rule)
  BY <1>4 DEF Black
<1>6. f.report = TRUE /\ 780 \in Int /\ 720 \in Int
  BY <1>3
<1> HIDE DEF I
<1>7. /\ DOMAIN I = OfParty("applicant") \cup OfParty("co_applicant") \cup OfCase
      /\ \A r \in OfParty("applicant") : I[r] # "CRITICAL"
      /\ \A r \in OfParty("co_applicant") : I[r] # "CRITICAL"
      /\ I[<<"case", "bureau_report_missing">>] # "CRITICAL"
      /\ I[<<"case", "credit_analyst_failed">>] # "CRITICAL"
      /\ I[<<"case", "opus_credit_verdict">>] # "CRITICAL"
  <2>1. /\ f.applicant.score \in Int /\ f.coapp.score \in Int /\ f.report \in BOOLEAN
        /\ f.analyst \in {"clean", "failed", "caution", "adverse"}
    BY <1>4, <1>6
  <2>2. f.report /\ f.analyst # "adverse"
    BY <1>4, <1>6
  <2> QED
    BY <1>5, <2>1, <2>2, CreditCritical DEF I
<1>8. OfCase = {<<"case", "bureau_report_missing">>, <<"case", "credit_analyst_failed">>,
                <<"case", "opus_credit_verdict">>}
  BY DEF OfCase
<1>9. Quiet(I)
  BY <1>7, <1>8 DEF Quiet
<1> QED
  BY <1>9 DEF I, f, L

LEMMA CamClean ==
    ASSUME NEW p, Topmost(CamLadder, p)
    PROVE  Quiet(detect_discrepancies(At(CamLadder, p)))
<1> DEFINE L == CamLadder
           f == At(L, p)
           I == detect_discrepancies(f)
           Loan(x) == Both(x) /\ ~BothTolerances(x, 500, 2)
           Cibil(x) == Both(x) /\ ~WithinAbs(x, 0)
<1>1. /\ {"name", "pan", "dob", "loan", "cibil"} \subseteq DOMAIN L
      /\ L.name[1] = "same" /\ L.pan[1] = "same" /\ L.dob[1] = "same"
      /\ ~Loan(L.loan[1]) /\ ~Cibil(L.cibil[1])
  BY SheetRungs
<1>2. \A x \in DOMAIN L : f[x] = L[x][1]
  BY FirstRung
<1> HIDE DEF L, f, Loan, Cibil
<1>3. f.name = "same" /\ f.pan = "same" /\ f.dob = "same" /\ ~Loan(f.loan) /\ ~Cibil(f.cibil)
  BY <1>1, <1>2
<1>4. \A r \in CamRules : I[r] # "CRITICAL"
  BY <1>3, CamCritical DEF CamRules, Identical, Loan, Cibil
<1>5. DOMAIN I = CamRules
  BY CamCritical
<1> QED
  BY <1>4, <1>5 DEF Quiet, f, L

(***************************************************************************)
(* Level 1.  Whose bill it is decides the owner rule; the other rules read *)
(* one field each.                                                         *)
(***************************************************************************)
LEMMA ReadOne ==
    ASSUME NEW scans, DOMAIN scans = {1}, NEW field
    PROVE  FirstRead(scans, field) = scans[1][field]
<1> DEFINE read == {i \in DOMAIN scans : scans[i][field] # NoName}
<1>1. CASE scans[1][field] = NoName
  <2>1. read = {}
    BY <1>1
  <2> QED
    BY <1>1, <2>1 DEF FirstRead
<1>2. CASE scans[1][field] # NoName
  <2>1. read = {1}
    BY <1>2
  <2>2. (CHOOSE i \in {1} : \A j \in {1} : i <= j) = 1
    OBVIOUS
  <2>3. FirstRead(scans, field) = scans[CHOOSE i \in {1} : \A j \in {1} : i <= j][field]
    BY <2>1 DEF FirstRead
  <2> QED
    BY <2>2, <2>3
<1> QED
  BY <1>1, <1>2

LEMMA ReadTwo ==
    ASSUME NEW scans, DOMAIN scans = {1, 2}, NEW field
    PROVE  FirstRead(scans, field) =
              IF scans[1][field] # NoName THEN scans[1][field] ELSE scans[2][field]
<1> DEFINE read == {i \in DOMAIN scans : scans[i][field] # NoName}
           first == CHOOSE i \in read : \A j \in read : i <= j
<1>1. CASE read = {}
  <2>1. scans[1][field] = NoName /\ scans[2][field] = NoName
    BY <1>1
  <2> QED
    BY <1>1, <2>1 DEF FirstRead
<1>2. CASE read # {}
  <2>1. FirstRead(scans, field) = scans[first][field]
    BY <1>2 DEF FirstRead
  <2>2. CASE scans[1][field] # NoName
    <3>1. 1 \in read /\ \A j \in read : 1 <= j
      BY <2>2
    <3>2. \A i \in read : (\A j \in read : i <= j) => i = 1
      BY <3>1
    <3> HIDE DEF read
    <3>3. first = 1
      BY <3>1, <3>2
    <3> QED
      BY <2>1, <2>2, <3>3
  <2>3. CASE scans[1][field] = NoName
    <3>1. read = {2}
      BY <1>2, <2>3
    <3> HIDE DEF read
    <3>2. first = 2
      BY <3>1
    <3> QED
      BY <2>1, <2>3, <3>2
  <2> QED
    BY <2>2, <2>3
<1> QED
  BY <1>1, <1>2

OwnerOf(b) ==
    LET Scans(whose) == [i \in DOMAIN whose |-> BillScan(whose[i])]
    IN ration_bill(Scans(b.ration), Scans(b.electricity))

LEMMA Merged ==
    ASSUME NEW scans
    PROVE  LET m == _scan_all_and_merge(scans)
           IN m.name = FirstRead(scans, "name") /\ m.father = FirstRead(scans, "father")
<1>1. DOMAIN Unread = {"name", "father"}
  BY DEF Unread
<1> QED
  BY <1>1 DEF _scan_all_and_merge

LEMMA OwnerOfOne ==
    ASSUME NEW b, NEW w, b.ration = <<w>>
    PROVE  OwnerOf(b).name = BillScan(w).name /\ OwnerOf(b).father = BillScan(w).father
<1> DEFINE s == [i \in DOMAIN b.ration |-> BillScan(b.ration[i])]
           e == [i \in DOMAIN b.electricity |-> BillScan(b.electricity[i])]
<1>1. DOMAIN s = {1} /\ s[1] = BillScan(w)
  OBVIOUS
<1>2. OwnerOf(b) = _scan_all_and_merge(IF s # << >> THEN s ELSE e)
  BY DEF OwnerOf, ration_bill
<1> HIDE DEF s, e
<1>3. s # << >>
  <2>1. 1 \in DOMAIN s /\ 1 \notin DOMAIN << >>
    BY <1>1
  <2> QED
    BY <2>1
<1> QED
  BY <1>1, <1>2, <1>3, Merged, ReadOne

LEMMA OwnerOfTwo ==
    ASSUME NEW b, NEW w, NEW v, b.ration = <<w, v>>
    PROVE  LET first(x, y) == IF x # NoName THEN x ELSE y
           IN /\ OwnerOf(b).name = first(BillScan(w).name, BillScan(v).name)
              /\ OwnerOf(b).father = first(BillScan(w).father, BillScan(v).father)
<1> DEFINE s == [i \in DOMAIN b.ration |-> BillScan(b.ration[i])]
           e == [i \in DOMAIN b.electricity |-> BillScan(b.electricity[i])]
<1>1. DOMAIN s = {1, 2} /\ s[1] = BillScan(w) /\ s[2] = BillScan(v)
  OBVIOUS
<1>2. OwnerOf(b) = _scan_all_and_merge(IF s # << >> THEN s ELSE e)
  BY DEF OwnerOf, ration_bill
<1> HIDE DEF s, e
<1>3. s # << >>
  <2>1. 1 \in DOMAIN s /\ 1 \notin DOMAIN << >>
    BY <1>1
  <2> QED
    BY <2>1
<1> QED
  BY <1>1, <1>2, <1>3, Merged, ReadTwo

LEMMA OwnerOfElectricity ==
    ASSUME NEW b, NEW w, b.ration = << >>, b.electricity = <<w>>
    PROVE  OwnerOf(b).name = BillScan(w).name /\ OwnerOf(b).father = BillScan(w).father
<1> DEFINE s == [i \in DOMAIN b.ration |-> BillScan(b.ration[i])]
           e == [i \in DOMAIN b.electricity |-> BillScan(b.electricity[i])]
<1>1. DOMAIN e = {1} /\ e[1] = BillScan(w)
  OBVIOUS
<1>2. s = << >>
  <2>1. DOMAIN b.ration = {}
    OBVIOUS
  <2>2. s = [i \in {} |-> BillScan(b.ration[i])]
    BY <2>1
  <2> QED
    BY <2>2
<1>3. OwnerOf(b) = _scan_all_and_merge(IF s # << >> THEN s ELSE e)
  BY DEF OwnerOf, ration_bill
<1> HIDE DEF s, e
<1> QED
  BY <1>1, <1>2, <1>3, Merged, ReadOne

\* The people of the file.
Om == Called("om", "das")
Asha == Called("asha", "das")
OmKumar == Called("om", "kumar")
RaviKumar == Called("ravi", "kumar")
Raju == Called("raju", "kumar")

LEMMA Everybody ==
    /\ Ravi.first = "ravi" /\ Ravi.sur = "das" /\ Om.first = "om" /\ Om.sur = "das"
    /\ Asha.first = "asha" /\ Asha.sur = "das" /\ OmKumar.first = "om" /\ OmKumar.sur = "kumar"
    /\ RaviKumar.first = "ravi" /\ RaviKumar.sur = "kumar"
    /\ Raju.first = "raju" /\ Raju.sur = "kumar"
    /\ NoName.first = "" /\ NoName.sur = ""
<1>1. \A x, y : Called(x, y).first = x /\ Called(x, y).sur = y
  BY DEF Called
<1> QED
  BY <1>1 DEF Ravi, Om, Asha, OmKumar, RaviKumar, Raju, NoName

LEMMA WhoseBill ==
    /\ BillScan("applicant").name = Ravi /\ BillScan("applicant").father = NoName
    /\ BillScan("coapp").name = Asha /\ BillScan("coapp").father = NoName
    /\ BillScan("father").name = Om /\ BillScan("father").father = NoName
    /\ BillScan("namesake").name = OmKumar /\ BillScan("namesake").father = NoName
    /\ BillScan("child").name = RaviKumar /\ BillScan("child").father = Ravi
    /\ BillScan("stranger").name = Raju /\ BillScan("stranger").father = NoName
    /\ BillScan("unread").name = NoName /\ BillScan("unread").father = NoName
<1>1. \A x, y : Scan(x, y).name = x /\ Scan(x, y).father = y
  BY DEF Scan
<1>2. /\ BillScan("applicant") = Scan(Ravi, NoName)
      /\ BillScan("coapp") = Scan(Asha, NoName)
      /\ BillScan("father") = Scan(Om, NoName)
      /\ BillScan("namesake") = Scan(OmKumar, NoName)
  BY DEF BillScan, Asha, Om, OmKumar
<1>3. /\ BillScan("child") = Scan(RaviKumar, Ravi)
      /\ BillScan("stranger") = Scan(Raju, NoName)
      /\ BillScan("unread") = Unread
  BY DEF BillScan, RaviKumar, Raju
<1>4. Unread.name = NoName /\ Unread.father = NoName
  BY DEF Unread
<1> QED
  BY <1>1, <1>2, <1>3, <1>4

\* Who the bill of a rung names, and through whom.
LEMMA OwnerRungs ==
    /\ DOMAIN OwnBills = 1..3
    /\ OwnerOf(OwnBills[1]).name = Ravi
    /\ OwnerOf(OwnBills[2]).name = Ravi
    /\ OwnerOf(OwnBills[3]).name = NoName
    /\ OwnerOf(Bills(<<"coapp">>, << >>)).name = Asha
    /\ DOMAIN BillsOfOthers = 1..4
    /\ OwnerOf(BillsOfOthers[1]).name = Om /\ OwnerOf(BillsOfOthers[1]).father = NoName
    /\ OwnerOf(BillsOfOthers[2]).name = OmKumar /\ OwnerOf(BillsOfOthers[2]).father = NoName
    /\ OwnerOf(BillsOfOthers[3]).name = RaviKumar /\ OwnerOf(BillsOfOthers[3]).father = Ravi
    /\ OwnerOf(BillsOfOthers[4]).name = Raju /\ OwnerOf(BillsOfOthers[4]).father = NoName
<1>1. \A r, e : Bills(r, e).ration = r /\ Bills(r, e).electricity = e
  BY DEF Bills
<1>2. /\ DOMAIN OwnBills = 1..3
      /\ OwnBills[1] = Bills(<<"applicant">>, <<"stranger">>)
      /\ OwnBills[2] = Bills(<<"unread", "applicant">>, << >>)
      /\ OwnBills[3] = Bills(<<"unread">>, <<"stranger">>)
  BY DEF OwnBills
<1>3. /\ DOMAIN BillsOfOthers = 1..4
      /\ BillsOfOthers[1] = Bills(<<"father", "stranger">>, << >>)
      /\ BillsOfOthers[2] = Bills(<< >>, <<"namesake">>)
      /\ BillsOfOthers[3] = Bills(<<"child">>, << >>)
      /\ BillsOfOthers[4] = Bills(<<"stranger", "applicant">>, << >>)
  BY DEF BillsOfOthers
<1>4. Om # NoName /\ Raju # NoName
  BY Everybody
<1>5. OwnerOf(OwnBills[1]).name = Ravi
  BY <1>1, <1>2, OwnerOfOne, WhoseBill
<1>6. OwnerOf(OwnBills[2]).name = Ravi
  BY <1>1, <1>2, OwnerOfTwo, WhoseBill
<1>7. OwnerOf(OwnBills[3]).name = NoName
  BY <1>1, <1>2, OwnerOfOne, WhoseBill
<1>8. OwnerOf(Bills(<<"coapp">>, << >>)).name = Asha
  BY <1>1, OwnerOfOne, WhoseBill
<1>9. OwnerOf(BillsOfOthers[1]).name = Om /\ OwnerOf(BillsOfOthers[1]).father = NoName
  BY <1>1, <1>3, <1>4, OwnerOfTwo, WhoseBill
<1>10. OwnerOf(BillsOfOthers[2]).name = OmKumar /\ OwnerOf(BillsOfOthers[2]).father = NoName
  BY <1>1, <1>3, OwnerOfElectricity, WhoseBill
<1>11. OwnerOf(BillsOfOthers[3]).name = RaviKumar /\ OwnerOf(BillsOfOthers[3]).father = Ravi
  BY <1>1, <1>3, OwnerOfOne, WhoseBill
<1>12. OwnerOf(BillsOfOthers[4]).name = Raju /\ OwnerOf(BillsOfOthers[4]).father = NoName
  BY <1>1, <1>3, <1>4, OwnerOfTwo, WhoseBill
<1> QED
  BY <1>2, <1>3, <1>5, <1>6, <1>7, <1>8, <1>9, <1>10, <1>11, <1>12

LEMMA BillCase ==
    ASSUME NEW co \in BOOLEAN, NEW f, f.pan \in BOOLEAN, f.parties \in BOOLEAN
    PROVE  LET c == BillOf(co, f)
           IN /\ c.owner = OwnerOf(f.bills).name /\ c.via = OwnerOf(f.bills).father
              /\ c.applicant = Ravi /\ c.appFather = Om /\ c.coFather = NoName
              /\ c.coapp = (IF co THEN Asha ELSE NoName)
              /\ c.parties = (IF f.parties THEN {Om, Asha} ELSE {})
<1> DEFINE s == <<Scan(Ravi, NoName), Scan(NoName, Called("om", "das"))>>
           aadhaar == _scan_all_and_merge(s)
           pan == IF f.pan THEN Scan(Ravi, NoName) ELSE Unread
           c == BillOf(co, f)
<1>1. Ravi # NoName /\ Om = Called("om", "das")
  BY Everybody DEF Om
<1>2. \A x, y : Scan(x, y).name = x /\ Scan(x, y).father = y
  BY DEF Scan
<1>3. aadhaar.name = Ravi /\ aadhaar.father = Om
  <2>1. DOMAIN s = {1, 2} /\ s[1] = Scan(Ravi, NoName) /\ s[2] = Scan(NoName, Om)
    BY <1>1
  <2> HIDE DEF s
  <2> QED
    BY <1>1, <1>2, <2>1, Merged, ReadTwo
<1>4. party_name(pan, aadhaar) = Ravi
  <2>1. Unread.name = NoName
    BY DEF Unread
  <2> QED
    BY <1>1, <1>2, <1>3, <2>1 DEF party_name
<1>5. /\ c.owner = OwnerOf(f.bills).name /\ c.via = OwnerOf(f.bills).father
      /\ c.applicant = party_name(pan, aadhaar) /\ c.appFather = aadhaar.father
  BY DEF BillOf, OwnerOf
<1>6. /\ c.coFather = NoName
      /\ c.coapp = IF co THEN Asha ELSE NoName
      /\ c.parties = IF f.parties THEN {Om, Asha} ELSE {}
  BY <1>1 DEF BillOf, Asha
<1> QED
  BY <1>3, <1>4, <1>5, <1>6

LEMMA OwnBillFits ==
    ASSUME NEW c, c.applicant = Ravi,
           c.owner \in {Ravi, NoName} \/ (c.owner = Asha /\ c.coapp = Asha)
    PROVE  ration_owner_rule(c) = "ok"
<1>1. Ravi # NoName /\ Asha # NoName
  BY Everybody
<1> QED
  BY <1>1 DEF ration_owner_rule, OwnerBorrows, name_matches

LEMMA OthersBillFits ==
    ASSUME NEW c, NEW listed \in BOOLEAN,
           c.applicant = Ravi, c.appFather = Om, c.coFather = NoName, c.coapp \in {Asha, NoName},
           c.parties = IF listed THEN {Om, Asha} ELSE {}
    PROVE  LET critical == ration_owner_rule(c) = "CRITICAL"
           IN /\ c.owner = Om => (critical <=> ~listed)
              /\ c.owner = OmKumar /\ c.via = NoName => (critical <=> ~listed)
              /\ c.owner = RaviKumar /\ c.via = Ravi => critical
              /\ c.owner = Raju /\ c.via = NoName => critical
<1>1. /\ Ravi # NoName /\ Asha # NoName /\ Om # NoName /\ OmKumar # NoName
      /\ RaviKumar # NoName /\ Raju # NoName
      /\ Om \notin {Ravi, Asha} /\ OmKumar \notin {Ravi, Asha, Om}
      /\ RaviKumar \notin {Ravi, Asha, Om} /\ Raju \notin {Ravi, Asha, Om}
  BY Everybody
<1>2. \A n : IsParty(n, c) <=> listed /\ n # NoName /\ n \in {Om, Asha}
  BY DEF IsParty, name_matches
<1>3. c.owner \notin {Ravi, Asha, NoName}
        => (ration_owner_rule(c) = "CRITICAL"
              <=> /\ ~(OwnerIsGuardian(c) /\ OnLoan(c.owner, c))
                  /\ ~(~OwnerIsGuardian(c) /\ ~OwnerIsChild(c) /\ Tolerated(c)))
  BY <1>1 DEF ration_owner_rule, OwnerBorrows, name_matches
<1>4. /\ OwnerIsGuardian(c) <=> c.owner = Om
      /\ OwnerIsChild(c) <=> c.via = Ravi
  BY <1>1 DEF OwnerIsGuardian, OwnerIsChild, name_matches
<1>5. c.owner = Om => (OnLoan(c.owner, c) <=> listed)
  BY <1>1, <1>2 DEF OnLoan, name_matches
<1> DEFINE m(i) == first_names_match(c.owner, candidates(c)[i])
<1>6. /\ DOMAIN candidates(c) = 1..4
      /\ candidates(c)[1] = Ravi /\ candidates(c)[2] \in {Asha, NoName}
      /\ candidates(c)[3] = Om /\ candidates(c)[4] = NoName
  BY DEF candidates
<1>7. ASSUME c.owner = OmKumar
      PROVE  Tolerated(c) <=> listed
  <2>1. ~m(1) /\ ~m(2) /\ m(3) /\ ~m(4)
    BY <1>1, <1>6, <1>7, Everybody DEF first_names_match
  <2>2. Namesakes(c) = {3}
    BY <1>6, <2>1 DEF Namesakes
  <2>3. has_generic_surname(c.owner)
    BY <1>7, Everybody DEF has_generic_surname, Generic
  <2> QED
    BY <1>1, <1>2, <1>6, <2>2, <2>3 DEF Tolerated
<1>8. ASSUME c.owner = Raju
      PROVE  ~Tolerated(c)
  <2>1. ~m(1) /\ ~m(2) /\ ~m(3) /\ ~m(4)
    BY <1>1, <1>6, <1>8, Everybody DEF first_names_match
  <2>2. Namesakes(c) = {}
    BY <1>6, <2>1 DEF Namesakes
  <2> QED
    BY <2>2 DEF Tolerated
<1> QED
  BY <1>1, <1>3, <1>4, <1>5, <1>7, <1>8

\* How the photos are judged, by how far down the ladder.
LEMMA PlaceRungs ==
    ASSUME NEW bills
    PROVE  LET P == AddressLadder(bills).places
               Asked(k) == P[k].dm # "unasked" /\ commute(P[k].dm, P[k].minutes, P[k].judge) = "CRITICAL"
           IN /\ DOMAIN P = 1..8
              /\ \A k \in 1..4 : gps_vs_aadhaar(TRUE, P[k].gps) # "CRITICAL"
              /\ \A k \in 5..8 : gps_vs_aadhaar(TRUE, P[k].gps) = "CRITICAL"
              /\ \A k \in 1..6 : ~Asked(k)
              /\ \A k \in 7..8 : Asked(k)
<1> DEFINE P == AddressLadder(bills).places
           Asked(k) == P[k].dm # "unasked" /\ commute(P[k].dm, P[k].minutes, P[k].judge) = "CRITICAL"
           Seen(kind, state, pins, village) ==
               [kind |-> kind, state |-> state, pins |-> pins, district |-> "unknown",
                village |-> village, similar |-> pins = "yes"]
           Burnt(pins, village) == [pins |-> pins, village |-> village]
<1>1. DOMAIN P = 1..8
  BY DEF AddressLadder
<1>2. /\ P[1].gps = gps_match(Seen("structured", "yes", "no", "no"), Burnt("yes", "yes"))
      /\ P[2].gps = Seen("text", "yes", "yes", "yes")
  BY DEF AddressLadder
<1>3. /\ P[3].gps = gps_match(Seen("structured", "yes", "unknown", "no"), Burnt("unknown", "yes"))
      /\ P[4].gps = Seen("no_coords", "no", "no", "no")
  BY DEF AddressLadder
<1>4. /\ P[5].gps = Seen("structured", "no", "yes", "no")
      /\ P[6].gps = gps_match(Seen("structured", "yes", "yes", "yes"), Burnt("no", "unknown"))
  BY DEF AddressLadder
<1>5. /\ P[7].gps = Seen("text", "no", "no", "no")
      /\ P[8].gps = Seen("structured", "no", "no", "no")
  BY DEF AddressLadder
<1>6. /\ P[1].dm = "ok" /\ P[1].minutes = "near" /\ P[1].judge = "near"
      /\ P[2].dm = "ok" /\ P[2].minutes = "far" /\ P[2].judge = "WARNING"
      /\ P[3].dm = "error" /\ P[4].dm = "unasked"
  BY DEF AddressLadder
<1>7. /\ P[5].dm = "ok" /\ P[5].minutes = "near" /\ P[5].judge = "near"
      /\ P[6].dm = "ok" /\ P[6].minutes = "far" /\ P[6].judge = "none"
      /\ P[7].dm = "ok" /\ P[7].minutes = "far" /\ P[7].judge = "CRITICAL"
      /\ P[8].dm = "zero_results"
  BY DEF AddressLadder
<1> HIDE DEF P
<1>8. ASSUME NEW g, g.kind = "structured"
      PROVE  gps_vs_aadhaar(TRUE, g) = "CRITICAL"
                <=> g.state = "no" \/ DistrictMatch(g) = "no"
  <2>1. gps_verdict(g) \in {"match", "doubtful", "mismatch"}
        /\ (gps_verdict(g) = "mismatch" <=> g.state = "no" \/ DistrictMatch(g) = "no")
    BY DEF gps_verdict
  <2> QED
    BY <1>8, <2>1 DEF gps_vs_aadhaar
<1>10. gps_vs_aadhaar(TRUE, P[1].gps) # "CRITICAL" /\ gps_vs_aadhaar(TRUE, P[2].gps) # "CRITICAL"
  <2>1. /\ P[1].gps.kind = "structured" /\ P[1].gps.state = "yes" /\ P[1].gps.pins = "yes"
    BY <1>2 DEF gps_match, Either
  <2>2. P[2].gps.kind = "text" /\ P[2].gps.similar
    <3>1. P[2].gps = [kind |-> "text", state |-> "yes", pins |-> "yes", district |-> "unknown",
                      village |-> "yes", similar |-> TRUE]
      BY Zenon, <1>2
    <3> QED
      BY <3>1
  <2>3. gps_vs_aadhaar(TRUE, P[2].gps) # "CRITICAL"
    BY <2>2 DEF gps_vs_aadhaar
  <2> QED
    BY <1>8, <2>1, <2>3 DEF DistrictMatch
<1>11. gps_vs_aadhaar(TRUE, P[3].gps) # "CRITICAL" /\ gps_vs_aadhaar(TRUE, P[4].gps) # "CRITICAL"
  <2>1. /\ P[3].gps.kind = "structured" /\ P[3].gps.state = "yes" /\ P[3].gps.pins = "unknown"
        /\ P[3].gps.district = "unknown"
    BY <1>3 DEF gps_match, Either
  <2>2. P[4].gps.kind = "no_coords"
    BY <1>3
  <2>3. gps_vs_aadhaar(TRUE, P[4].gps) # "CRITICAL"
    BY <2>2 DEF gps_vs_aadhaar
  <2> QED
    BY <1>8, <2>1, <2>3 DEF DistrictMatch
<1>12. gps_vs_aadhaar(TRUE, P[5].gps) = "CRITICAL" /\ gps_vs_aadhaar(TRUE, P[6].gps) = "CRITICAL"
  <2>1. /\ P[6].gps.kind = "structured" /\ P[6].gps.state = "yes" /\ P[6].gps.pins = "no"
    BY <1>4 DEF gps_match, Either
  <2>2. P[5].gps.kind = "structured" /\ P[5].gps.state = "no"
    BY <1>4
  <2> QED
    BY <1>8, <2>1, <2>2 DEF DistrictMatch
<1>13. gps_vs_aadhaar(TRUE, P[7].gps) = "CRITICAL" /\ gps_vs_aadhaar(TRUE, P[8].gps) = "CRITICAL"
  <2>1. P[7].gps.kind = "text" /\ ~P[7].gps.similar
    <3>1. P[7].gps = [kind |-> "text", state |-> "no", pins |-> "no", district |-> "unknown",
                      village |-> "no", similar |-> FALSE]
      BY Zenon, <1>5
    <3> QED
      BY <3>1
  <2>2. P[8].gps.kind = "structured" /\ P[8].gps.state = "no"
    BY <1>5
  <2>3. gps_vs_aadhaar(TRUE, P[7].gps) = "CRITICAL"
    BY <2>1 DEF gps_vs_aadhaar
  <2> QED
    BY <1>8, <2>2, <2>3
<1>14. ~Asked(1) /\ ~Asked(2) /\ ~Asked(3) /\ ~Asked(4)
  BY <1>6 DEF commute
<1>15. ~Asked(5) /\ ~Asked(6) /\ Asked(7) /\ Asked(8)
  BY <1>7 DEF commute
<1> HIDE DEF Asked
<1>16. \A k \in 1..4 : gps_vs_aadhaar(TRUE, P[k].gps) # "CRITICAL"
  <2>1. \A k \in 1..4 : k = 1 \/ k = 2 \/ k = 3 \/ k = 4
    OBVIOUS
  <2> QED
    BY Zenon, <1>10, <1>11, <2>1
<1>17. \A k \in 5..8 : gps_vs_aadhaar(TRUE, P[k].gps) = "CRITICAL"
  <2>1. \A k \in 5..8 : k = 5 \/ k = 6 \/ k = 7 \/ k = 8
    OBVIOUS
  <2> QED
    BY Zenon, <1>12, <1>13, <2>1
<1>18. (\A k \in 1..6 : ~Asked(k)) /\ (\A k \in 7..8 : Asked(k))
  <2>1. \A k \in 1..6 : k = 1 \/ k = 2 \/ k = 3 \/ k = 4 \/ k = 5 \/ k = 6
    OBVIOUS
  <2>2. \A k \in 7..8 : k = 7 \/ k = 8
    OBVIOUS
  <2> QED
    BY Zenon, <1>14, <1>15, <2>1, <2>2
<1> QED
  BY <1>1, <1>16, <1>17, <1>18 DEF P, Asked

\* The bills of a ladder: n that fit the applicant, then the four of others.
BillsFor(co, n, bills) ==
    /\ n \in Nat /\ DOMAIN bills = 1..(n + 4)
    /\ \A k \in 1..n : \/ OwnerOf(bills[k]).name \in {Ravi, NoName}
                       \/ co /\ OwnerOf(bills[k]).name = Asha
    /\ \A k \in 1..4 : bills[n + k] = BillsOfOthers[k]

LEMMA BillsOfLadders ==
    /\ BillsFor(TRUE, 4, OwnBills \o <<Bills(<<"coapp">>, << >>)>> \o BillsOfOthers)
    /\ BillsFor(FALSE, 3, OwnBills \o BillsOfOthers)
<1> DEFINE x == Bills(<<"coapp">>, << >>)
           one == <<x>>
           O == OwnBills
           T == BillsOfOthers
           S == {O[1], O[2], O[3], T[1], T[2], T[3], T[4], x}
<1>1. O \in Seq(S) /\ Len(O) = 3
  <2>1. \A a, b, c : \A Z : {a, b, c} \subseteq Z => <<a, b, c>> \in Seq(Z) /\ Len(<<a, b, c>>) = 3
    OBVIOUS
  <2>2. PICK a, b, c : O = <<a, b, c>>
    BY DEF OwnBills
  <2>3. O[1] = a /\ O[2] = b /\ O[3] = c
    BY <2>2
  <2> HIDE DEF O, T, x
  <2>4. {a, b, c} \subseteq S
    BY <2>3
  <2> HIDE DEF S
  <2> QED
    BY <2>1, <2>2, <2>4
<1>2. T \in Seq(S) /\ Len(T) = 4
  <2>1. \A a, b, c, d : \A Z : {a, b, c, d} \subseteq Z
            => <<a, b, c, d>> \in Seq(Z) /\ Len(<<a, b, c, d>>) = 4
    OBVIOUS
  <2>2. PICK a, b, c, d : T = <<a, b, c, d>>
    BY DEF BillsOfOthers
  <2>3. T[1] = a /\ T[2] = b /\ T[3] = c /\ T[4] = d
    BY <2>2
  <2> HIDE DEF O, T, x
  <2>4. {a, b, c, d} \subseteq S
    BY <2>3
  <2> HIDE DEF S
  <2> QED
    BY <2>1, <2>2, <2>4
<1>3. one \in Seq(S) /\ Len(one) = 1 /\ one[1] = x
  <2> HIDE DEF O, T, x
  <2> QED
    OBVIOUS
<1>4. /\ OwnerOf(O[1]).name = Ravi /\ OwnerOf(O[2]).name = Ravi
      /\ OwnerOf(O[3]).name = NoName /\ OwnerOf(x).name = Asha
  BY OwnerRungs
<1> HIDE DEF O, T, x, one, S
<1>5. \A k \in 1..3 : OwnerOf(O[k]).name \in {Ravi, NoName}
  <2>1. \A k \in 1..3 : k = 1 \/ k = 2 \/ k = 3
    OBVIOUS
  <2> QED
    BY Zenon, <1>4, <2>1
<1>6. BillsFor(FALSE, 3, O \o T)
  <2>1. /\ O \o T \in Seq(S) /\ Len(O \o T) = Len(O) + Len(T)
        /\ \A i \in 1..Len(O) + Len(T) : (O \o T)[i] =
              IF i <= Len(O) THEN O[i] ELSE T[i - Len(O)]
    BY Zenon, <1>1, <1>2, ConcatProperties
  <2> DEFINE V == O \o T
  <2> HIDE DEF V
  <2>2. V \in Seq(S) /\ Len(V) = 7
    BY <1>1, <1>2, <2>1 DEF V
  <2>3. DOMAIN V = 1..7
    BY <2>2
  <2>4. \A k \in 1..3 : V[k] = O[k]
    BY <1>1, <1>2, <2>1 DEF V
  <2>5. ASSUME NEW k \in 1..4
        PROVE  V[3 + k] = T[k]
    <3>1. 3 + k \in 1..(3 + 4) /\ ~(3 + k <= 3) /\ (3 + k) - 3 = k
      OBVIOUS
    <3> QED
      BY <1>1, <1>2, <2>1, <3>1 DEF V
  <2>6. \A k \in 1..3 : OwnerOf(V[k]).name \in {Ravi, NoName}
    BY Zenon, <1>5, <2>4
  <2>7. 3 \in Nat /\ DOMAIN V = 1..(3 + 4)
    BY <2>3
  <2>8. BillsFor(FALSE, 3, V)
    BY Zenon, <2>5, <2>6, <2>7 DEF BillsFor, T
  <2> QED
    BY <2>8 DEF V
<1>7. BillsFor(TRUE, 4, (O \o one) \o T)
  <2> DEFINE U == O \o one
             V == U \o T
  <2>1. /\ O \o one \in Seq(S) /\ Len(O \o one) = Len(O) + Len(one)
        /\ \A i \in 1..Len(O) + Len(one) : (O \o one)[i] =
              IF i <= Len(O) THEN O[i] ELSE one[i - Len(O)]
    BY Zenon, <1>1, <1>3, ConcatProperties
  <2>2. U \in Seq(S) /\ Len(U) = 4
    BY <1>1, <1>3, <2>1
  <2>3. (\A k \in 1..3 : U[k] = O[k]) /\ U[4] = x
    BY <1>1, <1>3, <2>1
  <2> HIDE DEF U
  <2>4. /\ U \o T \in Seq(S) /\ Len(U \o T) = Len(U) + Len(T)
        /\ \A i \in 1..Len(U) + Len(T) : (U \o T)[i] =
              IF i <= Len(U) THEN U[i] ELSE T[i - Len(U)]
    BY Zenon, <1>2, <2>2, ConcatProperties
  <2> HIDE DEF V
  <2>5. V \in Seq(S) /\ Len(V) = 8
    BY <1>2, <2>2, <2>4 DEF V
  <2>6. \A k \in 1..4 : V[k] = U[k]
    BY <1>2, <2>2, <2>4 DEF V
  <2>7. \A k \in 1..4 : V[4 + k] = T[k]
    BY <1>2, <2>2, <2>4 DEF V
  <2>8. \A k \in 1..4 : \/ OwnerOf(V[k]).name \in {Ravi, NoName}
                        \/ OwnerOf(V[k]).name = Asha
    <3>1. \A k \in 1..4 : k \in 1..3 \/ k = 4
      OBVIOUS
    <3>2. \A k \in 1..4 : OwnerOf(U[k]).name \in {Ravi, NoName} \/ OwnerOf(U[k]).name = Asha
      BY Zenon, <1>4, <1>5, <2>3, <3>1
    <3> QED
      BY Zenon, <2>6, <3>2
  <2>9. 4 \in Nat /\ DOMAIN V = 1..(4 + 4)
    BY <2>5
  <2>10. BillsFor(TRUE, 4, V)
    BY Zenon, <2>7, <2>8, <2>9 DEF BillsFor, T
  <2> QED
    BY <2>10 DEF U, V
<1> QED
  BY <1>6, <1>7 DEF O, T, one, x

RulesOfAddress == {"coapp_address", "gps_vs_aadhaar", "commute", "bureau_bank", "ration_owner_rule"}

LEMMA AddressCritical ==
    ASSUME NEW co \in BOOLEAN, NEW f
    PROVE  LET I == AddressIssues(co, f)
           IN /\ DOMAIN I = RulesOfAddress
              /\ I.coapp_address = "CRITICAL" <=> co /\ f.coAddress = "different"
              /\ I.gps_vs_aadhaar = "CRITICAL" <=> gps_vs_aadhaar(TRUE, f.places.gps) = "CRITICAL"
              /\ I.commute = "CRITICAL"
                    <=> /\ f.places.dm # "unasked"
                        /\ commute(f.places.dm, f.places.minutes, f.places.judge) = "CRITICAL"
              /\ I.bureau_bank # "CRITICAL"
              /\ I.ration_owner_rule = "CRITICAL" <=> ration_owner_rule(BillOf(co, f)) = "CRITICAL"
<1> DEFINE I == AddressIssues(co, f)
<1>1. /\ DOMAIN I = RulesOfAddress
      /\ I.coapp_address = coapp_address(TRUE, IF co THEN f.coAddress ELSE "missing")
      /\ I.gps_vs_aadhaar = gps_vs_aadhaar(TRUE, f.places.gps)
  BY DEF AddressIssues, RulesOfAddress
<1>2. /\ I.commute = IF f.places.dm = "unasked" THEN "ok"
                     ELSE commute(f.places.dm, f.places.minutes, f.places.judge)
      /\ I.bureau_bank = outside_address(TRUE, outside_addresses(f.bureau))
      /\ I.ration_owner_rule = ration_owner_rule(BillOf(co, f))
  BY DEF AddressIssues
<1> HIDE DEF I
<1>3. I.coapp_address = "CRITICAL" <=> co /\ f.coAddress = "different"
  BY <1>1 DEF coapp_address
<1>4. I.bureau_bank # "CRITICAL"
  BY <1>2 DEF outside_address
<1> QED
  BY <1>1, <1>2, <1>3, <1>4 DEF I

LEMMA AddressRead ==
    ASSUME NEW bills, NEW p, NEW q, NEW f, NEW g, Compare(AddressLadder(bills), p, q, f, g)
    PROVE  /\ f.pan \in BOOLEAN /\ g.pan \in BOOLEAN /\ f.parties \in BOOLEAN
           /\ g.parties \in BOOLEAN /\ (g.parties => f.parties)
           /\ f.coAddress = "different" => g.coAddress = "different"
           /\ p["bills"] \in DOMAIN bills /\ q["bills"] \in DOMAIN bills /\ p["bills"] <= q["bills"]
           /\ f.bills = bills[p["bills"]] /\ g.bills = bills[q["bills"]]
           /\ p["places"] \in 1..8 /\ q["places"] \in 1..8 /\ p["places"] <= q["places"]
           /\ f.places = AddressLadder(bills).places[p["places"]]
           /\ g.places = AddressLadder(bills).places[q["places"]]
<1> DEFINE L == AddressLadder(bills)
<1>1. /\ {"places", "coAddress", "bills", "pan", "parties"} \subseteq DOMAIN L
      /\ L.coAddress = <<"similar", "missing", "different">>
      /\ L.bills = bills /\ L.pan = Known /\ L.parties = Known
  BY DEF AddressLadder
<1>2. DOMAIN L.places = 1..8
  BY PlaceRungs
<1> HIDE DEF L
<1>3. Compare(L, p, q, f, g)
  BY DEF L
<1>4. /\ f.pan \in BOOLEAN /\ g.pan \in BOOLEAN /\ f.parties \in BOOLEAN
      /\ g.parties \in BOOLEAN /\ (g.parties => f.parties)
  <2>1. f["pan"] \in BOOLEAN /\ g["pan"] \in BOOLEAN
    BY <1>1, <1>3, KnownWorse
  <2>2. f["parties"] \in BOOLEAN /\ g["parties"] \in BOOLEAN /\ (g["parties"] => f["parties"])
    BY <1>1, <1>3, KnownWorse
  <2> QED
    BY <2>1, <2>2
<1>5. f.coAddress = "different" => g.coAddress = "different"
  BY <1>1, <1>3, ThreeRungs DEF Compare
<1>6. /\ p["bills"] \in DOMAIN bills /\ q["bills"] \in DOMAIN bills /\ p["bills"] <= q["bills"]
      /\ f.bills = bills[p["bills"]] /\ g.bills = bills[q["bills"]]
  BY <1>1, <1>3 DEF Compare
<1>7. /\ p["places"] \in 1..8 /\ q["places"] \in 1..8 /\ p["places"] <= q["places"]
      /\ f.places = L.places[p["places"]] /\ g.places = L.places[q["places"]]
  BY <1>1, <1>2, <1>3 DEF Compare
<1> QED
  BY <1>4, <1>5, <1>6, <1>7 DEF L

\* When the owner rule is critical.
LEMMA BillJudged ==
    ASSUME NEW co \in BOOLEAN, NEW n, NEW bills, BillsFor(co, n, bills), NEW f,
           f.pan \in BOOLEAN, f.parties \in BOOLEAN, NEW k \in DOMAIN bills, f.bills = bills[k]
    PROVE  ration_owner_rule(BillOf(co, f)) = "CRITICAL"
              <=> k > n + 2 \/ (k > n /\ ~f.parties)
<1> DEFINE c == BillOf(co, f)
<1>1. /\ c.owner = OwnerOf(f.bills).name /\ c.via = OwnerOf(f.bills).father
      /\ c.applicant = Ravi /\ c.appFather = Om /\ c.coFather = NoName
      /\ c.coapp = (IF co THEN Asha ELSE NoName)
      /\ c.parties = (IF f.parties THEN {Om, Asha} ELSE {})
  BY BillCase
<1> HIDE DEF c
<1>2. n \in Nat /\ k \in 1..(n + 4)
  BY DEF BillsFor
<1>3. CASE k \in 1..n
  <2>1. c.owner \in {Ravi, NoName} \/ (co /\ c.owner = Asha)
    BY <1>1, <1>3 DEF BillsFor
  <2>2. ration_owner_rule(c) = "ok"
    BY <1>1, <2>1, OwnBillFits
  <2> QED
    BY <1>2, <1>3, <2>2 DEF c
<1>4. CASE k \notin 1..n
  <2>1. PICK j \in 1..4 : k = n + j
    <3>1. k - n \in 1..4 /\ k = n + (k - n)
      BY <1>2, <1>4
    <3> QED
      BY <3>1
  <2>2. f.bills = BillsOfOthers[j]
    BY <2>1 DEF BillsFor
  <2>3. /\ c.owner = OwnerOf(BillsOfOthers[j]).name
        /\ c.via = OwnerOf(BillsOfOthers[j]).father
    BY <1>1, <2>2
  <2>4. c.coapp \in {Asha, NoName}
    BY <1>1
  <2>5. LET critical == ration_owner_rule(c) = "CRITICAL"
        IN /\ c.owner = Om => (critical <=> ~f.parties)
           /\ c.owner = OmKumar /\ c.via = NoName => (critical <=> ~f.parties)
           /\ c.owner = RaviKumar /\ c.via = Ravi => critical
           /\ c.owner = Raju /\ c.via = NoName => critical
    BY <1>1, <2>4, OthersBillFits
  <2>6. j = 1 \/ j = 2 \/ j = 3 \/ j = 4
    BY <2>1
  <2>7. ration_owner_rule(c) = "CRITICAL" <=> j \in {3, 4} \/ ~f.parties
    BY <2>3, <2>5, <2>6, OwnerRungs
  <2> QED
    BY <1>2, <2>1, <2>6, <2>7 DEF c
<1> QED
  BY <1>3, <1>4

LEMMA AddressKept ==
    ASSUME NEW co \in BOOLEAN, NEW n, NEW bills, BillsFor(co, n, bills),
           NEW p, NEW q, Below(AddressLadder(bills), p, q)
    PROVE  Kept(AddressIssues(co, At(AddressLadder(bills), p)),
                AddressIssues(co, At(AddressLadder(bills), q)), {})
<1> DEFINE L == AddressLadder(bills)
           f == At(L, p)
           g == At(L, q)
           I == AddressIssues(co, f)
           J == AddressIssues(co, g)
           P == L.places
           Asked(x) == x.dm # "unasked" /\ commute(x.dm, x.minutes, x.judge) = "CRITICAL"
           Far(x) == gps_vs_aadhaar(TRUE, x.gps) = "CRITICAL"
<1>1. Compare(L, p, q, f, g)
  BY Compared
<1> HIDE DEF f, g
<1>2. /\ \A k \in 1..4 : ~Far(P[k])
      /\ \A k \in 5..8 : Far(P[k])
      /\ \A k \in 1..6 : ~Asked(P[k])
      /\ \A k \in 7..8 : Asked(P[k])
  BY PlaceRungs
<1>3. /\ f.pan \in BOOLEAN /\ g.pan \in BOOLEAN /\ f.parties \in BOOLEAN
      /\ g.parties \in BOOLEAN /\ (g.parties => f.parties)
      /\ f.coAddress = "different" => g.coAddress = "different"
      /\ p["bills"] \in DOMAIN bills /\ q["bills"] \in DOMAIN bills /\ p["bills"] <= q["bills"]
      /\ f.bills = bills[p["bills"]] /\ g.bills = bills[q["bills"]]
  BY <1>1, AddressRead
<1>4. /\ p["places"] \in 1..8 /\ q["places"] \in 1..8 /\ p["places"] <= q["places"]
      /\ f.places = P[p["places"]] /\ g.places = P[q["places"]]
  BY <1>1, AddressRead
<1>5. n \in Nat /\ DOMAIN bills = 1..(n + 4)
  BY DEF BillsFor
<1>6. ration_owner_rule(BillOf(co, f)) = "CRITICAL" => ration_owner_rule(BillOf(co, g)) = "CRITICAL"
  <2>1. ration_owner_rule(BillOf(co, f)) = "CRITICAL"
          <=> p["bills"] > n + 2 \/ (p["bills"] > n /\ ~f.parties)
    BY <1>3, BillJudged
  <2>2. ration_owner_rule(BillOf(co, g)) = "CRITICAL"
          <=> q["bills"] > n + 2 \/ (q["bills"] > n /\ ~g.parties)
    BY <1>3, BillJudged
  <2> QED
    BY <1>3, <1>5, <2>1, <2>2
<1> HIDE DEF P, L, Asked, Far
<1>7. Far(f.places) => Far(g.places)
  <2>1. p["places"] \in 1..4 \/ q["places"] \in 5..8
    BY <1>4
  <2> QED
    BY Zenon, <1>2, <1>4, <2>1
<1>8. Asked(f.places) => Asked(g.places)
  <2>1. p["places"] \in 1..6 \/ q["places"] \in 7..8
    BY <1>4
  <2> QED
    BY Zenon, <1>2, <1>4, <2>1
<1>9. /\ DOMAIN I = RulesOfAddress
      /\ I.coapp_address = "CRITICAL" <=> co /\ f.coAddress = "different"
      /\ I.gps_vs_aadhaar = "CRITICAL" <=> Far(f.places)
      /\ I.commute = "CRITICAL" <=> Asked(f.places)
      /\ I.bureau_bank # "CRITICAL"
      /\ I.ration_owner_rule = "CRITICAL" <=> ration_owner_rule(BillOf(co, f)) = "CRITICAL"
  BY AddressCritical DEF Far, Asked
<1>10. /\ DOMAIN J = RulesOfAddress
       /\ J.coapp_address = "CRITICAL" <=> co /\ g.coAddress = "different"
       /\ J.gps_vs_aadhaar = "CRITICAL" <=> Far(g.places)
       /\ J.commute = "CRITICAL" <=> Asked(g.places)
       /\ J.bureau_bank # "CRITICAL"
       /\ J.ration_owner_rule = "CRITICAL" <=> ration_owner_rule(BillOf(co, g)) = "CRITICAL"
  BY AddressCritical DEF Far, Asked
<1> HIDE DEF I, J
<1>11. ASSUME NEW r \in RulesOfAddress, I[r] = "CRITICAL"
       PROVE  J[r] = "CRITICAL"
  BY <1>3, <1>6, <1>7, <1>8, <1>9, <1>10, <1>11 DEF RulesOfAddress
<1>12. Kept(I, J, {})
  BY <1>9, <1>10, <1>11 DEF Kept
<1> QED
  BY <1>12 DEF I, J, f, g, L

LEMMA AddressClean ==
    ASSUME NEW co \in BOOLEAN, NEW n, NEW bills, BillsFor(co, n, bills), n > 0,
           NEW p, Topmost(AddressLadder(bills), p)
    PROVE  Quiet(AddressIssues(co, At(AddressLadder(bills), p)))
<1> DEFINE L == AddressLadder(bills)
           f == At(L, p)
           I == AddressIssues(co, f)
           P == L.places
           Asked(x) == x.dm # "unasked" /\ commute(x.dm, x.minutes, x.judge) = "CRITICAL"
           Far(x) == gps_vs_aadhaar(TRUE, x.gps) = "CRITICAL"
<1>1. /\ {"places", "coAddress", "bills", "pan", "parties"} \subseteq DOMAIN L
      /\ L.coAddress[1] = "similar" /\ L.bills = bills /\ L.pan = Known /\ L.parties = Known
  BY DEF AddressLadder
<1>2. \A x \in DOMAIN L : f[x] = L[x][1]
  BY FirstRung
<1>3. ~Far(P[1]) /\ ~Asked(P[1])
  <2>1. (\A k \in 1..4 : ~Far(P[k])) /\ (\A k \in 1..6 : ~Asked(P[k]))
    BY PlaceRungs
  <2>2. 1 \in 1..4 /\ 1 \in 1..6
    OBVIOUS
  <2> HIDE DEF P, Far, Asked
  <2> QED
    BY <2>1, <2>2
<1> HIDE DEF f
<1>4. ~Far(f.places) /\ ~Asked(f.places) /\ f.coAddress = "similar" /\ f.bills = bills[1]
  <2>1. f.places = P[1] /\ f.coAddress = "similar" /\ f.bills = bills[1]
    <3> HIDE DEF L
    <3> QED
      BY <1>1, <1>2
  <2> HIDE DEF P, L, Far, Asked
  <2> QED
    BY <1>3, <2>1
<1>5. f.pan \in BOOLEAN /\ f.parties \in BOOLEAN
  <2> HIDE DEF L
  <2>1. f["pan"] = TRUE /\ f["parties"] = TRUE
    BY <1>1, <1>2, FirstKnown
  <2> QED
    BY <2>1
<1>6. ration_owner_rule(BillOf(co, f)) # "CRITICAL"
  <2>1. n \in Nat /\ 1 \in DOMAIN bills
    BY DEF BillsFor
  <2>2. ration_owner_rule(BillOf(co, f)) = "CRITICAL" <=> 1 > n + 2 \/ (1 > n /\ ~f.parties)
    BY <1>4, <1>5, <2>1, BillJudged
  <2> QED
    BY <2>1, <2>2
<1> HIDE DEF I, P, L
<1>7. /\ DOMAIN I = RulesOfAddress
      /\ I.coapp_address # "CRITICAL" /\ I.gps_vs_aadhaar # "CRITICAL"
      /\ I.commute # "CRITICAL" /\ I.bureau_bank # "CRITICAL"
      /\ I.ration_owner_rule # "CRITICAL"
  BY <1>4, <1>6, AddressCritical DEF I
<1>8. \A r \in RulesOfAddress : I[r] # "CRITICAL"
  BY <1>7 DEF RulesOfAddress
<1> QED
  BY <1>7, <1>8 DEF Quiet, I, f, L

(***************************************************************************)
(* The rows of level 5 along their ladders.                                *)
(***************************************************************************)
\* The second row earns no more than the first, and has failed if the first has.
RowWorse(r, s) ==
    /\ r.score \in Int /\ s.score \in Int /\ s.score <= r.score
    /\ r.status = "FAIL" => s.status = "FAIL"

LEMMA TwoWorse ==
    ASSUME NEW L, NEW p, NEW q, NEW f, NEW g, Compare(L, p, q, f, g),
           NEW x \in DOMAIN L, NEW a, NEW b, L[x] = <<a, b>>
    PROVE  \/ f[x] = a /\ g[x] \in {a, b}
           \/ f[x] = b /\ g[x] = b
<1>1. /\ p[x] \in DOMAIN L[x] /\ q[x] \in DOMAIN L[x] /\ p[x] <= q[x]
      /\ f[x] = L[x][p[x]] /\ g[x] = L[x][q[x]]
  BY DEF Compare
<1> QED
  BY <1>1, TwoRungs

LEMMA ThreeWorse ==
    ASSUME NEW L, NEW p, NEW q, NEW f, NEW g, Compare(L, p, q, f, g),
           NEW x \in DOMAIN L, NEW a, NEW b, NEW e, L[x] = <<a, b, e>>
    PROVE  \/ f[x] = a /\ g[x] \in {a, b, e}
           \/ f[x] = b /\ g[x] \in {b, e}
           \/ f[x] = e /\ g[x] = e
<1>1. /\ p[x] \in DOMAIN L[x] /\ q[x] \in DOMAIN L[x] /\ p[x] <= q[x]
      /\ f[x] = L[x][p[x]] /\ g[x] = L[x][q[x]]
  BY DEF Compare
<1> QED
  BY <1>1, ThreeRungs

LEMMA FourWorse ==
    ASSUME NEW L, NEW p, NEW q, NEW f, NEW g, Compare(L, p, q, f, g),
           NEW x \in DOMAIN L, NEW a, NEW b, NEW e, NEW h, L[x] = <<a, b, e, h>>
    PROVE  \/ f[x] = a /\ g[x] \in {a, b, e, h}
           \/ f[x] = b /\ g[x] \in {b, e, h}
           \/ f[x] = e /\ g[x] \in {e, h}
           \/ f[x] = h /\ g[x] = h
<1>1. /\ p[x] \in DOMAIN L[x] /\ q[x] \in DOMAIN L[x] /\ p[x] <= q[x]
      /\ f[x] = L[x][p[x]] /\ g[x] = L[x][q[x]]
  BY DEF Compare
<1> QED
  BY <1>1, FourRungs

LEMMA CibilWorse ==
    ASSUME NEW i \in DOMAIN BureauScores, NEW j \in DOMAIN BureauScores, i <= j
    PROVE  LET a == BureauScores[i]
               b == BureauScores[j]
           IN /\ \/ a.score = 780 /\ b.score \in {780, -1, 600}
                 \/ a.score = -1 /\ b.score \in {-1, 600}
                 \/ a.score = 600 /\ b.score = 600
              /\ a.scored \in BOOLEAN /\ b.scored \in BOOLEAN
              /\ b.score # 600 => (b.scored => a.scored)
<1> DEFINE a == BureauScores[i]
           b == BureauScores[j]
           At1 == [score |-> 780, scored |-> TRUE]
           At2 == [score |-> -1, scored |-> TRUE]
           At3 == [score |-> -1, scored |-> FALSE]
           At4 == [score |-> 600, scored |-> TRUE]
           At5 == [score |-> 600, scored |-> FALSE]
<1>1. /\ At1.score = 780 /\ At1.scored = TRUE /\ At2.score = -1 /\ At2.scored = TRUE
      /\ At3.score = -1 /\ At3.scored = FALSE /\ At4.score = 600 /\ At4.scored = TRUE
      /\ At5.score = 600 /\ At5.scored = FALSE
  OBVIOUS
<1>0. /\ At1.scored \in BOOLEAN /\ At2.scored \in BOOLEAN /\ At3.scored \in BOOLEAN
      /\ At4.scored \in BOOLEAN /\ At5.scored \in BOOLEAN
  OBVIOUS
<1>2. BureauScores = <<At1, At2, At3, At4, At5>>
  BY DEF BureauScores
<1> HIDE DEF At1, At2, At3, At4, At5
<1>3. \/ a = At1 /\ b \in {At1, At2, At3, At4, At5}
      \/ a = At2 /\ b \in {At2, At3, At4, At5}
      \/ a = At3 /\ b \in {At3, At4, At5}
      \/ a = At4 /\ b \in {At4, At5}
      \/ a = At5 /\ b = At5
  BY <1>2, FiveRungs
<1> HIDE DEF a, b
<1>4. /\ \/ a.score = 780 /\ b.score \in {780, -1, 600}
         \/ a.score = -1 /\ b.score \in {-1, 600}
         \/ a.score = 600 /\ b.score = 600
      /\ a.scored \in BOOLEAN /\ b.scored \in BOOLEAN
      /\ b.score # 600 => (b.scored => a.scored)
  <2>1. /\ \/ a.score = 780 /\ b.score \in {780, -1, 600}
           \/ a.score = -1 /\ b.score \in {-1, 600}
           \/ a.score = 600 /\ b.score = 600
    BY <1>1, <1>3
  <2>2. a.scored \in BOOLEAN /\ b.scored \in BOOLEAN
    <3>1. a \in {At1, At2, At3, At4, At5} /\ b \in {At1, At2, At3, At4, At5}
      BY <1>3
    <3> QED
      BY <1>0, <3>1
  <2>3. b \in {At4, At5} => b.score = 600
    BY <1>1
  <2>4. b = At3 => b.scored = FALSE
    BY Zenon, <1>1
  <2>5. a \in {At1, At2} => a.scored = TRUE
    BY Zenon, <1>1
  <2>6. a \in {At1, At2} \/ b \in {At3, At4, At5}
    BY <1>3
  <2>7. b.score # 600 => (b.scored => a.scored)
    BY Zenon, <2>3, <2>4, <2>5, <2>6
  <2> QED
    BY <2>1, <2>2, <2>7
<1> QED
  BY <1>4 DEF a, b

ScoredFields ==
    {"income", "other", "credits", "cibil", "coCibil", "pastDue",
     "writtenOff", "enquiries", "l1", "gps", "foir", "area",
     "dscr", "deviations", "qr", "proof", "coProof", "statement",
     "lines", "coStatement", "balance", "bounces", "purpose", "endUse",
     "houseProof", "businessProof", "assets", "references", "tvr", "fraudCall"}

LEMMA ScoredRungs ==
    LET L == ScoringLadder
    IN /\ DOMAIN L = ScoredFields
       /\ L.income = <<40000, -1>> /\ L.other = <<9000, -1>> /\ L.credits = <<90000, 20000>>
       /\ L.cibil = BureauScores /\ L.coCibil = <<750, -1>> /\ L.pastDue = <<0, -1, 2>>
       /\ L.writtenOff = Against /\ L.enquiries = <<1, -1, 5>>
       /\ L.l1 = <<"approved", "clear", "not_run", "flagged">>
       /\ L.foir = <<30, 45, -1, 60>> /\ L.area = <<"clear", "no_pincode", "negative">>
       /\ L.dscr = <<130, 95, -1, 60>> /\ L.deviations = <<"none", "decided", "open">>
       /\ L.lines = <<80, 20>> /\ L.balance = <<20000, 9000, -1, 1000>>
       /\ L.bounces = <<0, -1, 2>> /\ L.assets = <<1, 0>>
       /\ \A x \in {"qr", "coProof", "statement", "coStatement", "purpose", "endUse",
                    "houseProof", "businessProof", "references", "tvr", "fraudCall"} :
             L[x] = Known
<1> DEFINE L == ScoringLadder
<1>1. /\ L.income = <<40000, -1>> /\ L.other = <<9000, -1>> /\ L.credits = <<90000, 20000>>
      /\ L.cibil = BureauScores /\ L.coCibil = <<750, -1>>
  BY DEF ScoringLadder
<1>2. /\ L.pastDue = <<0, -1, 2>> /\ L.writtenOff = Against /\ L.enquiries = <<1, -1, 5>>
      /\ L.l1 = <<"approved", "clear", "not_run", "flagged">>
      /\ L.foir = <<30, 45, -1, 60>>
  BY DEF ScoringLadder
<1>3. L.area = <<"clear", "no_pincode", "negative">>
  <2>1. /\ _resolve_negative_area(<<"town", "blocked">>, {"blocked"}) = "clear"
        /\ _resolve_negative_area(<< >>, {"blocked"}) = "no_pincode"
        /\ _resolve_negative_area(<<"blocked", "town">>, {"blocked"}) = "negative"
    BY DEF _resolve_negative_area
  <2>2. L.area = <<_resolve_negative_area(<<"town", "blocked">>, {"blocked"}),
                   _resolve_negative_area(<< >>, {"blocked"}),
                   _resolve_negative_area(<<"blocked", "town">>, {"blocked"})>>
    BY DEF ScoringLadder
  <2> HIDE DEF L
  <2> QED
    BY <2>1, <2>2
<1>4. /\ L.dscr = <<130, 95, -1, 60>> /\ L.deviations = <<"none", "decided", "open">>
      /\ L.lines = <<80, 20>> /\ L.balance = <<20000, 9000, -1, 1000>>
      /\ L.bounces = <<0, -1, 2>>
  BY DEF ScoringLadder
<1>5. L.assets = <<1, 0>> /\ L["qr"] = Known /\ L["coProof"] = Known /\ L["statement"] = Known
  BY DEF ScoringLadder
<1>6. /\ L["coStatement"] = Known /\ L["purpose"] = Known /\ L["endUse"] = Known
      /\ L["houseProof"] = Known
  BY DEF ScoringLadder
<1>7. /\ L["businessProof"] = Known /\ L["references"] = Known /\ L["tvr"] = Known
      /\ L["fraudCall"] = Known
  BY DEF ScoringLadder
<1>8. DOMAIN L = ScoredFields
  BY DEF ScoringLadder, ScoredFields
<1> HIDE DEF L
<1>9. \A x \in {"qr", "coProof", "statement", "coStatement", "purpose", "endUse",
                "houseProof", "businessProof", "references", "tvr", "fraudCall"} :
         L[x] = Known
  BY <1>5, <1>6, <1>7
<1> QED
  BY <1>1, <1>2, <1>3, <1>4, <1>5, <1>8, <1>9 DEF L

\* The income proof: read as clean, on file but not fetched, not on file, read as doubtful.
ProofIs(k, onFile, verdictOfProof, sources) ==
    /\ k = 1 => onFile = TRUE /\ verdictOfProof = "clean" /\ sources = 2
    /\ k = 2 => onFile = TRUE /\ verdictOfProof = "none" /\ sources = -1
    /\ k = 3 => onFile = FALSE /\ verdictOfProof = "none" /\ sources = -1
    /\ k = 4 => onFile = TRUE /\ verdictOfProof = "caution" /\ sources = 1
    /\ k = 5 => onFile = TRUE /\ verdictOfProof = "adverse" /\ sources = 0

LEMMA ProofRungs ==
    ASSUME NEW k \in DOMAIN ScoringLadder.proof
    PROVE  k \in 1..5 /\ ProofIs(k, ScoringLadder.proof[k].onFile,
                                 ScoringLadder.proof[k].verdict, ScoringLadder.proof[k].sources)
<1> DEFINE A(proofs, fetched, says, sources) ==
              _run_income_proof_analyser(proofs, fetched, says, sources)
           R(proofs, found, sources) ==
              [onFile |-> proofs, verdict |-> found, sources |-> sources]
<1>1. /\ A(1, 1, "clean", 2) = R(TRUE, "clean", 2)
      /\ A(1, 0, "adverse", 0) = R(TRUE, "none", -1)
      /\ A(0, 0, "clean", 2) = R(FALSE, "none", -1)
      /\ A(1, 1, "caution", 1) = R(TRUE, "caution", 1)
      /\ A(1, 1, "adverse", 0) = R(TRUE, "adverse", 0)
  <2>1. (1 > 0) = TRUE /\ (0 > 0) = FALSE
    OBVIOUS
  <2> QED
    BY <2>1 DEF _run_income_proof_analyser
<1>2. ScoringLadder.proof =
         <<A(1, 1, "clean", 2), A(1, 0, "adverse", 0), A(0, 0, "clean", 2),
           A(1, 1, "caution", 1), A(1, 1, "adverse", 0)>>
  BY DEF ScoringLadder
<1> DEFINE P == ScoringLadder.proof
<1> HIDE DEF A
<1>3. P = <<R(TRUE, "clean", 2), R(TRUE, "none", -1), R(FALSE, "none", -1),
            R(TRUE, "caution", 1), R(TRUE, "adverse", 0)>>
  BY <1>1, <1>2
<1> HIDE DEF P
<1>4. DOMAIN P = 1..5 /\ P[1] = R(TRUE, "clean", 2) /\ P[2] = R(TRUE, "none", -1)
      /\ P[3] = R(FALSE, "none", -1) /\ P[4] = R(TRUE, "caution", 1)
      /\ P[5] = R(TRUE, "adverse", 0)
  <2> HIDE DEF R
  <2> QED
    BY <1>3
<1>5. k \in 1..5
  BY <1>4 DEF P
<1>6. /\ P[1].onFile = TRUE /\ P[1].verdict = "clean" /\ P[1].sources = 2
      /\ P[2].onFile = TRUE /\ P[2].verdict = "none" /\ P[2].sources = -1
      /\ P[3].onFile = FALSE /\ P[3].verdict = "none" /\ P[3].sources = -1
      /\ P[4].onFile = TRUE /\ P[4].verdict = "caution" /\ P[4].sources = 1
      /\ P[5].onFile = TRUE /\ P[5].verdict = "adverse" /\ P[5].sources = 0
  BY <1>4
<1> QED
  BY Zenon, <1>5, <1>6 DEF P, ProofIs

\* The context holds of the file what its ladders say, and that a report is on file.
ContextOf(c, co, f) ==
    /\ c.coapp = co /\ c.report = TRUE /\ c.emi = 8000
    /\ c.sources = f.proof.sources /\ c.proofVerdict = f.proof.verdict
    /\ c.proof = f.proof.onFile /\ c.cibil = f.cibil.score /\ c.scored = f.cibil.scored
    /\ \A x \in ScoredFields \ {"proof", "cibil"} : c[x] = f[x]

LEMMA ScoredAs ==
    ASSUME NEW co, NEW f
    PROVE  ContextOf(ScoringFile(co, f), co, f)
<1> DEFINE c == ScoringFile(co, f)
<1>1. c.coapp = co /\ c.report = TRUE /\ c.emi = 8000
  BY DEF ScoringFile
<1>2. /\ c.sources = f.proof.sources /\ c.proofVerdict = f.proof.verdict
      /\ c.proof = f.proof.onFile
  BY DEF ScoringFile
<1>3. /\ c.income = f.income /\ c.other = f.other /\ c.credits = f.credits
      /\ c.cibil = f.cibil.score /\ c.scored = f.cibil.scored /\ c.coCibil = f.coCibil
  BY DEF ScoringFile
<1>4. /\ c.pastDue = f.pastDue /\ c.writtenOff = f.writtenOff /\ c.enquiries = f.enquiries
      /\ c.l1 = f.l1 /\ c.gps = f.gps
  BY DEF ScoringFile
<1>5. /\ c.foir = f.foir /\ c.area = f.area /\ c.dscr = f.dscr
      /\ c.deviations = f.deviations /\ c.qr = f.qr
  BY DEF ScoringFile
<1>6. /\ c.coProof = f.coProof /\ c.statement = f.statement /\ c.lines = f.lines
      /\ c.coStatement = f.coStatement /\ c.balance = f.balance
  BY DEF ScoringFile
<1>7. /\ c.bounces = f.bounces /\ c.purpose = f.purpose /\ c.endUse = f.endUse
      /\ c.houseProof = f.houseProof /\ c.businessProof = f.businessProof
  BY DEF ScoringFile
<1>8. /\ c.assets = f.assets /\ c.references = f.references /\ c.tvr = f.tvr
      /\ c.fraudCall = f.fraudCall
  BY DEF ScoringFile
<1> HIDE DEF c
<1>9. \A x \in ScoredFields \ {"proof", "cibil"} : c[x] = f[x]
  BY <1>3, <1>4, <1>5, <1>6, <1>7, <1>8 DEF ScoredFields
<1> QED
  BY <1>1, <1>2, <1>3, <1>9 DEF c, ContextOf

LEMMA Row24 ==
    /\ _pass(24).score = 2 /\ _pass(24).status = "PASS"
    /\ _pending.score = 0 /\ _pending.status = "PENDING"
    /\ _fail.score = 0 /\ _fail.status = "FAIL"
<1>1. CATALOG[24] = 2
  BY DEF CATALOG
<1> QED
  BY <1>1 DEF _pass, _pending, _fail

LEMMA FoirRungs ==
    /\ _pass(10).score = 4 /\ _pass(10).status = "PASS" /\ _graded(3).score = 3
    /\ _graded(3).status = "PASS" /\ _pending.score = 0 /\ _pending.status = "PENDING"
    /\ _fail.score = 0 /\ _fail.status = "FAIL"
<1>1. CATALOG[10] = 4
  BY DEF CATALOG
<1> QED
  BY <1>1 DEF _pass, _graded, _pending, _fail

LEMMA GradeAt ==
    /\ Grade(130, {75, 90, 100, 120}) = _graded(4) /\ Grade(95, {75, 90, 100, 120}) = _graded(2)
    /\ Grade(60, {75, 90, 100, 120}) = _graded(0)
    /\ _graded(4).score = 4 /\ _graded(2).score = 2 /\ _graded(0) = _fail
    /\ _graded(4).status = "PASS" /\ _graded(2).status = "PASS"
<1>1. /\ {m \in {75, 90, 100, 120} : 130 >= m} = {75, 90, 100, 120}
      /\ {m \in {75, 90, 100, 120} : 95 >= m} = {75, 90}
      /\ {m \in {75, 90, 100, 120} : 60 >= m} = {}
  OBVIOUS
<1>2. Cardinality({75, 90}) = 2 /\ Cardinality({75, 90, 100, 120}) = 4 /\ Cardinality({}) = 0
  <2>1. Cardinality({75}) = 1 /\ IsFiniteSet({75})
    BY FS_Singleton
  <2>2. Cardinality({75} \cup {90}) = 2 /\ IsFiniteSet({75} \cup {90})
    BY <2>1, FS_AddElement
  <2>3. Cardinality(({75} \cup {90}) \cup {100}) = 3 /\ IsFiniteSet(({75} \cup {90}) \cup {100})
    BY <2>2, FS_AddElement
  <2>4. Cardinality((({75} \cup {90}) \cup {100}) \cup {120}) = 4
    BY <2>3, FS_AddElement
  <2>5. {75} \cup {90} = {75, 90} /\ (({75} \cup {90}) \cup {100}) \cup {120} = {75, 90, 100, 120}
    OBVIOUS
  <2> QED
    BY <2>2, <2>4, <2>5, FS_EmptySet
<1>3. /\ Grade(130, {75, 90, 100, 120}) = _graded(4) /\ Grade(95, {75, 90, 100, 120}) = _graded(2)
      /\ Grade(60, {75, 90, 100, 120}) = _graded(0)
  BY <1>1, <1>2 DEF Grade
<1>4. /\ _graded(4).score = 4 /\ _graded(2).score = 2 /\ _graded(0) = _fail
      /\ _graded(4).status = "PASS" /\ _graded(2).status = "PASS"
  BY DEF _graded
<1> QED
  BY <1>3, <1>4

\* Section A, but for row 8: when the bureau score turns known and bad, row 3 fails instead.
LEMMA SectionAWorse ==
    ASSUME NEW co \in BOOLEAN, NEW p, NEW q, Below(ScoringLadder, p, q)
    PROVE  LET c == ScoringFile(co, At(ScoringLadder, p))
               d == ScoringFile(co, At(ScoringLadder, q))
           IN /\ RowWorse(r_a01_household_income(c), r_a01_household_income(d))
              /\ RowWorse(r_a03_applicant_cibil(c), r_a03_applicant_cibil(d))
              /\ RowWorse(r_a04_coapp_cibil(c), r_a04_coapp_cibil(d))
              /\ RowWorse(r_a05_unsecured_outstanding(c), r_a05_unsecured_outstanding(d))
              /\ RowWorse(r_a06_dpd_12m(c), r_a06_dpd_12m(d))
              /\ RowWorse(r_a07_writeoff_settled_3y(c), r_a07_writeoff_settled_3y(d))
              /\ RowWorse(r_a09_cibil_address_match(c), r_a09_cibil_address_match(d))
              /\ RowWorse(r_a10_foir(c), r_a10_foir(d))
              /\ RowWorse(r_a11_negative_area(c), r_a11_negative_area(d))
              /\ RowWorse(r_a12_dscr(c), r_a12_dscr(d))
              /\ RowWorse(r_a13_deviation_approved(c), r_a13_deviation_approved(d))
              /\ d.cibil # 600 => RowWorse(r_a08_enquiries_3m(c), r_a08_enquiries_3m(d))
              /\ d.cibil = 600 => r_a03_applicant_cibil(d).status = "FAIL"
<1> DEFINE L == ScoringLadder
           f == At(L, p)
           g == At(L, q)
           c == ScoringFile(co, f)
           d == ScoringFile(co, g)
<1>1. Compare(L, p, q, f, g)
  BY Compared
<1> HIDE DEF f, g
<1>0. ContextOf(c, co, f) /\ ContextOf(d, co, g)
  BY ScoredAs
<1> HIDE DEF c, d
<1>2. /\ c.coapp = co /\ c.report = TRUE /\ c.emi = 8000
      /\ d.coapp = co /\ d.report = TRUE /\ d.emi = 8000
      /\ \A x \in ScoredFields \ {"proof", "cibil"} : c[x] = f[x] /\ d[x] = g[x]
  BY <1>0 DEF ContextOf
<1>3. \A n \in 1..32 : CATALOG[n] \in Nat
  BY PointsAdd
<1>4. \/ c.income = 40000 /\ d.income \in {40000, -1}
      \/ c.income = -1 /\ d.income = -1
  <2>1. L.income = <<40000, -1>> /\ "income" \in DOMAIN L /\ c.income = f.income
        /\ d.income = g.income
    BY <1>2, ScoredRungs DEF ScoredFields
  <2> HIDE DEF L
  <2> QED
    BY <1>1, <2>1, TwoWorse
<1>5. \/ c.credits = 90000 /\ d.credits \in {90000, 20000}
      \/ c.credits = 20000 /\ d.credits = 20000
  <2>1. L.credits = <<90000, 20000>> /\ "credits" \in DOMAIN L /\ c.credits = f.credits
        /\ d.credits = g.credits
    BY <1>2, ScoredRungs DEF ScoredFields
  <2> HIDE DEF L
  <2> QED
    BY <1>1, <2>1, TwoWorse
<1>6. /\ \/ c.cibil = 780 /\ d.cibil \in {780, -1, 600}
         \/ c.cibil = -1 /\ d.cibil \in {-1, 600}
         \/ c.cibil = 600 /\ d.cibil = 600
      /\ c.scored \in BOOLEAN /\ d.scored \in BOOLEAN
      /\ d.cibil # 600 => (d.scored => c.scored)
  <2>1. /\ L.cibil = BureauScores /\ "cibil" \in DOMAIN L
        /\ c.cibil = f.cibil.score /\ d.cibil = g.cibil.score
        /\ c.scored = f.cibil.scored /\ d.scored = g.cibil.scored
    BY <1>0, ScoredRungs DEF ScoredFields, ContextOf
  <2> HIDE DEF L
  <2> DEFINE i == p["cibil"]
             j == q["cibil"]
  <2>2. /\ i \in DOMAIN BureauScores /\ j \in DOMAIN BureauScores /\ i <= j
        /\ f.cibil = BureauScores[i] /\ g.cibil = BureauScores[j]
    BY <1>1, <2>1 DEF Compare
  <2> HIDE DEF i, j
  <2> QED
    BY <2>1, <2>2, CibilWorse
<1>7. \/ c.coCibil = 750 /\ d.coCibil \in {750, -1}
      \/ c.coCibil = -1 /\ d.coCibil = -1
  <2>1. L.coCibil = <<750, -1>> /\ "coCibil" \in DOMAIN L /\ c.coCibil = f.coCibil
        /\ d.coCibil = g.coCibil
    BY <1>2, ScoredRungs DEF ScoredFields
  <2> HIDE DEF L
  <2> QED
    BY <1>1, <2>1, TwoWorse
<1>8. \/ c.pastDue = 0 /\ d.pastDue \in {0, -1, 2}
      \/ c.pastDue = -1 /\ d.pastDue \in {-1, 2}
      \/ c.pastDue = 2 /\ d.pastDue = 2
  <2>1. L.pastDue = <<0, -1, 2>> /\ "pastDue" \in DOMAIN L /\ c.pastDue = f.pastDue
        /\ d.pastDue = g.pastDue
    BY <1>2, ScoredRungs DEF ScoredFields
  <2> HIDE DEF L
  <2> QED
    BY <1>1, <2>1, ThreeWorse
<1>9. c.writtenOff \in BOOLEAN /\ d.writtenOff \in BOOLEAN /\ (c.writtenOff => d.writtenOff)
  <2>1. L.writtenOff = Against /\ "writtenOff" \in DOMAIN L /\ c.writtenOff = f["writtenOff"]
        /\ d.writtenOff = g["writtenOff"]
    BY <1>2, ScoredRungs DEF ScoredFields
  <2> HIDE DEF L
  <2>2. f["writtenOff"] \in BOOLEAN /\ g["writtenOff"] \in BOOLEAN
        /\ (f["writtenOff"] => g["writtenOff"])
    BY Zenon, <1>1, <2>1, AgainstWorse
  <2> QED
    BY Zenon, <2>1, <2>2
<1>10. \/ c.enquiries = 1 /\ d.enquiries \in {1, -1, 5}
       \/ c.enquiries = -1 /\ d.enquiries \in {-1, 5}
       \/ c.enquiries = 5 /\ d.enquiries = 5
  <2>1. L.enquiries = <<1, -1, 5>> /\ "enquiries" \in DOMAIN L /\ c.enquiries = f.enquiries
        /\ d.enquiries = g.enquiries
    BY <1>2, ScoredRungs DEF ScoredFields
  <2> HIDE DEF L
  <2> QED
    BY <1>1, <2>1, ThreeWorse
<1>11. \/ c.l1 = "approved" /\ d.l1 \in {"approved", "clear", "not_run", "flagged"}
       \/ c.l1 = "clear" /\ d.l1 \in {"clear", "not_run", "flagged"}
       \/ c.l1 = "not_run" /\ d.l1 \in {"not_run", "flagged"}
       \/ c.l1 = "flagged" /\ d.l1 = "flagged"
  <2>1. L.l1 = <<"approved", "clear", "not_run", "flagged">> /\ "l1" \in DOMAIN L
        /\ c.l1 = f.l1 /\ d.l1 = g.l1
    BY <1>2, ScoredRungs DEF ScoredFields
  <2> HIDE DEF L
  <2> QED
    BY <1>1, <2>1, FourWorse
<1>12. \/ c.foir = 30 /\ d.foir \in {30, 45, -1, 60}
       \/ c.foir = 45 /\ d.foir \in {45, -1, 60}
       \/ c.foir = -1 /\ d.foir \in {-1, 60}
       \/ c.foir = 60 /\ d.foir = 60
  <2>1. L.foir = <<30, 45, -1, 60>> /\ "foir" \in DOMAIN L /\ c.foir = f.foir /\ d.foir = g.foir
    BY <1>2, ScoredRungs DEF ScoredFields
  <2> HIDE DEF L
  <2> QED
    BY <1>1, <2>1, FourWorse
<1>13. \/ c.area = "clear" /\ d.area \in {"clear", "no_pincode", "negative"}
       \/ c.area = "no_pincode" /\ d.area \in {"no_pincode", "negative"}
       \/ c.area = "negative" /\ d.area = "negative"
  <2>1. L.area = <<"clear", "no_pincode", "negative">> /\ "area" \in DOMAIN L
        /\ c.area = f.area /\ d.area = g.area
    BY <1>2, ScoredRungs DEF ScoredFields
  <2> HIDE DEF L
  <2> QED
    BY <1>1, <2>1, ThreeWorse
<1>14. \/ c.dscr = 130 /\ d.dscr \in {130, 95, -1, 60}
       \/ c.dscr = 95 /\ d.dscr \in {95, -1, 60}
       \/ c.dscr = -1 /\ d.dscr \in {-1, 60}
       \/ c.dscr = 60 /\ d.dscr = 60
  <2>1. L.dscr = <<130, 95, -1, 60>> /\ "dscr" \in DOMAIN L /\ c.dscr = f.dscr /\ d.dscr = g.dscr
    BY <1>2, ScoredRungs DEF ScoredFields
  <2> HIDE DEF L
  <2> QED
    BY <1>1, <2>1, FourWorse
<1>15. \/ c.deviations = "none" /\ d.deviations \in {"none", "decided", "open"}
       \/ c.deviations = "decided" /\ d.deviations \in {"decided", "open"}
       \/ c.deviations = "open" /\ d.deviations = "open"
  <2>1. L.deviations = <<"none", "decided", "open">> /\ "deviations" \in DOMAIN L
        /\ c.deviations = f.deviations /\ d.deviations = g.deviations
    BY <1>2, ScoredRungs DEF ScoredFields
  <2> HIDE DEF L
  <2> QED
    BY <1>1, <2>1, ThreeWorse
<1>16. RowWorse(r_a01_household_income(c), r_a01_household_income(d))
  BY <1>2, <1>3, <1>4, <1>5 DEF r_a01_household_income, RowWorse, _pass, _fail, _pending,
      Corroborated
<1>17. RowWorse(r_a03_applicant_cibil(c), r_a03_applicant_cibil(d))
  BY <1>2, <1>3, <1>6 DEF r_a03_applicant_cibil, RowWorse, _pass, _fail, _pending, IfKnown, Judge
<1>18. RowWorse(r_a04_coapp_cibil(c), r_a04_coapp_cibil(d))
  BY <1>2, <1>3, <1>7 DEF r_a04_coapp_cibil, RowWorse, _pass, _fail, _pending, NA
<1>19. RowWorse(r_a05_unsecured_outstanding(c), r_a05_unsecured_outstanding(d))
  BY <1>2, <1>3 DEF r_a05_unsecured_outstanding, RowWorse, _pass, _fail, _pending, OnFile
<1>20. RowWorse(r_a06_dpd_12m(c), r_a06_dpd_12m(d))
  BY <1>2, <1>3, <1>8 DEF r_a06_dpd_12m, RowWorse, _pass, _fail, _pending, IfKnown, Judge
<1>21. RowWorse(r_a07_writeoff_settled_3y(c), r_a07_writeoff_settled_3y(d))
  BY <1>2, <1>3, <1>9 DEF r_a07_writeoff_settled_3y, RowWorse, _pass, _fail, _pending, Judge
<1>22. RowWorse(r_a09_cibil_address_match(c), r_a09_cibil_address_match(d))
  BY <1>2, <1>3, <1>11 DEF r_a09_cibil_address_match, RowWorse, _pass, _fail, _pending
<1>23. /\ r_a10_foir(c) = (IF c.foir = 30 THEN _pass(10) ELSE IF c.foir = 45 THEN _graded(3)
                               ELSE IF c.foir = -1 THEN _pending ELSE _fail)
       /\ r_a10_foir(d) = (IF d.foir = 30 THEN _pass(10) ELSE IF d.foir = 45 THEN _graded(3)
                               ELSE IF d.foir = -1 THEN _pending ELSE _fail)
  BY <1>12 DEF r_a10_foir
<1>24. RowWorse(r_a10_foir(c), r_a10_foir(d))
  BY <1>12, <1>23, FoirRungs DEF RowWorse
<1>25. RowWorse(r_a11_negative_area(c), r_a11_negative_area(d))
  BY <1>2, <1>3, <1>13 DEF r_a11_negative_area, RowWorse, _pass, _fail, _pending, Judge
<1>26. RowWorse(r_a12_dscr(c), r_a12_dscr(d))
  BY <1>2, <1>3, <1>14, GradeAt DEF r_a12_dscr, RowWorse, _pass, _fail, _pending, IfKnown
<1>27. RowWorse(r_a13_deviation_approved(c), r_a13_deviation_approved(d))
  BY <1>2, <1>3, <1>15 DEF r_a13_deviation_approved, RowWorse, _pass, _fail, _pending, OnFile
<1>28. d.cibil # 600 => RowWorse(r_a08_enquiries_3m(c), r_a08_enquiries_3m(d))
  BY <1>2, <1>3, <1>6, <1>10 DEF r_a08_enquiries_3m, RowWorse, _pass, _fail, _pending, Judge, OnFile
<1>29. d.cibil = 600 => r_a03_applicant_cibil(d).status = "FAIL"
  BY <1>3 DEF r_a03_applicant_cibil, IfKnown, Judge, _fail
<1> QED
  BY <1>16, <1>17, <1>18, <1>19, <1>20, <1>21, <1>22, <1>23, <1>24, <1>25, <1>26, <1>27, <1>28,
      <1>29 DEF c, d, f, g, L

\* Section B, without the rows that read the applicant's income proof.
LEMMA SectionBWorse ==
    ASSUME NEW co \in BOOLEAN, NEW p, NEW q, Below(ScoringLadder, p, q)
    PROVE  LET c == ScoringFile(co, At(ScoringLadder, p))
               d == ScoringFile(co, At(ScoringLadder, q))
           IN /\ RowWorse(r_b14_shop_qr(c), r_b14_shop_qr(d))
              /\ RowWorse(r_b15_qr_owner_match(c), r_b15_qr_owner_match(d))
              /\ RowWorse(r_b17_income_proof_coapp(c), r_b17_income_proof_coapp(d))
              /\ RowWorse(r_b19_banking_6_12m(c), r_b19_banking_6_12m(d))
              /\ RowWorse(r_b20_total_credit(c), r_b20_total_credit(d))
              /\ RowWorse(r_b21_coapp_banking(c), r_b21_coapp_banking(d))
              /\ RowWorse(r_b22_abb_ratio(c), r_b22_abb_ratio(d))
              /\ RowWorse(r_b23_no_bouncing(c), r_b23_no_bouncing(d))
              /\ /\ r_b24_banking_matches_income(c).score \in Int
                 /\ r_b24_banking_matches_income(d).score \in Int
                 /\ r_b24_banking_matches_income(d).score <= r_b24_banking_matches_income(c).score
<1> DEFINE L == ScoringLadder
           f == At(L, p)
           g == At(L, q)
           c == ScoringFile(co, f)
           d == ScoringFile(co, g)
<1>1. Compare(L, p, q, f, g)
  BY Compared
<1> HIDE DEF f, g
<1>0. ContextOf(c, co, f) /\ ContextOf(d, co, g)
  BY ScoredAs
<1> HIDE DEF c, d
<1>2. /\ c.coapp = co /\ c.report = TRUE /\ c.emi = 8000
      /\ d.coapp = co /\ d.report = TRUE /\ d.emi = 8000
      /\ \A x \in ScoredFields \ {"proof", "cibil"} : c[x] = f[x] /\ d[x] = g[x]
  BY <1>0 DEF ContextOf
<1>3. \A n \in 1..32 : CATALOG[n] \in Nat
  BY PointsAdd
<1>4. \/ c.income = 40000 /\ d.income \in {40000, -1}
      \/ c.income = -1 /\ d.income = -1
  <2>1. L.income = <<40000, -1>> /\ "income" \in DOMAIN L /\ c.income = f.income
        /\ d.income = g.income
    BY <1>2, ScoredRungs DEF ScoredFields
  <2> HIDE DEF L
  <2> QED
    BY <1>1, <2>1, TwoWorse
<1>5. \/ c.credits = 90000 /\ d.credits \in {90000, 20000}
      \/ c.credits = 20000 /\ d.credits = 20000
  <2>1. L.credits = <<90000, 20000>> /\ "credits" \in DOMAIN L /\ c.credits = f.credits
        /\ d.credits = g.credits
    BY <1>2, ScoredRungs DEF ScoredFields
  <2> HIDE DEF L
  <2> QED
    BY <1>1, <2>1, TwoWorse
<1>6. \/ c.coCibil = 750 /\ d.coCibil \in {750, -1}
      \/ c.coCibil = -1 /\ d.coCibil = -1
  <2>1. L.coCibil = <<750, -1>> /\ "coCibil" \in DOMAIN L /\ c.coCibil = f.coCibil
        /\ d.coCibil = g.coCibil
    BY <1>2, ScoredRungs DEF ScoredFields
  <2> HIDE DEF L
  <2> QED
    BY <1>1, <2>1, TwoWorse
<1>7. c.qr \in BOOLEAN /\ d.qr \in BOOLEAN /\ (d.qr => c.qr)
  <2>1. L["qr"] = Known /\ "qr" \in DOMAIN L /\ c.qr = f["qr"] /\ d.qr = g["qr"]
    BY <1>2, ScoredRungs DEF ScoredFields
  <2> HIDE DEF L
  <2>2. f["qr"] \in BOOLEAN /\ g["qr"] \in BOOLEAN /\ (g["qr"] => f["qr"])
    BY Zenon, <1>1, <2>1, KnownWorse
  <2> QED
    BY Zenon, <2>1, <2>2
<1>8. c.coProof \in BOOLEAN /\ d.coProof \in BOOLEAN /\ (d.coProof => c.coProof)
  <2>1. L["coProof"] = Known /\ "coProof" \in DOMAIN L /\ c.coProof = f["coProof"]
        /\ d.coProof = g["coProof"]
    BY <1>2, ScoredRungs DEF ScoredFields
  <2> HIDE DEF L
  <2>2. f["coProof"] \in BOOLEAN /\ g["coProof"] \in BOOLEAN /\ (g["coProof"] => f["coProof"])
    BY Zenon, <1>1, <2>1, KnownWorse
  <2> QED
    BY Zenon, <2>1, <2>2
<1>9. \/ c.lines = 80 /\ d.lines \in {80, 20}
      \/ c.lines = 20 /\ d.lines = 20
  <2>1. L.lines = <<80, 20>> /\ "lines" \in DOMAIN L /\ c.lines = f.lines /\ d.lines = g.lines
    BY <1>2, ScoredRungs DEF ScoredFields
  <2> HIDE DEF L
  <2> QED
    BY <1>1, <2>1, TwoWorse
<1>10. c.coStatement \in BOOLEAN /\ d.coStatement \in BOOLEAN /\ (d.coStatement => c.coStatement)
  <2>1. L["coStatement"] = Known /\ "coStatement" \in DOMAIN L
        /\ c.coStatement = f["coStatement"] /\ d.coStatement = g["coStatement"]
    BY <1>2, ScoredRungs DEF ScoredFields
  <2> HIDE DEF L
  <2>2. f["coStatement"] \in BOOLEAN /\ g["coStatement"] \in BOOLEAN
        /\ (g["coStatement"] => f["coStatement"])
    BY Zenon, <1>1, <2>1, KnownWorse
  <2> QED
    BY Zenon, <2>1, <2>2
<1>11. \/ c.balance = 20000 /\ d.balance \in {20000, 9000, -1, 1000}
       \/ c.balance = 9000 /\ d.balance \in {9000, -1, 1000}
       \/ c.balance = -1 /\ d.balance \in {-1, 1000}
       \/ c.balance = 1000 /\ d.balance = 1000
  <2>1. L.balance = <<20000, 9000, -1, 1000>> /\ "balance" \in DOMAIN L
        /\ c.balance = f.balance /\ d.balance = g.balance
    BY <1>2, ScoredRungs DEF ScoredFields
  <2> HIDE DEF L
  <2> QED
    BY <1>1, <2>1, FourWorse
<1>12. \/ c.bounces = 0 /\ d.bounces \in {0, -1, 2}
       \/ c.bounces = -1 /\ d.bounces \in {-1, 2}
       \/ c.bounces = 2 /\ d.bounces = 2
  <2>1. L.bounces = <<0, -1, 2>> /\ "bounces" \in DOMAIN L /\ c.bounces = f.bounces
        /\ d.bounces = g.bounces
    BY <1>2, ScoredRungs DEF ScoredFields
  <2> HIDE DEF L
  <2> QED
    BY <1>1, <2>1, ThreeWorse
<1>13. RowWorse(r_b14_shop_qr(c), r_b14_shop_qr(d))
  BY <1>2, <1>3, <1>7 DEF r_b14_shop_qr, RowWorse, _pass, _fail, _pending, Judge
<1>14. RowWorse(r_b15_qr_owner_match(c), r_b15_qr_owner_match(d))
  BY <1>2, <1>3, <1>7 DEF r_b15_qr_owner_match, RowWorse, _pass, _fail, _pending
<1>15. RowWorse(r_b17_income_proof_coapp(c), r_b17_income_proof_coapp(d))
  BY <1>2, <1>3, <1>8 DEF r_b17_income_proof_coapp, RowWorse, _pass, _fail, _pending, Judge, NA
<1>16. RowWorse(r_b19_banking_6_12m(c), r_b19_banking_6_12m(d))
  BY <1>2, <1>3, <1>9 DEF r_b19_banking_6_12m, RowWorse, _pass, _fail, _pending, Judge
<1>17. RowWorse(r_b20_total_credit(c), r_b20_total_credit(d))
  BY <1>2, <1>3, <1>5 DEF r_b20_total_credit, RowWorse, _pass, _fail, _pending, OnFile
<1>18. RowWorse(r_b21_coapp_banking(c), r_b21_coapp_banking(d))
  BY <1>2, <1>3, <1>10, <1>6 DEF r_b21_coapp_banking, RowWorse, _pass, _fail, _pending, NA
<1>19. RowWorse(r_b22_abb_ratio(c), r_b22_abb_ratio(d))
  BY <1>2, <1>3, <1>11 DEF r_b22_abb_ratio, RowWorse, _pass, _fail, _pending, _graded
<1>20. RowWorse(r_b23_no_bouncing(c), r_b23_no_bouncing(d))
  BY <1>2, <1>3, <1>12 DEF r_b23_no_bouncing, RowWorse, _pass, _fail, _pending, IfKnown, Judge
<1>21. /\ c.income = 40000 => (Corroborated(c) <=> c.credits = 90000)
       /\ d.income = 40000 => (Corroborated(d) <=> d.credits = 90000)
  BY <1>5 DEF Corroborated
<1>22. /\ r_b24_banking_matches_income(c) = (IF c.income = -1 THEN _pending
                               ELSE IF c.credits = 90000 THEN _pass(24) ELSE _fail)
       /\ r_b24_banking_matches_income(d) = (IF d.income = -1 THEN _pending
                               ELSE IF d.credits = 90000 THEN _pass(24) ELSE _fail)
  BY <1>4, <1>5, <1>21 DEF r_b24_banking_matches_income, Judge
<1>23. /\ r_b24_banking_matches_income(c).score \in Int
       /\ r_b24_banking_matches_income(d).score \in Int
                 /\ r_b24_banking_matches_income(d).score <= r_b24_banking_matches_income(c).score
  BY <1>4, <1>5, <1>22, Row24
<1> QED
  BY <1>13, <1>14, <1>15, <1>16, <1>17, <1>18, <1>19, <1>20, <1>21, <1>22, <1>23 DEF c, d, f, g, L

\* Sections C and D.
LEMMA SectionCDWorse ==
    ASSUME NEW co \in BOOLEAN, NEW p, NEW q, Below(ScoringLadder, p, q)
    PROVE  LET c == ScoringFile(co, At(ScoringLadder, p))
               d == ScoringFile(co, At(ScoringLadder, q))
           IN /\ RowWorse(r_c25_loan_purpose(c), r_c25_loan_purpose(d))
              /\ RowWorse(r_c26_end_use(c), r_c26_end_use(d))
              /\ RowWorse(r_c27_house_ownership(c), r_c27_house_ownership(d))
              /\ RowWorse(r_c28_business_ownership(c), r_c28_business_ownership(d))
              /\ RowWorse(r_c29_additional_assets(c), r_c29_additional_assets(d))
              /\ RowWorse(r_d30_bcm_cross_verification(c), r_d30_bcm_cross_verification(d))
              /\ RowWorse(r_d31_tvr(c), r_d31_tvr(d))
              /\ RowWorse(r_d32_fraud_call(c), r_d32_fraud_call(d))
              /\ r_c25_loan_purpose(c).status # "PENDING" /\ r_c26_end_use(c).status # "PENDING"
<1> DEFINE L == ScoringLadder
           f == At(L, p)
           g == At(L, q)
           c == ScoringFile(co, f)
           d == ScoringFile(co, g)
<1>1. Compare(L, p, q, f, g)
  BY Compared
<1> HIDE DEF f, g
<1>0. ContextOf(c, co, f) /\ ContextOf(d, co, g)
  BY ScoredAs
<1> HIDE DEF c, d
<1>2. /\ c.coapp = co /\ c.report = TRUE /\ c.emi = 8000
      /\ d.coapp = co /\ d.report = TRUE /\ d.emi = 8000
      /\ \A x \in ScoredFields \ {"proof", "cibil"} : c[x] = f[x] /\ d[x] = g[x]
  BY <1>0 DEF ContextOf
<1>3. \A n \in 1..32 : CATALOG[n] \in Nat
  BY PointsAdd
<1>4. c.purpose \in BOOLEAN /\ d.purpose \in BOOLEAN /\ (d.purpose => c.purpose)
  <2>1. L["purpose"] = Known /\ "purpose" \in DOMAIN L /\ c.purpose = f["purpose"]
        /\ d.purpose = g["purpose"]
    BY <1>2, ScoredRungs DEF ScoredFields
  <2> HIDE DEF L
  <2>2. f["purpose"] \in BOOLEAN /\ g["purpose"] \in BOOLEAN /\ (g["purpose"] => f["purpose"])
    BY Zenon, <1>1, <2>1, KnownWorse
  <2> QED
    BY Zenon, <2>1, <2>2
<1>5. c.endUse \in BOOLEAN /\ d.endUse \in BOOLEAN /\ (d.endUse => c.endUse)
  <2>1. L["endUse"] = Known /\ "endUse" \in DOMAIN L /\ c.endUse = f["endUse"]
        /\ d.endUse = g["endUse"]
    BY <1>2, ScoredRungs DEF ScoredFields
  <2> HIDE DEF L
  <2>2. f["endUse"] \in BOOLEAN /\ g["endUse"] \in BOOLEAN /\ (g["endUse"] => f["endUse"])
    BY Zenon, <1>1, <2>1, KnownWorse
  <2> QED
    BY Zenon, <2>1, <2>2
<1>6. c.houseProof \in BOOLEAN /\ d.houseProof \in BOOLEAN /\ (d.houseProof => c.houseProof)
  <2>1. L["houseProof"] = Known /\ "houseProof" \in DOMAIN L /\ c.houseProof = f["houseProof"]
        /\ d.houseProof = g["houseProof"]
    BY <1>2, ScoredRungs DEF ScoredFields
  <2> HIDE DEF L
  <2>2. f["houseProof"] \in BOOLEAN /\ g["houseProof"] \in BOOLEAN
        /\ (g["houseProof"] => f["houseProof"])
    BY Zenon, <1>1, <2>1, KnownWorse
  <2> QED
    BY Zenon, <2>1, <2>2
<1>7. c.businessProof \in BOOLEAN /\ d.businessProof \in BOOLEAN
      /\ (d.businessProof => c.businessProof)
  <2>1. L["businessProof"] = Known /\ "businessProof" \in DOMAIN L
        /\ c.businessProof = f["businessProof"] /\ d.businessProof = g["businessProof"]
    BY <1>2, ScoredRungs DEF ScoredFields
  <2> HIDE DEF L
  <2>2. f["businessProof"] \in BOOLEAN /\ g["businessProof"] \in BOOLEAN
        /\ (g["businessProof"] => f["businessProof"])
    BY Zenon, <1>1, <2>1, KnownWorse
  <2> QED
    BY Zenon, <2>1, <2>2
<1>8. \/ c.assets = 1 /\ d.assets \in {1, 0}
      \/ c.assets = 0 /\ d.assets = 0
  <2>1. L.assets = <<1, 0>> /\ "assets" \in DOMAIN L /\ c.assets = f.assets /\ d.assets = g.assets
    BY <1>2, ScoredRungs DEF ScoredFields
  <2> HIDE DEF L
  <2> QED
    BY <1>1, <2>1, TwoWorse
<1>9. c.references \in BOOLEAN /\ d.references \in BOOLEAN /\ (d.references => c.references)
  <2>1. L["references"] = Known /\ "references" \in DOMAIN L /\ c.references = f["references"]
        /\ d.references = g["references"]
    BY <1>2, ScoredRungs DEF ScoredFields
  <2> HIDE DEF L
  <2>2. f["references"] \in BOOLEAN /\ g["references"] \in BOOLEAN
        /\ (g["references"] => f["references"])
    BY Zenon, <1>1, <2>1, KnownWorse
  <2> QED
    BY Zenon, <2>1, <2>2
<1>10. c.tvr \in BOOLEAN /\ d.tvr \in BOOLEAN /\ (d.tvr => c.tvr)
  <2>1. L["tvr"] = Known /\ "tvr" \in DOMAIN L /\ c.tvr = f["tvr"] /\ d.tvr = g["tvr"]
    BY <1>2, ScoredRungs DEF ScoredFields
  <2> HIDE DEF L
  <2>2. f["tvr"] \in BOOLEAN /\ g["tvr"] \in BOOLEAN /\ (g["tvr"] => f["tvr"])
    BY Zenon, <1>1, <2>1, KnownWorse
  <2> QED
    BY Zenon, <2>1, <2>2
<1>11. c.fraudCall \in BOOLEAN /\ d.fraudCall \in BOOLEAN /\ (d.fraudCall => c.fraudCall)
  <2>1. L["fraudCall"] = Known /\ "fraudCall" \in DOMAIN L /\ c.fraudCall = f["fraudCall"]
        /\ d.fraudCall = g["fraudCall"]
    BY <1>2, ScoredRungs DEF ScoredFields
  <2> HIDE DEF L
  <2>2. f["fraudCall"] \in BOOLEAN /\ g["fraudCall"] \in BOOLEAN
        /\ (g["fraudCall"] => f["fraudCall"])
    BY Zenon, <1>1, <2>1, KnownWorse
  <2> QED
    BY Zenon, <2>1, <2>2
<1>12. RowWorse(r_c25_loan_purpose(c), r_c25_loan_purpose(d))
  BY <1>2, <1>3, <1>4 DEF r_c25_loan_purpose, RowWorse, _pass, _fail, _pending, Judge
<1>13. RowWorse(r_c26_end_use(c), r_c26_end_use(d))
  BY <1>2, <1>3, <1>5 DEF r_c26_end_use, RowWorse, _pass, _fail, _pending, Judge
<1>14. RowWorse(r_c27_house_ownership(c), r_c27_house_ownership(d))
  BY <1>2, <1>3, <1>6 DEF r_c27_house_ownership, RowWorse, _pass, _fail, _pending, Judge
<1>15. RowWorse(r_c28_business_ownership(c), r_c28_business_ownership(d))
  BY <1>2, <1>3, <1>7 DEF r_c28_business_ownership, RowWorse, _pass, _fail, _pending, Judge
<1>16. RowWorse(r_c29_additional_assets(c), r_c29_additional_assets(d))
  BY <1>2, <1>3, <1>8 DEF r_c29_additional_assets, RowWorse, _pass, _fail, _pending, OnFile
<1>17. RowWorse(r_d30_bcm_cross_verification(c), r_d30_bcm_cross_verification(d))
  BY <1>2, <1>3, <1>9 DEF r_d30_bcm_cross_verification, RowWorse, _pass, _fail, _pending, OnFile
<1>18. RowWorse(r_d31_tvr(c), r_d31_tvr(d))
  BY <1>2, <1>3, <1>10 DEF r_d31_tvr, RowWorse, _pass, _fail, _pending, OnFile
<1>19. RowWorse(r_d32_fraud_call(c), r_d32_fraud_call(d))
  BY <1>2, <1>3, <1>11 DEF r_d32_fraud_call, RowWorse, _pass, _fail, _pending, OnFile
<1>20. r_c25_loan_purpose(c).status # "PENDING" /\ r_c26_end_use(c).status # "PENDING"
  BY <1>3 DEF r_c25_loan_purpose, r_c26_end_use, Judge, _pass, _fail
<1> QED
  BY <1>12, <1>13, <1>14, <1>15, <1>16, <1>17, <1>18, <1>19, <1>20 DEF c, d, f, g, L

\* The rows of the income proof: what could not be read passes on its presence, but a
\* proof that is read and doubtful fails.
LEMMA ProofRowsWorse ==
    ASSUME NEW co \in BOOLEAN, NEW p, NEW q, Below(ScoringLadder, p, q)
    PROVE  LET c == ScoringFile(co, At(ScoringLadder, p))
               d == ScoringFile(co, At(ScoringLadder, q))
           IN /\ RowWorse(r_b16_income_proof_applicant(c), r_b16_income_proof_applicant(d))
              /\ RowWorse(r_b18_additional_income(c), r_b18_additional_income(d))
<1> DEFINE L == ScoringLadder
           f == At(L, p)
           g == At(L, q)
           c == ScoringFile(co, f)
           d == ScoringFile(co, g)
           i == p["proof"]
           j == q["proof"]
<1>1. Compare(L, p, q, f, g)
  BY Compared
<1>2. ContextOf(c, co, f) /\ ContextOf(d, co, g)
  BY ScoredAs
<1> HIDE DEF f, g, c, d
<1>3. i \in DOMAIN L.proof /\ j \in DOMAIN L.proof /\ i <= j
      /\ f.proof = L.proof[i] /\ g.proof = L.proof[j]
  <2>1. "proof" \in DOMAIN L
    BY ScoredRungs DEF ScoredFields
  <2> QED
    BY <1>1, <2>1 DEF Compare
<1>4. /\ i \in 1..5 /\ ProofIs(i, c.proof, c.proofVerdict, c.sources)
      /\ j \in 1..5 /\ ProofIs(j, d.proof, d.proofVerdict, d.sources)
  <2>1. /\ i \in 1..5 /\ ProofIs(i, L.proof[i].onFile, L.proof[i].verdict, L.proof[i].sources)
        /\ j \in 1..5 /\ ProofIs(j, L.proof[j].onFile, L.proof[j].verdict, L.proof[j].sources)
    BY <1>3, ProofRungs
  <2>2. /\ c.proof = L.proof[i].onFile /\ c.proofVerdict = L.proof[i].verdict
        /\ c.sources = L.proof[i].sources
    BY <1>2, <1>3 DEF ContextOf
  <2>3. /\ d.proof = L.proof[j].onFile /\ d.proofVerdict = L.proof[j].verdict
        /\ d.sources = L.proof[j].sources
    BY <1>2, <1>3 DEF ContextOf
  <2> QED
    BY Zenon, <2>1, <2>2, <2>3
<1> HIDE DEF L
<1>6. /\ c.other = f["other"] /\ d.other = g["other"]
      /\ c.statement = f["statement"] /\ d.statement = g["statement"]
      /\ "other" \in DOMAIN L /\ "statement" \in DOMAIN L /\ L["statement"] = Known
  BY <1>2, ScoredRungs DEF ContextOf, ScoredFields, L
<1>7. \/ c.other = 9000 /\ d.other \in {9000, -1}
      \/ c.other = -1 /\ d.other = -1
  <2>1. L["other"] = <<9000, -1>>
    BY ScoredRungs DEF L
  <2> QED
    BY <1>1, <1>6, <2>1, TwoWorse
<1>8. c.statement \in BOOLEAN /\ d.statement \in BOOLEAN /\ (d.statement => c.statement)
  <2>1. f["statement"] \in BOOLEAN /\ g["statement"] \in BOOLEAN
        /\ (g["statement"] => f["statement"])
    BY Zenon, <1>1, <1>6, KnownWorse
  <2> QED
    BY Zenon, <1>6, <2>1
<1>10. /\ _pass(16).score = 5 /\ _pass(18).score = 3 /\ _pending.score = 0 /\ _fail.score = 0
       /\ _pass(16).status = "PASS" /\ _pass(18).status = "PASS"
       /\ _pending.status = "PENDING" /\ _fail.status = "FAIL"
  <2>1. CATALOG[16] = 5 /\ CATALOG[18] = 3
    BY DEF CATALOG
  <2> QED
    BY <2>1 DEF _pass, _pending, _fail
<1> DEFINE Earns(x, k) ==
              /\ k \in {1, 2} => r_b16_income_proof_applicant(x) = _pass(16)
              /\ k = 3 => r_b16_income_proof_applicant(x) = (IF x.statement THEN _pass(16)
                                                             ELSE _fail)
              /\ k \in {4, 5} => r_b16_income_proof_applicant(x) = _fail
              /\ k = 1 => r_b18_additional_income(x) = _pass(18)
              /\ k \in {2, 3} => r_b18_additional_income(x) = (IF x.other = 9000 THEN _pass(18)
                                                                ELSE _pending)
              /\ k \in {4, 5} => r_b18_additional_income(x) = _fail
<1>11. ASSUME NEW x, NEW k \in 1..5, x.statement \in BOOLEAN, x.other \in {9000, -1},
              ProofIs(k, x.proof, x.proofVerdict, x.sources)
       PROVE  Earns(x, k)
  <2>1. k \in {1, 2} => r_b16_income_proof_applicant(x) = _pass(16)
    BY <1>11 DEF ProofIs, r_b16_income_proof_applicant, Judge
  <2>2. k = 3 => r_b16_income_proof_applicant(x) = (IF x.statement THEN _pass(16) ELSE _fail)
    <3>1. CASE x.statement
      BY <1>11, <3>1 DEF ProofIs, r_b16_income_proof_applicant, Judge
    <3>2. CASE ~x.statement
      BY <1>11, <3>2 DEF ProofIs, r_b16_income_proof_applicant, Judge
    <3> QED
      BY <3>1, <3>2
  <2>3. k \in {4, 5} => r_b16_income_proof_applicant(x) = _fail
    BY <1>11 DEF ProofIs, r_b16_income_proof_applicant, Judge
  <2>4. k = 1 => r_b18_additional_income(x) = _pass(18)
    BY <1>11 DEF ProofIs, r_b18_additional_income, Judge
  <2>5. k \in {2, 3} => r_b18_additional_income(x) = (IF x.other = 9000 THEN _pass(18)
                                                      ELSE _pending)
    <3>1. k \in {2, 3} => x.sources = -1
      BY <1>11 DEF ProofIs
    <3> QED
      BY <1>11, <3>1 DEF r_b18_additional_income, OnFile
  <2>6. k \in {4, 5} => r_b18_additional_income(x) = _fail
    <3>1. k \in {4, 5} => x.sources \in {0, 1}
      BY <1>11 DEF ProofIs
    <3> QED
      BY <3>1 DEF r_b18_additional_income, Judge
  <2> QED
    BY <2>1, <2>2, <2>3, <2>4, <2>5, <2>6
<1>12. c.other \in {9000, -1} /\ d.other \in {9000, -1}
  BY <1>7
<1> DEFINE rc == r_b16_income_proof_applicant(c)
           rd == r_b16_income_proof_applicant(d)
           ac == r_b18_additional_income(c)
           ad == r_b18_additional_income(d)
<1> HIDE DEF Earns
<1>13. Earns(c, i) /\ Earns(d, j)
  BY <1>4, <1>8, <1>11, <1>12
<1>15. i \in 1..5 /\ j \in 1..5 /\ i <= j
  BY <1>3, <1>4
<1> HIDE DEF i, j, rc, rd, ac, ad
<1>16. RowWorse(rc, rd)
  BY <1>8, <1>10, <1>13, <1>15 DEF RowWorse, Earns, rc, rd
<1>17. RowWorse(ac, ad)
  BY <1>7, <1>10, <1>13, <1>15 DEF RowWorse, Earns, ac, ad
<1> QED
  BY <1>16, <1>17 DEF rc, rd, ac, ad, c, d, f, g, L

LEMMA RowCritical ==
    ASSUME NEW n \in 1..32, NEW row
    PROVE  RowIssue(n, row) = "CRITICAL"
              <=> \/ row.status = "FAIL" /\ (CATALOG[n] >= 4 \/ n \in {25, 26})
                  \/ row.status = "PENDING" /\ n \in {25, 26}
BY DEF RowIssue, FORCE_CRITICAL_SNOS

\* A worse file's rows earn no more, and what was critical among them is; but where the
\* bureau score is known and bad, row 3 is critical instead of row 8 earning less.
LEMMA RowsWorse ==
    ASSUME NEW co \in BOOLEAN, NEW p, NEW q, Below(ScoringLadder, p, q)
    PROVE  LET c == ScoringFile(co, At(ScoringLadder, p))
               d == ScoringFile(co, At(ScoringLadder, q))
               R == ScoreRows(c)
               S == ScoreRows(d)
           IN /\ \/ RowIssue(3, S[3]) = "CRITICAL"
                 \/ \A n \in 1..32 : /\ R[n].score \in Int /\ S[n].score \in Int
                                     /\ S[n].score <= R[n].score
              /\ \A n \in 1..32 :
                    RowIssue(n, R[n]) = "CRITICAL" => RowIssue(n, S[n]) = "CRITICAL"
<1> DEFINE c == ScoringFile(co, At(ScoringLadder, p))
           d == ScoringFile(co, At(ScoringLadder, q))
           R == ScoreRows(c)
           S == ScoreRows(d)
<1>1. /\ RowWorse(r_a01_household_income(c), r_a01_household_income(d))
      /\ RowWorse(r_a03_applicant_cibil(c), r_a03_applicant_cibil(d))
      /\ RowWorse(r_a04_coapp_cibil(c), r_a04_coapp_cibil(d))
      /\ RowWorse(r_a05_unsecured_outstanding(c), r_a05_unsecured_outstanding(d))
      /\ RowWorse(r_a06_dpd_12m(c), r_a06_dpd_12m(d))
      /\ RowWorse(r_a07_writeoff_settled_3y(c), r_a07_writeoff_settled_3y(d))
      /\ RowWorse(r_a09_cibil_address_match(c), r_a09_cibil_address_match(d))
      /\ RowWorse(r_a10_foir(c), r_a10_foir(d))
      /\ RowWorse(r_a11_negative_area(c), r_a11_negative_area(d))
      /\ RowWorse(r_a12_dscr(c), r_a12_dscr(d))
      /\ RowWorse(r_a13_deviation_approved(c), r_a13_deviation_approved(d))
      /\ d.cibil # 600 => RowWorse(r_a08_enquiries_3m(c), r_a08_enquiries_3m(d))
      /\ d.cibil = 600 => r_a03_applicant_cibil(d).status = "FAIL"
  BY SectionAWorse
<1>2. /\ RowWorse(r_b14_shop_qr(c), r_b14_shop_qr(d))
      /\ RowWorse(r_b15_qr_owner_match(c), r_b15_qr_owner_match(d))
      /\ RowWorse(r_b17_income_proof_coapp(c), r_b17_income_proof_coapp(d))
      /\ RowWorse(r_b19_banking_6_12m(c), r_b19_banking_6_12m(d))
      /\ RowWorse(r_b20_total_credit(c), r_b20_total_credit(d))
      /\ RowWorse(r_b21_coapp_banking(c), r_b21_coapp_banking(d))
      /\ RowWorse(r_b22_abb_ratio(c), r_b22_abb_ratio(d))
      /\ RowWorse(r_b23_no_bouncing(c), r_b23_no_bouncing(d))
      /\ r_b24_banking_matches_income(c).score \in Int
      /\ r_b24_banking_matches_income(d).score \in Int
      /\ r_b24_banking_matches_income(d).score <= r_b24_banking_matches_income(c).score
  BY SectionBWorse
<1>3. /\ RowWorse(r_b16_income_proof_applicant(c), r_b16_income_proof_applicant(d))
      /\ RowWorse(r_b18_additional_income(c), r_b18_additional_income(d))
  BY ProofRowsWorse
<1>4. /\ RowWorse(r_c25_loan_purpose(c), r_c25_loan_purpose(d))
      /\ RowWorse(r_c26_end_use(c), r_c26_end_use(d))
      /\ RowWorse(r_c27_house_ownership(c), r_c27_house_ownership(d))
      /\ RowWorse(r_c28_business_ownership(c), r_c28_business_ownership(d))
      /\ RowWorse(r_c29_additional_assets(c), r_c29_additional_assets(d))
      /\ RowWorse(r_d30_bcm_cross_verification(c), r_d30_bcm_cross_verification(d))
      /\ RowWorse(r_d31_tvr(c), r_d31_tvr(d))
      /\ RowWorse(r_d32_fraud_call(c), r_d32_fraud_call(d))
      /\ r_c25_loan_purpose(c).status # "PENDING" /\ r_c26_end_use(c).status # "PENDING"
  BY SectionCDWorse
<1> HIDE DEF c, d
<1>5. RowWorse(r_a02_business_vintage, r_a02_business_vintage)
  BY DEF RowWorse, r_a02_business_vintage, _pending
<1>6. /\ R[1] = r_a01_household_income(c) /\ S[1] = r_a01_household_income(d)
      /\ R[2] = r_a02_business_vintage /\ S[2] = r_a02_business_vintage
      /\ R[3] = r_a03_applicant_cibil(c) /\ S[3] = r_a03_applicant_cibil(d)
      /\ R[4] = r_a04_coapp_cibil(c) /\ S[4] = r_a04_coapp_cibil(d)
      /\ R[5] = r_a05_unsecured_outstanding(c) /\ S[5] = r_a05_unsecured_outstanding(d)
      /\ R[6] = r_a06_dpd_12m(c) /\ S[6] = r_a06_dpd_12m(d)
      /\ R[7] = r_a07_writeoff_settled_3y(c) /\ S[7] = r_a07_writeoff_settled_3y(d)
      /\ R[8] = r_a08_enquiries_3m(c) /\ S[8] = r_a08_enquiries_3m(d)
  BY DEF ScoreRows
<1>7. /\ R[9] = r_a09_cibil_address_match(c) /\ S[9] = r_a09_cibil_address_match(d)
      /\ R[10] = r_a10_foir(c) /\ S[10] = r_a10_foir(d)
      /\ R[11] = r_a11_negative_area(c) /\ S[11] = r_a11_negative_area(d)
      /\ R[12] = r_a12_dscr(c) /\ S[12] = r_a12_dscr(d)
      /\ R[13] = r_a13_deviation_approved(c) /\ S[13] = r_a13_deviation_approved(d)
      /\ R[14] = r_b14_shop_qr(c) /\ S[14] = r_b14_shop_qr(d)
      /\ R[15] = r_b15_qr_owner_match(c) /\ S[15] = r_b15_qr_owner_match(d)
      /\ R[16] = r_b16_income_proof_applicant(c) /\ S[16] = r_b16_income_proof_applicant(d)
  BY DEF ScoreRows
<1>8. /\ R[17] = r_b17_income_proof_coapp(c) /\ S[17] = r_b17_income_proof_coapp(d)
      /\ R[18] = r_b18_additional_income(c) /\ S[18] = r_b18_additional_income(d)
      /\ R[19] = r_b19_banking_6_12m(c) /\ S[19] = r_b19_banking_6_12m(d)
      /\ R[20] = r_b20_total_credit(c) /\ S[20] = r_b20_total_credit(d)
      /\ R[21] = r_b21_coapp_banking(c) /\ S[21] = r_b21_coapp_banking(d)
      /\ R[22] = r_b22_abb_ratio(c) /\ S[22] = r_b22_abb_ratio(d)
      /\ R[23] = r_b23_no_bouncing(c) /\ S[23] = r_b23_no_bouncing(d)
      /\ R[24] = r_b24_banking_matches_income(c) /\ S[24] = r_b24_banking_matches_income(d)
  BY DEF ScoreRows
<1>9. /\ R[25] = r_c25_loan_purpose(c) /\ S[25] = r_c25_loan_purpose(d)
      /\ R[26] = r_c26_end_use(c) /\ S[26] = r_c26_end_use(d)
      /\ R[27] = r_c27_house_ownership(c) /\ S[27] = r_c27_house_ownership(d)
      /\ R[28] = r_c28_business_ownership(c) /\ S[28] = r_c28_business_ownership(d)
      /\ R[29] = r_c29_additional_assets(c) /\ S[29] = r_c29_additional_assets(d)
      /\ R[30] = r_d30_bcm_cross_verification(c) /\ S[30] = r_d30_bcm_cross_verification(d)
      /\ R[31] = r_d31_tvr(c) /\ S[31] = r_d31_tvr(d)
      /\ R[32] = r_d32_fraud_call(c) /\ S[32] = r_d32_fraud_call(d)
  BY DEF ScoreRows
<1> HIDE DEF R, S
<1>10. /\ RowWorse(R[1], S[1]) /\ RowWorse(R[2], S[2]) /\ RowWorse(R[3], S[3])
       /\ RowWorse(R[4], S[4]) /\ RowWorse(R[5], S[5]) /\ RowWorse(R[6], S[6])
       /\ RowWorse(R[7], S[7]) /\ (d.cibil # 600 => RowWorse(R[8], S[8]))
       /\ (d.cibil = 600 => S[3].status = "FAIL")
  <2>1. /\ RowWorse(R[1], S[1]) /\ RowWorse(R[2], S[2]) /\ RowWorse(R[3], S[3])
        /\ RowWorse(R[4], S[4])
    BY Zenon, <1>1, <1>5, <1>6
  <2>2. /\ RowWorse(R[5], S[5]) /\ RowWorse(R[6], S[6])
        /\ RowWorse(R[7], S[7])
    BY Zenon, <1>1, <1>6
  <2>3. d.cibil # 600 => RowWorse(R[8], S[8])
    <3>1. R[8] = r_a08_enquiries_3m(c) /\ S[8] = r_a08_enquiries_3m(d)
      BY Zenon, <1>6
    <3>2. d.cibil # 600 => RowWorse(r_a08_enquiries_3m(c), r_a08_enquiries_3m(d))
      BY <1>1
    <3> QED
      BY <3>1, <3>2
  <2>4. d.cibil = 600 => S[3].status = "FAIL"
    BY Zenon, <1>1, <1>6
  <2> QED
    BY Zenon, <2>1, <2>2, <2>3, <2>4
<1>11. /\ RowWorse(R[9], S[9]) /\ RowWorse(R[10], S[10]) /\ RowWorse(R[11], S[11])
       /\ RowWorse(R[12], S[12]) /\ RowWorse(R[13], S[13]) /\ RowWorse(R[14], S[14])
       /\ RowWorse(R[15], S[15]) /\ RowWorse(R[16], S[16])
  BY Zenon, <1>1, <1>2, <1>3, <1>7
<1>12. /\ RowWorse(R[17], S[17]) /\ RowWorse(R[18], S[18]) /\ RowWorse(R[19], S[19])
       /\ RowWorse(R[20], S[20]) /\ RowWorse(R[21], S[21]) /\ RowWorse(R[22], S[22])
       /\ RowWorse(R[23], S[23])
       /\ R[24].score \in Int /\ S[24].score \in Int /\ S[24].score <= R[24].score
  BY Zenon, <1>2, <1>3, <1>8
<1>13. /\ RowWorse(R[25], S[25]) /\ RowWorse(R[26], S[26]) /\ RowWorse(R[27], S[27])
       /\ RowWorse(R[28], S[28]) /\ RowWorse(R[29], S[29]) /\ RowWorse(R[30], S[30])
       /\ RowWorse(R[31], S[31]) /\ RowWorse(R[32], S[32])
       /\ R[25].status # "PENDING" /\ R[26].status # "PENDING"
  BY Zenon, <1>4, <1>9
<1>14. \A n \in (1..32) \ {8, 24} : RowWorse(R[n], S[n])
  <2>1. ASSUME NEW n \in (1..32) \ {8, 24}
        PROVE  n \in 1..7 \/ n \in 9..16 \/ n \in 17..23 \/ n \in 25..32
    OBVIOUS
  <2>2. \A n \in 1..7 : RowWorse(R[n], S[n])
    BY <1>10
  <2>3. \A n \in 9..16 : RowWorse(R[n], S[n])
    BY <1>11
  <2>4. \A n \in 17..23 : RowWorse(R[n], S[n])
    BY <1>12
  <2>5. \A n \in 25..32 : RowWorse(R[n], S[n])
    BY <1>13
  <2> QED
    BY Zenon, <2>1, <2>2, <2>3, <2>4, <2>5
<1>15. CATALOG[3] = 4 /\ CATALOG[8] = 3 /\ CATALOG[24] = 2
  BY DEF CATALOG
<1>16. ASSUME NEW n \in 1..32, RowIssue(n, R[n]) = "CRITICAL"
       PROVE  RowIssue(n, S[n]) = "CRITICAL"
  <2>1. \/ R[n].status = "FAIL" /\ (CATALOG[n] >= 4 \/ n \in {25, 26})
        \/ R[n].status = "PENDING" /\ n \in {25, 26}
    BY <1>16, RowCritical
  <2>2. n # 8 /\ n # 24
    BY <1>15, <2>1
  <2>3. R[n].status = "FAIL" /\ (CATALOG[n] >= 4 \/ n \in {25, 26})
    BY <1>13, <2>1
  <2>4. S[n].status = "FAIL"
    BY <1>14, <2>2, <2>3 DEF RowWorse
  <2> QED
    BY <2>3, <2>4, RowCritical
<1>17. CASE d.cibil = 600
  <2>1. RowIssue(3, S[3]) = "CRITICAL"
    BY <1>10, <1>15, <1>17, RowCritical
  <2> QED
    BY <1>16, <2>1 DEF R, S, c, d
<1>18. CASE d.cibil # 600
  <2>1. ASSUME NEW n \in 1..32
        PROVE  R[n].score \in Int /\ S[n].score \in Int /\ S[n].score <= R[n].score
    <3>1. CASE n = 24
      BY <1>12, <3>1
    <3>2. CASE n # 24
      <4>1. RowWorse(R[n], S[n])
        BY <1>10, <1>14, <1>18, <3>2
      <4> QED
        BY <4>1 DEF RowWorse
    <3> QED
      BY <3>1, <3>2
  <2> QED
    BY <1>16, <2>1 DEF R, S, c, d
<1> QED
  BY <1>17, <1>18

\* Of two sums, the one of the smaller numbers is the smaller.
LEMMA SumsOrdered ==
    ASSUME NEW N \in Nat, NEW w, NEW v, NEW f, NEW g, Sums(w, N, f), Sums(v, N, g),
           \A n \in 1..N : w[n] \in Int /\ v[n] \in Int /\ v[n] <= w[n]
    PROVE  f[N] \in Int /\ g[N] \in Int /\ g[N] <= f[N]
<1> DEFINE T == {n \in 0..N : ~(g[n] <= f[n])}
<1>1. f \in [0..N -> Int] /\ f[0] = 0 /\ \A n \in 1..N : f[n] = f[n - 1] + w[n]
  BY DEF Sums
<1>2. g \in [0..N -> Int] /\ g[0] = 0 /\ \A n \in 1..N : g[n] = g[n - 1] + v[n]
  BY DEF Sums
<1>3. T = {}
  <2>1. SUFFICES ASSUME T # {} PROVE FALSE
    OBVIOUS
  <2>2. T \in SUBSET Nat
    OBVIOUS
  <2>3. PICK n \in T : \A m \in T : n <= m
    <3> HIDE DEF T
    <3> QED
      BY <2>1, <2>2, LeastOfNats
  <2>4. n \in 0..N /\ ~(g[n] <= f[n])
    BY <2>3
  <2>5. n # 0
    BY <1>1, <1>2, <2>4
  <2>6. n \in 1..N /\ n - 1 \in 0..N
    BY <2>4, <2>5
  <2>7. n - 1 \notin T
    <3> HIDE DEF T
    <3> QED
      BY <2>3, <2>4
  <2>8. g[n - 1] <= f[n - 1]
    BY <2>6, <2>7
  <2>9. g[n] = g[n - 1] + v[n] /\ f[n] = f[n - 1] + w[n] /\ v[n] <= w[n]
        /\ v[n] \in Int /\ w[n] \in Int /\ g[n - 1] \in Int /\ f[n - 1] \in Int
    BY <1>1, <1>2, <2>6
  <2> HIDE DEF T
  <2> QED
    BY <2>4, <2>8, <2>9
<1>4. N \in 0..N
  OBVIOUS
<1>5. g[N] <= f[N]
  BY <1>3, <1>4
<1> QED
  BY <1>1, <1>2, <1>4, <1>5

\* Rows that earn no more row by row earn no more together.
LEMMA EarnedOrdered ==
    ASSUME NEW R, NEW S, NEW A,
           \A n \in 1..32 : R[n].score \in Int /\ S[n].score \in Int /\ S[n].score <= R[n].score
    PROVE  Earned(R, A) \in Int /\ Earned(S, A) \in Int /\ Earned(S, A) <= Earned(R, A)
<1> DEFINE w == [n \in 1..32 |-> IF n \in A THEN R[n].score ELSE 0]
           v == [n \in 1..32 |-> IF n \in A THEN S[n].score ELSE 0]
<1>1. PICK f : Sums(w, 32, f) /\ Earned(R, A) = f[32]
  BY EarnedSum
<1>2. PICK g : Sums(v, 32, g) /\ Earned(S, A) = g[32]
  BY EarnedSum
<1>3. ASSUME NEW n \in 1..32
      PROVE  w[n] \in Int /\ v[n] \in Int /\ v[n] <= w[n]
  <2>1. /\ w[n] = (IF n \in A THEN R[n].score ELSE 0)
        /\ v[n] = (IF n \in A THEN S[n].score ELSE 0)
    OBVIOUS
  <2>2. R[n].score \in Int /\ S[n].score \in Int /\ S[n].score <= R[n].score
    OBVIOUS
  <2> HIDE DEF w, v
  <2> QED
    BY <2>1, <2>2
<1> HIDE DEF w, v
<1> QED
  BY <1>1, <1>2, <1>3, SumsOrdered

RulesOfScoring == ({"row"} \X Rows) \cup ({"section"} \X DOMAIN SECTIONS) \cup {<<"grade", "all">>}

\* The issues of a score, by its rows.
LEMMA ScoringCritical ==
    ASSUME NEW c
    PROVE  LET I == ScoringIssues(c)
               R == ScoreRows(c)
           IN /\ DOMAIN I = RulesOfScoring
              /\ \A n \in 1..32 : <<"row", n>> \in DOMAIN I /\ I[<<"row", n>>] = RowIssue(n, R[n])
              /\ \A s \in DOMAIN SECTIONS :
                    <<"section", s>> \in DOMAIN I
                    /\ (I[<<"section", s>>] = "CRITICAL"
                            <=> 100 * Earned(R, RowsOf(s)) < 50 * SECTIONS[s])
              /\ <<"grade", "all">> \in DOMAIN I
              /\ (I[<<"grade", "all">>] = "CRITICAL" <=> Earned(R, Rows) < 60)
<1> DEFINE R == ScoreRows(c)
           kind(r) == CASE r[1] = "row" -> RowIssue(r[2], R[r[2]])
                        [] r[1] = "section" -> SectionIssue(r[2], R)
                        [] r[1] = "grade" -> GradeIssue(R)
           I == ScoringIssues(c)
<1>1. I = [r \in RulesOfScoring |-> kind(r)]
  BY DEF ScoringIssues, RulesOfScoring
<1> HIDE DEF I, R
<1>2. ASSUME NEW n \in 1..32
      PROVE  <<"row", n>> \in RulesOfScoring /\ kind(<<"row", n>>) = RowIssue(n, R[n])
  <2>1. <<"row", n>> \in RulesOfScoring
    BY DEF RulesOfScoring, Rows
  <2>2. <<"row", n>>[1] = "row" /\ <<"row", n>>[2] = n
    OBVIOUS
  <2> QED
    BY <2>1, <2>2
<1>3. ASSUME NEW s \in DOMAIN SECTIONS
      PROVE  <<"section", s>> \in RulesOfScoring /\ kind(<<"section", s>>) = SectionIssue(s, R)
  <2>1. <<"section", s>> \in RulesOfScoring
    BY DEF RulesOfScoring
  <2>2. <<"section", s>>[1] = "section" /\ <<"section", s>>[2] = s
    OBVIOUS
  <2> QED
    BY <2>1, <2>2
<1>4. <<"grade", "all">> \in RulesOfScoring /\ kind(<<"grade", "all">>) = GradeIssue(R)
  <2>1. <<"grade", "all">> \in RulesOfScoring
    BY DEF RulesOfScoring
  <2>2. <<"grade", "all">>[1] = "grade"
    OBVIOUS
  <2> QED
    BY <2>1, <2>2
<1> HIDE DEF kind
<1>5. \A n \in 1..32 : <<"row", n>> \in DOMAIN I /\ I[<<"row", n>>] = RowIssue(n, R[n])
  BY <1>1, <1>2
<1>6. \A s \in DOMAIN SECTIONS :
         <<"section", s>> \in DOMAIN I
         /\ (I[<<"section", s>>] = "CRITICAL" <=> 100 * Earned(R, RowsOf(s)) < 50 * SECTIONS[s])
  <2>1. SUFFICES ASSUME NEW s \in DOMAIN SECTIONS
                 PROVE  <<"section", s>> \in DOMAIN I
                        /\ (I[<<"section", s>>] = "CRITICAL"
                              <=> 100 * Earned(R, RowsOf(s)) < 50 * SECTIONS[s])
    OBVIOUS
  <2>2. <<"section", s>> \in DOMAIN I /\ I[<<"section", s>>] = SectionIssue(s, R)
    BY <1>1, <1>3
  <2>3. SectionIssue(s, R) = "CRITICAL" <=> 100 * Earned(R, RowsOf(s)) < 50 * SECTIONS[s]
    BY DEF SectionIssue
  <2> QED
    BY <2>2, <2>3
<1>7. <<"grade", "all">> \in DOMAIN I
      /\ (I[<<"grade", "all">>] = "CRITICAL" <=> Earned(R, Rows) < 60)
  <2>1. <<"grade", "all">> \in DOMAIN I /\ I[<<"grade", "all">>] = GradeIssue(R)
    BY <1>1, <1>4
  <2>2. GradeIssue(R) = "CRITICAL" <=> Earned(R, Rows) < 60
    BY DEF GradeIssue, overall_pct
  <2> QED
    BY <2>1, <2>2
<1>8. DOMAIN I = RulesOfScoring
  BY <1>1
<1> QED
  BY <1>5, <1>6, <1>7, <1>8 DEF I, R

LEMMA RuleKinds ==
    ASSUME NEW r \in RulesOfScoring
    PROVE  \/ \E n \in 1..32 : r = <<"row", n>>
           \/ \E s \in DOMAIN SECTIONS : r = <<"section", s>>
           \/ r = <<"grade", "all">>
BY DEF RulesOfScoring, Rows

LEMMA ScoringKept ==
    ASSUME NEW co \in BOOLEAN, NEW p, NEW q, Below(ScoringLadder, p, q)
    PROVE  Kept(ScoringIssues(ScoringFile(co, At(ScoringLadder, p))),
                ScoringIssues(ScoringFile(co, At(ScoringLadder, q))), {<<"row", 3>>})
<1> DEFINE c == ScoringFile(co, At(ScoringLadder, p))
           d == ScoringFile(co, At(ScoringLadder, q))
           I == ScoringIssues(c)
           J == ScoringIssues(d)
           R == ScoreRows(c)
           S == ScoreRows(d)
<1>1. /\ \/ RowIssue(3, S[3]) = "CRITICAL"
         \/ \A n \in 1..32 : /\ R[n].score \in Int /\ S[n].score \in Int
                             /\ S[n].score <= R[n].score
      /\ \A n \in 1..32 :
            RowIssue(n, R[n]) = "CRITICAL" => RowIssue(n, S[n]) = "CRITICAL"
  BY RowsWorse
<1> HIDE DEF c, d
<1>2. /\ DOMAIN I = RulesOfScoring /\ DOMAIN J = RulesOfScoring
      /\ \A n \in 1..32 : /\ <<"row", n>> \in DOMAIN J
                          /\ I[<<"row", n>>] = RowIssue(n, R[n])
                          /\ J[<<"row", n>>] = RowIssue(n, S[n])
  BY ScoringCritical
<1>3. /\ \A s \in DOMAIN SECTIONS :
            /\ I[<<"section", s>>] = "CRITICAL" <=> 100 * Earned(R, RowsOf(s)) < 50 * SECTIONS[s]
            /\ J[<<"section", s>>] = "CRITICAL" <=> 100 * Earned(S, RowsOf(s)) < 50 * SECTIONS[s]
      /\ I[<<"grade", "all">>] = "CRITICAL" <=> Earned(R, Rows) < 60
      /\ J[<<"grade", "all">>] = "CRITICAL" <=> Earned(S, Rows) < 60
  BY ScoringCritical
<1> HIDE DEF I, J, R, S
<1>4. CASE RowIssue(3, S[3]) = "CRITICAL"
  <2>1. <<"row", 3>> \in {<<"row", 3>>} \cap DOMAIN J /\ J[<<"row", 3>>] = "CRITICAL"
    BY <1>2, <1>4
  <2> QED
    BY <2>1 DEF Kept, I, J, c, d
<1>5. CASE RowIssue(3, S[3]) # "CRITICAL"
  <2>1. \A A : Earned(R, A) \in Int /\ Earned(S, A) \in Int /\ Earned(S, A) <= Earned(R, A)
    BY <1>1, <1>5, EarnedOrdered
  <2>2. \A s \in DOMAIN SECTIONS : SECTIONS[s] \in Int
    BY DEF SECTIONS
  <2>3. ASSUME NEW r \in RulesOfScoring, I[r] = "CRITICAL"
        PROVE  J[r] = "CRITICAL"
    <3>1. ASSUME NEW n \in 1..32, r = <<"row", n>>
          PROVE  J[r] = "CRITICAL"
      BY <1>1, <1>2, <2>3, <3>1
    <3>2. ASSUME NEW s \in DOMAIN SECTIONS, r = <<"section", s>>
          PROVE  J[r] = "CRITICAL"
      <4>1. 100 * Earned(R, RowsOf(s)) < 50 * SECTIONS[s]
        BY <1>3, <2>3, <3>2
      <4>2. 100 * Earned(S, RowsOf(s)) < 50 * SECTIONS[s]
        BY <2>1, <2>2, <4>1
      <4> QED
        BY <1>3, <3>2, <4>2
    <3>3. ASSUME r = <<"grade", "all">>
          PROVE  J[r] = "CRITICAL"
      BY <1>3, <2>1, <2>3, <3>3
    <3> QED
      BY <3>1, <3>2, <3>3, RuleKinds
  <2> QED
    BY <1>2, <2>3 DEF Kept, I, J, c, d
<1> QED
  BY <1>4, <1>5

\* A sum of thirty-two numbers, eight by eight.
EightFrom(w, a) ==
    w[a] + w[a + 1] + w[a + 2] + w[a + 3] + w[a + 4] + w[a + 5] + w[a + 6] + w[a + 7]

LEMMA SumOfRows ==
    ASSUME NEW w, NEW f, Sums(w, 32, f), \A n \in 1..32 : w[n] \in Int
    PROVE  f[32] = EightFrom(w, 1) + EightFrom(w, 9) + EightFrom(w, 17) + EightFrom(w, 25)
<1>1. f \in [0..32 -> Int] /\ f[0] = 0 /\ \A n \in 1..32 : f[n] = f[n - 1] + w[n]
  BY DEF Sums
<1>2. ASSUME NEW a \in {1, 9, 17, 25}
      PROVE  f[a + 7] = f[a - 1] + EightFrom(w, a) /\ EightFrom(w, a) \in Int
  <2>1. /\ f[a] = f[a - 1] + w[a] /\ f[a + 1] = f[a] + w[a + 1]
        /\ f[a + 2] = f[a + 1] + w[a + 2] /\ f[a + 3] = f[a + 2] + w[a + 3]
        /\ f[a + 4] = f[a + 3] + w[a + 4] /\ f[a + 5] = f[a + 4] + w[a + 5]
        /\ f[a + 6] = f[a + 5] + w[a + 6] /\ f[a + 7] = f[a + 6] + w[a + 7]
    BY <1>1
  <2>2. /\ w[a] \in Int /\ w[a + 1] \in Int /\ w[a + 2] \in Int /\ w[a + 3] \in Int
        /\ w[a + 4] \in Int /\ w[a + 5] \in Int /\ w[a + 6] \in Int /\ w[a + 7] \in Int
        /\ f[a - 1] \in Int
    BY <1>1
  <2> QED
    BY <2>1, <2>2 DEF EightFrom
<1> QED
  BY <1>1, <1>2

\* A row that earns all its points, and one that earns none without failing.
Full(n, row) == row.status = "PASS" /\ row.score = CATALOG[n]
Idle(row) == row.status \in {"PENDING", "NA"} /\ row.score = 0

\* The rows of the best file: two are always pending, three need a co-applicant.
LEMMA FirstRows ==
    ASSUME NEW co \in BOOLEAN, NEW p, Topmost(ScoringLadder, p)
    PROVE  LET R == ScoreRows(ScoringFile(co, At(ScoringLadder, p)))
           IN /\ \A n \in (1..32) \ {2, 4, 15, 17, 21} : Full(n, R[n])
              /\ \A n \in {2, 15} : Idle(R[n])
              /\ \A n \in {4, 17, 21} : Full(n, R[n]) \/ Idle(R[n])
<1> DEFINE L == ScoringLadder
           f == At(L, p)
           c == ScoringFile(co, f)
           R == ScoreRows(c)
<1>1. \A x \in DOMAIN L : f[x] = L[x][1] /\ p[x] = 1
  BY FirstRung DEF Topmost
<1>2. ContextOf(c, co, f)
  BY ScoredAs
<1> HIDE DEF c, f
<1>3. /\ c.coapp = co /\ c.report = TRUE /\ c.emi = 8000
      /\ \A x \in ScoredFields \ {"proof", "cibil"} : c[x] = L[x][1]
  BY <1>1, <1>2, ScoredRungs DEF ContextOf, ScoredFields
<1>4. c.proof = TRUE /\ c.proofVerdict = "clean" /\ c.sources = 2
  <2>1. "proof" \in DOMAIN L
    BY ScoredRungs DEF ScoredFields
  <2>2. 1 \in DOMAIN L.proof
    BY <2>1, ScoringRungs DEF Rungs
  <2>3. ProofIs(1, L.proof[1].onFile, L.proof[1].verdict, L.proof[1].sources)
    BY <2>2, ProofRungs
  <2> HIDE DEF L
  <2>4. /\ c.proof = L.proof[1].onFile /\ c.proofVerdict = L.proof[1].verdict
        /\ c.sources = L.proof[1].sources
    BY <1>1, <1>2, <2>1 DEF ContextOf
  <2> QED
    BY <2>3, <2>4 DEF ProofIs
<1>5. /\ c.income = 40000 /\ c.other = 9000 /\ c.credits = 90000
      /\ c.coCibil = 750 /\ c.pastDue = 0 /\ c.enquiries = 1 /\ c.l1 = "approved"
  BY <1>3, ScoredRungs DEF ScoredFields
<1>0. c.cibil = 780
  <2>1. f["cibil"] = L["cibil"][1]
    BY <1>1, ScoredRungs DEF ScoredFields
  <2>2. L["cibil"][1].score = 780
    BY ScoredRungs DEF BureauScores
  <2> QED
    BY <1>2, <2>1, <2>2 DEF ContextOf
<1>6. /\ c.foir = 30 /\ c.area = "clear" /\ c.dscr = 130 /\ c.deviations = "none"
      /\ c.lines = 80 /\ c.balance = 20000 /\ c.bounces = 0 /\ c.assets = 1
  BY <1>3, ScoredRungs DEF ScoredFields
<1>7. \A x \in {"qr", "coProof", "statement", "coStatement", "purpose", "endUse",
                "houseProof", "businessProof", "references", "tvr", "fraudCall"} :
         c[x] = TRUE
  <2>1. \A x \in {"qr", "coProof", "statement", "coStatement", "purpose", "endUse",
                  "houseProof", "businessProof", "references", "tvr", "fraudCall"} :
           L[x] = Known /\ x \in ScoredFields \ {"proof", "cibil"}
    BY ScoredRungs DEF ScoredFields
  <2>2. \A x \in ScoredFields \ {"proof", "cibil"} : c[x] = L[x][1]
    BY <1>3
  <2> HIDE DEF L
  <2> QED
    BY Zenon, <2>1, <2>2, FirstKnown
<1>8. c.writtenOff = FALSE
  <2>1. L["writtenOff"] = Against /\ "writtenOff" \in ScoredFields \ {"proof", "cibil"}
    BY ScoredRungs DEF ScoredFields
  <2>2. c["writtenOff"] = L["writtenOff"][1]
    BY <1>3, <2>1
  <2> HIDE DEF L
  <2> QED
    BY Zenon, <2>1, <2>2, FirstKnown
<1>9. /\ c.qr = TRUE /\ c.coProof = TRUE /\ c.statement = TRUE /\ c.coStatement = TRUE
      /\ c.purpose = TRUE /\ c.endUse = TRUE /\ c.houseProof = TRUE /\ c.businessProof = TRUE
      /\ c.references = TRUE /\ c.tvr = TRUE /\ c.fraudCall = TRUE
  BY <1>7
<1> HIDE DEF L
<1>10. /\ \A n \in 1..32 : Full(n, _pass(n)) /\ CATALOG[n] \in Nat
       /\ Idle(_pending) /\ Idle(NA) /\ CATALOG[12] = 4 /\ CATALOG[22] = 4
       /\ Full(12, _graded(4)) /\ Full(22, _graded(4))
  <2>1. CATALOG[12] = 4 /\ CATALOG[22] = 4
    BY DEF CATALOG
  <2> QED
    BY <2>1, PointsAdd DEF Full, Idle, _pass, _pending, NA, _graded
<1>11. /\ r_a01_household_income(c) = _pass(1)
       /\ r_a03_applicant_cibil(c) = _pass(3)
       /\ r_a05_unsecured_outstanding(c) = _pass(5)
       /\ r_a06_dpd_12m(c) = _pass(6)
       /\ r_a07_writeoff_settled_3y(c) = _pass(7)
  BY <1>0, <1>3, <1>5, <1>8
  DEF r_a01_household_income, Corroborated, r_a03_applicant_cibil, IfKnown, Judge,
      r_a05_unsecured_outstanding, OnFile, r_a06_dpd_12m, r_a07_writeoff_settled_3y
<1>12. /\ r_a08_enquiries_3m(c) = _pass(8)
       /\ r_a09_cibil_address_match(c) = _pass(9)
       /\ r_a10_foir(c) = _pass(10)
       /\ r_a11_negative_area(c) = _pass(11)
       /\ r_a13_deviation_approved(c) = _pass(13)
  BY <1>5, <1>6
  DEF r_a08_enquiries_3m, Judge, r_a09_cibil_address_match, r_a10_foir, r_a11_negative_area,
      r_a13_deviation_approved, OnFile
<1>13. /\ r_b14_shop_qr(c) = _pass(14)
       /\ r_b16_income_proof_applicant(c) = _pass(16)
       /\ r_b18_additional_income(c) = _pass(18)
       /\ r_b19_banking_6_12m(c) = _pass(19)
  BY <1>4, <1>6, <1>9
  DEF r_b14_shop_qr, Judge, r_b16_income_proof_applicant, r_b18_additional_income,
      r_b19_banking_6_12m
<1>14. /\ r_b20_total_credit(c) = _pass(20)
       /\ r_b23_no_bouncing(c) = _pass(23)
       /\ r_b24_banking_matches_income(c) = _pass(24)
  BY <1>5, <1>6
  DEF r_b20_total_credit, OnFile, r_b23_no_bouncing, IfKnown, Judge,
      r_b24_banking_matches_income, Corroborated
<1>15. /\ r_c25_loan_purpose(c) = _pass(25)
       /\ r_c26_end_use(c) = _pass(26)
       /\ r_c27_house_ownership(c) = _pass(27)
       /\ r_c28_business_ownership(c) = _pass(28)
  BY <1>9
  DEF r_c25_loan_purpose, Judge, r_c26_end_use, r_c27_house_ownership, r_c28_business_ownership
<1>16. /\ r_c29_additional_assets(c) = _pass(29)
       /\ r_d30_bcm_cross_verification(c) = _pass(30)
       /\ r_d31_tvr(c) = _pass(31)
       /\ r_d32_fraud_call(c) = _pass(32)
  BY <1>6, <1>9
  DEF r_c29_additional_assets, OnFile, r_d30_bcm_cross_verification, r_d31_tvr, r_d32_fraud_call
<1>17. /\ r_a12_dscr(c) = _graded(4) /\ r_b22_abb_ratio(c) = _graded(4)
       /\ r_a02_business_vintage = _pending /\ r_b15_qr_owner_match(c) = _pending
       /\ r_a04_coapp_cibil(c) \in {_pass(4), NA} /\ r_b17_income_proof_coapp(c) \in {_pass(17), NA}
       /\ r_b21_coapp_banking(c) \in {_pass(21), NA}
  BY <1>3, <1>5, <1>6, <1>9, GradeAt
  DEF r_a12_dscr, r_b22_abb_ratio, r_a02_business_vintage, r_b15_qr_owner_match, r_a04_coapp_cibil,
      r_b17_income_proof_coapp, r_b21_coapp_banking, IfKnown, Judge
<1>18. /\ R[1] = r_a01_household_income(c)
       /\ R[2] = r_a02_business_vintage
       /\ R[3] = r_a03_applicant_cibil(c)
       /\ R[4] = r_a04_coapp_cibil(c)
       /\ R[5] = r_a05_unsecured_outstanding(c)
       /\ R[6] = r_a06_dpd_12m(c)
       /\ R[7] = r_a07_writeoff_settled_3y(c)
       /\ R[8] = r_a08_enquiries_3m(c)
  BY DEF ScoreRows
<1>19. /\ R[9] = r_a09_cibil_address_match(c)
       /\ R[10] = r_a10_foir(c)
       /\ R[11] = r_a11_negative_area(c)
       /\ R[12] = r_a12_dscr(c)
       /\ R[13] = r_a13_deviation_approved(c)
       /\ R[14] = r_b14_shop_qr(c)
       /\ R[15] = r_b15_qr_owner_match(c)
       /\ R[16] = r_b16_income_proof_applicant(c)
  BY DEF ScoreRows
<1>20. /\ R[17] = r_b17_income_proof_coapp(c)
       /\ R[18] = r_b18_additional_income(c)
       /\ R[19] = r_b19_banking_6_12m(c)
       /\ R[20] = r_b20_total_credit(c)
       /\ R[21] = r_b21_coapp_banking(c)
       /\ R[22] = r_b22_abb_ratio(c)
       /\ R[23] = r_b23_no_bouncing(c)
       /\ R[24] = r_b24_banking_matches_income(c)
  BY DEF ScoreRows
<1>21. /\ R[25] = r_c25_loan_purpose(c)
       /\ R[26] = r_c26_end_use(c)
       /\ R[27] = r_c27_house_ownership(c)
       /\ R[28] = r_c28_business_ownership(c)
       /\ R[29] = r_c29_additional_assets(c)
       /\ R[30] = r_d30_bcm_cross_verification(c)
       /\ R[31] = r_d31_tvr(c)
       /\ R[32] = r_d32_fraud_call(c)
  BY DEF ScoreRows
<1> HIDE DEF R
<1>22. /\ Full(1, R[1])
       /\ Idle(R[2])
       /\ Full(3, R[3])
       /\ (Full(4, R[4]) \/ Idle(R[4]))
       /\ Full(5, R[5])
       /\ Full(6, R[6])
       /\ Full(7, R[7])
       /\ Full(8, R[8])
  <2>1. /\ Full(1, R[1])
        /\ Idle(R[2])
        /\ Full(3, R[3])
        /\ (Full(4, R[4]) \/ Idle(R[4]))
    BY <1>10, <1>11, <1>12, <1>13, <1>14, <1>15, <1>16, <1>17, <1>18
  <2>2. /\ Full(5, R[5])
        /\ Full(6, R[6])
        /\ Full(7, R[7])
        /\ Full(8, R[8])
    BY <1>10, <1>11, <1>12, <1>13, <1>14, <1>15, <1>16, <1>17, <1>18
  <2> QED
    BY <2>1, <2>2
<1>23. /\ Full(9, R[9])
       /\ Full(10, R[10])
       /\ Full(11, R[11])
       /\ Full(12, R[12])
       /\ Full(13, R[13])
       /\ Full(14, R[14])
       /\ Idle(R[15])
       /\ Full(16, R[16])
  <2>1. /\ Full(9, R[9])
        /\ Full(10, R[10])
        /\ Full(11, R[11])
        /\ Full(12, R[12])
    BY <1>10, <1>11, <1>12, <1>13, <1>14, <1>15, <1>16, <1>17, <1>19
  <2>2. /\ Full(13, R[13])
        /\ Full(14, R[14])
        /\ Idle(R[15])
        /\ Full(16, R[16])
    BY <1>10, <1>11, <1>12, <1>13, <1>14, <1>15, <1>16, <1>17, <1>19
  <2> QED
    BY <2>1, <2>2
<1>24. /\ (Full(17, R[17]) \/ Idle(R[17]))
       /\ Full(18, R[18])
       /\ Full(19, R[19])
       /\ Full(20, R[20])
       /\ (Full(21, R[21]) \/ Idle(R[21]))
       /\ Full(22, R[22])
       /\ Full(23, R[23])
       /\ Full(24, R[24])
  <2>1. /\ (Full(17, R[17]) \/ Idle(R[17]))
        /\ Full(18, R[18])
        /\ Full(19, R[19])
        /\ Full(20, R[20])
    BY <1>10, <1>11, <1>12, <1>13, <1>14, <1>15, <1>16, <1>17, <1>20
  <2>2. /\ (Full(21, R[21]) \/ Idle(R[21]))
        /\ Full(22, R[22])
        /\ Full(23, R[23])
        /\ Full(24, R[24])
    BY <1>10, <1>11, <1>12, <1>13, <1>14, <1>15, <1>16, <1>17, <1>20
  <2> QED
    BY <2>1, <2>2
<1>25. /\ Full(25, R[25])
       /\ Full(26, R[26])
       /\ Full(27, R[27])
       /\ Full(28, R[28])
       /\ Full(29, R[29])
       /\ Full(30, R[30])
       /\ Full(31, R[31])
       /\ Full(32, R[32])
  <2>1. /\ Full(25, R[25])
        /\ Full(26, R[26])
        /\ Full(27, R[27])
        /\ Full(28, R[28])
    BY <1>10, <1>11, <1>12, <1>13, <1>14, <1>15, <1>16, <1>17, <1>21
  <2>2. /\ Full(29, R[29])
        /\ Full(30, R[30])
        /\ Full(31, R[31])
        /\ Full(32, R[32])
    BY <1>10, <1>11, <1>12, <1>13, <1>14, <1>15, <1>16, <1>17, <1>21
  <2> QED
    BY <2>1, <2>2
<1>26. \A n \in (1..32) \ {2, 4, 15, 17, 21} : Full(n, R[n])
  <2>1. ASSUME NEW n \in (1..32) \ {2, 4, 15, 17, 21}
        PROVE  n \in (1..8) \ {2, 4} \/ n \in (9..16) \ {15} \/ n \in (17..24) \ {17, 21}
               \/ n \in 25..32
    OBVIOUS
  <2>2. \A n \in (1..8) \ {2, 4} : Full(n, R[n])
    BY <1>22
  <2>3. \A n \in (9..16) \ {15} : Full(n, R[n])
    BY <1>23
  <2>4. \A n \in (17..24) \ {17, 21} : Full(n, R[n])
    BY <1>24
  <2>5. \A n \in 25..32 : Full(n, R[n])
    BY <1>25
  <2> QED
    BY Zenon, <2>1, <2>2, <2>3, <2>4, <2>5
<1> QED
  BY <1>22, <1>23, <1>24, <1>25, <1>26 DEF R, c, f, L

\* With nothing against the file every section and the grade are well above their thresholds.
LEMMA FirstEarned ==
    ASSUME NEW co \in BOOLEAN, NEW p, Topmost(ScoringLadder, p)
    PROVE  LET R == ScoreRows(ScoringFile(co, At(ScoringLadder, p)))
           IN /\ Earned(R, 1..13) >= 39 /\ Earned(R, 14..24) >= 25
              /\ Earned(R, 25..29) >= 13 /\ Earned(R, 30..32) >= 7 /\ Earned(R, 1..32) >= 84
<1> DEFINE R == ScoreRows(ScoringFile(co, At(ScoringLadder, p)))
<1>1. /\ \A n \in (1..32) \ {2, 4, 15, 17, 21} : Full(n, R[n])
      /\ \A n \in {2, 15} : Idle(R[n])
      /\ \A n \in {4, 17, 21} : Full(n, R[n]) \/ Idle(R[n])
  BY FirstRows
<1> HIDE DEF R
<1>2. \A n \in 1..32 : R[n].score \in Nat
  BY <1>1, PointsAdd DEF Full, Idle
<1>0. \A n \in 1..32 : R[n].score \in Int
  BY <1>2
<1>3. /\ R[1].score = 3
      /\ R[3].score = 4
      /\ R[5].score = 4
      /\ R[6].score = 4
      /\ R[7].score = 4
      /\ R[8].score = 3
  <2>1. /\ CATALOG[1] = 3
        /\ CATALOG[3] = 4
        /\ CATALOG[5] = 4
        /\ CATALOG[6] = 4
        /\ CATALOG[7] = 4
        /\ CATALOG[8] = 3
    BY DEF CATALOG
  <2> QED
    BY <1>1, <2>1 DEF Full
<1>4. /\ R[9].score = 2
      /\ R[10].score = 4
      /\ R[11].score = 2
      /\ R[12].score = 4
      /\ R[13].score = 5
      /\ R[14].score = 3
      /\ R[16].score = 5
  <2>1. /\ CATALOG[9] = 2
        /\ CATALOG[10] = 4
        /\ CATALOG[11] = 2
        /\ CATALOG[12] = 4
        /\ CATALOG[13] = 5
        /\ CATALOG[14] = 3
        /\ CATALOG[16] = 5
    BY DEF CATALOG
  <2> QED
    BY <1>1, <2>1 DEF Full
<1>5. /\ R[18].score = 3
      /\ R[19].score = 3
      /\ R[20].score = 2
      /\ R[22].score = 4
      /\ R[23].score = 3
      /\ R[24].score = 2
  <2>1. /\ CATALOG[18] = 3
        /\ CATALOG[19] = 3
        /\ CATALOG[20] = 2
        /\ CATALOG[22] = 4
        /\ CATALOG[23] = 3
        /\ CATALOG[24] = 2
    BY DEF CATALOG
  <2> QED
    BY <1>1, <2>1 DEF Full
<1>6. /\ R[25].score = 3
      /\ R[26].score = 3
      /\ R[27].score = 2
      /\ R[28].score = 2
      /\ R[29].score = 3
      /\ R[30].score = 1
      /\ R[31].score = 3
      /\ R[32].score = 3
  <2>1. /\ CATALOG[25] = 3
        /\ CATALOG[26] = 3
        /\ CATALOG[27] = 2
        /\ CATALOG[28] = 2
        /\ CATALOG[29] = 3
        /\ CATALOG[30] = 1
        /\ CATALOG[31] = 3
        /\ CATALOG[32] = 3
    BY DEF CATALOG
  <2> QED
    BY <1>1, <2>1 DEF Full
<1>7. Earned(R, 1..13) >= 39
  <2> DEFINE w == [n \in 1..32 |-> IF n \in 1..13 THEN R[n].score ELSE 0]
  <2>1. PICK f : Sums(w, 32, f) /\ Earned(R, 1..13) = f[32]
    BY <1>0, EarnedSum
  <2>2. \A n \in 1..32 : w[n] \in Nat /\ (n \in 1..13 => w[n] = R[n].score)
    BY <1>2
  <2> HIDE DEF w
  <2>3. f[32] = EightFrom(w, 1) + EightFrom(w, 9) + EightFrom(w, 17) + EightFrom(w, 25)
    BY <2>1, <2>2, SumOfRows
  <2>4. EightFrom(w, 1) \in Nat /\ EightFrom(w, 1) >= 22
    <3>1. /\ w[1] \in Nat /\ w[1] = 3
          /\ w[2] \in Nat
          /\ w[3] \in Nat /\ w[3] = 4
          /\ w[4] \in Nat
          /\ w[5] \in Nat /\ w[5] = 4
          /\ w[6] \in Nat /\ w[6] = 4
          /\ w[7] \in Nat /\ w[7] = 4
          /\ w[8] \in Nat /\ w[8] = 3
      BY <1>3, <2>2
    <3> QED
      BY <3>1 DEF EightFrom
  <2>5. EightFrom(w, 9) \in Nat /\ EightFrom(w, 9) >= 17
    <3>1. /\ w[9] \in Nat /\ w[9] = 2
          /\ w[10] \in Nat /\ w[10] = 4
          /\ w[11] \in Nat /\ w[11] = 2
          /\ w[12] \in Nat /\ w[12] = 4
          /\ w[13] \in Nat /\ w[13] = 5
          /\ w[14] \in Nat
          /\ w[15] \in Nat
          /\ w[16] \in Nat
      BY <1>4, <2>2
    <3> QED
      BY <3>1 DEF EightFrom
  <2>6. EightFrom(w, 17) \in Nat /\ EightFrom(w, 17) >= 0
    <3>1. /\ w[17] \in Nat
          /\ w[18] \in Nat
          /\ w[19] \in Nat
          /\ w[20] \in Nat
          /\ w[21] \in Nat
          /\ w[22] \in Nat
          /\ w[23] \in Nat
          /\ w[24] \in Nat
      BY <1>5, <2>2
    <3> QED
      BY <3>1 DEF EightFrom
  <2>7. EightFrom(w, 25) \in Nat /\ EightFrom(w, 25) >= 0
    <3>1. /\ w[25] \in Nat
          /\ w[26] \in Nat
          /\ w[27] \in Nat
          /\ w[28] \in Nat
          /\ w[29] \in Nat
          /\ w[30] \in Nat
          /\ w[31] \in Nat
          /\ w[32] \in Nat
      BY <1>6, <2>2
    <3> QED
      BY <3>1 DEF EightFrom
  <2> QED
    BY <2>1, <2>3, <2>4, <2>5, <2>6, <2>7
<1>8. Earned(R, 14..24) >= 25
  <2> DEFINE w == [n \in 1..32 |-> IF n \in 14..24 THEN R[n].score ELSE 0]
  <2>1. PICK f : Sums(w, 32, f) /\ Earned(R, 14..24) = f[32]
    BY <1>0, EarnedSum
  <2>2. \A n \in 1..32 : w[n] \in Nat /\ (n \in 14..24 => w[n] = R[n].score)
    BY <1>2
  <2> HIDE DEF w
  <2>3. f[32] = EightFrom(w, 1) + EightFrom(w, 9) + EightFrom(w, 17) + EightFrom(w, 25)
    BY <2>1, <2>2, SumOfRows
  <2>4. EightFrom(w, 1) \in Nat /\ EightFrom(w, 1) >= 0
    <3>1. /\ w[1] \in Nat
          /\ w[2] \in Nat
          /\ w[3] \in Nat
          /\ w[4] \in Nat
          /\ w[5] \in Nat
          /\ w[6] \in Nat
          /\ w[7] \in Nat
          /\ w[8] \in Nat
      BY <1>3, <2>2
    <3> QED
      BY <3>1 DEF EightFrom
  <2>5. EightFrom(w, 9) \in Nat /\ EightFrom(w, 9) >= 8
    <3>1. /\ w[9] \in Nat
          /\ w[10] \in Nat
          /\ w[11] \in Nat
          /\ w[12] \in Nat
          /\ w[13] \in Nat
          /\ w[14] \in Nat /\ w[14] = 3
          /\ w[15] \in Nat
          /\ w[16] \in Nat /\ w[16] = 5
      BY <1>4, <2>2
    <3> QED
      BY <3>1 DEF EightFrom
  <2>6. EightFrom(w, 17) \in Nat /\ EightFrom(w, 17) >= 17
    <3>1. /\ w[17] \in Nat
          /\ w[18] \in Nat /\ w[18] = 3
          /\ w[19] \in Nat /\ w[19] = 3
          /\ w[20] \in Nat /\ w[20] = 2
          /\ w[21] \in Nat
          /\ w[22] \in Nat /\ w[22] = 4
          /\ w[23] \in Nat /\ w[23] = 3
          /\ w[24] \in Nat /\ w[24] = 2
      BY <1>5, <2>2
    <3> QED
      BY <3>1 DEF EightFrom
  <2>7. EightFrom(w, 25) \in Nat /\ EightFrom(w, 25) >= 0
    <3>1. /\ w[25] \in Nat
          /\ w[26] \in Nat
          /\ w[27] \in Nat
          /\ w[28] \in Nat
          /\ w[29] \in Nat
          /\ w[30] \in Nat
          /\ w[31] \in Nat
          /\ w[32] \in Nat
      BY <1>6, <2>2
    <3> QED
      BY <3>1 DEF EightFrom
  <2> QED
    BY <2>1, <2>3, <2>4, <2>5, <2>6, <2>7
<1>9. Earned(R, 25..29) >= 13
  <2> DEFINE w == [n \in 1..32 |-> IF n \in 25..29 THEN R[n].score ELSE 0]
  <2>1. PICK f : Sums(w, 32, f) /\ Earned(R, 25..29) = f[32]
    BY <1>0, EarnedSum
  <2>2. \A n \in 1..32 : w[n] \in Nat /\ (n \in 25..29 => w[n] = R[n].score)
    BY <1>2
  <2> HIDE DEF w
  <2>3. f[32] = EightFrom(w, 1) + EightFrom(w, 9) + EightFrom(w, 17) + EightFrom(w, 25)
    BY <2>1, <2>2, SumOfRows
  <2>4. EightFrom(w, 1) \in Nat /\ EightFrom(w, 1) >= 0
    <3>1. /\ w[1] \in Nat
          /\ w[2] \in Nat
          /\ w[3] \in Nat
          /\ w[4] \in Nat
          /\ w[5] \in Nat
          /\ w[6] \in Nat
          /\ w[7] \in Nat
          /\ w[8] \in Nat
      BY <1>3, <2>2
    <3> QED
      BY <3>1 DEF EightFrom
  <2>5. EightFrom(w, 9) \in Nat /\ EightFrom(w, 9) >= 0
    <3>1. /\ w[9] \in Nat
          /\ w[10] \in Nat
          /\ w[11] \in Nat
          /\ w[12] \in Nat
          /\ w[13] \in Nat
          /\ w[14] \in Nat
          /\ w[15] \in Nat
          /\ w[16] \in Nat
      BY <1>4, <2>2
    <3> QED
      BY <3>1 DEF EightFrom
  <2>6. EightFrom(w, 17) \in Nat /\ EightFrom(w, 17) >= 0
    <3>1. /\ w[17] \in Nat
          /\ w[18] \in Nat
          /\ w[19] \in Nat
          /\ w[20] \in Nat
          /\ w[21] \in Nat
          /\ w[22] \in Nat
          /\ w[23] \in Nat
          /\ w[24] \in Nat
      BY <1>5, <2>2
    <3> QED
      BY <3>1 DEF EightFrom
  <2>7. EightFrom(w, 25) \in Nat /\ EightFrom(w, 25) >= 13
    <3>1. /\ w[25] \in Nat /\ w[25] = 3
          /\ w[26] \in Nat /\ w[26] = 3
          /\ w[27] \in Nat /\ w[27] = 2
          /\ w[28] \in Nat /\ w[28] = 2
          /\ w[29] \in Nat /\ w[29] = 3
          /\ w[30] \in Nat
          /\ w[31] \in Nat
          /\ w[32] \in Nat
      BY <1>6, <2>2
    <3> QED
      BY <3>1 DEF EightFrom
  <2> QED
    BY <2>1, <2>3, <2>4, <2>5, <2>6, <2>7
<1>10. Earned(R, 30..32) >= 7
  <2> DEFINE w == [n \in 1..32 |-> IF n \in 30..32 THEN R[n].score ELSE 0]
  <2>1. PICK f : Sums(w, 32, f) /\ Earned(R, 30..32) = f[32]
    BY <1>0, EarnedSum
  <2>2. \A n \in 1..32 : w[n] \in Nat /\ (n \in 30..32 => w[n] = R[n].score)
    BY <1>2
  <2> HIDE DEF w
  <2>3. f[32] = EightFrom(w, 1) + EightFrom(w, 9) + EightFrom(w, 17) + EightFrom(w, 25)
    BY <2>1, <2>2, SumOfRows
  <2>4. EightFrom(w, 1) \in Nat /\ EightFrom(w, 1) >= 0
    <3>1. /\ w[1] \in Nat
          /\ w[2] \in Nat
          /\ w[3] \in Nat
          /\ w[4] \in Nat
          /\ w[5] \in Nat
          /\ w[6] \in Nat
          /\ w[7] \in Nat
          /\ w[8] \in Nat
      BY <1>3, <2>2
    <3> QED
      BY <3>1 DEF EightFrom
  <2>5. EightFrom(w, 9) \in Nat /\ EightFrom(w, 9) >= 0
    <3>1. /\ w[9] \in Nat
          /\ w[10] \in Nat
          /\ w[11] \in Nat
          /\ w[12] \in Nat
          /\ w[13] \in Nat
          /\ w[14] \in Nat
          /\ w[15] \in Nat
          /\ w[16] \in Nat
      BY <1>4, <2>2
    <3> QED
      BY <3>1 DEF EightFrom
  <2>6. EightFrom(w, 17) \in Nat /\ EightFrom(w, 17) >= 0
    <3>1. /\ w[17] \in Nat
          /\ w[18] \in Nat
          /\ w[19] \in Nat
          /\ w[20] \in Nat
          /\ w[21] \in Nat
          /\ w[22] \in Nat
          /\ w[23] \in Nat
          /\ w[24] \in Nat
      BY <1>5, <2>2
    <3> QED
      BY <3>1 DEF EightFrom
  <2>7. EightFrom(w, 25) \in Nat /\ EightFrom(w, 25) >= 7
    <3>1. /\ w[25] \in Nat
          /\ w[26] \in Nat
          /\ w[27] \in Nat
          /\ w[28] \in Nat
          /\ w[29] \in Nat
          /\ w[30] \in Nat /\ w[30] = 1
          /\ w[31] \in Nat /\ w[31] = 3
          /\ w[32] \in Nat /\ w[32] = 3
      BY <1>6, <2>2
    <3> QED
      BY <3>1 DEF EightFrom
  <2> QED
    BY <2>1, <2>3, <2>4, <2>5, <2>6, <2>7
<1>11. Earned(R, 1..32) >= 84
  <2> DEFINE w == [n \in 1..32 |-> IF n \in 1..32 THEN R[n].score ELSE 0]
  <2>1. PICK f : Sums(w, 32, f) /\ Earned(R, 1..32) = f[32]
    BY <1>0, EarnedSum
  <2>2. \A n \in 1..32 : w[n] \in Nat /\ (n \in 1..32 => w[n] = R[n].score)
    BY <1>2
  <2> HIDE DEF w
  <2>3. f[32] = EightFrom(w, 1) + EightFrom(w, 9) + EightFrom(w, 17) + EightFrom(w, 25)
    BY <2>1, <2>2, SumOfRows
  <2>4. EightFrom(w, 1) \in Nat /\ EightFrom(w, 1) >= 22
    <3>1. /\ w[1] \in Nat /\ w[1] = 3
          /\ w[2] \in Nat
          /\ w[3] \in Nat /\ w[3] = 4
          /\ w[4] \in Nat
          /\ w[5] \in Nat /\ w[5] = 4
          /\ w[6] \in Nat /\ w[6] = 4
          /\ w[7] \in Nat /\ w[7] = 4
          /\ w[8] \in Nat /\ w[8] = 3
      BY <1>3, <2>2
    <3> QED
      BY <3>1 DEF EightFrom
  <2>5. EightFrom(w, 9) \in Nat /\ EightFrom(w, 9) >= 25
    <3>1. /\ w[9] \in Nat /\ w[9] = 2
          /\ w[10] \in Nat /\ w[10] = 4
          /\ w[11] \in Nat /\ w[11] = 2
          /\ w[12] \in Nat /\ w[12] = 4
          /\ w[13] \in Nat /\ w[13] = 5
          /\ w[14] \in Nat /\ w[14] = 3
          /\ w[15] \in Nat
          /\ w[16] \in Nat /\ w[16] = 5
      BY <1>4, <2>2
    <3> QED
      BY <3>1 DEF EightFrom
  <2>6. EightFrom(w, 17) \in Nat /\ EightFrom(w, 17) >= 17
    <3>1. /\ w[17] \in Nat
          /\ w[18] \in Nat /\ w[18] = 3
          /\ w[19] \in Nat /\ w[19] = 3
          /\ w[20] \in Nat /\ w[20] = 2
          /\ w[21] \in Nat
          /\ w[22] \in Nat /\ w[22] = 4
          /\ w[23] \in Nat /\ w[23] = 3
          /\ w[24] \in Nat /\ w[24] = 2
      BY <1>5, <2>2
    <3> QED
      BY <3>1 DEF EightFrom
  <2>7. EightFrom(w, 25) \in Nat /\ EightFrom(w, 25) >= 20
    <3>1. /\ w[25] \in Nat /\ w[25] = 3
          /\ w[26] \in Nat /\ w[26] = 3
          /\ w[27] \in Nat /\ w[27] = 2
          /\ w[28] \in Nat /\ w[28] = 2
          /\ w[29] \in Nat /\ w[29] = 3
          /\ w[30] \in Nat /\ w[30] = 1
          /\ w[31] \in Nat /\ w[31] = 3
          /\ w[32] \in Nat /\ w[32] = 3
      BY <1>6, <2>2
    <3> QED
      BY <3>1 DEF EightFrom
  <2> QED
    BY <2>1, <2>3, <2>4, <2>5, <2>6, <2>7
<1> QED
  BY <1>7, <1>8, <1>9, <1>10, <1>11 DEF R

LEMMA ScoringClean ==
    ASSUME NEW co \in BOOLEAN, NEW p, Topmost(ScoringLadder, p)
    PROVE  Quiet(ScoringIssues(ScoringFile(co, At(ScoringLadder, p))))
<1> DEFINE c == ScoringFile(co, At(ScoringLadder, p))
           R == ScoreRows(c)
           I == ScoringIssues(c)
<1>1. /\ \A n \in (1..32) \ {2, 4, 15, 17, 21} : Full(n, R[n])
      /\ \A n \in {2, 15} : Idle(R[n])
      /\ \A n \in {4, 17, 21} : Full(n, R[n]) \/ Idle(R[n])
  BY FirstRows
<1>2. /\ Earned(R, 1..13) >= 39 /\ Earned(R, 14..24) >= 25
      /\ Earned(R, 25..29) >= 13 /\ Earned(R, 30..32) >= 7 /\ Earned(R, 1..32) >= 84
  BY FirstEarned
<1>3. \A A : Earned(R, A) \in Int
  <2>1. \A n \in 1..32 : R[n].score \in Int /\ R[n].score <= R[n].score
    <3> HIDE DEF R
    <3> QED
      BY <1>1, PointsAdd DEF Full, Idle
  <2> HIDE DEF R
  <2> QED
    BY <2>1, EarnedOrdered
<1> HIDE DEF c
<1>4. /\ DOMAIN I = RulesOfScoring
      /\ \A n \in 1..32 : I[<<"row", n>>] = RowIssue(n, R[n])
      /\ \A s \in DOMAIN SECTIONS :
            I[<<"section", s>>] = "CRITICAL" <=> 100 * Earned(R, RowsOf(s)) < 50 * SECTIONS[s]
      /\ I[<<"grade", "all">>] = "CRITICAL" <=> Earned(R, Rows) < 60
  BY ScoringCritical
<1> HIDE DEF R, I
<1>5. ASSUME NEW n \in 1..32
      PROVE  RowIssue(n, R[n]) # "CRITICAL"
  <2>1. R[n].status # "FAIL" /\ (n \in {25, 26} => R[n].status # "PENDING")
    BY <1>1 DEF Full, Idle
  <2> QED
    BY <2>1, RowCritical
<1>6. ASSUME NEW s \in DOMAIN SECTIONS
      PROVE  ~(100 * Earned(R, RowsOf(s)) < 50 * SECTIONS[s])
  <2>1. s \in {"A", "B", "C", "D"} /\ SECTIONS["A"] = 45 /\ SECTIONS["B"] = 35
        /\ SECTIONS["C"] = 13 /\ SECTIONS["D"] = 7
    BY DEF SECTIONS
  <2>2. /\ Earned(R, RowsOf("A")) >= 39 /\ Earned(R, RowsOf("B")) >= 25
        /\ Earned(R, RowsOf("C")) >= 13 /\ Earned(R, RowsOf("D")) >= 7
    BY <1>2, SectionsOfRows
  <2> DEFINE e(x) == Earned(R, RowsOf(x))
  <2>3. \A x : e(x) \in Int
    BY <1>3
  <2> HIDE DEF e
  <2>4. CASE s = "A"
    BY <2>1, <2>2, <2>3, <2>4 DEF e
  <2>5. CASE s = "B"
    BY <2>1, <2>2, <2>3, <2>5 DEF e
  <2>6. CASE s = "C"
    BY <2>1, <2>2, <2>3, <2>6 DEF e
  <2>7. CASE s = "D"
    BY <2>1, <2>2, <2>3, <2>7 DEF e
  <2> QED
    BY <2>1, <2>4, <2>5, <2>6, <2>7
<1>7. ~(Earned(R, Rows) < 60)
  BY <1>2, <1>3 DEF Rows
<1>8. ASSUME NEW r \in RulesOfScoring
      PROVE  I[r] # "CRITICAL"
  <2>1. CASE \E n \in 1..32 : r = <<"row", n>>
    BY <1>4, <1>5, <2>1
  <2>2. CASE \E s \in DOMAIN SECTIONS : r = <<"section", s>>
    BY <1>4, <1>6, <2>2
  <2>3. CASE r = <<"grade", "all">>
    BY <1>4, <1>7, <2>3
  <2> QED
    BY <2>1, <2>2, <2>3, RuleKinds
<1> QED
  BY <1>4, <1>8 DEF Quiet, I, c

(***************************************************************************)
(* The runs of the levels                                                  *)
(***************************************************************************)
LEMMA LadderRungs == \A l \in DOMAIN Ladder : \A x \in DOMAIN Ladder[l] : Rungs(Ladder[l][x])
<1> DEFINE Climbable(s) == \A x \in DOMAIN s : Rungs(s[x])
<1>1. /\ Climbable(AddressLadder(OwnBills \o <<Bills(<<"coapp">>, << >>)>> \o BillsOfOthers))
      /\ Climbable(AddressLadder(OwnBills \o BillsOfOthers))
  BY BillRungs, AddressRungs
<1>2. /\ Climbable(CreditLadder) /\ Climbable(BankingLadder) /\ Climbable(VisionLadder)
      /\ Climbable(AgreementLadder) /\ Climbable(DocumentLadder) /\ Climbable(ScoringLadder)
      /\ Climbable(CamLadder) /\ Climbable(DocumentCounts) /\ Climbable(PhaseOneLadder)
  BY CreditRungs, BankingRungs, VisionRungs, AgreementRungs, DocumentRungs, ScoringRungs,
     CamRungs, CountRungs, PhaseOneRungs
<1> HIDE DEF Climbable
<1>3. \A l \in DOMAIN Ladder : Climbable(Ladder[l])
  BY <1>1, <1>2 DEF Ladder
<1> QED
  BY <1>3 DEF Climbable

LEMMA VerdictIsKnown == \A l, f, off : Outcome(l, f, off) \in {"PASSED", "BLOCKED"}
<1>1. \A ok : Passes(ok) \in {"PASSED", "BLOCKED"}
  BY DEF Passes
<1>2. \A issues : LevelVerdict(issues) \in {"PASSED", "BLOCKED"}
  BY DEF LevelVerdict
<1> QED
  BY <1>1, <1>2 DEF Outcome

LEMMA LevelsInit == Init => TypeOK
<1> SUFFICES ASSUME Init PROVE TypeOK
  OBVIOUS
<1>1. level \in DOMAIN Ladder /\ MaxChanges[level] \in Nat
  BY MaxChangesAssumption DEF Init
<1>2. DOMAIN pos = Fields /\ \A x \in Fields : pos[x] \in DOMAIN Ladder[level][x]
  <2>1. \A x \in Fields : Rungs(Ladder[level][x])
    BY <1>1, LadderRungs DEF Fields
  <2>2. CASE pos = [x \in Fields |-> 1]
    BY <2>1, <2>2 DEF Rungs
  <2>3. CASE pos = [x \in Fields |-> Len(Ladder[level][x])]
    BY <2>1, <2>3 DEF Rungs
  <2> QED
    BY <2>2, <2>3 DEF Init
<1>3. verdict \in {"PASSED", "BLOCKED"} /\ changes = 0
  BY VerdictIsKnown DEF Init
<1> QED
  BY <1>1, <1>2, <1>3 DEF TypeOK

LEMMA LevelsNext == TypeOK /\ [Next]_vars => TypeOK'
<1> SUFFICES ASSUME TypeOK, [Next]_vars PROVE TypeOK'
  OBVIOUS
<1>1. level \in DOMAIN Ladder /\ MaxChanges[level] \in Nat
  BY MaxChangesAssumption DEF TypeOK
<1>2. ASSUME NEW p, NEW off, run_level(p, off), Next, DOMAIN p = Fields,
             \A x \in Fields : p[x] \in DOMAIN Ladder[level][x]
      PROVE  TypeOK'
  <2>1. level' = level /\ Fields' = Fields
    BY <1>2 DEF run_level, Fields
  <2>2. verdict' \in {"PASSED", "BLOCKED"}
    BY <1>2, VerdictIsKnown DEF run_level
  <2>3. changes' = changes + 1 /\ changes < MaxChanges[level] /\ changes \in 0..MaxChanges[level]
    BY <1>2 DEF run_level, Next, TypeOK
  <2>4. changes' \in 0..MaxChanges[level]
    BY <1>1, <2>3
  <2>5. pos' = p
    BY <1>2 DEF run_level
  <2> QED
    BY <1>1, <1>2, <2>1, <2>2, <2>4, <2>5 DEF TypeOK
<1>3. ASSUME Next, NEW x \in Fields, NEW p \in DOMAIN Ladder[level][x],
             run_level([pos EXCEPT ![x] = p], suppressed)
      PROVE  TypeOK'
  <2> DEFINE q == [pos EXCEPT ![x] = p]
  <2>1. DOMAIN q = Fields /\ \A y \in Fields : q[y] \in DOMAIN Ladder[level][y]
    BY DEF TypeOK
  <2> HIDE DEF q
  <2> QED
    BY <1>2, <1>3, <2>1 DEF q
<1>4. ASSUME Next, NEW off, run_level(pos, off)
      PROVE  TypeOK'
  BY <1>2, <1>4 DEF TypeOK
<1>5. CASE Next
  BY <1>3, <1>4, <1>5
  DEF Next, Worsens, Improves, upsert_rule_override, clear_rule_override
<1>6. CASE UNCHANGED vars
  BY <1>6 DEF vars, TypeOK, Fields
<1> QED
  BY <1>5, <1>6

LEMMA FileIsContext ==
    ASSUME TypeOK, level \in {"scoring", "scoring_alone"}
    PROVE  IsContext(ScoringFile(level = "scoring", File))
<1> DEFINE f == File
           c == ScoringFile(level = "scoring", f)
<1>1. Ladder[level] = ScoringLadder
  BY DEF Ladder
<1>2. \A x \in DOMAIN ScoringLadder :
         /\ x \in DOMAIN f /\ f[x] = ScoringLadder[x][pos[x]]
         /\ pos[x] \in DOMAIN ScoringLadder[x]
  BY <1>1 DEF File, FileAt, Fields, TypeOK
<1>3. {"enquiries", "foir", "balance", "l1", "gps"} \subseteq DOMAIN ScoringLadder
  BY DEF ScoringLadder
<1>4. /\ ScoringLadder.enquiries = <<1, -1, 5>>
      /\ ScoringLadder.foir = <<30, 45, -1, 60>>
      /\ ScoringLadder.balance = <<20000, 9000, -1, 1000>>
      /\ ScoringLadder.l1 = <<"approved", "clear", "not_run", "flagged">>
      /\ ScoringLadder.gps = <<"match", "unknown", "mismatch">>
  BY DEF ScoringLadder
<1>5. f["enquiries"] \in Int /\ f["foir"] \in Int /\ f["balance"] \in Int
  <2> HIDE DEF f
  <2> QED
    BY <1>2, <1>3, <1>4
<1>6. f["l1"] \in {"not_run", "flagged", "approved", "clear"}
      /\ f["gps"] \in {"match", "doubtful", "mismatch", "unknown"}
  <2> HIDE DEF f
  <2> QED
    BY <1>2, <1>3, <1>4
<1> HIDE DEF f
<1>7. /\ c.emi = 8000 /\ c.enquiries = f.enquiries /\ c.foir = f.foir
      /\ c.balance = f.balance /\ c.l1 = f.l1 /\ c.gps = f.gps
  BY DEF ScoringFile
<1> HIDE DEF c
<1>8. IsContext(c)
  BY <1>5, <1>6, <1>7 DEF IsContext
<1> QED
  BY <1>8 DEF c, f

(***************************************************************************)
(* The verdict of a level on a worse file and on a clean one               *)
(***************************************************************************)
\* The rules that stand for others: Judging never offers them to the administrator.
StandsFor(l) ==
    CASE l = "credit" -> OfCase
      [] l \in {"scoring", "scoring_alone"} -> {<<"row", 3>>}
      [] OTHER -> StandIns

LEMMA LaddersOf ==
    /\ DOMAIN Ladder = {"address", "address_alone", "credit", "banking", "trade", "service",
                        "dairy", "agreement", "documents", "scoring", "scoring_alone", "cam",
                        "checklist", "autorun", "phase1"}
    /\ Ladder.address = AddressLadder(OwnBills \o <<Bills(<<"coapp">>, << >>)>> \o BillsOfOthers)
    /\ Ladder.address_alone = AddressLadder(OwnBills \o BillsOfOthers)
    /\ Ladder.credit = CreditLadder /\ Ladder.banking = BankingLadder
    /\ Ladder.trade = VisionLadder /\ Ladder.service = VisionLadder
    /\ Ladder.dairy = VisionLadder
    /\ Ladder.agreement = AgreementLadder /\ Ladder.documents = DocumentLadder
    /\ Ladder.scoring = ScoringLadder /\ Ladder.scoring_alone = ScoringLadder
    /\ Ladder.cam = CamLadder /\ Ladder.checklist = DocumentCounts
    /\ Ladder.autorun = DocumentCounts /\ Ladder.phase1 = PhaseOneLadder
<1>1. /\ DOMAIN Ladder = {"address", "address_alone", "credit", "banking", "trade", "service",
                          "dairy", "agreement", "documents", "scoring", "scoring_alone", "cam",
                          "checklist", "autorun", "phase1"}
      /\ Ladder.address = AddressLadder(OwnBills \o <<Bills(<<"coapp">>, << >>)>> \o BillsOfOthers)
      /\ Ladder.address_alone = AddressLadder(OwnBills \o BillsOfOthers)
  BY DEF Ladder
<1>2. /\ Ladder.credit = CreditLadder /\ Ladder.banking = BankingLadder
      /\ Ladder.trade = VisionLadder /\ Ladder.service = VisionLadder
      /\ Ladder.dairy = VisionLadder
  BY DEF Ladder
<1>3. /\ Ladder.agreement = AgreementLadder /\ Ladder.documents = DocumentLadder
      /\ Ladder.scoring = ScoringLadder /\ Ladder.scoring_alone = ScoringLadder
  BY DEF Ladder
<1>4. /\ Ladder.cam = CamLadder /\ Ladder.checklist = DocumentCounts
      /\ Ladder.autorun = DocumentCounts /\ Ladder.phase1 = PhaseOneLadder
  BY DEF Ladder
<1> QED
  BY <1>1, <1>2, <1>3, <1>4

\* The levels whose rules fire issues an administrator can switch off.
Ruled == DOMAIN Ladder \ Unruled

LEMMA RuledLevels ==
    ASSUME NEW l \in Ruled
    PROVE  \/ l = "address" \/ l = "address_alone" \/ l = "credit" \/ l = "banking"
           \/ l = "trade" \/ l = "service" \/ l = "dairy" \/ l = "agreement"
           \/ l = "documents" \/ l = "scoring" \/ l = "scoring_alone"
BY LaddersOf DEF Ruled, Unruled

LEMMA KeptByMore ==
    ASSUME NEW I, NEW J, Kept(I, J, {}), NEW stand
    PROVE  Kept(I, J, stand)
BY DEF Kept

\* Whatever the level: what was critical in the file stays so in a worse one, or a rule
\* that stands for it is critical.
LEMMA IssuesKept ==
    ASSUME NEW l \in Ruled, NEW p, NEW q, Below(Ladder[l], p, q)
    PROVE  Kept(Issues(l, At(Ladder[l], p)), Issues(l, At(Ladder[l], q)), StandsFor(l))
<1>1. CASE l = "address"
  <2> DEFINE bills == OwnBills \o <<Bills(<<"coapp">>, << >>)>> \o BillsOfOthers
  <2>1. Ladder[l] = AddressLadder(bills) /\ BillsFor(TRUE, 4, bills)
    BY <1>1, LaddersOf, BillsOfLadders
  <2> HIDE DEF bills
  <2>2. Kept(AddressIssues(TRUE, At(Ladder[l], p)), AddressIssues(TRUE, At(Ladder[l], q)), {})
    BY <2>1, AddressKept
  <2>3. \A f : Issues(l, f) = AddressIssues(TRUE, f)
    BY <1>1 DEF Issues
  <2> QED
    BY <2>2, <2>3, KeptByMore
<1>2. CASE l = "address_alone"
  <2> DEFINE bills == OwnBills \o BillsOfOthers
  <2>1. Ladder[l] = AddressLadder(bills) /\ BillsFor(FALSE, 3, bills)
    BY <1>2, LaddersOf, BillsOfLadders
  <2> HIDE DEF bills
  <2>2. Kept(AddressIssues(FALSE, At(Ladder[l], p)), AddressIssues(FALSE, At(Ladder[l], q)), {})
    BY <2>1, AddressKept
  <2>3. \A f : Issues(l, f) = AddressIssues(FALSE, f)
    BY <1>2 DEF Issues
  <2> QED
    BY <2>2, <2>3, KeptByMore
<1>3. CASE l = "credit"
  <2>1. Ladder[l] = CreditLadder /\ StandsFor(l) = OfCase
    BY <1>3, LaddersOf DEF StandsFor
  <2>2. \A f : Issues(l, f) = CreditIssues(CreditFile(f))
    BY <1>3 DEF Issues
  <2> QED
    BY <2>1, <2>2, CreditKept
<1>4. CASE l = "banking"
  <2>1. Ladder[l] = BankingLadder /\ StandsFor(l) = StandIns
    BY <1>4, LaddersOf DEF StandsFor
  <2>2. \A f : Issues(l, f) = BankingIssues(BankingFile(f))
    BY <1>4 DEF Issues
  <2> QED
    BY <2>1, <2>2, BankingKept
<1>5. CASE l \in {"trade", "service", "dairy"}
  <2> DEFINE type == IF l = "dairy" THEN "cattle_dairy" ELSE l
  <2>1. Ladder[l] = VisionLadder /\ StandsFor(l) = StandIns
    BY <1>5, LaddersOf DEF StandsFor
  <2>2. \A f : Issues(l, f) = VisionIssues(VisionFile(type, f))
    BY <1>5 DEF Issues
  <2> HIDE DEF type
  <2> QED
    BY <2>1, <2>2, VisionKept
<1>6. CASE l = "agreement"
  <2>1. Ladder[l] = AgreementLadder /\ StandsFor(l) = StandIns
    BY <1>6, LaddersOf DEF StandsFor
  <2>2. \A f : Issues(l, f) = AgreementIssues(AgreementFile(f))
    BY <1>6 DEF Issues
  <2> QED
    BY <2>1, <2>2, AgreementKept
<1>7. CASE l = "documents"
  <2>1. Ladder[l] = DocumentLadder /\ StandsFor(l) = StandIns
    BY <1>7, LaddersOf DEF StandsFor
  <2>2. \A f : Issues(l, f) = DedupeTvrIssues(DocumentFile(f))
    BY <1>7 DEF Issues
  <2> QED
    BY <2>1, <2>2, DocumentKept
<1>8. CASE l \in {"scoring", "scoring_alone"}
  <2> DEFINE co == l = "scoring"
  <2>1. Ladder[l] = ScoringLadder /\ StandsFor(l) = {<<"row", 3>>}
    BY <1>8, LaddersOf DEF StandsFor
  <2>2. \A f : Issues(l, f) = ScoringIssues(ScoringFile(co, f))
    BY <1>8 DEF Issues
  <2>3. co \in BOOLEAN
    OBVIOUS
  <2> HIDE DEF co
  <2> QED
    BY <2>1, <2>2, <2>3, ScoringKept
<1> QED
  BY <1>1, <1>2, <1>3, <1>4, <1>5, <1>6, <1>7, <1>8, RuledLevels

\* No rule of a clean file is critical.
LEMMA IssuesQuiet ==
    ASSUME NEW l \in Ruled, NEW p, Topmost(Ladder[l], p)
    PROVE  Quiet(Issues(l, At(Ladder[l], p)))
<1>1. CASE l = "address"
  <2> DEFINE bills == OwnBills \o <<Bills(<<"coapp">>, << >>)>> \o BillsOfOthers
  <2>1. Ladder[l] = AddressLadder(bills) /\ BillsFor(TRUE, 4, bills)
    BY <1>1, LaddersOf, BillsOfLadders
  <2> HIDE DEF bills
  <2>2. Quiet(AddressIssues(TRUE, At(Ladder[l], p)))
    <3>1. TRUE \in BOOLEAN /\ 4 > 0
      OBVIOUS
    <3> QED
      BY <2>1, <3>1, AddressClean
  <2>3. \A f : Issues(l, f) = AddressIssues(TRUE, f)
    BY <1>1 DEF Issues
  <2> QED
    BY <2>2, <2>3
<1>2. CASE l = "address_alone"
  <2> DEFINE bills == OwnBills \o BillsOfOthers
  <2>1. Ladder[l] = AddressLadder(bills) /\ BillsFor(FALSE, 3, bills)
    BY <1>2, LaddersOf, BillsOfLadders
  <2> HIDE DEF bills
  <2>2. Quiet(AddressIssues(FALSE, At(Ladder[l], p)))
    <3>1. FALSE \in BOOLEAN /\ 3 > 0
      OBVIOUS
    <3> QED
      BY <2>1, <3>1, AddressClean
  <2>3. \A f : Issues(l, f) = AddressIssues(FALSE, f)
    BY <1>2 DEF Issues
  <2> QED
    BY <2>2, <2>3
<1>3. CASE l = "credit"
  <2>1. Ladder[l] = CreditLadder
    BY <1>3, LaddersOf
  <2>2. \A f : Issues(l, f) = CreditIssues(CreditFile(f))
    BY <1>3 DEF Issues
  <2> QED
    BY <2>1, <2>2, CreditClean
<1>4. CASE l = "banking"
  <2>1. Ladder[l] = BankingLadder
    BY <1>4, LaddersOf
  <2>2. \A f : Issues(l, f) = BankingIssues(BankingFile(f))
    BY <1>4 DEF Issues
  <2> QED
    BY <2>1, <2>2, BankingClean
<1>5. CASE l \in {"trade", "service", "dairy"}
  <2> DEFINE type == IF l = "dairy" THEN "cattle_dairy" ELSE l
  <2>1. Ladder[l] = VisionLadder
    BY <1>5, LaddersOf
  <2>2. \A f : Issues(l, f) = VisionIssues(VisionFile(type, f))
    BY <1>5 DEF Issues
  <2> HIDE DEF type
  <2> QED
    BY <2>1, <2>2, VisionClean
<1>6. CASE l = "agreement"
  <2>1. Ladder[l] = AgreementLadder
    BY <1>6, LaddersOf
  <2>2. \A f : Issues(l, f) = AgreementIssues(AgreementFile(f))
    BY <1>6 DEF Issues
  <2> QED
    BY <2>1, <2>2, AgreementClean
<1>7. CASE l = "documents"
  <2>1. Ladder[l] = DocumentLadder
    BY <1>7, LaddersOf
  <2>2. \A f : Issues(l, f) = DedupeTvrIssues(DocumentFile(f))
    BY <1>7 DEF Issues
  <2> QED
    BY <2>1, <2>2, DocumentClean
<1>8. CASE l \in {"scoring", "scoring_alone"}
  <2> DEFINE co == l = "scoring"
  <2>1. Ladder[l] = ScoringLadder
    BY <1>8, LaddersOf
  <2>2. \A f : Issues(l, f) = ScoringIssues(ScoringFile(co, f))
    BY <1>8 DEF Issues
  <2>3. co \in BOOLEAN
    OBVIOUS
  <2> HIDE DEF co
  <2> QED
    BY <2>1, <2>2, <2>3, ScoringClean
<1> QED
  BY <1>1, <1>2, <1>3, <1>4, <1>5, <1>6, <1>7, <1>8, RuledLevels

LEMMA KeptBlocks ==
    ASSUME NEW I, NEW J, NEW stand, Kept(I, J, stand), NEW off, off \cap stand = {},
           LevelVerdict(filter_suppressed_issues(I, off)) = "BLOCKED"
    PROVE  LevelVerdict(filter_suppressed_issues(J, off)) = "BLOCKED"
<1>1. PICK r \in DOMAIN I : I[r] = "CRITICAL" /\ r \notin off
  BY DEF LevelVerdict, filter_suppressed_issues
<1>2. PICK s \in DOMAIN J : J[s] = "CRITICAL" /\ s \notin off
  BY <1>1 DEF Kept
<1>3. /\ s \in DOMAIN filter_suppressed_issues(J, off)
      /\ filter_suppressed_issues(J, off)[s] = "CRITICAL"
  BY <1>2 DEF filter_suppressed_issues
<1> QED
  BY <1>3 DEF LevelVerdict

LEMMA QuietPasses ==
    ASSUME NEW I, Quiet(I), NEW off
    PROVE  LevelVerdict(I) = "PASSED" /\ LevelVerdict(filter_suppressed_issues(I, off)) = "PASSED"
BY DEF Quiet, LevelVerdict, filter_suppressed_issues

\* The verdict on a worse file is no better, unless a rule that stands for others is off.
LEMMA OutcomeWorse ==
    ASSUME NEW l \in DOMAIN Ladder, NEW p, NEW q, Below(Ladder[l], p, q),
           NEW off, off \cap StandsFor(l) = {},
           Outcome(l, At(Ladder[l], p), off) = "BLOCKED"
    PROVE  Outcome(l, At(Ladder[l], q), off) = "BLOCKED"
<1> DEFINE f == At(Ladder[l], p)
           g == At(Ladder[l], q)
<1>1. CASE l \in Ruled
  <2>1. \A x : Outcome(l, x, off) = LevelVerdict(filter_suppressed_issues(Issues(l, x), off))
    BY <1>1 DEF Ruled, Unruled, Outcome
  <2>2. Kept(Issues(l, f), Issues(l, g), StandsFor(l))
    BY <1>1, IssuesKept
  <2> HIDE DEF f, g
  <2>3. Outcome(l, f, off) = "BLOCKED"
    BY DEF f
  <2>4. Outcome(l, g, off) = "BLOCKED"
    BY <2>1, <2>2, <2>3, KeptBlocks
  <2> QED
    BY <2>4 DEF g
<1>2. CASE l = "phase1"
  <2>1. \A x : Outcome(l, x, off) = IF Decision(x) = "APPROVE" THEN "PASSED" ELSE "BLOCKED"
    BY <1>2 DEF Outcome, Passes
  <2>2. Decision(g) = "APPROVE" => Decision(f) = "APPROVE"
    BY <1>2, LaddersOf, DecisionWorse
  <2> HIDE DEF f, g
  <2>3. Outcome(l, f, off) = "BLOCKED"
    BY DEF f
  <2>4. Outcome(l, g, off) = "BLOCKED"
    BY <2>1, <2>2, <2>3
  <2> QED
    BY <2>4 DEF g
<1>3. CASE l = "cam"
  <2>1. \A x : Outcome(l, x, off) = LevelVerdict(detect_discrepancies(x))
    BY <1>3 DEF Outcome
  <2>2. Kept(detect_discrepancies(f), detect_discrepancies(g), {})
    BY <1>3, LaddersOf, CamKept
  <2> HIDE DEF f, g
  <2>3. Outcome(l, f, off) = "BLOCKED"
    BY DEF f
  <2>4. LevelVerdict(detect_discrepancies(g)) = "BLOCKED"
    BY <2>1, <2>2, <2>3 DEF Kept, LevelVerdict
  <2> QED
    BY <2>1, <2>4 DEF g
<1>4. CASE l = "checklist"
  <2>1. \A x : Outcome(l, x, off) = IF validate_completeness(x) = {} THEN "PASSED" ELSE "BLOCKED"
    BY <1>4 DEF Outcome, Passes
  <2>2. validate_completeness(g) = {} => validate_completeness(f) = {}
    BY <1>4, LaddersOf, ChecklistWorse
  <2> HIDE DEF f, g
  <2>3. Outcome(l, f, off) = "BLOCKED"
    BY DEF f
  <2>4. Outcome(l, g, off) = "BLOCKED"
    BY <2>1, <2>2, <2>3
  <2> QED
    BY <2>4 DEF g
<1>5. CASE l = "autorun"
  <2> DEFINE missing(x) == compute_missing_required_artifacts(x, x["coapp"])
  <2>1. \A x : Outcome(l, x, off) = IF missing(x) = {} THEN "PASSED" ELSE "BLOCKED"
    BY <1>5 DEF Outcome, Passes
  <2>2. missing(g) = {} => missing(f) = {}
    BY <1>5, LaddersOf, AutoRunWorse
  <2> HIDE DEF f, g, missing
  <2>3. Outcome(l, f, off) = "BLOCKED"
    BY DEF f
  <2>4. Outcome(l, g, off) = "BLOCKED"
    BY <2>1, <2>2, <2>3
  <2> QED
    BY <2>4 DEF g
<1> QED
  BY <1>1, <1>2, <1>3, <1>4, <1>5 DEF Ruled, Unruled

LEMMA OutcomeClean ==
    ASSUME NEW l \in DOMAIN Ladder, NEW p, Topmost(Ladder[l], p), NEW off
    PROVE  Outcome(l, At(Ladder[l], p), off) = "PASSED"
<1> DEFINE f == At(Ladder[l], p)
<1>1. CASE l \in Ruled
  <2>1. Outcome(l, f, off) = LevelVerdict(filter_suppressed_issues(Issues(l, f), off))
    BY <1>1 DEF Ruled, Unruled, Outcome
  <2>2. Quiet(Issues(l, f))
    BY <1>1, IssuesQuiet
  <2> QED
    BY <2>1, <2>2, QuietPasses
<1>2. CASE l = "phase1"
  <2>1. Decision(f) = "APPROVE"
    BY <1>2, LaddersOf, CleanApproved DEF Topmost
  <2> QED
    BY <1>2, <2>1 DEF Outcome, Passes
<1>3. CASE l = "cam"
  <2>1. Quiet(detect_discrepancies(f))
    BY <1>3, LaddersOf, CamClean
  <2> QED
    BY <1>3, <2>1, QuietPasses DEF Outcome
<1>4. CASE l \in {"checklist", "autorun"}
  <2>1. Ladder[l] = DocumentCounts
    BY <1>4, LaddersOf
  <2>2. /\ validate_completeness(f) = {}
        /\ compute_missing_required_artifacts(f, f["coapp"]) = {}
    BY <2>1, BundleComplete DEF Topmost
  <2> QED
    BY <1>4, <2>2 DEF Outcome, Passes
<1> QED
  BY <1>1, <1>2, <1>3, <1>4 DEF Ruled, Unruled

\* The verdict is of the file and the overrides as they are, and no rule that stands for
\* others is overridden.
Judged ==
    /\ TypeOK
    /\ verdict = Outcome(level, File, suppressed)
    /\ suppressed \cap StandsFor(level) = {}

LEMMA JudgingAllowed == Judging \cap StandsFor(level) = {}
<1>1. CASE level \in Unruled
  BY <1>1 DEF Judging, Unruled
<1>2. CASE level = "credit"
  <2>1. \A r \in OfCase : r[1] = "case"
    BY DEF OfCase
  <2> QED
    BY <1>2, <2>1 DEF Judging, StandsFor, Unruled
<1>3. CASE level \in {"scoring", "scoring_alone"}
  <2>1. Judging = Fired(Issues(level, File)) \ {<<"row", 3>>}
    BY <1>3 DEF Judging, Unruled
  <2>2. StandsFor(level) = {<<"row", 3>>}
    BY <1>3 DEF StandsFor
  <2> QED
    BY <2>1, <2>2
<1>4. CASE level \notin Unruled \cup {"credit", "scoring", "scoring_alone"}
  <2>1. Judging = Fired(Issues(level, File)) \ StandIns /\ StandsFor(level) = StandIns
    BY <1>4 DEF Judging, StandsFor
  <2> QED
    BY <2>1
<1> QED
  BY <1>1, <1>2, <1>3, <1>4

LEMMA JudgedInit == Init => Judged
<1> SUFFICES ASSUME Init PROVE Judged
  OBVIOUS
<1>1. verdict = Outcome(level, File, suppressed) /\ suppressed = {}
  BY DEF Init, File
<1> QED
  BY <1>1, LevelsInit DEF Judged

LEMMA JudgedNext == Judged /\ [Next]_vars => Judged' /\ level' = level
<1> SUFFICES ASSUME Judged, [Next]_vars PROVE Judged' /\ level' = level
  OBVIOUS
<1>1. TypeOK'
  BY LevelsNext DEF Judged
<1>2. ASSUME NEW p, NEW off, run_level(p, off), off \cap StandsFor(level) = {}
      PROVE  Judged' /\ level' = level
  <2>1. level' = level /\ pos' = p /\ suppressed' = off /\ verdict' = Outcome(level, FileAt(p), off)
    BY <1>2 DEF run_level
  <2>2. File' = FileAt(p)
    BY <2>1 DEF File, FileAt, Fields
  <2> QED
    BY <1>1, <1>2, <2>1, <2>2 DEF Judged
<1>3. suppressed \cap StandsFor(level) = {}
  BY DEF Judged
<1>4. ASSUME NEW x \in Fields, Worsens(x) \/ Improves(x)
      PROVE  Judged' /\ level' = level
  BY <1>2, <1>3, <1>4 DEF Worsens, Improves
<1>5. ASSUME NEW r \in Judging, upsert_rule_override(r)
      PROVE  Judged' /\ level' = level
  <2>1. (suppressed \cup {r}) \cap StandsFor(level) = {}
    BY <1>3, JudgingAllowed
  <2> QED
    BY <1>2, <1>5, <2>1 DEF upsert_rule_override
<1>6. ASSUME NEW r \in suppressed, clear_rule_override(r)
      PROVE  Judged' /\ level' = level
  <2>1. (suppressed \ {r}) \cap StandsFor(level) = {}
    BY <1>3
  <2> QED
    BY <1>2, <1>6, <2>1 DEF clear_rule_override
<1>7. CASE UNCHANGED vars
  BY <1>7, <1>1 DEF vars, Judged, File, FileAt, Fields
<1> QED
  BY <1>4, <1>5, <1>6, <1>7 DEF Next

LEMMA WorseningJudged ==
    ASSUME Judged, Judged', level' = level
    PROVE  WorseningKeepsBlocked
<1> SUFFICES ASSUME suppressed' = suppressed, \A x \in Fields : pos'[x] >= pos[x],
                    verdict = "BLOCKED"
             PROVE  verdict' = "BLOCKED"
  BY DEF WorseningKeepsBlocked
<1> DEFINE L == Ladder[level]
<1>1. level \in DOMAIN Ladder /\ suppressed \cap StandsFor(level) = {}
  BY DEF Judged, TypeOK
<1>2. /\ \A x \in DOMAIN L : pos[x] \in DOMAIN L[x]
      /\ \A x \in DOMAIN L : pos'[x] \in DOMAIN L[x]
      /\ \A x \in DOMAIN L : pos[x] <= pos'[x]
  BY DEF Judged, TypeOK, Fields
<1>3. Below(L, pos, pos')
  BY <1>2 DEF Below
<1>4. File = At(L, pos) /\ File' = At(L, pos')
  BY DEF File, FileAt, Fields, At
<1>5. verdict = Outcome(level, File, suppressed) /\ verdict' = Outcome(level, File', suppressed)
  BY DEF Judged
<1>6. Outcome(level, At(L, pos), suppressed) = "BLOCKED"
  BY <1>4, <1>5
<1>7. Outcome(level, At(L, pos'), suppressed) = "BLOCKED"
  BY <1>1, <1>3, <1>6, OutcomeWorse
<1> QED
  BY <1>4, <1>5, <1>7

LEMMA CleanJudged == Judged => CleanFilePasses
<1> SUFFICES ASSUME Judged, \A x \in Fields : pos[x] = 1 PROVE verdict = "PASSED"
  BY DEF CleanFilePasses
<1>1. level \in DOMAIN Ladder /\ Topmost(Ladder[level], pos)
  BY DEF Judged, TypeOK, Topmost, Fields
<1>2. File = At(Ladder[level], pos)
  BY DEF File, FileAt, Fields, At
<1> QED
  BY <1>1, <1>2, OutcomeClean DEF Judged

(***************************************************************************)
(* What a run shows as passed.  The cards of every file, on or off the     *)
(* ladders, leave out the rules that left an issue and, but for the        *)
(* exceptions, those that had nothing to judge by.                         *)
(***************************************************************************)
LEMMA ShownCards == \A passed, skipped : ShownPassed(Cards(passed, skipped)) = passed
BY DEF ShownPassed, Cards

\* An override takes its rule's issue away, and no other.
LEMMA SuppressedFired ==
    \A issues, off : Fired(filter_suppressed_issues(issues, off)) = Fired(issues) \ off
BY DEF Fired, filter_suppressed_issues

ShownRightly(l, f, left) ==
    LET passed == ShownPassed(Evidence(l, f, left))
    IN passed \cap left = {} /\ passed \cap Unjudged(l, f) \subseteq ShownAnyway(l, f)

LEMMA AddressShown ==
    ASSUME NEW l \in {"address", "address_alone"}, NEW f, NEW left
    PROVE  ShownRightly(l, f, left)
<1> DEFINE e == AddressEvidenceFile(l = "address", f)
           passed == ShownPassed(build_pass_evidence_l1(e, left))
<1>1. Evidence(l, f, left) = build_pass_evidence_l1(e, left)
  BY DEF Evidence
<1>2. /\ e.coAddress = IF l = "address" THEN f.coAddress ELSE "missing"
      /\ e.kind = f.places.gps.kind /\ e.bill = BillOf(l = "address", f)
      /\ e.bureau = outside_addresses(f.bureau)
      /\ e.minutes = IF f.places.dm = "ok" THEN f.places.minutes ELSE "unknown"
  BY DEF AddressEvidenceFile
<1>3. Unjudged(l, f) =
        Only("coapp_address", l = "address_alone" \/ f.coAddress = "missing")
        \cup Only("gps_vs_aadhaar", f.places.gps.kind = "no_coords")
        \cup Only("commute", f.places.dm \in {"unasked", "error"})
        \cup Only("ration_owner_rule", BillOf(l = "address", f).owner = NoName)
        \cup Only("bureau_bank", outside_addresses(f.bureau) = {})
  BY DEF Unjudged
<1> HIDE DEF e
<1>4. passed \cap left = {}
  BY ShownCards DEF build_pass_evidence_l1
<1>5. /\ e.coAddress = "missing" => "coapp_address" \notin passed
      /\ e.kind = "no_coords" => "gps_vs_aadhaar" \notin passed
      /\ e.minutes # "near" => "commute" \notin passed
      /\ e.bill.owner = NoName => "ration_owner_rule" \notin passed
      /\ e.bureau = {} => "bureau_bank" \notin passed
  BY ShownCards DEF build_pass_evidence_l1, Only
<1> HIDE DEF passed
<1>6. passed \cap Unjudged(l, f) = {}
  BY <1>2, <1>3, <1>5 DEF Only
<1> QED
  BY <1>1, <1>4, <1>6 DEF ShownRightly, passed

LEMMA CreditShown ==
    ASSUME NEW f, NEW left
    PROVE  ShownRightly("credit", f, left)
<1> DEFINE file == CreditFile(f)
           floor == <<"applicant", "credit_score_floor">>
           coFloor == <<"co_applicant", "credit_score_floor">>
           verdictOf == <<"case", "opus_credit_verdict">>
           passed == ShownPassed(build_pass_evidence_l1_5(file, left))
<1>1. Evidence("credit", f, left) = build_pass_evidence_l1_5(file, left)
  BY DEF Evidence
<1>2. /\ file.rows = IF f.report THEN <<Report("ravi", f.applicant), Report("asha", f.coapp)>>
                     ELSE << >>
      /\ file.applicant = "ravi" /\ file.coapp = "asha" /\ file.analyst = Analyst(f.analyst)
  BY DEF CreditFile
<1>3. f.analyst = "failed" => file.analyst.failed
  BY DEF CreditFile, Analyst
<1> HIDE DEF file
<1>4. passed \cap left = {}
  BY ShownCards DEF build_pass_evidence_l1_5
<1>5. floor \in passed => HasScore(file, Primary(file))
  BY ShownCards DEF build_pass_evidence_l1_5, Only, Marks
<1>6. coFloor \in passed => HasScore(file, CoReport(file)) /\ coapp_scanned(file)
  BY ShownCards DEF build_pass_evidence_l1_5, Only, Marks
<1>7. verdictOf \in passed => file.rows # << >> /\ ~file.analyst.failed
  BY ShownCards DEF build_pass_evidence_l1_5, Only, Marks
<1>8. passed \cap ({"co_applicant"} \X Marks) # {} => coapp_scanned(file)
  BY ShownCards DEF build_pass_evidence_l1_5, Only, Marks
<1> HIDE DEF passed
<1>9. CASE f.report
  <2>1. Primary(file) = 1 /\ CoReport(file) = 2
    BY <1>2, <1>9, CreditPicked DEF Primary, CoReport
  <2>2. file.rows[1].score = f.applicant.score /\ file.rows[2].score = f.coapp.score
    BY <1>2, <1>9 DEF Report
  <2>3. /\ f.applicant.score = -1 => floor \notin passed
        /\ f.coapp.score = -1 => coFloor \notin passed
    BY <1>5, <1>6, <2>1, <2>2 DEF HasScore
  <2>4. Unjudged("credit", f) =
          Only(floor, f.applicant.score = -1) \cup Only(coFloor, f.coapp.score = -1)
          \cup Only(verdictOf, f.analyst = "failed")
    BY <1>9 DEF Unjudged, Only
  <2>5. passed \cap Unjudged("credit", f) = {}
    BY <1>3, <1>7, <2>3, <2>4 DEF Only
  <2> QED
    BY <1>1, <1>4, <2>5 DEF ShownRightly, passed
<1>10. CASE ~ f.report
  <2>1. file.rows = << >> /\ Primary(file) = 0 /\ CoReport(file) = 0
    BY <1>2, <1>10, CreditUnpicked DEF Primary, CoReport
  <2>2. /\ floor \notin passed /\ coFloor \notin passed /\ verdictOf \notin passed
        /\ passed \cap ({"co_applicant"} \X Marks) = {}
    BY <1>5, <1>6, <1>7, <1>8, <2>1 DEF HasScore, coapp_scanned
  <2>3. Unjudged("credit", f) =
          ({"applicant", "co_applicant"} \X Marks) \cup {floor, coFloor, verdictOf}
    BY <1>10 DEF Unjudged, Only
  <2>4. ShownAnyway("credit", f) = {"applicant"} \X Marks
    BY <1>10 DEF ShownAnyway
  <2>5. passed \cap Unjudged("credit", f) \subseteq ShownAnyway("credit", f)
    BY <2>2, <2>3, <2>4
  <2> QED
    BY <1>1, <1>4, <2>5 DEF ShownRightly, passed
<1> QED
  BY <1>9, <1>10

LEMMA BankingShown ==
    ASSUME NEW f, NEW left
    PROVE  ShownRightly("banking", f, left)
<1> DEFINE b == BankingFile(f)
           passed == ShownPassed(build_pass_evidence_l2(b, left))
           analysed == f.lines /\ ~f.failed
<1>1. Evidence("banking", f, left) = build_pass_evidence_l2(b, left)
  BY DEF Evidence
<1>2. /\ Answered(b) <=> analysed
      /\ b.months = (IF f.lines THEN f.months ELSE -1) /\ b.income = f.income
      /\ b.loan = f.loan
  BY DEF Answered, BankingFile
<1>3. Unjudged("banking", f) =
        (IF analysed THEN {} ELSE OfAnalysis)
        \cup Only("bank_statement_months_coverage", ~f.lines \/ f.months = -1)
        \cup Only("avg_balance_vs_emi", f.loan = 0)
        \cup (IF f.income = 0 THEN OfIncome ELSE {})
  BY DEF Unjudged
<1>4. ShownAnyway("banking", f) =
        IF analysed THEN {}
        ELSE {"nach_bounces", "ca_narrative_concerns", "single_payer_concentration"}
  BY DEF ShownAnyway
<1> HIDE DEF b
<1>5. passed \cap left = {}
  BY ShownCards DEF build_pass_evidence_l2
<1>6. ~ Answered(b)
        => passed \cap {"avg_balance_vs_emi", "credits_vs_declared_income",
                        "impulsive_debit_overspend", "chronic_low_balance"} = {}
  BY ShownCards DEF build_pass_evidence_l2, Only
<1>7. b.months = -1 => "bank_statement_months_coverage" \notin passed
  BY ShownCards DEF build_pass_evidence_l2, Only
<1>8. b.loan = 0 => "avg_balance_vs_emi" \notin passed
  BY ShownCards DEF build_pass_evidence_l2, Only, estimate_proposed_emi_inr
<1>9. b.income = 0 => passed \cap OfIncome = {}
  BY ShownCards DEF build_pass_evidence_l2, Only, OfIncome
<1> HIDE DEF passed, analysed
<1>10. passed \cap Unjudged("banking", f) \subseteq ShownAnyway("banking", f)
  <2>1. CASE analysed
    BY <1>2, <1>3, <1>7, <1>8, <1>9, <2>1 DEF Only
  <2>2. CASE ~ analysed
    <3>1. passed \cap OfAnalysis \subseteq ShownAnyway("banking", f)
      BY <1>2, <1>4, <1>6, <2>2 DEF OfAnalysis
    <3>2. passed \cap (Only("bank_statement_months_coverage", ~f.lines \/ f.months = -1)
                       \cup Only("avg_balance_vs_emi", f.loan = 0)
                       \cup (IF f.income = 0 THEN OfIncome ELSE {})) = {}
      BY <1>2, <1>7, <1>8, <1>9 DEF Only
    <3> QED
      BY <1>3, <2>2, <3>1, <3>2
  <2> QED
    BY <2>1, <2>2
<1> QED
  BY <1>1, <1>5, <1>10 DEF ShownRightly, passed

LEMMA VisionShown ==
    ASSUME NEW l \in {"trade", "service", "dairy"}, NEW f, NEW left
    PROVE  ShownRightly(l, f, left)
<1> DEFINE type == IF l = "dairy" THEN "cattle_dairy" ELSE l
           v == VisionFile(type, f)
           passed == ShownPassed(build_pass_evidence(v, left))
<1>1. Evidence(l, f, left) = build_pass_evidence(v, left)
  BY DEF Evidence
<1>2. v.house = f.house.end /\ v.biz = f.biz /\ v.type = type /\ v.cattle = f.cattle
  BY DEF VisionFile
<1>3. Unjudged(l, f) =
        Only("house_living_condition", f.house.end # "scored")
        \cup (IF f.biz = "scored" THEN {} ELSE OfPremises)
        \cup Only("stock_vs_loan", f.loan = 0)
        \cup Only("loan_amount_reduction", f.loan = 0 \/ f.recommended = 0)
        \cup Only("cattle_health", l # "dairy" \/ f.cattle = 0)
  BY DEF Unjudged
<1>4. ShownAnyway(l, f) =
        Only("house_living_condition", f.house.end # "failed")
        \cup (IF f.biz = "failed" THEN {} ELSE OfPremises \ {"cattle_health"})
  BY DEF ShownAnyway
<1> HIDE DEF v, type
<1>5. passed \cap left = {}
  BY ShownCards DEF build_pass_evidence
<1>6. v.house = "failed" => "house_living_condition" \notin passed
  BY ShownCards DEF build_pass_evidence, Only, HasData
<1>7. v.biz = "failed" => passed \cap OfPremises = {}
  BY ShownCards DEF build_pass_evidence, Only, HasData, build_stock_analysis, OfPremises
<1>8. "cattle_health" \in passed
        => v.biz = "scored" /\ v.type \in {"cattle_dairy", "mixed"} /\ v.cattle > 0
  BY ShownCards DEF build_pass_evidence, Only
<1> HIDE DEF passed
<1>9. v.cattle = 0 \/ l # "dairy" => "cattle_health" \notin passed
  BY <1>2, <1>8 DEF type
<1>10. v.biz # "scored" => "cattle_health" \notin passed
  BY <1>8
<1>11. passed \cap Unjudged(l, f) \subseteq ShownAnyway(l, f)
  BY <1>2, <1>3, <1>4, <1>6, <1>7, <1>9, <1>10 DEF Only, OfPremises
<1> QED
  BY <1>1, <1>5, <1>11 DEF ShownRightly, passed

LEMMA AgreementShown ==
    ASSUME NEW f, NEW left
    PROVE  ShownRightly("agreement", f, left)
<1> DEFINE a == AgreementFile(f)
           read == {"loan_agreement_annexure", "hypothecation_clause", "asset_annexure_empty"}
           passed == ShownPassed(build_pass_evidence_l4(a, left))
<1>1. Evidence("agreement", f, left) = build_pass_evidence_l4(a, left)
  BY DEF Evidence
<1>2. (a.pdf => f.filed # {}) /\ a.scan = f.scan
  BY DEF AgreementFile, agreement_artifact
<1>3. Unjudged("agreement", f) = IF f.filed # {} /\ f.scan = "ok" THEN {} ELSE read
  BY DEF Unjudged
<1> HIDE DEF a
<1>4. passed \cap left = {}
  BY ShownCards DEF build_pass_evidence_l4
<1>5. ~ (a.pdf /\ a.scan = "ok") => passed \cap read = {}
  BY ShownCards DEF build_pass_evidence_l4, Only
<1> HIDE DEF passed, read
<1>6. passed \cap Unjudged("agreement", f) = {}
  BY <1>2, <1>3, <1>5
<1> QED
  BY <1>1, <1>4, <1>6 DEF ShownRightly, passed

\* Level 5.5 decides its cards before the overrides, which only take issues away.
LEMMA DocumentsShown ==
    ASSUME NEW f, NEW off
    PROVE  ShownRightly("documents", f, Fired(Issues("documents", f)) \ off)
<1> DEFINE d == DocumentFile(f)
           issues == DedupeTvrIssues(d)
           passed == ShownPassed(DedupeTvrEvidence(d))
<1>1. /\ \A left : Evidence("documents", f, left) = DedupeTvrEvidence(d)
      /\ Issues("documents", f) = issues
  BY DEF Evidence, Issues
<1>2. d.cheque = f.cheque.is /\ d.bank = f.cheque.bank
  BY DEF DocumentFile
<1>3. Unjudged("documents", f) =
        IF f.cheque.is = "cheque" /\ f.cheque.bank THEN {} ELSE {"pdc_matches_bank"}
  BY DEF Unjudged
<1> HIDE DEF d
<1>4. \A r \in Fired(issues) \ off : issues[r] # "ok"
  BY DEF Fired
<1>5. passed = {r \in {"dedupe_clear", "tvr_present", "nach_present"} : issues[r] = "ok"}
                \cup Only("pdc_present", d.cheque = "cheque")
                \cup Only("pdc_matches_bank", d.cheque = "cheque"
                            /\ cross_validate_pdc_vs_bank_statement(d) = "pass")
  BY ShownCards DEF DedupeTvrEvidence
<1>6. d.cheque = "cheque" => issues["pdc_present"] = "ok"
  BY DEF DedupeTvrIssues
<1>7. d.cheque = "cheque" /\ cross_validate_pdc_vs_bank_statement(d) = "pass"
        => issues["pdc_matches_bank"] = "ok" /\ d.bank
  <2>1. cross_validate_pdc_vs_bank_statement(d) = "pass" => d.bank
    BY DEF cross_validate_pdc_vs_bank_statement
  <2> QED
    BY <2>1 DEF DedupeTvrIssues, pdc_matches_bank
<1> HIDE DEF issues
<1>8. \A r \in passed : issues[r] = "ok"
  BY <1>5, <1>6, <1>7 DEF Only
<1>9. ~ (d.cheque = "cheque" /\ d.bank) => "pdc_matches_bank" \notin passed
  BY <1>5, <1>7 DEF Only
<1> HIDE DEF passed
<1>10. passed \cap Unjudged("documents", f) = {}
  BY <1>2, <1>3, <1>9
<1>11. passed \cap (Fired(issues) \ off) = {}
  BY <1>4, <1>8
<1> QED
  BY <1>1, <1>10, <1>11 DEF ShownRightly, passed

LEMMA EvidenceIsBacked == EvidenceBacked
<1> DEFINE left == Fired(filter_suppressed_issues(Issues(level, File), suppressed))
<1>1. left = Fired(Issues(level, File)) \ suppressed
  BY SuppressedFired
<1>2. ASSUME ShowsCards
      PROVE  \/ ShownRightly(level, File, left)
             \/ ShownPassed(Evidence(level, File, left)) = {}
  <2>1. CASE level \in {"address", "address_alone"}
    BY <2>1, AddressShown
  <2>2. CASE level = "credit"
    BY <2>2, CreditShown
  <2>3. CASE level = "banking"
    BY <2>3, BankingShown
  <2>4. CASE level \in {"trade", "service", "dairy"}
    BY <2>4, VisionShown
  <2>5. CASE level = "agreement"
    BY <2>5, AgreementShown
  <2>6. CASE level = "documents"
    BY <1>1, <2>6, DocumentsShown
  <2>7. CASE level \notin {"address", "address_alone", "credit", "banking", "trade",
                           "service", "dairy", "agreement", "documents"}
    <3>1. \A f, fired : Evidence(level, f, fired) = << >>
      BY <2>7 DEF Evidence
    <3>2. ShownPassed(<< >>) = {}
      BY DEF ShownPassed
    <3> QED
      BY <3>1, <3>2
  <2> QED
    BY <2>1, <2>2, <2>3, <2>4, <2>5, <2>6, <2>7
<1>3. Shown = ShownPassed(Evidence(level, File, left))
  BY DEF Shown
<1> HIDE DEF left
<1> QED
  BY <1>1, <1>2, <1>3 DEF EvidenceBacked, ShownRightly

(***************************************************************************)
(* The specification of the runs                                           *)
(***************************************************************************)
LEMMA JudgedAlways == Spec => []Judged
BY JudgedInit, JudgedNext, PTL DEF Spec

\* Level, positions, verdict and number of changes have their types.
THEOREM LevelsTypeCorrect == Spec => []TypeOK
<1>1. Judged => TypeOK
  BY DEF Judged
<1> QED
  BY <1>1, JudgedAlways, PTL

\* Whatever the file and however it got there, no section of level 5 earns more than
\* the points it has, so its share of them is a percentage (_section_totals).
THEOREM SectionsAreBounded == Spec => []SectionWithinMaximum
<1>1. TypeOK => SectionWithinMaximum
  BY FileIsContext, ContextWithinMaximum DEF SectionWithinMaximum
<1> QED
  BY <1>1, LevelsTypeCorrect, PTL

\* At no level does a file with worse evidence pass where the better one was blocked, as
\* long as the overrides stay: what one rule no longer fires another does.
THEOREM WorseningNeverPasses == Spec => WorseFileNoBetter
<1>1. Judged /\ Judged' /\ [Next]_vars => [WorseningKeepsBlocked]_vars
  <2> SUFFICES ASSUME Judged, Judged', [Next]_vars PROVE WorseningKeepsBlocked
    OBVIOUS
  <2>1. level' = level
    BY JudgedNext
  <2> QED
    BY <2>1, WorseningJudged
<1> QED
  BY <1>1, JudgedAlways, PTL DEF Spec, WorseFileNoBetter

\* A file with nothing against it passes every level and Phase 1, whatever is overridden.
THEOREM CleanFilesPassed == Spec => []CleanFilePasses
BY CleanJudged, JudgedAlways, PTL

\* What the assessor sees as passed had something to judge by, but for the exceptions the
\* code makes, and a rule among it that did fire is switched off (build_pass_evidence of
\* every level, which is given the issues filter_suppressed_issues has left).
THEOREM PassesAreBacked == Spec => []EvidenceBacked
BY EvidenceIsBacked, PTL
=============================================================================
