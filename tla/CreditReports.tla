----------------------------- MODULE CreditReports -----------------------------
(***************************************************************************)
(* The bureau reports of one case arrive one by one; level 1.5 reads them  *)
(* newest first, level 5 in whatever order the database returns them, and  *)
(* each decides for itself whose report is whose.                          *)
(***************************************************************************)
EXTENDS CreditRules, Functions

CONSTANTS Applicant, CoApplicant, Stranger,   \* whose name a report bears
          MaxReports                          \* bound: reports on file

VARIABLES rows,     \* the Equifax extractions, newest first
          coapp     \* cases.co_applicant_name: the name, or NoOne

vars == <<rows, coapp>>

NoOne == "NoOne"

\* A person the bureau does not know has a report without a score; a stranger's name is
\* nobody's misspelt.  Only a report whose name fits nobody is chosen by its score.
Report(who, exact, hit, score) ==
    [of |-> who, exact |-> exact, hit |-> hit, marks |-> {}, score |-> score]
Reports ==
    {Report(who, exact, hit, IF hit THEN 700 ELSE -1) :
        who \in {Applicant, CoApplicant}, exact \in BOOLEAN, hit \in BOOLEAN}
    \cup {Report(Stranger, TRUE, TRUE, 600), Report(Stranger, TRUE, TRUE, 800)}

Init == rows = << >> /\ coapp \in {CoApplicant, NoOne}

\* A run of the Equifax extractor, on a re-uploaded ZIP or a hand-uploaded file.
Arrives(report) ==
    /\ Len(rows) < MaxReports
    /\ rows' = <<report>> \o rows
    /\ UNCHANGED coapp

Next == \E report \in Reports : Arrives(report)

Spec == Init /\ [][Next]_vars

-----------------------------------------------------------------------------
(***************************************************************************)
(* Level 5's choice, of the same rows in some order.                       *)
(***************************************************************************)
ScoredApplicant(db) == _pick_primary_equifax(db, Applicant)
_pick_coapp_equifax(db, primary, name) ==
    IF name = NoOne THEN 0 ELSE Newest(Named(db, DOMAIN db \ {primary}, name))

\* _build_context: without a name on the case, the first other report's.
\* Seeded fault: the first other report names the co-applicant, whoever the case names.
AnyOtherName(db, primary) ==
    LET others == DOMAIN db \ {primary}
    IN IF others = {} THEN coapp ELSE db[Newest(others)].of
CoName(db, primary) ==
    LET others == DOMAIN db \ {primary}
    IN IF coapp # NoOne \/ others = {} THEN coapp ELSE db[Newest(others)].of

InOrder(p) == [i \in DOMAIN rows |-> rows[p[i]]]

\* The report level 1.5 judges as the applicant's, and as the co-applicant's.
AsApplicant == _pick_primary_equifax(rows, Applicant)
AsCoApplicant == _pick_co_applicant_equifax(rows, AsApplicant, coapp)

Of(person) == {i \in DOMAIN rows : rows[i].of = person}
Hits(S) == {i \in S : rows[i].hit}

-----------------------------------------------------------------------------
TypeOK == rows \in UNION {[1..n -> Reports] : n \in 0..MaxReports}
          /\ coapp \in {CoApplicant, NoOne}

\* Nobody's record goes unread: one of the applicant's bureau hits is always among the
\* two reports level 1.5 judges, and so is one of the named co-applicant's, unless a
\* report without a hit bears that name (it is then taken when it is the newer one).
\* Whatever else is on file: strangers, misspellings, older and newer reports.
PartiesJudged ==
    LET judged == {AsApplicant, AsCoApplicant}
    IN /\ Hits(Of(Applicant)) # {} => judged \cap Hits(Of(Applicant)) # {}
       /\ coapp = CoApplicant /\ Of(CoApplicant) # {} /\ Hits(Of(CoApplicant)) = Of(CoApplicant)
             => judged \cap Of(CoApplicant) # {}

\* Level 5 scores the people level 1.5 judged, in whatever order it reads the rows: the
\* same applicant, once a hit bears the applicant's name, and a named co-applicant only
\* if level 1.5 judged that one.
LevelsAgree ==
    \A p \in Bijection(DOMAIN rows, DOMAIN rows) :
        LET db == InOrder(p)
            primary == ScoredApplicant(db)
            co == _pick_coapp_equifax(db, primary, CoName(db, primary))
        IN Hits(Of(Applicant)) # {} =>
              /\ db[primary].of = rows[AsApplicant].of
              /\ co # 0 /\ coapp # NoOne =>
                    AsCoApplicant # 0 /\ rows[AsCoApplicant].of = db[co].of
=============================================================================
