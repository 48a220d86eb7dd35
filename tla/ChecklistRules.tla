---------------------------- MODULE ChecklistRules ----------------------------
(***************************************************************************)
(* What a case file must hold to leave the checklist                       *)
(* (app/worker/checklist_validator.py) and to be run without a prompt      *)
(* (app/services/case_completeness.py).  count gives the documents on file *)
(* per subtype; a subtype it does not list has none.                       *)
(***************************************************************************)
EXTENDS Naturals

Photographs == {"HOUSE_VISIT_PHOTO", "BUSINESS_PREMISES_PHOTO"}
_HARD_REQUIREMENTS ==
    [subtype \in {"KYC_AADHAAR", "KYC_PAN", "CO_APPLICANT_AADHAAR", "CO_APPLICANT_PAN",
                  "BANK_STATEMENT", "PD_SHEET", "AUTO_CAM", "CHECKLIST", "KYC_VIDEO"}
                 \cup Photographs |-> IF subtype \in Photographs THEN 3 ELSE 1]
_RESIDENCE_PROOF_OPTIONS == {"KYC_VOTER", "KYC_DL", "ELECTRICITY_BILL", "RATION_CARD", "KYC_PASSPORT"}
_CREDIT_REPORT_OPTIONS == {"EQUIFAX_HTML", "CIBIL_HTML", "HIGHMARK_HTML", "EXPERIAN_HTML"}

CountOf(subtype, count) == IF subtype \in DOMAIN count THEN count[subtype] ELSE 0
SomeOf(options, count) == \E o \in options : CountOf(o, count) > 0

validate_completeness(count) ==
    {s \in DOMAIN _HARD_REQUIREMENTS : CountOf(s, count) < _HARD_REQUIREMENTS[s]}
    \cup (IF SomeOf(_RESIDENCE_PROOF_OPTIONS, count) THEN {} ELSE {"RESIDENCE_PROOF"})
    \cup (IF SomeOf(_CREDIT_REPORT_OPTIONS, count) THEN {} ELSE {"CREDIT_REPORT"})

_REQUIRED_BASE ==
    {"KYC_AADHAAR", "KYC_PAN", "AUTO_CAM", "PD_SHEET", "BANK_STATEMENT", "EQUIFAX_HTML",
     "LAGR", "LAPP", "DPN", "NACH"} \cup Photographs
_REQUIRED_IF_COAPP == {"CO_APPLICANT_AADHAAR", "CO_APPLICANT_PAN"}
_ADDRESS_PROOF_GROUP == {"RATION_CARD", "ELECTRICITY_BILL"}

compute_missing_required_artifacts(count, coapp) ==
    {s \in _REQUIRED_BASE \cup (IF coapp THEN _REQUIRED_IF_COAPP ELSE {}) : CountOf(s, count) = 0}
    \cup (IF SomeOf(_ADDRESS_PROOF_GROUP, count) THEN {} ELSE {"ADDRESS_PROOF"})
===============================================================================
