----------------------------- MODULE AddressRules -----------------------------
(***************************************************************************)
(* The rules of verification level 1, as functions of what the scanners,   *)
(* the geocoders and the AI judge returned                                 *)
(* (app/verification/levels/level_1_address.py and                         *)
(* services/address_normalizer.py).                                        *)
(*                                                                         *)
(* Three-valued answers are "yes", "no" and "unknown".                     *)
(***************************************************************************)
EXTENDS LevelRules, Sequences

(***************************************************************************)
(* Names.  first is the first name with its spelling drift removed, spelt  *)
(* the spelling it had, sur the surname ("" without one).                  *)
(***************************************************************************)
NoName == [first |-> "", spelt |-> 0, sur |-> ""]
Generic == {"kumar"}        \* stands for the placeholder surnames

name_matches(a, b) == a # NoName /\ a = b
first_names_match(a, b) == a # NoName /\ b # NoName /\ a.first = b.first
has_generic_surname(n) == n.sur \in Generic

(***************************************************************************)
(* What the documents say.  A scan is [name, father], a field it could not *)
(* read NoName; the scans of a kind of document are in upload order.       *)
(***************************************************************************)
Unread == [name |-> NoName, father |-> NoName]
FirstRead(scans, field) ==
    LET read == {i \in DOMAIN scans : scans[i][field] # NoName}
    IN IF read = {} THEN NoName ELSE scans[CHOOSE i \in read : \A j \in read : i <= j][field]

\* Field by field, the scan that came first: front and back of a card make one document.
_scan_all_and_merge(scans) == [field \in DOMAIN Unread |-> FirstRead(scans, field)]

\* A ration card, readable or not, stands for the electricity bill next to it.
ration_bill(ration, electricity) ==
    _scan_all_and_merge(IF ration # << >> THEN ration ELSE electricity)

\* The PAN card spells a party's name; the Aadhaar stands in for it.
party_name(pan, aadhaar) == IF pan.name # NoName THEN pan.name ELSE aadhaar.name

\* The addresses of the reports of an outside source: a list in each, and a single one.
outside_addresses(reports) == UNION {r.listed \cup r.flat : r \in reports}

(***************************************************************************)
(* cross_check_ration_owner_rule: may the bill's address stand for the     *)
(* applicant's?  f names the parties; f.parties are the loan agreement's.  *)
(***************************************************************************)
IsParty(n, f) == \E p \in f.parties : name_matches(n, p)
OnLoan(n, f) == name_matches(n, f.coapp) \/ IsParty(n, f)

OwnerBorrows(f) == name_matches(f.owner, f.applicant) \/ name_matches(f.owner, f.coapp)
OwnerIsGuardian(f) ==
    name_matches(f.owner, f.appFather) \/ name_matches(f.owner, f.coFather)
OwnerIsChild(f) == name_matches(f.via, f.applicant)

\* Whose first name the owner may bear, in the code's order; the last two are parents.
candidates(f) == <<f.applicant, f.coapp, f.appFather, f.coFather>>
Namesakes(f) == {i \in DOMAIN candidates(f) : first_names_match(f.owner, candidates(f)[i])}

\* Seeded fault: a parent's namesake is tolerated whether or not on the agreement.
ToleratedAnyNamesake(f) ==
    has_generic_surname(f.owner) /\ Namesakes(f) # {}
Tolerated(f) ==
    /\ has_generic_surname(f.owner)
    /\ \E i \in Namesakes(f) :
          /\ \A j \in Namesakes(f) : i <= j
          /\ i <= 2 \/ IsParty(candidates(f)[i], f)

ration_owner_rule(f) ==
    LET evaluable == f.owner # NoName /\ f.applicant # NoName
        passes == OwnerBorrows(f) \/ (OwnerIsGuardian(f) /\ OnLoan(f.owner, f))
        soft == ~OwnerIsGuardian(f) /\ ~OwnerIsChild(f) /\ Tolerated(f)
    IN IF ~evaluable \/ passes THEN "ok" ELSE IF soft THEN "WARNING" ELSE "CRITICAL"

(***************************************************************************)
(* compare_aadhaar_to_gps.  g.pins: what the two pincodes' districts say;  *)
(* g.state, g.district, g.village: is the geocoder's name in the Aadhaar   *)
(* text ("unknown" when it returned none, or a bare block or ward).        *)
(***************************************************************************)
DistrictMatch(g) == IF g.pins # "unknown" THEN g.pins ELSE g.district

gps_score(g) ==
    LET d == DistrictMatch(g)
    IN CASE g.state = "no" -> 10
         [] g.state # "no" /\ d = "no" -> IF g.pins = "no" THEN 15 ELSE 20
         [] g.state # "no" /\ d = "yes" ->
              CASE g.village = "yes" -> 95
                [] g.village = "no" -> 60
                [] g.village = "unknown" -> 75
         [] g.state = "yes" /\ d = "unknown" -> 50
         [] g.state = "unknown" /\ d = "unknown" -> 40

gps_verdict(g) ==
    IF g.state = "no" \/ DistrictMatch(g) = "no" THEN "mismatch"
    ELSE IF DistrictMatch(g) = "yes" /\ g.village = "yes" THEN "match" ELSE "doubtful"

\* What the camera burnt into the photo beats what the geocoder makes of the coordinates.
Either(watermark, nominatim) == IF watermark # "unknown" THEN watermark ELSE nominatim
gps_match(nominatim, watermark) ==
    [nominatim EXCEPT !.pins = Either(watermark.pins, @), !.village = Either(watermark.village, @)]

\* cross_check_gps_vs_applicant_aadhaar.  g.kind: what the geocoders made of the photo.
gps_vs_aadhaar(aadhaar, g) ==
    CASE ~aadhaar -> "ok"
      [] aadhaar /\ g.kind = "structured" ->
           (CASE gps_verdict(g) = "match" -> "ok"
              [] gps_verdict(g) = "doubtful" -> "WARNING"
              [] gps_verdict(g) = "mismatch" -> "CRITICAL")
      [] aadhaar /\ g.kind \in {"no_coords", "no_address"} -> "WARNING"
      [] aadhaar /\ g.kind = "text" -> IF g.similar THEN "ok" ELSE "CRITICAL"

(***************************************************************************)
(* The remaining cross-checks.  An address is missing, similar to the      *)
(* applicant's Aadhaar address, or different from it.                      *)
(***************************************************************************)
coapp_address(app, co) == IF app /\ co = "different" THEN "CRITICAL" ELSE "ok"

business_gps_present(photos, located) ==
    IF photos > 0 /\ ~located THEN "CRITICAL" ELSE "ok"

\* One issue per outside source none of whose addresses is similar.
outside_address(app, addresses) ==
    IF app /\ addresses # {} /\ "similar" \notin addresses THEN "WARNING" ELSE "ok"

\* cross_check_commute: what the distance service said, then what the judge said.
commute(dm, minutes, judge) ==
    CASE dm = "zero_results" -> "CRITICAL"
      [] dm = "error" -> "WARNING"
      [] dm = "ok" /\ minutes = "near" -> "ok"
      [] dm = "ok" /\ minutes = "far" -> IF judge = "CRITICAL" THEN "CRITICAL" ELSE "WARNING"
=============================================================================
