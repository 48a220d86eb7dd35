----------------------------- MODULE MCBackOffice -----------------------------
(***************************************************************************)
(* The parts of the back office that share no row with one another, each   *)
(* on a small instance.  One behaviour is a behaviour of one part; the     *)
(* variables of the others are parked, those of LevelRuns in a file that   *)
(* passes.                                                                 *)
(***************************************************************************)
EXTENDS LevelRuns, TLC

CONSTANTS
    Sessions,           \* database sessions
    Tabs,               \* browser tabs
    MaxReports, MaxHouse, MaxBusiness, MaxAddressRuns, MaxScanRuns,
    MaxUploads, MaxRows, MaxStarts, MaxRequests, MaxCases, MaxApprovals,
    MaxOpens, MaxClicks,                                   \* the parts' bounds
    Applicant, CoApplicant, Stranger,                      \* of CreditReports
    Places,                                                \* of AddressLevel
    Agreements,                                            \* of AgreementScans
    Prices,                                                \* of MrpCatalogue
    Critical, Minor,                                       \* of CamGate
    Levels, PhaseOne                                       \* of AutoRunClient

ASSUME PeopleAssumption ==
    /\ Applicant # CoApplicant /\ Stranger \notin {Applicant, CoApplicant}
    /\ "NoOne" \notin {Applicant, CoApplicant, Stranger}
ASSUME BoundsAssumption ==
    {MaxReports, MaxHouse, MaxBusiness, MaxUploads, MaxRows} \subseteq Nat
ASSUME SessionsAssumption == IsFiniteSet(Sessions)
ASSUME AgreementsAssumption ==
    Agreements \in Seq({Agreements[i] : i \in DOMAIN Agreements})
ASSUME LevelsAssumption ==
    /\ Levels \in Seq({Levels[i] : i \in DOMAIN Levels})
    /\ \A i, j \in DOMAIN Levels : Levels[i] = Levels[j] => i = j
    /\ \A i \in DOMAIN Levels : Levels[i] # PhaseOne

VARIABLES
    part,                                               \* the part that moves
    rows, coapp,                                        \* bureau reports
    house, business, runs,                              \* addresses
    onFile, cache, scans,                               \* agreements
    clock, snapshots, active, uploading, uploads, screened,  \* dedupe list
    row, inserted, editing,                             \* price catalogue
    flags, resolution, requests, ingested, starts, settling, \* CAM gate
    cases, reuploads, filing,                            \* loan register
    server, storage, tabs, opens, clicks                \* auto-run client

levels     == <<level, pos, suppressed, verdict, changes>>
reports    == <<rows, coapp>>
addresses  == <<house, business, runs>>
agreements == <<onFile, cache, scans>>
dedupe     == <<clock, snapshots, active, uploading, uploads, screened>>
catalogue  == <<row, inserted, editing>>
cam        == <<flags, resolution, requests, ingested, starts, settling>>
register   == <<cases, reuploads, filing>>
client     == <<server, storage, tabs, opens, clicks>>
parts ==
    <<part, levels, reports, addresses, agreements, dedupe, catalogue, cam, register, client>>

\* The instance.
AgreementKinds == <<"LAGR", "LAPP">>
OneLevel == <<"L5">>
ChangesOf ==
    [l \in DOMAIN Ladder |->
        CASE l = "scoring_alone" -> 1
          [] l \in {"scoring", "address_alone", "service", "checklist", "autorun"} -> 2
          [] OTHER -> 3]
Reports == INSTANCE CreditReports
Addresses == INSTANCE AddressLevel WITH MaxRuns <- MaxAddressRuns
Scanned == INSTANCE AgreementScans WITH MaxRuns <- MaxScanRuns, runs <- scans
Dedupe == INSTANCE DedupeSnapshots WITH rows <- snapshots, started <- uploads
Catalogue == INSTANCE MrpCatalogue WITH sess <- editing
Cam == INSTANCE CamGate WITH started <- starts, sess <- settling
Register == INSTANCE LoanRegister WITH sess <- filing
Client == INSTANCE AutoRunClient

NoLevels ==
    /\ level = "cam" /\ pos = [x \in Fields |-> 1] /\ suppressed = {}
    /\ verdict = "PASSED" /\ changes = 0
NoReports == rows = 0 /\ coapp = 0
NoAddresses == house = 0 /\ business = 0 /\ runs = 0
NoAgreements == onFile = 0 /\ cache = 0 /\ scans = 0
NoDedupe ==
    clock = 0 /\ snapshots = 0 /\ active = 0 /\ uploading = 0 /\ uploads = 0 /\ screened = 0
NoCatalogue == row = 0 /\ inserted = 0 /\ editing = 0
NoCam ==
    flags = 0 /\ resolution = 0 /\ requests = 0 /\ ingested = 0 /\ starts = 0 /\ settling = 0
NoRegister == cases = 0 /\ reuploads = 0 /\ filing = 0
NoClient == server = 0 /\ storage = 0 /\ tabs = 0 /\ opens = 0 /\ clicks = 0

Parts ==
    {"levels", "reports", "addresses", "agreements", "dedupe", "catalogue", "cam", "register",
     "client"}

PartInit ==
    /\ part \in Parts
    /\ IF part = "levels" THEN Init ELSE NoLevels
    /\ IF part = "reports" THEN Reports!Init ELSE NoReports
    /\ IF part = "addresses" THEN Addresses!Init ELSE NoAddresses
    /\ IF part = "agreements" THEN Scanned!Init ELSE NoAgreements
    /\ IF part = "dedupe" THEN Dedupe!Init ELSE NoDedupe
    /\ IF part = "catalogue" THEN Catalogue!Init ELSE NoCatalogue
    /\ IF part = "cam" THEN Cam!Init ELSE NoCam
    /\ IF part = "register" THEN Register!Init ELSE NoRegister
    /\ IF part = "client" THEN Client!Init ELSE NoClient

PartNext ==
    \/ /\ part = "levels" /\ Next
       /\ UNCHANGED <<part, reports, addresses, agreements, dedupe, catalogue,
                      cam, register, client>>
    \/ /\ part = "reports" /\ Reports!Next
       /\ UNCHANGED <<part, levels, addresses, agreements, dedupe, catalogue,
                      cam, register, client>>
    \/ /\ part = "addresses" /\ Addresses!Next
       /\ UNCHANGED <<part, levels, reports, agreements, dedupe, catalogue,
                      cam, register, client>>
    \/ /\ part = "agreements" /\ Scanned!Next
       /\ UNCHANGED <<part, levels, reports, addresses, dedupe, catalogue,
                      cam, register, client>>
    \/ /\ part = "dedupe" /\ Dedupe!Next
       /\ UNCHANGED <<part, levels, reports, addresses, agreements, catalogue,
                      cam, register, client>>
    \/ /\ part = "catalogue" /\ Catalogue!Next
       /\ UNCHANGED <<part, levels, reports, addresses, agreements, dedupe,
                      cam, register, client>>
    \/ /\ part = "cam" /\ Cam!Next
       /\ UNCHANGED <<part, levels, reports, addresses, agreements, dedupe,
                      catalogue, register, client>>
    \/ /\ part = "register" /\ Register!Next
       /\ UNCHANGED <<part, levels, reports, addresses, agreements, dedupe,
                      catalogue, cam, client>>
    \/ /\ part = "client" /\ Client!Next
       /\ UNCHANGED <<part, levels, reports, addresses, agreements, dedupe,
                      catalogue, cam, register>>

PartSpec == PartInit /\ [][PartNext]_parts

-----------------------------------------------------------------------------
(***************************************************************************)
(* What the parts state, of the part that moves.  What LevelRuns states    *)
(* holds of the file it is parked in.                                      *)
(***************************************************************************)
\* Every variable of the part has its type.
PartTypeOK ==
    CASE part = "levels" -> TypeOK
      [] part = "reports" -> Reports!TypeOK
      [] part = "addresses" -> Addresses!TypeOK
      [] part = "agreements" -> Scanned!TypeOK
      [] part = "dedupe" -> Dedupe!TypeOK
      [] part = "catalogue" -> Catalogue!TypeOK
      [] part = "cam" -> Cam!TypeOK
      [] part = "register" -> Register!TypeOK
      [] part = "client" -> Client!TypeOK

\* Neither party's bureau record goes unread (CreditReports).
PartiesJudged == part = "reports" => Reports!PartiesJudged
\* Level 5 scores the people level 1.5 judged (CreditReports).
LevelsAgree == part = "reports" => Reports!LevelsAgree
\* Asking again does not clear a commute (AddressLevel).
CommuteStands == part = "addresses" => Addresses!CommuteStands
\* What a complete scan of the agreement showed is kept (AgreementScans).
PartiesStand == part = "agreements" => Scanned!PartiesStand
\* No case is compared with a customer list that had been replaced (DedupeSnapshots).
ScreenedByCurrent == part = "dedupe" => Dedupe!ScreenedByCurrent
\* Only overlapping uploads leave two lists active (DedupeSnapshots).
ActivesOverlap == part = "dedupe" => Dedupe!ActivesOverlap
\* A price is the AI's estimate exactly as long as its row says so (MrpCatalogue).
LabelTellsEditor == part = "catalogue" => Catalogue!LabelTellsEditor
\* Only an administrator moves a price (MrpCatalogue).
PriceStands == [][part = "catalogue" => Catalogue!PriceMovesByEdit]_parts
\* No start of Phase 1 saw a critical disagreement that nobody settled (CamGate).
StartedReviewed == part = "cam" => Cam!StartedReviewed
\* One re-upload per approval, each with its archive (LoanRegister).
ReuploadsApproved == part = "register" => Register!ReuploadsApproved
\* What is shown as done has a result on the server (AutoRunClient).
DoneWasServed == part = "client" => Client!DoneWasServed
\* Phase 1 starts after every level has been tried (AutoRunClient).
LevelsBeforeDecision == part = "client" => Client!LevelsBeforeDecision
\* One run fires no step twice (AutoRunClient).
FiredOnce == part = "client" => Client!FiredOnce
\* A run nobody drives can be resumed or has ended (AutoRunClient).
Restartable == part = "client" => Client!Restartable

\* Sessions are interchangeable, and so are tabs.
Interchangeable == Permutations(Sessions) \cup Permutations(Tabs)
=============================================================================
