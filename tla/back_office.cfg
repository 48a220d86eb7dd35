SPECIFICATION PartSpec
CONSTANTS
    MaxChanges <- ChangesOf
    Sessions = {s1, s2}
    MaxReports = 3
    MaxHouse = 2
    MaxBusiness = 1
    MaxAddressRuns = 3
    MaxScanRuns = 3
    MaxUploads = 3
    MaxRows = 2
    MaxStarts = 2
    MaxRequests = 1
    MaxCases = 2
    MaxApprovals = 2
    Tabs = {t1, t2}
    MaxOpens = 3
    MaxClicks = 2
    Applicant = "ravi"
    CoApplicant = "asha"
    Stranger = "om"
    Places = {"p", "q"}
    Agreements <- AgreementKinds
    Prices = {100, 200}
    Critical = {"pan"}
    Minor = {"foir"}
    Levels <- OneLevel
    PhaseOne = "L6"
SYMMETRY Interchangeable
INVARIANTS PartTypeOK CleanFilePasses SectionWithinMaximum
    EvidenceBacked PartiesJudged LevelsAgree
    CommuteStands PartiesStand ScreenedByCurrent ActivesOverlap LabelTellsEditor
    StartedReviewed ReuploadsApproved DoneWasServed LevelsBeforeDecision FiredOnce Restartable
PROPERTIES WorseFileNoBetter PriceStands
CHECK_DEADLOCK FALSE
