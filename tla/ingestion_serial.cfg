SPECIFICATION FairSpec
CONSTANTS
    pan = pan
    photos = photos
    Sessions = {s1}
    Docs <- TwoDocs
    ZipChoices <- HalfOrFull
    MaxVersion = 1
    MaxUploads = 2
    MaxJobs = 2
    MaxReceive = 2
INVARIANTS IngestedComplete MissingDocsExplained FinalizedHasZipRow
PROPERTIES RefinesStageMachine ValidationResolves
CHECK_DEADLOCK FALSE
