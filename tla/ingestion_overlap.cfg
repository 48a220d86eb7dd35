SPECIFICATION Spec
CONSTANTS
    pan = pan
    s1 = s1
    s2 = s2
    Sessions <- TwoSessions
    Docs <- OneDoc
    ZipChoices <- EmptyOrFull
    MaxVersion = 1
    MaxUploads = 1
    MaxJobs = 2
    MaxReceive = 2
INVARIANT IngestedComplete
SYMMETRY Alike
CHECK_DEADLOCK FALSE
