SPECIFICATION Spec
CONSTANTS
    Sessions = {s1, s2}
    MaxUploads = 2
INVARIANT OneActive
CHECK_DEADLOCK FALSE
