CONSTANTS
    u1 = u1
    u2 = u2
    n1 = n1
    n2 = n2
    Absent = Absent
    Ulids <- TwoUlids
    Names <- NoNames
    MaxAttempts = 1
    MayLose = TRUE
    MaxSaves = 2
    MaxFailures = 2
SPECIFICATION FairSpec
PROPERTIES
    MirrorCatchesUp
