CONSTANTS
    u1 = u1
    u2 = u2
    n1 = n1
    n2 = n2
    Absent = Absent
    Ulids <- OneUlid
    Names <- OneName
    MaxAttempts = 2
    MayLose = FALSE
    MaxSaves = 3
    MaxFailures = 2
SPECIFICATION Spec
INVARIANTS
    TypeOK
    RemoteReadmeComplete
    PushesOwed
    DeletesOwed
