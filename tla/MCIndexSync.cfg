CONSTANTS
    t1 = t1
    t2 = t2
    c1 = c1
    c2 = c2
    c3 = c3
    a1 = a1
    a2 = a2
    Public = Public
    Members = Members
    Silent = Silent
    Hidden = Hidden
    ArchivistOnly = ArchivistOnly
    NoRow = NoRow
    Top = Top
    Absent = Absent
    Worker = Worker
    Threads <- TwoThreads
    Collections <- TwoCollections
    Articles <- OneArticle
    Audiences = {}
    MayBreak = FALSE
    MaxSaves = 2
    MaxFailures = 1
SPECIFICATION FairSpec
INVARIANTS
    StaleRowsOwed
PROPERTIES
    RowsMoveForward
    IndexCatchesUp
CHECK_DEADLOCK FALSE
