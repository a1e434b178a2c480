CONSTANTS
    t1 = t1
    t2 = t2
    c1 = c1
    c2 = c2
    c3 = c3
    a1 = a1
    a2 = a2
    Public = Public
    Members = Members
    Silent = Silent
    Hidden = Hidden
    ArchivistOnly = ArchivistOnly
    NoRow = NoRow
    Top = Top
    Absent = Absent
    Worker = Worker
    Threads <- OneThread
    Collections <- TwoCollections
    Articles <- OneArticle
    Audiences <- PublicAlone
    MayBreak = TRUE
    MaxSaves = 2
    MaxFailures = 0
SYMMETRY Interchangeable
SPECIFICATION Spec
INVARIANTS
    BrokenChainsFailClosed
CHECK_DEADLOCK FALSE
