CONSTANTS
    t1 = t1
    t2 = t2
    u1 = u1
    u2 = u2
    c1 = c1
    c2 = c2
    m1 = m1
    m2 = m2
    d1 = d1
    f1 = f1
    f2 = f2
    None = None
    Absent = Absent
    Archivists <- TwoArchivists
    Ulids <- TwoUlids
    Collections <- TwoCollections
    MediaTypes <- TwoMediaTypes
    DocumentTypes <- OneDocumentType
    Fits <- OneAdmits
    Files <- TwoFiles
    Entries <- FewEntries
    BulkEdits <- FewEdits
    MediaChanges <- FewChanges
    Begun <- OneUlid
    Catalogued <- Drafts
    Shifting <- TheOther
    Retries = 1
    MaxRequests = 3
    MaxEvents = 1
SYMMETRY Interchangeable
SPECIFICATION Spec
INVARIANTS
    RecordsFit
PROPERTIES
    ShownBeforeReplaced
    UndoneWasNamed
    PublishGateHolds
    BulkAccounts
CHECK_DEADLOCK FALSE
