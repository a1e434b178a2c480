CONSTANTS
    a1 = a1
    a2 = a2
    x = x
    deadly = deadly
    Nil = Nil
    Absent = Absent
    None = None
    Garbage = Garbage
    NoRead = NoRead
    Nobody = Nobody
    Requests = {r1, r2}
    Logins = {l1}
    SigningKeys = {1, 2}
    MaxSends = 4
    MaxMints = 4
    MaxLoginTroubles = 1
    Clients = {c1, c2}
    FolderKeys = {k1}
    Values = {v, w}
    Depth = 2
    Retries = 1
    TextArticles = {a1, a2}
    Hashes = {x, deadly}
    Deadly = {deadly}
    AtFirst <- FilesAtFirst
    Edits <- SomeFiles
    MaxSaves = 2
    MaxMishaps = 1
    CheckedArticles = {a1}
    CheckedCollections = {a2}
    Names = {x}
    MaxWrites = 3
    MaxDamages = 1
    Items <- LegacyRows
    ImportFiles <- LegacyFiles
    MediaRoots <- LegacyRoots
    Unsorted = "Unsortiert"
    MaxSamples = 1
    MaxSetbacks = 2
    Groups = {"g"}
    Collections = {"leaf", "root", "broken"}
    ChainOf <- Chain
    PageTexts <- Pages
    ThisYear = 1995
    Archives <- TwoArchives
    Entries <- SomeEntries
    Editions <- TwoEditions
    Texts <- SomeTexts
    Roots = {"root"}
    Schrifttum = "Schrifttum"
    PageSize = 2
    PageSizes = {1, 2}
    MaxClicks = 2
SPECIFICATION AroundSpec
INVARIANTS
    SeesOnlyItsOwn
    PromiseKept
    Removable
    GrantedIsServed
    LogoutEnds
    TextOfItsFile
    FindingsExact
    ImportedOnce
    NothingVanishes
PROPERTIES
    DavImplementsPort
    TextCatchesUp
CHECK_DEADLOCK FALSE
