CONSTANTS
    a1 = a1
    a2 = a2
    a3 = a3
    f1 = f1
    f2 = f2
    i1 = i1
    i2 = i2
    i3 = i3
    i4 = i4
    Root = Root
    Record = Record
    Doomed = Doomed
    Media = Media
    Readme = Readme
    Nothing = Nothing
    NoActor = NoActor
    Actors <- TwoActors
    Files <- TwoFiles
    Inodes <- FourInodes
    Subs <- OneSub
    Keys <- FileKeys
    Values <- FileValues
    Home <- FileHome
    MaxRequests = 2
    MaxFailures = 1
SYMMETRY Interchangeable
SPECIFICATION Spec
INVARIANT
    ToldSavesSurvive
CHECK_DEADLOCK FALSE
