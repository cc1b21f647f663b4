SPECIFICATION Spec
CONSTANTS
    Threads = {t1, t2}
    SupportsLocking = TRUE
    Encoding = TRUE
    RezForksHidden = TRUE
    MaxClock = 6
    MaxLocks = 2
SYMMETRY Symmetric
CONSTRAINT TwoTroubles
INVARIANTS
    TypeOK
    ChangesAreNotForgotten
    RestartRemembers
    UploadsSpareForeignChanges
    EditedMeansLocked
    LocksAreOnRecord
    NoJunkIsUploaded
PROPERTIES
    RelinquishReleases
