SPECIFICATION Spec
CONSTANTS
    Threads = {t1, t2}
    Windows = {w1, w2}
    ForksHandled = TRUE
    MaxLocks = 2
SYMMETRY Symmetric
CONSTRAINT OneTrouble
INVARIANTS
    TypeOK
    StoreMatchesTheServer
    ForksAreLockedTogether
    RecordedTokensAreOurs
    ForeignLocksAreSpared
    RowsAgreeWithTheStore
