SPECIFICATION Spec
CONSTANTS
    Threads = {t1}
    Windows = {w1}
    ForksHandled = TRUE
    MaxLocks = 3
INVARIANTS
    LocalLockIsOurs
