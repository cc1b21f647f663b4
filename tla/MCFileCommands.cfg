CONSTANTS
    ann = ann
    bob = bob
    copy = copy
    t1 = t1
    t2 = t2
    Names <- MCNames
    Threads <- MCThreads
    CopyNames <- MCCopyNames
    Encoding = TRUE
    ParentLocked = {TRUE, FALSE}
    MaxRows = 1
SPECIFICATION Spec
CONSTRAINT OneTrouble
ACTION_CONSTRAINT LastCommands
SYMMETRY Symmetric
INVARIANTS TypeOK NamesAreFoundFree ForksStayWithTheirFiles RowsTellTheTruth
