CONSTANTS
    note = note
    folder = folder
    sub = sub
    inner = inner
    Files <- MCFiles
    Folders <- MCFolders
    Children <- MCChildren
    Misnamed <- MCMisnamed
    Selections <- MCSelections
    Encoding = TRUE
    RezForksHidden = {TRUE, FALSE}
    MayLockTop = TRUE
SPECIFICATION Spec
CONSTRAINT OneTrouble
INVARIANTS TypeOK OverwritesAreConfirmed OwnLocksDoNotHinder CancelDeletesNothing LocksAreOnRecord
PROPERTIES UploadsAreComplete UnlockingIsAsked
ACTION_CONSTRAINTS OthersRest LastCommand
