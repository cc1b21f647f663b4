CONSTANTS
    note = note
    folder = folder
    sub = sub
    inner = inner
    Files <- MCFiles
    Folders <- MCFolders
    Children <- MCChildren
    Selections <- MCSelections
    BeginsWith <- MCBeginsWith
    Encoding = TRUE
    RezForksHidden = {TRUE, FALSE}
SPECIFICATION Spec
CONSTRAINT OneTrouble
ACTION_CONSTRAINTS OthersRest RowsAreSorted LastCommand
INVARIANT TrashDownloadsFirst
CHECK_DEADLOCK FALSE
