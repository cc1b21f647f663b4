---------------------------- MODULE EditSessions ----------------------------
(***************************************************************************)
(* Editing one item of a collection in another application: CEditItemsThread*)
(* locks and downloads it, ExternalEditorManager watches the local file by  *)
(* its modification date and remembers it on disk, and CSaveToWebThread     *)
(* uploads a changed file and, if the user is done with it, gives the lock   *)
(* back.  The item's resource fork is a resource of its own on the server.  *)
(* A thread yields only while it waits for an answer, so one action runs     *)
(* from an answer to the next request.  The server, its other clients and    *)
(* the editing application are external.                                    *)
(***************************************************************************)
EXTENDS Integers, FiniteSets

CONSTANTS Threads,           \* helper threads that can run at a time
          SupportsLocking,   \* mSupportsLocking: the server's OPTIONS list locking
          Encoding,          \* ~_EncodingDisabled(): resource forks are uploaded
          RezForksHidden,    \* _RezForksAreHidden()
          MaxClock,          \* bound: how often the file or the item is written
          MaxLocks           \* bound: lock tokens the server issues to this client

ASSUME ConstantsAssumption ==
    /\ {SupportsLocking, Encoding, RezForksHidden} \subseteq BOOLEAN
    /\ MaxClock \in Nat \ {0} /\ MaxLocks \in Nat

Forks == {"data", "rez"}

\* Tokens of this client are numbered; Theirs is the token of any other client's lock.
Tokens == 1..MaxLocks
Empty == 0
NoEntry == -1
Theirs == -2

\* Every write makes new contents and a new modification date, named by the clock
\* (two writes within one second count as one).  A missing file has the date 0.
Versions == 1..MaxClock
NoFile == -1
Junk == 0
NoDate == 0
NotEdited == -1

VARIABLES
    file,        \* the local file: NoFile, Junk (a download that did not end well), or a version
    date,        \* GetFSSpecModDate of it
    opened,      \* an application was told to open the file
    lastEdit,    \* mLastEditTime of the context in mEditingItems, or NotEdited
    stored,      \* the same in the "Goliath External Edits" file
    db,          \* CClientLockManager: the token under the key of each fork
    pc,          \* the call a thread waits for
    answer,      \* what came back
    token,       \* the token a thread works with, of the item or of its fork
    relinquish,  \* threads with mRelinquishLock set
    remote,      \* the server: the version of the item
    forkThere,   \* the server: the resource fork is there
    lock,        \* the server: the token of the lock on each fork, or Empty
    issued,      \* the server: how many tokens were issued to this client
    clock,
    base,        \* the version of the item the local file was made from or became
    trouble      \* what went wrong so far; the code has neither of these

local == <<file, date, opened>>
edits == <<lastEdit, stored>>
work == <<pc, token, relinquish>>
server == <<remote, forkThere, lock, issued>>
vars == <<local, edits, db, work, answer, server, clock, base, trouble>>

EditCalls == {"lock", "props", "exists", "lockRez", "propsRez", "rollback", "get"}
SaveCalls == {"put", "unlock", "propsAfter", "putRez", "unlockRez"}

\* lost: a call failed for the client, whether the server did the work or not;
\* refused: an upload was refused; during: the file was saved during an upload;
\* race: two threads at a time; broken: a lock of this client ran out; crashed: the
\* program ended in a call; reopened: a changed file was opened for editing again;
\* overwrote: an upload replaced a version the file was not made from.
Troubles == {"lost", "refused", "during", "race", "broken", "crashed", "reopened",
             "overwrote"}

Answers == [status : {"none", "ok", "absent", "failed"},
            value : {Theirs, Empty} \cup Tokens \cup Versions]
Waiting == [status |-> "none", value |-> Empty]
Failed == [status |-> "failed", value |-> Empty]
Ok(value) == [status |-> "ok", value |-> value]

TypeOK ==
    /\ file \in {NoFile, Junk} \cup Versions
    /\ date \in {NoDate} \cup Versions
    /\ opened \in BOOLEAN
    /\ lastEdit \in {NotEdited, NoDate} \cup Versions
    /\ stored \in {NotEdited, NoDate} \cup Versions
    /\ db \in [Forks -> {NoEntry, Theirs, Empty} \cup Tokens]
    /\ pc \in [Threads -> {"idle"} \cup EditCalls \cup SaveCalls]
    /\ answer \in [Threads -> Answers]
    /\ token \in [Threads -> {NoEntry, Theirs, Empty} \cup Tokens]
    /\ relinquish \subseteq Threads
    /\ remote \in {Junk} \cup Versions
    /\ forkThere \in BOOLEAN
    /\ lock \in [Forks -> {Empty, Theirs} \cup Tokens]
    /\ issued \in 0..MaxLocks
    /\ clock \in Versions
    /\ base \in {Junk} \cup Versions
    /\ trouble \subseteq Troubles

\* Nothing is edited yet.  The item is free, or the user locked it before, together
\* with its fork if that was there.
Init ==
    /\ file = NoFile /\ date = NoDate /\ opened = FALSE
    /\ lastEdit = NotEdited /\ stored = NotEdited
    /\ forkThere \in BOOLEAN
    /\ \/ issued = 0 /\ lock = [f \in Forks |-> Empty]
          /\ db = [f \in Forks |-> NoEntry]
       \/ /\ SupportsLocking /\ ~forkThere /\ MaxLocks > 0 /\ issued = 1
          /\ lock = [f \in Forks |-> IF f = "data" THEN 1 ELSE Empty]
          /\ db = [f \in Forks |-> IF f = "data" THEN 1 ELSE NoEntry]
    /\ pc = [t \in Threads |-> "idle"]
    /\ answer = [t \in Threads |-> Waiting]
    /\ token = [t \in Threads |-> Empty] /\ relinquish = {}
    /\ remote = 1 /\ clock = 1 /\ base = Junk /\ trouble = {}

Idle == \A t \in Threads : pc[t] = "idle"
When(condition, fact) == IF condition THEN {fact} ELSE {}
Noted(facts) == trouble' = trouble \cup facts
Racing(t) == When(\E u \in Threads \ {t} : pc[u] # "idle", "race")

\* The file is open for reading or writing in another thread.
FileBusy(t) == \E u \in Threads \ {t} : pc[u] \in {"put", "get"}
-----------------------------------------------------------------------------
\* The token store (CClientLockManager) and what reading the properties does to it.

ItemLocked(f, value) == db' = [db EXCEPT ![f] = value]
ItemUnlocked(f) == db' = [db EXCEPT ![f] = NoEntry]

\* CFLVDAVRequest::_OnDavItemDataChange.
AfterDataChange(f, value) ==
    [db EXCEPT ![f] = IF value = Empty \/ @ # value THEN NoEntry ELSE @]

\* ExternalEditorManager and ExternalEditContext.

FileHasChanged == lastEdit # NotEdited /\ date # lastEdit

\* SaveEditedFilesList writes the date the file has at that moment.
SaveEditedFilesList == stored' = IF lastEdit' = NotEdited THEN NotEdited ELSE date'

\* A slip: the list on disk keeps the item.
StopEditingItemUnsaved == lastEdit' = NotEdited /\ UNCHANGED stored

\* UpdateItemEditTime and StopEditingItem do nothing for an item that is not edited.
UpdateItemEditTime ==
    IF lastEdit = NotEdited THEN UNCHANGED edits
    ELSE lastEdit' = date' /\ SaveEditedFilesList

StopEditingItem ==
    IF lastEdit = NotEdited THEN UNCHANGED edits
    ELSE lastEdit' = NotEdited /\ SaveEditedFilesList

\* EditItems: the application may fail to open the files; a context is made for an
\* item that has none yet.  files: whether the item is among those to open.
EditItems(files) ==
    \/ UNCHANGED <<opened, edits>>
    \/ /\ opened' = (opened \/ files)
       /\ lastEdit' = IF files /\ lastEdit = NotEdited THEN date' ELSE lastEdit
       /\ SaveEditedFilesList

\* The file holds what the user made of the item, and the server does not.
Unsaved == lastEdit # NotEdited /\ file # base

\* Opening changes the stored date: a change that is not uploaded yet passes for seen.
Reopening == When(Unsaved, "reopened")
-----------------------------------------------------------------------------
\* The thread issues its next call, or ends.

Goto(t, call) ==
    /\ pc' = [pc EXCEPT ![t] = call]
    /\ answer' = [answer EXCEPT ![t] = Waiting]

SetToken(t, value) == token' = [token EXCEPT ![t] = value]

Finish(t) ==
    /\ Goto(t, "idle") /\ SetToken(t, Empty)
    /\ relinquish' = relinquish \ {t}

Succeeded(t) == answer[t].status = "ok"
Answered(t, call) == pc[t] = call /\ answer[t].status # "none"

\* GetResource deletes the file and makes a new one before it sends the request.  If
\* another thread or an application has the file open, the exception ends the thread.
Download(t) ==
    \/ /\ FileBusy(t) \/ opened
       /\ Finish(t)
       /\ UNCHANGED <<file, date, clock>>
    \/ /\ ~FileBusy(t) /\ clock < MaxClock
       /\ clock' = clock + 1
       /\ file' = Junk /\ date' = clock'
       /\ Goto(t, "get")
       /\ UNCHANGED <<token, relinquish>>

\* Nothing was downloaded, and the application is started all the same.
GiveUp(t) ==
    /\ Finish(t)
    /\ UNCHANGED <<file, date, clock>>
    /\ EditItems(FALSE)
    /\ Noted(Reopening)
-----------------------------------------------------------------------------
\* The user's commands.

\* A slip: an item that is being edited already is downloaded again.
StartEditAfresh(t) ==
    /\ pc[t] = "idle"
    /\ \/ (SupportsLocking => db["data"] # NoEntry) /\ Download(t)
       \/ /\ SupportsLocking /\ db["data"] = NoEntry
          /\ Goto(t, "lock")
          /\ UNCHANGED <<token, relinquish, local, clock>>
    /\ Noted(Racing(t))
    /\ UNCHANGED <<opened, edits, db, server, base>>

\* Edit: an item that is being edited already is only opened again; one with a token on
\* record is taken to be locked.
StartEdit(t) ==
    /\ pc[t] = "idle"
    /\ \/ /\ lastEdit # NotEdited
          /\ UNCHANGED <<work, answer, file, date, clock>>
          /\ EditItems(TRUE)
          /\ Noted(Reopening)
       \/ /\ lastEdit = NotEdited /\ (SupportsLocking => db["data"] # NoEntry)
          /\ Download(t)
          /\ Noted(Racing(t))
          /\ UNCHANGED <<opened, edits>>
       \/ /\ lastEdit = NotEdited /\ SupportsLocking /\ db["data"] = NoEntry
          /\ Goto(t, "lock")
          /\ Noted(Racing(t))
          /\ UNCHANGED <<token, relinquish, local, edits, clock>>
    /\ UNCHANGED <<db, server, base>>

\* CheckForExternalEdits, when the program comes to the front: the user is asked about
\* each changed file and may say that the editing is over.  The thread's constructor
\* looks the token up.  A file that cannot be opened fails without a request.
StartSave(t, over) ==
    /\ pc[t] = "idle" /\ FileHasChanged
    /\ lastEdit' = date /\ UNCHANGED stored
    /\ IF file = NoFile
       THEN Finish(t)
       ELSE /\ Goto(t, "put") /\ SetToken(t, db["data"])
            /\ relinquish' = IF over THEN relinquish \cup {t} ELSE relinquish \ {t}
    /\ Noted(Racing(t))
    /\ UNCHANGED <<local, db, server, clock, base>>

\* LocalEditsDialog::RemoveSelectedFiles: file and lock are left as they are.
RemoveSelectedFiles ==
    /\ lastEdit # NotEdited
    /\ UNCHANGED local /\ StopEditingItem
    /\ UNCHANGED <<db, work, answer, server, clock, base, trouble>>

\* A slip: a context that is loaded takes the date the file has by now.
RestartAfresh ==
    /\ pc' = [t \in Threads |-> "idle"]
    /\ answer' = [t \in Threads |-> Waiting]
    /\ token' = [t \in Threads |-> Empty] /\ relinquish' = {}
    /\ lastEdit' = IF stored = NotEdited THEN NotEdited ELSE date
    /\ Noted(When(~Idle, "crashed"))
    /\ UNCHANGED <<local, stored, db, server, clock, base>>

\* The program ends and is started again: LoadEditedFilesList, which skips a file that
\* is not there.
Restart ==
    /\ pc' = [t \in Threads |-> "idle"]
    /\ answer' = [t \in Threads |-> Waiting]
    /\ token' = [t \in Threads |-> Empty] /\ relinquish' = {}
    /\ lastEdit' = IF file = NoFile THEN NotEdited ELSE stored
    /\ Noted(When(~Idle, "crashed"))
    /\ UNCHANGED <<local, stored, db, server, clock, base>>
-----------------------------------------------------------------------------
\* CEditItemsThread::_lockResource, then the download.

\* A slip: an item that could not be locked is edited all the same.
LockAnsweredUnchecked(t) ==
    /\ Answered(t, "lock")
    /\ \/ /\ Succeeded(t)
          /\ Goto(t, "props")
          /\ UNCHANGED <<token, relinquish, file, date, clock>>
       \/ ~Succeeded(t) /\ Download(t)
    /\ UNCHANGED <<opened, edits, db, server, base, trouble>>

LockAnswered(t) ==
    /\ Answered(t, "lock")
    /\ \/ /\ Succeeded(t)
          /\ Goto(t, "props")
          /\ UNCHANGED <<token, relinquish, local, edits, clock, trouble>>
       \/ ~Succeeded(t) /\ GiveUp(t)
    /\ UNCHANGED <<db, server, base>>

\* A slip: the token of the lock is not recorded.
PropsAnsweredUnrecorded(t) ==
    /\ Answered(t, "props")
    /\ \/ /\ Succeeded(t)
          /\ Download(t)
          /\ UNCHANGED <<opened, edits, trouble>>
       \/ ~Succeeded(t) /\ GiveUp(t)
    /\ UNCHANGED <<db, server, base>>

PropsAnswered(t) ==
    /\ Answered(t, "props")
    /\ \/ /\ Succeeded(t)
          /\ ItemLocked("data", answer[t].value)
          /\ \/ /\ Encoding /\ RezForksHidden
                /\ Goto(t, "exists") /\ SetToken(t, answer[t].value)
                /\ UNCHANGED <<relinquish, file, date, clock>>
             \/ ~(Encoding /\ RezForksHidden) /\ Download(t)
          /\ UNCHANGED <<opened, edits, trouble>>
       \/ ~Succeeded(t) /\ GiveUp(t) /\ UNCHANGED db
    /\ UNCHANGED <<server, base>>

\* Without an answer the fork counts as not there.
ExistsAnswered(t) ==
    /\ Answered(t, "exists")
    /\ \/ /\ Succeeded(t)
          /\ Goto(t, "lockRez")
          /\ UNCHANGED <<token, relinquish, file, date, clock>>
       \/ ~Succeeded(t) /\ Download(t)
    /\ UNCHANGED <<opened, edits, db, server, base, trouble>>

LockRezAnswered(t) ==
    /\ Answered(t, "lockRez")
    /\ Goto(t, IF Succeeded(t) THEN "propsRez" ELSE "rollback")
    /\ UNCHANGED <<token, relinquish, local, edits, db, server, clock, base, trouble>>

PropsRezAnswered(t) ==
    /\ Answered(t, "propsRez")
    /\ \/ Succeeded(t) /\ ItemLocked("rez", answer[t].value) /\ Download(t)
       \/ /\ ~Succeeded(t) /\ UNCHANGED db
          /\ Goto(t, "rollback")
          /\ UNCHANGED <<token, relinquish, file, date, clock>>
    /\ UNCHANGED <<opened, edits, server, base, trouble>>

\* A slip: the rollback leaves the item's entry in the token store.
RollbackAnsweredForgetful(t) ==
    /\ Answered(t, "rollback")
    /\ UNCHANGED db
    /\ GiveUp(t)
    /\ UNCHANGED <<server, base>>

RollbackAnswered(t) ==
    /\ Answered(t, "rollback")
    /\ IF Succeeded(t) THEN ItemUnlocked("data") ELSE UNCHANGED db
    /\ GiveUp(t)
    /\ UNCHANGED <<server, base>>

\* A slip: the file of a failed download is removed, but passes for the item's.
GetAnsweredUnchecked(t) ==
    /\ Answered(t, "get")
    /\ file' = IF Succeeded(t) THEN answer[t].value ELSE NoFile
    /\ base' = file'
    /\ UNCHANGED date /\ EditItems(TRUE)
    /\ Finish(t)
    /\ UNCHANGED <<db, server, clock, trouble>>

\* The body was written to the file as it came in.
GetAnswered(t) ==
    /\ Answered(t, "get")
    /\ clock < MaxClock /\ clock' = clock + 1
    /\ date' = clock'
    /\ IF Succeeded(t) THEN file' = answer[t].value /\ base' = file'
                       ELSE file' = Junk /\ UNCHANGED base
    /\ EditItems(Succeeded(t))
    /\ Noted(Reopening)
    /\ Finish(t)
    /\ UNCHANGED <<db, server>>
-----------------------------------------------------------------------------
\* CSaveToWebThread::_executeDAVTransaction.

\* A slip: the lock is kept.
PutAnsweredKeeping(t) ==
    /\ Answered(t, "put")
    /\ IF ~Succeeded(t) THEN Finish(t)
       ELSE Goto(t, "propsAfter") /\ UNCHANGED <<token, relinquish>>
    /\ UNCHANGED <<local, edits, db, server, clock, base, trouble>>

\* A failed upload ends the thread without a word.
PutAnswered(t) ==
    /\ Answered(t, "put")
    /\ IF ~Succeeded(t) THEN Finish(t)
       ELSE /\ Goto(t, IF t \in relinquish /\ token[t] # NoEntry THEN "unlock" ELSE "propsAfter")
            /\ UNCHANGED <<token, relinquish>>
    /\ UNCHANGED <<local, edits, db, server, clock, base, trouble>>

\* Whatever the answer, the token is forgotten.
UnlockAnswered(t) ==
    /\ Answered(t, "unlock")
    /\ ItemUnlocked("data")
    /\ Goto(t, "propsAfter")
    /\ UNCHANGED <<token, relinquish, local, edits, server, clock, base, trouble>>

\* The end of the thread: the editing is over, unless the file is in use then it is
\* deleted; or it goes on with the file as it is now.
Conclude(t) ==
    /\ Finish(t)
    /\ \/ /\ t \in relinquish /\ ~FileBusy(t)
          /\ file' = NoFile /\ date' = NoDate
          /\ StopEditingItem
       \/ /\ t \in relinquish /\ (FileBusy(t) \/ opened)
          /\ UNCHANGED <<file, date>>
          /\ StopEditingItem
       \/ /\ t \notin relinquish
          /\ UNCHANGED <<file, date>>
          /\ UpdateItemEditTime

PropsAfterAnswered(t) ==
    /\ Answered(t, "propsAfter")
    /\ IF Succeeded(t) THEN db' = AfterDataChange("data", answer[t].value) ELSE UNCHANGED db
    /\ \/ /\ Encoding
          /\ Goto(t, "putRez") /\ SetToken(t, db["rez"])
          /\ UNCHANGED <<relinquish, file, date, edits>>
       \/ ~Encoding /\ Conclude(t)
    /\ UNCHANGED <<opened, server, clock, base, trouble>>

\* Without a token for the fork the UNLOCK is built from a null pointer: the program
\* ends there, or sends whatever it finds.
PutRezAnswered(t) ==
    /\ Answered(t, "putRez")
    /\ \/ ~Succeeded(t) /\ Finish(t) /\ UNCHANGED <<file, date, edits, trouble>>
       \/ /\ Succeeded(t) /\ t \notin relinquish
          /\ Conclude(t) /\ UNCHANGED trouble
       \/ /\ Succeeded(t) /\ t \in relinquish
          /\ Goto(t, "unlockRez") /\ UNCHANGED <<token, relinquish, file, date, edits, trouble>>
    /\ UNCHANGED <<opened, db, server, clock, base>>

NullToken(t) ==
    /\ Answered(t, "putRez") /\ Succeeded(t)
    /\ t \in relinquish /\ token[t] = NoEntry
    /\ Restart

\* A slip: the fork's entry stays.
UnlockRezAnsweredForgetful(t) ==
    /\ Answered(t, "unlockRez")
    /\ UNCHANGED db
    /\ Conclude(t)
    /\ UNCHANGED <<opened, server, clock, base, trouble>>

UnlockRezAnswered(t) ==
    /\ Answered(t, "unlockRez")
    /\ ItemUnlocked("rez")
    /\ Conclude(t)
    /\ UNCHANGED <<opened, server, clock, base, trouble>>
-----------------------------------------------------------------------------
\* The editing application.
UserSaves ==
    /\ opened /\ file # NoFile /\ clock < MaxClock
    /\ clock' = clock + 1
    /\ file' = clock' /\ date' = clock'
    /\ Noted(When(\E t \in Threads : pc[t] \in SaveCalls, "during")
             \cup When(\E t \in Threads : pc[t] = "get", "race"))
    /\ UNCHANGED <<opened, edits, db, work, answer, server, base>>

\* The server (RFC 2518): a resource that is locked is written by who names the token.

Respond(t, a) == answer' = [answer EXCEPT ![t] = a]

MayWrite(f, value) ==
    IF value = NoEntry THEN lock[f] = Empty ELSE value # Empty /\ lock[f] = value

ServeLock(t, f) ==
    /\ \/ /\ lock[f] = Empty /\ issued < MaxLocks
          /\ issued' = issued + 1
          /\ lock' = [lock EXCEPT ![f] = issued + 1]
          /\ Respond(t, Ok(Empty))
       \/ lock[f] # Empty /\ Respond(t, Failed) /\ UNCHANGED <<issued, lock>>
    /\ UNCHANGED <<remote, forkThere, base, trouble>>

ServeProps(t, f) ==
    /\ Respond(t, IF f = "data" \/ forkThere THEN Ok(lock[f])
                  ELSE [status |-> "absent", value |-> Empty])
    /\ UNCHANGED <<server, base, trouble>>

ServeUnlock(t, f) ==
    /\ \/ /\ lock[f] # Empty /\ lock[f] = token[t]
          /\ lock' = [lock EXCEPT ![f] = Empty] /\ Respond(t, Ok(Empty))
       \/ /\ ~(lock[f] # Empty /\ lock[f] = token[t])
          /\ UNCHANGED lock /\ Respond(t, Failed)
    /\ UNCHANGED <<remote, forkThere, issued, base, trouble>>

ServeGet(t) == Respond(t, Ok(remote)) /\ UNCHANGED <<server, base, trouble>>

ServePut(t) ==
    /\ \/ /\ MayWrite("data", token[t])
          /\ remote' = file /\ base' = file
          /\ Respond(t, Ok(Empty))
          /\ Noted(When(remote # base, "overwrote"))
       \/ /\ ~MayWrite("data", token[t])
          /\ Respond(t, Failed) /\ Noted({"refused"})
          /\ UNCHANGED <<remote, base>>
    /\ UNCHANGED <<forkThere, lock, issued>>

ServePutRez(t) ==
    /\ \/ MayWrite("rez", token[t]) /\ forkThere' = TRUE /\ Respond(t, Ok(Empty)) /\ UNCHANGED trouble
       \/ /\ ~MayWrite("rez", token[t])
          /\ Respond(t, Failed) /\ Noted({"refused"})
          /\ UNCHANGED forkThere
    /\ UNCHANGED <<remote, lock, issued, base>>

Serve(t) ==
    /\ answer[t].status = "none"
    /\ CASE pc[t] = "lock" -> ServeLock(t, "data")
         [] pc[t] = "lockRez" -> ServeLock(t, "rez")
         [] pc[t] \in {"props", "propsAfter"} -> ServeProps(t, "data")
         [] pc[t] \in {"exists", "propsRez"} -> ServeProps(t, "rez")
         [] pc[t] \in {"unlock", "rollback"} -> ServeUnlock(t, "data")
         [] pc[t] = "unlockRez" -> ServeUnlock(t, "rez")
         [] pc[t] = "get" -> ServeGet(t)
         [] pc[t] = "put" -> ServePut(t)
         [] pc[t] = "putRez" -> ServePutRez(t)
         [] OTHER -> FALSE
    /\ UNCHANGED <<local, edits, db, work, clock>>

\* The call fails for the client, whether it was processed or not (CDAVRequest).
CallFails(t) ==
    /\ pc[t] # "idle" /\ answer[t].status \in {"none", "ok"}
    /\ Respond(t, Failed)
    /\ Noted({"lost"})
    /\ UNCHANGED <<local, edits, db, work, server, clock, base>>

\* Other clients lock, unlock, write and create; a lock of this client runs out.
OtherLocks(f) ==
    /\ lock[f] = Empty /\ (f = "data" \/ forkThere)
    /\ lock' = [lock EXCEPT ![f] = Theirs]
    /\ UNCHANGED <<local, edits, db, work, answer, remote, forkThere, issued, clock, base, trouble>>

LockEnds(f) ==
    /\ lock[f] # Empty
    /\ lock' = [lock EXCEPT ![f] = Empty]
    /\ Noted(When(lock[f] # Theirs, "broken"))
    /\ UNCHANGED <<local, edits, db, work, answer, remote, forkThere, issued, clock, base>>

OtherWrites ==
    /\ lock["data"] \in {Empty, Theirs} /\ clock < MaxClock
    /\ clock' = clock + 1 /\ remote' = clock'
    /\ UNCHANGED <<local, edits, db, work, answer, forkThere, lock, issued, base, trouble>>

ForkAppears ==
    /\ ~forkThere /\ forkThere' = TRUE
    /\ UNCHANGED <<local, edits, db, work, answer, remote, lock, issued, clock, base, trouble>>
-----------------------------------------------------------------------------
Continue(t) ==
    \/ LockAnswered(t) \/ PropsAnswered(t) \/ ExistsAnswered(t) \/ LockRezAnswered(t)
    \/ PropsRezAnswered(t) \/ RollbackAnswered(t) \/ GetAnswered(t)
    \/ PutAnswered(t) \/ UnlockAnswered(t) \/ PropsAfterAnswered(t)
    \/ PutRezAnswered(t) \/ NullToken(t) \/ UnlockRezAnswered(t)

Next ==
    \/ \E t \in Threads :
          \/ StartEdit(t) \/ (\E over \in BOOLEAN : StartSave(t, over))
          \/ Continue(t) \/ Serve(t) \/ CallFails(t)
    \/ RemoveSelectedFiles \/ Restart
    \/ UserSaves \/ OtherWrites \/ ForkAppears
    \/ \E f \in Forks : OtherLocks(f) \/ LockEnds(f)

Spec == Init /\ [][Next]_vars
-----------------------------------------------------------------------------
\* A change to a file that is being edited is not forgotten: it is offered for upload
\* or on its way, also after the program was ended or crashed.  (A failed or refused
\* upload, a change during one, a second thread, or opening the file again before a
\* restart is enough to lose it.)
ChangesAreNotForgotten ==
    trouble \subseteq {"broken", "crashed", "overwrote"} /\ Unsaved =>
        FileHasChanged \/ \E t \in Threads : pc[t] = "put"

\* A change would still be recognised after a restart, if threads crossed or if calls
\* failed: the list on disk has the item, with a date that is not the file's.  (Both
\* together, a save during an upload, a crash, or opening the file again can undo that.)
RestartRemembers ==
    /\ trouble \cap {"during", "crashed", "reopened"} = {}
    /\ ~({"race", "lost"} \subseteq trouble)
    /\ Idle
    => /\ stored = NotEdited <=> lastEdit = NotEdited
       /\ Unsaved => stored # date

\* If the server has locks, an upload never replaces what another client wrote after
\* the download: that takes a lost lock, a failed or refused call, or a crash.
UploadsSpareForeignChanges ==
    SupportsLocking /\ "overwrote" \in trouble =>
        trouble \cap {"lost", "refused", "race", "broken", "crashed"} # {}

\* While an item is edited this client holds its lock, and the token is on record,
\* unless a lock was lost, a call failed or was refused, or threads crossed.
EditedMeansLocked ==
    trouble \subseteq {"during", "reopened", "overwrote"} /\ SupportsLocking /\ Idle
        /\ lastEdit # NotEdited =>
        lock["data"] \in Tokens /\ db["data"] = lock["data"]

\* No lock of this client is left on the server without its token on record, and no
\* token without its lock, whatever the user does and the server refuses.
LocksAreOnRecord ==
    trouble \subseteq {"refused", "during", "reopened", "overwrote"} /\ Idle =>
        \A f \in Forks : db[f] # NoEntry \/ lock[f] \in Tokens => db[f] = lock[f]

\* When the user said that the editing is over and the thread got to its end, neither
\* the item nor its fork is locked by this client any more, or on record, whatever happened
\* before, short of a call that failed and of threads that crossed.
RelinquishReleases ==
    [][\A t \in Threads :
          /\ trouble' \cap {"lost", "race"} = {} /\ t \in relinquish /\ pc'[t] = "idle"
          /\ lastEdit # NotEdited /\ lastEdit' = NotEdited
          => \A f \in Forks : lock'[f] \notin Tokens /\ db'[f] = NoEntry]_vars

\* An incomplete download is never uploaded in place of the item.
NoJunkIsUploaded == remote = Junk => "race" \in trouble
=============================================================================
