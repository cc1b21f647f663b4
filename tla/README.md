# Goliath: a verification development

Goliath is a WebDAV client for the Macintosh (RFC 2518: files of a web server are listed,
locked, copied, edited in place). Of the repository's 14350 files most are vendored
(OpenSSL, expat, MSL) or a port of the framework it is built on; its own logic is in
`src/davlib` (the WebDAV library) and `src/davgoliath/source` (the application).
This directory holds TLA+ modules of that logic, the TLC configurations that check them on
small instances, and theorems that TLAPS proves for all instances.

    tlasany M.tla                              parses a module
    tlc -config X.cfg M                        runs a configuration of module M
    tlapm M_proofs.tla                         checks the proofs of a component

`PROJECT.json` is the index: components, runs, the source lines of every definition, hazards,
findings and theorems. Some sources have CR line ends and are one line to most tools; a
reference to them gives line 1 and names the function.

Contents: [1 Inventory](#1-inventory), [2 Plan](#2-plan), [3 Modules](#3-modules),
[4 Runs](#4-runs), [5 Proofs](#5-proofs), [6 Findings](#6-findings),
[7 Left out](#7-what-the-models-leave-out).

## 1 Inventory

### Processes and scheduling

Everything runs in cooperative threads (PowerPlant `LThread`). A thread gives up the processor
only inside a network call, so the code between two requests is atomic with respect to all
other threads, the event loop and the user. Every user command starts a helper thread
(`CFLVThread`), which owns *copies* of the selected rows and one `CDAVRequest`. Threads meet in
the token store, in the list of edited files, in the windows (through broadcast messages), in
local files, and on the server.

| Part | State | Operations | Hard behaviour |
|---|---|---|---|
| **WebDAV request** `CDAVRequest`, `StConnection` | persistent connection or none, `mCancel`, `mAttemptRetry`, output file | thirteen transactions, each a retry loop around an HTTP exchange, and a test of the status | exceptions at any point of an exchange, repetition of requests that are not idempotent, cancellation from another thread |
| **HTTP exchange** `LHTTP11Connection` | connection state, response being read | connect, send, wait, read a body by length, chunks or close, follow redirects, keep or close | an exchange given up half-way on a connection that lives on, interim answers, a broken body |
| **Client lock store** `CClientLockManager` | URI to lock token, saved at every change | `ItemLocked`, `ItemUnlocked`, `GetLockToken` | has to agree with the server across failures and restarts |
| **Lock, unlock, delete, listing threads** | copies of rows, where in the sequence of requests | LOCK, properties, the same for the resource fork, rollback; UNLOCK; DELETE | failure between the steps, two threads on one item, other clients |
| **Collection windows** `CDAVTableWindow` | rows with lock status and token | refresh, Claim Lock, update from broadcasts | many copies of one item |
| **External edits** `ExternalEditorManager`, contexts, dialogs | edited files with the date last seen, on disk too | open, check for changes, stop | changes are known only by modification dates; restart |
| **Edit and save-back threads** `CEditItemsThread`, `CSaveToWebThread` | copies, tokens, Relinquish flag | lock, download, open; upload, unlock, delete the local file | partial failure, saves during an upload, a second command |
| **Upload thread** `CUploadFileThread` | files and folders left to write, what it knows of tokens, `mUnlockItem`, answers to "replace?" | exists, confirm, MKCOL, PUT of both forks, UNLOCK, properties | stale answers, cancellation, tokens mixed up between files, early unlock |
| **Download, download-and-lock and trash threads** | place in the tree, what was fetched | list, LOCK, GET of both forks, merge, recurse, DELETE | part of a tree fails and the rest is deleted |
| **Rename, duplicate and new-collection threads** | copy of a row, the new name | MOVE, COPY, MKCOL, and MOVE of the fork | several at a time on names they have looked up before; the fork fails after the file |
| **Copy-and-move thread** `CCopyMoveThread` | | | cannot be reached, see section 7 |
| **Property threads and editors** | property sheet | PROPFIND, PROPPATCH | little |
| **Tree walker, item algorithms** | pure | prune, unique and truncated names, walk | boundaries of lengths and prefixes |
| **XML and multistatus parsing** | expat callbacks | build the tree | truncated documents |
| **Windows, application, dialogs, tables, SSL glue, file formats, vendored code** | user interface or byte formats | | not modelled |

### How they interact

A thread calls its `CDAVRequest`; the request calls back (`_OnDavItemCreated`,
`_OnDavItemDataChange`, `_OnFillItem...`) when items and properties arrive, and those callbacks
change the token store. The lock, edit and delete threads call the lock manager
and broadcast `msg_DAVItemChanged`; every window that shows the item takes over the
new copy. `CSaveToWebThread` and `CEditItemsThread` call the manager of external edits.
A progress dialog calls `CancelTransaction` on a request of another thread.

### What makes the parts correct

* *Request*: SUCCESS means the server did this transaction, and a delivered file is the resource, or one knows how
  it comes not to be; a request is repeated only when its answer was lost or the connection could not be closed after it;
  a connection that a request goes out on is in step; a transaction ends.
* *Locks*: the token store says exactly which locks this client holds; an item and its resource fork
  are locked together or not at all; rows tell the truth; another client's lock is not released.
* *Edits*: a user's change is not forgotten; an upload does not replace what another
  client wrote, nor put an incomplete file in the item's place; whatever is edited
  is locked; when the user is done the locks are gone.
* *Uploads*: what is replaced was asked about, what was asked for arrives, a file and its fork together;
  the client's own locks neither get in the way nor get lost.
* *Downloads and the trash*: nothing is deleted that was not fetched; a download is complete or says
  that it is not; locks that were taken are on record.
* *Rename, duplicate, new folder*: the look for a free name finds one; forks stay with their files; the window
  shows what there is.

`hazards` in `PROJECT.json` lists what can go wrong and a test would hardly reach, at its line,
with the properties that cover it.

## 2 Plan

| Order | Module | Content | State |
|---|---|---|---|
| 1 | `DAVRequest` | a request over a connection: retry, cancellation, framing | 4 runs, 9 theorems |
| 2 | `ClientLocks` | token store, rows, lock/unlock/delete/list threads, server | 2 runs, 7 theorems |
| 3 | `EditSessions` | edit and save-back threads, list of edited files | 1 run, 9 theorems |
| 4 | `DAVCall` | what a transaction is to its caller; `DAVRequest` implements it | a property of `request_write`, 1 theorem |
| 5 | `Uploads` | the upload thread over a tree of folders | 1 run, 9 theorems |
| 6 | `Downloads` | download, download-and-lock and trash threads | 2 runs, 8 theorems |
| 7 | `FileCommands` | rename, duplicate, new collection, several at a time | 2 runs, 5 theorems |

**Composition.** `DAVCall` is the joint: `DAVRequest` implements it, and all modules of threads are
written against it. There a transaction is one step between a request and its answer (`Serve`), and `CallFails`
may turn any answer into a failure, whether the server did the work or not. Each of these modules has the state
its threads share: the token store, rows and the server in `ClientLocks`, `Uploads` and `Downloads`; the list of
edited files in `EditSessions`; the window in `FileCommands`.

**What could come next.** A listing that runs beside an upload; invariants of `DAVCall` carried over to `DAVRequest` by
the refinement.

## 3 Modules

A module has the code's names for state and functions where TLA+ allows. A definition that says
"A slip:" is a variant with a plausible mistake; no next-state relation uses it. It is there to show
that the properties notice the mistake (`mutants` in `PROJECT.json`).

### DAVRequest

One `CDAVRequest` and the transactions run on it one after another. `pc` walks through the loop of a
transaction: `open` is the constructor of `StConnection`, `connect` to `after` are
`LHTTP11Connection::DoHTTPMethod`, `failed` is its `catch (...)`, `leave` and `unwind` the two
ways into the destructor of `StConnection`, `judge` the test of the status code.

| Definition | Code |
|---|---|
| `persistent`, `conn` | `m_connection # nil`; what holds of the connection: open, `mWasClosed`, the peer is there, an exchange on it was not finished (`dirty`), and why the handler has not closed it: a body was left behind an interim answer (`bare`), or the handler's `Disconnect()` threw (`stuck`) |
| `Begin`, `OpenConnection`, `Leave`, `Unwind`, `Judge`, `...Status` | the frame of each transaction in `CDAVRequest.cpp` |
| `SendRequest`, `SendDone`, `SendCancelled`, `ReadHeader`, `ReadBody`, `ReadBodyCancelled` | `SendCommandWithReply`, `SendData`, `WaitResponse`, `ReadBuffered`, which stop *without an error* when cancelled |
| `ReadBody`, `ReadBodyFails` | the body, by its framing: after an interim answer it is read only if it has a length (`interimBare`: it has none); only where it ends by closing is an error swallowed, and only one that is a disconnect |
| `FinishMethod`, `FinishFails`, `CatchMethod`, `DestroyStConnection` | close or keep; `Disconnect()` may throw, after a complete answer and in the handler; `mWasClosed`; deletion of the connection and `mAttemptRetry` |
| `Serve`, `NetworkChanges`, `PeerCloses` | the server and the network (external) |
| `served`, `reply`, `past` | history the properties need; the code has none |

### DAVCall

The contract the other modules rely on, in six actions: a caller issues a call; the server processes it, a
second time only after a mishap; a redirection starts over; the call returns. `SUCCESS` needs to have been
processed, `CANCEL` a cancellation, and a call issued after one is not processed at all. `DAVRequest` implements it under
the mapping `waiting <- pc # "idle"`, `outcome <- result`, `done <- served`,
`mishaps <- past \cap {"lost", "unclosed", "misread"}`, `cancelled <- mCancel`, `doomed <- "muted" \in past`
(`Call`, `ImplementsDAVCall`). The mishaps are: an answer was `lost`; it was read to its end and `Disconnect()` threw after
it (`unclosed`), which the loop repeats as well; it was taken from a connection that is out of step (`misread`), and may be
another call's. `DAVCall` says nothing of the data a call brings. `Downloads`, where the data matters, therefore lets a GET
succeed with something else than the resource (`garbled`). A SUCCESS that is `misread` is left out of the modules of threads.

### ClientLocks

One item of a collection and its resource fork (`._name`), any number of threads and windows. A
thread is the call it waits for (`pc`), its copy of the row (`copyToken`, `copyLocal`) and the
answer. `Serve` and `CallFails` make the answer, `...Answered` is the code from an answer to the next request,
including every call that changes the store or broadcasts. `CallFails` is the contract of `DAVRequest`: a
call may fail for the client whether the server did the work or not. `Restart` may happen at
any moment and keeps what the preferences file holds. The server follows RFC 2518: LOCK on what
exists and is free, UNLOCK and DELETE only with the lock's token.

`trouble` records what went wrong, so that a property can name its condition: `lost` (a call failed,
or the program ended in one), `race` (two threads at a time, other than two that lock),
`broken` (the server dropped a lock of this client), `created` (a resource reappeared), `claimed`
(the user claimed a foreign lock), `stolen` (a foreign lock was released). It is a list
of the conditions under which the code keeps its promises: a property allows every
kind it survives, and each kind it excludes has a counterexample of its own.

### EditSessions

One item that is edited in another application. `file` and `date` are the local file and its
modification date, `lastEdit` is `mLastEditTime` of its `ExternalEditContext` (`NotEdited`: there is
none), `stored` is the same in the file on disk. Contents are named by the time of the write
that made them (`clock`), so that "the server has what the user saved" is an equation; `Junk` is a
download that did not end well.

| Definition | Code |
|---|---|
| `StartEdit`, `LockAnswered` ... `RollbackAnswered`, `Download`, `GetAnswered`, `GiveUp` | `CEditItemsThread`: an item edited already is only opened; else it is locked with its fork, and downloaded; the application is started in any case |
| `StartSave`, `PutAnswered` ... `UnlockRezAnswered`, `Conclude` | `ExternalEditorUI::CheckForExternalEdits` and `CSaveToWebThread`: the date is taken over *before* the upload; the fork's UNLOCK with no token on record reads a null pointer (`NullToken`) |
| `EditItems`, `SaveEditedFilesList`, `UpdateItemEditTime`, `StopEditingItem`, `Restart` | `ExternalEditorManager`: the list on disk gets the date each file has *at that moment* |
| `RemoveSelectedFiles` | `LocalEditsDialog` |
| `UserSaves`, `OtherWrites`, `OtherLocks`, `LockEnds`, `ForkAppears` | the editing application, other clients, lock timeouts (external) |

`trouble` plays the same role as in `ClientLocks`, and in the modules that follow.

### Uploads

One `CUploadFileThread` at a time writes a selection, item by item, to the collection of a window. `todo` is what
is left, with the members of folders put in front as they are found, so that `Head(todo)` is under way and
the recursion of the code is a list.

An item is known by the URL it is written to. On PowerPC the check asks for another one if the name is not ASCII: it
transcodes the name (line 148 tests `__POWERPC__`), the PUT does not (line 303 tests `__POWERPC`, which no compiler of the project
defines), and `_ProcessFolder` transcodes the whole path, UTF-8 or not (line 231). `Misnamed` is the set of such items, empty on
68k, where neither macro is defined. Their check may answer anything (`Checked`, `ServeCheck`), and such a folder is asked for
and made with its own folder not found by its name (`Home`, `ServeCreate`).

| Definition | Code |
|---|---|
| `UploadFSSpecVector`, `UploadFSSpec`, `Synchronize` | the two constructors and their callers; the one for a single file leaves `mUnlockItem` as it finds it, here any value |
| `CheckAnswered`, `Alert` | `_executeDAVTransaction`: nothing more is asked once something is in the way, and a failed check counts as a no |
| `ExistsAnswered`, `CreateAnswered`, `PropsFolderAnswered`, `Descend` | `_ProcessFolder`: a folder is made if there is none; its members follow |
| `Begin`, `held`, `token` | the token that goes along: the command's (`given`), one looked up, or none. Once one was `found`, `mHasLockToken` is set for the whole thread while `mLockToken` stays empty |
| `PutAnswered`, `UnlockAnswered`, `PutRezAnswered`, `UnlockRezAnswered`, `PropsRezAnswered`, `PropsAnswered` | `_ProcessFile`: data, unlock, fork, unlock, rows |
| `CancelOperation`, `DropAnswered`, `muted` | canceling sets `mCancel`; with a single transaction it also cancels the request, for good (finding `request_cancel`) |
| `Serve`, `CallFails`, `OtherWrites`, ... | the server and other clients (external) |

### Downloads

`mode` says which of the three threads runs. `rest` are the selected items left, `todo` the resources to fetch for
the first of them, with what listings brought put in front. `local` and `merged` are what is on disk of a resource: its
data, and its fork in the file it belongs to.

| Definition | Code |
|---|---|
| `Download`, `MoveItemsToTrash`, `PruneItemVector` | the commands; the trash prunes a selection by the beginnings of URLs, which `BeginsWith` gives as pairs, so that "/a" swallows "/ab/" as in the code |
| `ServeGet` | `GetResource`, which also succeeds with a body that broke off unnoticed, or with a part of it ahead of the whole (`garbled`) |
| `Begin`, `Fetch`, `Get`, `Done`, `TopDone` | `_downloadResource`: a failure inside a folder is passed over, and the folder is done all the same; one of a selected item ends a download and not the trash |
| `ListAnswered`, `ExistsAnswered`, `GetAnswered`, `GetRezAnswered` | the walk; a failed listing is an empty folder |
| `LockAnswered` ... `RollbackAnswered` | `CDownloadAndLockItemsThread`: lock, properties, the same for the fork, before each download |
| `DeleteAnswered` | `CMoveItemsToTrashThread`: DELETE, then the row goes |
| `ServeDelete` | RFC 2518: a folder is deleted but for what is locked inside; 207 passes for success |

### FileCommands

`job[t]` is the command of thread `t`, with its copy of the row as it was when the command was given; any number
of threads run at a time. `rows` counts the rows of each kind, since two rows for one item are a fault this
module is about.

| Definition | Code |
|---|---|
| `Started`, `DAVItemRenamed`, `MoveAnswered`, `ExistsAnswered`, `MoveRezAnswered` | `CRenameResourceThread`: the window changes first and is changed back after a refusal; the fork is looked for and moved in either case, with Overwrite: T |
| `ProbeAnswered`, `CopyAnswered` | `CDuplicateItemsThread`: the first free name; the copy has no fork |
| `CheckAnswered`, `CreateAnswered` | `CCreateCollectionThread` |
| `PropsAnswered` | the new item is broadcast with the properties that were read, or without |
| `NamesParent` | `CDAVRequest::CreateDirectory` cuts a URL at its last delimiter, which is at its end |

## 4 Runs

| Run | Configuration | Question | Distinct states |
|---|---|---|---|
| `request_write` | `MCDAVRequestWrite` | PUT, DELETE, LOCK with cancellation, network failures, three framings: what SUCCESS, a retry, a kept connection and a cancelled request mean; is a transaction a call; does it end once the host answers again | 484 000 |
| `request_read` | `MCDAVRequestRead` | GET and listings with redirects, interim answers and bodies ended by the close: what is in the file | 4 573 000 |
| `locks` | `MCClientLocks` | two threads, two windows, both forks | 405 000 |
| `edits` | `MCEditSessions` | two threads, locking and forks: changes, locks and what is uploaded | 837 000 |
| `uploads` | `MCUploads` | a file beside a folder with a file in a folder in it, uploaded again and again with locks of this client and of others; one item is misnamed | 526 000 |
| `downloads` | `MCDownloads` | the same tree downloaded, locked and moved to the trash | 789 000 |
| `commands` | `MCFileCommands` | two threads rename, duplicate and make folders under three names | 488 000 |
| `request_cancel`, `request_get`, `locks_local`, `trash`, `new_folder` | | findings, section 6 | |

What the properties say, in a line each; their comments say it in full.

* `SuccessIsTheServersAnswer`: the verdict belongs to this transaction, unless the answer was read from a connection out of step. `GetDeliversTheResource`: the file is the resource, but for five cases: a body ended by closing broke off; a body without length after an interim answer was not read; an attempt was repeated and the whole stands behind its part; the handler's `Disconnect()` threw and what came in passes for the whole; the answer was another's.
* `RepeatedOnlyIfAnswerLost`, `RetryGetsANewConnection`, `KeptConnectionIsInStep`, `CancelledRequestIsMute`: retry and reuse.
* `ReturnsOnceTheNetworkIsUp`: the loop has no limit, but ends against a server that answers. `ImplementsDAVCall`: the refinement.
* `StoreMatchesTheServer`, `RowsAgreeWithTheStore`, `ForksAreLockedTogether`: store, rows, item and fork agree whenever no thread runs.
* `RecordedTokensAreOurs`: failing calls, claimed locks and reappearing resources record no foreign token. `ForeignLocksAreSpared`: no lock of another client is released by a DELETE or a rollback.
* `ChangesAreNotForgotten`, `RestartRemembers`: a change is offered or on its way, also after a crash.
* `UploadsSpareForeignChanges`, `NoJunkIsUploaded`: what an upload replaces and by what.
* `EditedMeansLocked`, `LocksAreOnRecord`: the locks of an edit while it lasts. `RelinquishReleases`: giving up leaves none, even after refused calls, ended locks and crashes.
* Uploads. `OverwritesAreConfirmed`: nothing the check knows by its name is replaced unasked. `UploadsAreComplete`: an upload that was not disturbed brought everything. `OwnLocksDoNotHinder`: the right token goes along, but for the code's slips. `LocksAreOnRecord`: tokens, locks and rows. `UnlockingIsAsked`: who gives up locks. `CancelDeletesNothing`: the DELETE after a cancellation.
* Downloads. `TrashedFilesAreSaved`, `TrashedFoldersAreSaved`: what the trash deletes it has, unless another client wrote meanwhile or a GET succeeded with something else. `DownloadsAreComplete`: every file of the selection that is there, with its fork. `RowsAgree`, `LocksAreOnRecord`: after the command.
* Commands. `NamesAreFoundFree`: the name found free is free unless somebody was faster. `ForksStayWithTheirFiles`, `RowsTellTheTruth`.

**Bounds.** *DAVRequest*: the bounds are the sets of methods, codes and framings and one redirect; the
number of transactions, retries, cancellations and network failures is unbounded. The three
methods of `request_write` stand for the others because the code of the loop is the same and only the
status test differs; the codes hold one that each method takes for success and one for failure.
*ClientLocks*: two threads are the smallest number that interleaves and two windows the smallest
with a copy that is not the thread's own; two tokens (`MaxLocks`) are a lock of this client and one of
another, or one for each fork. *EditSessions*: two threads, six writes (`MaxClock`) and two
tokens: a download takes two writes (an empty file, then a full one), which leaves
three for the user, another client and a second download. *Uploads*, *Downloads*: a file beside a folder that holds a folder with one file
is the smallest tree in which one item follows another, a folder comes before a file, a member can fail
where its folder does not, and a walk goes down twice; the URL of the outer folder begins with the file's.
Selections are a file alone, a file and a folder, and in `MCDownloads` a folder with one that is in it. The number of commands is unbounded. *FileCommands*: three names (two files and the copy of one,
each there or not), two threads, two tries for the name of a copy; `MaxRows` stops commands when two rows are alike,
which the properties would have reported. Threads, and in `ClientLocks` windows, are
symmetric where there are several; all properties of these runs are invariants or action properties.

**How much trouble at a time.** All configurations but `MCEditSessions` and those of `DAVRequest` stop at states in which two kinds of trouble have met
(`OneTrouble`), `MCEditSessions` at three kinds, or at a race and another kind (`TwoTroubles`). The
properties are evaluated on those states as well, but not beyond. Most properties of `ClientLocks` allow
at most one kind; the exception, `RecordedTokensAreOurs`, is proved for all. Those of `EditSessions`
were also checked with any two kinds at `MaxClock = 6` and with any three at `MaxClock = 5`. The theorems of section 5
have no such limit. `MCUploads` and `MCDownloads` let
other clients act during a command and not between two (`OthersRest`): any state they could leave then is an
initial one. What they do to a resource waits for a call about it, or about what it is in or is in it, as no other call is
served differently for it. In `MCUploads` the file at the top is misnamed, folders are not; the theorems are for any `Misnamed`.
`MCDownloads` has the rows of the window in one order (`RowsAreSorted`). Both, and `MCFileCommands`, let the commands under way
end after a trouble and begin no others (`LastCommand`, `LastCommands`); `MCUploads` goes on after those troubles that leave
something behind for the next upload: a lock that ended, a token without a lock, a fork without its file.

**Deadlock** is checked in all runs but those of `Downloads`: an idle client can always be given a command, and none is found;
there everything may have gone to the trash.

**Fairness.** Only `DAVRequest` has it. `WF(Client)`: a thread that waits in an endpoint call comes back,
because PowerPlant's endpoints time out and the scheduler serves every thread that yields.
`WF(Serve)`: a server that was sent a request on an open connection answers. The network has none:
`ReturnsOnceTheNetworkIsUp` assumes `<>[]netUp`. The threads of the other modules have no liveness
property of their own: that they are sequences, or walks bounded by a tree, and end if their calls do is proved instead
("Termination" in section 5). The one loop is the search for
the name of a copy, which in the code has no end if every name is taken and in the model ends with `CopyNames`.

## 5 Proofs

| Module | Theorems |
|---|---|
| `DAVRequest_proofs` | `TypeCorrect`, `RetryIsOnANewConnection`, `CancelledRequestStaysMute`, `RepeatsOnlyLostAnswers`, `SuccessIsOwnAnswer`, `KeptConnectionInStep`, `GetDelivers`, `RequestImplementsCall`, `TransactionsRunDown`, `NobodyWaitsInVain` |
| `ClientLocks_proofs` | `TypeCorrect`, `RecordedTokensStayOurs`, `ThreadsRunDown` |
| `ClientLocksStore_proofs` | `StoreIsTrue`, `ForksGoTogether`, `OthersKeepTheirLocks`, `RowsAreTrue` |
| `EditSessions_proofs` | `TypeCorrect`, `UploadsAreWhole`, `ThreadsRunDown` |
| `EditSessionsLocks_proofs` | `SessionLocksAreOnRecord`, `EditsAreLocked`, `ForeignChangesAreSpared`, `ChangesAreKept`, `RelinquishingReleases`, `ChangesAreRecalled` |
| `Uploads_proofs` | `TypeCorrect`, `NothingIsDropped`, `LocksAreKept`, `TokensMatchLocks`, `OwnLocksAreNamed`, `OverwritesAreAsked`, `UploadsAreWhole`, `EachWaitsOnce`, `UploadsRunDown` |
| `Downloads_proofs` | `TypeCorrect`, `FilesAreSaved`, `FoldersAreSaved`, `LocksAreNoted`, `RowsFollow`, `DownloadsAreWhole`, `EachWaitsOnce`, `WalksRunDown` |
| `FileCommands_proofs` | `TypeCorrect`, `LooksFindFreeNames`, `ForksFollow`, `WindowIsTrue`, `JobsRunDown` |

Each is `Spec => []P`, or `Spec => P` for an action property and the refinement, for every value of the constants that
`ConstantsAssumption` admits: the methods, codes and framings are sets of the known kinds, bounds are natural
numbers, the number of threads and windows is arbitrary, and so are the trees and selections of `Uploads` and
`Downloads` and the names of `FileCommands`. The last four theorems of `Uploads_proofs` and those of
`Downloads_proofs` also use `TreeAssumption`: no item is in two folders, and in `Uploads` what is selected goes into the collection
of the window itself, in `Downloads` no folder is in itself. The last two of `Uploads_proofs` alone use `DirectoryAssumption`: there
are finitely many items, no folder is in itself, and a directory and a selection name each item once. Trees are of any depth. The proofs know none of the constraints of the
configurations: any number of troubles may meet, in any order. TLC evaluates the assumptions in every run.

* **DAVRequest.** `IInv` is `TypeOK` with five parts. `AnswerInv` is the heart: where a status test lies
  ahead, a code in the response is the one the server answered with; where the exchange has not got that far,
  or has failed, the code is zero, which no test takes for success. `SuccessIsTheServersAnswer` alone
  is not inductive: it speaks only of the state after the test. `MuteInv` says that a
  cancelled request never gets past `SendData`; `RepeatInv` accounts for a request that was processed:
  its answer is on the way, was read, was lost, or could not be closed after; `RetryInv` excludes a persistent connection
  while a retry is due; `ConnectionInv` says where a connection with an unfinished exchange on it may be: ahead of
  the handler, or closed by it (from which `KeptConnectionIsInStep`). `FileInv` follows the file of a GET: unless an answer was lost or could not be closed after it is empty until the
  attempt that delivers. The refinement follows action by action under the same invariant: most steps
  stutter, `Serve` is `Process`, and what the invariant says of processed requests is what `Process` and
  `Mishap` ask.
* **ClientLocks.** `RecordedTokensAreOurs` needs to know why the token in an answer is this client's:
  the lock was granted and nobody released it meanwhile (`Holding`), so the token read is ours (`Told`).
  Nobody releases it because any two threads at work, if they are no race, are both about to lock
  (`Alone`). A lock that ran out or a race ends the claim, a claimed lock or a reappeared resource does
  not, and `trouble` never shrinks.
* **ClientLocks, store and server** (`ClientLocksStore_proofs`, on top of the former). An idle client's store agrees
  with the server, but in the middle of an operation it does not, so `StoreInv` says for every call a thread may wait in,
  and for its answer, how far store, server and copy are apart: `DataPhase` for the item, `RezPhase` for its fork,
  `ServerInv` says of the server that only what exists is locked. Without a race at most one thread has changed or
  is about to change a token, the others being bystanders whose LOCK was not granted (`OneActor`), so one thread's phase accounts for every difference, and when it ends there is none
  (`IdleIsSettled`). The proof goes action by action; the actions of the server and of other clients are
  shown not to disturb any phase, or to be trouble.
* **EditSessions.** The types alone need two facts: an upload has a file until it is answered
  (`PutHasFile`: whoever would delete the file finds it busy), and an answer carries what the call asked for
  (`ReadTypes`). For `NoJunkIsUploaded`, `Whole` links the list in memory, the list on disk and the file: what
  is edited has a complete file, what is on disk is edited, and a thread that is about to
  download is the first to do so, which holds as long as one thread is at work at a time (`Solo`).
* **EditSessions, locks and changes** (`EditSessionsLocks_proofs`, on top of the former, from which it has that a thread at
  work is alone). Four invariants, each under its own list of excluded troubles. `LockInv` says per call what is
  locked, with which token the thread works, and whose entry in the store lags behind. `EditInv`: what is edited is
  locked and the server's version is the one the file was made from (`Safe`), or a thread is giving the lock back
  (`Leaving`); it uses `LockInv` to know that the PUT under the lock is not refused. `ChangeInv` follows the three
  dates: `Dates` orders them, so that a save has a date of its own, and `Remembered` says that the date on
  disk betrays a change, which is why a crash does no harm. `LeaveInv` holds also after crashes and lost locks: a
  thread that gives back knows the token of every lock there still is (`Named`), or there is none (`Free`).
  `ChangesAreRecalled` is about threads that may cross, where none of this holds. `ListInv` has that the lists in memory and
  on disk agree and that a listed item has a file. `RecallInv`: a changed file has another date than
  the one on disk, unless a GET is about to replace it, and past a PUT there is no change.
* **Uploads.** A cancelled upload sends DELETE only through a request that was cancelled with it (`CancelInv`), because
  only a single transaction is given up in the middle. `AskInv` follows `mUnlockItem` from the command to the
  UNLOCK. That every lock has a token (`RecordInv`) needs that a token is dropped only when the properties, read
  last, show no lock. The converse, and the tokens that PUTs carry, hold only while nobody interferes: `CalmInv` says
  for each call what the thread may rely on, from the token the command gave (`GivenPart`) to what
  was written (`PutPart`, `ForkPart`) and what the answer means (`AnswerPart`), and names each token without a lock:
  left over (`Left`) or about to be dropped by the file under way (`Busy`). `SingleInv` says that a job with a given
  token, or one that unlocks, is about one file and nothing else. `OwnLocksDoNotHinder` is
  inductive once these are at hand (`Context`).
  For `OverwritesAreConfirmed`, `ConfirmInv` says that nothing of the selection is there that was not asked about, up to
  the alert, and that afterwards the walk stays within a part of the tree in which nothing is anybody else's (`Clear`). That the
  question covers what is in the folders needs `TreeInv` (no item is there without its folder) and `OrphanInv`
  (no fork without its file). For `UploadsAreComplete`, `CompleteInv` says that what is wanted is on the server, ahead in
  `todo`, or within a folder that is (`Covered`), and what each call is known to have done.
* **Downloads.** What a folder holds at any depth, `Within`, is the smallest set that is closed under `Children`, which stands for
  the recursion of the code and needs no induction: that it is closed (`WithinClosed`) and the smallest (`WithinLeast`) gives that
  it is transitive, that it splits into the children and what is within them (`WithinSplit`), and that the insides of two
  items that are not in each other have nothing in common (`WithinApart`). `TreeThere`: what is on the server is in folders that are there, also after
  a DELETE that kept what was locked; without it a listing could leave out a folder of which something is left.
  `FileSafe`: from the answer to the GET of a selected file until its DELETE, what is on disk is what the
  server has, unless another client wrote since. `FolderSafe`: as long as no call failed, each resource within a
  selected folder is fetched, still in `todo`, or within a folder that is; when the DELETE is sent `todo` is used up. `Shape`
  says that in the trash `todo` starts with the item itself and goes on with members of it, without which the walk could
  run past what the DELETE is about. `LockInv` says per call which resources the thread is sure to have locked
  (`SureOf`) and which of them are not on record yet (`Unsettled`). `RowInv`: an item that has a row and is not there
  is the one just deleted, whose row goes next. `CopyInv`: what lies behind in the selection was brought, or is
  ahead again in `todo` (`Left`), with what each call is known to have brought so far (`Brought`).
* **FileCommands.** `ForkInv`: two renames that do not overlap have no name in common (`Apart`), and a fork whose file has
  another name belongs to a rename that is about to move it (`JobIsSafe`). `RowInv`: a name that no job is about has one
  row if it is there; for a name that a job is about, `OwnCount` says how many there are at each of its calls. Both need that
  jobs which do not overlap touch disjoint sets of names. `LookInv` is for
  `NamesAreFoundFree`: as long as nobody else is about the same names, a name found free stays free until the request that
  was to follow has its answer (`StillFree`).

* **Termination** (`EachStepCounts` in each module, an action property that no configuration has). That a command ends takes two
  things: it cannot go on for ever, and somebody takes the next step. The first is proved, as a number
  that every step of anybody leaves alone or lowers; if it has several parts, a later one counts only where those before are equal.
  In `DAVRequest`, while the network is up: the attempts that can still end in an exception (`AttemptsLeft`: at most one on a
  kept connection whose other end is gone and the failed one it leaves, since the retry that follows opens a new one, for which `IInv`
  is needed), the redirects left, and the calls left, with the server's answer among them. In `ClientLocks` and `EditSessions`:
  the calls and answers ahead of a thread. In `FileCommands`: the names left to try, and the calls. In `Downloads`: the
  items left, the resources that are ahead at any depth (`Ahead`), and the calls for the one under way. In `Uploads`: the phase
  (checks, question, walk), what is ahead (`Due`), and the calls. For the two walks a folder is replaced by what a listing of it
  brings, which is less only if nothing of it waits elsewhere: so the invariants `NothingWaitsTwice` (`Apart`: what waits is distinct
  and not within anything else that waits) come first. The next call is made by the thread itself; of the second thing, only that
  a request never waits with nothing on the wire (`NobodyWaitsInVain`) is a safety property.

**Only model-checked.** Every invariant, action property and refinement of the passing runs is proved. Out of the
prover's reach are liveness and everything that needs ENABLED: of `ReturnsOnceTheNetworkIsUp` the measure is
proved, that fairness brings the next step is left to TLC. So is induction over data. No module of a proof declares a RECURSIVE operator.

## 6 Findings

Each is a run that checks one sentence of the repository and ends in a counterexample.

| Run | The text | What the code does |
|---|---|---|
| `request_cancel` | `CDAVRequest.h`: "Cancel the current transaction; currently only works for PutResource and GetResource" | `mCancel` is never reset; every later transaction on the request, of any method, is not sent |
| `request_get` | `CDAVRequest.cpp:1420`: "places the content of this into a file" | a retried GET appends to what was written before and returns SUCCESS |
| `locks_local` | `CDAVItem.h:250`: "returns true if the current lock on this item is bound to the current user/computer" | a listed lock counts as local if there is any token on record |
| `trash` | `Changes.txt`, V0.30: "Dragging to the Trash Can will download the selected items to the trash and then delete them from the server" | after one failed call inside a folder the folder is deleted all the same, its contents not fetched |
| `new_folder` | `TODO.txt`, done: "integreate locking into mkcol (if immediate parent href is locked, send that lock)" | the token goes out for the URL of the new collection; in a locked collection no folder can be made |

Further weaknesses the models show, where no text promises otherwise; the properties exclude them by
name in `trouble`:

* a cancelled PUT goes on retrying as long as the host cannot be reached;
* after a 100 a chunked answer is not read: GET returns SUCCESS with an empty file, and the body is left on the connection (`bare`);
* an exception of `Disconnect()` after a complete answer is retried like any other, so the server processes the request twice (`unclosed`);
* on PowerPC items with other than ASCII names are checked under one URL and written under another, and replace what is there
  unasked (`misnamed`); a folder in such a folder is not found (`misplaced`);
* a GET that succeeded with a part of the file is good enough for the trash, which then deletes the resource (`garbled`);
* a reply to a PROPFIND that was sent before a LOCK drops the new token from the store (`race`);
* a failed or refused upload of an edited file is never offered again, as the file's date was taken over before
  (`lost`, `refused`); a save during an upload is lost the same way, or with the file (`during`);
* opening a changed file once more saves the list with the new date; after a restart the change is unknown (`reopened`);
* two Edit commands at a time for an item that is not edited yet download it twice; the second download
  replaces the file under the editor, and a check for changes then uploads what there is of it (`race`);
* the rollback of one thread's lock releases an item that another thread is editing (`race`);
* giving up an edit when the fork has no token on record builds the UNLOCK from a null pointer (`NullToken`);
* once a token was found on record, every later file of the same upload is sent with an empty one and refused
  (`emptied`); a new fork is refused in a locked collection, after its file was written (`parent`);
* Upload File gives up the lock of what it replaces if uninitialised memory says so (`garbage`);
* an upload that unlocks does so before the fork goes out, and leaves the fork's token on record while forks are
  hidden (`leftover`), which spoils the next upload of that fork (`stale`);
* a 207 on DELETE counts as success: the row goes, the folder stays (`partial`);
* a refused rename still moves the fork, and over another one (`taken`, `refused`, `forkLost`); a second rename that is given before the
  first has moved the fork leaves it behind (`overlap`); with encodings off forks never follow; duplicates have no fork;
* the tree walker, which counts the files of a download where a server forbids to list a whole tree at once, runs after every failure
  but that one (`CDownloadFileThread.cpp`, the test for `kHTTPForbidden` is inverted); only the progress bar sees it.

## 7 What the models leave out

* *DAVRequest*: authentication, cookies, proxies; the contents of requests and documents (parsing
  is a choice of two outcomes); several requests at a time, which share nothing.
* *ClientLocks*: selections of several items (a thread treats one after the other); lock owners, depth
  and shared locks; sorting and hiding of rows; a window closed while a thread points to it.
* *EditSessions*: a GET that succeeds with something else than the resource (`Downloads` has it); the token of the parent collection that an upload sends along; manual Lock and Unlock
  commands during an edit (they are `ClientLocks`); an application that makes a deleted file anew; two
  writes in one second count as one, as dates have that resolution; a PUT sends the contents the file has
  when the server processes it.
* *Uploads*: two uploads at a time; temporary files and the formats of forks; the progress window; rows other than
  those of the files; a lock on the collection is a choice at each PUT.
* *Downloads*: names on the local disk (an item is saved as itself; their conversion and truncation is in `hazards`);
  two downloads at a time; the tree walker.
* *FileCommands*: locks of single items, which make a request refused (`Refuse`); the forms of the names for copies.

Not modelled, and why:

* *Copy and move* (`CCopyMoveThread`): it starts from Paste, which is commented out where commands are
  enabled (`CDAVTableWindow.cp:882`), and Paste would cast the XML text of the clip to a pointer. There is no
  behaviour of the program to model.
* *Property threads and editors*: a sheet over two transactions that are in `DAVRequest`; no state outlives them.
* *Parsing, items, contexts, tables, windows, connection documents, forks and encodings*: values, byte formats
  and drawing. What the threads need of them (that an item has a token, that a fork is hidden, that a document does
  not parse) is state or a choice in the modules.
* *Vendored code*: OpenSSL, expat, ConvertUTF, MSL, the ports of the framework. It is nearly all of the 255 548
  lines of code in the repository, which is why the modules stand for a small share of these. Of the client's own
  logic, part of it in files with CR line ends which count as one line each, the threads, the request and the
  lock store are modelled.
