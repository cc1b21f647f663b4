------------------------------ MODULE Uploads ------------------------------
(***************************************************************************)
(* CUploadFileThread: files and folders chosen by the user are written to a *)
(* collection of the server, or one file over an item.  The thread asks     *)
(* first whether something is in the way, shows an alert if so, and then    *)
(* writes everything, each file with its resource fork, with the lock tokens*)
(* on record.  One thread uploads at a time; the user can cancel it, and     *)
(* other clients work on the server all the while.                          *)
(***************************************************************************)
EXTENDS Naturals, Sequences, FiniteSets

CONSTANTS Files,           \* what can be uploaded; each has its own place on the server
          Folders,
          Children,        \* what a folder holds, in the order of the directory
          Selections,      \* what the user can drop on a window, as sequences
          Misnamed,        \* on PowerPC, the items with other than ASCII in their path that
                           \* are not written where they are looked for (see Checked, Home)
          Encoding,        \* ~_EncodingDisabled(): resource forks are uploaded
          RezForksHidden,  \* what _RezForksAreHidden() can answer; the user can change it
          MayLockTop       \* this client can hold (and know) the lock of the window's collection

Items == Files \cup Folders
Forks == {"data", "rez"}
Resources == (Items \X {"data"}) \cup (Files \X {"rez"})

ASSUME ConstantsAssumption ==
    /\ Files \cap Folders = {}
    /\ Children \in [Folders -> Seq(Items)]
    /\ Selections \subseteq Seq(Items) \ {<<>>} /\ Misnamed \subseteq Items
    /\ {Encoding, MayLockTop} \subseteq BOOLEAN /\ RezForksHidden \subseteq BOOLEAN

VARIABLES
    content,   \* the server: who wrote a resource, or "none"
    lock,      \* the server: whose lock a resource has
    record,    \* CClientLockManager: the resources with a token
    row,       \* the row of a file in the window; "local": mIsLocallyOwnedLock is set
    pc,        \* the call the thread waits for
    answer,    \* what came back
    pick,      \* mSpecVector
    todo,      \* what is left of it, with what was found in folders so far
    qualified, \* mResourceFullyQualfied
    held,      \* mHasLockToken: set by the command, found on record, or not at all
    token,     \* the token the current call is sent with
    unlock,    \* mUnlockItem
    overwrite, \* willOverwrite; the user was asked if it is set when writing starts
    created,   \* resourceCreated
    canceled,  \* mCancel
    muted,     \* the request is canceled as well and sends nothing any more
    trouble    \* what went wrong so far; the code has no such thing

server == <<content, lock>>
client == <<record, row>>
job == <<pick, qualified, unlock>>
loop == <<todo, held, token, overwrite, created>>
vars == <<server, client, pc, answer, job, loop, canceled, muted, trouble>>

FolderCalls == {"exists", "create", "propsFolder"}
FileCalls == {"put", "unlock", "putRez", "unlockRez", "propsRez", "props",
              "drop", "dropBoth", "dropRez"}
Answers == {"waiting", "ok", "created", "absent", "locked", "canceled", "failed"}

\* lost: a call failed for the client, whether the server did the work or not; raced:
\* another client made or removed something during an upload; ended: a lock of this
\* client ran out; declined, canceled: by the user; orphan: a fork was left without its
\* file; unasked: something was replaced without a question; misnamed: so was something
\* the check did not find by its name; misplaced: a folder's own was not found by its
\* name; dropped: a resource was deleted; garbage: mUnlockItem held a value nobody had
\* set; leftover: a fork was unlocked, its token kept.  An upload was refused because:
\* foreign: another client has
\* the lock; emptied: the token was empty; stale: there is no such lock (any more);
\* unknown: the token was not named; parent: that of the collection was not named;
\* gone: the folder is not there.
Refusals == {"foreign", "emptied", "stale", "unknown", "parent", "gone"}
Troubles == {"lost", "raced", "ended", "declined", "canceled", "orphan", "unasked", "misnamed",
             "misplaced", "dropped", "garbage", "leftover"} \cup Refusals

TypeOK ==
    /\ content \in [Resources -> {"none", "theirs", "mine"}]
    /\ lock \in [Resources -> {"free", "ours", "theirs"}]
    /\ record \subseteq Resources
    /\ row \in [Files -> {"none", "plain", "local"}]
    /\ pc \in {"idle", "check", "alert"} \cup FolderCalls \cup FileCalls
    /\ answer \in Answers
    /\ pick \in Seq(Items) /\ todo \in Seq(Items)
    /\ pc \in {"check"} \cup FolderCalls \cup FileCalls => todo # <<>>
    /\ held \in {"no", "given", "found"}
    /\ token \in {"none", "own", "empty"}
    /\ {qualified, unlock, overwrite, created, canceled, muted} \subseteq BOOLEAN
    /\ trouble \subseteq Troubles
    /\ pc \in FolderCalls => Head(todo) \in Folders
    /\ pc \in FileCalls => Head(todo) \in Files

Idle == pc = "idle"
Tops == {pick[n] : n \in DOMAIN pick}
When(condition, fact) == IF condition THEN {fact} ELSE {}
Noted(facts) == trouble' = trouble \cup facts

Inside(d) == {Children[d][n] : n \in DOMAIN Children[d]}
Above(i) == {d \in Folders : i \in Inside(d)}

\* All that is in a folder, at any depth: the smallest set with its children and theirs.
Within == [d \in Folders |->
    {i \in Items : \A S \in SUBSET Items :
        Inside(d) \subseteq S /\ (\A e \in S \cap Folders : Inside(e) \subseteq S) => i \in S}]

\* What holds of every directory tree, and what is selected goes into the collection of
\* the window itself; the path of what is in a folder begins with the folder's.
ASSUME TreeAssumption ==
    /\ \A d, e \in Folders : d # e => Inside(d) \cap Inside(e) = {}
    /\ \A d \in Misnamed \cap Folders : Inside(d) \subseteq Misnamed
    /\ \A s \in Selections : \A n \in DOMAIN s : Above(s[n]) = {}

\* There is an end to it, nothing is in itself, and a directory and a selection name each item
\* once.  Only the length of the walk depends on that.
NamesOnce(s) == \A m, n \in DOMAIN s : m # n => s[m] # s[n]
ASSUME DirectoryAssumption ==
    /\ IsFiniteSet(Files) /\ IsFiniteSet(Folders)
    /\ \A d \in Folders : d \notin Within[d] /\ NamesOnce(Children[d])
    /\ \A s \in Selections : NamesOnce(s)

\* An item is known by the URL it is written to.  The check asks about the UTF-8 of a
\* name that is then sent as it is in the file system, and for a folder the whole path
\* is converted, what is UTF-8 already included: so the check can be about another
\* item, and a folder be sent for with its own somewhere else, if anywhere.
Checked(i) == qualified \/ i \notin Misnamed
Home(i) == IF i \in Misnamed \cap Folders THEN {} ELSE Above(i)

There(i) == content[<<i, "data">>] # "none"
ParentThere(i) == Home(i) = {} \/ \E d \in Home(i) : There(d)

\* Nothing of the selection was uploaded yet: any of it can be there, and this client
\* may have locked what is there, as the rows show.
Init ==
    /\ content \in [Resources -> {"none", "theirs"}]
    /\ \A i \in Items : There(i) => ParentThere(i)
    /\ lock \in [Resources -> {"free", "ours"}]
    /\ \A r \in Resources : lock[r] = "ours" => content[r] # "none" /\ r[1] \in Files
    /\ record = {r \in Resources : lock[r] = "ours"}
    /\ row = [f \in Files |-> IF content[<<f, "data">>] = "none" THEN "none"
                              ELSE IF lock[<<f, "data">>] = "ours" THEN "local" ELSE "plain"]
    /\ pc = "idle" /\ answer = "waiting"
    /\ pick = <<>> /\ todo = <<>>
    /\ held = "no" /\ token = "none"
    /\ qualified = FALSE /\ unlock = FALSE /\ overwrite = FALSE /\ created = FALSE
    /\ canceled = FALSE /\ muted = FALSE
    /\ trouble = When(\E f \in Files : content[<<f, "data">>] = "none" /\ content[<<f, "rez">>] # "none",
                      "orphan")
-----------------------------------------------------------------------------
\* The thread issues its next call, or ends.
Call(name) == pc' = name /\ answer' = "waiting"

Finish ==
    /\ Call("idle")
    /\ pick' = <<>> /\ todo' = <<>> /\ held' = "no" /\ token' = "none"
    /\ qualified' = FALSE /\ unlock' = FALSE /\ overwrite' = FALSE /\ created' = FALSE
    /\ canceled' = FALSE /\ muted' = FALSE

Continue(name) == Call(name) /\ UNCHANGED <<job, loop, canceled, muted>>

\* Only one transaction in all: then canceling cancels the request, too.
Single == Len(pick) = 1 /\ (pick[1] \in Folders => Children[pick[1]] = <<>>)

\* A slip: every item is taken for a file.
BeginFile(rest) ==
    /\ Call("put") /\ todo' = rest
    /\ token' = IF <<Head(rest), "data">> \in record' THEN "own" ELSE "none"
    /\ UNCHANGED <<job, held, overwrite, created, canceled, muted>>

\* A slip: the token of the item is not looked up.
BeginUnnamed(rest) ==
    /\ Call(IF Head(rest) \in Folders THEN "exists" ELSE "put") /\ todo' = rest
    /\ token' = IF held = "given" THEN "own" ELSE "none"
    /\ UNCHANGED <<job, held, overwrite, created, canceled, muted>>

\* _uploadFSSpec, for the head of rest.  _ProcessFile takes the thread's token; or it
\* looks the item's up, and notes that there is one but not which.  What the properties
\* of the item before it said is on record by now.
Begin(rest) ==
    LET f == Head(rest)  known == <<f, "data">> \in record' IN
    /\ todo' = rest
    /\ UNCHANGED <<job, overwrite, created, canceled, muted>>
    /\ \/ f \in Folders /\ Call("exists") /\ UNCHANGED <<held, token>>
       \/ /\ f \in Files /\ Call("put")
          /\ held' = IF held = "no" /\ known THEN "found" ELSE held
          /\ token' = CASE held = "given" -> "own"
                        [] held = "found" -> "empty"
                        [] OTHER -> IF known THEN "own" ELSE "none"

\* The item is done, one way or the other; canceling takes effect here.
Advance == IF canceled \/ Len(todo) = 1 THEN Finish ELSE Begin(Tail(todo))

\* _ProcessFolder: the first child is on its way before canceling is noticed.
Descend ==
    LET members == Children[Head(todo)] IN
    IF members = <<>> THEN Advance ELSE Begin(members \o Tail(todo))

Answered(name) == pc = name /\ answer # "waiting"

\* A slip: the token stays when the lock is gone.
AfterDataChangeKept(r) == record' = record

\* CFLVDAVRequest::_OnDavItemDataChange: the token of a lock that is gone is dropped.
AfterDataChange(r) == record' = IF answer = "ok" THEN record \ {r} ELSE record

\* _itemAdded: a new item gets a row, the row of an old one is updated.
ItemAdded(f, local) ==
    row' = IF (created /\ ~qualified) \/ row[f] # "none"
           THEN [row EXCEPT ![f] = IF local THEN "local" ELSE "plain"]
           ELSE row
-----------------------------------------------------------------------------
\* The commands.  The constructor for one file leaves mUnlockItem as it finds it.

Start(items, whole, has, release) ==
    /\ Idle
    /\ Call("check")
    /\ pick' = items /\ todo' = items
    /\ qualified' = whole /\ held' = has
    /\ unlock' = release
    /\ token' = "none" /\ overwrite' = FALSE /\ created' = FALSE
    /\ canceled' = FALSE /\ muted' = FALSE
    /\ UNCHANGED <<server, client>>

\* Files and folders are dropped on the window.
UploadFSSpecVector(items) == Start(items, FALSE, "no", FALSE) /\ UNCHANGED trouble

\* Upload File: what mUnlockItem holds is whatever was in the memory.
UploadFSSpec(f) ==
    \E release \in BOOLEAN :
        Start(<<f>>, FALSE, "no", release) /\ Noted(When(release, "garbage"))

\* Synchronize (release = FALSE) and Unlock and Upload: a file is written to the item
\* that is selected.
Synchronize(f, release) ==
    /\ row[f] # "none"
    /\ \/ row[f] = "local" /\ Start(<<f>>, TRUE, "given", release) /\ UNCHANGED trouble
       \/ /\ row[f] = "plain"
          /\ \E found \in BOOLEAN :
                /\ Start(<<f>>, TRUE, "no", found)
                /\ Noted(When(found, "garbage"))

\* The button of the progress dialog.  A PUT under way is given up; the checks are sent
\* by a request of their own, which is not canceled.
CancelOperation ==
    /\ pc \notin {"idle", "alert"} /\ ~canceled
    /\ canceled' = TRUE /\ muted' = Single
    /\ answer' \in IF ~Single THEN {answer}
                   ELSE IF pc \in {"put", "putRez"} THEN {"canceled", "failed"}
                   ELSE IF pc # "check" /\ answer = "waiting" THEN {"failed"} ELSE {answer}
    /\ Noted({"canceled"})
    /\ UNCHANGED <<server, client, pc, job, loop>>
-----------------------------------------------------------------------------
\* _executeDAVTransaction: is anything in the way?  Once something is, nothing more is
\* asked; an answer that failed counts as a no.

\* A slip: only the answer for the last item counts.
CheckAnsweredLast ==
    /\ Answered("check")
    /\ overwrite' = (answer = "ok")
    /\ UNCHANGED <<server, client, job, held, token, created, canceled, muted, trouble>>
    /\ \/ Len(todo) > 1 /\ ~canceled /\ Call("check") /\ todo' = Tail(todo)
       \/ (Len(todo) = 1 \/ canceled) /\ Call("alert") /\ todo' = pick

CheckAnswered ==
    /\ Answered("check")
    /\ overwrite' = (answer = "ok")
    /\ UNCHANGED <<server, client, job, held, token, created, canceled, muted, trouble>>
    /\ \/ /\ Len(todo) > 1 /\ answer # "ok" /\ ~canceled
          /\ Call("check") /\ todo' = Tail(todo)
       \/ /\ Len(todo) = 1 \/ answer = "ok" \/ canceled
          /\ Call("alert") /\ todo' = pick

\* Canceling ends the thread; otherwise the user is asked if need be.
Alert ==
    /\ pc = "alert"
    /\ UNCHANGED <<server, client>>
    /\ \/ ~canceled /\ Begin(todo) /\ UNCHANGED trouble
       \/ /\ canceled \/ overwrite
          /\ Finish /\ Noted({"declined"})

\* A slip: what is in a folder is only uploaded if the folder is new.
ExistsAnsweredSkipping ==
    /\ Answered("exists")
    /\ UNCHANGED <<server, client, trouble>>
    /\ IF answer = "absent" THEN Continue("create") ELSE Advance

\* _ProcessFolder.
ExistsAnswered ==
    /\ Answered("exists")
    /\ UNCHANGED <<server, client, trouble>>
    /\ CASE answer = "ok" -> Descend
         [] answer = "absent" -> Continue("create")
         [] OTHER -> Advance

CreateAnswered ==
    /\ Answered("create")
    /\ UNCHANGED <<server, client, trouble>>
    /\ IF answer = "created" THEN Continue("propsFolder") ELSE Advance

PropsFolderAnswered ==
    /\ Answered("propsFolder")
    /\ UNCHANGED <<server, client, trouble>>
    /\ IF canceled THEN Finish ELSE Descend
-----------------------------------------------------------------------------
\* _ProcessFile.

\* The file is on the server: its row is next, unless the user canceled.
PastForks(new) ==
    IF canceled THEN Finish
    ELSE /\ Call("props") /\ created' = new
         /\ UNCHANGED <<job, todo, held, token, overwrite, canceled, muted>>

PastData(new) ==
    IF ~Encoding THEN PastForks(new)
    ELSE /\ Call("putRez") /\ created' = new
         /\ token' = IF <<Head(todo), "rez">> \in record THEN "own" ELSE "none"
         /\ UNCHANGED <<job, todo, held, overwrite, canceled, muted>>

\* The token for the UNLOCK is the command's; one found on record is not in mLockToken.
PutAnswered ==
    /\ Answered("put")
    /\ UNCHANGED <<server, client, trouble>>
    /\ \/ answer = "canceled" /\ Continue("drop")
       \/ answer = "failed" /\ Advance
       \/ /\ answer \in {"ok", "created"} /\ unlock
          /\ Call("unlock") /\ created' = (answer = "created")
          /\ token' = IF held = "given" THEN "own" ELSE "empty"
          /\ UNCHANGED <<job, todo, held, overwrite, canceled, muted>>
       \/ /\ answer \in {"ok", "created"} /\ ~unlock
          /\ PastData(answer = "created")

UnlockAnswered ==
    /\ Answered("unlock")
    /\ PastData(created)
    /\ UNCHANGED <<server, client, trouble>>

\* The fork has a row of its own, too, if forks are shown.
PastRez(shown) ==
    /\ shown => FALSE \in RezForksHidden /\ Head(todo) \in Tops
    /\ ~shown => TRUE \in RezForksHidden \/ Head(todo) \notin Tops
    /\ IF shown THEN Continue("propsRez") ELSE PastForks(created)

\* A slip: the fork's lock is given up whatever the command was.
PutRezAnsweredUnlocking ==
    /\ Answered("putRez")
    /\ UNCHANGED <<server, client, trouble>>
    /\ \/ answer = "canceled" /\ Continue("dropBoth")
       \/ answer = "failed" /\ Advance
       \/ /\ answer \in {"ok", "created"}
          /\ IF token = "own" THEN Continue("unlockRez")
             ELSE \E shown \in BOOLEAN : PastRez(shown)

PutRezAnswered ==
    /\ Answered("putRez")
    /\ UNCHANGED <<server, client, trouble>>
    /\ \/ answer = "canceled" /\ Continue("dropBoth")
       \/ answer = "failed" /\ Advance
       \/ /\ answer \in {"ok", "created"}
          /\ IF unlock /\ token = "own" THEN Continue("unlockRez")
             ELSE \E shown \in BOOLEAN : PastRez(shown)

\* Nothing takes the token from the record, unless the fork's properties are read.
UnlockRezAnswered ==
    /\ Answered("unlockRez")
    /\ \E shown \in BOOLEAN :
          PastRez(shown) /\ Noted(When(answer = "ok" /\ ~shown, "leftover"))
    /\ UNCHANGED <<server, client>>

PropsRezAnswered ==
    /\ Answered("propsRez")
    /\ AfterDataChange(<<Head(todo), "rez">>)
    /\ PastForks(created)
    /\ UNCHANGED <<server, row, trouble>>

\* After an XML error the row is left alone; otherwise it is shown as locked by this
\* client as soon as any token was found, unless the lock was to be given up.
PropsAnswered ==
    /\ Answered("props")
    /\ AfterDataChange(<<Head(todo), "data">>)
    /\ \/ Head(todo) \in Tops /\ ItemAdded(Head(todo), ~unlock /\ held # "no")
       \/ (answer = "failed" \/ Head(todo) \notin Tops) /\ UNCHANGED row
    /\ Advance
    /\ UNCHANGED <<server, trouble>>

\* What was written of a canceled file is to be deleted.
DropAnswered ==
    /\ \/ Answered("drop") /\ Finish
       \/ Answered("dropBoth") /\ Continue("dropRez")
       \/ Answered("dropRez") /\ Finish
    /\ UNCHANGED <<server, client, trouble>>
-----------------------------------------------------------------------------
\* The server (RFC 2518), for the resource a call is about.  The window's collection can
\* be locked by this client, too: the token goes along with a file, but not with a new fork.

\* A slip: it does.
SendsAnyway == TRUE

\* A canceled request sends nothing (CDAVRequest).
Sends == pc = "check" \/ ~muted
Respond(a) == answer' = a

Refused(r, topLocked) ==
    When(token = "empty", "emptied")
    \cup When(token = "own" /\ lock[r] # "ours", "stale")
    \cup When(token = "none" /\ lock[r] = "ours", "unknown")
    \cup When(token = "none" /\ lock[r] = "theirs", "foreign")
    \cup When(content[r] = "none" /\ ~ParentThere(r[1]), "gone")
    \cup When(content[r] = "none" /\ Above(r[1]) = {} /\ topLocked
              /\ r[2] = "rez" /\ r \notin record, "parent")

ServePut(r) ==
    \E topLocked \in {FALSE, MayLockTop} :
       \/ /\ Refused(r, topLocked) # {}
          /\ Respond("failed") /\ Noted(Refused(r, topLocked))
          /\ UNCHANGED server
       \/ /\ Refused(r, topLocked) = {}
          /\ content' = [content EXCEPT ![r] = "mine"]
          /\ Respond("created") \/ (content[r] # "none" /\ Respond("ok"))
          /\ Noted(When(content[r] = "theirs" /\ ~overwrite,
                        IF Checked(r[1]) THEN "unasked" ELSE "misnamed"))
          /\ UNCHANGED lock

ServeCreate(d) ==
    /\ \/ /\ There(d) \/ ~ParentThere(d) \/ d \in Misnamed
          /\ Respond("failed") /\ Noted(When(d \in Misnamed, "misplaced"))
          /\ UNCHANGED content
       \/ /\ ~There(d) /\ ParentThere(d)
          /\ Respond("created") /\ content' = [content EXCEPT ![<<d, "data">>] = "mine"]
          /\ UNCHANGED trouble
    /\ UNCHANGED lock

ServeUnlock(r) ==
    /\ IF token = "own" /\ lock[r] = "ours"
       THEN Respond("ok") /\ lock' = [lock EXCEPT ![r] = "free"]
       ELSE Respond("failed") /\ UNCHANGED lock
    /\ UNCHANGED <<content, trouble>>

ServeDelete(r) ==
    /\ IF content[r] = "none" \/ lock[r] # "free"
       THEN Respond("failed") /\ UNCHANGED <<content, trouble>>
       ELSE /\ Respond("ok") /\ content' = [content EXCEPT ![r] = "none"]
            /\ Noted({"dropped"})
    /\ UNCHANGED lock

ServeProps(r) ==
    /\ Respond(IF content[r] = "none" THEN "failed"
               ELSE IF lock[r] = "ours" THEN "locked" ELSE "ok")
    /\ UNCHANGED <<server, trouble>>

ServeExists(i) ==
    /\ Respond(IF There(i) THEN "ok" ELSE "absent")
    /\ UNCHANGED <<server, trouble>>

ServeCheck(i) ==
    /\ IF Checked(i) THEN ServeExists(i) ELSE answer' \in {"ok", "absent"}
    /\ UNCHANGED <<server, trouble>>

Serve ==
    /\ answer = "waiting" /\ Sends
    /\ LET i == Head(todo) IN
       CASE pc = "check" -> ServeCheck(i)
         [] pc = "exists" -> ServeExists(i)
         [] pc = "create" -> ServeCreate(i)
         [] pc \in {"propsFolder", "props"} -> ServeProps(<<i, "data">>)
         [] pc = "propsRez" -> ServeProps(<<i, "rez">>)
         [] pc = "put" -> ServePut(<<i, "data">>)
         [] pc = "putRez" -> ServePut(<<i, "rez">>)
         [] pc = "unlock" -> ServeUnlock(<<i, "data">>)
         [] pc = "unlockRez" -> ServeUnlock(<<i, "rez">>)
         [] pc \in {"drop", "dropBoth"} -> ServeDelete(<<i, "data">>)
         [] pc = "dropRez" -> ServeDelete(<<i, "rez">>)
         [] OTHER -> FALSE
    /\ UNCHANGED <<client, pc, job, loop, canceled, muted>>

\* The call fails for the client, whether it was processed or not (CDAVRequest); one of
\* a canceled request is not sent at all.
CallFails ==
    /\ pc \notin {"idle", "alert"} /\ answer \notin {"failed", "canceled"}
    /\ \/ Sends /\ Respond("failed") /\ Noted({"lost"})
       \/ /\ muted /\ pc # "check" /\ answer = "waiting"
          /\ answer' \in {"failed"} \cup When(pc \in {"put", "putRez"}, "canceled")
          /\ UNCHANGED trouble
    /\ UNCHANGED <<server, client, pc, job, loop, canceled, muted>>

\* Other clients make, change, remove and lock things; a lock of this client runs out.
OtherWrites(r) ==
    /\ lock[r] # "ours" /\ ParentThere(r[1]) /\ content[r] # "theirs"
    /\ r[2] = "rez" => There(r[1])
    /\ content' = [content EXCEPT ![r] = "theirs"]
    /\ Noted(When(~Idle, "raced"))
    /\ UNCHANGED <<lock, client, pc, answer, job, loop, canceled, muted>>

OtherDeletes(i) ==
    LET gone == {r \in Resources : r[1] = i \/ i \in Home(r[1])} IN
    /\ There(i) /\ \A r \in gone : lock[r] # "ours"
    /\ \A d \in Folders : i \in Home(d) => ~There(d)
    /\ content' = [r \in Resources |-> IF r \in gone THEN "none" ELSE content[r]]
    /\ lock' = [r \in Resources |-> IF r \in gone THEN "free" ELSE lock[r]]
    /\ Noted(When(~Idle, "raced"))
    /\ UNCHANGED <<client, pc, answer, job, loop, canceled, muted>>

OtherLocks(r) ==
    /\ lock[r] = "free" /\ content[r] # "none" /\ r[1] \in Files
    /\ lock' = [lock EXCEPT ![r] = "theirs"]
    /\ UNCHANGED <<content, client, pc, answer, job, loop, canceled, muted, trouble>>

LockEnds(r) ==
    /\ lock[r] # "free"
    /\ lock' = [lock EXCEPT ![r] = "free"]
    /\ Noted(When(lock[r] = "ours", "ended"))
    /\ UNCHANGED <<content, client, pc, answer, job, loop, canceled, muted>>
-----------------------------------------------------------------------------
Command ==
    \/ \E items \in Selections : UploadFSSpecVector(items)
    \/ \E f \in Files : UploadFSSpec(f) \/ \E release \in BOOLEAN : Synchronize(f, release)

Thread ==
    \/ CheckAnswered \/ Alert \/ ExistsAnswered \/ CreateAnswered \/ PropsFolderAnswered
    \/ PutAnswered \/ UnlockAnswered \/ PutRezAnswered \/ UnlockRezAnswered
    \/ PropsRezAnswered \/ PropsAnswered \/ DropAnswered

Next ==
    \/ Command \/ CancelOperation \/ Thread \/ Serve \/ CallFails
    \/ (\E i \in Items : OtherDeletes(i))
    \/ \E r \in Resources : OtherWrites(r) \/ OtherLocks(r) \/ LockEnds(r)

Spec == Init /\ [][Next]_vars
-----------------------------------------------------------------------------
\* Nothing of anybody's that the check knows by its name is replaced before the user has
\* agreed to it, however the selection and its folders are nested: another client must
\* have been faster, a check must have failed, or a fork have been left behind without
\* its file.  What is written to another URL than was asked about is replaced unasked
\* indeed (misnamed).
OverwritesAreConfirmed ==
    "unasked" \in trouble => trouble \cap {"raced", "lost", "orphan"} # {}

\* A thread that got to its end without anything going wrong has put every file of the
\* selection, every folder and what is in it, however deep, and every resource fork on the
\* server.
UploadsAreComplete ==
    [][/\ ~Idle /\ Idle' /\ trouble' \subseteq {"ended", "orphan", "garbage", "leftover", "misnamed"}
       => \A i \in Tops \cup UNION {Within[d] : d \in Tops \cap Folders} :
             /\ content'[<<i, "data">>] # "none"
             /\ i \in Files => /\ content'[<<i, "data">>] = "mine"
                               /\ Encoding => content'[<<i, "rez">>] = "mine"]_vars

\* The locks of this client do not hinder its own uploads: the right token goes along.
\* The exceptions are the code's: a file after one whose token was on record is sent
\* with none in it; a fork's token outlives its lock; a new fork goes without the
\* token of its collection; and what others or the network do to a lock.
OwnLocksDoNotHinder ==
    /\ "unknown" \notin trouble
    /\ "stale" \in trouble =>
          trouble \ {"stale", "declined", "orphan", "garbage", "misnamed", "misplaced"} # {}
    /\ "parent" \in trouble => MayLockTop /\ Encoding
    /\ "emptied" \in trouble => \E s \in Selections : Len(s) > 1 \/ s[1] \in Folders

\* Nothing is deleted after the upload was canceled, although the thread tries: what was
\* at its place before, somebody else's file, say, stays.
CancelDeletesNothing == "dropped" \notin trouble

\* A token is on record for every lock of this client.  Between uploads there is a lock
\* for every token, but those of forks that were unlocked while forks are hidden, and of
\* files unlocked before their fork was refused; rows show which files are locked.
LocksAreOnRecord ==
    /\ \A r \in Resources : lock[r] = "ours" => r \in record
    /\ Idle /\ trouble \cap {"lost", "raced", "ended", "canceled"} = {} =>
        /\ \A r \in record :
              \/ lock[r] = "ours"
              \/ r[2] = "rez" /\ "leftover" \in trouble
              \/ r[2] = "data" /\ Encoding /\ trouble \cap Refusals # {}
        /\ \A f \in Files : row[f] = "local" => <<f, "data">> \in record

\* Unlock and Upload gives up the lock of the item and of its fork; no other upload gives
\* one up, unless mUnlockItem held garbage.
UnlockingIsAsked ==
    [][\A r \in Resources : lock[r] = "ours" /\ lock'[r] # "ours" =>
          \/ unlock /\ (held = "given" \/ "garbage" \in trouble)
          \/ "ended" \in trouble']_vars
=============================================================================
