----------------------------- MODULE Downloads -----------------------------
(***************************************************************************)
(* What is selected in a window is fetched into a local folder:             *)
(* CDownloadFileThread, CDownloadAndLockItemsThread, which locks each item  *)
(* first, and CMoveItemsToTrashThread, which fetches each item into the     *)
(* trash and then deletes it from the server.  A file is fetched with its   *)
(* resource fork and the two are merged; a collection is walked.  One thread*)
(* runs at a time; other clients work on the server all the while.          *)
(***************************************************************************)
EXTENDS Naturals, Sequences, FiniteSets, SequencesExt

CONSTANTS Files,
          Folders,
          Children,        \* what a folder can hold
          Selections,      \* what the user can select in the window
          BeginsWith,      \* pairs of items: the URL of the first begins with the second's
          Encoding,        \* ~_EncodingDisabled(): resource forks are fetched and merged
          RezForksHidden   \* what _RezForksAreHidden() can answer

Items == Files \cup Folders
Forks == {"data", "rez"}
Resources == (Items \X {"data"}) \cup (Files \X {"rez"})

ASSUME ConstantsAssumption ==
    /\ Files \cap Folders = {}
    /\ IsFiniteSet(Files) /\ IsFiniteSet(Folders)
    /\ Children \in [Folders -> SUBSET Items]
    /\ Selections \subseteq SUBSET Items
    /\ BeginsWith \subseteq Items \X Items
    /\ Encoding \in BOOLEAN /\ RezForksHidden \subseteq BOOLEAN

\* All that is in a folder, at any depth: the smallest set with its children and theirs.
Within == [d \in Folders |->
    {i \in Items : \A S \in SUBSET Items :
        Children[d] \subseteq S /\ (\A e \in S \cap Folders : Children[e] \subseteq S) => i \in S}]

\* What holds of every directory tree: nothing is in itself, or in two folders.
ASSUME TreeAssumption ==
    /\ \A d \in Folders : d \notin Within[d]
    /\ \A d, e \in Folders : d # e => Children[d] \cap Children[e] = {}

VARIABLES
    content,   \* the server: "none", "old", or "new" if another client wrote since
    lock,      \* the server: whose lock a resource has
    record,    \* CClientLockManager: the resources with a token
    rows,      \* the items with a row in the window
    local,     \* what the command fetched of a resource: "none", "part", or its content
    merged,    \* the resource fork of the file it made: "none", or its content
    taken,     \* the items whose name another file or folder has where they are fetched to
    mode,      \* which thread runs
    pc,        \* the call it waits for
    answer,    \* what came back
    pick,      \* what was selected
    rest,      \* what is left of it, with the item under way first
    todo,      \* the resources to fetch for that item, with the one under way first
    listed,    \* what a listing brought
    fork,      \* rezForkExists
    canceled,  \* mCancel
    muted,     \* the request is canceled as well and sends nothing any more
    trouble    \* what went wrong so far; the code has no such thing

server == <<content, lock>>
disk == <<local, merged, taken>>
job == <<mode, pick, rest, todo>>
flags == <<fork, listed, canceled, muted>>
vars == <<server, record, rows, disk, pc, answer, job, flags, trouble>>

LockCalls == {"lock", "props", "existsLock", "lockRez", "propsRez", "rollback"}
FetchCalls == {"list", "exists", "get", "getRez"}
Contents == {"old", "new"}
Answers == {"waiting", "ok", "absent", "failed"}

\* lost: a call failed for the client, whether the server did the work or not; garbled: a
\* GET succeeded that did not bring what the server has; raced:
\* another client wrote during a command, or deleted; ended: a lock of this client ran
\* out; canceled: by the user; foreign: somebody else's lock was in the way; replaced: a
\* download destroyed a file of the user's; blocked: such a file was in use, or a folder
\* was in the way in the trash; partial: a deleted folder kept what was locked in it;
\* lostTop, lostInside: a resource was deleted that the trash does not have, of a file that was selected or from inside a folder.
Troubles == {"lost", "garbled", "raced", "ended", "canceled", "foreign", "replaced", "blocked",
             "partial", "lostTop", "lostInside"}

TypeOK ==
    /\ content \in [Resources -> {"none"} \cup Contents]
    /\ lock \in [Resources -> {"free", "ours", "theirs"}]
    /\ record \subseteq Resources /\ rows \subseteq Items /\ taken \subseteq Items
    /\ local \in [Resources -> {"none", "part"} \cup Contents]
    /\ merged \in [Files -> {"none"} \cup Contents]
    /\ mode \in {"download", "lock", "trash"}
    /\ pc \in {"idle", "start", "delete"} \cup LockCalls \cup FetchCalls
    /\ answer \in Answers
    /\ pick \in Seq(Items) /\ rest \in Seq(Items) /\ todo \in Seq(Resources)
    /\ pc # "idle" => rest # <<>>
    /\ pc \in LockCalls \cup FetchCalls => todo # <<>>
    /\ pc \in {"exists", "get", "getRez"} => todo[1][1] \in Files
    /\ pc = "list" => todo[1][1] \in Folders
    /\ listed \subseteq Resources
    /\ {fork, canceled, muted} \subseteq BOOLEAN
    /\ trouble \subseteq Troubles

Idle == pc = "idle"
When(condition, fact) == IF condition THEN {fact} ELSE {}
Noted(facts) == trouble' = trouble \cup facts
There(r) == content[r] # "none"
Tops == {pick[n] : n \in DOMAIN pick}
Inside(i, d) == d \in Folders /\ i \in Within[d]
Below == {p \in Items \X Items : p[1] = p[2] \/ Inside(p[1], p[2])}
Nested(i) == \E d \in Folders : i \in Children[d]

\* The items are on the server, with or without resource forks; names can be taken.
Init ==
    /\ content \in [Resources -> {"none", "old"}]
    /\ \A i \in Items : content[<<i, "data">>] = "old"
    /\ lock = [r \in Resources |-> "free"] /\ record = {}
    /\ rows = Items
    /\ local = [r \in Resources |-> "none"] /\ merged = [f \in Files |-> "none"]
    /\ taken \in {names \in SUBSET Items : \A d \in Folders \ names : Within[d] \cap names = {}}
    /\ mode = "download" /\ pc = "idle" /\ answer = "waiting"
    /\ pick = <<>> /\ rest = <<>> /\ todo = <<>>
    /\ fork = FALSE /\ listed = {} /\ canceled = FALSE /\ muted = FALSE
    /\ trouble = {}
-----------------------------------------------------------------------------
\* The thread issues its next call, or ends.
Call(name) == pc' = name /\ answer' = "waiting"

Finish ==
    /\ Call("idle")
    /\ mode' = "download" /\ pick' = <<>> /\ rest' = <<>> /\ todo' = <<>>
    /\ fork' = FALSE /\ listed' = {} /\ canceled' = FALSE /\ muted' = FALSE
    /\ UNCHANGED disk

Continue(name) == Call(name) /\ UNCHANGED <<job, flags, disk>>

\* On with the first of the resources, for the first of the items.
Turn(name, items, resources, new) ==
    /\ Call(name)
    /\ rest' = items /\ todo' = resources /\ fork' = new /\ listed' = {}
    /\ UNCHANGED <<mode, pick, canceled, muted>>

\* GetResource: a file that is there is deleted before anything is sent; one that is in
\* use ends the thread.  The trash gives every file a name of its own.
Get(items, resources, new) ==
    LET r == resources[1]
        old == r[2] = "data" /\ r[1] \in taken /\ mode # "trash" IN
    \/ /\ Turn("get", items, resources, new)
       /\ local' = [local EXCEPT ![r] = "part"]
       /\ merged' = IF r[2] = "data" THEN [merged EXCEPT ![r[1]] = "none"] ELSE merged
       /\ taken' = IF old THEN taken \ {r[1]} ELSE taken
       /\ Noted(When(old, "replaced"))
    \/ old /\ Finish /\ Noted({"blocked"})

\* A slip: a collection is taken for a file.
FetchFile(items, resources) ==
    Turn("exists", items, resources, FALSE) /\ UNCHANGED <<disk, trouble>>

\* _downloadResource for the first of the resources: a folder is made, or used if it is
\* there, and listed; a file is fetched, after a look for its fork.
Fetch(items, resources) ==
    LET r == resources[1] IN
    IF r[1] \in Folders
    THEN /\ Turn("list", items, resources, FALSE)
         /\ local' = [local EXCEPT ![r] = "old"]
         /\ UNCHANGED <<merged, taken, trouble>>
    ELSE IF Encoding
    THEN Turn("exists", items, resources, FALSE) /\ UNCHANGED <<disk, trouble>>
    ELSE Get(items, resources, FALSE)

\* CDownloadAndLockItemsThread::_downloadResource locks first.
Begin(items, resources) ==
    IF mode = "lock"
    THEN Turn("lock", items, resources, FALSE) /\ UNCHANGED <<disk, trouble>>
    ELSE Fetch(items, resources)

BeginTop(items) == Begin(items, << <<items[1], "data">> >>)

NextTop ==
    IF canceled \/ Len(rest) = 1 THEN Finish /\ UNCHANGED trouble ELSE BeginTop(Tail(rest))

\* A slip: the trash deletes whatever it tried to fetch.
TopDoneAnyway(ok) ==
    IF mode = "trash" THEN Continue("delete") /\ UNCHANGED trouble ELSE NextTop

\* A selected item is done.  A download stops at the first that failed; the trash
\* deletes what it has, and goes on.
TopDone(ok) ==
    IF mode = "trash" /\ ok THEN Continue("delete") /\ UNCHANGED trouble
    ELSE IF mode = "trash" \/ ok THEN NextTop
    ELSE Finish /\ UNCHANGED trouble

\* A resource is done.  What failed inside a folder is passed over, and the folder is
\* done all the same; inside a folder only a download notices that it was canceled.
Done(ok) ==
    IF rest[1] \in Files THEN TopDone(ok)
    ELSE IF mode # "trash" /\ canceled THEN Finish /\ UNCHANGED trouble
    ELSE IF Len(todo) = 1 THEN TopDone(todo[1] # <<rest[1], "data">> \/ ok)
    ELSE Begin(rest, Tail(todo))

Answered(name) == pc = name /\ answer # "waiting"

\* What is done to the file when the call under way fails: what came in of the data stays;
\* without its resource fork the file is deleted.
Fail ==
    /\ answer' = "failed"
    /\ local' = IF pc = "get" THEN [local EXCEPT ![todo[1]] = "part"]
                ELSE IF pc = "getRez" THEN [local EXCEPT ![todo[1]] = "none"] ELSE local
    /\ merged' = IF pc = "getRez" THEN [merged EXCEPT ![todo[1][1]] = "none"] ELSE merged
    /\ listed' = {} /\ UNCHANGED taken
-----------------------------------------------------------------------------
\* The commands.  A thread that was made runs later.

Start(how, items) ==
    /\ Idle /\ items # <<>>
    /\ Call("start")
    /\ mode' = how /\ pick' = items /\ rest' = items /\ todo' = <<>>
    /\ fork' = FALSE /\ listed' = {} /\ canceled' = FALSE /\ muted' = FALSE
    /\ local' = [r \in Resources |-> "none"] /\ merged' = [f \in Files |-> "none"]
    /\ UNCHANGED <<server, record, rows, taken>>

\* Selections for a download are of items beside each other, in the order of the rows,
\* which the user sorts.
Download(how, items) ==
    /\ how # "trash"
    /\ \A i \in items : i \in rows /\ ~Nested(i)
    /\ \E order \in SetToSeqs(items) : Start(how, order)
    /\ UNCHANGED trouble

\* PruneItemVector keeps what does not begin with another one's URL, whatever that is.
PruneItemVector(items) == {i \in items : \A j \in items \ {i} : <<i, j>> \notin BeginsWith}

\* A folder is not fetched into the trash if something there has its name.
MoveItemsToTrash(items) ==
    LET kept == PruneItemVector(items)
        blocked == kept \cap Folders \cap taken IN
    /\ items \subseteq rows
    /\ \E order \in SetToSeqs(kept \ blocked) : Start("trash", order)
    /\ Noted(When(blocked # {}, "blocked"))

\* A download cancels its request as well if all in all there is one thing to fetch,
\* which depends on what the folders hold.  The trash has no such button for one item.
CancelOperation ==
    /\ ~Idle /\ ~canceled /\ (mode = "trash" => Len(pick) > 1)
    /\ canceled' = TRUE
    /\ \E single \in BOOLEAN :
          /\ single => mode # "trash" /\ pc # "start"
                       /\ (Len(pick) = 1 \/ \E i \in Tops : i \in Folders)
          /\ (mode # "trash" /\ pc # "start" /\ Len(pick) = 1 /\ pick[1] \in Files) => single
          /\ muted' = single
          /\ IF single THEN Fail ELSE UNCHANGED <<answer, disk, listed>>
    /\ Noted({"canceled"})
    /\ UNCHANGED <<server, record, rows, pc, job, fork>>

\* _executeDAVTransaction, once the thread runs; counting what there is to fetch
\* changes nothing else.
Started ==
    /\ pc = "start"
    /\ IF canceled THEN Finish /\ UNCHANGED trouble ELSE BeginTop(rest)
    /\ UNCHANGED <<server, record, rows>>
-----------------------------------------------------------------------------
\* _downloadResource.

\* A slip: a collection is not walked.
ListAnsweredShallow ==
    Answered("list") /\ Done(TRUE) /\ UNCHANGED <<server, record, rows>>

\* A folder whose listing failed passes for an empty one; the order is the server's.  The
\* trash fetches dot files too; ProcessDotFiles drops them from a download unless they are shown.
ListAnswered ==
    /\ Answered("list")
    /\ \E hidden \in RezForksHidden :
          LET found == {r \in listed : r[2] = "rez" => mode = "trash" \/ ~hidden} IN
          IF found = {} THEN Done(TRUE)
          ELSE \E order \in SetToSeqs(found) : Begin(rest, order \o Tail(todo))
    /\ UNCHANGED <<server, record, rows>>

\* A slip: the fork is not fetched.
ExistsAnsweredForkless ==
    Answered("exists") /\ Get(rest, todo, FALSE) /\ UNCHANGED <<server, record, rows>>

\* Without an answer the fork counts as not there.
ExistsAnswered ==
    /\ Answered("exists")
    /\ Get(rest, todo, answer = "ok")
    /\ UNCHANGED <<server, record, rows>>

GetAnswered ==
    /\ Answered("get")
    /\ IF answer = "failed" THEN Done(FALSE)
       ELSE IF fork THEN Continue("getRez") /\ UNCHANGED trouble ELSE Done(TRUE)
    /\ UNCHANGED <<server, record, rows>>

GetRezAnswered ==
    /\ Answered("getRez")
    /\ Done(answer # "failed")
    /\ UNCHANGED <<server, record, rows>>

\* A slip: the row goes whatever the answer.
DeleteAnsweredAnyway ==
    /\ Answered("delete")
    /\ rows' = {i \in rows : <<i, rest[1]>> \notin Below}
    /\ NextTop
    /\ UNCHANGED <<server, record>>

\* CMoveItemsToTrashThread: if the item is said to be gone, its row goes with what is
\* shown below it.
DeleteAnswered ==
    /\ Answered("delete")
    /\ rows' = IF answer = "ok" THEN {i \in rows : <<i, rest[1]>> \notin Below} ELSE rows
    /\ NextTop
    /\ UNCHANGED <<server, record>>
-----------------------------------------------------------------------------
\* CDownloadAndLockItemsThread::_downloadResource, up to the download.

LockAnswered ==
    /\ Answered("lock")
    /\ IF answer = "ok" THEN Continue("props") /\ UNCHANGED trouble ELSE Done(FALSE)
    /\ UNCHANGED <<server, record, rows>>

\* A slip: the token of the lock is not recorded.
PropsAnsweredUnrecorded ==
    /\ Answered("props")
    /\ IF answer = "failed" THEN Done(FALSE) ELSE Fetch(rest, todo)
    /\ UNCHANGED <<server, record, rows>>

\* Without its properties the lock is left, and not on record.
PropsAnswered ==
    /\ Answered("props")
    /\ \/ answer = "failed" /\ Done(FALSE) /\ UNCHANGED record
       \/ /\ answer # "failed"
          /\ record' = record \cup {todo[1]}
          /\ \E hidden \in RezForksHidden :
                IF Encoding /\ hidden /\ todo[1] \in Files \X {"data"}
                THEN Continue("existsLock") /\ UNCHANGED trouble
                ELSE Fetch(rest, todo)
    /\ UNCHANGED <<server, rows>>

ExistsLockAnswered ==
    /\ Answered("existsLock")
    /\ IF answer = "ok" THEN Continue("lockRez") /\ UNCHANGED trouble ELSE Fetch(rest, todo)
    /\ UNCHANGED <<server, record, rows>>

LockRezAnswered ==
    /\ Answered("lockRez")
    /\ Continue(IF answer = "ok" THEN "propsRez" ELSE "rollback") /\ UNCHANGED trouble
    /\ UNCHANGED <<server, record, rows>>

PropsRezAnswered ==
    /\ Answered("propsRez")
    /\ \/ answer = "failed" /\ Continue("rollback") /\ UNCHANGED <<record, trouble>>
       \/ /\ answer # "failed"
          /\ record' = record \cup {<<todo[1][1], "rez">>}
          /\ Fetch(rest, todo)
    /\ UNCHANGED <<server, rows>>

RollbackAnswered ==
    /\ Answered("rollback")
    /\ record' = IF answer = "ok" THEN record \ {todo[1]} ELSE record
    /\ Done(FALSE)
    /\ UNCHANGED <<server, rows>>
-----------------------------------------------------------------------------
\* The server (RFC 2518).  A canceled request sends nothing (CDAVRequest).

Respond(a) == answer' = a /\ UNCHANGED disk

ServeList(d) ==
    /\ There(<<d, "data">>)
    /\ Respond("ok") /\ listed' = {r \in Resources : r[1] \in Children[d] /\ There(r)}
    /\ UNCHANGED <<server, trouble>>

ServeExists(r) ==
    /\ Respond(IF r \in Resources /\ There(r) THEN "ok" ELSE "absent")
    /\ UNCHANGED <<server, trouble>>

\* The file on disk grows as the body comes in; a fork is merged into it.  GetResource
\* also succeeds with a body that broke off, or with the part that came before it was
\* asked for again ahead of the whole (CDAVRequest).
ServeGet(r) ==
    /\ There(r)
    /\ answer' = "ok"
    /\ \E whole \in BOOLEAN :
          /\ IF pc = "get"
             THEN local' = [local EXCEPT ![r] = IF whole THEN content[r] ELSE "part"] /\ UNCHANGED merged
             ELSE merged' = [merged EXCEPT ![r[1]] = IF whole THEN content[r] ELSE "none"] /\ UNCHANGED local
          /\ Noted(When(~whole, "garbled"))
    /\ UNCHANGED <<taken, server>>

ServeLock(r) ==
    /\ There(r) /\ lock[r] = "free"
    /\ lock' = [lock EXCEPT ![r] = "ours"] /\ Respond("ok")
    /\ UNCHANGED <<content, trouble>>

ServeProps(r) == There(r) /\ Respond("ok") /\ UNCHANGED <<server, trouble>>

ServeUnlock(r) ==
    /\ lock[r] = "ours"
    /\ lock' = [lock EXCEPT ![r] = "free"] /\ Respond("ok")
    /\ UNCHANGED <<content, trouble>>

\* The trash has what is deleted: as a file, or as the resource fork of one.
Saved(r) ==
    \/ r[1] \in Folders
    \/ local[r] = content[r]
    \/ r[2] = "rez" /\ merged[r[1]] = content[r]

\* Locks are not named by the thread.  A folder is deleted but for what is locked inside;
\* the answer (207) passes for success.
ServeDelete(i) ==
    LET under == {r \in Resources : There(r) /\ (r = <<i, "data">> \/ Inside(r[1], i))}
        held == {r \in under : lock[r] # "free"}
        gone == {r \in under : \A h \in held : r # h /\ ~Inside(h[1], r[1]) /\ ~Inside(r[1], h[1])} IN
    /\ lock[<<i, "data">>] = "free" /\ There(<<i, "data">>)
    /\ content' = [r \in Resources |-> IF r \in gone THEN "none" ELSE content[r]]
    /\ Respond("ok")
    /\ Noted(When(\E r \in gone : ~Saved(r) /\ r[1] = i, "lostTop")
             \cup When(\E r \in gone : ~Saved(r) /\ r[1] # i, "lostInside")
             \cup When(held # {}, "partial"))
    /\ UNCHANGED lock

Serve ==
    /\ answer = "waiting" /\ ~muted
    /\ LET r == todo[1]  rez == <<r[1], "rez">> IN
       CASE pc = "list" -> ServeList(r[1])
         [] pc = "exists" -> ServeExists(IF r[2] = "rez" THEN <<r, "rez">> ELSE rez)
         [] pc = "existsLock" -> ServeExists(rez)
         [] pc = "get" -> ServeGet(r)
         [] pc = "getRez" -> ServeGet(rez)
         [] pc = "lock" -> ServeLock(r)
         [] pc = "lockRez" -> ServeLock(rez)
         [] pc = "props" -> ServeProps(r)
         [] pc = "propsRez" -> ServeProps(rez)
         [] pc = "rollback" -> ServeUnlock(r)
         [] pc = "delete" -> ServeDelete(rest[1])
         [] OTHER -> FALSE
    /\ pc # "list" => UNCHANGED listed
    /\ UNCHANGED <<record, rows, pc, job, fork, canceled, muted>>

\* The call cannot be served: there is nothing there, or it is locked.
Refusable ==
    LET r == todo[1]  rez == <<r[1], "rez">> IN
    CASE pc \in {"list", "get", "props"} -> ~There(r)
      [] pc \in {"getRez", "propsRez"} -> ~There(rez)
      [] pc = "lock" -> ~There(r) \/ lock[r] # "free"
      [] pc = "lockRez" -> ~There(rez) \/ lock[rez] # "free"
      [] pc = "rollback" -> lock[r] # "ours"
      [] pc = "delete" -> ~There(<<rest[1], "data">>) \/ lock[<<rest[1], "data">>] # "free"
      [] OTHER -> FALSE

Refuse ==
    /\ answer = "waiting" /\ ~muted /\ Refusable
    /\ Fail /\ Noted({"foreign"})
    /\ UNCHANGED <<server, record, rows, pc, job, fork, canceled, muted>>

\* The call fails for the client, whether it was processed or not (CDAVRequest); one of
\* a canceled request is not sent at all.
CallFails ==
    /\ pc \notin {"idle", "start"} /\ answer # "failed"
    /\ \/ ~muted /\ Fail /\ Noted({"lost"})
       \/ muted /\ answer = "waiting" /\ Fail /\ UNCHANGED trouble
    /\ UNCHANGED <<server, record, rows, pc, job, fork, canceled, muted>>

\* Other clients change, remove and lock things; a lock of this client runs out.
OtherWrites(r) ==
    /\ lock[r] # "ours" /\ There(r) /\ content[r] = "old" /\ r[1] \in Files
    /\ content' = [content EXCEPT ![r] = "new"]
    /\ Noted(When(~Idle, "raced"))
    /\ UNCHANGED <<lock, record, rows, disk, pc, answer, job, flags>>

OtherDeletes(r) ==
    /\ lock[r] # "ours" /\ There(r) /\ r[1] \in Files
    /\ content' = [content EXCEPT ![r] = "none"]
    /\ lock' = [lock EXCEPT ![r] = "free"]
    /\ Noted({"raced"})
    /\ UNCHANGED <<record, rows, disk, pc, answer, job, flags>>

OtherLocks(r) ==
    /\ lock[r] = "free" /\ There(r)
    /\ lock' = [lock EXCEPT ![r] = "theirs"]
    /\ UNCHANGED <<content, record, rows, disk, pc, answer, job, flags, trouble>>

LockEnds(r) ==
    /\ lock[r] = "ours"
    /\ lock' = [lock EXCEPT ![r] = "free"]
    /\ Noted({"ended"})
    /\ UNCHANGED <<content, record, rows, disk, pc, answer, job, flags>>
-----------------------------------------------------------------------------
Command ==
    \E items \in Selections :
       \/ \E how \in {"download", "lock"} : Download(how, items)
       \/ MoveItemsToTrash(items)

Thread ==
    \/ Started \/ ListAnswered \/ ExistsAnswered \/ GetAnswered \/ GetRezAnswered
    \/ DeleteAnswered \/ LockAnswered \/ PropsAnswered \/ ExistsLockAnswered
    \/ LockRezAnswered \/ PropsRezAnswered \/ RollbackAnswered

Next ==
    \/ Command \/ CancelOperation \/ Thread \/ Serve \/ Refuse \/ CallFails
    \/ \E r \in Resources : OtherWrites(r) \/ OtherDeletes(r) \/ OtherLocks(r) \/ LockEnds(r)

Spec == Init /\ [][Next]_vars
-----------------------------------------------------------------------------
\* A selected file that was moved to the trash is there, the content the server had with
\* it, whatever calls failed.  Two things can make it otherwise: another client writes
\* after the file was fetched, or a GET succeeds without bringing what the server has.
TrashedFilesAreSaved == "lostTop" \in trouble => trouble \cap {"raced", "garbled"} # {}

\* So is what was inside a folder, if no call failed.
TrashedFoldersAreSaved ==
    "lostInside" \in trouble => trouble \cap {"lost", "raced", "foreign", "garbled"} # {}

\* What the release notes say of the trash: what is selected is downloaded, and then
\* deleted.  The two things above are not held against it.
TrashDownloadsFirst == "lostInside" \in trouble => trouble \cap {"raced", "garbled"} # {}

\* A download that got to its end without anything going wrong brought every file that was
\* selected or is in a folder that was, the resource fork in it; none is left half fetched.
DownloadsAreComplete ==
    [][/\ ~Idle /\ Idle' /\ pc # "start" /\ mode # "trash" /\ trouble' \subseteq {"replaced"}
       => \A f \in Files \cap (Tops \cup UNION {Within[d] : d \in Tops \cap Folders}) :
             There(<<f, "data">>) =>
                /\ local[<<f, "data">>] = content[<<f, "data">>]
                /\ Encoding => merged[f] = content[<<f, "rez">>]]_vars

\* A row that is gone stands for an item that is gone, unless something in it was locked,
\* by this client, say: then the answer passes for success, and the folder stays; an item
\* that is gone has no row, unless the answer was lost or another client did it.
RowsAgree ==
    /\ \A i \in Items \ rows : There(<<i, "data">>) => "partial" \in trouble
    /\ Idle /\ trouble \cap {"lost", "raced", "partial"} = {} =>
          \A i \in rows : There(<<i, "data">>)

\* What Download and Lock locked is on record, and the other way around.
LocksAreOnRecord ==
    Idle /\ trouble \subseteq {"raced", "garbled", "replaced", "blocked", "foreign", "partial", "lostTop"} =>
        \A r \in Resources : lock[r] = "ours" <=> r \in record
=============================================================================
