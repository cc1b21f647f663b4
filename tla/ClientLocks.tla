---------------------------- MODULE ClientLocks ----------------------------
(***************************************************************************)
(* The locks this client holds on one item of a collection and on the      *)
(* item's resource fork (the hidden resource "._name" beside it): the       *)
(* token store of CClientLockManager, the rows of the windows that show the *)
(* item, and the lock, unlock, delete and listing threads that work on      *)
(* copies of a row.  A thread yields only while it waits for an answer, so *)
(* one action runs from an answer to the next request.  The server and its *)
(* other clients are external.                                             *)
(***************************************************************************)
EXTENDS Integers, FiniteSets

CONSTANTS Threads,       \* helper threads that can run at a time
          Windows,       \* windows that can show the item
          ForksHandled,  \* ~_EncodingDisabled() && _RezForksAreHidden()
          MaxLocks       \* bound: lock tokens the server issues

ASSUME ConstantsAssumption ==
    ForksHandled \in BOOLEAN /\ MaxLocks \in Nat

Forks == {"data", "rez"}

\* Lock tokens are numbered as the server issues them; 0 is the empty string.
Tokens == 1..MaxLocks
Empty == 0
NoEntry == -1
NoRow == -1

VARIABLES
    db,         \* mPrefVals: the token under the key of each fork, saved at every change
    rowToken,   \* the row of the item in each window: NoRow, or the token it shows
    rowLocal,   \* windows whose row has mIsLocallyOwnedLock set
    pc,         \* the call a thread waits for
    answer,     \* what came back
    copyToken,  \* mLockToken of the thread's copy of the item (Empty: not locked)
    copyLocal,  \* threads whose copy has mIsLocallyOwnedLock set
    rezToken,   \* the token of the fork a thread works with
    home,       \* mWnd
    exists,     \* the server: the resources that are there
    lock,       \* the server: the token of the lock on each, or Empty
    issued,     \* the server: how many tokens were issued
    mine,       \* the tokens that were issued to this client or that it claimed
    trouble     \* what went wrong so far; the code has no such thing

client == <<db, rowToken, rowLocal>>
work == <<pc, copyToken, copyLocal, rezToken, home>>
server == <<exists, lock, issued, mine>>
vars == <<client, work, answer, server, trouble>>

\* lost: a call failed for the client, whether the server did the work or not, or
\* the program ended in a call; race: two threads at a time, other than two that
\* lock and do not roll back; broken: a lock of this client ran out; created: a resource (re)appeared; claimed: Claim Lock;
\* stolen: the server released a foreign lock for a DELETE or a rollback.
Troubles == {"lost", "race", "broken", "created", "claimed", "stolen"}

LockCalls == {"lock", "props", "exists", "lockRez", "propsRez", "rollback"}
UnlockCalls == {"unlock", "propsAfter", "unlockRez"}
DeleteCalls == {"delete", "existsDelete", "deleteRez"}
PCs == {"idle", "list"} \cup LockCalls \cup UnlockCalls \cup DeleteCalls

Answers == [status : {"none", "ok", "absent", "failed"}, token : {Empty} \cup Tokens]
Waiting == [status |-> "none", token |-> Empty]
Failed == [status |-> "failed", token |-> Empty]
Ok(token) == [status |-> "ok", token |-> token]

TypeOK ==
    /\ db \in [Forks -> {NoEntry, Empty} \cup Tokens]
    /\ rowToken \in [Windows -> {NoRow, Empty} \cup Tokens]
    /\ rowLocal \subseteq Windows
    /\ pc \in [Threads -> PCs]
    /\ answer \in [Threads -> Answers]
    /\ copyToken \in [Threads -> {Empty} \cup Tokens]
    /\ copyLocal \subseteq Threads
    /\ rezToken \in [Threads -> {Empty} \cup Tokens]
    /\ home \in [Threads -> Windows]
    /\ exists \subseteq Forks
    /\ lock \in [Forks -> {Empty} \cup Tokens]
    /\ issued \in 0..MaxLocks
    /\ mine \subseteq Tokens
    /\ trouble \subseteq Troubles

\* The program starts with an empty token store and no window; the item is there,
\* and other clients may hold locks before anything is listed.
Init ==
    /\ db = [f \in Forks |-> NoEntry]
    /\ rowToken = [w \in Windows |-> NoRow] /\ rowLocal = {}
    /\ pc = [t \in Threads |-> "idle"]
    /\ answer = [t \in Threads |-> Waiting]
    /\ copyToken = [t \in Threads |-> Empty] /\ copyLocal = {}
    /\ rezToken = [t \in Threads |-> Empty]
    /\ home \in [Threads -> Windows]
    /\ exists \in {{"data"}, Forks}
    /\ lock = [f \in Forks |-> Empty]
    /\ issued = 0 /\ mine = {} /\ trouble = {}

Idle == \A t \in Threads : pc[t] = "idle"
When(condition, fact) == IF condition THEN {fact} ELSE {}
-----------------------------------------------------------------------------
\* CClientLockManager.  Both save the preferences file before they return.

ItemLocked(f, token) == db' = [db EXCEPT ![f] = token]
ItemUnlocked(f) == db' = [db EXCEPT ![f] = NoEntry]

\* CFLVDAVRequest::_OnDavItemDataChange: the entry for f after the properties of f
\* were read: a token that is not the one the item now has is dropped.
AfterDataChange(f, token) ==
    IF token = Empty \/ db[f] # token THEN NoEntry ELSE db[f]

\* A slip: the row takes over the token of the item, but not whose lock it is.
BroadcastTokenOnly(token, local) ==
    /\ rowToken' = [w \in Windows |-> IF rowToken[w] # NoRow THEN token ELSE NoRow]
    /\ UNCHANGED rowLocal

\* msg_DAVItemChanged: every window that shows the item gets a copy of it.
Broadcast(token, local) ==
    LET shown == {w \in Windows : rowToken[w] # NoRow} IN
    /\ rowToken' = [w \in Windows |-> IF w \in shown THEN token ELSE NoRow]
    /\ rowLocal' = IF local THEN shown ELSE {}

\* The lock information of an item is set from an activelock, and stays as it is
\* when the answer holds none.
Filled(t) == IF answer[t].token # Empty THEN answer[t].token ELSE copyToken[t]

SetCopy(t, token, local) ==
    /\ copyToken' = [copyToken EXCEPT ![t] = token]
    /\ copyLocal' = IF local THEN copyLocal \cup {t} ELSE copyLocal \ {t}

\* The thread issues its next call, or ends and takes its copies with it.
Goto(t, call) ==
    /\ pc' = [pc EXCEPT ![t] = call]
    /\ answer' = [answer EXCEPT ![t] = Waiting]

SetRez(t, token) == rezToken' = [rezToken EXCEPT ![t] = token]

Finish(t) == Goto(t, "idle") /\ SetCopy(t, Empty, FALSE) /\ SetRez(t, Empty)

\* Threads that lock leave each other alone until one of them rolls back.
Locking == LockCalls \ {"rollback"}
Racing(t, call) ==
    \E u \in Threads \ {t} :
        pc[u] # "idle" /\ ~(call \in Locking /\ pc[u] \in Locking)
Noted(t, call) == trouble' = trouble \cup When(Racing(t, call), "race")

Succeeded(t) == answer[t].status = "ok"
Answered(t, call) == pc[t] = call /\ answer[t].status # "none"
-----------------------------------------------------------------------------
\* The user's commands.  A thread gets copies of the selected rows.

Start(t, w, call) ==
    /\ pc[t] = "idle"
    /\ SetCopy(t, IF rowToken[w] = NoRow THEN Empty ELSE rowToken[w], w \in rowLocal)
    /\ Goto(t, call)
    /\ home' = [home EXCEPT ![t] = w]
    /\ Noted(t, call)
    /\ UNCHANGED <<rezToken, server>>

\* CLockItemsThread skips the items that are locked.
StartLock(t, w) == rowToken[w] = Empty /\ Start(t, w, "lock") /\ UNCHANGED client

\* The command needs one locked item in the selection; all of them are passed on,
\* whoever holds the locks.
StartUnlock(t, w) == rowToken[w] # NoRow /\ Start(t, w, "unlock") /\ UNCHANGED client

StartDelete(t, w) == rowToken[w] # NoRow /\ Start(t, w, "delete") /\ UNCHANGED client

\* A window is opened or refreshed: its rows go, then CListDirThread reads them.
StartList(t, w) ==
    /\ pc[t] = "idle"
    /\ Goto(t, "list")
    /\ home' = [home EXCEPT ![t] = w]
    /\ rowToken' = [rowToken EXCEPT ![w] = NoRow]
    /\ rowLocal' = rowLocal \ {w}
    /\ Noted(t, "list")
    /\ UNCHANGED <<db, copyToken, copyLocal, rezToken, server>>

\* Claim Lock: a lock somebody else took is recorded as this client's own.
ClaimLock(w) ==
    /\ rowToken[w] \in Tokens /\ w \notin rowLocal
    /\ ItemLocked("data", rowToken[w])
    /\ Broadcast(rowToken[w], TRUE)
    /\ mine' = mine \cup {rowToken[w]}
    /\ trouble' = trouble \cup {"claimed"}
    /\ UNCHANGED <<work, answer, exists, lock, issued>>

\* The program ends, threads and all, and is started again: _loadFromPrefFile.
Restart ==
    /\ pc' = [t \in Threads |-> "idle"]
    /\ answer' = [t \in Threads |-> Waiting]
    /\ copyToken' = [t \in Threads |-> Empty] /\ copyLocal' = {}
    /\ rezToken' = [t \in Threads |-> Empty]
    /\ rowToken' = [w \in Windows |-> NoRow] /\ rowLocal' = {}
    /\ trouble' = trouble \cup When(~Idle, "lost")
    /\ UNCHANGED <<db, home, server>>
-----------------------------------------------------------------------------
\* CLockItemsThread::_lockResource.  LockResource marks the item as locally locked
\* but looks for the activelock one level too high: the token comes with the
\* properties, which are read next.
LockAnswered(t) ==
    /\ Answered(t, "lock")
    /\ IF Succeeded(t)
       THEN SetCopy(t, copyToken[t], TRUE) /\ Goto(t, "props") /\ UNCHANGED rezToken
       ELSE Finish(t)
    /\ UNCHANGED <<client, home, server, trouble>>

\* A slip: the status of GetItemProperties is not looked at.
PropsAnsweredUnchecked(t) ==
    /\ Answered(t, "props")
    /\ ItemLocked("data", Filled(t))
    /\ Broadcast(Filled(t), TRUE)
    /\ Finish(t)
    /\ UNCHANGED <<home, server, trouble>>

\* GetItemProperties drops an entry that differs, then ItemLocked sets it.
PropsAnswered(t) ==
    /\ Answered(t, "props")
    /\ IF Succeeded(t)
       THEN /\ ItemLocked("data", Filled(t))
            /\ Broadcast(Filled(t), TRUE)
            /\ IF ForksHandled
               THEN SetCopy(t, Filled(t), TRUE) /\ Goto(t, "exists") /\ UNCHANGED rezToken
               ELSE Finish(t)
       ELSE Finish(t) /\ UNCHANGED client
    /\ UNCHANGED <<home, server, trouble>>

\* Without an answer to GetResourceExists the fork is left alone.
ExistsAnswered(t) ==
    /\ Answered(t, "exists")
    /\ IF Succeeded(t)
       THEN Goto(t, "lockRez") /\ UNCHANGED <<copyToken, copyLocal, rezToken>>
       ELSE Finish(t)
    /\ UNCHANGED <<client, home, server, trouble>>

\* A slip: when the fork cannot be locked the item keeps its lock.
LockRezAnsweredNoRollback(t) ==
    /\ Answered(t, "lockRez")
    /\ IF Succeeded(t)
       THEN Goto(t, "propsRez") /\ UNCHANGED <<copyToken, copyLocal, rezToken>>
       ELSE Finish(t)
    /\ UNCHANGED <<client, home, server, trouble>>

LockRezAnswered(t) ==
    /\ Answered(t, "lockRez")
    /\ LET next == IF Succeeded(t) THEN "propsRez" ELSE "rollback"
       IN  Goto(t, next) /\ Noted(t, next)
    /\ UNCHANGED <<client, copyToken, copyLocal, rezToken, home, server>>

PropsRezAnswered(t) ==
    /\ Answered(t, "propsRez")
    /\ IF Succeeded(t)
       THEN ItemLocked("rez", answer[t].token) /\ Finish(t) /\ UNCHANGED trouble
       ELSE /\ Goto(t, "rollback") /\ Noted(t, "rollback")
            /\ UNCHANGED <<db, copyToken, copyLocal, rezToken>>
    /\ UNCHANGED <<rowToken, rowLocal, home, server>>

\* A slip: the rollback leaves the item's entry in the token store.
RollbackAnsweredForgetful(t) ==
    /\ Answered(t, "rollback")
    /\ Broadcast(Empty, FALSE)
    /\ Finish(t)
    /\ UNCHANGED <<db, home, server, trouble>>

\* The item is shown unlocked whether or not the rollback went through.
RollbackAnswered(t) ==
    /\ Answered(t, "rollback")
    /\ IF Succeeded(t) THEN ItemUnlocked("data") ELSE UNCHANGED db
    /\ Broadcast(Empty, FALSE)
    /\ Finish(t)
    /\ UNCHANGED <<home, server, trouble>>
-----------------------------------------------------------------------------
\* CUnlockItemsThread::_unlockResource.

UnlockAnswered(t) ==
    /\ Answered(t, "unlock")
    /\ IF Succeeded(t)
       THEN /\ ItemUnlocked("data")
            /\ SetCopy(t, Empty, FALSE) /\ Goto(t, "propsAfter") /\ UNCHANGED rezToken
       ELSE Finish(t) /\ UNCHANGED db
    /\ UNCHANGED <<rowToken, rowLocal, home, server, trouble>>

\* A slip: the fork is unlocked without asking whether there is an entry for it.
PropsAfterAnsweredUnchecked(t) ==
    /\ Answered(t, "propsAfter")
    /\ UNCHANGED db
    /\ Broadcast(Filled(t), FALSE)
    /\ SetCopy(t, Filled(t), FALSE) /\ SetRez(t, db["rez"])
    /\ Goto(t, "unlockRez")
    /\ UNCHANGED <<home, server, trouble>>

\* Whether the properties could be read or not, the row is updated and the fork is
\* unlocked with the token on record.
PropsAfterAnswered(t) ==
    /\ Answered(t, "propsAfter")
    /\ db' = IF Succeeded(t)
             THEN [db EXCEPT !["data"] = AfterDataChange("data", Filled(t))]
             ELSE db
    /\ Broadcast(Filled(t), FALSE)
    /\ IF ForksHandled /\ db["rez"] # NoEntry
       THEN /\ SetCopy(t, Filled(t), FALSE) /\ SetRez(t, db["rez"])
            /\ Goto(t, "unlockRez")
       ELSE Finish(t)
    /\ UNCHANGED <<home, server, trouble>>

UnlockRezAnswered(t) ==
    /\ Answered(t, "unlockRez")
    /\ IF Succeeded(t) THEN ItemUnlocked("rez") ELSE UNCHANGED db
    /\ Finish(t)
    /\ UNCHANGED <<rowToken, rowLocal, home, server, trouble>>
-----------------------------------------------------------------------------
\* CDeleteItemsThread.  The token goes along if the copy's lock is a local one.

DeleteAnswered(t) ==
    /\ Answered(t, "delete")
    /\ IF Succeeded(t)
       THEN /\ IF t \in copyLocal THEN ItemUnlocked("data") ELSE UNCHANGED db
            /\ rowToken' = [w \in Windows |-> NoRow] /\ rowLocal' = {}
       ELSE UNCHANGED client
    /\ IF ForksHandled
       THEN Goto(t, "existsDelete") /\ UNCHANGED <<copyToken, copyLocal, rezToken>>
       ELSE Finish(t)
    /\ UNCHANGED <<home, server, trouble>>

\* The fork follows even if the item itself could not be deleted.
ExistsDeleteAnswered(t) ==
    /\ Answered(t, "existsDelete")
    /\ IF Succeeded(t)
       THEN /\ Goto(t, "deleteRez")
            /\ SetRez(t, IF db["rez"] = NoEntry THEN Empty ELSE db["rez"])
            /\ UNCHANGED <<copyToken, copyLocal>>
       ELSE Finish(t)
    /\ UNCHANGED <<client, home, server, trouble>>

\* The test is the wrong way round: the fork's entry stays when it had one, and the
\* item's entry goes when it had none.
DeleteRezAnswered(t) ==
    /\ Answered(t, "deleteRez")
    /\ IF rezToken[t] = Empty THEN ItemUnlocked("data") ELSE UNCHANGED db
    /\ Finish(t)
    /\ UNCHANGED <<rowToken, rowLocal, home, server, trouble>>

\* A slip: every lock that is listed is taken for a local one.
ListAnsweredGreedy(t) ==
    /\ Answered(t, "list")
    /\ IF Succeeded(t)
       THEN /\ rowToken' = [rowToken EXCEPT ![home[t]] = answer[t].token]
            /\ rowLocal' = IF answer[t].token # Empty THEN rowLocal \cup {home[t]}
                           ELSE rowLocal \ {home[t]}
       ELSE UNCHANGED <<rowToken, rowLocal>>
    /\ Finish(t)
    /\ UNCHANGED <<db, home, server, trouble>>

\* CListDirThread.  _OnDavItemCreated takes the lock for a local one if there is any
\* token on record for the item.
ListAnswered(t) ==
    /\ Answered(t, "list")
    /\ IF Succeeded(t)
       THEN /\ rowToken' = [rowToken EXCEPT ![home[t]] = answer[t].token]
            /\ rowLocal' = IF db["data"] # NoEntry THEN rowLocal \cup {home[t]}
                           ELSE rowLocal \ {home[t]}
       ELSE UNCHANGED <<rowToken, rowLocal>>
    /\ Finish(t)
    /\ UNCHANGED <<db, home, server, trouble>>
-----------------------------------------------------------------------------
\* The server (RFC 2518).  It grants a LOCK on what is there and not locked, and an
\* UNLOCK or DELETE that names the token of the lock.

Respond(t, a) == answer' = [answer EXCEPT ![t] = a]

ServeLock(t, f) ==
    IF f \in exists /\ lock[f] = Empty
    THEN /\ issued < MaxLocks
         /\ issued' = issued + 1
         /\ lock' = [lock EXCEPT ![f] = issued + 1]
         /\ mine' = mine \cup {issued + 1}
         /\ Respond(t, Ok(Empty))
         /\ UNCHANGED <<exists, trouble>>
    ELSE Respond(t, Failed) /\ UNCHANGED <<server, trouble>>

ServeProps(t, f) ==
    /\ Respond(t, IF f \in exists THEN Ok(lock[f])
                  ELSE [status |-> "absent", token |-> Empty])
    /\ UNCHANGED <<server, trouble>>

ServeUnlock(t, f, token) ==
    /\ IF lock[f] # Empty /\ lock[f] = token
       THEN /\ lock' = [lock EXCEPT ![f] = Empty] /\ Respond(t, Ok(Empty))
            /\ trouble' = trouble \cup
                          When(pc[t] = "rollback" /\ token \notin mine, "stolen")
       ELSE Respond(t, Failed) /\ UNCHANGED <<lock, trouble>>
    /\ UNCHANGED <<exists, issued, mine>>

\* sent: whether the request has an If header with a token.
ServeDelete(t, f, sent, token) ==
    /\ IF f \in exists /\ (IF sent THEN lock[f] # Empty /\ lock[f] = token
                           ELSE lock[f] = Empty)
       THEN /\ exists' = exists \ {f}
            /\ lock' = [lock EXCEPT ![f] = Empty] /\ Respond(t, Ok(Empty))
            /\ trouble' = trouble \cup When(sent /\ token \notin mine, "stolen")
       ELSE Respond(t, Failed) /\ UNCHANGED <<exists, lock, trouble>>
    /\ UNCHANGED <<issued, mine>>

Serve(t) ==
    /\ answer[t].status = "none"
    /\ CASE pc[t] = "lock" -> ServeLock(t, "data")
         [] pc[t] = "lockRez" -> ServeLock(t, "rez")
         [] pc[t] \in {"props", "propsAfter", "list"} -> ServeProps(t, "data")
         [] pc[t] \in {"exists", "existsDelete", "propsRez"} -> ServeProps(t, "rez")
         [] pc[t] \in {"unlock", "rollback"} -> ServeUnlock(t, "data", copyToken[t])
         [] pc[t] = "unlockRez" -> ServeUnlock(t, "rez", rezToken[t])
         [] pc[t] = "delete" -> ServeDelete(t, "data", t \in copyLocal, copyToken[t])
         [] pc[t] = "deleteRez" -> ServeDelete(t, "rez", rezToken[t] # Empty, rezToken[t])
         [] OTHER -> FALSE
    /\ UNCHANGED <<client, work>>

\* The call fails for the client: it was never processed, or its answer was lost
\* and the retry refused, or the answer could not be parsed (CDAVRequest).
CallFails(t) ==
    /\ pc[t] # "idle" /\ answer[t].status \in {"none", "ok"}
    /\ Respond(t, Failed)
    /\ trouble' = trouble \cup {"lost"}
    /\ UNCHANGED <<client, work, server>>

\* Other clients lock what is free, unlock what they locked and create resources;
\* the server lets a lock of this client run out.
OtherLocks(f) ==
    /\ f \in exists /\ lock[f] = Empty /\ issued < MaxLocks
    /\ issued' = issued + 1
    /\ lock' = [lock EXCEPT ![f] = issued + 1]
    /\ UNCHANGED <<client, work, answer, exists, mine, trouble>>

LockEnds(f) ==
    /\ lock[f] # Empty
    /\ lock' = [lock EXCEPT ![f] = Empty]
    /\ trouble' = trouble \cup When(lock[f] \in mine, "broken")
    /\ UNCHANGED <<client, work, answer, exists, issued, mine>>

Appears(f) ==
    /\ f \notin exists
    /\ exists' = exists \cup {f}
    /\ trouble' = trouble \cup {"created"}
    /\ UNCHANGED <<client, work, answer, lock, issued, mine>>
-----------------------------------------------------------------------------
Command(t, w) ==
    StartLock(t, w) \/ StartUnlock(t, w) \/ StartDelete(t, w) \/ StartList(t, w)

Continue(t) ==
    \/ LockAnswered(t) \/ PropsAnswered(t) \/ ExistsAnswered(t)
    \/ LockRezAnswered(t) \/ PropsRezAnswered(t) \/ RollbackAnswered(t)
    \/ UnlockAnswered(t) \/ PropsAfterAnswered(t) \/ UnlockRezAnswered(t)
    \/ DeleteAnswered(t) \/ ExistsDeleteAnswered(t) \/ DeleteRezAnswered(t)
    \/ ListAnswered(t)

Next ==
    \/ \E t \in Threads, w \in Windows : Command(t, w)
    \/ \E w \in Windows : ClaimLock(w)
    \/ \E t \in Threads : Continue(t) \/ Serve(t) \/ CallFails(t)
    \/ \E f \in Forks : OtherLocks(f) \/ LockEnds(f) \/ Appears(f)
    \/ Restart

Spec == Init /\ [][Next]_vars
-----------------------------------------------------------------------------
\* Between operations the token store and the server agree, across restarts and
\* whatever locks other clients take: every lock this client obtained is on record,
\* and what is on record for a resource that is there is its lock.  Two threads
\* that lock at the same time do no harm.  (A call that failed, any other two threads
\* at a time, a lock that ran out, a resource that reappeared or a claimed lock is
\* enough to break this.)
StoreMatchesTheServer ==
    trouble = {} /\ Idle =>
        \A f \in Forks :
            /\ lock[f] \in mine => db[f] = lock[f]
            /\ f \in exists /\ db[f] # NoEntry => db[f] = lock[f]

\* An item and its resource fork are locked together or not at all: if another
\* client holds the fork, the lock on the item is rolled back.
ForksAreLockedTogether ==
    trouble = {} /\ Idle /\ ForksHandled /\ Forks \subseteq exists =>
        (lock["data"] \in mine <=> lock["rez"] \in mine)

\* Failed calls, restarts, claimed locks and resources that reappear never put a token
\* on record that is empty or that belongs to another client.
RecordedTokensAreOurs ==
    trouble \subseteq {"lost", "created", "claimed"} => \A f \in Forks : db[f] \in mine \cup {NoEntry}

\* Neither a DELETE nor the rollback of a lock makes the server release a lock of
\* another client, unless one of this client's own was lost track of before.
ForeignLocksAreSpared ==
    "stolen" \in trouble => trouble \cap {"lost", "race", "broken", "claimed"} # {}

\* Between operations every row agrees with the token store: it shows the lock as
\* local if there is an entry, and then with the token on record, also after the
\* resource was deleted and reappeared.
RowsAgreeWithTheStore ==
    trouble \subseteq {"created"} /\ Idle =>
        \A w \in Windows : rowToken[w] # NoRow =>
            /\ w \in rowLocal <=> db["data"] # NoEntry
            /\ w \in rowLocal => rowToken[w] = db["data"]
-----------------------------------------------------------------------------
\* CDAVItem.h, line 250, of GetIsLocalLock: "returns true if the current lock on this
\* item is bound to the current user/computer".
LocalLockIsOurs ==
    \A w \in Windows : w \in rowLocal /\ rowToken[w] \in Tokens => rowToken[w] \in mine
=============================================================================
