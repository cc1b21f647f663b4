---------------------- MODULE EditSessionsLocks_proofs ----------------------
(***************************************************************************)
(* EditSessions: the locks of an edited item and the changes to its file,   *)
(* followed through every call of the one thread that is at work; and, for   *)
(* any number of threads that cross, the list of edited files on disk.       *)
(***************************************************************************)
EXTENDS EditSessions_proofs

USE DEF Forks, Tokens, Empty, NoEntry, Theirs, Versions, NoFile, Junk, NoDate, NotEdited,
        EditCalls, SaveCalls, Troubles, When, local, edits, work, server

\* What this client has locked, and whether the token store says so.
Held(f) == lock[f] \in Tokens
OnRecord(f) == db[f] = IF Held(f) THEN lock[f] ELSE NoEntry
Known(t) == answer[t].status # "none"

\* No call fails for the client, nothing runs out, nothing crosses.
Undisturbed == trouble \subseteq {"refused", "during", "reopened", "overwrote"}

\* Of every call: what is locked meanwhile, and with which token the thread works.
LockPhase(t) ==
    /\ pc[t] = "props" \/ (pc[t] = "lock" /\ Succeeded(t)) => Held("data")
    /\ pc[t] = "props" /\ Known(t) => answer[t] = Ok(lock["data"])
    /\ pc[t] \in {"exists", "lockRez", "propsRez"} \/ (pc[t] = "rollback" /\ ~Known(t))
          => Held("data") /\ token[t] = lock["data"]
    /\ pc[t] \in {"rollback", "unlock"} /\ Known(t) => Succeeded(t) /\ ~Held("data")
    /\ pc[t] \in {"lockRez", "propsRez"} \/ (pc[t] = "exists" /\ Succeeded(t)) => forkThere
    /\ pc[t] = "propsRez" \/ (pc[t] = "lockRez" /\ Succeeded(t)) => Held("rez")
    /\ pc[t] = "propsRez" /\ Known(t) => answer[t] = Ok(lock["rez"])
    /\ pc[t] = "put" => token[t] = db["data"]
    /\ pc[t] = "unlock" /\ ~Known(t) => Held("data") /\ token[t] = lock["data"]
    /\ pc[t] = "propsAfter" /\ Succeeded(t) /\ Held("data") => answer[t].value = lock["data"]
    /\ pc[t] = "putRez" \/ (pc[t] = "unlockRez" /\ ~Known(t)) => token[t] = db["rez"]
    /\ pc[t] = "unlockRez" /\ Known(t) => ~Held("rez")
    /\ \/ OnRecord("data")
       \/ pc[t] = "props"
       \/ pc[t] \in {"lock", "rollback", "unlock"} /\ Succeeded(t)
    /\ \/ OnRecord("rez")
       \/ pc[t] = "propsRez"
       \/ pc[t] \in {"lockRez", "unlockRez"} /\ Succeeded(t)

LockInv ==
    Undisturbed =>
        /\ Idle => OnRecord("data") /\ OnRecord("rez")
        /\ \A t \in Threads : pc[t] # "idle" => LockPhase(t)

\* While the item is edited it is locked, so that nobody else writes it; only a thread
\* that gives the lock back is ahead of the list.
Safe == Held("data") /\ remote = base
Leaving(t) == t \in relinquish /\ pc[t] \in {"unlock", "propsAfter", "putRez", "unlockRez"}

EditPhase(t) ==
    /\ pc[t] = "get" => Held("data") /\ (Succeeded(t) => answer[t].value = remote)
    /\ pc[t] = "put" => Safe
    /\ pc[t] \in {"put", "putRez"} /\ Known(t) => Succeeded(t)
    /\ pc[t] \in {"unlock", "unlockRez"} => t \in relinquish

Calm == SupportsLocking /\ trouble \subseteq {"during", "reopened", "overwrote"}

EditInv ==
    Calm =>
        /\ "overwrote" \notin trouble
        /\ \A t \in Threads : EditPhase(t)
        /\ lastEdit # NotEdited => Safe \/ \E t \in Threads : Leaving(t)

\* Nothing is lost or refused, nothing crosses, and the user neither saves during an
\* upload nor opens a changed file again.
Kept == trouble \subseteq {"broken", "crashed", "overwrote"}

\* A file that differs from the item has a date of its own, which is not the one on disk
\* and not the one in the list, unless its upload is under way.
Dates == date <= clock /\ stored <= clock /\ lastEdit <= clock
Remembered == file \in {base, NoFile} \/ stored # date
ChangePhase(t) ==
    /\ pc[t] = "put" /\ Known(t) => Succeeded(t)
    /\ pc[t] \in SaveCalls \ {"put"} \/ (pc[t] = "put" /\ Known(t)) => file = base

ChangeInv ==
    Kept =>
        /\ Dates /\ Remembered /\ ChangesAreNotForgotten
        /\ \A t \in Threads : ChangePhase(t)

\* What a thread that is to give the lock back has done of it, whatever was lost before.
Free(f) == ~Held(f) /\ db[f] = NoEntry
Named(t, f) == Held(f) => lock[f] = token[t]

LeavePhase(t) ==
    /\ pc[t] = "put" =>
          token[t] = db["data"] /\ (Succeeded(t) => Named(t, "data"))
    /\ pc[t] = "unlock" => Named(t, "data") /\ (Known(t) => ~Held("data"))
    /\ pc[t] \in {"propsAfter", "putRez", "unlockRez"} => Free("data")
    /\ pc[t] = "putRez" => token[t] = db["rez"] /\ (Succeeded(t) => Named(t, "rez"))
    /\ pc[t] = "unlockRez" => Named(t, "rez") /\ (Known(t) => ~Held("rez"))

Uncrossed == trouble \cap {"lost", "race"} = {}

LeaveInv ==
    Uncrossed =>
        /\ ~Encoding => Free("rez") /\ \A t \in Threads : pc[t] \notin {"exists", "lockRez", "propsRez"}
        /\ lastEdit # NotEdited => stored # NotEdited
        /\ \A t \in relinquish : pc[t] \in SaveCalls /\ LeavePhase(t)

SessionInv == IInv /\ LockInv /\ EditInv /\ ChangeInv /\ LeaveInv
-----------------------------------------------------------------------------
\* What all four have in common: trouble is not forgotten, and without a race a thread
\* that waits for a call is alone.

LEMMA TroubleGrows == [Next]_vars => trouble \subseteq trouble'
<1> SUFFICES ASSUME [Next]_vars, NEW x \in trouble PROVE x \in trouble'
  OBVIOUS
<1> QED
  BY ZenonT(60) DEF Next, StartEdit, StartSave, Continue, LockAnswered, PropsAnswered, ExistsAnswered,
         LockRezAnswered, PropsRezAnswered, RollbackAnswered, GetAnswered, GiveUp,
         PutAnswered, UnlockAnswered, PropsAfterAnswered, PutRezAnswered, NullToken,
         UnlockRezAnswered, Serve, ServeLock, ServeProps, ServeUnlock, ServeGet,
         ServePut, ServePutRez, CallFails, RemoveSelectedFiles, Restart, UserSaves,
         OtherWrites, ForkAppears, OtherLocks, LockEnds, Noted, vars

\* A thread that goes on, or ends, while the others are idle.
LEMMA GotoAlone ==
    ASSUME TypeInv, NEW t \in Threads, OthersIdle(t), NEW call \in PCs, Goto(t, call)
    PROVE  /\ pc'[t] = call /\ answer'[t] = Waiting /\ answer'[t].status = "none"
           /\ \A u \in Threads \ {t} : pc[u] = "idle" /\ pc'[u] = "idle"
  BY DEF Goto, TypeInv, TypeOK, OthersIdle, Waiting

\* An answer changes nothing else of the threads.
LEMMA RespondAlone ==
    ASSUME TypeInv, NEW t \in Threads, NEW a, Respond(t, a)
    PROVE  answer'[t] = a /\ \A u \in Threads \ {t} : answer'[u] = answer[u]
  BY DEF Respond, TypeInv, TypeOK

\* The user's commands are given to an idle program, or are a race.
LEMMA CommandAlone ==
    ASSUME IInv, "race" \notin trouble, NEW t \in Threads, pc[t] = "idle" => Noted(Racing(t)),
           "race" \notin trouble'
    PROVE  OthersIdle(t) /\ (pc[t] = "idle" => Idle)
  BY DEF IInv, Solo, Noted, Racing, OthersIdle, Idle
-----------------------------------------------------------------------------
\* LockInv: locks and the token store.

\* The next call of a thread, or its end, at a moment when its phase allows it.
LEMMA LockGoto ==
    ASSUME TypeInv, NEW t \in Threads, OthersIdle(t), NEW call \in PCs, Goto(t, call),
           call = "idle" => OnRecord("data")' /\ OnRecord("rez")',
           call # "idle" => LockPhase(t)'
    PROVE  LockInv'
<1>1. /\ pc'[t] = call /\ answer'[t].status = "none"
      /\ \A u \in Threads \ {t} : pc'[u] = "idle"
  BY GotoAlone
<1>2. Idle' => OnRecord("data")' /\ OnRecord("rez")'
  BY <1>1 DEF Idle
<1>3. \A u \in Threads : pc'[u] # "idle" => LockPhase(u)'
  BY <1>1
<1> QED
  BY <1>2, <1>3 DEF LockInv

\* The call of a thread that has no part in the token store for now.
LEMMA LockRest ==
    ASSUME TypeInv, NEW t \in Threads, OthersIdle(t), NEW call \in {"idle", "get"}, Goto(t, call),
           OnRecord("data")', OnRecord("rez")'
    PROVE  LockInv'
<1>1. call \in PCs
  BY DEF PCs
<1>2. pc'[t] = call
  BY <1>1, GotoAlone
<1>3. call = "get" => LockPhase(t)'
  BY <1>2 DEF LockPhase
<1> QED
  BY <1>1, <1>3, LockGoto

LEMMA LockDownload ==
    ASSUME TypeInv, NEW t \in Threads, OthersIdle(t), Download(t) \/ GiveUp(t) \/ Conclude(t),
           OnRecord("data")', OnRecord("rez")'
    PROVE  LockInv'
  BY LockRest DEF Download, GiveUp, Conclude, Finish

\* Nothing of what LockInv is about changes.
LEMMA LockSame ==
    ASSUME LockInv, trouble \subseteq trouble',
           UNCHANGED <<db, pc, answer, token, lock, forkThere>>
    PROVE  LockInv'
  BY DEF LockInv, Undisturbed, Idle, LockPhase, OnRecord, Held, Known, Succeeded

\* The user's commands.
LEMMA LockCommand ==
    ASSUME IInv, LockInv, Undisturbed', trouble \subseteq trouble',
           \/ RemoveSelectedFiles
           \/ \E t \in Threads : StartEdit(t) \/ \E over \in BOOLEAN : StartSave(t, over)
    PROVE  LockInv'
<1>0. Undisturbed /\ "race" \notin trouble /\ "race" \notin trouble' /\ TypeInv
  BY DEF Undisturbed, IInv
<1>1. CASE RemoveSelectedFiles
  BY <1>1, LockSame DEF RemoveSelectedFiles
<1>2. ASSUME NEW t \in Threads, OthersIdle(t), pc[t] = "idle", UNCHANGED <<db, lock>>
      PROVE  OnRecord("data")' /\ OnRecord("rez")'
  <2>1. Idle
    BY <1>2 DEF OthersIdle, Idle
  <2> QED
    BY <1>0, <1>2, <2>1 DEF LockInv, OnRecord, Held
<1>3. ASSUME NEW t \in Threads, StartEdit(t) PROVE LockInv'
  <2>1. CASE lastEdit # NotEdited
    BY <1>3, <2>1, LockSame DEF StartEdit
  <2>2. CASE lastEdit = NotEdited
    <3>1. OthersIdle(t) /\ pc[t] = "idle" /\ UNCHANGED <<db, lock>>
      BY <1>0, <1>3, <2>2, CommandAlone DEF StartEdit
    <3>2. OnRecord("data")' /\ OnRecord("rez")'
      BY <1>2, <3>1
    <3>3. CASE Download(t)
      BY <1>0, <3>1, <3>2, <3>3, LockDownload
    <3>4. CASE Goto(t, "lock")
      <4>1. pc'[t] = "lock" /\ answer'[t].status = "none" /\ "lock" \in PCs
        BY <1>0, <3>1, <3>4, GotoAlone DEF PCs
      <4>2. LockPhase(t)'
        BY <3>2, <4>1 DEF LockPhase, Succeeded
      <4> QED
        BY <1>0, <3>1, <3>4, <4>1, <4>2, LockGoto
    <3> QED
      BY <1>3, <2>2, <3>3, <3>4 DEF StartEdit
  <2> QED
    BY <2>1, <2>2
<1>4. ASSUME NEW t \in Threads, NEW over \in BOOLEAN, StartSave(t, over) PROVE LockInv'
  <2>1. OthersIdle(t) /\ pc[t] = "idle" /\ UNCHANGED <<db, lock>>
    BY <1>0, <1>4, CommandAlone DEF StartSave
  <2>2. OnRecord("data")' /\ OnRecord("rez")'
    BY <1>2, <2>1
  <2>3. CASE file = NoFile
    BY <1>0, <1>4, <2>1, <2>2, <2>3, LockRest DEF StartSave, Finish
  <2>4. CASE file # NoFile
    <3>1. Goto(t, "put") /\ token' = [token EXCEPT ![t] = db["data"]]
      BY <1>4, <2>4 DEF StartSave, SetToken
    <3>2. pc'[t] = "put" /\ answer'[t].status = "none" /\ "put" \in PCs
      BY <1>0, <2>1, <3>1, GotoAlone DEF PCs
    <3>3. token'[t] = db'["data"]
      BY <1>0, <2>1, <3>1 DEF TypeInv, TypeOK
    <3>4. LockPhase(t)'
      BY <2>2, <3>2, <3>3 DEF LockPhase, Succeeded, Known
    <3> QED
      BY <1>0, <2>1, <3>1, <3>2, <3>4, LockGoto
  <2> QED
    BY <2>3, <2>4
<1> QED
  BY <1>1, <1>3, <1>4

\* The end of the program, when it is idle.
LEMMA LockRestart ==
    ASSUME IInv, LockInv, Undisturbed', trouble \subseteq trouble', Restart
    PROVE  LockInv'
<1>1. Idle /\ Undisturbed /\ UNCHANGED <<db, lock>>
  BY DEF Restart, Noted, Undisturbed
<1>2. OnRecord("data")' /\ OnRecord("rez")'
  BY <1>1 DEF LockInv, OnRecord, Held
<1> QED
  BY <1>2 DEF Restart, LockInv

\* The answers: a lock is put on record when its token was read, and taken off when it
\* was given back.
LEMMA LockContinue ==
    ASSUME IInv, LockInv, Undisturbed', trouble \subseteq trouble', NEW t \in Threads, Continue(t)
    PROVE  LockInv'
<1>0. Undisturbed /\ "race" \notin trouble /\ TypeInv
  BY DEF Undisturbed, IInv
<1>1. /\ db \in [Forks -> {NoEntry, Theirs, Empty} \cup Tokens]
      /\ token \in [Threads -> {NoEntry, Theirs, Empty} \cup Tokens]
  BY <1>0 DEF TypeInv, TypeOK
<1>2. pc[t] # "idle" => OthersIdle(t) /\ LockPhase(t)
  BY <1>0 DEF IInv, Solo, LockInv
<1>3. ASSUME NEW call \in PCs, Goto(t, call), OthersIdle(t)
      PROVE  pc'[t] = call /\ answer'[t].status = "none"
  BY <1>0, <1>3, GotoAlone
<1>4. PCs = {"idle"} \cup EditCalls \cup SaveCalls
  BY DEF PCs
<1>5. ASSUME OnRecord("data"), OnRecord("rez"), UNCHANGED <<db, lock>>
      PROVE  OnRecord("data")' /\ OnRecord("rez")'
  BY <1>5 DEF OnRecord, Held
<1>11. CASE LockAnswered(t)
  <2>0. OthersIdle(t) /\ LockPhase(t) /\ UNCHANGED <<db, lock>> /\ pc[t] = "lock"
    BY <1>2, <1>11 DEF LockAnswered, Answered
  <2>1. CASE Succeeded(t)
    <3>1. Goto(t, "props") /\ Held("data") /\ OnRecord("rez")
      BY <1>11, <2>0, <2>1 DEF LockAnswered, LockPhase
    <3>2. pc'[t] = "props" /\ answer'[t].status = "none"
      BY <1>3, <1>4, <2>0, <3>1
    <3>3. LockPhase(t)'
      BY <2>0, <3>1, <3>2 DEF LockPhase, OnRecord, Held, Known, Succeeded
    <3> QED
      BY <1>0, <1>4, <2>0, <3>1, <3>3, LockGoto
  <2>2. CASE ~Succeeded(t)
    BY <1>0, <1>5, <1>11, <2>0, <2>2, LockDownload DEF LockAnswered, LockPhase
  <2> QED
    BY <2>1, <2>2
<1>12. CASE PropsAnswered(t)
  <2>0. OthersIdle(t) /\ LockPhase(t) /\ UNCHANGED lock /\ pc[t] = "props" /\ Known(t)
    BY <1>2, <1>12 DEF PropsAnswered, Answered, Known
  <2>1. /\ answer[t] = Ok(lock["data"]) /\ Succeeded(t) /\ answer[t].value = lock["data"]
        /\ Held("data") /\ OnRecord("rez")
    BY <2>0 DEF LockPhase, Ok, Succeeded
  <2>2. db' = [db EXCEPT !["data"] = lock["data"]]
    BY <1>12, <2>1 DEF PropsAnswered, ItemLocked
  <2>3. OnRecord("data")' /\ OnRecord("rez")'
    BY <1>1, <2>0, <2>1, <2>2 DEF OnRecord, Held
  <2>4. CASE Download(t)
    BY <1>0, <2>0, <2>3, <2>4, LockDownload
  <2>5. CASE Goto(t, "exists") /\ SetToken(t, answer[t].value)
    <3>1. pc'[t] = "exists" /\ answer'[t].status = "none"
      BY <1>3, <1>4, <2>0, <2>5
    <3>2. token'[t] = lock'["data"] /\ Held("data")'
      BY <1>1, <2>0, <2>1, <2>5 DEF SetToken, Held
    <3>3. LockPhase(t)'
      BY <2>3, <3>1, <3>2 DEF LockPhase, Known, Succeeded
    <3> QED
      BY <1>0, <1>4, <2>0, <2>5, <3>3, LockGoto
  <2> QED
    BY <1>12, <2>1, <2>4, <2>5 DEF PropsAnswered
<1>13. CASE ExistsAnswered(t)
  <2>0. OthersIdle(t) /\ LockPhase(t) /\ UNCHANGED <<db, lock, forkThere>> /\ pc[t] = "exists"
    BY <1>2, <1>13 DEF ExistsAnswered, Answered
  <2>1. OnRecord("data") /\ OnRecord("rez")
    BY <2>0 DEF LockPhase
  <2>2. CASE Succeeded(t)
    <3>1. Goto(t, "lockRez") /\ UNCHANGED token
      BY <1>13, <2>2 DEF ExistsAnswered
    <3>2. pc'[t] = "lockRez" /\ answer'[t].status = "none"
      BY <1>3, <1>4, <2>0, <3>1
    <3>3. LockPhase(t)'
      BY <2>0, <2>1, <2>2, <3>1, <3>2 DEF LockPhase, OnRecord, Held, Known, Succeeded
    <3> QED
      BY <1>0, <1>4, <2>0, <3>1, <3>3, LockGoto
  <2>3. CASE ~Succeeded(t)
    BY <1>0, <1>5, <1>13, <2>0, <2>1, <2>3, LockDownload DEF ExistsAnswered
  <2> QED
    BY <2>2, <2>3
<1>14. CASE LockRezAnswered(t)
  <2>0. /\ OthersIdle(t) /\ LockPhase(t) /\ UNCHANGED <<token, db, lock, forkThere>>
        /\ pc[t] = "lockRez"
    BY <1>2, <1>14 DEF LockRezAnswered, Answered
  <2>1. CASE Succeeded(t)
    <3>1. Goto(t, "propsRez")
      BY <1>14, <2>1 DEF LockRezAnswered
    <3>2. pc'[t] = "propsRez" /\ answer'[t].status = "none"
      BY <1>3, <1>4, <2>0, <3>1
    <3>3. LockPhase(t)'
      BY <2>0, <2>1, <3>1, <3>2 DEF LockPhase, OnRecord, Held, Known, Succeeded
    <3> QED
      BY <1>0, <1>4, <2>0, <3>1, <3>3, LockGoto
  <2>2. CASE ~Succeeded(t)
    <3>1. Goto(t, "rollback")
      BY <1>14, <2>2 DEF LockRezAnswered
    <3>2. pc'[t] = "rollback" /\ answer'[t].status = "none"
      BY <1>3, <1>4, <2>0, <3>1
    <3>3. LockPhase(t)'
      BY <2>0, <2>2, <3>1, <3>2 DEF LockPhase, OnRecord, Held, Known, Succeeded
    <3> QED
      BY <1>0, <1>4, <2>0, <3>1, <3>3, LockGoto
  <2> QED
    BY <2>1, <2>2
<1>15. CASE PropsRezAnswered(t)
  <2>0. OthersIdle(t) /\ LockPhase(t) /\ UNCHANGED lock /\ pc[t] = "propsRez" /\ Known(t)
    BY <1>2, <1>15 DEF PropsRezAnswered, Answered, Known
  <2>1. /\ answer[t] = Ok(lock["rez"]) /\ Succeeded(t) /\ answer[t].value = lock["rez"]
        /\ Held("rez") /\ OnRecord("data")
    BY <2>0 DEF LockPhase, Ok, Succeeded
  <2>2. db' = [db EXCEPT !["rez"] = lock["rez"]] /\ Download(t)
    BY <1>15, <2>1 DEF PropsRezAnswered, ItemLocked
  <2>3. OnRecord("data")' /\ OnRecord("rez")'
    BY <1>1, <2>0, <2>1, <2>2 DEF OnRecord, Held
  <2> QED
    BY <1>0, <2>0, <2>2, <2>3, LockDownload
<1>16. CASE RollbackAnswered(t)
  <2>0. OthersIdle(t) /\ LockPhase(t) /\ UNCHANGED lock /\ pc[t] = "rollback" /\ Known(t)
    BY <1>2, <1>16 DEF RollbackAnswered, Answered, Known
  <2>1. Succeeded(t) /\ ~Held("data") /\ OnRecord("rez")
    BY <2>0 DEF LockPhase
  <2>2. db' = [db EXCEPT !["data"] = NoEntry] /\ GiveUp(t)
    BY <1>16, <2>1 DEF RollbackAnswered, ItemUnlocked
  <2>3. OnRecord("data")' /\ OnRecord("rez")'
    BY <1>1, <2>0, <2>1, <2>2 DEF OnRecord, Held
  <2> QED
    BY <1>0, <2>0, <2>2, <2>3, LockDownload
<1>17. CASE GetAnswered(t)
  <2>0. OthersIdle(t) /\ LockPhase(t) /\ UNCHANGED <<db, lock>> /\ pc[t] = "get" /\ Finish(t)
    BY <1>2, <1>17 DEF GetAnswered, Answered
  <2> QED
    BY <1>0, <1>5, <2>0, LockRest DEF LockPhase, Finish
<1>18. CASE PutAnswered(t)
  <2>0. OthersIdle(t) /\ LockPhase(t) /\ UNCHANGED <<db, lock, forkThere>> /\ pc[t] = "put"
    BY <1>2, <1>18 DEF PutAnswered, Answered
  <2>1. OnRecord("data") /\ OnRecord("rez") /\ token[t] = db["data"]
    BY <2>0 DEF LockPhase
  <2>2. CASE Finish(t)
    BY <1>0, <1>5, <2>0, <2>1, <2>2, LockRest DEF Finish
  <2>3. CASE Goto(t, "unlock") /\ token[t] # NoEntry /\ UNCHANGED token
    <3>1. pc'[t] = "unlock" /\ answer'[t].status = "none"
      BY <1>3, <1>4, <2>0, <2>3
    <3>2. LockPhase(t)'
      BY <2>0, <2>1, <2>3, <3>1 DEF LockPhase, OnRecord, Held, Known, Succeeded
    <3> QED
      BY <1>0, <1>4, <2>0, <2>3, <3>2, LockGoto
  <2>4. CASE Goto(t, "propsAfter")
    <3>1. pc'[t] = "propsAfter" /\ answer'[t].status = "none"
      BY <1>3, <1>4, <2>0, <2>4
    <3>2. LockPhase(t)'
      BY <1>5, <2>0, <2>1, <3>1 DEF LockPhase, Known, Succeeded
    <3> QED
      BY <1>0, <1>4, <2>0, <2>4, <3>2, LockGoto
  <2> QED
    BY <1>18, <2>2, <2>3, <2>4 DEF PutAnswered
<1>19. CASE UnlockAnswered(t)
  <2>0. OthersIdle(t) /\ LockPhase(t) /\ UNCHANGED lock /\ pc[t] = "unlock" /\ Known(t)
    BY <1>2, <1>19 DEF UnlockAnswered, Answered, Known
  <2>1. ~Held("data") /\ OnRecord("rez")
    BY <2>0 DEF LockPhase
  <2>2. db' = [db EXCEPT !["data"] = NoEntry] /\ Goto(t, "propsAfter")
    BY <1>19 DEF UnlockAnswered, ItemUnlocked
  <2>3. OnRecord("data")' /\ OnRecord("rez")'
    BY <1>1, <2>0, <2>1, <2>2 DEF OnRecord, Held
  <2>4. pc'[t] = "propsAfter" /\ answer'[t].status = "none"
    BY <1>3, <1>4, <2>0, <2>2
  <2>5. LockPhase(t)'
    BY <2>3, <2>4 DEF LockPhase, Known, Succeeded
  <2> QED
    BY <1>0, <1>4, <2>0, <2>2, <2>5, LockGoto
<1>20. CASE PropsAfterAnswered(t)
  <2>0. OthersIdle(t) /\ LockPhase(t) /\ UNCHANGED lock /\ pc[t] = "propsAfter"
    BY <1>2, <1>20 DEF PropsAfterAnswered, Answered
  <2>1. /\ OnRecord("data") /\ OnRecord("rez")
        /\ Succeeded(t) /\ Held("data") => answer[t].value = lock["data"]
    BY <2>0 DEF LockPhase
  <2>2. db' = [db EXCEPT !["data"] = db["data"]]
    <3>1. CASE Held("data")
      BY <1>1, <1>20, <2>1, <3>1 DEF PropsAfterAnswered, AfterDataChange, OnRecord, Held
    <3>2. CASE ~Held("data")
      BY <1>1, <1>20, <2>1, <3>2 DEF PropsAfterAnswered, AfterDataChange, OnRecord
    <3> QED
      BY <3>1, <3>2
  <2>3. UNCHANGED db
    BY <1>1, <2>2
  <2>4. OnRecord("data")' /\ OnRecord("rez")'
    BY <1>5, <2>0, <2>1, <2>3
  <2>5. CASE Goto(t, "putRez") /\ SetToken(t, db["rez"])
    <3>1. pc'[t] = "putRez" /\ answer'[t].status = "none"
      BY <1>3, <1>4, <2>0, <2>5
    <3>2. token'[t] = db'["rez"]
      BY <1>1, <2>3, <2>5 DEF SetToken
    <3>3. LockPhase(t)'
      BY <2>4, <3>1, <3>2 DEF LockPhase, Known, Succeeded
    <3> QED
      BY <1>0, <1>4, <2>0, <2>5, <3>3, LockGoto
  <2>6. CASE Conclude(t)
    BY <1>0, <2>0, <2>4, <2>6, LockDownload
  <2> QED
    BY <1>20, <2>5, <2>6 DEF PropsAfterAnswered
<1>21. CASE PutRezAnswered(t)
  <2>0. OthersIdle(t) /\ LockPhase(t) /\ UNCHANGED <<db, lock>> /\ pc[t] = "putRez"
    BY <1>2, <1>21 DEF PutRezAnswered, Answered
  <2>1. OnRecord("data")' /\ OnRecord("rez")' /\ token[t] = db["rez"]
    BY <1>5, <2>0 DEF LockPhase
  <2>2. CASE Finish(t) \/ Conclude(t)
    BY <1>0, <2>0, <2>1, <2>2, LockRest DEF Conclude, Finish
  <2>3. CASE Goto(t, "unlockRez") /\ UNCHANGED token
    <3>1. pc'[t] = "unlockRez" /\ answer'[t].status = "none"
      BY <1>3, <1>4, <2>0, <2>3
    <3>2. LockPhase(t)'
      BY <2>0, <2>1, <2>3, <3>1 DEF LockPhase, Known, Succeeded
    <3> QED
      BY <1>0, <1>4, <2>0, <2>3, <3>2, LockGoto
  <2> QED
    BY <1>21, <2>2, <2>3 DEF PutRezAnswered
<1>22. CASE NullToken(t)
  BY <1>22, LockRestart DEF NullToken
<1>23. CASE UnlockRezAnswered(t)
  <2>0. OthersIdle(t) /\ LockPhase(t) /\ UNCHANGED lock /\ pc[t] = "unlockRez" /\ Known(t)
    BY <1>2, <1>23 DEF UnlockRezAnswered, Answered, Known
  <2>1. ~Held("rez") /\ OnRecord("data")
    BY <2>0 DEF LockPhase
  <2>2. db' = [db EXCEPT !["rez"] = NoEntry] /\ Conclude(t)
    BY <1>23 DEF UnlockRezAnswered, ItemUnlocked
  <2>3. OnRecord("data")' /\ OnRecord("rez")'
    BY <1>1, <2>0, <2>1, <2>2 DEF OnRecord, Held
  <2> QED
    BY <1>0, <2>0, <2>2, <2>3, LockDownload
<1> QED
  BY <1>11, <1>12, <1>13, <1>14, <1>15, <1>16, <1>17, <1>18, <1>19, <1>20, <1>21, <1>22, <1>23
     DEF Continue

\* The server: what it locks is locked, and it takes the token it gave.
LEMMA LockServe ==
    ASSUME IInv, LockInv, Undisturbed', trouble \subseteq trouble', NEW t \in Threads,
           Serve(t) \/ CallFails(t)
    PROVE  LockInv'
<1>0. Undisturbed /\ "race" \notin trouble /\ TypeInv
  BY DEF Undisturbed, IInv
<1>1. /\ db \in [Forks -> {NoEntry, Theirs, Empty} \cup Tokens]
      /\ lock \in [Forks -> {Empty, Theirs} \cup Tokens]
      /\ token \in [Threads -> {NoEntry, Theirs, Empty} \cup Tokens]
      /\ issued \in 0..MaxLocks /\ MaxLocks \in Nat
  BY <1>0, ConstantsAssumption DEF TypeInv, TypeOK
<1>2. Serve(t) /\ answer[t].status = "none"
  BY DEF CallFails, Noted, Undisturbed, Serve
<1>3. pc[t] # "idle" /\ UNCHANGED <<db, pc, token>>
  BY <1>2 DEF Serve
<1>4. OthersIdle(t) /\ LockPhase(t)
  BY <1>0, <1>3 DEF IInv, Solo, LockInv
<1>5. ASSUME LockPhase(t)' PROVE LockInv'
  <2>1. \A u \in Threads : pc'[u] # "idle" => u = t
    BY <1>3, <1>4 DEF OthersIdle
  <2>2. ~Idle'
    BY <1>3 DEF Idle
  <2> QED
    BY <1>5, <2>1, <2>2 DEF LockInv
<1>6. ~Succeeded(t) /\ ~Known(t)
  BY <1>2 DEF Succeeded, Known
<1>7. ASSUME NEW a, Respond(t, a) PROVE answer'[t] = a
  BY <1>0, <1>7, RespondAlone
<1>8. \A x : Ok(x).status = "ok" /\ Ok(x).value = x
  BY DEF Ok
<1>9. Failed.status = "failed"
  BY DEF Failed
<1>11. CASE pc[t] = "lock"
  <2>1. ServeLock(t, "data")
    BY <1>2, <1>11 DEF Serve
  <2>2. CASE Respond(t, Ok(Empty)) /\ lock["data"] = Empty
    <3>1. answer'[t] = Ok(Empty) /\ answer'[t].status = "ok"
      BY <1>7, <1>8, <2>2
    <3>2. lock' = [lock EXCEPT !["data"] = issued + 1] /\ issued + 1 \in Tokens
      BY <1>1, <2>1, <2>2 DEF ServeLock
    <3>3. Held("data")' /\ OnRecord("rez")'
      BY <1>1, <1>3, <1>4, <1>11, <3>2 DEF LockPhase, OnRecord, Held
    <3> QED
      BY <1>3, <1>5, <1>11, <3>1, <3>3 DEF LockPhase, Known, Succeeded
  <2>3. CASE Respond(t, Failed) /\ UNCHANGED lock
    <3>1. answer'[t].status = "failed"
      BY <1>7, <1>9, <2>3
    <3>2. OnRecord("data")' /\ OnRecord("rez")'
      BY <1>3, <1>4, <1>6, <1>11, <2>3 DEF LockPhase, OnRecord, Held
    <3> QED
      BY <1>3, <1>5, <1>11, <3>1, <3>2 DEF LockPhase, Known, Succeeded
  <2> QED
    BY <2>1, <2>2, <2>3 DEF ServeLock
<1>12. CASE pc[t] = "lockRez"
  <2>1. ServeLock(t, "rez")
    BY <1>2, <1>12 DEF Serve
  <2>0. Held("data") /\ token[t] = lock["data"] /\ forkThere /\ forkThere' = forkThere
        /\ OnRecord("data")
    BY <1>4, <1>12, <2>1 DEF LockPhase, ServeLock
  <2>2. CASE Respond(t, Ok(Empty)) /\ lock["rez"] = Empty
    <3>1. answer'[t] = Ok(Empty) /\ answer'[t].status = "ok"
      BY <1>7, <1>8, <2>2
    <3>2. lock' = [lock EXCEPT !["rez"] = issued + 1] /\ issued + 1 \in Tokens
      BY <1>1, <2>1, <2>2 DEF ServeLock
    <3>3. Held("rez")' /\ OnRecord("data")' /\ Held("data")' /\ lock'["data"] = lock["data"]
      BY <1>1, <1>3, <2>0, <3>2 DEF OnRecord, Held
    <3> QED
      BY <1>3, <1>5, <1>12, <2>0, <3>1, <3>3 DEF LockPhase, Known, Succeeded
  <2>3. CASE Respond(t, Failed) /\ UNCHANGED lock
    <3>1. answer'[t].status = "failed"
      BY <1>7, <1>9, <2>3
    <3>2. OnRecord("data")' /\ OnRecord("rez")' /\ Held("data")'
      BY <1>3, <1>4, <1>6, <1>12, <2>0, <2>3 DEF LockPhase, OnRecord, Held
    <3> QED
      BY <1>3, <1>5, <1>12, <2>0, <2>3, <3>1, <3>2 DEF LockPhase, Known, Succeeded
  <2> QED
    BY <2>1, <2>2, <2>3 DEF ServeLock
<1>13. CASE pc[t] \in {"props", "propsAfter", "exists", "propsRez"}
  <2>1. UNCHANGED <<lock, forkThere>> /\ Held("data")' = Held("data")
    BY <1>2, <1>13 DEF Serve, ServeProps, Held
  <2>2. pc[t] \in {"props", "propsAfter"} => answer'[t] = Ok(lock["data"])
    BY <1>2, <1>7 DEF Serve, ServeProps
  <2>3. pc[t] \in {"exists", "propsRez"} =>
           answer'[t] = IF forkThere THEN Ok(lock["rez"]) ELSE [status |-> "absent", value |-> Empty]
    BY <1>2, <1>7 DEF Serve, ServeProps
  <2>4. pc[t] = "exists" /\ answer'[t].status = "ok" => forkThere
    BY <2>3
  <2>5. pc[t] = "propsAfter" => OnRecord("data")' /\ OnRecord("rez")'
    BY <1>3, <1>4, <2>1 DEF LockPhase, OnRecord, Held
  <2>6. pc[t] = "exists" => OnRecord("data")' /\ OnRecord("rez")'
    BY <1>3, <1>4, <2>1 DEF LockPhase, OnRecord, Held
  <2>7. CASE pc[t] = "props"
    <3>1. Held("data")' /\ OnRecord("rez")'
      BY <1>3, <1>4, <2>1, <2>7 DEF LockPhase, OnRecord, Held
    <3> QED
      BY <1>3, <1>5, <2>1, <2>2, <2>7, <3>1 DEF LockPhase
  <2>8. CASE pc[t] = "propsAfter"
    BY <1>3, <1>5, <1>8, <2>1, <2>2, <2>5, <2>8 DEF LockPhase
  <2>9. CASE pc[t] = "exists"
    BY <1>3, <1>4, <1>5, <2>1, <2>4, <2>6, <2>9 DEF LockPhase, Succeeded, Held
  <2>10. CASE pc[t] = "propsRez"
    <3>1. forkThere /\ Held("rez") /\ Held("data") /\ token[t] = lock["data"] /\ OnRecord("data")
      BY <1>4, <2>10 DEF LockPhase
    <3>2. answer'[t] = Ok(lock'["rez"])
      BY <2>1, <2>3, <2>10, <3>1
    <3> QED
      BY <1>3, <1>5, <2>1, <2>10, <3>1, <3>2 DEF LockPhase, OnRecord, Held
  <2> QED
    BY <1>13, <2>7, <2>8, <2>9, <2>10
<1>14. CASE pc[t] \in {"unlock", "rollback"}
  <2>1. ServeUnlock(t, "data") /\ Held("data") /\ token[t] = lock["data"] /\ OnRecord("rez")
    BY <1>2, <1>4, <1>6, <1>14 DEF Serve, LockPhase
  <2>2. lock' = [lock EXCEPT !["data"] = Empty] /\ Respond(t, Ok(Empty))
    BY <1>1, <2>1 DEF ServeUnlock, Held
  <2>3. answer'[t].status = "ok"
    BY <1>7, <1>8, <2>2
  <2>4. ~Held("data")' /\ OnRecord("rez")'
    BY <1>1, <1>3, <2>1, <2>2 DEF OnRecord, Held
  <2> QED
    BY <1>3, <1>5, <1>14, <2>3, <2>4 DEF LockPhase, Known, Succeeded
<1>15. CASE pc[t] = "unlockRez"
  <2>1. ServeUnlock(t, "rez") /\ token[t] = db["rez"] /\ OnRecord("data") /\ OnRecord("rez")
    BY <1>2, <1>4, <1>6, <1>15 DEF Serve, LockPhase
  <2>2. CASE Held("rez")
    <3>1. lock' = [lock EXCEPT !["rez"] = Empty] /\ Respond(t, Ok(Empty))
      BY <1>1, <2>1, <2>2 DEF ServeUnlock, Held, OnRecord
    <3>2. answer'[t].status = "ok"
      BY <1>7, <1>8, <3>1
    <3>3. ~Held("rez")' /\ OnRecord("data")'
      BY <1>1, <1>3, <2>1, <3>1 DEF OnRecord, Held
    <3> QED
      BY <1>3, <1>5, <1>15, <3>2, <3>3 DEF LockPhase, Known, Succeeded
  <2>3. CASE ~Held("rez")
    <3>1. UNCHANGED lock /\ Respond(t, Failed)
      BY <1>1, <2>1, <2>3 DEF ServeUnlock, Held, OnRecord
    <3>2. answer'[t].status = "failed"
      BY <1>7, <1>9, <3>1
    <3>3. ~Held("rez")' /\ OnRecord("data")' /\ OnRecord("rez")'
      BY <1>3, <2>1, <2>3, <3>1 DEF OnRecord, Held
    <3> QED
      BY <1>3, <1>5, <1>15, <3>2, <3>3 DEF LockPhase, Known, Succeeded
  <2> QED
    BY <2>2, <2>3
<1>16. CASE pc[t] \in {"get", "put", "putRez"}
  <2>1. UNCHANGED lock
    BY <1>2, <1>16 DEF Serve, ServeGet, ServePut, ServePutRez
  <2>2. OnRecord("data")' /\ OnRecord("rez")'
    BY <1>3, <1>4, <1>16, <2>1 DEF LockPhase, OnRecord, Held
  <2> QED
    BY <1>3, <1>4, <1>5, <1>16, <2>2 DEF LockPhase, Succeeded, Known
<1> QED
  BY <1>2, <1>11, <1>12, <1>13, <1>14, <1>15, <1>16 DEF Serve

\* Other clients do not touch a lock of this client, and no lock runs out.
LEMMA LockOthers ==
    ASSUME IInv, LockInv, Undisturbed', trouble \subseteq trouble',
           \/ UserSaves \/ OtherWrites \/ ForkAppears
           \/ \E f \in Forks : OtherLocks(f) \/ LockEnds(f)
    PROVE  LockInv'
<1>0. Undisturbed /\ UNCHANGED <<db, pc, answer, token>>
  BY DEF Undisturbed, UserSaves, OtherWrites, ForkAppears, OtherLocks, LockEnds
<1>1. lock \in [Forks -> {Empty, Theirs} \cup Tokens]
  BY DEF IInv, TypeInv, TypeOK
<1>2. \A f \in Forks : /\ Held(f)' = Held(f)
                       /\ Held(f) => lock'[f] = lock[f]
  BY <1>1 DEF Undisturbed, UserSaves, OtherWrites, ForkAppears, OtherLocks, LockEnds, Noted, Held
<1>3. forkThere => forkThere'
  BY DEF UserSaves, OtherWrites, ForkAppears, OtherLocks, LockEnds
<1>4. \A f \in Forks : OnRecord(f)' = OnRecord(f)
  BY <1>0, <1>2 DEF OnRecord
<1>5. ASSUME NEW t \in Threads, pc'[t] # "idle" PROVE LockPhase(t)'
  <2>1. LockPhase(t)
    BY <1>0, <1>5 DEF LockInv
  <2>2. Held("data") => lock'["data"] = lock["data"]
    BY <1>2
  <2>3. Held("rez") => lock'["rez"] = lock["rez"]
    BY <1>2
  <2>4. Held("data")' = Held("data") /\ Held("rez")' = Held("rez")
        /\ OnRecord("data")' = OnRecord("data") /\ OnRecord("rez")' = OnRecord("rez")
    BY <1>2, <1>4
  <2>5. Known(t)' = Known(t) /\ Succeeded(t)' = Succeeded(t)
    BY <1>0 DEF Known, Succeeded
  <2> QED
    BY <1>0, <1>3, <2>1, <2>2, <2>3, <2>4, <2>5 DEF LockPhase
<1> QED
  BY <1>0, <1>4, <1>5 DEF LockInv, Idle

\* LockInv holds at first, and every step keeps it.
LEMMA LockInit == Init => LockInv
<1> SUFFICES ASSUME Init PROVE LockInv
  OBVIOUS
<1>1. \A t \in Threads : pc[t] = "idle"
  BY DEF Init
<1>2. OnRecord("data") /\ OnRecord("rez")
  BY ConstantsAssumption DEF Init, OnRecord, Held
<1> QED
  BY <1>1, <1>2 DEF LockInv

LEMMA LockStep == IInv /\ LockInv /\ [Next]_vars => LockInv'
<1> SUFFICES ASSUME IInv, LockInv, [Next]_vars, Undisturbed' PROVE LockInv'
  BY DEF LockInv
<1>1. trouble \subseteq trouble'
  BY TroubleGrows
<1>2. CASE UNCHANGED vars
  BY <1>1, <1>2, LockSame DEF vars
<1>3. CASE Next
  BY <1>1, <1>3, LockCommand, LockContinue, LockServe, LockRestart, LockOthers DEF Next
<1> QED
  BY <1>2, <1>3
-----------------------------------------------------------------------------
\* EditInv: what is edited is locked and as it was downloaded.

\* The next call of a thread, or its end.
LEMMA EditGoto ==
    ASSUME TypeInv, NEW t \in Threads, OthersIdle(t), NEW call \in PCs, Goto(t, call),
           "overwrote" \notin trouble',
           call = "get" => Held("data")', call = "put" => Safe',
           call \in {"unlock", "unlockRez"} => t \in relinquish',
           lastEdit' # NotEdited => Safe' \/ Leaving(t)'
    PROVE  EditInv'
<1>1. /\ pc'[t] = call /\ answer'[t].status = "none"
      /\ \A u \in Threads \ {t} : pc'[u] = "idle"
  BY GotoAlone
<1>2. ~Known(t)' /\ ~Succeeded(t)'
  BY <1>1 DEF Known, Succeeded
<1>3. EditPhase(t)'
  BY <1>1, <1>2 DEF EditPhase
<1>4. \A u \in Threads \ {t} : EditPhase(u)'
  BY <1>1 DEF EditPhase
<1> QED
  BY <1>3, <1>4 DEF EditInv

\* A thread that stops or is about to download edits nothing yet.
LEMMA EditDownload ==
    ASSUME TypeInv, NEW t \in Threads, OthersIdle(t), Download(t) \/ GiveUp(t),
           "overwrote" \notin trouble', Held("data")' \/ GiveUp(t), lastEdit' = NotEdited
    PROVE  EditInv'
  BY EditGoto DEF Download, GiveUp, Finish, PCs

\* The end of a thread that saves: without the edit the lock matters no more.
LEMMA EditConclude ==
    ASSUME TypeInv, NEW t \in Threads, OthersIdle(t), Conclude(t), "overwrote" \notin trouble',
           lastEdit # NotEdited => Safe' \/ t \in relinquish
    PROVE  EditInv'
<1>1. Goto(t, "idle") /\ "idle" \in PCs
  BY DEF Conclude, Finish, PCs
<1>2. lastEdit' # NotEdited => lastEdit # NotEdited /\ t \notin relinquish
  BY DEF Conclude, StopEditingItem, UpdateItemEditTime
<1> QED
  BY <1>1, <1>2, EditGoto

\* Nothing of what EditInv is about changes but the list, which gets nothing new.
LEMMA EditSame ==
    ASSUME EditInv, trouble \subseteq trouble', Calm', "overwrote" \notin trouble',
           UNCHANGED <<pc, answer, lock, remote, base, relinquish>>,
           lastEdit' # NotEdited => lastEdit # NotEdited
    PROVE  EditInv'
<1>1. Calm
  BY DEF Calm
<1>3. \A t \in Threads : EditPhase(t)' = EditPhase(t) /\ Leaving(t)' = Leaving(t)
  BY DEF EditPhase, Leaving, Known, Succeeded, Held, Safe
<1>4. Safe' = Safe
  BY DEF Safe, Held
<1> QED
  BY <1>1, <1>3, <1>4 DEF EditInv

\* The user's commands.
LEMMA EditCommand ==
    ASSUME IInv, LockInv, EditInv, Calm', trouble \subseteq trouble',
           \/ RemoveSelectedFiles
           \/ \E t \in Threads : StartEdit(t) \/ \E over \in BOOLEAN : StartSave(t, over)
    PROVE  EditInv'
<1>0. /\ Calm /\ Undisturbed /\ TypeInv /\ "overwrote" \notin trouble
      /\ "race" \notin trouble /\ "race" \notin trouble'
  BY DEF Calm, Undisturbed, IInv, EditInv
<1>1. trouble' \subseteq trouble \cup {"reopened", "race"}
  BY DEF RemoveSelectedFiles, StartEdit, StartSave, Noted, Reopening, Racing
<1>2. "overwrote" \notin trouble'
  BY <1>0, <1>1
<1>3. CASE RemoveSelectedFiles
  <2>1. lastEdit' = NotEdited /\ UNCHANGED <<pc, answer, lock, remote, base, relinquish>>
    BY <1>3 DEF RemoveSelectedFiles, StopEditingItem
  <2> QED
    BY <1>2, <2>1, EditSame
<1>4. ASSUME NEW t \in Threads, StartEdit(t) PROVE EditInv'
  <2>1. CASE lastEdit # NotEdited
    BY <1>2, <1>4, <2>1, EditSame DEF StartEdit
  <2>2. CASE lastEdit = NotEdited
    <3>1. OthersIdle(t) /\ Idle /\ UNCHANGED lock
      BY <1>0, <1>4, <2>2, CommandAlone DEF StartEdit
    <3>2. CASE Download(t) /\ UNCHANGED edits /\ db["data"] # NoEntry
      <4>1. Held("data")'
        BY <1>0, <3>1, <3>2 DEF LockInv, OnRecord, Held
      <4> QED
        BY <1>0, <1>2, <2>2, <3>1, <3>2, <4>1, EditDownload
    <3>3. CASE Goto(t, "lock") /\ UNCHANGED edits
      BY <1>0, <1>2, <2>2, <3>1, <3>3, EditGoto DEF PCs
    <3> QED
      BY <1>4, <2>2, <3>2, <3>3 DEF StartEdit, Calm
  <2> QED
    BY <2>1, <2>2
<1>5. ASSUME NEW t \in Threads, NEW over \in BOOLEAN, StartSave(t, over) PROVE EditInv'
  <2>1. OthersIdle(t) /\ Idle /\ UNCHANGED <<lock, remote, base>> /\ lastEdit # NotEdited
    BY <1>0, <1>5, CommandAlone DEF StartSave, FileHasChanged
  <2>2. Safe'
    BY <1>0, <2>1 DEF EditInv, Leaving, Idle, Safe, Held
  <2>3. ASSUME NEW call \in {"idle", "put"}, Goto(t, call) PROVE EditInv'
    BY <1>0, <1>2, <2>1, <2>2, <2>3, EditGoto DEF PCs
  <2> QED
    BY <1>5, <2>3 DEF StartSave, Finish
<1> QED
  BY <1>3, <1>4, <1>5

\* The end of the program, when it is idle.
LEMMA EditRestart ==
    ASSUME IInv, EditInv, Calm', trouble \subseteq trouble', Restart
    PROVE  EditInv'
<1>1. Idle /\ Calm /\ trouble' = trouble /\ UNCHANGED <<lock, remote, base>>
  BY DEF Restart, Noted, Calm
<1>2. lastEdit' # NotEdited => lastEdit # NotEdited
  BY <1>1 DEF Restart, IInv, Whole, Calm
<1>3. lastEdit' # NotEdited => Safe'
  BY <1>1, <1>2 DEF EditInv, Leaving, Idle, Safe, Held
<1>4. \A t \in Threads : EditPhase(t)'
  BY DEF Restart, EditPhase
<1> QED
  BY <1>1, <1>3, <1>4 DEF EditInv

\* What the answers may add to trouble.
LEMMA ContinueTrouble ==
    ASSUME NEW t \in Threads, Continue(t)
    PROVE  trouble' \subseteq trouble \cup {"reopened", "crashed"} /\ UNCHANGED server
  BY ZenonT(60) DEF Continue, LockAnswered, PropsAnswered, ExistsAnswered, LockRezAnswered,
         PropsRezAnswered, RollbackAnswered, GetAnswered, GiveUp, PutAnswered, UnlockAnswered,
         PropsAfterAnswered, PutRezAnswered, NullToken, Restart, UnlockRezAnswered, Noted, Reopening

\* The answers: the download starts under the lock, and only who gives the lock back
\* stops the edit after it.
LEMMA EditContinue ==
    ASSUME IInv, LockInv, EditInv, Calm', trouble \subseteq trouble', NEW t \in Threads, Continue(t)
    PROVE  EditInv'
<1>0. Calm /\ Undisturbed /\ TypeInv /\ "race" \notin trouble /\ "overwrote" \notin trouble
  BY DEF Calm, Undisturbed, IInv, EditInv
<1>1. "overwrote" \notin trouble' /\ UNCHANGED <<remote, lock>>
  BY <1>0, ContinueTrouble
<1>2. pc[t] # "idle" => OthersIdle(t) /\ LockPhase(t) /\ EditPhase(t)
  BY <1>0 DEF IInv, Solo, LockInv, EditInv
<1>3. pc[t] \in EditCalls => lastEdit = NotEdited
  BY <1>0 DEF IInv, Whole
<1>4. pc[t] # "idle" /\ lastEdit # NotEdited => Safe \/ Leaving(t)
  BY <1>0, <1>2 DEF EditInv, Leaving, OthersIdle
<1>5. PCs = {"idle"} \cup EditCalls \cup SaveCalls
  BY DEF PCs
<1>6. Held("data")' = Held("data") /\ (UNCHANGED base => Safe' = Safe)
  BY <1>1 DEF Held, Safe
<1>7. ASSUME OthersIdle(t), Download(t), Held("data"), UNCHANGED edits, pc[t] \in EditCalls
      PROVE  EditInv'
  BY <1>0, <1>1, <1>3, <1>6, <1>7, EditDownload
<1>8. ASSUME OthersIdle(t), GiveUp(t), pc[t] \in EditCalls PROVE EditInv'
  <2>1. lastEdit' = NotEdited
    BY <1>3, <1>8 DEF GiveUp, EditItems
  <2> QED
    BY <1>0, <1>1, <1>8, <2>1, EditDownload
<1>9. ASSUME OthersIdle(t), NEW call \in {"props", "exists", "lockRez", "propsRez", "rollback"},
             Goto(t, call), UNCHANGED edits, pc[t] \in EditCalls
      PROVE  EditInv'
  BY <1>0, <1>1, <1>3, <1>5, <1>9, EditGoto
<1>11. CASE LockAnswered(t)
  BY <1>2, <1>8, <1>9, <1>11 DEF LockAnswered, Answered
<1>12. CASE PropsAnswered(t)
  <2>1. Held("data") /\ OthersIdle(t) /\ pc[t] \in EditCalls
    BY <1>2, <1>12 DEF PropsAnswered, Answered, LockPhase
  <2> QED
    BY <1>7, <1>8, <1>9, <1>12, <2>1 DEF PropsAnswered
<1>13. CASE ExistsAnswered(t)
  <2>1. Held("data") /\ OthersIdle(t) /\ pc[t] \in EditCalls
    BY <1>2, <1>13 DEF ExistsAnswered, Answered, LockPhase
  <2> QED
    BY <1>7, <1>9, <1>13, <2>1 DEF ExistsAnswered
<1>14. CASE LockRezAnswered(t)
  BY <1>2, <1>9, <1>14 DEF LockRezAnswered, Answered
<1>15. CASE PropsRezAnswered(t)
  <2>1. Held("data") /\ OthersIdle(t) /\ pc[t] \in EditCalls
    BY <1>2, <1>15 DEF PropsRezAnswered, Answered, LockPhase
  <2> QED
    BY <1>7, <1>9, <1>15, <2>1 DEF PropsRezAnswered
<1>16. CASE RollbackAnswered(t)
  BY <1>2, <1>8, <1>16 DEF RollbackAnswered, Answered
<1>17. CASE GetAnswered(t)
  <2>1. OthersIdle(t) /\ EditPhase(t) /\ pc[t] = "get" /\ Goto(t, "idle") /\ "idle" \in PCs
    BY <1>2, <1>5, <1>17 DEF GetAnswered, Answered, Finish
  <2>2. CASE Succeeded(t)
    <3>1. Held("data") /\ base' = remote
      BY <1>17, <2>1, <2>2 DEF EditPhase, GetAnswered
    <3>2. Safe'
      BY <1>1, <1>6, <3>1 DEF Safe
    <3> QED
      BY <1>0, <1>1, <2>1, <3>2, EditGoto
  <2>3. CASE ~Succeeded(t)
    <3>1. lastEdit' = NotEdited
      BY <1>3, <1>17, <2>1, <2>3 DEF GetAnswered, EditItems
    <3> QED
      BY <1>0, <1>1, <2>1, <3>1, EditGoto
  <2> QED
    BY <2>2, <2>3
<1>18. CASE PutAnswered(t)
  <2>1. /\ OthersIdle(t) /\ pc[t] = "put" /\ Safe /\ Safe' /\ Succeeded(t)
        /\ UNCHANGED <<edits, relinquish>>
    BY <1>2, <1>6, <1>18 DEF PutAnswered, Answered, EditPhase, Known
  <2>2. CASE Goto(t, "unlock") /\ t \in relinquish
    BY <1>0, <1>1, <1>5, <2>1, <2>2, EditGoto
  <2>3. CASE Goto(t, "propsAfter")
    BY <1>0, <1>1, <1>5, <2>1, <2>3, EditGoto
  <2> QED
    BY <1>18, <2>1, <2>2, <2>3 DEF PutAnswered
<1>19. CASE UnlockAnswered(t)
  <2>1. /\ OthersIdle(t) /\ t \in relinquish /\ UNCHANGED <<edits, relinquish>>
        /\ Goto(t, "propsAfter")
    BY <1>2, <1>19 DEF UnlockAnswered, Answered, EditPhase
  <2>2. Leaving(t)'
    BY <1>0, <1>5, <2>1, GotoAlone DEF Leaving
  <2> QED
    BY <1>0, <1>1, <1>5, <2>1, <2>2, EditGoto
<1>20. CASE PropsAfterAnswered(t)
  <2>1. /\ OthersIdle(t) /\ Safe' = Safe /\ (lastEdit # NotEdited => Safe \/ t \in relinquish)
    BY <1>2, <1>4, <1>6, <1>20 DEF PropsAfterAnswered, Answered, Leaving
  <2>2. CASE Goto(t, "putRez") /\ UNCHANGED <<relinquish, edits>>
    <3>1. t \in relinquish => Leaving(t)'
      BY <1>0, <1>5, <2>1, <2>2, GotoAlone DEF Leaving
    <3> QED
      BY <1>0, <1>1, <1>5, <2>1, <2>2, <3>1, EditGoto
  <2>3. CASE Conclude(t)
    BY <1>0, <1>1, <2>1, <2>3, EditConclude
  <2> QED
    BY <1>20, <2>2, <2>3 DEF PropsAfterAnswered
<1>21. CASE PutRezAnswered(t)
  <2>1. /\ OthersIdle(t) /\ Safe' = Safe /\ (lastEdit # NotEdited => Safe \/ t \in relinquish)
        /\ Succeeded(t)
    BY <1>2, <1>4, <1>6, <1>21 DEF PutRezAnswered, Answered, Leaving, EditPhase, Known
  <2>2. CASE Goto(t, "unlockRez") /\ t \in relinquish /\ UNCHANGED <<relinquish, edits>>
    <3>1. Leaving(t)'
      BY <1>0, <1>5, <2>1, <2>2, GotoAlone DEF Leaving
    <3> QED
      BY <1>0, <1>1, <1>5, <2>1, <2>2, <3>1, EditGoto
  <2>3. CASE Conclude(t)
    BY <1>0, <1>1, <2>1, <2>3, EditConclude
  <2> QED
    BY <1>21, <2>1, <2>2, <2>3 DEF PutRezAnswered
<1>22. CASE NullToken(t)
  BY <1>22, EditRestart DEF NullToken
<1>23. CASE UnlockRezAnswered(t)
  <2>1. OthersIdle(t) /\ t \in relinquish /\ Conclude(t)
    BY <1>2, <1>23 DEF UnlockRezAnswered, Answered, EditPhase
  <2> QED
    BY <1>0, <1>1, <2>1, EditConclude
<1> QED
  BY <1>11, <1>12, <1>13, <1>14, <1>15, <1>16, <1>17, <1>18, <1>19, <1>20, <1>21, <1>22, <1>23
     DEF Continue

\* The server: an upload under the lock succeeds and replaces what was downloaded; only
\* a thread that leaves gives the lock back.
LEMMA EditServe ==
    ASSUME IInv, LockInv, EditInv, Calm', trouble \subseteq trouble', NEW t \in Threads,
           Serve(t) \/ CallFails(t)
    PROVE  EditInv'
<1>0. Calm /\ Undisturbed /\ TypeInv /\ "race" \notin trouble /\ "overwrote" \notin trouble
  BY DEF Calm, Undisturbed, IInv, EditInv
<1>1. /\ db \in [Forks -> {NoEntry, Theirs, Empty} \cup Tokens]
      /\ lock \in [Forks -> {Empty, Theirs} \cup Tokens]
      /\ issued \in 0..MaxLocks /\ MaxLocks \in Nat
  BY <1>0, ConstantsAssumption DEF TypeInv, TypeOK
<1>2. Serve(t) /\ answer[t].status = "none"
  BY DEF CallFails, Noted, Calm, Serve
<1>3. pc[t] # "idle" /\ UNCHANGED <<db, pc, token, edits, relinquish>>
  BY <1>2 DEF Serve
<1>4. OthersIdle(t) /\ LockPhase(t) /\ EditPhase(t)
  BY <1>0, <1>3 DEF IInv, Solo, LockInv, EditInv
<1>5. lastEdit # NotEdited => Safe \/ Leaving(t)
  BY <1>0, <1>4 DEF EditInv, Leaving, OthersIdle
<1>6. pc[t] \in EditCalls => lastEdit = NotEdited
  BY <1>0 DEF IInv, Whole
<1>7. ASSUME EditPhase(t)', "overwrote" \notin trouble', lastEdit' # NotEdited => Safe' \/ Leaving(t)'
      PROVE  EditInv'
  <2>1. \A u \in Threads \ {t} : EditPhase(u)'
    BY <1>3, <1>4 DEF OthersIdle, EditPhase
  <2> QED
    BY <1>7, <2>1 DEF EditInv
<1>8. ~Succeeded(t) /\ ~Known(t)
  BY <1>2 DEF Succeeded, Known
<1>9. ASSUME NEW a, Respond(t, a) PROVE answer'[t] = a
  BY <1>0, <1>9, RespondAlone
<1>10. ASSUME UNCHANGED <<lock, remote, base, trouble>>, pc[t] \in {"props", "propsAfter", "exists", "propsRez"}
       PROVE  EditInv'
  <2>1. EditPhase(t)' /\ Leaving(t)' = Leaving(t) /\ Safe' = Safe
    BY <1>3, <1>10 DEF EditPhase, Leaving, Safe, Held
  <2> QED
    BY <1>0, <1>3, <1>5, <1>7, <1>10, <2>1
<1>11. CASE pc[t] \in {"lock", "lockRez"}
  <2>1. EditPhase(t)' /\ "overwrote" \notin trouble'
    BY <1>0, <1>2, <1>3, <1>11 DEF EditPhase, Serve, ServeLock
  <2> QED
    BY <1>3, <1>6, <1>7, <1>11, <2>1
<1>12. CASE pc[t] \in {"props", "propsAfter", "exists", "propsRez"}
  BY <1>2, <1>10, <1>12 DEF Serve, ServeProps
<1>13. CASE pc[t] = "rollback"
  <2>1. EditPhase(t)' /\ "overwrote" \notin trouble'
    BY <1>0, <1>2, <1>3, <1>13 DEF EditPhase, Serve, ServeUnlock
  <2> QED
    BY <1>3, <1>6, <1>7, <1>13, <2>1
<1>14. CASE pc[t] \in {"unlock", "unlockRez"}
  <2>1. EditPhase(t)' /\ Leaving(t)' /\ "overwrote" \notin trouble'
    BY <1>0, <1>2, <1>3, <1>4, <1>14 DEF EditPhase, Leaving, Serve, ServeUnlock
  <2> QED
    BY <1>7, <2>1
<1>15. CASE pc[t] = "get"
  <2>1. answer'[t] = Ok(remote) /\ UNCHANGED <<lock, remote, trouble>>
    BY <1>2, <1>9, <1>15 DEF Serve, ServeGet
  <2>2. EditPhase(t)'
    BY <1>3, <1>4, <1>15, <2>1 DEF EditPhase, Held, Ok
  <2> QED
    BY <1>0, <1>3, <1>6, <1>7, <1>15, <2>1, <2>2
<1>16. CASE pc[t] = "put"
  <2>1. Safe /\ token[t] = db["data"] /\ OnRecord("data") /\ ServePut(t)
    BY <1>2, <1>4, <1>16 DEF EditPhase, LockPhase, Serve
  <2>2. MayWrite("data", token[t])
    BY <1>1, <2>1 DEF MayWrite, OnRecord, Held, Safe
  <2>3. /\ remote' = base' /\ Respond(t, Ok(Empty)) /\ UNCHANGED lock
        /\ trouble' = trouble \cup When(remote # base, "overwrote")
    BY <2>1, <2>2 DEF ServePut, Noted
  <2>4. trouble' = trouble
    BY <2>1, <2>3 DEF Safe
  <2>5. Safe' /\ Succeeded(t)'
    BY <1>9, <2>1, <2>3 DEF Safe, Held, Succeeded, Ok
  <2>6. EditPhase(t)'
    BY <1>3, <1>16, <2>5 DEF EditPhase
  <2> QED
    BY <1>0, <1>7, <2>4, <2>5, <2>6
<1>17. CASE pc[t] = "putRez"
  <2>1. ServePutRez(t) /\ UNCHANGED <<lock, remote, base>>
    BY <1>2, <1>17 DEF Serve, ServePutRez
  <2>2. Respond(t, Ok(Empty)) /\ UNCHANGED trouble
    BY <2>1 DEF ServePutRez, Calm, Noted
  <2>3. EditPhase(t)' /\ Leaving(t)' = Leaving(t) /\ Safe' = Safe
    BY <1>3, <1>9, <1>17, <2>1, <2>2 DEF EditPhase, Leaving, Safe, Held, Succeeded, Ok
  <2> QED
    BY <1>0, <1>3, <1>5, <1>7, <2>2, <2>3
<1> QED
  BY <1>2, <1>11, <1>12, <1>13, <1>14, <1>15, <1>16, <1>17 DEF Serve

\* The user changes the file and not the item; other clients write what is not locked.
LEMMA EditOthers ==
    ASSUME IInv, EditInv, Calm', trouble \subseteq trouble',
           \/ UserSaves \/ OtherWrites \/ ForkAppears
           \/ \E f \in Forks : OtherLocks(f) \/ LockEnds(f)
    PROVE  EditInv'
<1>0. /\ Calm /\ "overwrote" \notin trouble
      /\ UNCHANGED <<pc, answer, token, relinquish, edits, base>>
  BY DEF Calm, EditInv, UserSaves, OtherWrites, ForkAppears, OtherLocks, LockEnds
<1>1. lock \in [Forks -> {Empty, Theirs} \cup Tokens]
  BY DEF IInv, TypeInv, TypeOK
<1>2. "overwrote" \notin trouble'
  BY <1>0 DEF UserSaves, OtherWrites, ForkAppears, OtherLocks, LockEnds, Noted
<1>3. Held("data")' = Held("data")
  BY <1>1 DEF Calm, UserSaves, OtherWrites, ForkAppears, OtherLocks, LockEnds, Noted, Held
<1>4. Held("data") => UNCHANGED remote
  BY DEF UserSaves, OtherWrites, ForkAppears, OtherLocks, LockEnds, Held
<1>5. Safe => Safe'
  BY <1>0, <1>3, <1>4 DEF Safe
<1>6. ASSUME NEW t \in Threads PROVE EditPhase(t)' /\ Leaving(t)' = Leaving(t)
  <2>1. EditPhase(t)
    BY <1>0 DEF EditInv
  <2>2. Leaving(t)' = Leaving(t) /\ Known(t)' = Known(t) /\ Succeeded(t)' = Succeeded(t)
    BY <1>0 DEF Leaving, Known, Succeeded
  <2> QED
    BY <1>0, <1>3, <1>4, <1>5, <2>1, <2>2 DEF EditPhase
<1> QED
  BY <1>0, <1>2, <1>5, <1>6 DEF EditInv

\* EditInv holds at first, and every step keeps it.
LEMMA EditInit == Init => EditInv
  BY DEF Init, EditInv, EditPhase

LEMMA EditStep == IInv /\ LockInv /\ EditInv /\ [Next]_vars => EditInv'
<1> SUFFICES ASSUME IInv, LockInv, EditInv, [Next]_vars, Calm' PROVE EditInv'
  BY DEF EditInv
<1>1. trouble \subseteq trouble'
  BY TroubleGrows
<1>2. CASE UNCHANGED vars
  <2>1. Calm
    BY <1>2 DEF vars, Calm
  <2> QED
    BY <1>1, <1>2, <2>1, EditSame DEF vars, EditInv
<1>3. CASE Next
  BY <1>1, <1>3, EditCommand, EditContinue, EditServe, EditRestart, EditOthers DEF Next
<1> QED
  BY <1>2, <1>3
-----------------------------------------------------------------------------
\* ChangeInv: the dates in the list, on disk and of the file.

\* The next call of a thread, or its end.
LEMMA ChangeGoto ==
    ASSUME TypeInv, NEW t \in Threads, OthersIdle(t), NEW call \in PCs, Goto(t, call),
           Dates', Remembered',
           Unsaved' => lastEdit' # date' \/ call = "put",
           call \in SaveCalls \ {"put"} => file' = base'
    PROVE  ChangeInv'
<1>1. /\ pc'[t] = call /\ answer'[t].status = "none"
      /\ \A u \in Threads \ {t} : pc'[u] = "idle"
  BY GotoAlone
<1>2. ChangePhase(t)'
  BY <1>1 DEF ChangePhase, Known
<1>3. \A u \in Threads \ {t} : ChangePhase(u)'
  BY <1>1 DEF ChangePhase
<1>4. ChangesAreNotForgotten'
  BY <1>1 DEF ChangesAreNotForgotten, FileHasChanged, Unsaved
<1> QED
  BY <1>2, <1>3, <1>4 DEF ChangeInv

\* A thread that does nothing to the file of an item that is not edited.
LEMMA ChangeRest ==
    ASSUME TypeInv, TypeInv', Dates, Remembered, NEW t \in Threads, OthersIdle(t),
           NEW call \in {"idle"} \cup EditCalls, Goto(t, call),
           UNCHANGED <<file, date, clock, base>>, lastEdit' = NotEdited,
           stored' \in {stored, NotEdited}
    PROVE  ChangeInv'
<1>1. date \in {NoDate} \cup Versions /\ clock \in Versions /\ Versions \subseteq Nat
  BY ConstantsAssumption DEF TypeInv, TypeOK
<1>2. Dates' /\ Remembered' /\ ~Unsaved'
  BY <1>1 DEF Dates, Remembered, Unsaved
<1> QED
  BY <1>2, ChangeGoto DEF PCs

LEMMA ChangeDownload ==
    ASSUME TypeInv, TypeInv', Dates, Remembered, NEW t \in Threads, OthersIdle(t), Download(t),
           UNCHANGED <<edits, base>>, lastEdit = NotEdited
    PROVE  ChangeInv'
<1>1. CASE Finish(t) /\ UNCHANGED <<file, date, clock>>
  BY <1>1, ChangeRest DEF Finish
<1>2. CASE clock' = clock + 1 /\ file' = Junk /\ date' = clock' /\ Goto(t, "get")
  <2>1. clock \in Nat /\ stored \in Int
    BY ConstantsAssumption DEF TypeInv, TypeOK
  <2>2. Dates' /\ Remembered' /\ ~Unsaved'
    BY <1>2, <2>1 DEF Dates, Remembered, Unsaved
  <2> QED
    BY <1>2, <2>2, ChangeGoto DEF PCs
<1> QED
  BY <1>1, <1>2 DEF Download

LEMMA ChangeGiveUp ==
    ASSUME TypeInv, TypeInv', Dates, Remembered, NEW t \in Threads, OthersIdle(t), GiveUp(t),
           UNCHANGED base, lastEdit = NotEdited
    PROVE  ChangeInv'
<1>1. lastEdit' = NotEdited /\ stored' \in {stored, NotEdited}
  BY DEF GiveUp, EditItems, SaveEditedFilesList
<1> QED
  BY <1>1, ChangeRest DEF GiveUp, Finish

\* The end of an upload: the file is the item, or is gone.
LEMMA ChangeConclude ==
    ASSUME TypeInv, TypeInv', Dates, Remembered, NEW t \in Threads, OthersIdle(t), Conclude(t),
           UNCHANGED <<clock, base>>, file = base, stored # NotEdited => lastEdit # NotEdited
    PROVE  ChangeInv'
<1>1. /\ date \in Nat /\ date' \in Nat /\ clock \in Versions /\ Versions \subseteq Nat
  BY ConstantsAssumption DEF TypeInv, TypeOK
<1>2. Goto(t, "idle") /\ "idle" \in PCs
  BY DEF Conclude, Finish, PCs
<1>3. CASE StopEditingItem
  <2>1. lastEdit' = NotEdited /\ stored' = NotEdited
    BY <1>3 DEF StopEditingItem, SaveEditedFilesList
  <2>2. date' <= clock'
    BY <1>1 DEF Conclude, Dates
  <2>3. Dates' /\ Remembered' /\ ~Unsaved'
    BY <1>1, <2>1, <2>2 DEF Dates, Remembered, Unsaved, Conclude
  <2> QED
    BY <1>2, <2>3, ChangeGoto
<1>4. CASE ~StopEditingItem
  <2>1. UNCHANGED <<file, date>> /\ UpdateItemEditTime
    BY <1>4 DEF Conclude
  <2>2. Dates' /\ Remembered' /\ ~Unsaved'
    BY <1>1, <2>1 DEF Dates, Remembered, Unsaved, UpdateItemEditTime, SaveEditedFilesList
  <2> QED
    BY <1>2, <2>2, ChangeGoto
<1> QED
  BY <1>3, <1>4

\* Nothing of what ChangeInv is about changes.
LEMMA ChangeSame ==
    ASSUME ChangeInv, Kept, UNCHANGED <<file, date, edits, pc, answer, clock, base>>
    PROVE  ChangeInv'
<1>1. Unsaved' = Unsaved /\ FileHasChanged' = FileHasChanged
  BY DEF Unsaved, FileHasChanged
<1>2. ChangesAreNotForgotten'
  BY <1>1 DEF ChangeInv, Kept, ChangesAreNotForgotten
<1>3. \A t \in Threads : ChangePhase(t)' = ChangePhase(t)
  BY DEF ChangePhase, Known, Succeeded
<1>4. Dates' = Dates /\ Remembered' = Remembered
  BY DEF Dates, Remembered
<1> QED
  BY <1>2, <1>3, <1>4 DEF ChangeInv

\* The user's commands.
LEMMA ChangeCommand ==
    ASSUME IInv, TypeInv', ChangeInv, Kept', trouble \subseteq trouble',
           \/ RemoveSelectedFiles
           \/ \E t \in Threads : StartEdit(t) \/ \E over \in BOOLEAN : StartSave(t, over)
    PROVE  ChangeInv'
<1>0. /\ Kept /\ TypeInv /\ Whole /\ "race" \notin trouble /\ "race" \notin trouble'
      /\ Dates /\ Remembered
  BY DEF Kept, IInv, ChangeInv
<1>1. /\ date \in Nat /\ clock \in Versions /\ Versions \subseteq Nat
  BY <1>0, ConstantsAssumption DEF TypeInv, TypeOK
<1>2. CASE RemoveSelectedFiles
  <2>1. lastEdit' = NotEdited /\ stored' = NotEdited /\ UNCHANGED <<file, date, clock, base, pc, answer>>
    BY <1>2 DEF RemoveSelectedFiles, StopEditingItem, SaveEditedFilesList
  <2>2. Dates' /\ Remembered' /\ ~Unsaved'
    BY <1>0, <1>1, <2>1 DEF Dates, Remembered, Unsaved
  <2>3. \A t \in Threads : ChangePhase(t)' = ChangePhase(t)
    BY <2>1 DEF ChangePhase, Known, Succeeded
  <2> QED
    BY <1>0, <2>2, <2>3 DEF ChangeInv, ChangesAreNotForgotten
<1>3. ASSUME NEW t \in Threads, StartEdit(t) PROVE ChangeInv'
  <2>1. CASE lastEdit # NotEdited
    <3>1. UNCHANGED <<work, answer, file, date, clock, base>> /\ EditItems(TRUE) /\ Noted(Reopening)
      BY <1>3, <2>1 DEF StartEdit
    <3>2. file = base
      BY <2>1, <3>1 DEF Noted, Reopening, Unsaved, Kept
    <3>3. stored' \in {stored, date} /\ lastEdit' = lastEdit
      BY <2>1, <3>1 DEF EditItems, SaveEditedFilesList
    <3>4. Dates' /\ Remembered' /\ ~Unsaved'
      BY <1>0, <3>1, <3>2, <3>3 DEF Dates, Remembered, Unsaved
    <3>5. \A u \in Threads : ChangePhase(u)' = ChangePhase(u)
      BY <3>1 DEF ChangePhase, Known, Succeeded
    <3> QED
      BY <1>0, <3>4, <3>5 DEF ChangeInv, ChangesAreNotForgotten
  <2>2. CASE lastEdit = NotEdited
    <3>1. OthersIdle(t) /\ UNCHANGED <<edits, base>>
      BY <1>0, <1>3, <2>2, CommandAlone DEF StartEdit
    <3>2. CASE Download(t)
      BY <1>0, <2>2, <3>1, <3>2, ChangeDownload
    <3>3. CASE Goto(t, "lock") /\ UNCHANGED <<local, clock>>
      BY <1>0, <2>2, <3>1, <3>3, ChangeRest
    <3> QED
      BY <1>3, <2>2, <3>2, <3>3 DEF StartEdit
  <2> QED
    BY <2>1, <2>2
<1>4. ASSUME NEW t \in Threads, NEW over \in BOOLEAN, StartSave(t, over) PROVE ChangeInv'
  <2>1. OthersIdle(t) /\ lastEdit # NotEdited
    BY <1>0, <1>4, CommandAlone DEF StartSave, FileHasChanged
  <2>2. file # NoFile
    BY <1>0, <2>1, ConstantsAssumption DEF Whole
  <2>3. /\ Goto(t, "put") /\ lastEdit' = date /\ "put" \in PCs
        /\ UNCHANGED <<file, date, stored, clock, base>>
    BY <1>4, <2>2 DEF StartSave, PCs
  <2>4. Dates' /\ Remembered'
    BY <1>0, <2>3 DEF Dates, Remembered
  <2> QED
    BY <1>0, <2>1, <2>3, <2>4, ChangeGoto
<1> QED
  BY <1>2, <1>3, <1>4

\* The program ends, even in a call: the date on disk is not the file's.
LEMMA ChangeRestart ==
    ASSUME IInv, ChangeInv, Kept', trouble \subseteq trouble', Restart
    PROVE  ChangeInv'
<1>1. Kept /\ Dates /\ Remembered /\ clock \in Nat
  BY ConstantsAssumption DEF Kept, ChangeInv, IInv, TypeInv, TypeOK
<1>2. /\ UNCHANGED <<file, date, stored, clock, base>>
      /\ lastEdit' = IF file = NoFile THEN NotEdited ELSE stored
      /\ \A t \in Threads : pc'[t] = "idle"
  BY DEF Restart
<1>3. Dates' /\ Remembered'
  BY <1>1, <1>2 DEF Dates, Remembered
<1>4. Unsaved' => FileHasChanged'
  BY <1>1, <1>2 DEF Unsaved, FileHasChanged, Remembered
<1> QED
  BY <1>2, <1>3, <1>4 DEF ChangeInv, ChangesAreNotForgotten, ChangePhase

\* The answers.
LEMMA ChangeContinue ==
    ASSUME IInv, TypeInv', ChangeInv, Kept', trouble \subseteq trouble', NEW t \in Threads, Continue(t)
    PROVE  ChangeInv'
<1>0. /\ Kept /\ TypeInv /\ Whole /\ Solo /\ Dates /\ Remembered
  BY DEF Kept, IInv, ChangeInv
<1>1. pc[t] # "idle" => OthersIdle(t) /\ ChangePhase(t)
  BY <1>0 DEF Solo, ChangeInv
<1>2. pc[t] \in EditCalls => lastEdit = NotEdited /\ stored = NotEdited
  BY <1>0 DEF Whole
<1>3. ASSUME OthersIdle(t), Download(t), UNCHANGED <<edits, base>>, pc[t] \in EditCalls
      PROVE  ChangeInv'
  BY <1>0, <1>2, <1>3, ChangeDownload
<1>4. ASSUME OthersIdle(t), GiveUp(t), UNCHANGED base, pc[t] \in EditCalls PROVE ChangeInv'
  BY <1>0, <1>2, <1>4, ChangeGiveUp
<1>5. ASSUME OthersIdle(t), NEW call \in EditCalls, Goto(t, call), pc[t] \in EditCalls,
             UNCHANGED <<file, date, clock, base, edits>>
      PROVE  ChangeInv'
  BY <1>0, <1>2, <1>5, ChangeRest
<1>6. ASSUME OthersIdle(t), NEW call \in {"idle"} \cup (SaveCalls \ {"put"}), Goto(t, call),
             file = base, UNCHANGED <<file, date, clock, base, edits>>
      PROVE  ChangeInv'
  <2>1. Dates' /\ Remembered' /\ ~Unsaved'
    BY <1>0, <1>6 DEF Dates, Remembered, Unsaved
  <2> QED
    BY <1>0, <1>6, <2>1, ChangeGoto DEF PCs
<1>7. ASSUME OthersIdle(t), Conclude(t), file = base, UNCHANGED <<clock, base>> PROVE ChangeInv'
  BY <1>0, <1>7, ChangeConclude DEF Whole
<1>11. CASE LockAnswered(t)
  BY <1>1, <1>4, <1>5, <1>11 DEF LockAnswered, Answered
<1>12. CASE PropsAnswered(t)
  BY <1>1, <1>3, <1>4, <1>5, <1>12 DEF PropsAnswered, Answered
<1>13. CASE ExistsAnswered(t)
  BY <1>1, <1>3, <1>5, <1>13 DEF ExistsAnswered, Answered
<1>14. CASE LockRezAnswered(t)
  BY <1>1, <1>5, <1>14 DEF LockRezAnswered, Answered
<1>15. CASE PropsRezAnswered(t)
  BY <1>1, <1>3, <1>5, <1>15 DEF PropsRezAnswered, Answered
<1>16. CASE RollbackAnswered(t)
  BY <1>1, <1>4, <1>16 DEF RollbackAnswered, Answered
<1>17. CASE GetAnswered(t)
  <2>1. OthersIdle(t) /\ lastEdit = NotEdited /\ stored = NotEdited /\ Goto(t, "idle") /\ "idle" \in PCs
    BY <1>1, <1>2, <1>17 DEF GetAnswered, Answered, Finish, PCs
  <2>2. clock' = clock + 1 /\ date' = clock' /\ clock \in Nat
    BY <1>0, <1>17, ConstantsAssumption DEF GetAnswered, TypeInv, TypeOK
  <2>3. CASE Succeeded(t)
    <3>1. file' = base' /\ lastEdit' \in {NotEdited, date'} /\ stored' \in {NotEdited, date'}
      BY <1>17, <2>1, <2>3 DEF GetAnswered, EditItems, SaveEditedFilesList
    <3>2. Dates' /\ Remembered' /\ ~Unsaved'
      BY <2>2, <3>1 DEF Dates, Remembered, Unsaved
    <3> QED
      BY <1>0, <2>1, <3>2, ChangeGoto
  <2>4. CASE ~Succeeded(t)
    <3>1. lastEdit' = NotEdited /\ stored' = NotEdited
      BY <1>17, <2>1, <2>4 DEF GetAnswered, EditItems, SaveEditedFilesList
    <3>2. Dates' /\ Remembered' /\ ~Unsaved'
      BY <2>2, <3>1 DEF Dates, Remembered, Unsaved
    <3> QED
      BY <1>0, <2>1, <3>2, ChangeGoto
  <2> QED
    BY <2>3, <2>4
<1>18. CASE PutAnswered(t)
  <2>1. OthersIdle(t) /\ file = base /\ UNCHANGED <<file, date, clock, base, edits>>
    BY <1>1, <1>18 DEF PutAnswered, Answered, ChangePhase, Known
  <2> QED
    BY <1>6, <1>18, <2>1 DEF PutAnswered, Finish
<1>19. CASE UnlockAnswered(t)
  BY <1>1, <1>6, <1>19 DEF UnlockAnswered, Answered, ChangePhase
<1>20. CASE PropsAfterAnswered(t)
  BY <1>1, <1>6, <1>7, <1>20 DEF PropsAfterAnswered, Answered, ChangePhase
<1>21. CASE PutRezAnswered(t)
  BY <1>1, <1>6, <1>7, <1>21 DEF PutRezAnswered, Answered, ChangePhase, Finish
<1>22. CASE NullToken(t)
  BY <1>22, ChangeRestart DEF NullToken
<1>23. CASE UnlockRezAnswered(t)
  BY <1>1, <1>7, <1>23 DEF UnlockRezAnswered, Answered, ChangePhase
<1> QED
  BY <1>11, <1>12, <1>13, <1>14, <1>15, <1>16, <1>17, <1>18, <1>19, <1>20, <1>21, <1>22, <1>23
     DEF Continue

\* The server: what it takes of an upload is the file.
LEMMA ChangeServe ==
    ASSUME IInv, ChangeInv, Kept', trouble \subseteq trouble', NEW t \in Threads,
           Serve(t) \/ CallFails(t)
    PROVE  ChangeInv'
<1>0. Kept /\ TypeInv /\ Solo /\ Dates /\ Remembered /\ ChangesAreNotForgotten
  BY DEF Kept, IInv, ChangeInv
<1>1. Serve(t) /\ UNCHANGED <<file, date, edits, pc, clock>>
  BY DEF CallFails, Noted, Kept, Serve
<1>2. pc[t] # "idle" /\ OthersIdle(t) /\ ChangePhase(t) /\ answer[t].status = "none"
  BY <1>0, <1>1 DEF Serve, Solo, ChangeInv
<1>3. CASE pc[t] = "put"
  <2>1. ServePut(t)
    BY <1>1, <1>3 DEF Serve
  <2>2. base' = file /\ Respond(t, Ok(Empty))
    BY <2>1 DEF ServePut, Noted, Kept
  <2>3. answer'[t].status = "ok"
    BY <1>0, <2>2, RespondAlone DEF Ok
  <2>4. Dates' /\ Remembered' /\ ~Unsaved'
    BY <1>0, <1>1, <2>2 DEF Dates, Remembered, Unsaved
  <2>5. \A u \in Threads : ChangePhase(u)'
    BY <1>1, <1>2, <1>3, <2>2, <2>3 DEF ChangePhase, OthersIdle, Known, Succeeded
  <2> QED
    BY <2>4, <2>5 DEF ChangeInv, ChangesAreNotForgotten
<1>4. CASE pc[t] # "put"
  <2>1. UNCHANGED base
    BY <1>1, <1>4 DEF Serve, ServeLock, ServeProps, ServeUnlock, ServeGet, ServePutRez
  <2>2. \A u \in Threads : ChangePhase(u)'
    BY <1>1, <1>2, <1>4, <2>1 DEF ChangePhase, OthersIdle
  <2>3. Dates' /\ Remembered' /\ Unsaved' = Unsaved /\ FileHasChanged' = FileHasChanged
    BY <1>0, <1>1, <2>1 DEF Dates, Remembered, Unsaved, FileHasChanged
  <2>4. ChangesAreNotForgotten'
    BY <1>0, <1>1, <2>3 DEF ChangesAreNotForgotten, Kept
  <2> QED
    BY <2>2, <2>3, <2>4 DEF ChangeInv
<1> QED
  BY <1>3, <1>4

\* The user's saves get dates of their own.
LEMMA ChangeOthers ==
    ASSUME IInv, ChangeInv, Kept', trouble \subseteq trouble',
           \/ UserSaves \/ OtherWrites \/ ForkAppears
           \/ \E f \in Forks : OtherLocks(f) \/ LockEnds(f)
    PROVE  ChangeInv'
<1>0. Kept /\ TypeInv /\ Dates /\ Remembered /\ clock \in Nat
  BY ConstantsAssumption DEF Kept, IInv, ChangeInv, TypeInv, TypeOK
<1>1. CASE UserSaves
  <2>1. /\ clock' = clock + 1 /\ date' = clock'
        /\ UNCHANGED <<edits, pc, answer, base>>
    BY <1>1 DEF UserSaves
  <2>2. \A t \in Threads : pc[t] \notin SaveCalls
    BY <1>1 DEF UserSaves, Noted, Kept
  <2>3. stored \in Int /\ lastEdit \in Int
    BY <1>0, ConstantsAssumption DEF TypeInv, TypeOK
  <2>4. Dates' /\ stored' # date' /\ lastEdit' # date'
    BY <1>0, <2>1, <2>3 DEF Dates
  <2>5. \A t \in Threads : ChangePhase(t)'
    BY <2>1, <2>2 DEF ChangePhase
  <2> QED
    BY <2>4, <2>5 DEF ChangeInv, Remembered, ChangesAreNotForgotten, Unsaved, FileHasChanged
<1>2. CASE OtherWrites
  <2>1. clock' = clock + 1 /\ UNCHANGED <<file, date, edits, pc, answer, base>>
    BY <1>2 DEF OtherWrites
  <2>2. date \in Int /\ stored \in Int /\ lastEdit \in Int
    BY <1>0, ConstantsAssumption DEF TypeInv, TypeOK
  <2>3. Dates' /\ Remembered'
    BY <1>0, <2>1, <2>2 DEF Dates, Remembered
  <2>4. \A t \in Threads : ChangePhase(t)' = ChangePhase(t)
    BY <2>1 DEF ChangePhase, Known, Succeeded
  <2>5. ChangesAreNotForgotten'
    BY <1>0, <2>1 DEF ChangeInv, ChangesAreNotForgotten, Kept, Unsaved, FileHasChanged
  <2> QED
    BY <1>0, <2>3, <2>4, <2>5 DEF ChangeInv
<1>3. CASE ForkAppears \/ \E f \in Forks : OtherLocks(f) \/ LockEnds(f)
  BY <1>0, <1>3, ChangeSame DEF ForkAppears, OtherLocks, LockEnds
<1> QED
  BY <1>1, <1>2, <1>3

\* ChangeInv holds at first, and every step keeps it.
LEMMA ChangeInit == Init => ChangeInv
<1> SUFFICES ASSUME Init PROVE ChangeInv
  OBVIOUS
<1>1. Dates /\ Remembered /\ ~Unsaved
  BY DEF Init, Dates, Remembered, Unsaved
<1>2. \A t \in Threads : ChangePhase(t)
  BY DEF Init, ChangePhase
<1> QED
  BY <1>1, <1>2 DEF ChangeInv, ChangesAreNotForgotten

LEMMA ChangeStep == IInv /\ TypeInv' /\ ChangeInv /\ [Next]_vars => ChangeInv'
<1> SUFFICES ASSUME IInv, TypeInv', ChangeInv, [Next]_vars, Kept' PROVE ChangeInv'
  BY DEF ChangeInv
<1>1. trouble \subseteq trouble'
  BY TroubleGrows
<1>2. CASE UNCHANGED vars
  BY <1>2, ChangeSame DEF vars, Kept
<1>3. CASE Next
  BY <1>1, <1>3, ChangeCommand, ChangeContinue, ChangeServe, ChangeRestart, ChangeOthers DEF Next
<1> QED
  BY <1>2, <1>3
-----------------------------------------------------------------------------
\* LeaveInv: what is left of the locks while a thread gives them back.

\* The next call of a thread, or its end.
LEMMA LeaveGoto ==
    ASSUME TypeInv, NEW t \in Threads, OthersIdle(t), NEW call \in PCs, Goto(t, call),
           relinquish' \subseteq {t},
           ~Encoding => Free("rez")' /\ call \notin {"exists", "lockRez", "propsRez"},
           lastEdit' # NotEdited => stored' # NotEdited,
           t \in relinquish' => call \in SaveCalls /\ LeavePhase(t)'
    PROVE  LeaveInv'
<1>1. /\ pc'[t] = call /\ \A u \in Threads \ {t} : pc'[u] = "idle"
  BY GotoAlone
<1>2. ~Encoding => \A u \in Threads : pc'[u] \notin {"exists", "lockRez", "propsRez"}
  BY <1>1
<1>3. \A u \in relinquish' : pc'[u] \in SaveCalls /\ LeavePhase(u)'
  BY <1>1
<1> QED
  BY <1>2, <1>3 DEF LeaveInv

\* Nothing of what LeaveInv is about changes but the list.
LEMMA LeaveSame ==
    ASSUME LeaveInv, Uncrossed, UNCHANGED <<db, pc, answer, token, relinquish, lock>>,
           lastEdit' # NotEdited => stored' # NotEdited
    PROVE  LeaveInv'
<1>1. Free("rez")' = Free("rez")
  BY DEF Free, Held
<1>2. \A t \in relinquish : LeavePhase(t)' = LeavePhase(t)
  BY DEF LeavePhase, Free, Named, Held, Known, Succeeded
<1> QED
  BY <1>1, <1>2 DEF LeaveInv

\* The operations on the list keep it on disk as well.
LEMMA ListIsStored ==
    ASSUME date' \in {NoDate} \cup Versions, lastEdit # NotEdited => stored # NotEdited,
           \/ \E files \in BOOLEAN : EditItems(files)
           \/ StopEditingItem \/ UpdateItemEditTime
    PROVE  lastEdit' # NotEdited => stored' # NotEdited
<1>1. date' # NotEdited
  BY ConstantsAssumption
<1> QED
  BY <1>1 DEF EditItems, StopEditingItem, UpdateItemEditTime, SaveEditedFilesList

\* The user's commands.
LEMMA LeaveCommand ==
    ASSUME IInv, TypeInv', LeaveInv, Uncrossed', trouble \subseteq trouble',
           \/ RemoveSelectedFiles
           \/ \E t \in Threads : StartEdit(t) \/ \E over \in BOOLEAN : StartSave(t, over)
    PROVE  LeaveInv'
<1>0. /\ Uncrossed /\ TypeInv /\ "race" \notin trouble /\ "race" \notin trouble'
      /\ date' \in {NoDate} \cup Versions
  BY DEF Uncrossed, IInv, TypeInv, TypeOK
<1>1. lastEdit # NotEdited => stored # NotEdited
  BY <1>0 DEF LeaveInv
<1>2. CASE RemoveSelectedFiles
  <2>1. lastEdit' # NotEdited => stored' # NotEdited
    BY <1>0, <1>1, <1>2, ListIsStored DEF RemoveSelectedFiles
  <2> QED
    BY <1>0, <1>2, <2>1, LeaveSame DEF RemoveSelectedFiles
<1>3. ASSUME NEW t \in Threads, OthersIdle(t), pc[t] = "idle", UNCHANGED <<db, lock>>
      PROVE  relinquish = {} /\ (~Encoding => Free("rez")')
  <2>1. \A u \in relinquish : u \in Threads /\ pc[u] = "idle"
    BY <1>0, <1>3 DEF OthersIdle, TypeInv, TypeOK
  <2> QED
    BY <1>0, <1>3, <2>1 DEF LeaveInv, Free, Held
<1>4. ASSUME NEW t \in Threads, StartEdit(t) PROVE LeaveInv'
  <2>1. CASE lastEdit # NotEdited
    <3>1. lastEdit' # NotEdited => stored' # NotEdited
      BY <1>0, <1>1, <1>4, <2>1, ListIsStored DEF StartEdit
    <3> QED
      BY <1>0, <1>4, <2>1, <3>1, LeaveSame DEF StartEdit
  <2>2. CASE lastEdit = NotEdited
    <3>1. OthersIdle(t) /\ pc[t] = "idle" /\ UNCHANGED <<db, lock, edits>>
      BY <1>0, <1>4, <2>2, CommandAlone DEF StartEdit
    <3>2. relinquish = {} /\ (~Encoding => Free("rez")')
      BY <1>3, <3>1
    <3>3. ASSUME NEW call \in {"idle", "get", "lock"}, Goto(t, call), relinquish' \subseteq relinquish
          PROVE  LeaveInv'
      BY <1>0, <2>2, <3>1, <3>2, <3>3, LeaveGoto DEF PCs
    <3> QED
      BY <1>4, <2>2, <3>3 DEF StartEdit, Download, Finish
  <2> QED
    BY <2>1, <2>2
<1>5. ASSUME NEW t \in Threads, NEW over \in BOOLEAN, StartSave(t, over) PROVE LeaveInv'
  <2>1. /\ OthersIdle(t) /\ pc[t] = "idle" /\ UNCHANGED <<db, lock, stored>>
        /\ lastEdit # NotEdited
    BY <1>0, <1>5, CommandAlone DEF StartSave, FileHasChanged
  <2>2. relinquish = {} /\ (~Encoding => Free("rez")') /\ stored' # NotEdited
    BY <1>1, <1>3, <2>1
  <2>3. CASE Finish(t)
    BY <1>0, <2>1, <2>2, <2>3, LeaveGoto DEF Finish, PCs
  <2>4. CASE Goto(t, "put") /\ SetToken(t, db["data"]) /\ relinquish' \subseteq relinquish \cup {t}
    <3>1. pc'[t] = "put" /\ answer'[t].status = "none" /\ "put" \in PCs
      BY <1>0, <2>1, <2>4, GotoAlone DEF PCs
    <3>2. token'[t] = db'["data"]
      BY <1>0, <2>1, <2>4 DEF SetToken, TypeInv, TypeOK
    <3>3. LeavePhase(t)'
      BY <3>1, <3>2 DEF LeavePhase, Succeeded
    <3> QED
      BY <1>0, <2>1, <2>2, <2>4, <3>1, <3>3, LeaveGoto
  <2> QED
    BY <1>5, <2>3, <2>4 DEF StartSave
<1> QED
  BY <1>2, <1>4, <1>5

\* The program ends: nobody gives anything back any more.
LEMMA LeaveRestart ==
    ASSUME IInv, LeaveInv, Uncrossed', trouble \subseteq trouble', Restart
    PROVE  LeaveInv'
<1>1. Uncrossed
  BY DEF Uncrossed
<1>2. /\ UNCHANGED <<stored, db, lock>> /\ relinquish' = {}
      /\ lastEdit' \in {NotEdited, stored} /\ \A t \in Threads : pc'[t] = "idle"
  BY DEF Restart
<1>3. Free("rez")' = Free("rez")
  BY <1>2 DEF Free, Held
<1> QED
  BY <1>1, <1>2, <1>3 DEF LeaveInv

\* The answers: a lock is given back under the token it has, or is gone already.
LEMMA LeaveContinue ==
    ASSUME IInv, TypeInv', LeaveInv, Uncrossed', trouble \subseteq trouble', NEW t \in Threads, Continue(t)
    PROVE  LeaveInv'
<1>0. /\ Uncrossed /\ TypeInv /\ Solo
      /\ date' \in {NoDate} \cup Versions
  BY DEF Uncrossed, IInv, TypeInv, TypeOK
<1>1. /\ db \in [Forks -> {NoEntry, Theirs, Empty} \cup Tokens]
      /\ lock \in [Forks -> {Empty, Theirs} \cup Tokens]
      /\ token \in [Threads -> {NoEntry, Theirs, Empty} \cup Tokens]
  BY <1>0 DEF TypeInv, TypeOK
<1>2. lastEdit # NotEdited => stored # NotEdited
  BY <1>0 DEF LeaveInv
<1>3. UNCHANGED <<lock, forkThere>>
  BY ContinueTrouble
<1>4. pc[t] # "idle" => OthersIdle(t) /\ relinquish \subseteq {t}
  <2>1. \A u \in relinquish : u \in Threads /\ pc[u] # "idle"
    BY <1>0 DEF LeaveInv, TypeInv, TypeOK
  <2> QED
    BY <1>0, <2>1 DEF Solo, OthersIdle
<1>5. t \in relinquish => pc[t] \in SaveCalls /\ LeavePhase(t)
  BY <1>0 DEF LeaveInv
<1>6. pc[t] \in EditCalls => relinquish = {}
  BY <1>4, <1>5
<1>7. ~Encoding => pc[t] \notin {"exists", "lockRez", "propsRez"} /\ Free("rez")
  BY <1>0 DEF LeaveInv
<1>8. Free("rez") /\ db'["rez"] = db["rez"] => Free("rez")'
  BY <1>3 DEF Free, Held
<1>9. ASSUME NEW call \in PCs, Goto(t, call), pc[t] \in EditCalls, relinquish' \subseteq relinquish,
             ~Encoding => db'["rez"] = db["rez"] /\ call \notin {"exists", "lockRez", "propsRez"},
             lastEdit' # NotEdited => stored' # NotEdited
      PROVE  LeaveInv'
  BY <1>0, <1>4, <1>6, <1>7, <1>8, <1>9, LeaveGoto
<1>10. ASSUME Download(t) \/ GiveUp(t), pc[t] \in EditCalls,
              ~Encoding => db'["rez"] = db["rez"], UNCHANGED edits \/ GiveUp(t)
       PROVE  LeaveInv'
  <2>1. lastEdit' # NotEdited => stored' # NotEdited
    BY <1>0, <1>2, <1>10, ListIsStored DEF GiveUp
  <2> QED
    BY <1>9, <1>10, <2>1 DEF Download, GiveUp, Finish, PCs
<1>11. CASE LockAnswered(t)
  BY <1>2, <1>9, <1>10, <1>11 DEF LockAnswered, Answered, PCs
<1>12. CASE PropsAnswered(t)
  <2>1. db'["rez"] = db["rez"] /\ pc[t] \in EditCalls
    BY <1>1, <1>12 DEF PropsAnswered, Answered, ItemLocked
  <2> QED
    BY <1>2, <1>9, <1>10, <1>12, <2>1 DEF PropsAnswered, PCs
<1>13. CASE ExistsAnswered(t)
  BY <1>2, <1>7, <1>9, <1>10, <1>13 DEF ExistsAnswered, Answered, PCs
<1>14. CASE LockRezAnswered(t)
  BY <1>2, <1>7, <1>9, <1>14 DEF LockRezAnswered, Answered, PCs
<1>15. CASE PropsRezAnswered(t)
  BY <1>2, <1>7, <1>9, <1>10, <1>15 DEF PropsRezAnswered, Answered, PCs
<1>16. CASE RollbackAnswered(t)
  <2>1. db'["rez"] = db["rez"] /\ pc[t] \in EditCalls
    BY <1>1, <1>16 DEF RollbackAnswered, Answered, ItemUnlocked
  <2> QED
    BY <1>10, <1>16, <2>1 DEF RollbackAnswered
<1>17. CASE GetAnswered(t)
  <2>1. lastEdit' # NotEdited => stored' # NotEdited
    BY <1>0, <1>2, <1>17, ListIsStored DEF GetAnswered, Succeeded
  <2> QED
    BY <1>9, <1>17, <2>1 DEF GetAnswered, Answered, Finish, PCs
<1>18. CASE PutAnswered(t)
  <2>0. /\ OthersIdle(t) /\ relinquish \subseteq {t} /\ pc[t] = "put"
        /\ UNCHANGED <<db, edits>> /\ (~Encoding => Free("rez")')
    BY <1>4, <1>7, <1>8, <1>18 DEF PutAnswered, Answered
  <2>1. CASE Finish(t)
    BY <1>0, <1>2, <2>0, <2>1, LeaveGoto DEF Finish, PCs
  <2>2. CASE Goto(t, "unlock") /\ Succeeded(t) /\ UNCHANGED <<token, relinquish>>
    <3>1. pc'[t] = "unlock" /\ answer'[t].status = "none" /\ "unlock" \in PCs
      BY <1>0, <2>0, <2>2, GotoAlone DEF PCs
    <3>2. t \in relinquish' => LeavePhase(t)'
      BY <1>3, <1>5, <2>0, <2>2, <3>1 DEF LeavePhase, Named, Held, Known
    <3> QED
      BY <1>0, <1>2, <2>0, <2>2, <3>1, <3>2, LeaveGoto
  <2>3. CASE /\ Goto(t, "propsAfter") /\ Succeeded(t) /\ UNCHANGED <<token, relinquish>>
             /\ ~(t \in relinquish /\ token[t] # NoEntry)
    <3>1. pc'[t] = "propsAfter" /\ "propsAfter" \in PCs
      BY <1>0, <2>0, <2>3, GotoAlone DEF PCs
    <3>2. t \in relinquish => Free("data")
      BY <1>5, <2>0, <2>3, ConstantsAssumption DEF LeavePhase, Named, Held, Free
    <3>3. t \in relinquish' => LeavePhase(t)'
      BY <1>3, <2>0, <2>3, <3>1, <3>2 DEF LeavePhase, Free, Held
    <3> QED
      BY <1>0, <1>2, <2>0, <2>3, <3>1, <3>3, LeaveGoto
  <2> QED
    BY <1>18, <2>1, <2>2, <2>3 DEF PutAnswered
<1>19. CASE UnlockAnswered(t)
  <2>0. /\ OthersIdle(t) /\ relinquish \subseteq {t} /\ pc[t] = "unlock" /\ Known(t)
        /\ db' = [db EXCEPT !["data"] = NoEntry] /\ Goto(t, "propsAfter")
        /\ UNCHANGED <<relinquish, edits>>
    BY <1>4, <1>19 DEF UnlockAnswered, Answered, ItemUnlocked, Known
  <2>1. pc'[t] = "propsAfter" /\ "propsAfter" \in PCs
    BY <1>0, <2>0, GotoAlone DEF PCs
  <2>2. db'["data"] = NoEntry /\ db'["rez"] = db["rez"]
    BY <1>1, <2>0
  <2>3. t \in relinquish' => LeavePhase(t)'
    BY <1>3, <1>5, <2>0, <2>1, <2>2 DEF LeavePhase, Free, Held
  <2> QED
    BY <1>0, <1>2, <1>7, <1>8, <2>0, <2>1, <2>2, <2>3, LeaveGoto
<1>20. CASE PropsAfterAnswered(t)
  <2>0. OthersIdle(t) /\ relinquish \subseteq {t} /\ pc[t] = "propsAfter"
    BY <1>4, <1>20 DEF PropsAfterAnswered, Answered
  <2>1. db'["rez"] = db["rez"] /\ (db["data"] = NoEntry => db'["data"] = NoEntry)
    BY <1>1, <1>20 DEF PropsAfterAnswered, AfterDataChange
  <2>2. t \in relinquish => Free("data")'
    BY <1>3, <1>5, <2>0, <2>1 DEF LeavePhase, Free, Held
  <2>3. CASE Encoding /\ Goto(t, "putRez") /\ SetToken(t, db["rez"]) /\ UNCHANGED <<relinquish, edits>>
    <3>1. pc'[t] = "putRez" /\ answer'[t].status = "none" /\ "putRez" \in PCs
      BY <1>0, <2>0, <2>3, GotoAlone DEF PCs
    <3>2. token'[t] = db'["rez"]
      BY <1>1, <2>1, <2>3 DEF SetToken
    <3>3. t \in relinquish' => LeavePhase(t)'
      BY <2>2, <2>3, <3>1, <3>2 DEF LeavePhase, Succeeded
    <3> QED
      BY <1>0, <1>2, <2>0, <2>3, <3>1, <3>3, LeaveGoto
  <2>4. CASE Conclude(t)
    <3>1. lastEdit' # NotEdited => stored' # NotEdited
      BY <1>0, <1>2, <2>4, ListIsStored DEF Conclude
    <3> QED
      BY <1>0, <1>7, <1>8, <2>0, <2>1, <2>4, <3>1, LeaveGoto DEF Conclude, Finish, PCs
  <2> QED
    BY <1>20, <2>3, <2>4 DEF PropsAfterAnswered
<1>21. CASE PutRezAnswered(t)
  <2>0. /\ OthersIdle(t) /\ relinquish \subseteq {t} /\ pc[t] = "putRez"
        /\ UNCHANGED db /\ (~Encoding => Free("rez")')
    BY <1>4, <1>7, <1>8, <1>21 DEF PutRezAnswered, Answered
  <2>1. CASE Finish(t) /\ (UNCHANGED edits \/ Conclude(t))
    <3>1. lastEdit' # NotEdited => stored' # NotEdited
      BY <1>0, <1>2, <2>1, ListIsStored DEF Conclude
    <3> QED
      BY <1>0, <2>0, <2>1, <3>1, LeaveGoto DEF Finish, PCs
  <2>2. CASE Goto(t, "unlockRez") /\ Succeeded(t) /\ UNCHANGED <<token, relinquish, edits>>
    <3>1. pc'[t] = "unlockRez" /\ answer'[t].status = "none" /\ "unlockRez" \in PCs
      BY <1>0, <2>0, <2>2, GotoAlone DEF PCs
    <3>2. t \in relinquish' => LeavePhase(t)'
      BY <1>3, <1>5, <2>0, <2>2, <3>1 DEF LeavePhase, Named, Held, Known, Free
    <3> QED
      BY <1>0, <1>2, <2>0, <2>2, <3>1, <3>2, LeaveGoto
  <2> QED
    BY <1>21, <2>1, <2>2 DEF PutRezAnswered, Conclude
<1>22. CASE NullToken(t)
  BY <1>22, LeaveRestart DEF NullToken
<1>23. CASE UnlockRezAnswered(t)
  <2>0. /\ OthersIdle(t) /\ relinquish \subseteq {t} /\ Conclude(t)
        /\ db' = [db EXCEPT !["rez"] = NoEntry]
    BY <1>4, <1>23 DEF UnlockRezAnswered, Answered, ItemUnlocked
  <2>1. lastEdit' # NotEdited => stored' # NotEdited
    BY <1>0, <1>2, <2>0, ListIsStored DEF Conclude
  <2>2. ~Encoding => Free("rez")'
    BY <1>1, <1>3, <1>7, <2>0 DEF Free, Held
  <2> QED
    BY <1>0, <2>0, <2>1, <2>2, LeaveGoto DEF Conclude, Finish, PCs
<1> QED
  BY <1>11, <1>12, <1>13, <1>14, <1>15, <1>16, <1>17, <1>18, <1>19, <1>20, <1>21, <1>22, <1>23
     DEF Continue

\* The server: an upload that it took named the token of the lock, and so does the UNLOCK.
LEMMA LeaveServe ==
    ASSUME IInv, LeaveInv, Uncrossed', trouble \subseteq trouble', NEW t \in Threads,
           Serve(t) \/ CallFails(t)
    PROVE  LeaveInv'
<1>0. Uncrossed /\ TypeInv /\ Solo
  BY DEF Uncrossed, IInv
<1>1. /\ db \in [Forks -> {NoEntry, Theirs, Empty} \cup Tokens]
      /\ lock \in [Forks -> {Empty, Theirs} \cup Tokens]
      /\ relinquish \subseteq Threads
  BY <1>0 DEF TypeInv, TypeOK
<1>2. Serve(t) /\ answer[t].status = "none"
  BY DEF CallFails, Noted, Uncrossed, Serve
<1>3. pc[t] # "idle" /\ UNCHANGED <<db, pc, token, edits, relinquish>>
  BY <1>2 DEF Serve
<1>4. relinquish \subseteq {t}
  <2>1. \A u \in relinquish : u \in Threads /\ pc[u] # "idle"
    BY <1>0, <1>1 DEF LeaveInv
  <2> QED
    BY <1>0, <1>3, <2>1 DEF Solo, OthersIdle
<1>5. t \in relinquish => pc[t] \in SaveCalls /\ LeavePhase(t)
  BY <1>0 DEF LeaveInv
<1>6. ~Succeeded(t) /\ ~Known(t)
  BY <1>2 DEF Succeeded, Known
<1>7. ASSUME NEW a, Respond(t, a) PROVE answer'[t] = a
  BY <1>0, <1>7, RespondAlone
<1>8. ~Encoding => Free("rez")'
  <2>1. ASSUME ~Encoding PROVE Free("rez")'
    <3>1. Free("rez") /\ pc[t] # "lockRez"
      BY <1>0, <2>1 DEF LeaveInv
    <3>2. lock'["rez"] \in {lock["rez"], Empty}
      BY <1>1, <1>2, <3>1 DEF Serve, ServeLock, ServeProps, ServeUnlock, ServeGet, ServePut, ServePutRez
    <3> QED
      BY <1>3, <3>1, <3>2 DEF Free, Held
  <2> QED
    BY <2>1
<1>9. ASSUME t \in relinquish => LeavePhase(t)' PROVE LeaveInv'
  <2>1. \A u \in relinquish' : pc'[u] \in SaveCalls /\ LeavePhase(u)'
    BY <1>3, <1>4, <1>5, <1>9
  <2>2. /\ ~Encoding => \A u \in Threads : pc'[u] \notin {"exists", "lockRez", "propsRez"}
        /\ lastEdit' # NotEdited => stored' # NotEdited
    BY <1>0, <1>3 DEF LeaveInv
  <2> QED
    BY <1>8, <2>1, <2>2 DEF LeaveInv
<1>10. SUFFICES ASSUME t \in relinquish PROVE LeavePhase(t)'
  BY <1>9
<1>11. LeavePhase(t) /\ pc[t] \in SaveCalls
  BY <1>5, <1>10
<1>12. CASE pc[t] = "put"
  <2>1. ServePut(t) /\ UNCHANGED lock /\ token[t] = db["data"]
    BY <1>2, <1>11, <1>12 DEF Serve, ServePut, LeavePhase
  <2>2. MayWrite("data", token[t]) \/ Respond(t, Failed)
    BY <2>1 DEF ServePut
  <2>3. Succeeded(t)' => MayWrite("data", token[t])
    BY <1>7, <2>2 DEF Succeeded, Failed
  <2>4. MayWrite("data", token[t]) => Named(t, "data")'
    BY <1>1, <1>3, <2>1 DEF MayWrite, Named, Held
  <2> QED
    BY <1>3, <1>12, <2>1, <2>3, <2>4 DEF LeavePhase
<1>13. CASE pc[t] = "putRez"
  <2>1. ServePutRez(t) /\ UNCHANGED lock /\ token[t] = db["rez"] /\ Free("data")
    BY <1>2, <1>11, <1>13 DEF Serve, ServePutRez, LeavePhase
  <2>2. MayWrite("rez", token[t]) \/ Respond(t, Failed)
    BY <2>1 DEF ServePutRez
  <2>3. Succeeded(t)' => MayWrite("rez", token[t])
    BY <1>7, <2>2 DEF Succeeded, Failed
  <2>4. (MayWrite("rez", token[t]) => Named(t, "rez")') /\ Free("data")'
    BY <1>1, <1>3, <2>1 DEF MayWrite, Named, Held, Free
  <2> QED
    BY <1>3, <1>13, <2>1, <2>3, <2>4 DEF LeavePhase
<1>14. CASE pc[t] = "propsAfter"
  <2>1. UNCHANGED lock /\ Free("data")
    BY <1>2, <1>11, <1>14 DEF Serve, ServeProps, LeavePhase
  <2> QED
    BY <1>3, <1>14, <2>1 DEF LeavePhase, Free, Held
<1>15. CASE pc[t] = "unlock"
  <2>1. ServeUnlock(t, "data") /\ Named(t, "data")
    BY <1>2, <1>11, <1>15 DEF Serve, LeavePhase
  <2>2. ~Held("data")'
    BY <1>1, <2>1 DEF ServeUnlock, Named, Held
  <2> QED
    BY <1>3, <1>15, <2>2 DEF LeavePhase, Named
<1>16. CASE pc[t] = "unlockRez"
  <2>1. ServeUnlock(t, "rez") /\ Named(t, "rez") /\ Free("data")
    BY <1>2, <1>11, <1>16 DEF Serve, LeavePhase
  <2>2. ~Held("rez")' /\ Free("data")'
    BY <1>1, <1>3, <2>1 DEF ServeUnlock, Named, Held, Free
  <2> QED
    BY <1>3, <1>16, <2>2 DEF LeavePhase, Named
<1> QED
  BY <1>11, <1>12, <1>13, <1>14, <1>15, <1>16

\* Other clients and lost locks: what this client has not locked it does not lock.
LEMMA LeaveOthers ==
    ASSUME IInv, LeaveInv, Uncrossed', trouble \subseteq trouble',
           \/ UserSaves \/ OtherWrites \/ ForkAppears
           \/ \E f \in Forks : OtherLocks(f) \/ LockEnds(f)
    PROVE  LeaveInv'
<1>0. Uncrossed /\ UNCHANGED <<db, pc, answer, token, relinquish, edits>>
  BY DEF Uncrossed, UserSaves, OtherWrites, ForkAppears, OtherLocks, LockEnds
<1>1. lock \in [Forks -> {Empty, Theirs} \cup Tokens] /\ Theirs \notin Tokens /\ Empty \notin Tokens
  BY DEF IInv, TypeInv, TypeOK
<1>2. \A f \in Forks : lock'[f] \in {lock[f], Theirs, Empty}
  BY <1>1 DEF UserSaves, OtherWrites, ForkAppears, OtherLocks, LockEnds
<1>3. \A f \in Forks : Held(f)' => Held(f) /\ lock'[f] = lock[f]
  BY <1>1, <1>2 DEF Held
<1>4. \A f \in Forks : Free(f) => Free(f)'
  BY <1>0, <1>3 DEF Free
<1>5. \A t \in relinquish : LeavePhase(t)'
  <2> SUFFICES ASSUME NEW t \in relinquish PROVE LeavePhase(t)'
    OBVIOUS
  <2>1. LeavePhase(t)
    BY <1>0 DEF LeaveInv
  <2>2. \A f \in Forks : Named(t, f) => Named(t, f)'
    BY <1>0, <1>3 DEF Named
  <2>3. Known(t)' = Known(t) /\ Succeeded(t)' = Succeeded(t)
    BY <1>0 DEF Known, Succeeded
  <2> QED
    BY <1>0, <1>3, <1>4, <2>1, <2>2, <2>3 DEF LeavePhase
<1> QED
  BY <1>0, <1>4, <1>5 DEF LeaveInv

\* LeaveInv holds at first, and every step keeps it.
LEMMA LeaveInit == Init => LeaveInv
  BY DEF Init, LeaveInv, Free, Held

LEMMA LeaveStep == IInv /\ TypeInv' /\ LeaveInv /\ [Next]_vars => LeaveInv'
<1> SUFFICES ASSUME IInv, TypeInv', LeaveInv, [Next]_vars, Uncrossed' PROVE LeaveInv'
  BY DEF LeaveInv
<1>1. trouble \subseteq trouble'
  BY TroubleGrows
<1>2. CASE UNCHANGED vars
  BY <1>2, LeaveSame DEF vars, Uncrossed, LeaveInv
<1>3. CASE Next
  BY <1>1, <1>3, LeaveCommand, LeaveContinue, LeaveServe, LeaveRestart, LeaveOthers DEF Next
<1> QED
  BY <1>2, <1>3

\* Who stops the edit has nothing left.
Relinquishes(t) ==
    /\ t \in relinquish /\ pc'[t] = "idle"
    /\ lastEdit # NotEdited /\ lastEdit' = NotEdited

LEMMA Relinquished ==
    ASSUME IInv, LeaveInv, LeaveInv', [Next]_vars, Uncrossed', NEW t \in Threads, Relinquishes(t)
    PROVE  Free("data")' /\ Free("rez")'
<1>0. /\ Uncrossed /\ TypeInv /\ Solo /\ Whole
  BY TroubleGrows DEF Uncrossed, IInv
<1>1. /\ db \in [Forks -> {NoEntry, Theirs, Empty} \cup Tokens]
      /\ lock \in [Forks -> {Empty, Theirs} \cup Tokens]
  BY <1>0 DEF TypeInv, TypeOK
<1>2. /\ pc[t] \in SaveCalls /\ LeavePhase(t) /\ pc'[t] = "idle" /\ t \in relinquish
      /\ lastEdit # NotEdited /\ lastEdit' = NotEdited /\ stored # NotEdited
  BY <1>0 DEF LeaveInv, Relinquishes
<1>3. OthersIdle(t)
  BY <1>0, <1>2 DEF Solo
<1>4. ~Restart
  <2>1. file # NoFile
    BY <1>0, <1>2, ConstantsAssumption DEF Whole
  <2> QED
    BY <1>2, <2>1 DEF Restart
<1>5. \A u \in Threads : ~StartEdit(u)
  BY <1>2 DEF StartEdit, EditItems
<1>6. \A u \in Threads, over \in BOOLEAN : ~StartSave(u, over)
  BY <1>0, <1>2 DEF StartSave, TypeInv, TypeOK
<1>7. PICK u \in Threads : Continue(u)
  <2>1. ~RemoveSelectedFiles
    BY <1>2 DEF RemoveSelectedFiles
  <2>2. \A u \in Threads : ~Serve(u) /\ ~CallFails(u)
    BY <1>2 DEF Serve, CallFails
  <2>3. ~(UserSaves \/ OtherWrites \/ ForkAppears \/ \E f \in Forks : OtherLocks(f) \/ LockEnds(f))
    BY <1>2 DEF UserSaves, OtherWrites, ForkAppears, OtherLocks, LockEnds
  <2>4. ~UNCHANGED vars
    BY <1>2 DEF vars
  <2> QED
    BY <1>4, <1>5, <1>6, <2>1, <2>2, <2>3, <2>4 DEF Next
<1>8. u = t
  <2>1. pc[u] # "idle"
    BY <1>7 DEF Continue, Answered, LockAnswered, PropsAnswered, ExistsAnswered, LockRezAnswered,
         PropsRezAnswered, RollbackAnswered, GetAnswered, PutAnswered, UnlockAnswered,
         PropsAfterAnswered, PutRezAnswered, NullToken, UnlockRezAnswered
  <2> QED
    BY <1>3, <2>1 DEF OthersIdle
<1>9. UNCHANGED lock
  BY <1>7, ContinueTrouble
<1>10. PropsAfterAnswered(t) \/ UnlockRezAnswered(t)
  BY <1>2, <1>4, <1>7, <1>8 DEF Continue, Answered, LockAnswered, PropsAnswered, ExistsAnswered,
       LockRezAnswered, PropsRezAnswered, RollbackAnswered, GetAnswered, PutAnswered, UnlockAnswered,
       PutRezAnswered, NullToken
<1>11. CASE PropsAfterAnswered(t)
  <2>1. Free("data") /\ db'["rez"] = db["rez"] /\ (db["data"] = NoEntry => db'["data"] = NoEntry)
    BY <1>1, <1>2, <1>11 DEF PropsAfterAnswered, Answered, LeavePhase, AfterDataChange
  <2>2. ~Encoding
    BY <1>2, <1>11 DEF PropsAfterAnswered
  <2>3. Free("rez")
    BY <1>0, <2>2 DEF LeaveInv
  <2> QED
    BY <1>9, <2>1, <2>3 DEF Free, Held
<1>12. CASE UnlockRezAnswered(t)
  <2>1. Free("data") /\ ~Held("rez") /\ db' = [db EXCEPT !["rez"] = NoEntry]
    BY <1>2, <1>12 DEF UnlockRezAnswered, Answered, LeavePhase, Known, ItemUnlocked
  <2> QED
    BY <1>1, <1>9, <2>1 DEF Free, Held
<1> QED
  BY <1>10, <1>11, <1>12
-----------------------------------------------------------------------------
LEMMA SessionInvHolds == Spec => []SessionInv
<1>1. Init => SessionInv
  BY IInvInit, LockInit, EditInit, ChangeInit, LeaveInit DEF SessionInv
<1>2. SessionInv /\ [Next]_vars => SessionInv'
  <2> SUFFICES ASSUME SessionInv, [Next]_vars PROVE SessionInv'
    OBVIOUS
  <2>1. IInv' /\ TypeInv'
    BY IInvStep DEF SessionInv, IInv
  <2> QED
    BY <2>1, LockStep, EditStep, ChangeStep, LeaveStep DEF SessionInv
<1> QED
  BY <1>1, <1>2, PTL DEF Spec

\* Whatever the server refuses and the user saves meanwhile: between the commands the
\* token store names the locks this client holds on the item and its fork, and no others.
THEOREM SessionLocksAreOnRecord == Spec => []LocksAreOnRecord
<1>1. SessionInv => LocksAreOnRecord
  BY ConstantsAssumption DEF SessionInv, LockInv, LocksAreOnRecord, Undisturbed, OnRecord, Held
<1> QED
  BY SessionInvHolds, <1>1, PTL

\* An item is edited under a lock of this client that is on record.
THEOREM EditsAreLocked == Spec => []EditedMeansLocked
<1>1. SessionInv => EditedMeansLocked
  <2> SUFFICES ASSUME SessionInv, Calm, Idle, lastEdit # NotEdited
               PROVE  lock["data"] \in Tokens /\ db["data"] = lock["data"]
    BY DEF EditedMeansLocked, Calm
  <2>1. Undisturbed
    BY DEF Calm, Undisturbed
  <2>2. Held("data")
    BY DEF SessionInv, EditInv, Leaving, Idle, Safe
  <2> QED
    BY <2>1, <2>2 DEF SessionInv, LockInv, OnRecord, Held
<1> QED
  BY SessionInvHolds, <1>1, PTL

\* No upload of an edited file replaces what another client wrote since the download,
\* unless a lock or an answer was lost.
THEOREM ForeignChangesAreSpared == Spec => []UploadsSpareForeignChanges
<1>1. SessionInv => UploadsSpareForeignChanges
  BY DEF SessionInv, IInv, TypeInv, TypeOK, EditInv, Calm, UploadsSpareForeignChanges
<1> QED
  BY SessionInvHolds, <1>1, PTL

\* Every change to the local file is offered for upload or on its way, after restarts and
\* crashes too.
THEOREM ChangesAreKept == Spec => []ChangesAreNotForgotten
<1>1. SessionInv => ChangesAreNotForgotten
  BY DEF SessionInv, ChangeInv, Kept, ChangesAreNotForgotten
<1> QED
  BY SessionInvHolds, <1>1, PTL

\* When the editing is over and the thread at its end, neither the item nor its fork is
\* locked or on record.
THEOREM RelinquishingReleases == Spec => RelinquishReleases
<1>1. SessionInv /\ SessionInv' /\ [Next]_vars =>
         [\A t \in Threads :
            /\ trouble' \cap {"lost", "race"} = {} /\ t \in relinquish /\ pc'[t] = "idle"
            /\ lastEdit # NotEdited /\ lastEdit' = NotEdited
            => \A f \in Forks : lock'[f] \notin Tokens /\ db'[f] = NoEntry]_vars
  <2> SUFFICES ASSUME SessionInv, SessionInv', [Next]_vars, NEW t \in Threads,
                      trouble' \cap {"lost", "race"} = {}, t \in relinquish, pc'[t] = "idle",
                      lastEdit # NotEdited, lastEdit' = NotEdited, NEW f \in Forks
               PROVE  lock'[f] \notin Tokens /\ db'[f] = NoEntry
    OBVIOUS
  <2>1. Free("data")' /\ Free("rez")'
    BY Relinquished DEF SessionInv, Uncrossed, Relinquishes
  <2> QED
    BY <2>1 DEF Free, Held
<1> QED
  BY SessionInvHolds, <1>1, PTL DEF Spec, RelinquishReleases
-----------------------------------------------------------------------------
\* The list on disk, for any number of threads that cross.  It has the item when the list
\* in memory has it, which it has only with a file; no date is ahead of the clock.
ListInv ==
    /\ stored = NotEdited <=> lastEdit = NotEdited
    /\ file = NoFile => lastEdit = NotEdited

\* What the operations on the list and the file do to that.
ListKept == Dates' /\ ListInv'

LEMMA ListEditItems ==
    ASSUME TypeInv, Dates, ListInv, NEW files \in BOOLEAN, EditItems(files), date' \in {NoDate} \cup Versions,
           date' <= clock', clock' >= clock, clock' \in Versions,
           file' = NoFile => file = NoFile /\ ~(files /\ lastEdit = NotEdited)
    PROVE  ListKept
<1>0. /\ date \in Int /\ stored \in Int /\ lastEdit \in Int /\ clock \in Int /\ clock' \in Int
      /\ date' \in Int /\ date' # NotEdited /\ clock > 0
  BY DEF TypeInv, TypeOK
<1>1. CASE UNCHANGED edits
  BY <1>0, <1>1 DEF ListKept, Dates, ListInv
<1>2. CASE lastEdit' = (IF files /\ lastEdit = NotEdited THEN date' ELSE lastEdit) /\ SaveEditedFilesList
  <2>1. stored' = IF lastEdit' = NotEdited THEN NotEdited ELSE date'
    BY <1>2 DEF SaveEditedFilesList
  <2>2. Dates'
    BY <1>0, <1>2, <2>1 DEF Dates
  <2>3. ListInv'
    BY <1>0, <1>2, <2>1 DEF ListInv
  <2> QED
    BY <2>2, <2>3 DEF ListKept
<1> QED
  BY <1>1, <1>2 DEF EditItems

LEMMA ListSame ==
    ASSUME TypeInv, Dates, ListInv, UNCHANGED edits, date' \in {NoDate} \cup Versions,
           date' <= clock', clock' >= clock, clock' \in Versions, file' = NoFile => file = NoFile
    PROVE  ListKept
<1>0. /\ date \in Int /\ stored \in Int /\ lastEdit \in Int /\ clock \in Int /\ clock' \in Int
      /\ date' \in Int
  BY DEF TypeInv, TypeOK
<1> QED
  BY <1>0 DEF ListKept, Dates, ListInv

LEMMA ListDownload ==
    ASSUME TypeInv, Dates, ListInv, NEW t \in Threads, Download(t), UNCHANGED edits
    PROVE  ListKept
<1>1. CASE UNCHANGED <<file, date, clock>>
  BY <1>1, ListSame DEF TypeInv, TypeOK, Dates
<1>2. CASE clock' = clock + 1 /\ file' = Junk /\ date' = clock' /\ clock < MaxClock
  BY <1>2, ListSame, ConstantsAssumption DEF TypeInv, TypeOK
<1> QED
  BY <1>1, <1>2 DEF Download

LEMMA ListGiveUp ==
    ASSUME TypeInv, Dates, ListInv, NEW t \in Threads, GiveUp(t)
    PROVE  ListKept
<1>1. EditItems(FALSE) /\ UNCHANGED <<file, date, clock>>
  BY DEF GiveUp
<1>2. /\ date' \in {NoDate} \cup Versions /\ date' <= clock' /\ clock' >= clock /\ clock' \in Versions
      /\ file' = NoFile => file = NoFile
  BY <1>1 DEF TypeInv, TypeOK, Dates
<1> QED
  BY <1>1, <1>2, ListEditItems

LEMMA ListConclude ==
    ASSUME TypeInv, Dates, ListInv, NEW t \in Threads, Conclude(t), clock' = clock
    PROVE  ListKept
<1>0. /\ date \in Int /\ stored \in Int /\ lastEdit \in Int /\ clock \in Int
      /\ date # NotEdited /\ clock > 0
  BY DEF TypeInv, TypeOK
<1>1. CASE StopEditingItem /\ (UNCHANGED <<file, date>> \/ date' = NoDate)
  <2>1. lastEdit' = NotEdited /\ stored' = NotEdited
    BY <1>1 DEF StopEditingItem, SaveEditedFilesList, ListInv
  <2>2. date' <= clock' /\ NotEdited <= clock'
    BY <1>0, <1>1 DEF Dates
  <2> QED
    BY <2>1, <2>2 DEF ListKept, Dates, ListInv
<1>2. CASE UpdateItemEditTime /\ UNCHANGED <<file, date>>
  <2>1. CASE lastEdit = NotEdited
    BY <1>2, <2>1, <1>0 DEF UpdateItemEditTime, ListKept, Dates, ListInv
  <2>2. CASE lastEdit # NotEdited
    <3>1. lastEdit' = date /\ stored' = date
      BY <1>0, <1>2, <2>2 DEF UpdateItemEditTime, SaveEditedFilesList
    <3> QED
      BY <1>0, <1>2, <2>2, <3>1 DEF ListKept, Dates, ListInv
  <2> QED
    BY <2>1, <2>2
<1> QED
  BY <1>1, <1>2 DEF Conclude

LEMMA ListRestart ==
    ASSUME TypeInv, Dates, ListInv, Restart
    PROVE  ListKept
<1>0. /\ date \in Int /\ stored \in Int /\ lastEdit \in Int /\ clock \in Int /\ clock > 0
  BY DEF TypeInv, TypeOK
<1>1. lastEdit' = (IF file = NoFile THEN NotEdited ELSE stored) /\ UNCHANGED <<file, date, stored, clock>>
  BY DEF Restart
<1> QED
  BY <1>0, <1>1 DEF ListKept, Dates, ListInv

LEMMA ListContinue ==
    ASSUME TypeInv, TypeInv', Dates, ListInv, NEW t \in Threads, Continue(t)
    PROVE  ListKept
<1>1. CASE UNCHANGED <<file, date, edits, clock>>
  BY <1>1, ListSame DEF TypeInv, TypeOK, Dates
<1>2. CASE LockAnswered(t)
  BY <1>1, <1>2, ListGiveUp DEF LockAnswered
<1>3. CASE PropsAnswered(t)
  BY <1>1, <1>3, ListGiveUp, ListDownload DEF PropsAnswered
<1>4. CASE ExistsAnswered(t)
  BY <1>1, <1>4, ListDownload DEF ExistsAnswered
<1>5. CASE PropsRezAnswered(t)
  BY <1>1, <1>5, ListDownload DEF PropsRezAnswered
<1>6. CASE RollbackAnswered(t)
  BY <1>6, ListGiveUp DEF RollbackAnswered
<1>7. CASE GetAnswered(t)
  <2>1. clock' = clock + 1 /\ date' = clock' /\ EditItems(Succeeded(t)) /\ Succeeded(t) \in BOOLEAN
    BY <1>7 DEF GetAnswered, Succeeded
  <2>2. file' # NoFile
    <3>1. Succeeded(t) => answer[t].value \in {Junk} \cup Versions
      BY <1>7 DEF GetAnswered, Answered, Succeeded, TypeInv, ReadTypes
    <3> QED
      BY <1>7, <3>1 DEF GetAnswered
  <2>3. clock' \in Versions /\ date' \in {NoDate} \cup Versions /\ date' <= clock' /\ clock' >= clock
    BY <2>1 DEF TypeInv, TypeOK
  <2> QED
    BY <2>1, <2>2, <2>3, ListEditItems
<1>8. CASE PropsAfterAnswered(t)
  BY <1>1, <1>8, ListConclude DEF PropsAfterAnswered
<1>9. CASE PutRezAnswered(t)
  BY <1>1, <1>9, ListConclude DEF PutRezAnswered
<1>10. CASE UnlockRezAnswered(t)
  BY <1>10, ListConclude DEF UnlockRezAnswered
<1>11. CASE NullToken(t)
  BY <1>11, ListRestart DEF NullToken
<1>12. CASE LockRezAnswered(t) \/ PutAnswered(t) \/ UnlockAnswered(t)
  BY <1>1, <1>12 DEF LockRezAnswered, PutAnswered, UnlockAnswered
<1> QED
  BY <1>2, <1>3, <1>4, <1>5, <1>6, <1>7, <1>8, <1>9, <1>10, <1>11, <1>12 DEF Continue

LEMMA ListStep == TypeInv /\ TypeInv' /\ Dates /\ ListInv /\ [Next]_vars => ListKept
<1> SUFFICES ASSUME TypeInv, TypeInv', Dates, ListInv, [Next]_vars PROVE ListKept
  OBVIOUS
<1>0. /\ date \in Int /\ stored \in Int /\ lastEdit \in Int /\ clock \in Int /\ clock > 0
      /\ date # NotEdited
  BY DEF TypeInv, TypeOK
<1>1. CASE UNCHANGED <<file, date, edits, clock>>
  BY <1>1, ListSame DEF TypeInv, TypeOK, Dates
<1>2. ASSUME NEW t \in Threads, StartEdit(t) PROVE ListKept
  <2>1. CASE Download(t) /\ UNCHANGED edits
    BY <2>1, ListDownload
  <2>2. CASE lastEdit # NotEdited /\ EditItems(TRUE) /\ UNCHANGED <<file, date, clock>>
    <3>1. /\ date' \in {NoDate} \cup Versions /\ date' <= clock' /\ clock' >= clock /\ clock' \in Versions
          /\ file' = NoFile => file = NoFile
      BY <2>2 DEF TypeInv, TypeOK, Dates
    <3> QED
      BY <2>2, <3>1, ListEditItems
  <2> QED
    BY <1>1, <1>2, <2>1, <2>2 DEF StartEdit
<1>3. ASSUME NEW t \in Threads, NEW over \in BOOLEAN, StartSave(t, over) PROVE ListKept
  <2>1. lastEdit # NotEdited /\ lastEdit' = date /\ UNCHANGED <<stored, file, date, clock>>
    BY <1>3 DEF StartSave, FileHasChanged
  <2> QED
    BY <1>0, <2>1 DEF ListKept, Dates, ListInv
<1>4. CASE RemoveSelectedFiles
  <2>1. lastEdit' = NotEdited /\ stored' = NotEdited /\ UNCHANGED <<file, date, clock>>
    BY <1>4 DEF RemoveSelectedFiles, StopEditingItem, SaveEditedFilesList
  <2>2. NotEdited <= clock
    BY <1>0
  <2> QED
    BY <2>1, <2>2 DEF ListKept, Dates, ListInv
<1>5. CASE UserSaves
  <2>1. clock' = clock + 1 /\ date' = clock' /\ UNCHANGED edits /\ file # NoFile /\ file' = clock'
    BY <1>5 DEF UserSaves
  <2>2. /\ date' <= clock' /\ file' # NoFile
        /\ date' \in {NoDate} \cup Versions /\ clock' \in Versions /\ clock' >= clock
    BY <2>1 DEF TypeInv, TypeOK
  <2> QED
    BY <2>1, <2>2, ListSame
<1>6. CASE OtherWrites
  <2>1. clock' = clock + 1 /\ UNCHANGED <<file, date, edits>>
    BY <1>6 DEF OtherWrites
  <2>2. clock' \in Versions /\ date' \in {NoDate} \cup Versions /\ date' <= clock' /\ clock' >= clock
    BY <1>0, <2>1 DEF TypeInv, TypeOK, Dates
  <2> QED
    BY <2>1, <2>2, ListSame
<1>7. CASE (\E t \in Threads : Serve(t) \/ CallFails(t)) \/ ForkAppears \/ UNCHANGED vars
           \/ \E f \in Forks : OtherLocks(f) \/ LockEnds(f)
  BY <1>1, <1>7 DEF Serve, CallFails, ForkAppears, vars, OtherLocks, LockEnds
<1> QED
  BY <1>2, <1>3, <1>4, <1>5, <1>6, <1>7, ListContinue, ListRestart DEF Next
-----------------------------------------------------------------------------
\* What a restart finds.  A changed file differs in date from what is on disk, unless a
\* download is about to replace it; past its PUT, no thread finds a change.
Fetching == \E t \in Threads : pc[t] = "get"
Uploaded(t) == pc[t] \in SaveCalls \ {"put"} \/ (pc[t] = "put" /\ Succeeded(t))
Recalled == Unsaved => stored # date

\* Threads may cross, or calls may fail.
Excused ==
    /\ trouble \cap {"during", "crashed", "reopened"} = {}
    /\ ~({"race", "lost"} \subseteq trouble)

GetFails == \A t \in Threads : pc[t] = "get" /\ Known(t) /\ ~Succeeded(t) => "lost" \in trouble

RecallInv ==
    Excused =>
        /\ GetFails
        /\ Fetching \/ (Recalled /\ ((\E t \in Threads : Uploaded(t)) => ~Unsaved))

LEMMA RecallInit == Init => RecallInv
  BY DEF Init, RecallInv, GetFails, Fetching, Recalled, Uploaded, Succeeded, Unsaved

\* A thread goes on or ends.
LEMMA RecallGoto ==
    ASSUME TypeInv, RecallInv, Excused, trouble \subseteq trouble', NEW t \in Threads,
           NEW call \in PCs, Goto(t, call),
           \/ call = "get"
           \/ ~Unsaved'
           \/ /\ pc[t] # "get" /\ UNCHANGED <<file, base, date, stored>>
              /\ lastEdit' # NotEdited => lastEdit # NotEdited
              /\ call \in SaveCalls \ {"put"} => Uploaded(t)
           \/ pc[t] # "get" /\ Fetching
    PROVE  RecallInv'
<1>1. /\ pc'[t] = call /\ answer'[t] = Waiting
      /\ \A u \in Threads \ {t} : pc'[u] = pc[u] /\ answer'[u] = answer[u]
  BY DEF Goto, TypeInv, TypeOK
<1>2. ~Known(t)' /\ ~Succeeded(t)'
  BY <1>1 DEF Known, Succeeded, Waiting
<1>3. \A u \in Threads \ {t} : (Known(u)' <=> Known(u)) /\ (Succeeded(u)' <=> Succeeded(u))
  BY <1>1 DEF Known, Succeeded
<1>4. GetFails'
  BY <1>1, <1>2, <1>3 DEF RecallInv, GetFails
<1>5. CASE call = "get"
  <2>1. Fetching'
    BY <1>1, <1>5 DEF Fetching
  <2> QED
    BY <1>4, <2>1 DEF RecallInv
<1>6. CASE ~Unsaved'
  BY <1>4, <1>6 DEF RecallInv, Recalled
<1>7. CASE pc[t] # "get" /\ Fetching
  <2>1. Fetching'
    BY <1>1, <1>7 DEF Fetching
  <2> QED
    BY <1>4, <2>1 DEF RecallInv
<1>8. CASE /\ pc[t] # "get" /\ ~Fetching /\ UNCHANGED <<file, base, date, stored>>
           /\ lastEdit' # NotEdited => lastEdit # NotEdited
           /\ call \in SaveCalls \ {"put"} => Uploaded(t)
  <2>1. Recalled /\ ((\E u \in Threads : Uploaded(u)) => ~Unsaved)
    BY <1>8 DEF RecallInv
  <2>2. Unsaved' => Unsaved
    BY <1>8 DEF Unsaved
  <2>3. \A u \in Threads : Uploaded(u)' => \E w \in Threads : Uploaded(w)
    BY <1>1, <1>2, <1>3, <1>8 DEF Uploaded
  <2>4. Recalled'
    BY <1>8, <2>1, <2>2 DEF Recalled
  <2> QED
    BY <1>4, <2>1, <2>2, <2>3, <2>4 DEF RecallInv
<1> QED
  BY <1>5, <1>6, <1>7, <1>8

LEMMA RecallFinish ==
    ASSUME TypeInv, RecallInv, Excused, trouble \subseteq trouble', NEW t \in Threads, Finish(t),
           \/ ~Unsaved'
           \/ /\ pc[t] # "get" /\ UNCHANGED <<file, base, date, stored>>
              /\ lastEdit' # NotEdited => lastEdit # NotEdited
           \/ pc[t] # "get" /\ Fetching
    PROVE  RecallInv'
<1>1. Goto(t, "idle") /\ "idle" \in PCs /\ "idle" \notin SaveCalls
  BY DEF Finish, PCs
<1> QED
  BY <1>1, RecallGoto

LEMMA RecallDownload ==
    ASSUME TypeInv, RecallInv, Excused, trouble \subseteq trouble', NEW t \in Threads, Download(t),
           pc[t] # "get", UNCHANGED <<edits, base>>
    PROVE  RecallInv'
<1>1. CASE Finish(t) /\ UNCHANGED <<file, date>>
  BY <1>1, RecallFinish
<1>2. CASE Goto(t, "get")
  BY <1>2, RecallGoto DEF PCs
<1> QED
  BY <1>1, <1>2 DEF Download

\* A changed file that is opened again is trouble.
LEMMA NotReopened ==
    ASSUME Noted(Reopening) \/ Reopening \subseteq trouble', Excused'
    PROVE  ~Unsaved
  BY DEF Noted, Reopening, Excused

LEMMA RecallGiveUp ==
    ASSUME TypeInv, RecallInv, Excused, Excused', trouble \subseteq trouble', NEW t \in Threads,
           GiveUp(t), pc[t] # "get", UNCHANGED base
    PROVE  RecallInv'
<1>1. ~Unsaved
  BY NotReopened DEF GiveUp
<1>2. ~Unsaved'
  BY <1>1 DEF GiveUp, EditItems, Unsaved
<1>3. Finish(t)
  BY DEF GiveUp
<1> QED
  BY <1>2, <1>3, RecallFinish

LEMMA RecallConclude ==
    ASSUME TypeInv, RecallInv, Excused, trouble \subseteq trouble', NEW t \in Threads, Conclude(t),
           Uploaded(t), UNCHANGED base
    PROVE  RecallInv'
<1>1. pc[t] # "get" /\ Finish(t)
  BY DEF Uploaded, Conclude
<1>2. CASE Fetching
  BY <1>1, <1>2, RecallFinish
<1>3. CASE ~Fetching
  <2>1. ~Unsaved
    BY <1>3 DEF RecallInv
  <2>2. StopEditingItem => lastEdit' = NotEdited
    BY DEF StopEditingItem
  <2>3. UpdateItemEditTime /\ UNCHANGED file => ~Unsaved'
    BY <2>1 DEF UpdateItemEditTime, Unsaved
  <2>4. ~Unsaved'
    BY <2>2, <2>3 DEF Conclude, Unsaved
  <2> QED
    BY <1>1, <2>4, RecallFinish
<1> QED
  BY <1>2, <1>3

\* The GET brings what the item is then; where it fails, one thread is at work, for an item
\* that is not edited.
LEMMA RecallGet ==
    ASSUME IInv, RecallInv, Excused, Excused', trouble \subseteq trouble', NEW t \in Threads,
           GetAnswered(t)
    PROVE  RecallInv'
<1>1. pc[t] = "get" /\ Known(t) /\ Finish(t) /\ TypeInv
  BY DEF GetAnswered, Answered, Known, IInv
<1>2. CASE Succeeded(t)
  <2>1. ~Unsaved'
    BY <1>2 DEF GetAnswered, Unsaved
  <2> QED
    BY <1>1, <2>1, RecallFinish
<1>3. CASE ~Succeeded(t)
  <2>1. "lost" \in trouble
    BY <1>1, <1>3 DEF RecallInv, GetFails
  <2>2. "race" \notin trouble
    BY <2>1 DEF Excused
  <2>3. lastEdit = NotEdited
    BY <1>1, <2>2 DEF IInv, Whole
  <2>4. EditItems(Succeeded(t))
    BY DEF GetAnswered
  <2>5. lastEdit' = NotEdited
    BY <1>3, <2>3, <2>4 DEF EditItems
  <2> QED
    BY <1>1, <2>5, RecallFinish DEF Unsaved
<1> QED
  BY <1>2, <1>3

LEMMA RecallContinue ==
    ASSUME IInv, RecallInv, Excused, Excused', trouble \subseteq trouble', NEW t \in Threads,
           Continue(t)
    PROVE  RecallInv'
<1>0. TypeInv
  BY DEF IInv
<1>1. ASSUME NEW call \in PCs \ SaveCalls, Goto(t, call), pc[t] # "get",
             UNCHANGED <<file, date, edits, base>>
      PROVE  RecallInv'
  BY <1>0, <1>1, RecallGoto
<1>2. ASSUME NEW call \in SaveCalls, Goto(t, call), Uploaded(t),
             UNCHANGED <<file, date, edits, base>>
      PROVE  RecallInv'
  <2>1. pc[t] # "get" /\ call \in PCs
    BY <1>2 DEF Uploaded, PCs
  <2> QED
    BY <1>0, <1>2, <2>1, RecallGoto
<1>3. CASE LockAnswered(t)
  BY <1>0, <1>1, <1>3, RecallGiveUp DEF LockAnswered, Answered, PCs
<1>4. CASE PropsAnswered(t)
  BY <1>0, <1>1, <1>4, RecallGiveUp, RecallDownload DEF PropsAnswered, Answered, PCs
<1>5. CASE ExistsAnswered(t)
  BY <1>0, <1>1, <1>5, RecallDownload DEF ExistsAnswered, Answered, PCs
<1>6. CASE LockRezAnswered(t)
  BY <1>0, <1>1, <1>6 DEF LockRezAnswered, Answered, PCs
<1>7. CASE PropsRezAnswered(t)
  BY <1>0, <1>1, <1>7, RecallDownload DEF PropsRezAnswered, Answered, PCs
<1>8. CASE RollbackAnswered(t)
  BY <1>0, <1>8, RecallGiveUp DEF RollbackAnswered, Answered
<1>9. CASE GetAnswered(t)
  BY <1>9, RecallGet
<1>10. CASE PutAnswered(t)
  <2>1. Succeeded(t) => Uploaded(t)
    BY <1>10 DEF PutAnswered, Answered, Uploaded
  <2>2. CASE ~Succeeded(t)
    BY <1>0, <1>10, <2>2, RecallFinish DEF PutAnswered, Answered
  <2>3. CASE Succeeded(t)
    BY <1>2, <1>10, <2>1, <2>3 DEF PutAnswered
  <2> QED
    BY <2>2, <2>3
<1>11. CASE UnlockAnswered(t)
  BY <1>2, <1>11 DEF UnlockAnswered, Answered, Uploaded
<1>12. CASE PropsAfterAnswered(t)
  <2>1. Uploaded(t)
    BY <1>12 DEF PropsAfterAnswered, Answered, Uploaded
  <2> QED
    BY <1>0, <1>2, <1>12, <2>1, RecallConclude DEF PropsAfterAnswered
<1>13. CASE PutRezAnswered(t)
  <2>1. Uploaded(t) /\ pc[t] # "get"
    BY <1>13 DEF PutRezAnswered, Answered, Uploaded
  <2> QED
    BY <1>0, <1>2, <1>13, <2>1, RecallConclude, RecallFinish DEF PutRezAnswered
<1>14. CASE UnlockRezAnswered(t)
  <2>1. Uploaded(t)
    BY <1>14 DEF UnlockRezAnswered, Answered, Uploaded
  <2> QED
    BY <1>0, <1>14, <2>1, RecallConclude DEF UnlockRezAnswered
<1>15. ~NullToken(t)
  <2>1. NullToken(t) => ~Idle /\ Restart
    BY DEF NullToken, Answered, Idle
  <2> QED
    BY <2>1 DEF Restart, Noted, Excused
<1> QED
  BY <1>3, <1>4, <1>5, <1>6, <1>7, <1>8, <1>9, <1>10, <1>11, <1>12, <1>13, <1>14, <1>15 DEF Continue

LEMMA RecallCommand ==
    ASSUME TypeInv, RecallInv, Excused, Excused', trouble \subseteq trouble', NEW t \in Threads,
           StartEdit(t) \/ \E over \in BOOLEAN : StartSave(t, over)
    PROVE  RecallInv'
<1>1. CASE StartEdit(t)
  <2>1. pc[t] = "idle" /\ base' = base
    BY <1>1 DEF StartEdit
  <2>2. CASE lastEdit # NotEdited /\ EditItems(TRUE) /\ Noted(Reopening) /\ UNCHANGED <<pc, answer, file>>
    <3>1. ~Unsaved'
      BY <2>1, <2>2, NotReopened DEF Unsaved
    <3>2. GetFails'
      BY <2>2 DEF RecallInv, GetFails, Known, Succeeded
    <3> QED
      BY <3>1, <3>2 DEF RecallInv, Recalled
  <2>3. CASE Download(t) /\ UNCHANGED edits
    BY <2>1, <2>3, RecallDownload
  <2>4. CASE Goto(t, "lock") /\ UNCHANGED <<file, date, edits>>
    BY <2>1, <2>4, RecallGoto DEF PCs
  <2> QED
    BY <1>1, <2>2, <2>3, <2>4 DEF StartEdit
<1>2. ASSUME NEW over \in BOOLEAN, StartSave(t, over) PROVE RecallInv'
  <2>1. pc[t] = "idle" /\ lastEdit # NotEdited /\ UNCHANGED <<file, date, stored, base>>
    BY <1>2 DEF StartSave, FileHasChanged
  <2> QED
    BY <1>2, <2>1, RecallGoto, RecallFinish DEF StartSave, PCs
<1> QED
  BY <1>1, <1>2

LEMMA RecallServe ==
    ASSUME TypeInv, RecallInv, Excused, Excused', trouble \subseteq trouble', NEW t \in Threads,
           Serve(t) \/ CallFails(t)
    PROVE  RecallInv'
<1>1. UNCHANGED <<pc, file, date, edits>> /\ \A u \in Threads \ {t} : answer'[u] = answer[u]
  BY DEF Serve, CallFails, ServeLock, ServeProps, ServeUnlock, ServeGet, ServePut, ServePutRez, Respond,
         TypeInv, TypeOK
<1>2. Fetching' <=> Fetching
  BY <1>1 DEF Fetching
<1>3. GetFails'
  <2>1. CASE pc[t] = "get" /\ Serve(t)
    <3>1. answer' = [answer EXCEPT ![t] = Ok(remote)]
      BY <2>1 DEF Serve, ServeGet, Respond
    <3>2. Succeeded(t)'
      BY <3>1 DEF Succeeded, Ok, TypeInv, TypeOK
    <3> QED
      BY <1>1, <3>2 DEF RecallInv, GetFails, Known, Succeeded
  <2>2. CASE CallFails(t)
    BY <2>2 DEF GetFails, CallFails, Noted
  <2>3. CASE pc[t] # "get"
    BY <1>1, <2>3 DEF RecallInv, GetFails, Known, Succeeded
  <2> QED
    BY <2>1, <2>2, <2>3
<1>4. CASE pc[t] = "put" /\ Serve(t) /\ Succeeded(t)'
  <2>1. ServePut(t)
    BY <1>4 DEF Serve
  <2>2. Respond(t, Failed) => ~Succeeded(t)'
    BY DEF Respond, Failed, Succeeded, TypeInv, TypeOK
  <2>3. base' = file
    BY <1>4, <2>1, <2>2 DEF ServePut
  <2> QED
    BY <1>1, <1>3, <2>3 DEF RecallInv, Recalled, Unsaved
<1>5. CASE ~(pc[t] = "put" /\ Serve(t) /\ Succeeded(t)')
  <2>1. \A u \in Threads : Uploaded(u)' => Uploaded(u)
    <3>1. CallFails(t) => ~Succeeded(t)'
      BY DEF CallFails, Respond, Failed, Succeeded, TypeInv, TypeOK
    <3> QED
      BY <1>1, <1>5, <3>1 DEF Uploaded, Succeeded
  <2>2. base' = base \/ base' = file
    BY DEF Serve, CallFails, ServeLock, ServeProps, ServeUnlock, ServeGet, ServePut, ServePutRez
  <2>3. Unsaved' => Unsaved
    BY <1>1, <2>2 DEF Unsaved
  <2> QED
    BY <1>1, <1>2, <1>3, <2>1, <2>3 DEF RecallInv, Recalled
<1> QED
  BY <1>4, <1>5

LEMMA RecallOthers ==
    ASSUME TypeInv, Dates, ListInv, RecallInv, Excused, Excused', trouble \subseteq trouble',
           \/ RemoveSelectedFiles \/ Restart \/ UserSaves \/ OtherWrites \/ ForkAppears \/ UNCHANGED vars
           \/ \E f \in Forks : OtherLocks(f) \/ LockEnds(f)
    PROVE  RecallInv'
<1>1. CASE Restart
  <2>1. Idle
    BY <1>1 DEF Restart, Noted, Excused
  <2>2. ~Fetching /\ ~Fetching' /\ \A t \in Threads : pc'[t] = "idle" /\ ~Uploaded(t)'
    BY <1>1, <2>1 DEF Restart, Fetching, Idle, Uploaded
  <2>3. Unsaved' => Unsaved
    BY <1>1 DEF Restart, Unsaved, ListInv
  <2>4. Recalled'
    BY <1>1, <2>2, <2>3 DEF Restart, RecallInv, Recalled
  <2> QED
    BY <2>2, <2>4 DEF RecallInv, GetFails
<1>2. CASE ~Restart
  <2>1. UNCHANGED <<pc, answer, base>>
    BY <1>2 DEF RemoveSelectedFiles, UserSaves, OtherWrites, ForkAppears, OtherLocks, LockEnds, vars
  <2>2. /\ Fetching' <=> Fetching
        /\ \A t \in Threads : (Uploaded(t)' <=> Uploaded(t))
        /\ GetFails'
    BY <2>1 DEF Fetching, Uploaded, Succeeded, Known, RecallInv, GetFails
  <2>3. CASE UserSaves
    <3>1. \A t \in Threads : ~Uploaded(t)
      BY <2>3 DEF UserSaves, Noted, Excused, Uploaded
    <3>2. stored' # date'
      BY <2>3 DEF UserSaves, Dates, TypeInv, TypeOK
    <3> QED
      BY <2>2, <3>1, <3>2 DEF RecallInv, Recalled
  <2>4. CASE ~UserSaves
    <3>1. UNCHANGED <<file, date>> /\ (UNCHANGED edits \/ lastEdit' = NotEdited)
      BY <1>2, <2>4 DEF RemoveSelectedFiles, StopEditingItem, OtherWrites, ForkAppears, OtherLocks, LockEnds,
         vars
    <3> QED
      BY <2>1, <2>2, <3>1 DEF RecallInv, Recalled, Unsaved
  <2> QED
    BY <2>3, <2>4
<1> QED
  BY <1>1, <1>2

LEMMA RecallStep ==
    ASSUME IInv, Dates, ListInv, RecallInv, [Next]_vars
    PROVE  RecallInv'
<1> SUFFICES ASSUME Excused' PROVE RecallInv'
  BY DEF RecallInv
<1>1. TypeInv /\ Excused /\ trouble \subseteq trouble'
  BY TroubleGrows DEF IInv, Excused
<1> QED
  BY <1>1, RecallContinue, RecallCommand, RecallServe, RecallOthers DEF Next

\* A change would still be recognised after a restart, for any number of threads: if they
\* cross, or if calls fail.
THEOREM ChangesAreRecalled == Spec => []RestartRemembers
<1> DEFINE Inv == IInv /\ Dates /\ ListInv /\ RecallInv
<1>1. Init => Inv
  <2>1. Init => Dates /\ ListInv
    BY DEF Init, Dates, ListInv
  <2> QED
    BY <2>1, IInvInit, RecallInit
<1>2. Inv /\ [Next]_vars => Inv'
  BY IInvStep, ListStep, RecallStep DEF IInv, ListKept
<1>3. Inv => RestartRemembers
  BY DEF RestartRemembers, RecallInv, Excused, Recalled, ListInv, Fetching, Idle
<1> QED
  BY <1>1, <1>2, <1>3, PTL DEF Spec
=============================================================================
