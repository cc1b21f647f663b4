---------------------- MODULE ClientLocksStore_proofs ----------------------
(***************************************************************************)
(* ClientLocks: between operations the token store, the rows and the        *)
(* server agree.  The proof has to say of every call a thread may wait for  *)
(* what holds in the meantime.                                              *)
(***************************************************************************)
EXTENDS ClientLocks_proofs

USE DEF Forks, Tokens, Empty, NoEntry, NoRow, PCs, LockCalls, UnlockCalls,
        DeleteCalls, Troubles, client, work, server, When

\* Every lock of this client is on record, and nothing else; what is on record for the
\* fork of a resource that is gone may stay behind.
Ours(f) == lock[f] \in mine
DataOnRecord == db["data"] = IF Ours("data") THEN lock["data"] ELSE NoEntry
RezOnRecord ==
    /\ Ours("rez") => db["rez"] = lock["rez"]
    /\ "rez" \in exists /\ db["rez"] # NoEntry => db["rez"] = lock["rez"]
BothOrNone == ForksHandled /\ Forks \subseteq exists => (Ours("data") <=> Ours("rez"))
RowsAgree ==
    \A w \in Windows : rowToken[w] # NoRow =>
        /\ w \in rowLocal <=> db["data"] # NoEntry
        /\ w \in rowLocal => rowToken[w] = db["data"]

\* A thread that asks for the lock, and has not got it, changes nothing.
Asking(t) == pc[t] = "lock" /\ answer[t].status # "ok"
Bystander(t) == pc[t] = "idle" \/ Asking(t)
Settled == \A t \in Threads : Bystander(t)

\* Between the server's answer and the thread's reaction the item's entry lags behind.
InTransit(t) ==
    \/ pc[t] \in {"lock", "props"}
    \/ pc[t] \in {"rollback", "unlock", "delete"} /\ answer[t].status = "ok"

\* What holds of the item while thread t waits for a call.
DataPhase(t) ==
    /\ pc[t] \in {"lock", "props"} =>
          Ours("data") /\ db["data"] = NoEntry /\ copyToken[t] = Empty
    /\ pc[t] = "props" /\ answer[t].status # "none" => answer[t] = Ok(lock["data"])
    /\ pc[t] \in {"exists", "lockRez", "propsRez", "rollback"} =>
          copyToken[t] = db["data"] /\ db["data"] \in mine
    /\ pc[t] \in {"exists", "lockRez", "propsRez"} => Ours("data")
    /\ pc[t] = "rollback" => IF answer[t].status = "none" THEN Ours("data")
                             ELSE answer[t].status = "ok"
    /\ pc[t] \in {"rollback", "unlock"} /\ answer[t].status = "ok" => ~Ours("data")
    /\ pc[t] \in {"propsAfter", "unlockRez", "existsDelete", "deleteRez"} => ~Ours("data")
    /\ pc[t] = "delete" =>
          /\ answer[t].status # "none" => ~Ours("data")
          /\ t \in copyLocal <=> db["data"] # NoEntry
          /\ t \in copyLocal => copyToken[t] = db["data"]
    /\ pc[t] = "list" /\ answer[t].status = "ok" /\ db["data"] # NoEntry =>
          answer[t].token = db["data"]
    /\ pc[t] = "deleteRez" => rezToken[t] \in mine \cup {Empty}
    /\ InTransit(t) \/ DataOnRecord
    /\ pc[t] = "propsAfter" \/ RowsAgree

\* What holds of the resource fork meanwhile.
RezPhase(t) ==
    /\ pc[t] \in {"exists", "lockRez", "propsRez", "rollback", "unlockRez",
                  "existsDelete", "deleteRez"} => ForksHandled
    /\ pc[t] \in {"lock", "props", "exists", "rollback"}
          \/ (pc[t] = "lockRez" /\ answer[t].status # "ok") => (ForksHandled => ~Ours("rez"))
    /\ pc[t] = "propsRez" \/ (pc[t] = "lockRez" /\ answer[t].status = "ok") => Ours("rez")
    /\ pc[t] = "propsRez" /\ answer[t].status # "none" => answer[t] = Ok(lock["rez"])
    /\ pc[t] = "exists" /\ answer[t].status \notin {"none", "ok"} => "rez" \notin exists
    /\ pc[t] = "unlockRez" => rezToken[t] = db["rez"] /\ db["rez"] # NoEntry
    /\ pc[t] = "unlockRez" /\ answer[t].status # "none" => ~Ours("rez")
    /\ \/ pc[t] = "propsRez"
       \/ pc[t] \in {"lockRez", "unlockRez"} /\ answer[t].status = "ok"
       \/ RezOnRecord
    /\ pc[t] \in {"list", "delete", "existsDelete", "deleteRez"}
          \/ (pc[t] = "unlock" /\ answer[t].status # "ok") => BothOrNone

\* At most one thread is more than a bystander, and it is alone unless it locks.
OneActor ==
    \A t, u \in Threads :
        t # u => /\ Bystander(t) \/ Bystander(u)
                 /\ pc[t] # "idle" /\ pc[u] # "idle" => pc[t] \in Locking

Clean == trouble \subseteq {"created"}

DataInv ==
    Clean =>
        /\ OneActor
        /\ \A t \in Threads : pc[t] = "lock" => copyToken[t] = Empty
        /\ Settled => DataOnRecord /\ RowsAgree
        /\ \A t \in Threads : ~Bystander(t) => DataPhase(t)

RezInv ==
    trouble = {} =>
        /\ Settled => RezOnRecord /\ BothOrNone
        /\ \A t \in Threads : ~Bystander(t) => RezPhase(t)

\* Only what exists is locked, and the tokens were issued in order.
ServerInv ==
    /\ \A f \in Forks : lock[f] \in 0..issued /\ (lock[f] # Empty => f \in exists)
    /\ "claimed" \notin trouble => mine \subseteq 1..issued

StoreInv == IInv /\ ServerInv /\ DataInv /\ RezInv /\ ForeignLocksAreSpared
-----------------------------------------------------------------------------
LEMMA StoreInit == Init => StoreInv
<1> SUFFICES ASSUME Init PROVE StoreInv
  OBVIOUS
<1>1. IInv
  BY TypeInit DEF Init, IInv, Alone, Holding, Told, RecordedTokensAreOurs
<1>2. ServerInv /\ ForeignLocksAreSpared
  BY ConstantsAssumption DEF Init, ServerInv, ForeignLocksAreSpared
<1>3. DataOnRecord /\ RowsAgree /\ RezOnRecord /\ BothOrNone
  BY DEF Init, DataOnRecord, RowsAgree, RezOnRecord, BothOrNone, Ours
<1>4. OneActor /\ \A t \in Threads : pc[t] # "lock" /\ Bystander(t)
  BY DEF Init, OneActor, Bystander
<1>5. DataInv /\ RezInv
  BY <1>3, <1>4 DEF DataInv, RezInv
<1> QED
  BY <1>1, <1>2, <1>5 DEF StoreInv

\* While a thread is at work the others look on.
LEMMA OthersLookOn ==
    ASSUME Clean, DataInv, NEW t \in Threads, ~Bystander(t)
    PROVE  \A u \in Threads \ {t} : Bystander(u)
  BY DEF DataInv, OneActor

\* What thread t leaves alone.
Apart(t) ==
    \A u \in Threads \ {t} :
        pc'[u] = pc[u] /\ answer'[u] = answer[u] /\ copyToken'[u] = copyToken[u]

\* What a step of thread t has to establish if the others look on.
DataDone(t) ==
    Clean' => IF Bystander(t)' THEN DataOnRecord' /\ RowsAgree' ELSE DataPhase(t)'
RezDone(t) ==
    trouble' = {} => IF Bystander(t)' THEN RezOnRecord' /\ BothOrNone' ELSE RezPhase(t)'

\* A thread that works on keeps to the locking calls, or was alone, or notes the race.
Orderly(t) ==
    \/ pc'[t] \in Locking \cup {"idle"}
    \/ pc[t] \notin Locking \cup {"idle"}
    \/ Noted(t, pc'[t])

LEMMA ActorStep ==
    ASSUME Clean, DataInv, trouble \subseteq trouble', NEW t \in Threads,
           \A u \in Threads \ {t} : Bystander(u),
           Apart(t), Orderly(t), pc'[t] = "lock" => copyToken'[t] = Empty,
           DataDone(t), RezDone(t)
    PROVE  DataInv' /\ RezInv'
<1>1. \A u \in Threads \ {t} : Bystander(u)'
  BY DEF Apart, Bystander, Asking
<1>2. ASSUME Clean' PROVE DataInv'
  <2>1. OneActor'
    <3>1. ASSUME NEW u \in Threads \ {t}, pc'[t] # "idle", pc'[u] # "idle"
          PROVE  pc'[t] \in Locking /\ pc'[u] \in Locking
      <4>1. pc'[u] = "lock" /\ pc[u] = "lock"
        BY <1>1, <3>1 DEF Bystander, Asking, Apart
      <4>2. pc[t] # "idle" => pc[t] \in Locking
        BY <4>1 DEF DataInv, OneActor
      <4>3. ~(Noted(t, pc'[t]) /\ pc'[t] \notin Locking)
        BY <1>2, <4>1 DEF Noted, Racing, Clean
      <4> QED
        BY <3>1, <4>1, <4>2, <4>3 DEF Orderly, Locking
    <3>2. ASSUME NEW u \in Threads, NEW v \in Threads, u # v
          PROVE  /\ Bystander(u)' \/ Bystander(v)'
                 /\ pc'[u] # "idle" /\ pc'[v] # "idle" => pc'[u] \in Locking
      <4>1. CASE u # t /\ v # t
        BY <1>1, <4>1 DEF Bystander, Asking, Locking
      <4>2. CASE u = t
        BY <1>1, <3>1, <3>2, <4>2
      <4>3. CASE v = t
        BY <1>1, <3>1, <3>2, <4>3
      <4> QED
        BY <4>1, <4>2, <4>3
    <3> QED
      BY <3>2 DEF OneActor
  <2>2. \A u \in Threads : pc'[u] = "lock" => copyToken'[u] = Empty
    BY DEF Apart, DataInv
  <2>3. Settled' => DataOnRecord' /\ RowsAgree'
    BY <1>2 DEF Settled, DataDone
  <2>4. \A u \in Threads : ~Bystander(u)' => DataPhase(u)'
    BY <1>1, <1>2 DEF DataDone
  <2> QED
    BY <2>1, <2>2, <2>3, <2>4 DEF DataInv
<1>3. ASSUME trouble' = {} PROVE RezInv'
  <2>1. Settled' => RezOnRecord' /\ BothOrNone'
    BY <1>3 DEF Settled, RezDone
  <2>2. \A u \in Threads : ~Bystander(u)' => RezPhase(u)'
    BY <1>1, <1>3 DEF RezDone
  <2> QED
    BY <2>1, <2>2 DEF RezInv
<1> QED
  BY <1>2, <1>3 DEF DataInv, RezInv

\* A bystander's step disturbs nobody.
LEMMA BystanderStep ==
    ASSUME Clean, DataInv, RezInv, trouble \subseteq trouble', NEW t \in Threads,
           Bystander(t), Bystander(t)', Apart(t), pc'[t] = pc[t] \/ pc'[t] = "idle" \/ Noted(t, "lock"),
           pc'[t] = "lock" => copyToken'[t] = Empty,
           \A u \in Threads \ {t} : rezToken'[u] = rezToken[u] /\ (u \in copyLocal' <=> u \in copyLocal),
           UNCHANGED <<client, server>>
    PROVE  DataInv' /\ RezInv'
<1>1. \A u \in Threads : Bystander(u)' <=> Bystander(u)
  BY DEF Apart, Bystander, Asking
<1>2. DataOnRecord' = DataOnRecord /\ RowsAgree' = RowsAgree /\ RezOnRecord' = RezOnRecord /\ BothOrNone' = BothOrNone
      /\ \A f \in Forks : Ours(f)' = Ours(f)
  BY DEF DataOnRecord, RowsAgree, RezOnRecord, BothOrNone, Ours
<1>3. \A u \in Threads \ {t} : DataPhase(u) => DataPhase(u)'
  BY <1>2 DEF DataPhase, Apart, InTransit
<1>4. \A u \in Threads \ {t} : RezPhase(u) => RezPhase(u)'
  BY <1>2 DEF RezPhase, Apart
<1>5. ASSUME Clean' PROVE DataInv'
  <2>1. ASSUME NEW u \in Threads \ {t}, pc'[t] # "idle", pc'[u] # "idle"
        PROVE  pc'[t] \in Locking /\ pc'[u] \in Locking
    <3>1. pc'[t] = "lock" /\ pc'[u] = pc[u]
      BY <2>1 DEF Bystander, Asking, Apart
    <3>2. CASE Noted(t, "lock")
      BY <1>5, <2>1, <3>1, <3>2 DEF Noted, Racing, Clean, Locking
    <3>3. CASE pc'[t] = pc[t]
      BY <2>1, <3>1, <3>3 DEF DataInv, OneActor, Locking
    <3> QED
      BY <2>1, <3>2, <3>3
  <2>2. OneActor'
    <3>1. ASSUME NEW u \in Threads, NEW v \in Threads, u # v
          PROVE  /\ Bystander(u)' \/ Bystander(v)'
                 /\ pc'[u] # "idle" /\ pc'[v] # "idle" => pc'[u] \in Locking
      <4>1. CASE u # t /\ v # t
        BY <1>1, <3>1, <4>1 DEF DataInv, OneActor, Apart
      <4>2. CASE u = t
        BY <2>1, <3>1, <4>2
      <4>3. CASE v = t
        BY <2>1, <3>1, <4>3
      <4> QED
        BY <4>1, <4>2, <4>3
    <3> QED
      BY <3>1 DEF OneActor
  <2>3. \A u \in Threads : pc'[u] = "lock" => copyToken'[u] = Empty
    BY DEF Apart, DataInv
  <2>4. Settled' => DataOnRecord' /\ RowsAgree'
    BY <1>1, <1>2 DEF Settled, DataInv
  <2>5. \A u \in Threads : ~Bystander(u)' => DataPhase(u)'
    BY <1>1, <1>3 DEF DataInv
  <2> QED
    BY <2>2, <2>3, <2>4, <2>5 DEF DataInv
<1>6. ASSUME trouble' = {} PROVE RezInv'
  <2>1. trouble = {}
    BY <1>6
  <2>2. Settled' => RezOnRecord' /\ BothOrNone'
    BY <1>1, <1>2, <2>1 DEF Settled, RezInv
  <2>3. \A u \in Threads : ~Bystander(u)' => RezPhase(u)'
    BY <1>1, <1>4, <2>1 DEF RezInv
  <2> QED
    BY <2>2, <2>3 DEF RezInv
<1> QED
  BY <1>5, <1>6 DEF DataInv, RezInv
-----------------------------------------------------------------------------
\* The answers.

LEMMA Goes ==
    ASSUME TypeOK, NEW t \in Threads, NEW call, Goto(t, call)
    PROVE  /\ pc'[t] = call /\ answer'[t].status = "none"
           /\ \A u \in Threads \ {t} : pc'[u] = pc[u] /\ answer'[u] = answer[u]
  BY DEF Goto, TypeOK, Waiting

LEMMA Copies ==
    ASSUME TypeOK, NEW t \in Threads, NEW token, NEW isLocal, SetCopy(t, token, isLocal)
    PROVE  copyToken'[t] = token /\ \A u \in Threads \ {t} : copyToken'[u] = copyToken[u]
  BY DEF SetCopy, TypeOK

LEMMA Ends ==
    ASSUME TypeOK, NEW t \in Threads, Finish(t)
    PROVE  pc'[t] = "idle" /\ Apart(t) /\ Bystander(t)'
  BY Goes, Copies DEF Finish, Apart, Bystander

\* An entry is never empty: what is on record are tokens of this client.
LEMMA Entries ==
    ASSUME StoreInv, Clean
    PROVE  /\ \A f \in Forks : db[f] \in mine \cup {NoEntry}
           /\ Empty \notin mine /\ NoEntry \notin mine /\ mine \subseteq Tokens
           /\ \A f \in Forks : ~Ours(f) \/ lock[f] # NoEntry
  BY ConstantsAssumption DEF StoreInv, IInv, RecordedTokensAreOurs, Clean, TypeOK, Ours

\* What a thread knows when it reacts.
LEMMA Now ==
    ASSUME StoreInv, Clean', trouble \subseteq trouble', NEW t \in Threads
    PROVE  /\ TypeOK /\ Clean /\ DataInv /\ RezInv
           /\ ~Bystander(t) => DataPhase(t) /\ (trouble' = {} => RezPhase(t))
                               /\ \A u \in Threads \ {t} : Bystander(u)
<1>1. TypeOK /\ Clean /\ DataInv /\ RezInv
  BY DEF StoreInv, IInv, Clean
<1>2. trouble' = {} => trouble = {}
  OBVIOUS
<1> QED
  BY <1>1, <1>2, OthersLookOn DEF DataInv, RezInv

LEMMA LockDone ==
    ASSUME StoreInv, Clean', NEW t \in Threads, LockAnswered(t)
    PROVE  DataInv' /\ RezInv'
<1>0. UNCHANGED <<client, server, trouble>> /\ pc[t] = "lock"
  BY DEF LockAnswered, Answered
<1>1. TypeOK /\ Clean /\ DataInv /\ RezInv
  BY <1>0, Now
<1>2. CASE Succeeded(t)
  <2>1. ~Bystander(t) /\ Goto(t, "props") /\ SetCopy(t, copyToken[t], TRUE)
    BY <1>0, <1>2 DEF LockAnswered, Succeeded, Bystander, Asking
  <2>2. DataPhase(t) /\ (trouble' = {} => RezPhase(t)) /\ \A u \in Threads \ {t} : Bystander(u)
    BY <1>0, <2>1, Now
  <2>3. pc'[t] = "props" /\ answer'[t].status = "none" /\ copyToken'[t] = copyToken[t] /\ Apart(t)
    BY <1>1, <2>1, Goes, Copies DEF Apart
  <2>4. DataPhase(t)'
    BY <1>0, <1>2, <2>2, <2>3 DEF DataPhase, InTransit, RowsAgree, Ours, DataOnRecord, Succeeded
  <2>5. trouble' = {} => RezPhase(t)'
    BY <1>0, <1>2, <2>2, <2>3 DEF RezPhase, Ours, RezOnRecord, Succeeded
  <2>6. DataDone(t) /\ RezDone(t) /\ Orderly(t)
    BY <2>3, <2>4, <2>5 DEF DataDone, RezDone, Orderly, Bystander, Asking, Locking
  <2> QED
    BY <1>0, <1>1, <2>2, <2>3, <2>6, ActorStep
<1>3. CASE ~Succeeded(t)
  <2>1. Finish(t)
    BY <1>3 DEF LockAnswered
  <2>2. Bystander(t)
    BY <1>0, <1>3 DEF Succeeded, Bystander, Asking
  <2>3. \A u \in Threads \ {t} : rezToken'[u] = rezToken[u] /\ (u \in copyLocal' <=> u \in copyLocal)
    BY <1>1, <2>1 DEF Finish, SetRez, SetCopy, TypeOK
  <2> QED
    BY <1>0, <1>1, <2>1, <2>2, <2>3, Ends, BystanderStep
<1> QED
  BY <1>2, <1>3

LEMMA PropsDone ==
    ASSUME StoreInv, Clean', NEW t \in Threads, PropsAnswered(t)
    PROVE  DataInv' /\ RezInv'
<1>0. UNCHANGED <<server, trouble>> /\ pc[t] = "props" /\ answer[t].status # "none"
  BY DEF PropsAnswered, Answered
<1>1. /\ TypeOK /\ Clean /\ DataInv /\ RezInv /\ DataPhase(t) /\ (trouble' = {} => RezPhase(t))
      /\ \A u \in Threads \ {t} : Bystander(u)
  BY <1>0, Now DEF Bystander, Asking
<1>2. lock["data"] \in mine /\ lock["data"] # Empty /\ lock["data"] # NoEntry
  BY <1>0, <1>1, Entries DEF DataPhase, Ours
<1>3. Succeeded(t) /\ Filled(t) = lock["data"]
  BY <1>0, <1>1, <1>2 DEF DataPhase, Ok, Succeeded, Filled
<1>4. ItemLocked("data", lock["data"]) /\ Broadcast(lock["data"], TRUE)
  BY <1>3 DEF PropsAnswered
<1>5. db'["data"] = lock["data"] /\ db'["rez"] = db["rez"]
  BY <1>1, <1>4 DEF ItemLocked, TypeOK
<1>6. RowsAgree'
  <2>1. ASSUME NEW w \in Windows, rowToken'[w] # NoRow
        PROVE  w \in rowLocal' /\ rowToken'[w] = lock["data"]
    BY <1>4, <2>1 DEF Broadcast
  <2> QED
    BY <1>2, <1>5, <2>1 DEF RowsAgree
<1>7. DataOnRecord'
  BY <1>0, <1>2, <1>5 DEF DataOnRecord, Ours
<1>8. trouble' = {} => RezOnRecord' /\ (ForksHandled => ~Ours("rez"))
  BY <1>0, <1>1, <1>5 DEF RezPhase, RezOnRecord, Ours
<1>9. CASE ForksHandled
  <2>1. pc'[t] = "exists" /\ answer'[t].status = "none" /\ copyToken'[t] = lock["data"] /\ Apart(t)
    BY <1>1, <1>3, <1>9, Goes, Copies DEF PropsAnswered, Apart
  <2>2. DataPhase(t)'
    BY <1>0, <1>2, <1>5, <1>6, <1>7, <2>1 DEF DataPhase, InTransit, Ours
  <2>3. trouble' = {} => RezPhase(t)'
    BY <1>0, <1>8, <1>9, <2>1 DEF RezPhase, Ours
  <2>4. DataDone(t) /\ RezDone(t) /\ Orderly(t)
    BY <2>1, <2>2, <2>3 DEF DataDone, RezDone, Orderly, Bystander, Asking, Locking
  <2> QED
    BY <1>0, <1>1, <2>1, <2>4, ActorStep
<1>10. CASE ~ForksHandled
  <2>1. pc'[t] = "idle" /\ Apart(t) /\ Bystander(t)'
    BY <1>1, <1>3, <1>10, Ends DEF PropsAnswered
  <2>2. trouble' = {} => BothOrNone'
    BY <1>10 DEF BothOrNone
  <2>3. DataDone(t) /\ RezDone(t) /\ Orderly(t)
    BY <1>6, <1>7, <1>8, <2>1, <2>2 DEF DataDone, RezDone, Orderly
  <2> QED
    BY <1>0, <1>1, <2>1, <2>3, ActorStep
<1> QED
  BY <1>9, <1>10

LEMMA ExistsDone ==
    ASSUME StoreInv, Clean', NEW t \in Threads, ExistsAnswered(t)
    PROVE  DataInv' /\ RezInv'
<1>0. UNCHANGED <<client, server, trouble>> /\ pc[t] = "exists" /\ answer[t].status # "none"
  BY DEF ExistsAnswered, Answered
<1>1. /\ TypeOK /\ Clean /\ DataInv /\ RezInv /\ DataPhase(t) /\ (trouble' = {} => RezPhase(t))
      /\ \A u \in Threads \ {t} : Bystander(u)
  BY <1>0, Now DEF Bystander, Asking
<1>2. CASE Succeeded(t)
  <2>1. pc'[t] = "lockRez" /\ answer'[t].status = "none" /\ copyToken'[t] = copyToken[t] /\ Apart(t)
    BY <1>1, <1>2, Goes DEF ExistsAnswered, Apart
  <2>2. DataPhase(t)'
    BY <1>0, <1>1, <2>1 DEF DataPhase, InTransit, DataOnRecord, RowsAgree, Ours
  <2>3. trouble' = {} => RezPhase(t)'
    BY <1>0, <1>1, <2>1 DEF RezPhase, RezOnRecord, Ours
  <2>4. DataDone(t) /\ RezDone(t) /\ Orderly(t)
    BY <2>1, <2>2, <2>3 DEF DataDone, RezDone, Orderly, Bystander, Asking, Locking
  <2> QED
    BY <1>0, <1>1, <2>1, <2>4, ActorStep
<1>3. CASE ~Succeeded(t)
  <2>1. pc'[t] = "idle" /\ Apart(t) /\ Bystander(t)'
    BY <1>1, <1>3, Ends DEF ExistsAnswered
  <2>2. DataOnRecord' /\ RowsAgree'
    BY <1>0, <1>1 DEF DataPhase, InTransit, DataOnRecord, RowsAgree, Ours
  <2>3. trouble' = {} => RezOnRecord' /\ BothOrNone'
    BY <1>0, <1>1, <1>3 DEF RezPhase, RezOnRecord, BothOrNone, Ours, Succeeded
  <2>4. DataDone(t) /\ RezDone(t) /\ Orderly(t)
    BY <2>1, <2>2, <2>3 DEF DataDone, RezDone, Orderly
  <2> QED
    BY <1>0, <1>1, <2>1, <2>4, ActorStep
<1> QED
  BY <1>2, <1>3

LEMMA LockRezDone ==
    ASSUME StoreInv, Clean', trouble \subseteq trouble', NEW t \in Threads, LockRezAnswered(t)
    PROVE  DataInv' /\ RezInv'
<1>0. UNCHANGED <<client, copyToken, copyLocal, rezToken, server>> /\ pc[t] = "lockRez" /\ answer[t].status # "none"
  BY DEF LockRezAnswered, Answered
<1>1. /\ TypeOK /\ Clean /\ DataInv /\ RezInv /\ DataPhase(t) /\ (trouble' = {} => RezPhase(t))
      /\ \A u \in Threads \ {t} : Bystander(u)
  BY <1>0, Now DEF Bystander, Asking
<1>2. /\ pc'[t] = IF Succeeded(t) THEN "propsRez" ELSE "rollback"
      /\ answer'[t].status = "none" /\ Apart(t) /\ Noted(t, pc'[t])
  BY <1>0, <1>1, Goes DEF LockRezAnswered, Apart
<1>3. DataPhase(t)'
  BY <1>0, <1>1, <1>2 DEF DataPhase, InTransit, DataOnRecord, RowsAgree, Ours
<1>4. trouble' = {} => RezPhase(t)'
  BY <1>0, <1>1, <1>2 DEF RezPhase, RezOnRecord, Ours, Succeeded
<1>5. DataDone(t) /\ RezDone(t) /\ Orderly(t) /\ pc'[t] # "lock"
  BY <1>2, <1>3, <1>4 DEF DataDone, RezDone, Orderly, Bystander, Asking
<1> QED
  BY <1>1, <1>2, <1>5, ActorStep

LEMMA PropsRezDone ==
    ASSUME StoreInv, Clean', trouble \subseteq trouble', NEW t \in Threads, PropsRezAnswered(t)
    PROVE  DataInv' /\ RezInv'
<1>0. UNCHANGED <<rowToken, rowLocal, server>> /\ pc[t] = "propsRez" /\ answer[t].status # "none"
  BY DEF PropsRezAnswered, Answered
<1>1. /\ TypeOK /\ Clean /\ DataInv /\ RezInv /\ DataPhase(t) /\ (trouble' = {} => RezPhase(t))
      /\ \A u \in Threads \ {t} : Bystander(u)
  BY <1>0, Now DEF Bystander, Asking
<1>2. trouble' = {} => Ours("rez") /\ Succeeded(t) /\ answer[t].token = lock["rez"]
  BY <1>0, <1>1 DEF RezPhase, Ok, Succeeded
<1>3. CASE Succeeded(t)
  <2>1. ItemLocked("rez", answer[t].token) /\ Finish(t)
    BY <1>3 DEF PropsRezAnswered
  <2>2. db'["rez"] = answer[t].token /\ db'["data"] = db["data"]
    BY <1>1, <2>1 DEF ItemLocked, TypeOK
  <2>3. pc'[t] = "idle" /\ Apart(t) /\ Bystander(t)'
    BY <1>1, <2>1, Ends
  <2>4. DataOnRecord' /\ RowsAgree'
    BY <1>0, <1>1, <2>2 DEF DataPhase, InTransit, DataOnRecord, RowsAgree, Ours
  <2>5. trouble' = {} => RezOnRecord' /\ BothOrNone'
    BY <1>0, <1>1, <1>2, <2>2 DEF DataPhase, RezOnRecord, BothOrNone, Ours
  <2>6. DataDone(t) /\ RezDone(t) /\ Orderly(t)
    BY <2>3, <2>4, <2>5 DEF DataDone, RezDone, Orderly
  <2> QED
    BY <1>1, <2>3, <2>6, ActorStep
<1>4. CASE ~Succeeded(t)
  <2>1. Goto(t, "rollback") /\ Noted(t, "rollback") /\ UNCHANGED <<db, rezToken, copyToken, copyLocal>>
    BY <1>4 DEF PropsRezAnswered
  <2>2. pc'[t] = "rollback" /\ answer'[t].status = "none" /\ Apart(t)
    BY <1>1, <2>1, Goes DEF Apart
  <2>3. DataPhase(t)'
    BY <1>0, <1>1, <2>1, <2>2 DEF DataPhase, InTransit, DataOnRecord, RowsAgree, Ours
  <2>4. DataDone(t) /\ RezDone(t) /\ Orderly(t)
    BY <1>2, <1>4, <2>1, <2>2, <2>3 DEF DataDone, RezDone, Orderly, Bystander, Asking
  <2> QED
    BY <1>1, <2>2, <2>4, ActorStep
<1> QED
  BY <1>3, <1>4

LEMMA RollbackDone ==
    ASSUME StoreInv, Clean', NEW t \in Threads, RollbackAnswered(t)
    PROVE  DataInv' /\ RezInv'
<1>0. UNCHANGED <<server, trouble>> /\ pc[t] = "rollback" /\ answer[t].status # "none"
  BY DEF RollbackAnswered, Answered
<1>1. /\ TypeOK /\ Clean /\ DataInv /\ RezInv /\ DataPhase(t) /\ (trouble' = {} => RezPhase(t))
      /\ \A u \in Threads \ {t} : Bystander(u)
  BY <1>0, Now DEF Bystander, Asking
<1>2. Succeeded(t) /\ ~Ours("data")
  BY <1>0, <1>1 DEF DataPhase, Succeeded
<1>3. ItemUnlocked("data") /\ Broadcast(Empty, FALSE) /\ Finish(t)
  BY <1>2 DEF RollbackAnswered
<1>4. db'["data"] = NoEntry /\ db'["rez"] = db["rez"]
  BY <1>1, <1>3 DEF ItemUnlocked, TypeOK
<1>5. DataOnRecord' /\ RowsAgree'
  BY <1>0, <1>2, <1>3, <1>4 DEF DataOnRecord, RowsAgree, Ours, Broadcast
<1>6. trouble' = {} => RezOnRecord' /\ BothOrNone'
  BY <1>0, <1>1, <1>2, <1>4 DEF RezPhase, RezOnRecord, BothOrNone, Ours
<1>7. pc'[t] = "idle" /\ Apart(t) /\ Bystander(t)'
  BY <1>1, <1>3, Ends
<1>8. DataDone(t) /\ RezDone(t) /\ Orderly(t)
  BY <1>5, <1>6, <1>7 DEF DataDone, RezDone, Orderly
<1> QED
  BY <1>0, <1>1, <1>7, <1>8, ActorStep

LEMMA UnlockDone ==
    ASSUME StoreInv, Clean', NEW t \in Threads, UnlockAnswered(t)
    PROVE  DataInv' /\ RezInv'
<1>0. UNCHANGED <<rowToken, rowLocal, server, trouble>> /\ pc[t] = "unlock" /\ answer[t].status # "none"
  BY DEF UnlockAnswered, Answered
<1>1. /\ TypeOK /\ Clean /\ DataInv /\ RezInv /\ DataPhase(t) /\ (trouble' = {} => RezPhase(t))
      /\ \A u \in Threads \ {t} : Bystander(u)
  BY <1>0, Now DEF Bystander, Asking
<1>2. CASE Succeeded(t)
  <2>1. ItemUnlocked("data") /\ SetCopy(t, Empty, FALSE) /\ Goto(t, "propsAfter") /\ ~Ours("data")
    BY <1>0, <1>1, <1>2 DEF UnlockAnswered, DataPhase, Succeeded
  <2>2. db'["data"] = NoEntry /\ db'["rez"] = db["rez"]
    BY <1>1, <2>1 DEF ItemUnlocked, TypeOK
  <2>3. pc'[t] = "propsAfter" /\ answer'[t].status = "none" /\ Apart(t)
    BY <1>1, <2>1, Goes, Copies DEF Apart
  <2>4. DataPhase(t)'
    BY <1>0, <2>1, <2>2, <2>3 DEF DataPhase, InTransit, DataOnRecord, Ours
  <2>5. trouble' = {} => RezPhase(t)'
    BY <1>0, <1>1, <2>2, <2>3 DEF RezPhase, RezOnRecord, Ours
  <2>6. DataDone(t) /\ RezDone(t) /\ Orderly(t)
    BY <1>0, <2>3, <2>4, <2>5 DEF DataDone, RezDone, Orderly, Bystander, Asking, Locking
  <2> QED
    BY <1>0, <1>1, <2>3, <2>6, ActorStep
<1>3. CASE ~Succeeded(t)
  <2>1. Finish(t) /\ UNCHANGED db
    BY <1>3 DEF UnlockAnswered
  <2>2. pc'[t] = "idle" /\ Apart(t) /\ Bystander(t)'
    BY <1>1, <2>1, Ends
  <2>3. DataOnRecord' /\ RowsAgree'
    BY <1>0, <1>1, <1>3, <2>1 DEF DataPhase, InTransit, DataOnRecord, RowsAgree, Ours, Succeeded
  <2>4. trouble' = {} => RezOnRecord' /\ BothOrNone'
    BY <1>0, <1>1, <1>3, <2>1 DEF RezPhase, RezOnRecord, BothOrNone, Ours, Succeeded
  <2>5. DataDone(t) /\ RezDone(t) /\ Orderly(t)
    BY <2>2, <2>3, <2>4 DEF DataDone, RezDone, Orderly
  <2> QED
    BY <1>0, <1>1, <2>2, <2>5, ActorStep
<1> QED
  BY <1>2, <1>3

LEMMA PropsAfterDone ==
    ASSUME StoreInv, Clean', NEW t \in Threads, PropsAfterAnswered(t)
    PROVE  DataInv' /\ RezInv'
<1>0. UNCHANGED <<server, trouble>> /\ pc[t] = "propsAfter" /\ answer[t].status # "none"
  BY DEF PropsAfterAnswered, Answered
<1>1. /\ TypeOK /\ Clean /\ DataInv /\ RezInv /\ DataPhase(t) /\ (trouble' = {} => RezPhase(t))
      /\ \A u \in Threads \ {t} : Bystander(u)
  BY <1>0, Now DEF Bystander, Asking
<1>2. ~Ours("data") /\ db["data"] = NoEntry
  BY <1>0, <1>1 DEF DataPhase, InTransit, DataOnRecord
<1>3. db'["data"] = NoEntry /\ db'["rez"] = db["rez"]
  BY <1>1, <1>2 DEF PropsAfterAnswered, AfterDataChange, TypeOK
<1>4. Broadcast(Filled(t), FALSE)
  BY DEF PropsAfterAnswered
<1>5. DataOnRecord' /\ RowsAgree'
  BY <1>0, <1>2, <1>3, <1>4 DEF DataOnRecord, RowsAgree, Ours, Broadcast
<1>6. trouble' = {} => RezOnRecord'
  BY <1>0, <1>1, <1>3 DEF RezPhase, RezOnRecord, Ours
<1>7. CASE ForksHandled /\ db["rez"] # NoEntry
  <2>1. /\ pc'[t] = "unlockRez" /\ answer'[t].status = "none" /\ Apart(t)
        /\ rezToken'[t] = db["rez"]
    BY <1>1, <1>7, Goes, Copies DEF PropsAfterAnswered, Apart, SetRez, TypeOK
  <2>2. DataPhase(t)'
    BY <1>0, <1>2, <1>5, <2>1 DEF DataPhase, Ours
  <2>3. trouble' = {} => RezPhase(t)'
    BY <1>0, <1>3, <1>6, <1>7, <2>1 DEF RezPhase
  <2>4. DataDone(t) /\ RezDone(t) /\ Orderly(t)
    BY <1>0, <2>1, <2>2, <2>3 DEF DataDone, RezDone, Orderly, Bystander, Asking, Locking
  <2> QED
    BY <1>0, <1>1, <2>1, <2>4, ActorStep
<1>8. CASE ~(ForksHandled /\ db["rez"] # NoEntry)
  <2>1. pc'[t] = "idle" /\ Apart(t) /\ Bystander(t)'
    BY <1>1, <1>8, Ends DEF PropsAfterAnswered
  <2>2. ASSUME trouble' = {}, ForksHandled PROVE ~Ours("rez")
    BY <1>0, <1>1, <1>8, <2>2, Entries DEF RezPhase, RezOnRecord
  <2>3. trouble' = {} => BothOrNone'
    BY <1>0, <1>2, <2>2 DEF BothOrNone, Ours
  <2>4. DataDone(t) /\ RezDone(t) /\ Orderly(t)
    BY <1>5, <1>6, <2>1, <2>3 DEF DataDone, RezDone, Orderly
  <2> QED
    BY <1>0, <1>1, <2>1, <2>4, ActorStep
<1> QED
  BY <1>7, <1>8

LEMMA UnlockRezDone ==
    ASSUME StoreInv, Clean', NEW t \in Threads, UnlockRezAnswered(t)
    PROVE  DataInv' /\ RezInv'
<1>0. UNCHANGED <<rowToken, rowLocal, server, trouble>> /\ pc[t] = "unlockRez" /\ answer[t].status # "none"
  BY DEF UnlockRezAnswered, Answered
<1>1. /\ TypeOK /\ Clean /\ DataInv /\ RezInv /\ DataPhase(t) /\ (trouble' = {} => RezPhase(t))
      /\ \A u \in Threads \ {t} : Bystander(u)
  BY <1>0, Now DEF Bystander, Asking
<1>2. db'["data"] = db["data"] /\ db'["rez"] = IF Succeeded(t) THEN NoEntry ELSE db["rez"]
  BY <1>1 DEF UnlockRezAnswered, ItemUnlocked, TypeOK
<1>3. DataOnRecord' /\ RowsAgree'
  BY <1>0, <1>1, <1>2 DEF DataPhase, InTransit, DataOnRecord, RowsAgree, Ours
<1>4. trouble' = {} => RezOnRecord' /\ BothOrNone'
  BY <1>0, <1>1, <1>2 DEF RezPhase, DataPhase, RezOnRecord, BothOrNone, Ours, Succeeded
<1>5. pc'[t] = "idle" /\ Apart(t) /\ Bystander(t)'
  BY <1>1, Ends DEF UnlockRezAnswered
<1>6. DataDone(t) /\ RezDone(t) /\ Orderly(t)
  BY <1>3, <1>4, <1>5 DEF DataDone, RezDone, Orderly
<1> QED
  BY <1>0, <1>1, <1>5, <1>6, ActorStep

LEMMA DeleteDone ==
    ASSUME StoreInv, Clean', NEW t \in Threads, DeleteAnswered(t)
    PROVE  DataInv' /\ RezInv'
<1>0. UNCHANGED <<server, trouble>> /\ pc[t] = "delete" /\ answer[t].status # "none"
  BY DEF DeleteAnswered, Answered
<1>1. /\ TypeOK /\ Clean /\ DataInv /\ RezInv /\ DataPhase(t) /\ (trouble' = {} => RezPhase(t))
      /\ \A u \in Threads \ {t} : Bystander(u)
  BY <1>0, Now DEF Bystander, Asking
<1>2. ~Ours("data") /\ (t \in copyLocal <=> db["data"] # NoEntry)
  BY <1>0, <1>1 DEF DataPhase
<1>3. DataOnRecord' /\ RowsAgree' /\ db'["rez"] = db["rez"]
  <2>1. CASE Succeeded(t)
    <3>1. db'["data"] = NoEntry /\ db'["rez"] = db["rez"]
      BY <1>1, <1>2, <2>1 DEF DeleteAnswered, ItemUnlocked, TypeOK
    <3>2. \A w \in Windows : rowToken'[w] = NoRow
      BY <2>1 DEF DeleteAnswered
    <3> QED
      BY <1>0, <1>2, <3>1, <3>2 DEF DataOnRecord, RowsAgree, Ours
  <2>2. CASE ~Succeeded(t)
    <3>1. UNCHANGED client
      BY <2>2 DEF DeleteAnswered
    <3> QED
      BY <1>0, <1>1, <2>2, <3>1 DEF DataPhase, InTransit, DataOnRecord, RowsAgree, Ours, Succeeded
  <2> QED
    BY <2>1, <2>2
<1>4. trouble' = {} => RezOnRecord' /\ BothOrNone'
  BY <1>0, <1>1, <1>3 DEF RezPhase, RezOnRecord, BothOrNone, Ours
<1>5. CASE ForksHandled
  <2>1. pc'[t] = "existsDelete" /\ answer'[t].status = "none" /\ Apart(t)
    BY <1>1, <1>5, Goes DEF DeleteAnswered, Apart
  <2>2. DataPhase(t)'
    BY <1>0, <1>2, <1>3, <2>1 DEF DataPhase, Ours
  <2>3. trouble' = {} => RezPhase(t)'
    BY <1>0, <1>4, <1>5, <2>1 DEF RezPhase
  <2>4. DataDone(t) /\ RezDone(t) /\ Orderly(t)
    BY <1>0, <2>1, <2>2, <2>3 DEF DataDone, RezDone, Orderly, Bystander, Asking, Locking
  <2> QED
    BY <1>0, <1>1, <2>1, <2>4, ActorStep
<1>6. CASE ~ForksHandled
  <2>1. pc'[t] = "idle" /\ Apart(t) /\ Bystander(t)'
    BY <1>1, <1>6, Ends DEF DeleteAnswered
  <2>2. DataDone(t) /\ RezDone(t) /\ Orderly(t)
    BY <1>3, <1>4, <2>1 DEF DataDone, RezDone, Orderly
  <2> QED
    BY <1>0, <1>1, <2>1, <2>2, ActorStep
<1> QED
  BY <1>5, <1>6

LEMMA ExistsDeleteDone ==
    ASSUME StoreInv, Clean', NEW t \in Threads, ExistsDeleteAnswered(t)
    PROVE  DataInv' /\ RezInv'
<1>0. UNCHANGED <<client, server, trouble>> /\ pc[t] = "existsDelete" /\ answer[t].status # "none"
  BY DEF ExistsDeleteAnswered, Answered
<1>1. /\ TypeOK /\ Clean /\ DataInv /\ RezInv /\ DataPhase(t) /\ (trouble' = {} => RezPhase(t))
      /\ \A u \in Threads \ {t} : Bystander(u)
  BY <1>0, Now DEF Bystander, Asking
<1>2. DataOnRecord' /\ RowsAgree'
  BY <1>0, <1>1 DEF DataPhase, InTransit, DataOnRecord, RowsAgree, Ours
<1>3. trouble' = {} => RezOnRecord' /\ BothOrNone'
  BY <1>0, <1>1 DEF RezPhase, RezOnRecord, BothOrNone, Ours
<1>4. CASE Succeeded(t)
  <2>1. /\ pc'[t] = "deleteRez" /\ answer'[t].status = "none" /\ Apart(t)
        /\ rezToken'[t] = IF db["rez"] = NoEntry THEN Empty ELSE db["rez"]
    BY <1>1, <1>4, Goes DEF ExistsDeleteAnswered, Apart, SetRez, TypeOK
  <2>2. rezToken'[t] \in mine' \cup {Empty}
    BY <1>0, <1>1, <2>1, Entries
  <2>3. DataPhase(t)'
    BY <1>0, <1>1, <1>2, <2>1, <2>2 DEF DataPhase, Ours
  <2>4. trouble' = {} => RezPhase(t)'
    BY <1>0, <1>1, <1>3, <2>1 DEF RezPhase
  <2>5. DataDone(t) /\ RezDone(t) /\ Orderly(t)
    BY <1>0, <2>1, <2>3, <2>4 DEF DataDone, RezDone, Orderly, Bystander, Asking, Locking
  <2> QED
    BY <1>0, <1>1, <2>1, <2>5, ActorStep
<1>5. CASE ~Succeeded(t)
  <2>1. pc'[t] = "idle" /\ Apart(t) /\ Bystander(t)'
    BY <1>1, <1>5, Ends DEF ExistsDeleteAnswered
  <2>2. DataDone(t) /\ RezDone(t) /\ Orderly(t)
    BY <1>2, <1>3, <2>1 DEF DataDone, RezDone, Orderly
  <2> QED
    BY <1>0, <1>1, <2>1, <2>2, ActorStep
<1> QED
  BY <1>4, <1>5

\* The item has no entry any more that the inverted test could remove.
LEMMA DeleteRezDone ==
    ASSUME StoreInv, Clean', NEW t \in Threads, DeleteRezAnswered(t)
    PROVE  DataInv' /\ RezInv'
<1>0. UNCHANGED <<rowToken, rowLocal, server, trouble>> /\ pc[t] = "deleteRez" /\ answer[t].status # "none"
  BY DEF DeleteRezAnswered, Answered
<1>1. /\ TypeOK /\ Clean /\ DataInv /\ RezInv /\ DataPhase(t) /\ (trouble' = {} => RezPhase(t))
      /\ \A u \in Threads \ {t} : Bystander(u)
  BY <1>0, Now DEF Bystander, Asking
<1>2. ~Ours("data") /\ db["data"] = NoEntry
  BY <1>0, <1>1 DEF DataPhase, InTransit, DataOnRecord
<1>3. db'["data"] = db["data"] /\ db'["rez"] = db["rez"]
  BY <1>1, <1>2 DEF DeleteRezAnswered, ItemUnlocked, TypeOK
<1>4. DataOnRecord' /\ RowsAgree'
  BY <1>0, <1>1, <1>3 DEF DataPhase, InTransit, DataOnRecord, RowsAgree, Ours
<1>5. trouble' = {} => RezOnRecord' /\ BothOrNone'
  BY <1>0, <1>1, <1>3 DEF RezPhase, RezOnRecord, BothOrNone, Ours
<1>6. pc'[t] = "idle" /\ Apart(t) /\ Bystander(t)'
  BY <1>1, Ends DEF DeleteRezAnswered
<1>7. DataDone(t) /\ RezDone(t) /\ Orderly(t)
  BY <1>4, <1>5, <1>6 DEF DataDone, RezDone, Orderly
<1> QED
  BY <1>0, <1>1, <1>6, <1>7, ActorStep

LEMMA ListDone ==
    ASSUME StoreInv, Clean', NEW t \in Threads, ListAnswered(t)
    PROVE  DataInv' /\ RezInv'
<1>0. UNCHANGED <<db, server, trouble>> /\ pc[t] = "list" /\ answer[t].status # "none"
  BY DEF ListAnswered, Answered
<1>1. /\ TypeOK /\ Clean /\ DataInv /\ RezInv /\ DataPhase(t) /\ (trouble' = {} => RezPhase(t))
      /\ \A u \in Threads \ {t} : Bystander(u)
  BY <1>0, Now DEF Bystander, Asking
<1>2. RowsAgree'
  <2>1. RowsAgree
    BY <1>0, <1>1 DEF DataPhase
  <2>2. CASE Succeeded(t)
    <3>1. db["data"] # NoEntry => answer[t].token = db["data"]
      BY <1>0, <1>1, <2>2 DEF DataPhase, Succeeded
    <3>2. ASSUME NEW w \in Windows, rowToken'[w] # NoRow
          PROVE  /\ w \in rowLocal' <=> db["data"] # NoEntry
                 /\ w \in rowLocal' => rowToken'[w] = db["data"]
      <4>1. CASE w = home[t]
        BY <1>1, <2>2, <3>1, <4>1 DEF ListAnswered, TypeOK
      <4>2. CASE w # home[t]
        <5>1. rowToken'[w] = rowToken[w] /\ (w \in rowLocal' <=> w \in rowLocal)
          BY <1>1, <2>2, <4>2 DEF ListAnswered, TypeOK
        <5> QED
          BY <2>1, <3>2, <5>1 DEF RowsAgree
      <4> QED
        BY <4>1, <4>2
    <3> QED
      BY <1>0, <3>2 DEF RowsAgree
  <2>3. CASE ~Succeeded(t)
    BY <1>0, <2>1, <2>3 DEF ListAnswered, RowsAgree
  <2> QED
    BY <2>2, <2>3
<1>3. DataOnRecord'
  BY <1>0, <1>1 DEF DataPhase, InTransit, DataOnRecord, Ours
<1>4. trouble' = {} => RezOnRecord' /\ BothOrNone'
  BY <1>0, <1>1 DEF RezPhase, RezOnRecord, BothOrNone, Ours
<1>5. pc'[t] = "idle" /\ Apart(t) /\ Bystander(t)'
  BY <1>1, Ends DEF ListAnswered
<1>6. DataDone(t) /\ RezDone(t) /\ Orderly(t)
  BY <1>2, <1>3, <1>4, <1>5 DEF DataDone, RezDone, Orderly
<1> QED
  BY <1>0, <1>1, <1>5, <1>6, ActorStep

\* Whatever a thread does with an answer, store, rows and server agree at its end.
LEMMA ContinueDone ==
    ASSUME StoreInv, Clean', trouble \subseteq trouble', NEW t \in Threads, Continue(t)
    PROVE  DataInv' /\ RezInv'
  BY LockDone, PropsDone, ExistsDone, LockRezDone, PropsRezDone, RollbackDone, UnlockDone,
     PropsAfterDone, UnlockRezDone, DeleteDone, ExistsDeleteDone, DeleteRezDone, ListDone
  DEF Continue
-----------------------------------------------------------------------------
\* The commands.

LEMMA StartsAlone ==
    ASSUME StoreInv, Clean', trouble \subseteq trouble', NEW t \in Threads, NEW call,
           pc[t] = "idle", Noted(t, call), call \notin Locking
    PROVE  /\ \A u \in Threads \ {t} : Bystander(u)
           /\ DataOnRecord /\ RowsAgree
           /\ trouble' = {} => RezOnRecord /\ BothOrNone
<1>1. \A u \in Threads : pc[u] = "idle"
  BY DEF Noted, Racing, Clean
<1>2. Settled
  BY <1>1 DEF Settled, Bystander
<1>3. DataInv /\ RezInv /\ Clean /\ (trouble' = {} => trouble = {})
  BY DEF StoreInv, Clean
<1> QED
  BY <1>1, <1>2, <1>3 DEF DataInv, RezInv, Bystander

LEMMA CommandDone ==
    ASSUME StoreInv, Clean', trouble \subseteq trouble', NEW t \in Threads, NEW w \in Windows,
           Command(t, w)
    PROVE  DataInv' /\ RezInv'
<1>1. TypeOK /\ Clean /\ DataInv /\ RezInv
  BY Now
<1>2. CASE StartLock(t, w)
  <2>1. /\ pc[t] = "idle" /\ Noted(t, "lock") /\ UNCHANGED <<client, rezToken, server>>
        /\ Goto(t, "lock") /\ SetCopy(t, Empty, w \in rowLocal)
    BY <1>2 DEF StartLock, Start
  <2>2. pc'[t] = "lock" /\ answer'[t].status = "none" /\ copyToken'[t] = Empty /\ Apart(t)
    BY <1>1, <2>1, Goes, Copies DEF Apart
  <2>3. \A u \in Threads \ {t} : u \in copyLocal' <=> u \in copyLocal
    BY <2>1 DEF SetCopy
  <2> QED
    BY <1>1, <2>1, <2>2, <2>3, BystanderStep DEF Bystander, Asking
<1>3. CASE StartUnlock(t, w)
  <2>1. /\ pc[t] = "idle" /\ Noted(t, "unlock") /\ UNCHANGED <<client, rezToken, server>>
        /\ Goto(t, "unlock") /\ SetCopy(t, rowToken[w], w \in rowLocal)
    BY <1>3 DEF StartUnlock, Start
  <2>2. /\ \A u \in Threads \ {t} : Bystander(u)
        /\ DataOnRecord /\ RowsAgree /\ (trouble' = {} => RezOnRecord /\ BothOrNone)
    BY <2>1, StartsAlone DEF Locking
  <2>3. pc'[t] = "unlock" /\ answer'[t].status = "none" /\ Apart(t)
    BY <1>1, <2>1, Goes, Copies DEF Apart
  <2>4. DataPhase(t)'
    BY <2>1, <2>2, <2>3 DEF DataPhase, DataOnRecord, RowsAgree, Ours
  <2>5. trouble' = {} => RezPhase(t)'
    BY <2>1, <2>2, <2>3 DEF RezPhase, RezOnRecord, BothOrNone, Ours
  <2>6. DataDone(t) /\ RezDone(t) /\ Orderly(t)
    BY <2>1, <2>3, <2>4, <2>5 DEF DataDone, RezDone, Orderly, Bystander, Asking
  <2> QED
    BY <1>1, <2>2, <2>3, <2>6, ActorStep
<1>4. CASE StartDelete(t, w)
  <2>1. /\ pc[t] = "idle" /\ Noted(t, "delete") /\ UNCHANGED <<client, rezToken, server>>
        /\ Goto(t, "delete") /\ SetCopy(t, rowToken[w], w \in rowLocal) /\ rowToken[w] # NoRow
    BY <1>4 DEF StartDelete, Start
  <2>2. /\ \A u \in Threads \ {t} : Bystander(u)
        /\ DataOnRecord /\ RowsAgree /\ (trouble' = {} => RezOnRecord /\ BothOrNone)
    BY <2>1, StartsAlone DEF Locking
  <2>3. pc'[t] = "delete" /\ answer'[t].status = "none" /\ Apart(t) /\ copyToken'[t] = rowToken[w]
    BY <1>1, <2>1, Goes, Copies DEF Apart
  <2>4. /\ t \in copyLocal' <=> db["data"] # NoEntry
        /\ t \in copyLocal' => copyToken'[t] = db["data"]
    BY <2>1, <2>2, <2>3 DEF SetCopy, RowsAgree
  <2>5. DataPhase(t)'
    BY <2>1, <2>2, <2>3, <2>4 DEF DataPhase, DataOnRecord, RowsAgree, Ours
  <2>6. trouble' = {} => RezPhase(t)'
    BY <2>1, <2>2, <2>3 DEF RezPhase, RezOnRecord, BothOrNone, Ours
  <2>7. DataDone(t) /\ RezDone(t) /\ Orderly(t)
    BY <2>1, <2>3, <2>5, <2>6 DEF DataDone, RezDone, Orderly, Bystander, Asking
  <2> QED
    BY <1>1, <2>2, <2>3, <2>7, ActorStep
<1>5. CASE StartList(t, w)
  <2>1. /\ pc[t] = "idle" /\ Noted(t, "list") /\ UNCHANGED <<db, copyToken, rezToken, server>>
        /\ Goto(t, "list")
    BY <1>5 DEF StartList
  <2>2. /\ \A u \in Threads \ {t} : Bystander(u)
        /\ DataOnRecord /\ RowsAgree /\ (trouble' = {} => RezOnRecord /\ BothOrNone)
    BY <2>1, StartsAlone DEF Locking
  <2>3. pc'[t] = "list" /\ answer'[t].status = "none" /\ Apart(t)
    BY <1>1, <2>1, Goes DEF Apart
  <2>4. RowsAgree'
    BY <1>1, <1>5, <2>1, <2>2 DEF StartList, RowsAgree, TypeOK
  <2>5. DataPhase(t)'
    BY <2>1, <2>2, <2>3, <2>4 DEF DataPhase, DataOnRecord, Ours
  <2>6. trouble' = {} => RezPhase(t)'
    BY <2>1, <2>2, <2>3 DEF RezPhase, RezOnRecord, BothOrNone, Ours
  <2>7. DataDone(t) /\ RezDone(t) /\ Orderly(t)
    BY <2>1, <2>3, <2>5, <2>6 DEF DataDone, RezDone, Orderly, Bystander, Asking
  <2> QED
    BY <1>1, <2>2, <2>3, <2>7, ActorStep
<1> QED
  BY <1>2, <1>3, <1>4, <1>5 DEF Command
-----------------------------------------------------------------------------
\* The server and its other clients.

\* What others do with what is not this client's lock concerns no thread.
LEMMA OthersDone ==
    ASSUME StoreInv, Clean', trouble \subseteq trouble', UNCHANGED <<client, work, answer, mine>>,
           \A f \in Forks : (Ours(f)' <=> Ours(f)) /\ (Ours(f) => lock'[f] = lock[f]),
           trouble' = {} => UNCHANGED exists
    PROVE  DataInv' /\ RezInv'
<1>1. Clean /\ DataInv /\ RezInv /\ \A f \in Forks : db[f] \in mine \cup {NoEntry}
  BY Entries DEF StoreInv, Clean
<1>2. (DataOnRecord => DataOnRecord') /\ (RowsAgree => RowsAgree')
  BY DEF DataOnRecord, RowsAgree
<1>3. trouble' = {} => (RezOnRecord => RezOnRecord') /\ (BothOrNone => BothOrNone')
  BY <1>1 DEF RezOnRecord, BothOrNone, Ours
<1>4. \A t \in Threads : Bystander(t)' <=> Bystander(t)
  BY DEF Bystander, Asking
<1>5. \A t \in Threads : DataPhase(t) => DataPhase(t)'
  <2>1. ASSUME NEW t \in Threads, DataPhase(t) PROVE DataPhase(t)'
    <3>1. pc[t] = "props" => lock'["data"] = lock["data"]
      BY <2>1 DEF DataPhase
    <3> QED
      BY <1>2, <2>1, <3>1 DEF DataPhase, InTransit, Ok
  <2> QED
    BY <2>1
<1>6. trouble' = {} => \A t \in Threads : RezPhase(t) => RezPhase(t)'
  <2>1. ASSUME trouble' = {}, NEW t \in Threads, RezPhase(t) PROVE RezPhase(t)'
    <3>1. pc[t] = "propsRez" => lock'["rez"] = lock["rez"]
      BY <2>1 DEF RezPhase
    <3> QED
      BY <1>3, <2>1, <3>1 DEF RezPhase, Ok
  <2> QED
    BY <2>1
<1>7. OneActor'
  BY <1>1, <1>4 DEF DataInv, OneActor
<1>8. DataInv'
  BY <1>1, <1>2, <1>4, <1>5, <1>7 DEF DataInv, Settled
<1>9. RezInv'
  BY <1>1, <1>3, <1>4, <1>6 DEF RezInv, Settled
<1> QED
  BY <1>8, <1>9

LEMMA EnvironmentDone ==
    ASSUME StoreInv, Clean', trouble \subseteq trouble', NEW f \in Forks,
           OtherLocks(f) \/ LockEnds(f) \/ Appears(f)
    PROVE  DataInv' /\ RezInv'
<1>1. TypeOK /\ ServerInv /\ Empty \notin mine
  BY Entries DEF StoreInv, IInv, Clean
<1>2. UNCHANGED <<client, work, answer, mine>>
  BY DEF OtherLocks, LockEnds, Appears
<1>3. CASE OtherLocks(f)
  <2>1. issued + 1 \notin mine
    <3>1. "claimed" \notin trouble
      BY DEF Clean
    <3> QED
      BY <1>1, <3>1 DEF ServerInv, TypeOK
  <2>2. \A g \in Forks : (Ours(g)' <=> Ours(g)) /\ (Ours(g) => lock'[g] = lock[g])
    BY <1>1, <1>2, <1>3, <2>1 DEF OtherLocks, Ours, TypeOK
  <2>3. UNCHANGED exists
    BY <1>3 DEF OtherLocks
  <2> QED
    BY <1>2, <2>2, <2>3, OthersDone
<1>4. CASE LockEnds(f)
  <2>1. lock[f] \notin mine
    BY <1>4 DEF LockEnds, Clean
  <2>2. \A g \in Forks : (Ours(g)' <=> Ours(g)) /\ (Ours(g) => lock'[g] = lock[g])
    BY <1>1, <1>2, <1>4, <2>1 DEF LockEnds, Ours, TypeOK
  <2>3. UNCHANGED exists
    BY <1>4 DEF LockEnds
  <2> QED
    BY <1>2, <2>2, <2>3, OthersDone
<1>5. CASE Appears(f)
  <2>1. \A g \in Forks : (Ours(g)' <=> Ours(g)) /\ (Ours(g) => lock'[g] = lock[g])
    BY <1>2, <1>5 DEF Appears, Ours
  <2>2. trouble' # {}
    BY <1>5 DEF Appears
  <2> QED
    BY <1>2, <2>1, <2>2, OthersDone
<1> QED
  BY <1>3, <1>4, <1>5
-----------------------------------------------------------------------------
\* The server's answers.

LEMMA Responds ==
    ASSUME TypeOK, NEW t \in Threads, NEW a, Respond(t, a), UNCHANGED work
    PROVE  answer'[t] = a /\ pc'[t] = pc[t] /\ Apart(t)
  BY DEF Respond, TypeOK, Apart

\* A lock that is granted was free: no other thread has it or is getting it.
LEMMA GrantIsAlone ==
    ASSUME StoreInv, Clean, NEW t \in Threads, pc[t] = "lock", answer[t].status = "none",
           lock["data"] = Empty
    PROVE  /\ \A u \in Threads : Bystander(u)
           /\ DataOnRecord /\ RowsAgree /\ copyToken[t] = Empty
           /\ trouble = {} => RezOnRecord /\ BothOrNone
<1>1. DataInv /\ RezInv
  BY DEF StoreInv
<1>2. ~Ours("data")
  BY Entries DEF Ours
<1>3. ASSUME NEW u \in Threads \ {t} PROVE Bystander(u)
  <2>1. SUFFICES ASSUME ~Bystander(u) PROVE FALSE
    OBVIOUS
  <2>2. DataPhase(u) /\ pc[u] \in Locking
    BY <1>1, <2>1 DEF DataInv, OneActor, Bystander
  <2>3. Ours("data")
    BY <2>2 DEF DataPhase, Locking
  <2> QED
    BY <1>2, <2>3
<1>4. \A u \in Threads : Bystander(u)
  BY <1>3 DEF Bystander, Asking
<1> QED
  BY <1>1, <1>4 DEF DataInv, RezInv, Settled

\* A new lock of this client leaves what it holds besides alone.
LEMMA NewLock ==
    ASSUME StoreInv, NEW f \in Forks, NEW t \in Threads, ServeLock(t, f),
           f \in exists, lock[f] = Empty
    PROVE  /\ lock'[f] = issued + 1 /\ Ours(f)' /\ mine \subseteq mine' /\ UNCHANGED exists
           /\ \A g \in Forks \ {f} : lock'[g] = lock[g] /\ (Ours(g)' <=> Ours(g))
<1>1. TypeOK /\ ServerInv
  BY DEF StoreInv, IInv
<1>2. lock' = [lock EXCEPT ![f] = issued + 1] /\ mine' = mine \cup {issued + 1} /\ UNCHANGED exists
  BY DEF ServeLock
<1>3. \A g \in Forks : lock[g] # issued + 1
  BY <1>1 DEF ServerInv, TypeOK
<1> QED
  BY <1>1, <1>2, <1>3 DEF Ours, TypeOK

LEMMA LockServed ==
    ASSUME StoreInv, Clean', trouble \subseteq trouble', NEW t \in Threads, Serve(t), pc[t] = "lock"
    PROVE  DataInv' /\ RezInv'
<1>1. TypeOK /\ Clean /\ DataInv /\ RezInv /\ ServerInv
  BY Now DEF StoreInv
<1>2. ServeLock(t, "data") /\ answer[t].status = "none" /\ UNCHANGED <<client, work>>
  BY DEF Serve
<1>3. CASE "data" \in exists /\ lock["data"] = Empty
  <2>1. /\ \A u \in Threads : Bystander(u)
        /\ DataOnRecord /\ RowsAgree /\ copyToken[t] = Empty
        /\ trouble = {} => RezOnRecord /\ BothOrNone
    BY <1>1, <1>2, <1>3, GrantIsAlone
  <2>2. /\ Ours("data")' /\ UNCHANGED exists /\ trouble' = trouble
        /\ lock'["rez"] = lock["rez"] /\ (Ours("rez")' <=> Ours("rez"))
    BY <1>2, <1>3, NewLock DEF ServeLock
  <2>3. answer'[t] = Ok(Empty) /\ pc'[t] = "lock" /\ Apart(t)
    BY <1>1, <1>2, <1>3, Responds DEF ServeLock
  <2>4. answer'[t].status = "ok" /\ ~Bystander(t)'
    BY <2>3 DEF Ok, Bystander, Asking
  <2>5. ~Ours("data") /\ db["data"] = NoEntry
    BY <1>1, <1>3, <2>1, Entries DEF Ours, DataOnRecord
  <2>6. RowsAgree'
    BY <1>2, <2>1 DEF RowsAgree
  <2>7. DataPhase(t)'
    BY <1>2, <2>1, <2>2, <2>3, <2>5, <2>6 DEF DataPhase, InTransit
  <2>8. trouble' = {} => RezOnRecord' /\ (ForksHandled => ~Ours("rez"))
    <3>1. ASSUME trouble' = {}, ForksHandled PROVE ~Ours("rez")
      <4>1. CASE "rez" \in exists
        BY <1>3, <2>1, <2>2, <2>5, <3>1, <4>1 DEF BothOrNone
      <4>2. CASE "rez" \notin exists
        BY <1>1, <4>2, Entries DEF ServerInv, Ours
      <4> QED
        BY <4>1, <4>2
    <3> QED
      BY <1>2, <2>1, <2>2, <3>1 DEF RezOnRecord
  <2>9. trouble' = {} => RezPhase(t)'
    BY <2>2, <2>3, <2>8 DEF RezPhase
  <2>10. DataDone(t) /\ RezDone(t) /\ Orderly(t)
    BY <2>3, <2>4, <2>7, <2>9 DEF DataDone, RezDone, Orderly, Locking
  <2> QED
    BY <1>1, <1>2, <2>1, <2>3, <2>10, ActorStep
<1>4. CASE ~("data" \in exists /\ lock["data"] = Empty)
  <2>1. Respond(t, Failed) /\ UNCHANGED server
    BY <1>2, <1>4 DEF ServeLock
  <2>2. answer'[t] = Failed /\ pc'[t] = "lock" /\ Apart(t)
    BY <1>1, <1>2, <2>1, Responds
  <2>3. Bystander(t) /\ Bystander(t)' /\ copyToken'[t] = Empty
    BY <1>1, <1>2, <2>2 DEF Bystander, Asking, Failed, DataInv
  <2> QED
    BY <1>1, <1>2, <2>1, <2>2, <2>3, BystanderStep
<1> QED
  BY <1>3, <1>4

LEMMA LockRezServed ==
    ASSUME StoreInv, Clean', trouble \subseteq trouble', NEW t \in Threads, Serve(t), pc[t] = "lockRez"
    PROVE  DataInv' /\ RezInv'
<1>1. /\ TypeOK /\ Clean /\ DataInv /\ RezInv /\ DataPhase(t) /\ (trouble' = {} => RezPhase(t))
      /\ \A u \in Threads \ {t} : Bystander(u)
  BY Now DEF Bystander, Asking
<1>2. ServeLock(t, "rez") /\ answer[t].status = "none" /\ UNCHANGED <<client, work>>
  BY DEF Serve
<1>3. PICK a : answer'[t] = a /\ pc'[t] = "lockRez" /\ Apart(t) /\ a \in {Ok(Empty), Failed}
                /\ (a = Ok(Empty) <=> "rez" \in exists /\ lock["rez"] = Empty)
  <2>1. CASE "rez" \in exists /\ lock["rez"] = Empty
    BY <1>1, <1>2, <2>1, Responds DEF ServeLock
  <2>2. CASE ~("rez" \in exists /\ lock["rez"] = Empty)
    BY <1>1, <1>2, <2>2, Responds DEF ServeLock, Ok, Failed
  <2> QED
    BY <2>1, <2>2
<1>4. CASE a = Ok(Empty)
  <2>1. /\ Ours("rez")' /\ UNCHANGED exists /\ mine \subseteq mine'
        /\ lock'["data"] = lock["data"] /\ (Ours("data")' <=> Ours("data"))
    BY <1>2, <1>3, <1>4, NewLock
  <2>2. answer'[t].status = "ok"
    BY <1>3, <1>4 DEF Ok
  <2>3. DataPhase(t)'
    BY <1>1, <1>2, <1>3, <2>1, <2>2 DEF DataPhase, InTransit, DataOnRecord, RowsAgree
  <2>4. trouble' = {} => RezPhase(t)'
    BY <1>1, <1>2, <1>3, <2>1, <2>2 DEF RezPhase
  <2>5. DataDone(t) /\ RezDone(t) /\ Orderly(t)
    BY <1>3, <2>3, <2>4 DEF DataDone, RezDone, Orderly, Bystander, Asking, Locking
  <2> QED
    BY <1>1, <1>3, <2>5, ActorStep
<1>5. CASE a # Ok(Empty)
  <2>1. UNCHANGED server
    BY <1>2, <1>3, <1>5 DEF ServeLock
  <2>2. answer'[t].status = "failed"
    BY <1>3, <1>5 DEF Failed
  <2>3. DataPhase(t)'
    BY <1>1, <1>2, <1>3, <2>1, <2>2 DEF DataPhase, InTransit, DataOnRecord, RowsAgree, Ours
  <2>4. trouble' = {} => RezPhase(t)'
    BY <1>1, <1>2, <1>3, <2>1, <2>2 DEF RezPhase, RezOnRecord, Ours
  <2>5. DataDone(t) /\ RezDone(t) /\ Orderly(t)
    BY <1>3, <2>3, <2>4 DEF DataDone, RezDone, Orderly, Bystander, Asking, Locking
  <2> QED
    BY <1>1, <1>3, <2>5, ActorStep
<1> QED
  BY <1>4, <1>5

LEMMA PropsServed ==
    ASSUME StoreInv, Clean', trouble \subseteq trouble', NEW t \in Threads, Serve(t),
           pc[t] \in {"props", "propsAfter", "list", "exists", "existsDelete", "propsRez"}
    PROVE  DataInv' /\ RezInv'
<1>1. /\ TypeOK /\ Clean /\ DataInv /\ RezInv /\ ServerInv /\ DataPhase(t) /\ (trouble' = {} => RezPhase(t))
      /\ \A u \in Threads \ {t} : Bystander(u)
  BY Now DEF Bystander, Asking, StoreInv
<1>2. PICK f \in Forks : ServeProps(t, f) /\ (f = "data" <=> pc[t] \in {"props", "propsAfter", "list"})
  BY DEF Serve
<1>3. answer[t].status = "none" /\ UNCHANGED <<client, work, server, trouble>>
  BY <1>2 DEF Serve, ServeProps
<1>4. /\ answer'[t] = IF f \in exists THEN Ok(lock[f]) ELSE [status |-> "absent", token |-> Empty]
      /\ pc'[t] = pc[t] /\ Apart(t)
  BY <1>1, <1>2, <1>3, Responds DEF ServeProps
<1>5. /\ f \in exists => answer'[t] = Ok(lock[f]) /\ answer'[t].status = "ok" /\ answer'[t].token = lock[f]
      /\ f \notin exists => answer'[t].status = "absent"
  BY <1>4 DEF Ok
<1>6. \A g \in Forks : Ours(g) => g \in exists
  BY <1>1, Entries DEF ServerInv, Ours
<1>7. DataPhase(t)'
  <2>1. CASE pc[t] = "props"
    BY <1>1, <1>2, <1>3, <1>4, <1>5, <1>6, <2>1 DEF DataPhase, InTransit, RowsAgree, Ours
  <2>2. CASE pc[t] = "list"
    <3>1. answer'[t].status = "ok" /\ db["data"] # NoEntry => answer'[t].token = db["data"]
      BY <1>1, <1>2, <1>3, <1>5, <2>2 DEF DataPhase, InTransit, DataOnRecord
    <3> QED
      BY <1>1, <1>3, <1>4, <2>2, <3>1 DEF DataPhase, InTransit, DataOnRecord, RowsAgree, Ours
  <2>3. CASE pc[t] \notin {"props", "list"}
    BY <1>1, <1>3, <1>4, <2>3 DEF DataPhase, InTransit, DataOnRecord, RowsAgree, Ours
  <2> QED
    BY <2>1, <2>2, <2>3
<1>8. trouble' = {} => RezPhase(t)'
  <2>1. CASE pc[t] = "propsRez"
    BY <1>1, <1>2, <1>3, <1>4, <1>5, <1>6, <2>1 DEF RezPhase, Ours
  <2>2. CASE pc[t] = "exists"
    BY <1>1, <1>2, <1>3, <1>4, <1>5, <2>2 DEF RezPhase, RezOnRecord, Ours
  <2>3. CASE pc[t] \notin {"propsRez", "exists"}
    BY <1>1, <1>3, <1>4, <2>3 DEF RezPhase, RezOnRecord, BothOrNone, Ours
  <2> QED
    BY <2>1, <2>2, <2>3
<1>9. DataDone(t) /\ RezDone(t) /\ Orderly(t) /\ pc'[t] # "lock"
  BY <1>4, <1>7, <1>8 DEF DataDone, RezDone, Orderly, Bystander, Asking, Locking
<1> QED
  BY <1>1, <1>3, <1>4, <1>9, ActorStep

LEMMA UnlockServed ==
    ASSUME StoreInv, Clean', trouble \subseteq trouble', NEW t \in Threads, Serve(t),
           pc[t] \in {"unlock", "rollback"}
    PROVE  DataInv' /\ RezInv'
<1>1. /\ TypeOK /\ Clean /\ DataInv /\ RezInv /\ DataPhase(t) /\ (trouble' = {} => RezPhase(t))
      /\ \A u \in Threads \ {t} : Bystander(u)
  BY Now DEF Bystander, Asking
<1>2. /\ ServeUnlock(t, "data", copyToken[t]) /\ answer[t].status = "none"
      /\ UNCHANGED <<client, work, exists, mine>>
  BY DEF Serve, ServeUnlock
<1>3. CASE lock["data"] # Empty /\ lock["data"] = copyToken[t]
  <2>1. lock'["data"] = Empty /\ lock'["rez"] = lock["rez"] /\ Respond(t, Ok(Empty))
    BY <1>1, <1>2, <1>3 DEF ServeUnlock, TypeOK
  <2>2. answer'[t].status = "ok" /\ pc'[t] = pc[t] /\ Apart(t)
    BY <1>1, <1>2, <2>1, Responds DEF Ok
  <2>3. ~Ours("data")' /\ (Ours("rez")' <=> Ours("rez"))
    BY <1>1, <1>2, <2>1, Entries DEF Ours
  <2>4. DataPhase(t)'
    BY <1>1, <1>2, <2>2, <2>3 DEF DataPhase, InTransit, RowsAgree
  <2>5. trouble' = {} => RezPhase(t)'
    BY <1>1, <1>2, <2>1, <2>2, <2>3 DEF RezPhase, RezOnRecord
  <2>6. DataDone(t) /\ RezDone(t) /\ Orderly(t) /\ pc'[t] # "lock"
    BY <2>2, <2>4, <2>5 DEF DataDone, RezDone, Orderly, Bystander, Asking, Locking
  <2> QED
    BY <1>1, <2>2, <2>6, ActorStep
<1>4. CASE ~(lock["data"] # Empty /\ lock["data"] = copyToken[t])
  <2>1. pc[t] = "unlock"
    <3>1. SUFFICES ASSUME pc[t] = "rollback" PROVE FALSE
      BY <3>1
    <3>2. Ours("data") /\ lock["data"] = copyToken[t]
      BY <1>1, <1>2, <3>1 DEF DataPhase, InTransit, DataOnRecord
    <3> QED
      BY <1>1, <1>4, <3>2, Entries DEF Ours
  <2>2. UNCHANGED lock /\ Respond(t, Failed)
    BY <1>2, <1>4 DEF ServeUnlock
  <2>3. answer'[t].status = "failed" /\ pc'[t] = pc[t] /\ Apart(t)
    BY <1>1, <1>2, <2>2, Responds DEF Failed
  <2>4. DataPhase(t)'
    BY <1>1, <1>2, <2>1, <2>2, <2>3 DEF DataPhase, InTransit, DataOnRecord, RowsAgree, Ours
  <2>5. trouble' = {} => RezPhase(t)'
    BY <1>1, <1>2, <2>1, <2>2, <2>3 DEF RezPhase, RezOnRecord, BothOrNone, Ours
  <2>6. DataDone(t) /\ RezDone(t) /\ Orderly(t) /\ pc'[t] # "lock"
    BY <2>1, <2>3, <2>4, <2>5 DEF DataDone, RezDone, Orderly, Bystander, Asking, Locking
  <2> QED
    BY <1>1, <2>3, <2>6, ActorStep
<1> QED
  BY <1>3, <1>4

LEMMA UnlockRezServed ==
    ASSUME StoreInv, Clean', trouble \subseteq trouble', NEW t \in Threads, Serve(t), pc[t] = "unlockRez"
    PROVE  DataInv' /\ RezInv'
<1>1. /\ TypeOK /\ Clean /\ DataInv /\ RezInv /\ DataPhase(t) /\ (trouble' = {} => RezPhase(t))
      /\ \A u \in Threads \ {t} : Bystander(u)
  BY Now DEF Bystander, Asking
<1>2. /\ ServeUnlock(t, "rez", rezToken[t]) /\ answer[t].status = "none"
      /\ UNCHANGED <<client, work, exists, mine>>
  BY DEF Serve, ServeUnlock
<1>3. lock'["data"] = lock["data"] /\ (Ours("data")' <=> Ours("data"))
  BY <1>1, <1>2 DEF ServeUnlock, TypeOK, Ours
<1>4. PICK a \in {Ok(Empty), Failed} : answer'[t] = a /\ pc'[t] = pc[t] /\ Apart(t)
  BY <1>1, <1>2, Responds DEF ServeUnlock
<1>5. answer'[t].status \in {"ok", "failed"}
  BY <1>4 DEF Ok, Failed
<1>6. DataPhase(t)'
  BY <1>1, <1>2, <1>3, <1>4 DEF DataPhase, InTransit, DataOnRecord, RowsAgree
<1>7. ASSUME trouble' = {} PROVE ~Ours("rez")' /\ (answer'[t].status = "ok" \/ RezOnRecord')
  <2>1. CASE lock["rez"] # Empty /\ lock["rez"] = rezToken[t]
    <3>1. lock'["rez"] = Empty /\ answer'[t].status = "ok"
      BY <1>1, <1>2, <2>1, Responds DEF ServeUnlock, TypeOK, Ok
    <3> QED
      BY <1>1, <1>2, <3>1, Entries DEF Ours
  <2>2. CASE ~(lock["rez"] # Empty /\ lock["rez"] = rezToken[t])
    <3>1. UNCHANGED lock
      BY <1>2, <2>2 DEF ServeUnlock
    <3>2. RezOnRecord /\ rezToken[t] = db["rez"]
      BY <1>1, <1>2, <1>7 DEF RezPhase
    <3>3. ~Ours("rez")
      BY <1>1, <2>2, <3>2, Entries DEF RezOnRecord, Ours
    <3> QED
      BY <1>2, <3>1, <3>2, <3>3 DEF RezOnRecord, Ours
  <2> QED
    BY <2>1, <2>2
<1>8. trouble' = {} => RezPhase(t)'
  BY <1>1, <1>2, <1>4, <1>7 DEF RezPhase
<1>9. DataDone(t) /\ RezDone(t) /\ Orderly(t) /\ pc'[t] # "lock"
  BY <1>4, <1>6, <1>8 DEF DataDone, RezDone, Orderly, Bystander, Asking, Locking
<1> QED
  BY <1>1, <1>4, <1>9, ActorStep

LEMMA DeleteServed ==
    ASSUME StoreInv, Clean', trouble \subseteq trouble', NEW t \in Threads, Serve(t), pc[t] = "delete"
    PROVE  DataInv' /\ RezInv'
<1>1. /\ TypeOK /\ Clean /\ DataInv /\ RezInv /\ ServerInv /\ DataPhase(t) /\ (trouble' = {} => RezPhase(t))
      /\ \A u \in Threads \ {t} : Bystander(u)
  BY Now DEF Bystander, Asking, StoreInv
<1>2. /\ ServeDelete(t, "data", t \in copyLocal, copyToken[t]) /\ answer[t].status = "none"
      /\ UNCHANGED <<client, work, mine>>
  BY DEF Serve, ServeDelete
<1> DEFINE granted == "data" \in exists /\ (IF t \in copyLocal THEN lock["data"] # Empty /\ lock["data"] = copyToken[t]
                                            ELSE lock["data"] = Empty)
<1>3. CASE granted
  <2>1. /\ lock'["data"] = Empty /\ lock'["rez"] = lock["rez"] /\ Respond(t, Ok(Empty))
        /\ exists' = exists \ {"data"}
    BY <1>1, <1>2, <1>3 DEF ServeDelete, TypeOK
  <2>2. answer'[t].status = "ok" /\ pc'[t] = pc[t] /\ Apart(t)
    BY <1>1, <1>2, <2>1, Responds DEF Ok
  <2>3. ~Ours("data")' /\ (Ours("rez")' <=> Ours("rez"))
    BY <1>1, <1>2, <2>1, Entries DEF Ours
  <2>4. DataPhase(t)'
    BY <1>1, <1>2, <2>2, <2>3 DEF DataPhase, InTransit, RowsAgree
  <2>5. trouble' = {} => RezPhase(t)'
    BY <1>1, <1>2, <2>1, <2>2, <2>3 DEF RezPhase, RezOnRecord, BothOrNone
  <2>6. DataDone(t) /\ RezDone(t) /\ Orderly(t) /\ pc'[t] # "lock"
    BY <2>2, <2>4, <2>5 DEF DataDone, RezDone, Orderly, Bystander, Asking, Locking
  <2> QED
    BY <1>1, <2>2, <2>6, ActorStep
<1>4. CASE ~granted
  <2>1. UNCHANGED <<exists, lock>> /\ Respond(t, Failed)
    BY <1>2, <1>4 DEF ServeDelete
  <2>2. answer'[t].status = "failed" /\ pc'[t] = pc[t] /\ Apart(t)
    BY <1>1, <1>2, <2>1, Responds DEF Failed
  <2>3. ~Ours("data")
    <3>1. SUFFICES ASSUME Ours("data") PROVE FALSE
      OBVIOUS
    <3>2. lock["data"] # Empty /\ lock["data"] # NoEntry /\ "data" \in exists
      BY <1>1, <3>1, Entries DEF ServerInv, Ours
    <3>3. db["data"] = lock["data"] /\ t \in copyLocal /\ copyToken[t] = db["data"]
      BY <1>1, <1>2, <3>1, <3>2 DEF DataPhase, InTransit, DataOnRecord
    <3> QED
      BY <1>4, <3>2, <3>3
  <2>4. DataPhase(t)'
    BY <1>1, <1>2, <2>1, <2>2, <2>3 DEF DataPhase, InTransit, DataOnRecord, RowsAgree, Ours
  <2>5. trouble' = {} => RezPhase(t)'
    BY <1>1, <1>2, <2>1, <2>2 DEF RezPhase, RezOnRecord, BothOrNone, Ours
  <2>6. DataDone(t) /\ RezDone(t) /\ Orderly(t) /\ pc'[t] # "lock"
    BY <2>2, <2>4, <2>5 DEF DataDone, RezDone, Orderly, Bystander, Asking, Locking
  <2> QED
    BY <1>1, <2>2, <2>6, ActorStep
<1> QED
  BY <1>3, <1>4

LEMMA DeleteRezServed ==
    ASSUME StoreInv, Clean', trouble \subseteq trouble', NEW t \in Threads, Serve(t), pc[t] = "deleteRez"
    PROVE  DataInv' /\ RezInv'
<1>1. /\ TypeOK /\ Clean /\ DataInv /\ RezInv /\ DataPhase(t) /\ (trouble' = {} => RezPhase(t))
      /\ \A u \in Threads \ {t} : Bystander(u)
  BY Now DEF Bystander, Asking
<1>2. /\ ServeDelete(t, "rez", rezToken[t] # Empty, rezToken[t]) /\ answer[t].status = "none"
      /\ UNCHANGED <<client, work, mine>>
  BY DEF Serve, ServeDelete
<1>3. \/ UNCHANGED <<lock, exists>>
      \/ lock' = [lock EXCEPT !["rez"] = Empty] /\ exists' = exists \ {"rez"}
  BY <1>2 DEF ServeDelete
<1>4. lock'["data"] = lock["data"] /\ (Ours("data")' <=> Ours("data"))
  BY <1>1, <1>2, <1>3 DEF TypeOK, Ours
<1>5. pc'[t] = pc[t] /\ Apart(t)
  BY <1>1, <1>2, Responds DEF ServeDelete
<1>6. DataPhase(t)'
  BY <1>1, <1>2, <1>4, <1>5 DEF DataPhase, InTransit, DataOnRecord, RowsAgree
<1>7. ASSUME trouble' = {} PROVE RezOnRecord' /\ BothOrNone'
  <2>1. RezOnRecord /\ BothOrNone
    BY <1>1, <1>7 DEF RezPhase
  <2>2. CASE UNCHANGED <<lock, exists>>
    BY <1>2, <2>1, <2>2 DEF RezOnRecord, BothOrNone, Ours
  <2>3. CASE lock' = [lock EXCEPT !["rez"] = Empty] /\ exists' = exists \ {"rez"}
    <3>1. lock'["rez"] = Empty /\ ~Ours("rez")'
      BY <1>1, <1>2, <2>3, Entries DEF TypeOK, Ours
    <3> QED
      BY <2>3, <3>1 DEF RezOnRecord, BothOrNone
  <2> QED
    BY <1>3, <2>2, <2>3
<1>8. trouble' = {} => RezPhase(t)'
  BY <1>1, <1>5, <1>7 DEF RezPhase
<1>9. DataDone(t) /\ RezDone(t) /\ Orderly(t) /\ pc'[t] # "lock"
  BY <1>5, <1>6, <1>8 DEF DataDone, RezDone, Orderly, Bystander, Asking, Locking
<1> QED
  BY <1>1, <1>5, <1>9, ActorStep

LEMMA ServeDone ==
    ASSUME StoreInv, Clean', trouble \subseteq trouble', NEW t \in Threads, Serve(t)
    PROVE  DataInv' /\ RezInv'
<1>1. pc[t] \in {"lock", "lockRez", "props", "propsAfter", "list", "exists", "existsDelete",
                 "propsRez", "unlock", "rollback", "unlockRez", "delete", "deleteRez"}
  BY DEF Serve
<1> QED
  BY <1>1, LockServed, LockRezServed, PropsServed, UnlockServed, UnlockRezServed, DeleteServed,
     DeleteRezServed
-----------------------------------------------------------------------------
\* The server hands out a token once, for something that is there.
LEMMA ServerStep == ASSUME TypeOK, ServerInv, [Next]_vars PROVE ServerInv'
<1>0. issued \in Nat /\ lock \in [Forks -> {Empty} \cup Tokens] /\ trouble \subseteq trouble'
  BY ConstantsAssumption, TroubleGrows DEF TypeOK
<1>a. ASSUME NEW f \in Forks, issued' = issued + 1, lock' = [lock EXCEPT ![f] = issued + 1],
             f \in exists, UNCHANGED exists, mine' \subseteq mine \cup {issued + 1}
      PROVE  ServerInv'
  <2>1. ASSUME NEW g \in Forks PROVE lock'[g] \in 0..issued' /\ (lock'[g] # Empty => g \in exists')
    <3>1. CASE g = f
      BY <1>0, <1>a, <3>1
    <3>2. CASE g # f
      <4>1. lock'[g] = lock[g]
        BY <1>0, <1>a, <3>2
      <4> QED
        BY <1>0, <1>a, <4>1 DEF ServerInv
    <3> QED
      BY <3>1, <3>2
  <2>2. "claimed" \notin trouble' => mine' \subseteq 1..issued'
    BY <1>0, <1>a DEF ServerInv
  <2> QED
    BY <2>1, <2>2 DEF ServerInv
<1>b. ASSUME NEW f \in Forks, UNCHANGED <<issued, mine>>, lock' = [lock EXCEPT ![f] = Empty],
             exists' = exists \/ exists' = exists \ {f}
      PROVE  ServerInv'
  <2>1. ASSUME NEW g \in Forks PROVE lock'[g] \in 0..issued' /\ (lock'[g] # Empty => g \in exists')
    <3>1. lock'[g] = IF g = f THEN Empty ELSE lock[g]
      BY <1>0, <1>b
    <3> QED
      BY <1>0, <1>b, <3>1 DEF ServerInv
  <2> QED
    BY <1>0, <1>b, <2>1 DEF ServerInv
<1>c. ASSUME UNCHANGED <<issued, lock, mine>>, exists \subseteq exists' PROVE ServerInv'
  BY <1>0, <1>c DEF ServerInv
<1>1. ASSUME NEW t \in Threads, Serve(t) PROVE ServerInv'
  <2>1. ASSUME NEW f \in Forks, ServeLock(t, f) PROVE ServerInv'
    BY <2>1, <1>a, <1>c DEF ServeLock
  <2>2. ASSUME NEW f \in Forks, ServeProps(t, f) PROVE ServerInv'
    BY <2>2, <1>c DEF ServeProps
  <2>3. ASSUME NEW f \in Forks, NEW token, ServeUnlock(t, f, token) PROVE ServerInv'
    BY <2>3, <1>b, <1>c DEF ServeUnlock
  <2>4. ASSUME NEW f \in Forks, NEW sent, NEW token, ServeDelete(t, f, sent, token) PROVE ServerInv'
    BY <2>4, <1>b, <1>c DEF ServeDelete
  <2> QED
    BY <1>1, <2>1, <2>2, <2>3, <2>4 DEF Serve
<1>2. ASSUME NEW f \in Forks, OtherLocks(f) \/ LockEnds(f) \/ Appears(f) PROVE ServerInv'
  BY <1>2, <1>a, <1>b, <1>c DEF OtherLocks, LockEnds, Appears
<1>3. ASSUME NEW w \in Windows, ClaimLock(w) PROVE ServerInv'
  BY <1>3 DEF ClaimLock, ServerInv
<1>4. ASSUME NEW t \in Threads, Continue(t) \/ CallFails(t) \/ \E w \in Windows : Command(t, w)
      PROVE  UNCHANGED server
  BY <1>4 DEF Continue, LockAnswered, PropsAnswered, ExistsAnswered, LockRezAnswered,
     PropsRezAnswered, RollbackAnswered, UnlockAnswered, PropsAfterAnswered, UnlockRezAnswered,
     DeleteAnswered, ExistsDeleteAnswered, DeleteRezAnswered, ListAnswered, CallFails, Command,
     StartLock, StartUnlock, StartDelete, StartList, Start
<1>5. Restart \/ UNCHANGED vars => UNCHANGED server
  BY DEF Restart, vars
<1> QED
  BY <1>1, <1>2, <1>3, <1>4, <1>5, <1>c DEF Next

\* A token that is sent with a DELETE, or to undo a lock, is this client's.
LEMMA SparedStep ==
    ASSUME StoreInv, trouble \subseteq trouble', [Next]_vars
    PROVE  ForeignLocksAreSpared'
<1> SUFFICES ASSUME "stolen" \in trouble', trouble' \cap {"lost", "race", "broken", "claimed"} = {}
             PROVE  FALSE
  BY DEF ForeignLocksAreSpared
<1>1. TypeOK /\ Clean /\ DataInv
  BY DEF StoreInv, IInv, ForeignLocksAreSpared, Clean, TypeOK
<1>2. "stolen" \notin trouble
  BY <1>1 DEF Clean
<1>3. ASSUME NEW t \in Threads, Serve(t) PROVE FALSE
  <2>1. CASE pc[t] = "rollback"
    <3>1. DataPhase(t)
      BY <1>1, <2>1 DEF DataInv, Bystander, Asking
    <3>2. copyToken[t] \in mine
      BY <2>1, <3>1 DEF DataPhase
    <3>3. ServeUnlock(t, "data", copyToken[t])
      BY <1>3, <2>1 DEF Serve
    <3> QED
      BY <1>2, <3>2, <3>3 DEF ServeUnlock
  <2>2. CASE pc[t] = "delete"
    <3>1. DataPhase(t)
      BY <1>1, <2>2 DEF DataInv, Bystander, Asking
    <3>2. t \in copyLocal => copyToken[t] \in mine
      BY <1>1, <2>2, <3>1, Entries DEF DataPhase
    <3>3. ServeDelete(t, "data", t \in copyLocal, copyToken[t])
      BY <1>3, <2>2 DEF Serve
    <3> QED
      BY <1>2, <3>2, <3>3 DEF ServeDelete
  <2>3. CASE pc[t] = "deleteRez"
    <3>1. DataPhase(t)
      BY <1>1, <2>3 DEF DataInv, Bystander, Asking
    <3>2. rezToken[t] # Empty => rezToken[t] \in mine
      BY <2>3, <3>1 DEF DataPhase
    <3>3. ServeDelete(t, "rez", rezToken[t] # Empty, rezToken[t])
      BY <1>3, <2>3 DEF Serve
    <3> QED
      BY <1>2, <3>2, <3>3 DEF ServeDelete
  <2>4. CASE pc[t] \notin {"rollback", "delete", "deleteRez"}
    BY <1>2, <1>3, <2>4 DEF Serve, ServeLock, ServeProps, ServeUnlock
  <2> QED
    BY <2>1, <2>2, <2>3, <2>4
<1>4. ASSUME NEW t \in Threads, Continue(t) PROVE FALSE
  BY <1>2, <1>4 DEF Continue, LockAnswered, PropsAnswered, ExistsAnswered, LockRezAnswered,
     PropsRezAnswered, RollbackAnswered, UnlockAnswered, PropsAfterAnswered, UnlockRezAnswered,
     DeleteAnswered, ExistsDeleteAnswered, DeleteRezAnswered, ListAnswered, Noted
<1>5. ASSUME NEW t \in Threads, CallFails(t) \/ \E w \in Windows : Command(t, w) PROVE FALSE
  BY <1>2, <1>5 DEF CallFails, Command, StartLock, StartUnlock, StartDelete, StartList, Start, Noted
<1>6. ASSUME NEW f \in Forks, OtherLocks(f) \/ LockEnds(f) \/ Appears(f) PROVE FALSE
  BY <1>2, <1>6 DEF OtherLocks, LockEnds, Appears
<1>7. ASSUME NEW w \in Windows, ClaimLock(w) PROVE FALSE
  BY <1>2, <1>7 DEF ClaimLock
<1>8. Restart \/ UNCHANGED vars => FALSE
  BY <1>2 DEF Restart, vars
<1> QED
  BY <1>3, <1>4, <1>5, <1>6, <1>7, <1>8 DEF Next

\* A restart between two operations finds the store as it was.
LEMMA RestartDone == ASSUME StoreInv, Clean', trouble \subseteq trouble', Restart PROVE DataInv' /\ RezInv'
<1>1. DataInv /\ RezInv /\ Clean /\ UNCHANGED <<db, server>>
  BY DEF StoreInv, Clean, Restart
<1>2. Idle /\ trouble' = trouble
  BY DEF Restart, Clean
<1>3. Settled
  BY <1>2 DEF Idle, Settled, Bystander
<1>4. \A t \in Threads : pc'[t] = "idle" /\ Bystander(t)'
  BY DEF Restart, Bystander
<1>5. RowsAgree'
  BY DEF Restart, RowsAgree
<1>6. DataOnRecord' /\ (trouble' = {} => RezOnRecord' /\ BothOrNone')
  BY <1>1, <1>2, <1>3 DEF DataInv, RezInv, DataOnRecord, RezOnRecord, BothOrNone, Ours
<1> QED
  BY <1>4, <1>5, <1>6 DEF DataInv, RezInv, OneActor

\* Every step keeps the invariant, or notes the trouble.
LEMMA StoreStep == StoreInv /\ [Next]_vars => StoreInv'
<1> SUFFICES ASSUME StoreInv, [Next]_vars PROVE StoreInv'
  OBVIOUS
<1>0. trouble \subseteq trouble'
  BY TroubleGrows
<1>1. IInv' /\ ServerInv' /\ ForeignLocksAreSpared'
  BY <1>0, IInvStep, ServerStep, SparedStep DEF StoreInv, IInv
<1>2. ASSUME ~Clean' PROVE DataInv' /\ RezInv'
  BY <1>2 DEF DataInv, RezInv, Clean
<1>3. ASSUME Clean' PROVE DataInv' /\ RezInv'
  <2>1. ASSUME NEW t \in Threads, Continue(t) \/ Serve(t) \/ \E w \in Windows : Command(t, w)
        PROVE  DataInv' /\ RezInv'
    BY <1>0, <1>3, <2>1, ContinueDone, ServeDone, CommandDone
  <2>2. ASSUME NEW f \in Forks, OtherLocks(f) \/ LockEnds(f) \/ Appears(f) PROVE DataInv' /\ RezInv'
    BY <1>0, <1>3, <2>2, EnvironmentDone
  <2>3. ASSUME NEW t \in Threads, CallFails(t) PROVE FALSE
    BY <1>3, <2>3 DEF CallFails, Clean
  <2>4. ASSUME NEW w \in Windows, ClaimLock(w) PROVE FALSE
    BY <1>3, <2>4 DEF ClaimLock, Clean
  <2>5. ASSUME Restart PROVE DataInv' /\ RezInv'
    BY <1>0, <1>3, <2>5, RestartDone
  <2>6. ASSUME UNCHANGED vars PROVE DataInv' /\ RezInv'
    <3>1. \A f \in Forks : (Ours(f)' <=> Ours(f)) /\ (Ours(f) => lock'[f] = lock[f])
      BY <2>6 DEF vars, Ours
    <3> QED
      BY <1>0, <1>3, <2>6, <3>1, OthersDone DEF vars
  <2> QED
    BY <2>1, <2>2, <2>3, <2>4, <2>5, <2>6 DEF Next
<1> QED
  BY <1>1, <1>2, <1>3 DEF StoreInv

LEMMA StoreInvHolds == Spec => []StoreInv
  BY StoreInit, StoreStep, PTL DEF Spec

LEMMA IdleIsSettled == Idle => Settled
  BY DEF Idle, Settled, Bystander

\* Between operations every lock of this client is on record, and what is on record is the
\* lock of the resource, as long as nothing of what trouble names has happened: the token
\* store is written only after the server's answer, and every thread that takes a lock
\* reads its token, or gives the lock back.
THEOREM StoreIsTrue == Spec => []StoreMatchesTheServer
<1>1. StoreInv => StoreMatchesTheServer
  <2> SUFFICES ASSUME StoreInv, trouble = {}, Idle, NEW f \in Forks
               PROVE  /\ lock[f] \in mine => db[f] = lock[f]
                      /\ f \in exists /\ db[f] # NoEntry => db[f] = lock[f]
    BY DEF StoreMatchesTheServer
  <2>1. DataOnRecord /\ RezOnRecord
    BY IdleIsSettled DEF StoreInv, DataInv, RezInv, Clean
  <2> QED
    BY <2>1 DEF DataOnRecord, RezOnRecord, Ours
<1> QED
  BY StoreInvHolds, <1>1, PTL

\* The item and its fork are locked together: the fork was free when the item was locked,
\* and the item's lock is given back unless the fork's was granted.
THEOREM ForksGoTogether == Spec => []ForksAreLockedTogether
<1>1. StoreInv => ForksAreLockedTogether
  BY IdleIsSettled DEF StoreInv, RezInv, BothOrNone, Ours, ForksAreLockedTogether
<1> QED
  BY StoreInvHolds, <1>1, PTL

\* No lock of another client is released by a DELETE or by the undoing of a lock: what is
\* sent is a token on record or one that was just granted.
THEOREM OthersKeepTheirLocks == Spec => []ForeignLocksAreSpared
<1>1. StoreInv => ForeignLocksAreSpared
  BY DEF StoreInv
<1> QED
  BY StoreInvHolds, <1>1, PTL

\* The rows of every window agree with the token store, for any number of windows.
THEOREM RowsAreTrue == Spec => []RowsAgreeWithTheStore
<1>1. StoreInv => RowsAgreeWithTheStore
  BY IdleIsSettled DEF StoreInv, DataInv, RowsAgree, Clean, RowsAgreeWithTheStore
<1> QED
  BY StoreInvHolds, <1>1, PTL
=============================================================================
