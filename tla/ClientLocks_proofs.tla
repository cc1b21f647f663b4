------------------------- MODULE ClientLocks_proofs -------------------------
(***************************************************************************)
(* Theorems about ClientLocks, for any number of threads and windows.      *)
(***************************************************************************)
EXTENDS ClientLocks, TLAPS

USE DEF Forks, Tokens, Empty, NoEntry, NoRow, PCs, LockCalls, UnlockCalls,
        DeleteCalls, Troubles, client, work, server, When

\* Everything that comes back from a call is an answer.
LEMMA AnswerTypes ==
    /\ Waiting \in Answers /\ Failed \in Answers
    /\ \A x \in {Empty} \cup Tokens : Ok(x) \in Answers
    /\ [status |-> "absent", token |-> Empty] \in Answers
  BY ConstantsAssumption DEF Waiting, Failed, Ok, Answers

\* What an item's lock information is filled with is a token or empty.
LEMMA FilledType ==
    ASSUME TypeOK, NEW t \in Threads
    PROVE  Filled(t) \in {Empty} \cup Tokens
<1>1. answer[t] \in Answers
  BY DEF TypeOK
<1>2. answer[t].token \in {Empty} \cup Tokens
  BY <1>1 DEF Answers
<1> QED
  BY <1>2 DEF TypeOK, Filled

\* The call a thread goes on with, and the end of a thread, are typed.
LEMMA GotoType ==
    ASSUME TypeOK, NEW t \in Threads, NEW call \in PCs, Goto(t, call)
    PROVE  pc' \in [Threads -> PCs] /\ answer' \in [Threads -> Answers]
<1>1. Waiting \in Answers
  BY AnswerTypes
<1>2. pc \in [Threads -> PCs] /\ answer \in [Threads -> Answers]
  BY DEF TypeOK
<1> QED
  BY <1>1, <1>2 DEF Goto

LEMMA SetCopyType ==
    ASSUME TypeOK, NEW t \in Threads, NEW token \in {Empty} \cup Tokens, NEW isLocal \in BOOLEAN,
           SetCopy(t, token, isLocal)
    PROVE  copyToken' \in [Threads -> {Empty} \cup Tokens] /\ copyLocal' \subseteq Threads
  BY DEF TypeOK, SetCopy

LEMMA FinishType ==
    ASSUME TypeOK, NEW t \in Threads, Finish(t)
    PROVE  /\ pc' \in [Threads -> PCs] /\ answer' \in [Threads -> Answers]
           /\ copyToken' \in [Threads -> {Empty} \cup Tokens] /\ copyLocal' \subseteq Threads
           /\ rezToken' \in [Threads -> {Empty} \cup Tokens]
<1>1. Goto(t, "idle") /\ SetCopy(t, Empty, FALSE) /\ SetRez(t, Empty)
  BY DEF Finish
<1>2. rezToken' \in [Threads -> {Empty} \cup Tokens]
  BY <1>1 DEF SetRez, TypeOK
<1> QED
  BY <1>1, <1>2, GotoType, SetCopyType

\* The initial states are typed.
LEMMA TypeInit == Init => TypeOK
  BY ConstantsAssumption, AnswerTypes DEF Init, TypeOK

\* The user's commands keep the types.
LEMMA StartType ==
    ASSUME TypeOK, NEW t \in Threads, NEW w \in Windows, NEW call \in PCs, Start(t, w, call)
    PROVE  /\ pc' \in [Threads -> PCs] /\ answer' \in [Threads -> Answers]
           /\ copyToken' \in [Threads -> {Empty} \cup Tokens] /\ copyLocal' \subseteq Threads
           /\ home' \in [Threads -> Windows] /\ trouble' \subseteq Troubles
<1>1. rowToken[w] \in {NoRow, Empty} \cup Tokens
  BY DEF TypeOK
<1>2. (IF rowToken[w] = NoRow THEN Empty ELSE rowToken[w]) \in {Empty} \cup Tokens
  BY <1>1
<1>3. /\ copyToken' = [copyToken EXCEPT ![t] = IF rowToken[w] = NoRow THEN Empty ELSE rowToken[w]]
      /\ copyLocal' \subseteq copyLocal \cup {t}
      /\ Goto(t, call) /\ home' = [home EXCEPT ![t] = w] /\ Noted(t, call)
  BY DEF Start, SetCopy
<1>4. home' \in [Threads -> Windows] /\ trouble' \subseteq Troubles
  BY <1>3 DEF TypeOK, Noted
<1>5. copyToken' \in [Threads -> {Empty} \cup Tokens] /\ copyLocal' \subseteq Threads
  BY <1>2, <1>3 DEF TypeOK
<1> QED
  BY <1>3, <1>4, <1>5, GotoType

\* A change that reaches every window, or none.
LEMMA BroadcastType ==
    ASSUME TypeOK, NEW token \in {Empty} \cup Tokens, NEW isLocal, Broadcast(token, isLocal)
    PROVE  rowToken' \in [Windows -> {NoRow, Empty} \cup Tokens] /\ rowLocal' \subseteq Windows
  BY DEF TypeOK, Broadcast

\* The answers of a thread's calls keep the types.
LEMMA TypeContinue == ASSUME TypeOK, NEW t \in Threads, Continue(t) PROVE TypeOK'
<1> DEFINE Started == /\ pc' \in [Threads -> PCs] /\ answer' \in [Threads -> Answers]
                      /\ copyToken' \in [Threads -> {Empty} \cup Tokens] /\ copyLocal' \subseteq Threads
                      /\ rezToken' \in [Threads -> {Empty} \cup Tokens]
           Tidy == db' \in [Forks -> {NoEntry, Empty} \cup Tokens]
           Shown == rowToken' \in [Windows -> {NoRow, Empty} \cup Tokens] /\ rowLocal' \subseteq Windows
<1>a. answer[t] \in Answers /\ answer[t].token \in {Empty} \cup Tokens
  BY DEF TypeOK, Answers
<1>b. Filled(t) \in {Empty} \cup Tokens
  BY FilledType
<1>c. db \in [Forks -> {NoEntry, Empty} \cup Tokens]
  BY DEF TypeOK
<1>d. ASSUME UNCHANGED <<exists, lock, issued, mine, home>>, trouble' \subseteq Troubles, Started, Tidy, Shown PROVE TypeOK'
  BY <1>d DEF TypeOK
<1>1. CASE LockAnswered(t)
  <2>1. Started
    BY <1>1, <1>a, FinishType, GotoType, SetCopyType DEF LockAnswered, TypeOK
  <2> QED
    BY <1>1, <2>1, <1>d DEF LockAnswered, TypeOK
<1>2. CASE PropsAnswered(t)
  <2>1. Started
    BY <1>2, <1>b, FinishType, GotoType, SetCopyType DEF PropsAnswered, TypeOK
  <2>2. Tidy
    BY <1>2, <1>b, <1>c DEF PropsAnswered, ItemLocked
  <2>3. Shown
    BY <1>2, <1>b, BroadcastType DEF PropsAnswered, TypeOK
  <2> QED
    BY <1>2, <2>1, <2>2, <2>3, <1>d DEF PropsAnswered, TypeOK
<1>3. CASE ExistsAnswered(t)
  <2>1. Started
    BY <1>3, FinishType, GotoType DEF ExistsAnswered, TypeOK
  <2> QED
    BY <1>3, <2>1, <1>d DEF ExistsAnswered, TypeOK
<1>4. CASE LockRezAnswered(t)
  <2>1. Started
    BY <1>4, GotoType DEF LockRezAnswered, TypeOK
  <2> QED
    BY <1>4, <2>1, <1>d DEF LockRezAnswered, TypeOK, Noted
<1>5. CASE PropsRezAnswered(t)
  <2>1. Started
    BY <1>5, FinishType, GotoType DEF PropsRezAnswered, TypeOK
  <2>2. Tidy
    BY <1>5, <1>a, <1>c DEF PropsRezAnswered, ItemLocked
  <2> QED
    BY <1>5, <2>1, <2>2, <1>d DEF PropsRezAnswered, TypeOK, Noted
<1>6. CASE RollbackAnswered(t)
  <2>1. Started
    BY <1>6, FinishType DEF RollbackAnswered
  <2>2. Tidy
    BY <1>6, <1>c DEF RollbackAnswered, ItemUnlocked
  <2>3. Shown
    BY <1>6, BroadcastType DEF RollbackAnswered
  <2> QED
    BY <1>6, <2>1, <2>2, <2>3, <1>d DEF RollbackAnswered, TypeOK
<1>7. CASE UnlockAnswered(t)
  <2>1. Started
    BY <1>7, FinishType, GotoType, SetCopyType DEF UnlockAnswered, TypeOK
  <2>2. Tidy
    BY <1>7, <1>c DEF UnlockAnswered, ItemUnlocked
  <2> QED
    BY <1>7, <2>1, <2>2, <1>d DEF UnlockAnswered, TypeOK
<1>8. CASE PropsAfterAnswered(t)
  <2>1. Started
    <3>1. CASE ForksHandled /\ db["rez"] # NoEntry
      <4>1. db["rez"] \in {Empty} \cup Tokens
        BY <3>1, <1>c
      <4>2. rezToken' \in [Threads -> {Empty} \cup Tokens]
        BY <1>8, <3>1, <4>1 DEF PropsAfterAnswered, SetRez, TypeOK
      <4> QED
        BY <1>8, <3>1, <4>2, <1>b, GotoType, SetCopyType DEF PropsAfterAnswered
    <3>2. CASE ~(ForksHandled /\ db["rez"] # NoEntry)
      BY <1>8, <3>2, FinishType DEF PropsAfterAnswered
    <3> QED
      BY <3>1, <3>2
  <2>2. Tidy
    BY <1>8, <1>c DEF PropsAfterAnswered, AfterDataChange
  <2>3. Shown
    BY <1>8, <1>b, BroadcastType DEF PropsAfterAnswered
  <2> QED
    BY <1>8, <2>1, <2>2, <2>3, <1>d DEF PropsAfterAnswered, TypeOK
<1>9. CASE UnlockRezAnswered(t)
  <2>1. Started
    BY <1>9, FinishType DEF UnlockRezAnswered
  <2>2. Tidy
    BY <1>9, <1>c DEF UnlockRezAnswered, ItemUnlocked
  <2> QED
    BY <1>9, <2>1, <2>2, <1>d DEF UnlockRezAnswered, TypeOK
<1>10. CASE DeleteAnswered(t)
  <2>1. Started
    BY <1>10, FinishType, GotoType DEF DeleteAnswered, TypeOK
  <2>2. Tidy
    BY <1>10, <1>c DEF DeleteAnswered, ItemUnlocked
  <2>3. Shown
    BY <1>10 DEF DeleteAnswered, TypeOK
  <2> QED
    BY <1>10, <2>1, <2>2, <2>3, <1>d DEF DeleteAnswered, TypeOK
<1>11. CASE ExistsDeleteAnswered(t)
  <2>1. Started
    <3>1. CASE Succeeded(t)
      <4>1. (IF db["rez"] = NoEntry THEN Empty ELSE db["rez"]) \in {Empty} \cup Tokens
        BY <1>c
      <4>2. rezToken' \in [Threads -> {Empty} \cup Tokens]
        BY <1>11, <3>1, <4>1 DEF ExistsDeleteAnswered, SetRez, TypeOK
      <4> QED
        BY <1>11, <3>1, <4>2, GotoType DEF ExistsDeleteAnswered, TypeOK
    <3>2. CASE ~Succeeded(t)
      BY <1>11, <3>2, FinishType DEF ExistsDeleteAnswered
    <3> QED
      BY <3>1, <3>2
  <2> QED
    BY <1>11, <2>1, <1>d DEF ExistsDeleteAnswered, TypeOK
<1>12. CASE DeleteRezAnswered(t)
  <2>1. Started
    BY <1>12, FinishType DEF DeleteRezAnswered
  <2>2. Tidy
    BY <1>12, <1>c DEF DeleteRezAnswered, ItemUnlocked
  <2> QED
    BY <1>12, <2>1, <2>2, <1>d DEF DeleteRezAnswered, TypeOK
<1>13. CASE ListAnswered(t)
  <2>1. Started
    BY <1>13, FinishType DEF ListAnswered
  <2>2. home[t] \in Windows
    BY DEF TypeOK
  <2>3. Shown
    BY <1>13, <1>a, <2>2 DEF ListAnswered, TypeOK
  <2> QED
    BY <1>13, <2>1, <2>3, <1>d DEF ListAnswered, TypeOK
<1> QED
  BY <1>1, <1>2, <1>3, <1>4, <1>5, <1>6, <1>7, <1>8, <1>9, <1>10, <1>11, <1>12, <1>13 DEF Continue

\* What the server and the network do to a call keeps the types.
LEMMA TypeServe == ASSUME TypeOK, NEW t \in Threads, Serve(t) \/ CallFails(t) PROVE TypeOK'
<1>1. answer' \in [Threads -> Answers]
  <2>1. ASSUME NEW a \in Answers, Respond(t, a) PROVE answer' \in [Threads -> Answers]
    BY <2>1 DEF Respond, TypeOK
  <2>2. ASSUME NEW f \in Forks PROVE lock[f] \in {Empty} \cup Tokens
    BY DEF TypeOK
  <2>3. ASSUME NEW f \in Forks, ServeLock(t, f) PROVE answer' \in [Threads -> Answers]
    BY <2>1, <2>3, AnswerTypes DEF ServeLock
  <2>4. ASSUME NEW f \in Forks, ServeProps(t, f) PROVE answer' \in [Threads -> Answers]
    BY <2>1, <2>2, <2>4, AnswerTypes DEF ServeProps
  <2>5. ASSUME NEW f \in Forks, NEW token, ServeUnlock(t, f, token) PROVE answer' \in [Threads -> Answers]
    BY <2>1, <2>5, AnswerTypes DEF ServeUnlock
  <2>6. ASSUME NEW f \in Forks, NEW sent, NEW token, ServeDelete(t, f, sent, token) PROVE answer' \in [Threads -> Answers]
    BY <2>1, <2>6, AnswerTypes DEF ServeDelete
  <2>7. ASSUME CallFails(t) PROVE answer' \in [Threads -> Answers]
    BY <2>1, <2>7, AnswerTypes DEF CallFails
  <2> QED
    BY <2>3, <2>4, <2>5, <2>6, <2>7 DEF Serve
<1>2. exists' \subseteq Forks /\ mine' \subseteq Tokens /\ issued' \in 0..MaxLocks
  BY ConstantsAssumption DEF TypeOK, Serve, CallFails, ServeLock, ServeProps, ServeUnlock, ServeDelete
<1>3. lock' \in [Forks -> {Empty} \cup Tokens]
  BY ConstantsAssumption DEF TypeOK, Serve, CallFails, ServeLock, ServeProps, ServeUnlock, ServeDelete
<1>4. trouble' \subseteq Troubles
  BY DEF TypeOK, Serve, CallFails, ServeLock, ServeProps, ServeUnlock, ServeDelete
<1> QED
  BY <1>1, <1>2, <1>3, <1>4 DEF TypeOK, Serve, CallFails

\* Every step keeps the types.
LEMMA TypeStep == TypeOK /\ [Next]_vars => TypeOK'
<1> SUFFICES ASSUME TypeOK, [Next]_vars PROVE TypeOK'
  OBVIOUS
<1>1. ASSUME NEW t \in Threads, NEW w \in Windows, Command(t, w) PROVE TypeOK'
  <2>1. CASE StartLock(t, w)
    BY <2>1, StartType DEF StartLock, Start, TypeOK
  <2>2. CASE StartUnlock(t, w)
    BY <2>2, StartType DEF StartUnlock, Start, TypeOK
  <2>3. CASE StartDelete(t, w)
    BY <2>3, StartType DEF StartDelete, Start, TypeOK
  <2>4. CASE StartList(t, w)
    <3>1. pc' \in [Threads -> PCs] /\ answer' \in [Threads -> Answers]
      BY <2>4, GotoType DEF StartList
    <3> QED
      BY <2>4, <3>1 DEF StartList, Noted, TypeOK
  <2> QED
    BY <1>1, <2>1, <2>2, <2>3, <2>4 DEF Command
<1>2. ASSUME NEW w \in Windows, ClaimLock(w) PROVE TypeOK'
  <2>1. rowToken[w] \in Tokens
    BY <1>2 DEF ClaimLock
  <2>2. rowToken' \in [Windows -> {NoRow, Empty} \cup Tokens] /\ rowLocal' \subseteq Windows
    BY <1>2, <2>1, BroadcastType DEF ClaimLock
  <2> QED
    BY <1>2, <2>1, <2>2 DEF ClaimLock, ItemLocked, TypeOK
<1>3. ASSUME NEW t \in Threads, Continue(t) \/ Serve(t) \/ CallFails(t) PROVE TypeOK'
  BY <1>3, TypeContinue, TypeServe
<1>4. ASSUME NEW f \in Forks, OtherLocks(f) \/ LockEnds(f) \/ Appears(f) PROVE TypeOK'
  <2>1. CASE OtherLocks(f)
    <3>1. issued + 1 \in 1..MaxLocks /\ issued + 1 \in 0..MaxLocks
      BY <2>1, ConstantsAssumption DEF OtherLocks, TypeOK
    <3> QED
      BY <2>1, <3>1 DEF OtherLocks, TypeOK
  <2>2. CASE LockEnds(f)
    BY <2>2 DEF LockEnds, TypeOK
  <2>3. CASE Appears(f)
    BY <2>3 DEF Appears, TypeOK
  <2> QED
    BY <1>4, <2>1, <2>2, <2>3
<1>5. CASE Restart
  BY <1>5, AnswerTypes DEF Restart, TypeOK
<1>6. CASE UNCHANGED vars
  BY <1>6 DEF vars, TypeOK
<1> QED
  BY <1>1, <1>2, <1>3, <1>4, <1>5, <1>6 DEF Next

\* The token store, the rows, the threads' copies and the server keep their types,
\* however many threads and windows there are.
THEOREM TypeCorrect == Spec => []TypeOK
  BY TypeInit, TypeStep, PTL DEF Spec
-----------------------------------------------------------------------------
\* The inductive invariant behind RecordedTokensAreOurs.

\* Two threads at a time that make no race are both about to lock.
Alone ==
    "race" \notin trouble =>
        \A t, u \in Threads :
            t # u /\ pc[t] # "idle" /\ pc[u] # "idle" => pc[t] \in Locking

Quiet == trouble \subseteq {"lost", "created", "claimed"}

\* A LOCK that was granted is in force until the thread has read the token.
Holding ==
    Quiet =>
        \A t \in Threads :
            /\ pc[t] = "props" \/ (pc[t] = "lock" /\ answer[t].status = "ok")
                  => lock["data"] \in mine
            /\ pc[t] = "propsRez" \/ (pc[t] = "lockRez" /\ answer[t].status = "ok")
                  => lock["rez"] \in mine

\* So the token that is read is this client's.
Told ==
    Quiet =>
        \A t \in Threads :
            pc[t] \in {"props", "propsRez"} /\ answer[t].status = "ok" => answer[t].token \in mine

IInv == TypeOK /\ Alone /\ Holding /\ Told /\ RecordedTokensAreOurs

\* What went wrong is never made undone.
LEMMA TroubleGrows == [Next]_vars => trouble \subseteq trouble'
  BY ZenonT(60) DEF Next, Command, StartLock, StartUnlock, StartDelete, StartList, Start, Noted,
         ClaimLock, Continue, LockAnswered, PropsAnswered, ExistsAnswered,
         LockRezAnswered, PropsRezAnswered, RollbackAnswered, UnlockAnswered,
         PropsAfterAnswered, UnlockRezAnswered, DeleteAnswered,
         ExistsDeleteAnswered, DeleteRezAnswered, ListAnswered, Serve, ServeLock,
         ServeProps, ServeUnlock, ServeDelete, CallFails, OtherLocks, LockEnds,
         Appears, Restart, vars

\* A thread goes on alone, or stays with the threads that lock, or notes the race.
LEMMA AloneGoto ==
    ASSUME TypeOK, Alone, trouble \subseteq trouble', NEW t \in Threads, NEW call \in PCs,
           pc' = [pc EXCEPT ![t] = call],
           \/ call \in Locking \cup {"idle"} /\ pc[t] \in Locking
           \/ pc[t] \notin Locking \cup {"idle"}
           \/ call = "idle"
           \/ Noted(t, call)
    PROVE  Alone'
<1> SUFFICES ASSUME "race" \notin trouble', NEW u \in Threads, NEW v \in Threads,
                    u # v, pc'[u] # "idle", pc'[v] # "idle"
             PROVE  pc'[u] \in Locking
  BY DEF Alone
<1>1. "race" \notin trouble
  OBVIOUS
<1>2. ASSUME NEW x \in Threads, NEW y \in Threads, x # y, pc[x] # "idle", pc[y] # "idle"
      PROVE pc[x] \in Locking /\ pc[y] \in Locking
  BY <1>1, <1>2 DEF Alone
<1>3. pc'[t] = call /\ \A x \in Threads \ {t} : pc'[x] = pc[x]
  BY DEF TypeOK
<1>4. CASE u # t /\ v # t
  BY <1>2, <1>3, <1>4
<1>5. CASE u = t \/ v = t
  <2>1. CASE call \in Locking \cup {"idle"} /\ pc[t] \in Locking
    BY <1>2, <1>3, <1>5, <2>1 DEF Locking
  <2>2. CASE pc[t] \notin Locking \cup {"idle"}
    BY <1>2, <1>3, <1>5, <2>2
  <2>3. CASE call = "idle"
    BY <1>3, <1>5, <2>3
  <2>4. CASE Noted(t, call)
    <3>1. ~Racing(t, call)
      BY <2>4 DEF Noted
    <3> QED
      BY <1>3, <1>5, <3>1 DEF Racing
  <2> QED
    BY <2>1, <2>2, <2>3, <2>4
<1> QED
  BY <1>4, <1>5

\* Every step keeps threads apart, or notes the race.
LEMMA AloneStep == ASSUME TypeOK, Alone, [Next]_vars PROVE Alone'
<1>0. trouble \subseteq trouble'
  BY TroubleGrows
<1>1. ASSUME NEW t \in Threads, NEW w \in Windows, Command(t, w) PROVE Alone'
  <2>1. ASSUME NEW call \in PCs, Goto(t, call), Noted(t, call) PROVE Alone'
    BY <1>0, <2>1, AloneGoto DEF Goto
  <2> QED
    BY <1>1, <2>1 DEF Command, StartLock, StartUnlock, StartDelete, StartList, Start
<1>2. ASSUME NEW t \in Threads, Continue(t) PROVE Alone'
  <2>1. ASSUME NEW call \in Locking \cup {"idle"}, Goto(t, call), pc[t] \in Locking PROVE Alone'
    BY <1>0, <2>1, AloneGoto DEF Goto, Locking
  <2>2. ASSUME NEW call \in PCs, Goto(t, call), pc[t] \notin Locking \cup {"idle"} PROVE Alone'
    BY <1>0, <2>2, AloneGoto DEF Goto
  <2>3. ASSUME Finish(t) PROVE Alone'
    BY <1>0, <2>3, AloneGoto DEF Goto, Finish
  <2>4. ASSUME NEW call \in PCs, Goto(t, call), Noted(t, call) PROVE Alone'
    BY <1>0, <2>4, AloneGoto DEF Goto
  <2>5. CASE LockAnswered(t)
    BY <2>5, <2>1, <2>3 DEF LockAnswered, Answered, Locking
  <2>6. CASE PropsAnswered(t)
    BY <2>6, <2>1, <2>3 DEF PropsAnswered, Answered, Locking
  <2>7. CASE ExistsAnswered(t)
    BY <2>7, <2>1, <2>3 DEF ExistsAnswered, Answered, Locking
  <2>8. CASE LockRezAnswered(t)
    BY <2>8, <2>4 DEF LockRezAnswered
  <2>9. CASE PropsRezAnswered(t)
    BY <2>9, <2>3, <2>4 DEF PropsRezAnswered
  <2>10. CASE RollbackAnswered(t) \/ UnlockRezAnswered(t) \/ DeleteRezAnswered(t) \/ ListAnswered(t)
    BY <2>10, <2>3 DEF RollbackAnswered, UnlockRezAnswered, DeleteRezAnswered, ListAnswered
  <2>11. CASE UnlockAnswered(t)
    BY <2>11, <2>2, <2>3 DEF UnlockAnswered, Answered, Locking
  <2>12. CASE PropsAfterAnswered(t)
    BY <2>12, <2>2, <2>3 DEF PropsAfterAnswered, Answered, Locking
  <2>13. CASE DeleteAnswered(t)
    BY <2>13, <2>2, <2>3 DEF DeleteAnswered, Answered, Locking
  <2>14. CASE ExistsDeleteAnswered(t)
    BY <2>14, <2>2, <2>3 DEF ExistsDeleteAnswered, Answered, Locking
  <2> QED
    BY <1>2, <2>5, <2>6, <2>7, <2>8, <2>9, <2>10, <2>11, <2>12, <2>13, <2>14 DEF Continue
<1>3. CASE Restart
  BY <1>3 DEF Restart, Alone
<1>4. CASE UNCHANGED pc
  BY <1>0, <1>4 DEF Alone
<1>5. ASSUME NEW t \in Threads, Serve(t) \/ CallFails(t) PROVE UNCHANGED pc
  BY <1>5 DEF Serve, CallFails
<1>6. ASSUME NEW w \in Windows, ClaimLock(w) PROVE UNCHANGED pc
  BY <1>6 DEF ClaimLock
<1>7. ASSUME NEW f \in Forks, OtherLocks(f) \/ LockEnds(f) \/ Appears(f) PROVE UNCHANGED pc
  BY <1>7 DEF OtherLocks, LockEnds, Appears
<1> QED
  BY <1>1, <1>2, <1>3, <1>4, <1>5, <1>6, <1>7 DEF Next, vars

\* Tokens of this client stay its own.
LEMMA MineGrows == [Next]_vars => mine \subseteq mine'
  BY ZenonT(60) DEF Next, Command, StartLock, StartUnlock, StartDelete, StartList, Start,
         ClaimLock, Continue, LockAnswered, PropsAnswered, ExistsAnswered,
         LockRezAnswered, PropsRezAnswered, RollbackAnswered, UnlockAnswered,
         PropsAfterAnswered, UnlockRezAnswered, DeleteAnswered,
         ExistsDeleteAnswered, DeleteRezAnswered, ListAnswered, Serve, ServeLock,
         ServeProps, ServeUnlock, ServeDelete, CallFails, OtherLocks, LockEnds,
         Appears, Restart, vars

\* The empty string is not among them.
LEMMA EmptyIsNotMine == TypeOK => Empty \notin mine
  BY DEF TypeOK

\* A thread that starts a call leaves the others as they are; it reads a token only
\* where a lock was granted.
LEMMA GrantGoto ==
    ASSUME TypeOK, Quiet, Holding, Told, NEW t \in Threads, NEW call \in PCs, Goto(t, call),
           UNCHANGED <<lock, mine>>,
           call = "props" => lock["data"] \in mine,
           call = "propsRez" => lock["rez"] \in mine
    PROVE  Holding' /\ Told'
<1>1. pc'[t] = call /\ answer'[t] = Waiting /\ answer'[t].status # "ok"
  BY DEF Goto, TypeOK, Waiting
<1>2. ASSUME NEW u \in Threads \ {t} PROVE pc'[u] = pc[u] /\ answer'[u] = answer[u]
  BY DEF Goto, TypeOK
<1>3. ASSUME NEW u \in Threads
      PROVE  /\ pc'[u] = "props" \/ (pc'[u] = "lock" /\ answer'[u].status = "ok")
                   => lock'["data"] \in mine'
             /\ pc'[u] = "propsRez" \/ (pc'[u] = "lockRez" /\ answer'[u].status = "ok")
                   => lock'["rez"] \in mine'
             /\ pc'[u] \in {"props", "propsRez"} /\ answer'[u].status = "ok"
                   => answer'[u].token \in mine'
  <2>1. CASE u = t
    BY <1>1, <2>1
  <2>2. CASE u # t
    BY <1>2, <2>2 DEF Holding, Told
  <2> QED
    BY <2>1, <2>2
<1> QED
  BY <1>3 DEF Holding, Told

\* What the client does leaves every granted lock in force and every token read its own.
LEMMA GrantClient ==
    ASSUME TypeOK, Quiet, Holding, Told, NEW t \in Threads,
           Continue(t) \/ \E w \in Windows : Command(t, w)
    PROVE  Holding' /\ Told'
<1>1. ASSUME NEW call \in PCs \ {"props", "propsRez"}, Goto(t, call), UNCHANGED <<lock, mine>>
      PROVE Holding' /\ Told'
  BY <1>1, GrantGoto
<1>2. ASSUME Finish(t), UNCHANGED <<lock, mine>> PROVE Holding' /\ Told'
  BY <1>1, <1>2 DEF Finish
<1>3. ASSUME NEW w \in Windows, Command(t, w) PROVE Holding' /\ Told'
  BY <1>1, <1>3 DEF Command, StartLock, StartUnlock, StartDelete, StartList, Start
<1>4. CASE LockAnswered(t)
  <2>1. CASE Succeeded(t)
    <3>1. lock["data"] \in mine
      BY <1>4, <2>1 DEF LockAnswered, Answered, Succeeded, Holding
    <3> QED
      BY <1>4, <2>1, <3>1, GrantGoto DEF LockAnswered
  <2>2. CASE ~Succeeded(t)
    BY <1>4, <2>2, <1>2 DEF LockAnswered
  <2> QED
    BY <2>1, <2>2
<1>5. CASE LockRezAnswered(t)
  <2>1. CASE Succeeded(t)
    <3>1. lock["rez"] \in mine
      BY <1>5, <2>1 DEF LockRezAnswered, Answered, Succeeded, Holding
    <3> QED
      BY <1>5, <2>1, <3>1, GrantGoto DEF LockRezAnswered
  <2>2. CASE ~Succeeded(t)
    BY <1>5, <2>2, <1>1 DEF LockRezAnswered
  <2> QED
    BY <2>1, <2>2
<1>6. CASE PropsAnswered(t)
  BY <1>6, <1>1, <1>2 DEF PropsAnswered
<1>7. CASE ExistsAnswered(t)
  BY <1>7, <1>1, <1>2 DEF ExistsAnswered
<1>8. CASE PropsRezAnswered(t)
  BY <1>8, <1>1, <1>2 DEF PropsRezAnswered
<1>9. CASE RollbackAnswered(t) \/ UnlockRezAnswered(t) \/ DeleteRezAnswered(t) \/ ListAnswered(t)
  BY <1>9, <1>2 DEF RollbackAnswered, UnlockRezAnswered, DeleteRezAnswered, ListAnswered
<1>10. CASE UnlockAnswered(t)
  BY <1>10, <1>1, <1>2 DEF UnlockAnswered
<1>11. CASE PropsAfterAnswered(t)
  BY <1>11, <1>1, <1>2 DEF PropsAfterAnswered
<1>12. CASE DeleteAnswered(t)
  BY <1>12, <1>1, <1>2 DEF DeleteAnswered
<1>13. CASE ExistsDeleteAnswered(t)
  BY <1>13, <1>1, <1>2 DEF ExistsDeleteAnswered
<1> QED
  BY <1>3, <1>4, <1>5, <1>6, <1>7, <1>8, <1>9, <1>10, <1>11, <1>12, <1>13 DEF Continue

\* A step that leaves the threads where they are, gives no thread a token and takes no
\* lock of this client keeps them, too.
LEMMA GrantKept ==
    ASSUME Quiet, Holding, Told, mine \subseteq mine', UNCHANGED pc,
           \A f \in Forks : lock[f] \in mine => lock'[f] \in mine',
           \A u \in Threads : answer'[u] = answer[u] \/ answer'[u].status # "ok"
    PROVE  Holding' /\ Told'
<1>1. ASSUME NEW u \in Threads
      PROVE  /\ pc'[u] = "props" \/ (pc'[u] = "lock" /\ answer'[u].status = "ok")
                   => lock'["data"] \in mine'
             /\ pc'[u] = "propsRez" \/ (pc'[u] = "lockRez" /\ answer'[u].status = "ok")
                   => lock'["rez"] \in mine'
             /\ pc'[u] \in {"props", "propsRez"} /\ answer'[u].status = "ok"
                   => answer'[u].token \in mine'
  BY DEF Holding, Told
<1> QED
  BY <1>1 DEF Holding, Told

\* The server answers a call: a LOCK it grants is this client's, and who releases one
\* is alone.
LEMMA GrantServe ==
    ASSUME TypeOK, Alone, Quiet, Holding, Told, NEW t \in Threads, Serve(t)
    PROVE  Holding' /\ Told'
<1> USE EmptyIsNotMine DEF TypeOK
<1>0. UNCHANGED pc /\ pc[t] # "idle"
  BY DEF Serve
<1>1. \A u \in Threads \ {t} : answer'[u] = answer[u]
  BY DEF Serve, ServeLock, ServeProps, ServeUnlock, ServeDelete, Respond
<1>2. CASE pc[t] \in {"lock", "lockRez"}
  <2>1. PICK f \in Forks : ServeLock(t, f) /\ (f = "data" <=> pc[t] = "lock")
    BY <1>2 DEF Serve
  <2>2. CASE f \in exists /\ lock[f] = Empty
    <3>1. lock' = [lock EXCEPT ![f] = issued + 1] /\ mine' = mine \cup {issued + 1}
      BY <2>1, <2>2 DEF ServeLock
    <3>2. \A g \in Forks : lock[g] \in mine => lock'[g] \in mine'
      BY <3>1
    <3>3. lock'[f] \in mine'
      BY <3>1
    <3>4. ASSUME NEW u \in Threads
          PROVE  /\ pc'[u] = "props" \/ (pc'[u] = "lock" /\ answer'[u].status = "ok")
                       => lock'["data"] \in mine'
                 /\ pc'[u] = "propsRez" \/ (pc'[u] = "lockRez" /\ answer'[u].status = "ok")
                       => lock'["rez"] \in mine'
                 /\ pc'[u] \in {"props", "propsRez"} /\ answer'[u].status = "ok"
                       => answer'[u].token \in mine'
      <4>1. CASE u = t
        BY <1>0, <1>2, <2>1, <3>3, <4>1
      <4>2. CASE u # t
        BY <1>0, <1>1, <3>1, <3>2, <4>2 DEF Holding, Told
      <4> QED
        BY <4>1, <4>2
    <3> QED
      BY <3>4 DEF Holding, Told
  <2>3. CASE ~(f \in exists /\ lock[f] = Empty)
    <3>1. answer'[t].status # "ok" /\ UNCHANGED <<lock, mine>>
      BY <2>1, <2>3 DEF ServeLock, Respond, Failed
    <3> QED
      BY <1>0, <1>1, <3>1, GrantKept
  <2> QED
    BY <2>2, <2>3
<1>3. CASE pc[t] \in {"props", "propsRez"}
  <2>1. PICK f \in Forks : ServeProps(t, f) /\ (f = "data" <=> pc[t] = "props")
    BY <1>3 DEF Serve
  <2>2. lock[f] \in mine
    BY <1>3, <2>1 DEF Holding
  <2>3. answer'[t].status = "ok" => answer'[t].token \in mine
    BY <2>1, <2>2 DEF ServeProps, Respond, Ok
  <2>4. UNCHANGED <<lock, mine>>
    BY <2>1 DEF ServeProps
  <2>5. ASSUME NEW u \in Threads
        PROVE  /\ pc'[u] = "props" \/ (pc'[u] = "lock" /\ answer'[u].status = "ok")
                     => lock'["data"] \in mine'
               /\ pc'[u] = "propsRez" \/ (pc'[u] = "lockRez" /\ answer'[u].status = "ok")
                     => lock'["rez"] \in mine'
               /\ pc'[u] \in {"props", "propsRez"} /\ answer'[u].status = "ok"
                     => answer'[u].token \in mine'
    <3>1. CASE u = t
      BY <1>0, <1>3, <2>3, <2>4, <3>1 DEF Holding
    <3>2. CASE u # t
      BY <1>0, <1>1, <2>4, <3>2 DEF Holding, Told
    <3> QED
      BY <3>1, <3>2
  <2> QED
    BY <2>5 DEF Holding, Told
<1>4. CASE pc[t] = "exists"
  <2>1. UNCHANGED <<lock, mine>>
    BY <1>4 DEF Serve, ServeProps
  <2>2. ASSUME NEW u \in Threads
        PROVE  /\ pc'[u] = "props" \/ (pc'[u] = "lock" /\ answer'[u].status = "ok")
                     => lock'["data"] \in mine'
               /\ pc'[u] = "propsRez" \/ (pc'[u] = "lockRez" /\ answer'[u].status = "ok")
                     => lock'["rez"] \in mine'
               /\ pc'[u] \in {"props", "propsRez"} /\ answer'[u].status = "ok"
                     => answer'[u].token \in mine'
    BY <1>0, <1>1, <1>4, <2>1 DEF Holding, Told
  <2> QED
    BY <2>2 DEF Holding, Told
<1>5. CASE pc[t] \notin Locking
  <2>1. \A u \in Threads \ {t} : pc'[u] = "idle"
    BY <1>0, <1>5 DEF Alone, Quiet
  <2>2. \A u \in Threads : pc'[u] \notin Locking
    BY <1>0, <1>5, <2>1 DEF Locking
  <2> QED
    BY <2>2 DEF Holding, Told, Locking
<1> QED
  BY <1>2, <1>3, <1>4, <1>5 DEF Locking

\* Every step keeps granted locks and tokens read this client's, or notes why not.
LEMMA GrantStep ==
    ASSUME TypeOK, Alone, Quiet, Quiet', Holding, Told, [Next]_vars
    PROVE  Holding' /\ Told'
<1>0. mine \subseteq mine' /\ Empty \notin mine
  BY MineGrows, EmptyIsNotMine
<1>1. ASSUME NEW t \in Threads, Continue(t) \/ \E w \in Windows : Command(t, w)
      PROVE  Holding' /\ Told'
  BY <1>1, GrantClient
<1>2. ASSUME NEW t \in Threads, Serve(t) PROVE Holding' /\ Told'
  BY <1>2, GrantServe
<1>3. ASSUME NEW t \in Threads, CallFails(t) PROVE Holding' /\ Told'
  <2>1. \A u \in Threads : answer'[u] = answer[u] \/ answer'[u].status # "ok"
    BY <1>3 DEF CallFails, Respond, Failed, TypeOK
  <2>2. UNCHANGED <<pc, lock>>
    BY <1>3 DEF CallFails
  <2> QED
    BY <1>0, <2>1, <2>2, GrantKept
<1>4. ASSUME NEW w \in Windows, ClaimLock(w) PROVE Holding' /\ Told'
  <2>1. UNCHANGED <<pc, answer, lock>>
    BY <1>4 DEF ClaimLock
  <2> QED
    BY <1>0, <2>1, GrantKept
<1>5. ASSUME NEW f \in Forks, OtherLocks(f) \/ LockEnds(f) \/ Appears(f) PROVE Holding' /\ Told'
  <2>1. \A g \in Forks : lock[g] \in mine => lock'[g] \in mine'
    BY <1>0, <1>5 DEF OtherLocks, LockEnds, Appears, Quiet, TypeOK
  <2>2. UNCHANGED <<pc, answer>>
    BY <1>5 DEF OtherLocks, LockEnds, Appears
  <2> QED
    BY <1>0, <2>1, <2>2, GrantKept
<1>6. CASE Restart
  <2>1. \A u \in Threads : pc'[u] = "idle"
    BY <1>6 DEF Restart
  <2> QED
    BY <2>1 DEF Holding, Told
<1>7. CASE UNCHANGED vars
  BY <1>7 DEF vars, Holding, Told
<1> QED
  BY <1>1, <1>2, <1>3, <1>4, <1>5, <1>6, <1>7 DEF Next

\* Every step keeps the tokens on record this client's: an entry is made only from a
\* token that was read, or from the copy of an item whose lock was just granted.
LEMMA RecordedStep ==
    ASSUME TypeOK, Quiet, Quiet', Told, RecordedTokensAreOurs, [Next]_vars
    PROVE  RecordedTokensAreOurs'
<1>0. mine \subseteq mine' /\ \A f \in Forks : db[f] \in mine \cup {NoEntry}
  BY MineGrows DEF RecordedTokensAreOurs, Quiet
<1>1. SUFFICES \A f \in Forks : db'[f] \in {db[f], NoEntry} \cup mine'
  BY <1>0, <1>1 DEF RecordedTokensAreOurs
<1>2. ASSUME NEW t \in Threads, Continue(t)
      PROVE  \A f \in Forks : db'[f] \in {db[f], NoEntry} \cup mine
  <2>1. ASSUME NEW f \in Forks, ItemUnlocked(f) \/ UNCHANGED db
        PROVE  \A g \in Forks : db'[g] \in {db[g], NoEntry} \cup mine
    BY <2>1 DEF ItemUnlocked, TypeOK
  <2>2. ASSUME NEW f \in Forks, NEW token \in mine, ItemLocked(f, token)
        PROVE  \A g \in Forks : db'[g] \in {db[g], NoEntry} \cup mine
    BY <2>2 DEF ItemLocked, TypeOK
  <2>3. CASE PropsAnswered(t)
    <3>1. Succeeded(t) => answer[t].token \in mine
      BY <2>3 DEF PropsAnswered, Answered, Succeeded, Told
    <3>2. Succeeded(t) => Filled(t) \in mine
      BY <3>1, EmptyIsNotMine DEF Filled
    <3> QED
      BY <2>3, <2>1, <2>2, <3>2 DEF PropsAnswered
  <2>4. CASE PropsRezAnswered(t)
    <3>1. Succeeded(t) => answer[t].token \in mine
      BY <2>4 DEF PropsRezAnswered, Answered, Succeeded, Told
    <3> QED
      BY <2>4, <2>1, <2>2, <3>1 DEF PropsRezAnswered
  <2>5. CASE PropsAfterAnswered(t)
    BY <2>5, <2>1 DEF PropsAfterAnswered, AfterDataChange, TypeOK
  <2>6. CASE LockAnswered(t) \/ ExistsAnswered(t) \/ LockRezAnswered(t)
             \/ ExistsDeleteAnswered(t) \/ ListAnswered(t)
    BY <2>6, <2>1 DEF LockAnswered, ExistsAnswered, LockRezAnswered, ExistsDeleteAnswered, ListAnswered
  <2>7. CASE RollbackAnswered(t) \/ UnlockAnswered(t) \/ UnlockRezAnswered(t)
             \/ DeleteAnswered(t) \/ DeleteRezAnswered(t)
    BY <2>7, <2>1 DEF RollbackAnswered, UnlockAnswered, UnlockRezAnswered, DeleteAnswered, DeleteRezAnswered
  <2> QED
    BY <1>2, <2>3, <2>4, <2>5, <2>6, <2>7 DEF Continue
<1>3. ASSUME NEW w \in Windows, ClaimLock(w)
      PROVE  \A f \in Forks : db'[f] \in {db[f], NoEntry} \cup mine'
  BY <1>3 DEF ClaimLock, ItemLocked, TypeOK
<1>4. CASE UNCHANGED db
  BY <1>4
<1>5. ASSUME NEW t \in Threads, Serve(t) \/ CallFails(t) \/ \E w \in Windows : Command(t, w)
      PROVE  UNCHANGED db
  BY <1>5 DEF Serve, CallFails, Command, StartLock, StartUnlock, StartDelete, StartList
<1>6. ASSUME NEW f \in Forks, OtherLocks(f) \/ LockEnds(f) \/ Appears(f) PROVE UNCHANGED db
  BY <1>6 DEF OtherLocks, LockEnds, Appears
<1> QED
  BY <1>0, <1>2, <1>3, <1>4, <1>5, <1>6 DEF Next, Restart, vars

\* IInv is inductive.
LEMMA IInvStep == IInv /\ [Next]_vars => IInv'
<1> SUFFICES ASSUME IInv, [Next]_vars PROVE IInv'
  OBVIOUS
<1>1. TypeOK' /\ Alone'
  BY TypeStep, AloneStep DEF IInv
<1>2. Quiet' => Quiet
  BY TroubleGrows DEF Quiet
<1>3. CASE Quiet'
  BY <1>1, <1>2, <1>3, GrantStep, RecordedStep DEF IInv
<1>4. CASE ~Quiet'
  BY <1>1, <1>4 DEF IInv, Quiet, Holding, Told, RecordedTokensAreOurs
<1> QED
  BY <1>3, <1>4

\* IInv holds in every reachable state.
LEMMA IInvHolds == Spec => []IInv
<1>1. Init => IInv
  <2>1. ASSUME Init PROVE IInv
    BY <2>1, TypeInit DEF Init, IInv, Alone, Holding, Told, RecordedTokensAreOurs
  <2> QED
    BY <2>1
<1> QED
  BY <1>1, IInvStep, PTL DEF Spec

\* Failed calls, claimed locks and resources that reappear never put a foreign or an
\* empty token on record: the lock thread records a token only after it has read it,
\* and nobody else can have the lock then.
THEOREM RecordedTokensStayOurs == Spec => []RecordedTokensAreOurs
<1>1. IInv => RecordedTokensAreOurs
  BY DEF IInv
<1> QED
  BY IInvHolds, <1>1, PTL
-----------------------------------------------------------------------------
\* Why a thread ends if its calls return: how many calls and answers are ahead of it.
CallsLeft(t) ==
    LET position == [idle |-> 0, list |-> 1,
                     lock |-> 6, props |-> 5, exists |-> 4, lockRez |-> 3, propsRez |-> 2, rollback |-> 1,
                     unlock |-> 3, propsAfter |-> 2, unlockRez |-> 1,
                     delete |-> 3, existsDelete |-> 2, deleteRez |-> 1]
        pending == [none |-> 2, ok |-> 1, absent |-> 1, failed |-> 0]
    IN  3 * position[pc[t]] + pending[answer[t].status]

\* Whatever anybody does leaves a thread at work where it is or brings it closer to its end: no
\* answer, refusal or rollback sends it back to a call it has made.
EachStepCounts ==
    [][\A t \in Threads :
          pc[t] # "idle" => CallsLeft(t)' < CallsLeft(t) \/ UNCHANGED <<pc[t], answer[t]>>]_vars

Counts(t) == CallsLeft(t)' < CallsLeft(t) \/ UNCHANGED <<pc[t], answer[t]>>

LEMMA GotoCounts ==
    ASSUME TypeOK, NEW t \in Threads, NEW call, Goto(t, call),
           \/ call = "idle" /\ pc[t] # "idle"
           \/ call = "props" /\ pc[t] = "lock"
           \/ call = "exists" /\ pc[t] = "props"
           \/ call = "lockRez" /\ pc[t] = "exists"
           \/ call = "propsRez" /\ pc[t] = "lockRez"
           \/ call = "rollback" /\ pc[t] \in {"lockRez", "propsRez"}
           \/ call = "propsAfter" /\ pc[t] = "unlock"
           \/ call = "unlockRez" /\ pc[t] = "propsAfter"
           \/ call = "existsDelete" /\ pc[t] = "delete"
           \/ call = "deleteRez" /\ pc[t] = "existsDelete"
    PROVE  \A u \in Threads : pc[u] # "idle" => Counts(u)
<1>1. pc' = [pc EXCEPT ![t] = call] /\ answer' = [answer EXCEPT ![t] = Waiting]
  BY DEF Goto
<1>2. pc[t] \in PCs /\ answer[t].status \in {"none", "ok", "absent", "failed"}
  BY DEF TypeOK, Answers
<1>3. pc'[t] = call /\ answer'[t].status = "none"
  BY <1>1 DEF TypeOK, Waiting
<1>4. CallsLeft(t)' < CallsLeft(t)
  BY <1>2, <1>3 DEF CallsLeft, PCs, LockCalls, UnlockCalls, DeleteCalls
<1>5. \A u \in Threads \ {t} : pc'[u] = pc[u] /\ answer'[u] = answer[u]
  BY <1>1 DEF TypeOK
<1> QED
  BY <1>4, <1>5 DEF Counts

LEMMA ContinueCounts ==
    ASSUME TypeOK, NEW t \in Threads, Continue(t)
    PROVE  \A u \in Threads : pc[u] # "idle" => Counts(u)
<1>1. \E call :
        /\ Goto(t, call)
        /\ \/ call = "idle" /\ pc[t] # "idle"
           \/ call = "props" /\ pc[t] = "lock"
           \/ call = "exists" /\ pc[t] = "props"
           \/ call = "lockRez" /\ pc[t] = "exists"
           \/ call = "propsRez" /\ pc[t] = "lockRez"
           \/ call = "rollback" /\ pc[t] \in {"lockRez", "propsRez"}
           \/ call = "propsAfter" /\ pc[t] = "unlock"
           \/ call = "unlockRez" /\ pc[t] = "propsAfter"
           \/ call = "existsDelete" /\ pc[t] = "delete"
           \/ call = "deleteRez" /\ pc[t] = "existsDelete"
  BY DEF Continue, Answered, Finish,
         LockAnswered, PropsAnswered, ExistsAnswered, LockRezAnswered, PropsRezAnswered,
         RollbackAnswered, UnlockAnswered, PropsAfterAnswered, UnlockRezAnswered,
         DeleteAnswered, ExistsDeleteAnswered, DeleteRezAnswered, ListAnswered
<1> QED
  BY <1>1, GotoCounts

\* An answer, or its loss, comes once.
LEMMA AnswerCounts ==
    ASSUME TypeOK, NEW t \in Threads, Serve(t) \/ CallFails(t)
    PROVE  \A u \in Threads : pc[u] # "idle" => Counts(u)
<1>1. /\ pc' = pc
      /\ \E a \in Answers :
            /\ answer' = [answer EXCEPT ![t] = a]
            /\ \/ answer[t].status = "none" /\ a.status # "none"
               \/ answer[t].status = "ok" /\ a.status = "failed"
  <2>1. CASE CallFails(t)
    BY <2>1, AnswerTypes DEF CallFails, Respond, Failed, work
  <2>2. CASE Serve(t)
    <3>1. \E a \in Answers : answer' = [answer EXCEPT ![t] = a] /\ a.status # "none"
      BY <2>2, AnswerTypes DEF Serve, ServeLock, ServeProps, ServeUnlock, ServeDelete, Respond, Failed, Ok, TypeOK
    <3> QED
      BY <2>2, <3>1 DEF Serve, work
  <2> QED
    BY <2>1, <2>2
<1>2. PICK a \in Answers :
            /\ answer' = [answer EXCEPT ![t] = a]
            /\ \/ answer[t].status = "none" /\ a.status # "none"
               \/ answer[t].status = "ok" /\ a.status = "failed"
  BY <1>1
<1>3. pc[t] \in PCs /\ a.status \in {"none", "ok", "absent", "failed"} /\ answer'[t] = a /\ pc'[t] = pc[t]
  BY <1>1, <1>2 DEF TypeOK, Answers
<1>4. CallsLeft(t)' < CallsLeft(t)
  BY <1>2, <1>3 DEF CallsLeft, PCs, LockCalls, UnlockCalls, DeleteCalls
<1>5. \A u \in Threads \ {t} : pc'[u] = pc[u] /\ answer'[u] = answer[u]
  BY <1>1, <1>2 DEF TypeOK
<1> QED
  BY <1>4, <1>5 DEF Counts

LEMMA StepCounts == TypeOK /\ [Next]_vars => \A t \in Threads : pc[t] # "idle" => Counts(t)
<1> SUFFICES ASSUME TypeOK, [Next]_vars PROVE \A t \in Threads : pc[t] # "idle" => Counts(t)
  OBVIOUS
<1>1. ASSUME NEW t \in Threads, NEW w \in Windows, Command(t, w)
      PROVE  \A u \in Threads : pc[u] # "idle" => Counts(u)
  <2>1. pc[t] = "idle" /\ \A u \in Threads \ {t} : pc'[u] = pc[u] /\ answer'[u] = answer[u]
    BY <1>1 DEF Command, StartLock, StartUnlock, StartDelete, StartList, Start, Goto, TypeOK
  <2> QED
    BY <2>1 DEF Counts
<1>2. ASSUME NEW t \in Threads, Continue(t) \/ Serve(t) \/ CallFails(t)
      PROVE  \A u \in Threads : pc[u] # "idle" => Counts(u)
  BY <1>2, ContinueCounts, AnswerCounts
<1>3. ASSUME Restart PROVE \A u \in Threads : pc[u] # "idle" => Counts(u)
  <2> SUFFICES ASSUME NEW u \in Threads, pc[u] # "idle" PROVE Counts(u)
    OBVIOUS
  <2>1. pc[u] \in PCs /\ answer[u].status \in {"none", "ok", "absent", "failed"}
    BY DEF TypeOK, Answers
  <2>2. pc'[u] = "idle" /\ answer'[u].status = "none"
    BY <1>3 DEF Restart, Waiting
  <2> QED
    BY <2>1, <2>2 DEF Counts, CallsLeft, PCs, LockCalls, UnlockCalls, DeleteCalls
<1>4. CASE \/ \E w \in Windows : ClaimLock(w)
           \/ \E f \in Forks : OtherLocks(f) \/ LockEnds(f) \/ Appears(f)
           \/ UNCHANGED vars
  BY <1>4 DEF ClaimLock, OtherLocks, LockEnds, Appears, vars, work, Counts
<1> QED
  BY <1>1, <1>2, <1>3, <1>4 DEF Next

\* The lock, unlock, delete and list threads are sequences of calls: CLockItemsThread with its rollback,
\* CUnlockItemsThread, CDeleteItemsThread, CListDirThread.
THEOREM ThreadsRunDown == Spec => EachStepCounts
<1>1. TypeOK /\ [Next]_vars => [\A t \in Threads : pc[t] # "idle" => Counts(t)]_vars
  BY StepCounts
<1> QED
  BY TypeCorrect, <1>1, PTL DEF Spec, EachStepCounts, Counts
=============================================================================
