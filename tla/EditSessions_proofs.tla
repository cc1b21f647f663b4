------------------------ MODULE EditSessions_proofs ------------------------
(***************************************************************************)
(* Theorems about EditSessions, for any number of threads and any server.  *)
(***************************************************************************)
EXTENDS EditSessions, TLAPS

USE DEF Forks, Tokens, Empty, NoEntry, Theirs, Versions, NoFile, Junk, NoDate, NotEdited,
        EditCalls, SaveCalls, Troubles, When, local, edits, work, server

\* An upload reads a file that is there.
PutHasFile == \A t \in Threads : pc[t] = "put" => file # NoFile

\* A GET brings a version of the item, the properties bring a token.
ReadTypes ==
    \A t \in Threads : answer[t].status = "ok" =>
        /\ pc[t] = "get" => answer[t].value \in {Junk} \cup Versions
        /\ pc[t] \in {"props", "propsRez", "propsAfter"}
              => answer[t].value \in {Theirs, Empty} \cup Tokens

TypeInv == TypeOK /\ PutHasFile /\ ReadTypes

PCs == {"idle"} \cup EditCalls \cup SaveCalls

\* Everything that comes back from a call is an answer.
LEMMA AnswerTypes ==
    /\ Waiting \in Answers /\ Failed \in Answers
    /\ \A x \in {Theirs, Empty} \cup Tokens \cup Versions : Ok(x) \in Answers
    /\ [status |-> "absent", value |-> Empty] \in Answers
    /\ Waiting.status # "ok" /\ Failed.status # "ok"
    /\ \A x : Ok(x).value = x
  BY ConstantsAssumption DEF Waiting, Failed, Ok, Answers

\* The next call of a thread keeps what is assumed of calls and answers; an upload
\* starts only with a file.
LEMMA GotoType ==
    ASSUME TypeInv, NEW t \in Threads, NEW call \in PCs, Goto(t, call)
    PROVE  /\ pc' \in [Threads -> PCs] /\ answer' \in [Threads -> Answers]
           /\ ReadTypes'
           /\ \A u \in Threads : pc'[u] = "put" => pc[u] = "put" \/ call = "put"
<1>1. Waiting \in Answers /\ Waiting.status # "ok"
  BY AnswerTypes
<1>2. pc \in [Threads -> PCs] /\ answer \in [Threads -> Answers]
  BY DEF TypeInv, TypeOK, PCs
<1>3. pc' = [pc EXCEPT ![t] = call] /\ answer' = [answer EXCEPT ![t] = Waiting]
  BY DEF Goto
<1>4. pc' \in [Threads -> PCs] /\ answer' \in [Threads -> Answers]
  BY <1>1, <1>2, <1>3
<1>5. answer'[t] = Waiting /\ pc'[t] = call
  BY <1>2, <1>3
<1>6. \A u \in Threads \ {t} : answer'[u] = answer[u] /\ pc'[u] = pc[u]
  BY <1>2, <1>3
<1>7. ReadTypes'
  <2> SUFFICES ASSUME NEW u \in Threads, answer'[u].status = "ok"
               PROVE  /\ pc'[u] = "get" => answer'[u].value \in {Junk} \cup Versions
                      /\ pc'[u] \in {"props", "propsRez", "propsAfter"}
                            => answer'[u].value \in {Theirs, Empty} \cup Tokens
    BY DEF ReadTypes
  <2>1. u # t
    BY <1>1, <1>5
  <2> QED
    BY <1>6, <2>1 DEF TypeInv, ReadTypes
<1> QED
  BY <1>4, <1>5, <1>6, <1>7

\* The end of a thread.
LEMMA FinishType ==
    ASSUME TypeInv, NEW t \in Threads, Finish(t)
    PROVE  /\ pc' \in [Threads -> PCs] /\ answer' \in [Threads -> Answers]
           /\ ReadTypes'
           /\ \A u \in Threads : pc'[u] = "put" => pc[u] = "put"
           /\ token' \in [Threads -> {NoEntry, Theirs, Empty} \cup Tokens]
           /\ relinquish' \subseteq Threads
<1>1. Goto(t, "idle") /\ SetToken(t, Empty) /\ relinquish' = relinquish \ {t}
  BY DEF Finish
<1>2. token' \in [Threads -> {NoEntry, Theirs, Empty} \cup Tokens]
  BY <1>1 DEF SetToken, TypeInv, TypeOK
<1>3. relinquish' \subseteq Threads
  BY <1>1 DEF TypeInv, TypeOK
<1> QED
  BY <1>1, <1>2, <1>3, GotoType DEF PCs

\* Saving the list, opening for editing and its end keep the dates dates.
LEMMA EditItemsType ==
    ASSUME TypeOK, date' \in {NoDate} \cup Versions, NEW files \in BOOLEAN, EditItems(files)
    PROVE  /\ lastEdit' \in {NotEdited, NoDate} \cup Versions
           /\ stored' \in {NotEdited, NoDate} \cup Versions
           /\ opened' \in BOOLEAN
<1>1. CASE UNCHANGED <<opened, edits>>
  BY <1>1 DEF TypeOK
<1>2. CASE ~UNCHANGED <<opened, edits>>
  <2>1. lastEdit' \in {NotEdited, NoDate} \cup Versions
    BY <1>2 DEF TypeOK, EditItems
  <2>2. stored' \in {NotEdited, NoDate} \cup Versions
    BY <1>2 DEF TypeOK, EditItems, SaveEditedFilesList
  <2>3. opened' \in BOOLEAN
    BY <1>2 DEF TypeOK, EditItems
  <2> QED
    BY <2>1, <2>2, <2>3
<1> QED
  BY <1>1, <1>2

\* So does the end of an edit, and an uploaded change.
LEMMA StopType ==
    ASSUME TypeOK, date' \in {NoDate} \cup Versions, StopEditingItem \/ UpdateItemEditTime
    PROVE  /\ lastEdit' \in {NotEdited, NoDate} \cup Versions
           /\ stored' \in {NotEdited, NoDate} \cup Versions
  BY DEF TypeOK, StopEditingItem, UpdateItemEditTime, SaveEditedFilesList

\* What a thread may do to the file and itself and be well typed.
WorkTyped ==
    /\ pc' \in [Threads -> PCs] /\ answer' \in [Threads -> Answers]
    /\ token' \in [Threads -> {NoEntry, Theirs, Empty} \cup Tokens]
    /\ relinquish' \subseteq Threads
    /\ ReadTypes' /\ PutHasFile'
FileTyped ==
    /\ file' \in {NoFile, Junk} \cup Versions /\ date' \in {NoDate} \cup Versions
    /\ clock' \in Versions
EditsTyped ==
    /\ lastEdit' \in {NotEdited, NoDate} \cup Versions
    /\ stored' \in {NotEdited, NoDate} \cup Versions
    /\ opened' \in BOOLEAN

\* A thread that leaves the file alone.
LEMMA FinishTyped ==
    ASSUME TypeInv, NEW t \in Threads, Finish(t), UNCHANGED <<file, date, clock>>
    PROVE  WorkTyped /\ FileTyped
<1>1. PutHasFile'
  BY FinishType DEF TypeInv, PutHasFile
<1>2. FileTyped
  BY DEF FileTyped, TypeInv, TypeOK
<1> QED
  BY <1>1, <1>2, FinishType DEF WorkTyped

\* Its next call, the upload excepted.
LEMMA GotoTyped ==
    ASSUME TypeInv, NEW t \in Threads, NEW call \in PCs \ {"put"}, Goto(t, call),
           UNCHANGED <<file, date, clock>>, relinquish' \subseteq Threads,
           token' \in [Threads -> {NoEntry, Theirs, Empty} \cup Tokens]
    PROVE  WorkTyped /\ FileTyped
<1>1. /\ pc' \in [Threads -> PCs] /\ answer' \in [Threads -> Answers] /\ ReadTypes'
      /\ \A u \in Threads : pc'[u] = "put" => pc[u] = "put"
  BY GotoType
<1>2. PutHasFile'
  BY <1>1 DEF TypeInv, PutHasFile
<1>3. FileTyped
  BY DEF FileTyped, TypeInv, TypeOK
<1> QED
  BY <1>1, <1>2, <1>3 DEF WorkTyped

\* A download that starts.
LEMMA DownloadTyped ==
    ASSUME TypeInv, NEW t \in Threads, Download(t)
    PROVE  WorkTyped /\ FileTyped
<1>1. CASE Finish(t) /\ UNCHANGED <<file, date, clock>>
  BY <1>1, FinishTyped
<1>2. CASE /\ clock < MaxClock /\ clock' = clock + 1
           /\ file' = Junk /\ date' = clock' /\ Goto(t, "get")
           /\ UNCHANGED <<token, relinquish>>
  <2>1. clock' \in Versions
    BY <1>2, ConstantsAssumption DEF TypeInv, TypeOK
  <2>2. FileTyped
    BY <1>2, <2>1 DEF FileTyped
  <2>3. PutHasFile'
    BY <1>2 DEF PutHasFile
  <2>4. pc' \in [Threads -> PCs] /\ answer' \in [Threads -> Answers] /\ ReadTypes'
    BY <1>2, GotoType DEF PCs
  <2>5. token' \in [Threads -> {NoEntry, Theirs, Empty} \cup Tokens] /\ relinquish' \subseteq Threads
    BY <1>2 DEF TypeInv, TypeOK
  <2> QED
    BY <2>2, <2>3, <2>4, <2>5 DEF WorkTyped
<1> QED
  BY <1>1, <1>2 DEF Download

\* A download given up.
LEMMA GiveUpTyped ==
    ASSUME TypeInv, NEW t \in Threads, GiveUp(t)
    PROVE  WorkTyped /\ FileTyped /\ EditsTyped /\ trouble' \subseteq Troubles
<1>1. WorkTyped /\ FileTyped
  BY FinishTyped DEF GiveUp
<1>2. EditsTyped
  BY <1>1, EditItemsType DEF GiveUp, FileTyped, TypeInv, EditsTyped
<1>3. trouble' \subseteq Troubles
  BY DEF GiveUp, Noted, Reopening, TypeInv, TypeOK
<1> QED
  BY <1>1, <1>2, <1>3

\* The end of an upload.
LEMMA ConcludeTyped ==
    ASSUME TypeInv, NEW t \in Threads, Conclude(t), pc[t] # "put", UNCHANGED clock
    PROVE  /\ WorkTyped /\ FileTyped
           /\ lastEdit' \in {NotEdited, NoDate} \cup Versions
           /\ stored' \in {NotEdited, NoDate} \cup Versions
<1>1. Finish(t)
  BY DEF Conclude
<1>2. FileTyped
  BY DEF FileTyped, Conclude, TypeInv, TypeOK
<1>3. /\ lastEdit' \in {NotEdited, NoDate} \cup Versions
      /\ stored' \in {NotEdited, NoDate} \cup Versions
  BY <1>2, StopType DEF FileTyped, Conclude, TypeInv
<1>4. file' = file \/ \A u \in Threads \ {t} : pc[u] # "put"
  BY DEF Conclude, FileBusy
<1>5. PutHasFile'
  BY <1>1, <1>4, FinishType DEF TypeInv, PutHasFile
<1> QED
  BY <1>1, <1>2, <1>3, <1>5, FinishType DEF WorkTyped

\* The initial states are typed.
LEMMA TypeInit == Init => TypeInv
<1> SUFFICES ASSUME Init PROVE TypeInv
  OBVIOUS
<1>1. pc = [t \in Threads |-> "idle"] /\ answer = [t \in Threads |-> Waiting]
  BY DEF Init
<1>2. PutHasFile /\ ReadTypes
  BY <1>1, AnswerTypes DEF PutHasFile, ReadTypes
<1>3. opened \in BOOLEAN /\ forkThere \in BOOLEAN
  BY DEF Init
<1>4. /\ lock \in [Forks -> {Empty, Theirs} \cup Tokens]
      /\ db \in [Forks -> {NoEntry, Theirs, Empty} \cup Tokens] /\ issued \in 0..MaxLocks
  BY ConstantsAssumption DEF Init
<1>5. answer \in [Threads -> Answers]
  BY <1>1, AnswerTypes
<1>6. TypeOK
  BY <1>3, <1>4, <1>5, ConstantsAssumption DEF Init, TypeOK
<1> QED
  BY <1>2, <1>6 DEF TypeInv

\* The variables that are not a thread's work, its file or the list of edits.
RestTyped ==
    /\ db' \in [Forks -> {NoEntry, Theirs, Empty} \cup Tokens]
    /\ trouble' \subseteq Troubles

\* What a client's step leaves alone and what it types make TypeInv.
LEMMA Assembled ==
    ASSUME TypeInv, WorkTyped, FileTyped, EditsTyped, RestTyped,
           UNCHANGED server, base' \in {Junk} \cup Versions
    PROVE  TypeInv'
<1>1. forkThere' \in BOOLEAN /\ opened' \in BOOLEAN
  BY DEF TypeInv, TypeOK, EditsTyped
<1>2. TypeOK'
  BY <1>1 DEF TypeInv, TypeOK, WorkTyped, FileTyped, EditsTyped, RestTyped, PCs
<1> QED
  BY <1>2 DEF TypeInv, WorkTyped

\* The user's commands keep the types.
LEMMA TypeCommand ==
    ASSUME TypeInv,
           \/ RemoveSelectedFiles
           \/ \E t \in Threads : StartEdit(t) \/ \E over \in BOOLEAN : StartSave(t, over)
    PROVE  TypeInv'
<1>0. /\ file \in {NoFile, Junk} \cup Versions /\ date \in {NoDate} \cup Versions
      /\ clock \in Versions /\ opened \in BOOLEAN /\ base \in {Junk} \cup Versions
      /\ lastEdit \in {NotEdited, NoDate} \cup Versions
      /\ stored \in {NotEdited, NoDate} \cup Versions
      /\ token \in [Threads -> {NoEntry, Theirs, Empty} \cup Tokens]
      /\ relinquish \subseteq Threads
      /\ db \in [Forks -> {NoEntry, Theirs, Empty} \cup Tokens] /\ trouble \subseteq Troubles
  BY DEF TypeInv, TypeOK
<1>1. CASE RemoveSelectedFiles
  <2>1. date' \in {NoDate} \cup Versions
    BY <1>0, <1>1 DEF RemoveSelectedFiles
  <2>2. EditsTyped
    BY <1>0, <1>1, <2>1, StopType DEF RemoveSelectedFiles, TypeInv, EditsTyped
  <2>3. WorkTyped /\ FileTyped
    BY <1>1 DEF RemoveSelectedFiles, WorkTyped, FileTyped, TypeInv, TypeOK, PCs, ReadTypes, PutHasFile
  <2> QED
    BY <1>0, <1>1, <2>2, <2>3, Assembled DEF RemoveSelectedFiles, RestTyped
<1>2. ASSUME NEW t \in Threads, StartEdit(t) PROVE TypeInv'
  <2>0. /\ trouble' \subseteq Troubles /\ UNCHANGED <<db, server, base>>
    BY <1>0, <1>2 DEF StartEdit, Noted, Reopening, Racing
  <2>1. CASE UNCHANGED <<work, answer, file, date, clock>> /\ EditItems(TRUE)
    <3>1. EditsTyped
      BY <1>0, <2>1, EditItemsType DEF EditsTyped, TypeInv
    <3>2. WorkTyped /\ FileTyped
      BY <2>1 DEF WorkTyped, FileTyped, TypeInv, TypeOK, PCs, ReadTypes, PutHasFile
    <3> QED
      BY <1>0, <2>0, <3>1, <3>2, Assembled DEF RestTyped
  <2>2. CASE Download(t) /\ UNCHANGED <<opened, edits>>
    <3>1. EditsTyped
      BY <1>0, <2>2 DEF EditsTyped
    <3> QED
      BY <1>0, <2>0, <2>2, <3>1, DownloadTyped, Assembled DEF RestTyped
  <2>3. CASE Goto(t, "lock") /\ UNCHANGED <<token, relinquish, local, edits, clock>>
    <3>1. EditsTyped
      BY <1>0, <2>3 DEF EditsTyped
    <3>2. WorkTyped /\ FileTyped
      BY <1>0, <2>3, GotoTyped DEF PCs
    <3> QED
      BY <1>0, <2>0, <3>1, <3>2, Assembled DEF RestTyped
  <2> QED
    BY <1>2, <2>1, <2>2, <2>3 DEF StartEdit
<1>3. ASSUME NEW t \in Threads, NEW over \in BOOLEAN, StartSave(t, over) PROVE TypeInv'
  <2>0. trouble' \subseteq Troubles /\ UNCHANGED <<local, stored, db, server, clock, base>> /\ lastEdit' = date
    BY <1>0, <1>3 DEF StartSave, Noted, Racing
  <2>1. EditsTyped
    BY <1>0, <2>0 DEF EditsTyped
  <2>2. WorkTyped /\ FileTyped
    <3>1. CASE file = NoFile
      BY <1>3, <2>0, <3>1, FinishTyped DEF StartSave
    <3>2. CASE file # NoFile
      <4>1. Goto(t, "put") /\ token' = [token EXCEPT ![t] = db["data"]]
            /\ relinquish' \subseteq relinquish \cup {t}
        BY <1>3, <3>2 DEF StartSave, SetToken
      <4>2. token' \in [Threads -> {NoEntry, Theirs, Empty} \cup Tokens] /\ relinquish' \subseteq Threads
        BY <1>0, <4>1
      <4>3. pc' \in [Threads -> PCs] /\ answer' \in [Threads -> Answers] /\ ReadTypes'
        BY <4>1, GotoType DEF PCs
      <4>4. PutHasFile' /\ FileTyped
        BY <1>0, <2>0, <3>2 DEF PutHasFile, FileTyped
      <4> QED
        BY <4>2, <4>3, <4>4 DEF WorkTyped
    <3> QED
      BY <3>1, <3>2
  <2> QED
    BY <1>0, <2>0, <2>1, <2>2, Assembled DEF RestTyped
<1> QED
  BY <1>1, <1>2, <1>3

\* Ending and starting the program keeps the types.
LEMMA TypeRestart == ASSUME TypeInv, Restart PROVE TypeInv'
<1>1. WorkTyped
  BY AnswerTypes DEF Restart, WorkTyped, PCs, ReadTypes, PutHasFile
<1>2. EditsTyped
  <2>1. lastEdit' \in {NotEdited, NoDate} \cup Versions
    BY DEF Restart, TypeInv, TypeOK
  <2>2. opened' \in BOOLEAN
    BY DEF Restart, TypeInv, TypeOK
  <2> QED
    BY <2>1, <2>2 DEF Restart, EditsTyped, TypeInv, TypeOK
<1>3. FileTyped /\ RestTyped
  BY DEF Restart, FileTyped, RestTyped, TypeInv, TypeOK, Noted
<1> QED
  BY <1>1, <1>2, <1>3, Assembled DEF Restart, TypeInv, TypeOK

\* The answers to a thread's calls keep the types.
LEMMA TypeContinue == ASSUME TypeInv, NEW t \in Threads, Continue(t) PROVE TypeInv'
<1>a. /\ base \in {Junk} \cup Versions /\ trouble \subseteq Troubles
      /\ db \in [Forks -> {NoEntry, Theirs, Empty} \cup Tokens]
      /\ token \in [Threads -> {NoEntry, Theirs, Empty} \cup Tokens] /\ relinquish \subseteq Threads
  BY DEF TypeInv, TypeOK
<1>b. UNCHANGED <<opened, edits>> => EditsTyped
  BY DEF EditsTyped, TypeInv, TypeOK
<1>c. Succeeded(t) /\ pc[t] \in {"props", "propsRez", "propsAfter"}
         => answer[t].value \in {Theirs, Empty} \cup Tokens
  BY DEF TypeInv, ReadTypes, Succeeded
<1>1. CASE LockAnswered(t)
  <2>1. CASE Succeeded(t)
    BY <1>1, <2>1, <1>a, <1>b, GotoTyped, Assembled DEF LockAnswered, RestTyped, PCs
  <2>2. CASE ~Succeeded(t)
    BY <1>1, <2>2, <1>a, GiveUpTyped, Assembled DEF LockAnswered, RestTyped
  <2> QED
    BY <2>1, <2>2
<1>2. CASE PropsAnswered(t)
  <2>1. CASE Succeeded(t)
    <3>1. answer[t].value \in {Theirs, Empty} \cup Tokens
      BY <1>2, <2>1, <1>c DEF PropsAnswered, Answered
    <3>2. db' \in [Forks -> {NoEntry, Theirs, Empty} \cup Tokens] /\ trouble' \subseteq Troubles
      BY <1>2, <2>1, <3>1, <1>a DEF PropsAnswered, ItemLocked
    <3>3. WorkTyped /\ FileTyped
      <4>1. CASE Encoding /\ RezForksHidden
        <5>1. token' \in [Threads -> {NoEntry, Theirs, Empty} \cup Tokens]
          BY <1>2, <2>1, <3>1, <4>1, <1>a DEF PropsAnswered, Download, SetToken, Finish, TypeInv, TypeOK
        <5> QED
          BY <1>2, <2>1, <4>1, <5>1, <1>a, GotoTyped DEF PropsAnswered, PCs
      <4>2. CASE ~(Encoding /\ RezForksHidden)
        BY <1>2, <2>1, <4>2, DownloadTyped DEF PropsAnswered
      <4> QED
        BY <4>1, <4>2
    <3> QED
      BY <1>2, <2>1, <3>2, <3>3, <1>a, <1>b, Assembled DEF PropsAnswered, RestTyped
  <2>2. CASE ~Succeeded(t)
    BY <1>2, <2>2, <1>a, GiveUpTyped, Assembled DEF PropsAnswered, RestTyped
  <2> QED
    BY <2>1, <2>2
<1>3. CASE ExistsAnswered(t)
  <2>1. WorkTyped /\ FileTyped
    BY <1>3, <1>a, GotoTyped, DownloadTyped DEF ExistsAnswered, PCs
  <2> QED
    BY <1>3, <2>1, <1>a, <1>b, Assembled DEF ExistsAnswered, RestTyped
<1>4. CASE LockRezAnswered(t)
  <2>1. WorkTyped /\ FileTyped
    BY <1>4, <1>a, GotoTyped DEF LockRezAnswered, PCs
  <2> QED
    BY <1>4, <2>1, <1>a, <1>b, Assembled DEF LockRezAnswered, RestTyped
<1>5. CASE PropsRezAnswered(t)
  <2>1. WorkTyped /\ FileTyped
    BY <1>5, <1>a, GotoTyped, DownloadTyped DEF PropsRezAnswered, PCs
  <2>2. db' \in [Forks -> {NoEntry, Theirs, Empty} \cup Tokens]
    BY <1>5, <1>a, <1>c DEF PropsRezAnswered, Answered, ItemLocked
  <2> QED
    BY <1>5, <2>1, <2>2, <1>a, <1>b, Assembled DEF PropsRezAnswered, RestTyped
<1>6. CASE RollbackAnswered(t)
  <2>1. db' \in [Forks -> {NoEntry, Theirs, Empty} \cup Tokens]
    BY <1>6, <1>a DEF RollbackAnswered, ItemUnlocked
  <2> QED
    BY <1>6, <2>1, <1>a, GiveUpTyped, Assembled DEF RollbackAnswered, RestTyped
<1>7. CASE GetAnswered(t)
  <2>1. clock' \in Versions
    BY <1>7, ConstantsAssumption DEF GetAnswered, TypeInv, TypeOK
  <2>2. Succeeded(t) => answer[t].value \in {Junk} \cup Versions
    BY <1>7 DEF GetAnswered, Answered, Succeeded, TypeInv, ReadTypes
  <2>3. FileTyped /\ base' \in {Junk} \cup Versions /\ file' # NoFile
    BY <1>7, <2>1, <2>2, <1>a DEF GetAnswered, FileTyped
  <2>4. EditsTyped
    <3>1. Succeeded(t) \in BOOLEAN
      BY DEF Succeeded
    <3>2. EditItems(Succeeded(t))
      BY <1>7 DEF GetAnswered
    <3>3. CASE Succeeded(t)
      <4>1. EditItems(TRUE)
        BY <3>2, <3>3 DEF EditItems
      <4> QED
        BY <4>1, <2>3, EditItemsType DEF FileTyped, EditsTyped, TypeInv
    <3>4. CASE ~Succeeded(t)
      <4>1. EditItems(FALSE)
        BY <3>2, <3>4 DEF EditItems
      <4> QED
        BY <4>1, <2>3, EditItemsType DEF FileTyped, EditsTyped, TypeInv
    <3> QED
      BY <3>3, <3>4
  <2>5. WorkTyped
    BY <1>7, <2>3, FinishType DEF GetAnswered, WorkTyped, PutHasFile
  <2>6. RestTyped /\ UNCHANGED server
    BY <1>7, <1>a DEF GetAnswered, RestTyped, Noted, Reopening
  <2> QED
    BY <2>3, <2>4, <2>5, <2>6, Assembled
<1>8. CASE PutAnswered(t)
  <2>1. WorkTyped /\ FileTyped
    BY <1>8, <1>a, GotoTyped, FinishTyped DEF PutAnswered, PCs
  <2> QED
    BY <1>8, <2>1, <1>a, <1>b, Assembled DEF PutAnswered, RestTyped
<1>9. CASE UnlockAnswered(t)
  <2>1. WorkTyped /\ FileTyped
    BY <1>9, <1>a, GotoTyped DEF UnlockAnswered, PCs
  <2>2. db' \in [Forks -> {NoEntry, Theirs, Empty} \cup Tokens]
    BY <1>9, <1>a DEF UnlockAnswered, ItemUnlocked
  <2> QED
    BY <1>9, <2>1, <2>2, <1>a, <1>b, Assembled DEF UnlockAnswered, RestTyped
<1>d. ASSUME Conclude(t), pc[t] # "put", UNCHANGED <<opened, clock>>
      PROVE  WorkTyped /\ FileTyped /\ EditsTyped
  BY <1>d, ConcludeTyped DEF EditsTyped, TypeInv, TypeOK
<1>10. CASE PropsAfterAnswered(t)
  <2>1. db' \in [Forks -> {NoEntry, Theirs, Empty} \cup Tokens]
    BY <1>10, <1>a DEF PropsAfterAnswered, AfterDataChange
  <2>2. WorkTyped /\ FileTyped /\ EditsTyped
    <3>1. CASE Encoding
      <4>1. token' = [token EXCEPT ![t] = db["rez"]] /\ Goto(t, "putRez")
            /\ UNCHANGED <<relinquish, file, date, edits, opened, clock>>
        BY <1>10, <3>1 DEF PropsAfterAnswered, SetToken
      <4>2. token' \in [Threads -> {NoEntry, Theirs, Empty} \cup Tokens]
        BY <4>1, <1>a
      <4> QED
        BY <4>1, <4>2, <1>a, <1>b, GotoTyped DEF PCs
    <3>2. CASE ~Encoding
      BY <1>10, <3>2, <1>d DEF PropsAfterAnswered, Answered
    <3> QED
      BY <3>1, <3>2
  <2> QED
    BY <1>10, <2>1, <2>2, <1>a, Assembled DEF PropsAfterAnswered, RestTyped
<1>11. CASE PutRezAnswered(t)
  <2>1. CASE ~Succeeded(t)
    BY <1>11, <2>1, <1>a, <1>b, FinishTyped, Assembled DEF PutRezAnswered, RestTyped
  <2>2. CASE Succeeded(t) /\ t \notin relinquish
    BY <1>11, <2>2, <1>a, <1>d, Assembled DEF PutRezAnswered, RestTyped, Answered
  <2>3. CASE Succeeded(t) /\ t \in relinquish
    BY <1>11, <2>3, <1>a, <1>b, GotoTyped, Assembled DEF PutRezAnswered, RestTyped, PCs
  <2> QED
    BY <2>1, <2>2, <2>3
<1>12. CASE NullToken(t)
  BY <1>12, TypeRestart DEF NullToken
<1>13. CASE UnlockRezAnswered(t)
  <2>1. db' \in [Forks -> {NoEntry, Theirs, Empty} \cup Tokens]
    BY <1>13, <1>a DEF UnlockRezAnswered, ItemUnlocked
  <2> QED
    BY <1>13, <2>1, <1>a, <1>d, Assembled DEF UnlockRezAnswered, RestTyped, Answered
<1> QED
  BY <1>1, <1>2, <1>3, <1>4, <1>5, <1>6, <1>7, <1>8, <1>9, <1>10, <1>11, <1>12, <1>13 DEF Continue

\* What the server and the network do to a call keeps the types.
LEMMA TypeServe == ASSUME TypeInv, NEW t \in Threads, Serve(t) \/ CallFails(t) PROVE TypeInv'
<1>0. UNCHANGED <<local, edits, db, work, clock>>
  BY DEF Serve, CallFails
<1>1. PICK a \in Answers : Respond(t, a) /\ (a.status = "ok" =>
          /\ pc[t] = "get" => a.value \in {Junk} \cup Versions
          /\ pc[t] \in {"props", "propsRez", "propsAfter"} => a.value \in {Theirs, Empty} \cup Tokens)
  <2>1. CASE CallFails(t)
    BY <2>1, AnswerTypes DEF CallFails
  <2>2. CASE Serve(t)
    <3>1. ASSUME NEW f \in Forks PROVE lock[f] \in {Empty, Theirs} \cup Tokens
      BY DEF TypeInv, TypeOK
    <3>2. CASE pc[t] \in {"props", "propsRez", "propsAfter", "exists"}
      <4>1. PICK f \in Forks : ServeProps(t, f)
        BY <2>2, <3>2 DEF Serve
      <4>2. CASE f = "data" \/ forkThere
        BY <3>1, <3>2, <4>1, <4>2, AnswerTypes DEF ServeProps
      <4>3. CASE ~(f = "data" \/ forkThere)
        BY <3>2, <4>1, <4>3, AnswerTypes DEF ServeProps
      <4> QED
        BY <4>2, <4>3
    <3>3. CASE pc[t] = "get"
      <4>1. remote \in {Junk} \cup Versions
        BY DEF TypeInv, TypeOK
      <4>2. Ok(remote) \in Answers
        BY <4>1, AnswerTypes
      <4> QED
        BY <2>2, <3>3, <4>1, <4>2, AnswerTypes DEF Serve, ServeGet
    <3>4. CASE pc[t] \notin {"props", "propsRez", "propsAfter", "exists", "get"}
      <4>1. Respond(t, Ok(Empty)) \/ Respond(t, Failed)
        BY <2>2, <3>4 DEF Serve, ServeLock, ServeUnlock, ServePut, ServePutRez
      <4> QED
        BY <3>4, <4>1, AnswerTypes
    <3> QED
      BY <3>2, <3>3, <3>4
  <2> QED
    BY <2>1, <2>2
<1>2. answer' \in [Threads -> Answers] /\ answer'[t] = a
      /\ \A u \in Threads \ {t} : answer'[u] = answer[u]
  BY <1>1 DEF Respond, TypeInv, TypeOK
<1>3. ReadTypes'
  <2> SUFFICES ASSUME NEW u \in Threads, answer'[u].status = "ok"
               PROVE  /\ pc'[u] = "get" => answer'[u].value \in {Junk} \cup Versions
                      /\ pc'[u] \in {"props", "propsRez", "propsAfter"}
                            => answer'[u].value \in {Theirs, Empty} \cup Tokens
    BY DEF ReadTypes
  <2>1. CASE u = t
    BY <1>0, <1>1, <1>2, <2>1
  <2>2. CASE u # t
    BY <1>0, <1>2, <2>2 DEF TypeInv, ReadTypes
  <2> QED
    BY <2>1, <2>2
<1>4. PutHasFile'
  BY <1>0 DEF TypeInv, PutHasFile
<1>5. remote' \in {Junk} \cup Versions /\ base' \in {Junk} \cup Versions
  BY DEF TypeInv, TypeOK, PutHasFile, Serve, CallFails, ServeLock, ServeProps, ServeUnlock,
         ServeGet, ServePut, ServePutRez
<1>6. lock' \in [Forks -> {Empty, Theirs} \cup Tokens] /\ issued' \in 0..MaxLocks
  BY ConstantsAssumption
     DEF TypeInv, TypeOK, Serve, CallFails, ServeLock, ServeProps, ServeUnlock,
         ServeGet, ServePut, ServePutRez
<1>7. forkThere' \in BOOLEAN
  BY DEF TypeInv, TypeOK, Serve, CallFails, ServeLock, ServeProps, ServeUnlock,
         ServeGet, ServePut, ServePutRez
<1>8. trouble' \subseteq Troubles
  BY DEF TypeInv, TypeOK, Serve, CallFails, ServeLock, ServeProps, ServeUnlock,
         ServeGet, ServePut, ServePutRez, Noted
<1>9. opened' \in BOOLEAN
  BY <1>0 DEF TypeInv, TypeOK
<1>10. TypeOK'
  BY <1>0, <1>2, <1>5, <1>6, <1>7, <1>8, <1>9 DEF TypeInv, TypeOK
<1> QED
  BY <1>3, <1>4, <1>10 DEF TypeInv

\* So do the editing application and the other clients.
LEMMA TypeOthers ==
    ASSUME TypeInv,
           \/ UserSaves \/ OtherWrites \/ ForkAppears
           \/ \E f \in Forks : OtherLocks(f) \/ LockEnds(f)
    PROVE  TypeInv'
<1>0. UNCHANGED <<opened, edits, db, work, answer, issued, base>>
  BY DEF UserSaves, OtherWrites, ForkAppears, OtherLocks, LockEnds
<1>1. clock' \in Versions /\ remote' \in {Junk} \cup Versions
  BY ConstantsAssumption
     DEF TypeInv, TypeOK, UserSaves, OtherWrites, ForkAppears, OtherLocks, LockEnds
<1>2. file' \in {NoFile, Junk} \cup Versions /\ date' \in {NoDate} \cup Versions
      /\ (file # NoFile => file' # NoFile)
  BY <1>1 DEF TypeInv, TypeOK, UserSaves, OtherWrites, ForkAppears, OtherLocks, LockEnds
<1>3. lock' \in [Forks -> {Empty, Theirs} \cup Tokens] /\ trouble' \subseteq Troubles
  BY ZenonT(60) DEF TypeInv, TypeOK, UserSaves, OtherWrites, ForkAppears, OtherLocks, LockEnds, Noted
<1>4. forkThere' \in BOOLEAN
  BY DEF TypeInv, TypeOK, UserSaves, OtherWrites, ForkAppears, OtherLocks, LockEnds
<1>5. opened' \in BOOLEAN
  BY <1>0 DEF TypeInv, TypeOK
<1>6. TypeOK'
  BY <1>0, <1>1, <1>2, <1>3, <1>4, <1>5 DEF TypeInv, TypeOK
<1>7. PutHasFile' /\ ReadTypes'
  BY <1>0, <1>2 DEF TypeInv, PutHasFile, ReadTypes
<1> QED
  BY <1>6, <1>7 DEF TypeInv

\* Every step keeps the types.
LEMMA TypeStep == TypeInv /\ [Next]_vars => TypeInv'
<1> SUFFICES ASSUME TypeInv, [Next]_vars PROVE TypeInv'
  OBVIOUS
<1>1. CASE UNCHANGED vars
  <2>1. opened' \in BOOLEAN /\ forkThere' \in BOOLEAN
    BY <1>1 DEF vars, TypeInv, TypeOK
  <2>2. TypeOK'
    BY <1>1, <2>1 DEF vars, TypeInv, TypeOK
  <2> QED
    BY <1>1, <2>2 DEF vars, TypeInv, PutHasFile, ReadTypes
<1>2. CASE Next
  BY <1>2, TypeCommand, TypeContinue, TypeServe, TypeRestart, TypeOthers DEF Next
<1> QED
  BY <1>1, <1>2

\* Every variable keeps its type in every reachable state; in particular an upload has
\* a file to read until it is answered, whatever other threads and the user do.
THEOREM TypeCorrect == Spec => []TypeOK
<1>1. Spec => []TypeInv
  BY TypeInit, TypeStep, PTL DEF Spec
<1>2. TypeInv => TypeOK
  BY DEF TypeInv
<1> QED
  BY <1>1, <1>2, PTL
-----------------------------------------------------------------------------
\* The inductive invariant behind NoJunkIsUploaded: what holds while one thread at a
\* time is at work.

OthersIdle(t) == \A u \in Threads \ {t} : pc[u] = "idle"

Solo == \A t \in Threads : pc[t] # "idle" => OthersIdle(t)

\* The server, an upload and what a download brought are complete; what is edited, now
\* or after a restart, has a complete file; a thread that is to edit the item is the
\* first to do so.
Whole ==
    /\ remote \in Versions
    /\ \A t \in Threads :
          /\ pc[t] = "put" => file \in Versions
          /\ pc[t] = "get" /\ answer[t].status = "ok" => answer[t].value \in Versions
          /\ pc[t] \in EditCalls => lastEdit = NotEdited
    /\ lastEdit # NotEdited => file \in Versions
    /\ stored # NotEdited => lastEdit # NotEdited

IInv == TypeInv /\ ("race" \notin trouble => Solo /\ Whole)

\* A thread at work is alone, and what it does next leaves it alone.
LEMMA SoloGoto ==
    ASSUME TypeInv, NEW t \in Threads, OthersIdle(t), NEW call \in PCs, Goto(t, call)
    PROVE  /\ Solo' /\ \A u \in Threads \ {t} : pc'[u] = "idle"
           /\ pc'[t] = call /\ answer'[t].status # "ok"
<1>1. pc'[t] = call /\ answer'[t] = Waiting /\ \A u \in Threads \ {t} : pc'[u] = pc[u]
  BY DEF Goto, TypeInv, TypeOK
<1> QED
  BY <1>1, AnswerTypes DEF Solo, OthersIdle

\* A thread's step that leaves the item on the server alone keeps what is complete
\* complete, if its next call may be made with the file and the list as they are then.
LEMMA WholeGoto ==
    ASSUME TypeInv, Whole, NEW t \in Threads, OthersIdle(t), NEW call \in PCs, Goto(t, call),
           UNCHANGED remote,
           call = "put" => file' \in Versions,
           call \in EditCalls => lastEdit' = NotEdited,
           lastEdit' # NotEdited => file' \in Versions,
           stored' # NotEdited => lastEdit' # NotEdited
    PROVE  Solo' /\ Whole'
<1>1. /\ Solo' /\ \A u \in Threads \ {t} : pc'[u] = "idle"
      /\ pc'[t] = call /\ answer'[t].status # "ok"
  BY SoloGoto
<1>2. ASSUME NEW u \in Threads
      PROVE  /\ pc'[u] = "put" => file' \in Versions
             /\ pc'[u] = "get" /\ answer'[u].status = "ok" => answer'[u].value \in Versions
             /\ pc'[u] \in EditCalls => lastEdit' = NotEdited
  <2>1. CASE u = t
    BY <1>1, <2>1
  <2>2. CASE u # t
    BY <1>1, <2>2
  <2> QED
    BY <2>1, <2>2
<1> QED
  BY <1>1, <1>2 DEF Whole

\* The same for the end of a thread and the operations it may end with.
LEMMA WholeFinish ==
    ASSUME TypeInv, Whole, NEW t \in Threads, OthersIdle(t), Finish(t), UNCHANGED remote,
           lastEdit' # NotEdited => file' \in Versions,
           stored' # NotEdited => lastEdit' # NotEdited
    PROVE  Solo' /\ Whole'
  BY WholeGoto DEF Finish, PCs

\* A download starts only for an item that is not edited.
LEMMA WholeDownload ==
    ASSUME TypeInv, Whole, NEW t \in Threads, OthersIdle(t), Download(t),
           lastEdit = NotEdited, UNCHANGED <<remote, edits>>
    PROVE  Solo' /\ Whole'
<1>1. lastEdit' = NotEdited /\ stored' = NotEdited
  BY DEF Whole
<1> QED
  BY <1>1, WholeFinish, WholeGoto DEF Download, PCs

\* Giving a download up edits nothing.
LEMMA WholeGiveUp ==
    ASSUME TypeInv, Whole, NEW t \in Threads, OthersIdle(t), GiveUp(t),
           lastEdit = NotEdited, UNCHANGED remote
    PROVE  Solo' /\ Whole'
<1>1. lastEdit' = NotEdited /\ stored' = NotEdited
  BY DEF Whole, GiveUp, EditItems, SaveEditedFilesList
<1> QED
  BY <1>1, WholeFinish DEF GiveUp

\* The end of an upload: with the file the edit goes, and without the edit nothing.
LEMMA WholeConclude ==
    ASSUME TypeInv, Whole, NEW t \in Threads, OthersIdle(t), Conclude(t), UNCHANGED remote
    PROVE  Solo' /\ Whole'
<1>1. CASE StopEditingItem
  <2>1. lastEdit' = NotEdited /\ stored' = NotEdited
    BY <1>1 DEF Whole, StopEditingItem, SaveEditedFilesList
  <2> QED
    BY <2>1, WholeFinish DEF Conclude
<1>2. CASE ~StopEditingItem
  <2>1. file' = file /\ UpdateItemEditTime
    BY <1>2 DEF Conclude
  <2>2. lastEdit' # NotEdited => lastEdit # NotEdited
    BY <2>1 DEF UpdateItemEditTime
  <2>3. stored' # NotEdited => lastEdit' # NotEdited
    BY <2>1 DEF UpdateItemEditTime, SaveEditedFilesList, Whole
  <2> QED
    BY <2>1, <2>2, <2>3, WholeFinish DEF Conclude, Whole
<1> QED
  BY <1>1, <1>2

\* The program ends: nothing is at work, and what is on disk was edited.
LEMMA WholeRestart == ASSUME TypeInv, Whole, Restart PROVE Solo' /\ Whole'
<1>1. \A u \in Threads : pc'[u] = "idle"
  BY DEF Restart
<1>2. lastEdit' # NotEdited => lastEdit # NotEdited
  BY DEF Restart, Whole
<1>3. stored' # NotEdited => lastEdit' # NotEdited
  BY DEF Restart, Whole
<1> QED
  BY <1>1, <1>2, <1>3 DEF Solo, Whole, Restart

\* The user's commands: a second command at a time is a race.
LEMMA WholeCommand ==
    ASSUME TypeInv, Solo, Whole, "race" \notin trouble',
           \/ RemoveSelectedFiles
           \/ \E t \in Threads : StartEdit(t) \/ \E over \in BOOLEAN : StartSave(t, over)
    PROVE  Solo' /\ Whole'
<1>1. CASE RemoveSelectedFiles
  <2>1. lastEdit' = NotEdited /\ stored' = NotEdited
    BY <1>1 DEF RemoveSelectedFiles, StopEditingItem, SaveEditedFilesList, Whole
  <2> QED
    BY <1>1, <2>1 DEF RemoveSelectedFiles, Solo, OthersIdle, Whole
<1>2. ASSUME NEW t \in Threads, Noted(Racing(t)) PROVE OthersIdle(t)
  BY <1>2 DEF Noted, Racing, OthersIdle
<1>3. ASSUME NEW t \in Threads, StartEdit(t) PROVE Solo' /\ Whole'
  <2>1. CASE lastEdit # NotEdited
    <3>1. /\ UNCHANGED <<work, answer, file, remote>> /\ EditItems(TRUE)
      BY <1>3, <2>1 DEF StartEdit
    <3>2. lastEdit' = lastEdit /\ (stored' # NotEdited => lastEdit' # NotEdited)
      BY <2>1, <3>1 DEF EditItems, SaveEditedFilesList, Whole
    <3> QED
      BY <3>1, <3>2 DEF Solo, OthersIdle, Whole
  <2>2. CASE lastEdit = NotEdited
    <3>1. OthersIdle(t)
      BY <1>2, <1>3, <2>2 DEF StartEdit
    <3>2. CASE Download(t) /\ UNCHANGED edits
      BY <1>3, <2>2, <3>1, <3>2, WholeDownload DEF StartEdit
    <3>3. CASE Goto(t, "lock") /\ UNCHANGED edits
      BY <1>3, <2>2, <3>1, <3>3, WholeGoto DEF StartEdit, PCs, Whole
    <3> QED
      BY <1>3, <2>2, <3>2, <3>3 DEF StartEdit
  <2> QED
    BY <2>1, <2>2
<1>4. ASSUME NEW t \in Threads, NEW over \in BOOLEAN, StartSave(t, over) PROVE Solo' /\ Whole'
  <2>1. OthersIdle(t)
    BY <1>2, <1>4 DEF StartSave
  <2>2. file \in Versions /\ file # NoFile
    BY <1>4 DEF StartSave, FileHasChanged, Whole
  <2>3. Goto(t, "put") /\ UNCHANGED <<file, remote, stored>> /\ lastEdit' = date
    BY <1>4, <2>2 DEF StartSave
  <2>4. lastEdit' # NotEdited
    BY <2>3 DEF TypeInv, TypeOK
  <2> QED
    BY <2>1, <2>2, <2>3, <2>4, WholeGoto DEF PCs
<1> QED
  BY <1>1, <1>3, <1>4

\* The answers to a thread's calls.
LEMMA WholeContinue ==
    ASSUME TypeInv, Solo, Whole, NEW t \in Threads, Continue(t)
    PROVE  Solo' /\ Whole'
<1>a. pc[t] # "idle" => OthersIdle(t)
  BY DEF Solo
<1>b. pc[t] \in EditCalls => lastEdit = NotEdited /\ stored = NotEdited
  BY DEF Whole
<1>c. lastEdit # NotEdited => file \in Versions
  BY DEF Whole
<1>d. stored # NotEdited => lastEdit # NotEdited
  BY DEF Whole
<1>1. CASE LockAnswered(t)
  <2>1. CASE Succeeded(t)
    BY <1>1, <2>1, <1>a, <1>b, WholeGoto DEF LockAnswered, Answered, PCs
  <2>2. CASE ~Succeeded(t)
    BY <1>1, <2>2, <1>a, <1>b, WholeGiveUp DEF LockAnswered, Answered
  <2> QED
    BY <2>1, <2>2
<1>2. CASE PropsAnswered(t)
  <2>1. CASE Succeeded(t)
    BY <1>2, <2>1, <1>a, <1>b, WholeGoto, WholeDownload DEF PropsAnswered, Answered, PCs
  <2>2. CASE ~Succeeded(t)
    BY <1>2, <2>2, <1>a, <1>b, WholeGiveUp DEF PropsAnswered, Answered
  <2> QED
    BY <2>1, <2>2
<1>3. CASE ExistsAnswered(t)
  BY <1>3, <1>a, <1>b, WholeGoto, WholeDownload DEF ExistsAnswered, Answered, PCs
<1>4. CASE LockRezAnswered(t)
  BY <1>4, <1>a, <1>b, WholeGoto DEF LockRezAnswered, Answered, PCs
<1>5. CASE PropsRezAnswered(t)
  BY <1>5, <1>a, <1>b, WholeGoto, WholeDownload DEF PropsRezAnswered, Answered, PCs
<1>6. CASE RollbackAnswered(t)
  BY <1>6, <1>a, <1>b, WholeGiveUp DEF RollbackAnswered, Answered
<1>7. CASE GetAnswered(t)
  <2>1. Succeeded(t) => file' \in Versions
    BY <1>7 DEF GetAnswered, Answered, Succeeded, Whole
  <2>2. ~Succeeded(t) => lastEdit' = NotEdited
    BY <1>7, <1>b DEF GetAnswered, Answered, EditItems
  <2>3. stored' # NotEdited => lastEdit' # NotEdited
    BY <1>7, <1>b DEF GetAnswered, Answered, EditItems, SaveEditedFilesList
  <2> QED
    BY <1>7, <2>1, <2>2, <2>3, <1>a, WholeFinish DEF GetAnswered, Answered
<1>8. CASE PutAnswered(t)
  BY <1>8, <1>a, <1>c, <1>d, WholeGoto, WholeFinish DEF PutAnswered, Answered, PCs
<1>9. CASE UnlockAnswered(t)
  BY <1>9, <1>a, <1>c, <1>d, WholeGoto DEF UnlockAnswered, Answered, PCs
<1>10. CASE PropsAfterAnswered(t)
  BY <1>10, <1>a, <1>c, <1>d, WholeGoto, WholeConclude DEF PropsAfterAnswered, Answered, PCs
<1>11. CASE PutRezAnswered(t)
  BY <1>11, <1>a, <1>c, <1>d, WholeGoto, WholeFinish, WholeConclude DEF PutRezAnswered, Answered, PCs
<1>12. CASE NullToken(t)
  BY <1>12, WholeRestart DEF NullToken
<1>13. CASE UnlockRezAnswered(t)
  BY <1>13, <1>a, WholeConclude DEF UnlockRezAnswered, Answered
<1> QED
  BY <1>1, <1>2, <1>3, <1>4, <1>5, <1>6, <1>7, <1>8, <1>9, <1>10, <1>11, <1>12, <1>13 DEF Continue

\* The server stores what is uploaded and gives out what it has.
LEMMA WholeServe ==
    ASSUME TypeInv, Solo, Whole, NEW t \in Threads, Serve(t) \/ CallFails(t)
    PROVE  Solo' /\ Whole'
<1>1. UNCHANGED <<pc, file, lastEdit, stored>>
  BY DEF Serve, CallFails
<1>2. remote' \in Versions
  BY DEF Whole, Serve, CallFails, ServeLock, ServeProps, ServeUnlock, ServeGet, ServePut, ServePutRez
<1>3. \A u \in Threads \ {t} : answer'[u] = answer[u]
  BY DEF TypeInv, TypeOK, Serve, CallFails, Respond, ServeLock, ServeProps, ServeUnlock,
         ServeGet, ServePut, ServePutRez
<1>4. pc[t] = "get" /\ answer'[t].status = "ok" => answer'[t].value \in Versions
  <2>1. CASE Serve(t) /\ pc[t] = "get"
    BY <2>1 DEF Serve, ServeGet, Respond, Ok, TypeInv, TypeOK, Whole
  <2>2. CASE CallFails(t)
    BY <2>2 DEF CallFails, Respond, Failed, TypeInv, TypeOK
  <2> QED
    BY <2>1, <2>2
<1> QED
  BY <1>1, <1>2, <1>3, <1>4 DEF Solo, OthersIdle, Whole

\* The editing application and the other clients make complete versions.
LEMMA WholeOthers ==
    ASSUME TypeInv, TypeInv', Solo, Whole,
           \/ UserSaves \/ OtherWrites \/ ForkAppears
           \/ \E f \in Forks : OtherLocks(f) \/ LockEnds(f)
    PROVE  Solo' /\ Whole'
<1>1. UNCHANGED <<pc, answer, lastEdit, stored>>
  BY DEF UserSaves, OtherWrites, ForkAppears, OtherLocks, LockEnds
<1>2. remote' \in {remote, clock'} /\ file' \in {file, clock'}
  BY DEF UserSaves, OtherWrites, ForkAppears, OtherLocks, LockEnds
<1>3. clock' \in Versions
  BY DEF TypeInv, TypeOK
<1> QED
  BY <1>1, <1>2, <1>3 DEF Solo, OthersIdle, Whole

\* A race stays noted.
LEMMA RaceStays == [Next]_vars => ("race" \in trouble => "race" \in trouble')
  BY ZenonT(60) DEF Next, StartEdit, StartSave, Continue, LockAnswered, PropsAnswered, ExistsAnswered,
         LockRezAnswered, PropsRezAnswered, RollbackAnswered, GetAnswered, GiveUp,
         PutAnswered, UnlockAnswered, PropsAfterAnswered, PutRezAnswered, NullToken,
         UnlockRezAnswered, Serve, ServeLock, ServeProps, ServeUnlock, ServeGet,
         ServePut, ServePutRez, CallFails, RemoveSelectedFiles, Restart, UserSaves,
         OtherWrites, ForkAppears, OtherLocks, LockEnds, Noted, vars

\* IInv holds at first.
LEMMA IInvInit == Init => IInv
<1> SUFFICES ASSUME Init PROVE IInv
  OBVIOUS
<1>1. Solo
  BY DEF Init, Solo
<1>2. Whole
  BY ConstantsAssumption DEF Init, Whole
<1> QED
  BY <1>1, <1>2, TypeInit DEF IInv

\* Every step keeps it.
LEMMA IInvStep == IInv /\ [Next]_vars => IInv'
<1> SUFFICES ASSUME IInv, [Next]_vars PROVE IInv'
  OBVIOUS
<1>0. TypeInv /\ TypeInv'
  BY TypeStep DEF IInv
<1> SUFFICES ASSUME "race" \notin trouble' PROVE Solo' /\ Whole'
  BY <1>0 DEF IInv
<1>1. Solo /\ Whole
  BY RaceStays DEF IInv
<1>2. CASE UNCHANGED vars
  BY <1>1, <1>2 DEF vars, Solo, OthersIdle, Whole
<1>3. CASE Next
  BY <1>0, <1>1, <1>3, WholeCommand, WholeContinue, WholeServe, WholeRestart, WholeOthers DEF Next
<1> QED
  BY <1>2, <1>3

\* IInv holds in every reachable state.
LEMMA IInvHolds == Spec => []IInv
  BY IInvInit, IInvStep, PTL DEF Spec

\* While commands do not overlap, no sequence of failing downloads, saves, restarts and
\* uploads puts an incomplete file in the place of the item.
THEOREM UploadsAreWhole == Spec => []NoJunkIsUploaded
<1>1. IInv => NoJunkIsUploaded
  BY DEF IInv, Whole, NoJunkIsUploaded
<1> QED
  BY IInvHolds, <1>1, PTL
-----------------------------------------------------------------------------
\* Why a thread ends if its calls return: how many calls and answers are ahead of it.
CallsLeft(t) ==
    LET position == [idle |-> 0, lock |-> 6, props |-> 5, exists |-> 4, lockRez |-> 3, propsRez |-> 2,
                     rollback |-> 1, get |-> 1,
                     put |-> 5, unlock |-> 4, propsAfter |-> 3, putRez |-> 2, unlockRez |-> 1]
        pending == [none |-> 2, ok |-> 1, absent |-> 1, failed |-> 0]
    IN  3 * position[pc[t]] + pending[answer[t].status]

\* Whatever anybody does leaves a thread at work where it is or brings it closer to its end,
\* other threads on the same item included.
EachStepCounts ==
    [][\A t \in Threads :
          pc[t] # "idle" => CallsLeft(t)' < CallsLeft(t) \/ UNCHANGED <<pc[t], answer[t]>>]_vars

Counts(t) == CallsLeft(t)' < CallsLeft(t) \/ UNCHANGED <<pc[t], answer[t]>>

LEMMA GotoCounts ==
    ASSUME TypeOK, NEW t \in Threads, NEW call, Goto(t, call),
           \/ call = "idle" /\ pc[t] # "idle"
           \/ call = "props" /\ pc[t] = "lock"
           \/ call = "exists" /\ pc[t] = "props"
           \/ call = "lockRez" /\ pc[t] = "exists"
           \/ call = "propsRez" /\ pc[t] = "lockRez"
           \/ call = "rollback" /\ pc[t] \in {"lockRez", "propsRez"}
           \/ call = "get" /\ pc[t] \in {"props", "exists", "propsRez"}
           \/ call = "unlock" /\ pc[t] = "put"
           \/ call = "propsAfter" /\ pc[t] \in {"put", "unlock"}
           \/ call = "putRez" /\ pc[t] = "propsAfter"
           \/ call = "unlockRez" /\ pc[t] = "putRez"
    PROVE  \A u \in Threads : pc[u] # "idle" => Counts(u)
<1>1. pc' = [pc EXCEPT ![t] = call] /\ answer' = [answer EXCEPT ![t] = Waiting]
  BY DEF Goto
<1>2. pc[t] \in PCs /\ answer[t].status \in {"none", "ok", "absent", "failed"}
  BY DEF TypeOK, Answers, PCs
<1>3. pc'[t] = call /\ answer'[t].status = "none"
  BY <1>1 DEF TypeOK, Waiting
<1>4. CallsLeft(t)' < CallsLeft(t)
  BY <1>2, <1>3 DEF CallsLeft, PCs, EditCalls, SaveCalls
<1>5. \A u \in Threads \ {t} : pc'[u] = pc[u] /\ answer'[u] = answer[u]
  BY <1>1 DEF TypeOK
<1> QED
  BY <1>4, <1>5 DEF Counts

\* The end of the program ends every thread.
LEMMA RestartCounts ==
    ASSUME TypeOK, Restart
    PROVE  \A u \in Threads : pc[u] # "idle" => Counts(u)
<1> SUFFICES ASSUME NEW u \in Threads, pc[u] # "idle" PROVE Counts(u)
  OBVIOUS
<1>1. pc[u] \in PCs /\ answer[u].status \in {"none", "ok", "absent", "failed"}
  BY DEF TypeOK, Answers, PCs
<1>2. pc'[u] = "idle" /\ answer'[u].status = "none"
  BY DEF Restart, Waiting
<1> QED
  BY <1>1, <1>2 DEF Counts, CallsLeft, PCs, EditCalls, SaveCalls

LEMMA ContinueCounts ==
    ASSUME TypeOK, NEW t \in Threads, Continue(t)
    PROVE  \A u \in Threads : pc[u] # "idle" => Counts(u)
<1>1. CASE NullToken(t)
  BY <1>1, RestartCounts DEF NullToken
<1>2. CASE ~NullToken(t)
  <2>1. \E call :
        /\ Goto(t, call)
        /\ \/ call = "idle" /\ pc[t] # "idle"
           \/ call = "props" /\ pc[t] = "lock"
           \/ call = "exists" /\ pc[t] = "props"
           \/ call = "lockRez" /\ pc[t] = "exists"
           \/ call = "propsRez" /\ pc[t] = "lockRez"
           \/ call = "rollback" /\ pc[t] \in {"lockRez", "propsRez"}
           \/ call = "get" /\ pc[t] \in {"props", "exists", "propsRez"}
           \/ call = "unlock" /\ pc[t] = "put"
           \/ call = "propsAfter" /\ pc[t] \in {"put", "unlock"}
           \/ call = "putRez" /\ pc[t] = "propsAfter"
           \/ call = "unlockRez" /\ pc[t] = "putRez"
    BY <1>2 DEF Continue, Answered, Finish, Download, GiveUp, Conclude,
           LockAnswered, PropsAnswered, ExistsAnswered, LockRezAnswered, PropsRezAnswered,
           RollbackAnswered, GetAnswered, PutAnswered, UnlockAnswered, PropsAfterAnswered,
           PutRezAnswered, UnlockRezAnswered
  <2> QED
    BY <2>1, GotoCounts
<1> QED
  BY <1>1, <1>2

\* An answer, or its loss, comes once.
LEMMA AnswerCounts ==
    ASSUME TypeOK, NEW t \in Threads, Serve(t) \/ CallFails(t)
    PROVE  \A u \in Threads : pc[u] # "idle" => Counts(u)
<1>1. /\ pc' = pc
      /\ \E a \in Answers :
            /\ answer' = [answer EXCEPT ![t] = a]
            /\ a.status \in {"ok", "absent", "failed"}
            /\ \/ answer[t].status = "none"
               \/ answer[t].status = "ok" /\ a.status = "failed"
  <2>1. CASE CallFails(t)
    BY <2>1, AnswerTypes DEF CallFails, Respond, Failed, work
  <2>2. CASE Serve(t)
    <3>1. \E a \in Answers : answer' = [answer EXCEPT ![t] = a] /\ a.status \in {"ok", "absent", "failed"}
      BY <2>2, AnswerTypes DEF TypeOK, Serve, ServeLock, ServeProps, ServeUnlock, ServeGet, ServePut, ServePutRez, Respond, Failed, Ok
    <3> QED
      BY <2>2, <3>1 DEF Serve, work
  <2> QED
    BY <2>1, <2>2
<1>2. PICK a \in Answers :
            /\ answer' = [answer EXCEPT ![t] = a]
            /\ a.status \in {"ok", "absent", "failed"}
            /\ \/ answer[t].status = "none"
               \/ answer[t].status = "ok" /\ a.status = "failed"
  BY <1>1
<1>3. pc[t] \in PCs /\ answer'[t] = a /\ pc'[t] = pc[t]
  BY <1>1, <1>2 DEF TypeOK, PCs
<1>4. CallsLeft(t)' < CallsLeft(t)
  BY <1>2, <1>3 DEF CallsLeft, PCs, EditCalls, SaveCalls
<1>5. \A u \in Threads \ {t} : pc'[u] = pc[u] /\ answer'[u] = answer[u]
  BY <1>1, <1>2 DEF TypeOK
<1> QED
  BY <1>4, <1>5 DEF Counts

LEMMA StepCounts == TypeOK /\ [Next]_vars => \A t \in Threads : pc[t] # "idle" => Counts(t)
<1> SUFFICES ASSUME TypeOK, [Next]_vars PROVE \A t \in Threads : pc[t] # "idle" => Counts(t)
  OBVIOUS
<1>1. ASSUME NEW t \in Threads, StartEdit(t) \/ \E over \in BOOLEAN : StartSave(t, over)
      PROVE  \A u \in Threads : pc[u] # "idle" => Counts(u)
  <2>1. pc[t] = "idle" /\ \A u \in Threads \ {t} : pc'[u] = pc[u] /\ answer'[u] = answer[u]
    BY <1>1 DEF StartEdit, StartSave, Download, Finish, Goto, TypeOK, work
  <2> QED
    BY <2>1 DEF Counts
<1>2. ASSUME NEW t \in Threads, Continue(t) \/ Serve(t) \/ CallFails(t)
      PROVE  \A u \in Threads : pc[u] # "idle" => Counts(u)
  BY <1>2, ContinueCounts, AnswerCounts
<1>3. ASSUME Restart PROVE \A u \in Threads : pc[u] # "idle" => Counts(u)
  BY <1>3, RestartCounts
<1>4. CASE \/ RemoveSelectedFiles \/ UserSaves \/ OtherWrites \/ ForkAppears
           \/ \E f \in Forks : OtherLocks(f) \/ LockEnds(f)
           \/ UNCHANGED vars
  BY <1>4 DEF RemoveSelectedFiles, UserSaves, OtherWrites, ForkAppears, OtherLocks, LockEnds, vars, work, Counts
<1> QED
  BY <1>1, <1>2, <1>3, <1>4 DEF Next

\* The edit and save-back threads are sequences of calls, however often the user edits and saves:
\* CEditItemsThread with its rollback, CSaveToWebThread.
THEOREM ThreadsRunDown == Spec => EachStepCounts
<1>1. TypeOK /\ [Next]_vars => [\A t \in Threads : pc[t] # "idle" => Counts(t)]_vars
  BY StepCounts
<1> QED
  BY TypeCorrect, <1>1, PTL DEF Spec, EachStepCounts, Counts
=============================================================================
