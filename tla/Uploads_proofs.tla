--------------------------- MODULE Uploads_proofs ---------------------------
(***************************************************************************)
(* Theorems about Uploads, for every tree of files and folders and every    *)
(* selection.                                                               *)
(***************************************************************************)
EXTENDS Uploads, FiniteSetTheorems, SequenceTheorems, TLAPS

\* What the resources are.
LEMMA ResourceTypes ==
    /\ \A i \in Items : <<i, "data">> \in Resources
    /\ \A f \in Files : <<f, "rez">> \in Resources
    /\ \A f \in Files : f \in Items /\ f \notin Folders
  BY ConstantsAssumption DEF Resources, Items

\* What is left of the items.
LEMMA Heads ==
    ASSUME NEW s \in Seq(Items), s # <<>>
    PROVE  /\ Head(s) \in Items /\ Tail(s) \in Seq(Items)
           /\ Len(s) # 1 => Tail(s) # <<>>
<1>1. Len(s) \in Nat \ {0}
  BY EmptySeq
<1>2. Head(s) \in Items /\ Tail(s) \in Seq(Items) /\ Len(Tail(s)) = Len(s) - 1
  BY HeadTailProperties
<1>3. ASSUME Len(s) # 1 PROVE Tail(s) # <<>>
  <2>1. Len(Tail(s)) # 0
    BY <1>1, <1>2, <1>3
  <2>2. Len(<<>>) = 0
    BY EmptySeq
  <2> QED
    BY <2>1, <2>2, Zenon
<1> QED
  BY <1>2, <1>3
-----------------------------------------------------------------------------
\* Types.
ServerOK ==
    /\ content \in [Resources -> {"none", "theirs", "mine"}]
    /\ lock \in [Resources -> {"free", "ours", "theirs"}]
ClientOK == record \subseteq Resources /\ row \in [Files -> {"none", "plain", "local"}]
JobOK ==
    /\ pc \in {"idle", "check", "alert"} \cup FolderCalls \cup FileCalls
    /\ pick \in Seq(Items) /\ todo \in Seq(Items)
    /\ pc # "idle" => todo # <<>> /\ pick # <<>>
    /\ pc \in FolderCalls => Head(todo) \in Folders
    /\ pc \in FileCalls => Head(todo) \in Files
FlagsOK ==
    /\ answer \in Answers
    /\ held \in {"no", "given", "found"} /\ token \in {"none", "own", "empty"}
    /\ qualified \in BOOLEAN /\ unlock \in BOOLEAN /\ overwrite \in BOOLEAN
    /\ created \in BOOLEAN /\ canceled \in BOOLEAN /\ muted \in BOOLEAN
TypeInv == ServerOK /\ ClientOK /\ JobOK /\ FlagsOK /\ trouble \subseteq Troubles

LEMMA TypeInvOK == TypeInv => TypeOK
  BY DEF TypeInv, TypeOK, ServerOK, ClientOK, JobOK, FlagsOK, FolderCalls, FileCalls

LEMMA TypeInit == Init => TypeInv
<1> SUFFICES ASSUME Init PROVE TypeInv
  OBVIOUS
<1>1. ServerOK /\ ClientOK
  BY DEF Init, ServerOK, ClientOK
<1>2. JobOK
  BY DEF Init, JobOK, FolderCalls, FileCalls
<1>3. FlagsOK
  BY DEF Init, FlagsOK, Answers
<1>4. trouble \subseteq {"orphan"}
  BY Zenon DEF Init, When
<1>5. trouble \subseteq Troubles
  BY <1>4 DEF Troubles
<1> QED
  BY <1>1, <1>2, <1>3, <1>5 DEF TypeInv

\* What the thread changes when it goes on.
MovesOn == JobOK' /\ FlagsOK'

LEMMA FinishOK == Finish => MovesOn
<1> SUFFICES ASSUME Finish PROVE MovesOn
  OBVIOUS
<1>1. "idle" \notin FolderCalls /\ "idle" \notin FileCalls /\ <<>> \in Seq(Items)
  BY EmptySeq DEF FolderCalls, FileCalls
<1>2. JobOK'
  BY <1>1 DEF Finish, Call, JobOK
<1>3. FlagsOK'
  BY DEF Finish, Call, FlagsOK, Answers
<1> QED
  BY <1>2, <1>3 DEF MovesOn

LEMMA BeginOK ==
    ASSUME TypeInv, pc # "idle", NEW rest \in Seq(Items), rest # <<>>, Begin(rest)
    PROVE  MovesOn
<1>1. JobOK'
  BY DEF TypeInv, Begin, Call, JobOK, job, FolderCalls, FileCalls
<1>2. FlagsOK'
  BY DEF TypeInv, Begin, Call, FlagsOK, job, Answers
<1> QED
  BY <1>1, <1>2 DEF MovesOn

LEMMA AdvanceOK == TypeInv /\ pc # "idle" /\ Advance => MovesOn
  BY FinishOK, BeginOK, Heads DEF Advance, TypeInv, JobOK

LEMMA DescendOK ==
    ASSUME TypeInv, pc \in FolderCalls, Descend
    PROVE  MovesOn
<1> DEFINE members == Children[Head(todo)]
<1>1. pc # "idle" /\ todo \in Seq(Items) /\ todo # <<>> /\ members \in Seq(Items)
  BY ConstantsAssumption DEF TypeInv, JobOK, FolderCalls
<1>2. Tail(todo) \in Seq(Items)
  BY <1>1, Heads
<1>3. CASE members = <<>>
  BY <1>1, <1>3, AdvanceOK DEF Descend
<1>4. CASE members # <<>>
  <2>1. members \o Tail(todo) \in Seq(Items) /\ members \o Tail(todo) # <<>>
    BY <1>1, <1>2, <1>4, ConcatProperties, ConcatEqualIffEmpty
  <2>2. Begin(members \o Tail(todo))
    BY <1>4 DEF Descend
  <2> HIDE DEF members
  <2> QED
    BY <1>1, <2>1, <2>2, BeginOK
<1> QED
  BY <1>3, <1>4

\* The next call for the same item.
LEMMA CallOK ==
    ASSUME TypeInv, NEW name \in FolderCalls \cup FileCalls, Call(name), UNCHANGED <<job, todo>>,
           name \in FolderCalls => pc \in FolderCalls, name \in FileCalls => pc \in FileCalls,
           held' = held, token' \in {"none", "own", "empty"}, overwrite' = overwrite,
           created' \in BOOLEAN, canceled' = canceled, muted' = muted
    PROVE  MovesOn
<1>1. JobOK'
  BY DEF TypeInv, Call, JobOK, job, FolderCalls, FileCalls
<1>2. FlagsOK'
  BY DEF TypeInv, Call, FlagsOK, job, Answers
<1> QED
  BY <1>1, <1>2 DEF MovesOn

LEMMA ContinueOK ==
    ASSUME TypeInv, NEW name \in FolderCalls \cup FileCalls, Continue(name),
           name \in FolderCalls => pc \in FolderCalls, name \in FileCalls => pc \in FileCalls
    PROVE  MovesOn
  BY CallOK DEF Continue, loop, TypeInv, FlagsOK

LEMMA PastForksOK ==
    ASSUME TypeInv, pc \in FileCalls, NEW new \in BOOLEAN, PastForks(new) PROVE MovesOn
<1>1. "props" \in FileCalls /\ "props" \notin FolderCalls
  BY DEF FileCalls, FolderCalls
<1>2. CASE Finish
  BY <1>2, FinishOK
<1>3. CASE Call("props") /\ created' = new /\ UNCHANGED <<job, todo, held, token, overwrite, canceled, muted>>
  BY <1>1, <1>3, CallOK DEF TypeInv, FlagsOK
<1> QED
  BY <1>2, <1>3 DEF PastForks

LEMMA PastDataOK ==
    ASSUME TypeInv, pc \in FileCalls, NEW new \in BOOLEAN, PastData(new) PROVE MovesOn
<1>1. "putRez" \in FileCalls /\ "putRez" \notin FolderCalls
  BY DEF FileCalls, FolderCalls
<1>2. CASE ~Encoding
  BY <1>2, PastForksOK DEF PastData
<1>3. CASE Encoding
  <2>1. /\ Call("putRez") /\ created' = new /\ token' \in {"none", "own", "empty"}
        /\ UNCHANGED <<job, todo, held, overwrite, canceled, muted>>
    BY <1>3 DEF PastData
  <2> QED
    BY <1>1, <2>1, CallOK
<1> QED
  BY <1>2, <1>3

LEMMA PastRezOK ==
    ASSUME TypeInv, pc \in FileCalls, NEW shown, PastRez(shown) PROVE MovesOn
<1>1. "propsRez" \in FileCalls /\ "propsRez" \notin FolderCalls
  BY DEF FileCalls, FolderCalls
<1>2. created \in BOOLEAN
  BY DEF TypeInv, FlagsOK
<1> QED
  BY <1>1, <1>2, ContinueOK, PastForksOK DEF PastRez

\* What the commands and the user do.
LEMMA StartOK ==
    ASSUME TypeInv, NEW s \in Seq(Items), s # <<>>, NEW whole \in BOOLEAN,
           NEW has \in {"no", "given"}, NEW release \in BOOLEAN, Start(s, whole, has, release)
    PROVE  ServerOK' /\ ClientOK' /\ MovesOn
<1>1. JobOK'
  BY DEF Start, Call, JobOK, FolderCalls, FileCalls
<1>2. FlagsOK'
  BY DEF Start, Call, FlagsOK, Answers
<1>3. ServerOK' /\ ClientOK'
  BY DEF TypeInv, Start, server, client, ServerOK, ClientOK
<1> QED
  BY <1>1, <1>2, <1>3 DEF MovesOn

LEMMA OneItem == \A f \in Items : <<f>> \in Seq(Items) /\ <<f>> # <<>>
  OBVIOUS

LEMMA NotedOK ==
    ASSUME trouble \subseteq Troubles, NEW facts \in SUBSET Troubles, Noted(facts)
    PROVE  trouble' \subseteq Troubles
  BY DEF Noted

LEMMA WhenOK ==
    ASSUME NEW condition, NEW fact \in Troubles PROVE When(condition, fact) \in SUBSET Troubles
  BY DEF When

LEMMA TypeCommand == TypeInv /\ Command => TypeInv'
<1> SUFFICES ASSUME TypeInv, Command PROVE TypeInv'
  OBVIOUS
<1>1. trouble \subseteq Troubles /\ "garbage" \in Troubles
  BY DEF TypeInv, Troubles
<1>2. ASSUME NEW s \in Selections, UploadFSSpecVector(s) PROVE TypeInv'
  <2>1. s \in Seq(Items) /\ s # <<>>
    BY ConstantsAssumption
  <2>2. Start(s, FALSE, "no", FALSE) /\ trouble' = trouble
    BY <1>2 DEF UploadFSSpecVector
  <2>3. ServerOK' /\ ClientOK' /\ MovesOn
    BY <2>1, <2>2, StartOK
  <2> QED
    BY <1>1, <2>2, <2>3 DEF TypeInv, MovesOn
<1>3. ASSUME NEW f \in Files, UploadFSSpec(f) PROVE TypeInv'
  <2>1. <<f>> \in Seq(Items) /\ <<f>> # <<>>
    BY OneItem, ResourceTypes
  <2>2. PICK release \in BOOLEAN :
           Start(<<f>>, FALSE, "no", release) /\ Noted(When(release, "garbage"))
    BY <1>3 DEF UploadFSSpec
  <2>3. ServerOK' /\ ClientOK' /\ MovesOn
    BY <2>1, <2>2, StartOK
  <2>4. trouble' \subseteq Troubles
    BY <1>1, <2>2, WhenOK, NotedOK
  <2> QED
    BY <2>3, <2>4 DEF TypeInv, MovesOn
<1>4. ASSUME NEW f \in Files, NEW release \in BOOLEAN, Synchronize(f, release) PROVE TypeInv'
  <2>1. <<f>> \in Seq(Items) /\ <<f>> # <<>>
    BY OneItem, ResourceTypes
  <2>2. CASE Start(<<f>>, TRUE, "given", release) /\ UNCHANGED trouble
    <3>1. ServerOK' /\ ClientOK' /\ MovesOn
      BY <2>1, <2>2, StartOK
    <3> QED
      BY <1>1, <2>2, <3>1 DEF TypeInv, MovesOn
  <2>3. ASSUME NEW found \in BOOLEAN, Start(<<f>>, TRUE, "no", found),
               Noted(When(found, "garbage"))
        PROVE  TypeInv'
    <3>1. ServerOK' /\ ClientOK' /\ MovesOn
      BY <2>1, <2>3, StartOK
    <3>2. trouble' \subseteq Troubles
      BY <1>1, <2>3, WhenOK, NotedOK
    <3> QED
      BY <3>1, <3>2 DEF TypeInv, MovesOn
  <2> QED
    BY <1>4, <2>2, <2>3 DEF Synchronize
<1> QED
  BY <1>2, <1>3, <1>4 DEF Command

LEMMA TypeCancel == TypeInv /\ CancelOperation => TypeInv'
<1> SUFFICES ASSUME TypeInv, CancelOperation PROVE TypeInv'
  OBVIOUS
<1>1. ServerOK' /\ ClientOK'
  BY DEF TypeInv, CancelOperation, server, client, ServerOK, ClientOK
<1>2. JobOK'
  BY DEF TypeInv, CancelOperation, JobOK, job, loop
<1>3. FlagsOK'
  <2>1. answer' \in Answers
    BY DEF TypeInv, CancelOperation, FlagsOK, Answers
  <2>2. Single \in BOOLEAN
    BY DEF Single
  <2> QED
    BY <2>1, <2>2 DEF TypeInv, CancelOperation, FlagsOK, job, loop
<1>4. trouble' \subseteq Troubles
  BY DEF TypeInv, CancelOperation, Noted, Troubles
<1> QED
  BY <1>1, <1>2, <1>3, <1>4 DEF TypeInv

\* The thread.
LEMMA TypeDataChange ==
    ASSUME ClientOK, NEW r, AfterDataChange(r), row' \in [Files -> {"none", "plain", "local"}]
    PROVE  ClientOK'
  BY DEF ClientOK, AfterDataChange

LEMMA TypeThread == TypeInv /\ Thread => TypeInv'
<1> SUFFICES ASSUME TypeInv, Thread PROVE TypeInv'
  OBVIOUS
<1>1. /\ ServerOK /\ ClientOK /\ JobOK /\ FlagsOK /\ trouble \subseteq Troubles
      /\ created \in BOOLEAN
  BY DEF TypeInv, FlagsOK
<1>2. FolderCalls = {"exists", "create", "propsFolder"}
  BY DEF FolderCalls
<1>3. FileCalls = {"put", "unlock", "putRez", "unlockRez", "propsRez", "props",
                   "drop", "dropBoth", "dropRez"}
  BY DEF FileCalls
<1>4. ASSUME MovesOn, UNCHANGED <<server, client, trouble>> PROVE TypeInv'
  <2>1. ServerOK' /\ ClientOK' /\ trouble' \subseteq Troubles
    BY <1>1, <1>4 DEF server, client, ServerOK, ClientOK
  <2> QED
    BY <1>4, <2>1 DEF TypeInv, MovesOn
<1>5. CASE CheckAnswered
  <2>1. todo \in Seq(Items) /\ todo # <<>> /\ pick \in Seq(Items) /\ pick # <<>>
    BY <1>1, <1>5 DEF CheckAnswered, Answered, JobOK
  <2>2. JobOK'
    <3>1. CASE Len(todo) > 1 /\ Call("check") /\ todo' = Tail(todo)
      <4>1. Tail(todo) \in Seq(Items) /\ Tail(todo) # <<>>
        BY <2>1, <3>1, Heads
      <4> QED
        BY <1>5, <2>1, <3>1, <4>1, <1>2, <1>3 DEF CheckAnswered, Call, job, JobOK
    <3>2. CASE Call("alert") /\ todo' = pick
      BY <1>5, <2>1, <3>2, <1>2, <1>3 DEF CheckAnswered, Call, job, JobOK
    <3> QED
      BY <1>5, <3>1, <3>2 DEF CheckAnswered
  <2>3. FlagsOK'
    BY <1>1, <1>5 DEF CheckAnswered, Call, job, FlagsOK, Answers
  <2> QED
    BY <1>4, <1>5, <2>2, <2>3 DEF CheckAnswered, MovesOn
<1>6. CASE Alert
  <2>1. pc # "idle" /\ todo \in Seq(Items) /\ todo # <<>> /\ "declined" \in Troubles
    BY <1>1, <1>6 DEF Alert, JobOK, Troubles
  <2>2. CASE Begin(todo) /\ UNCHANGED trouble
    <3>1. MovesOn
      BY <2>1, <2>2, BeginOK
    <3> QED
      BY <1>4, <1>6, <2>2, <3>1 DEF Alert
  <2>3. CASE Finish /\ Noted({"declined"})
    <3>1. MovesOn
      BY <2>3, FinishOK
    <3>2. ServerOK' /\ ClientOK' /\ trouble' \subseteq Troubles
      BY <1>1, <1>6, <2>1, <2>3 DEF Alert, server, client, ServerOK, ClientOK, Noted
    <3> QED
      BY <3>1, <3>2 DEF TypeInv, MovesOn
  <2> QED
    BY <1>6, <2>2, <2>3 DEF Alert
<1>7. CASE ExistsAnswered
  <2>1. pc \in FolderCalls /\ pc # "idle" /\ "create" \in FolderCalls /\ "create" \notin FileCalls
    BY <1>7, <1>2, <1>3 DEF ExistsAnswered, Answered
  <2>2. CASE Descend
    BY <1>4, <1>7, <2>1, <2>2, DescendOK DEF ExistsAnswered
  <2>3. CASE Continue("create")
    BY <1>4, <1>7, <2>1, <2>3, ContinueOK DEF ExistsAnswered
  <2>4. CASE Advance
    BY <1>4, <1>7, <2>1, <2>4, AdvanceOK DEF ExistsAnswered
  <2> QED
    BY <1>7, <2>2, <2>3, <2>4 DEF ExistsAnswered
<1>8. CASE CreateAnswered
  <2>1. /\ pc \in FolderCalls /\ pc # "idle"
        /\ "propsFolder" \in FolderCalls /\ "propsFolder" \notin FileCalls
    BY <1>8, <1>2, <1>3 DEF CreateAnswered, Answered
  <2>2. CASE Continue("propsFolder")
    BY <1>4, <1>8, <2>1, <2>2, ContinueOK DEF CreateAnswered
  <2>3. CASE Advance
    BY <1>4, <1>8, <2>1, <2>3, AdvanceOK DEF CreateAnswered
  <2> QED
    BY <1>8, <2>2, <2>3 DEF CreateAnswered
<1>9. CASE PropsFolderAnswered
  <2>1. pc \in FolderCalls
    BY <1>9, <1>2 DEF PropsFolderAnswered, Answered
  <2>2. CASE Finish
    BY <1>4, <1>9, <2>2, FinishOK DEF PropsFolderAnswered
  <2>3. CASE Descend
    BY <1>4, <1>9, <2>1, <2>3, DescendOK DEF PropsFolderAnswered
  <2> QED
    BY <1>9, <2>2, <2>3 DEF PropsFolderAnswered
<1>10. CASE PutAnswered
  <2>1. pc \in FileCalls /\ pc # "idle"
    BY <1>10, <1>3 DEF PutAnswered, Answered
  <2>2. {"drop", "unlock"} \subseteq FileCalls /\ "drop" \notin FolderCalls /\ "unlock" \notin FolderCalls
    BY <1>2, <1>3
  <2>3. CASE Continue("drop")
    BY <1>4, <1>10, <2>1, <2>2, <2>3, ContinueOK DEF PutAnswered
  <2>4. CASE Advance
    BY <1>4, <1>10, <2>1, <2>4, AdvanceOK DEF PutAnswered
  <2>5. CASE /\ Call("unlock") /\ created' = (answer = "created")
             /\ token' = IF held = "given" THEN "own" ELSE "empty"
             /\ UNCHANGED <<job, todo, held, overwrite, canceled, muted>>
    <3>1. MovesOn
      BY <2>1, <2>2, <2>5, CallOK
    <3> QED
      BY <1>4, <1>10, <3>1 DEF PutAnswered
  <2>6. CASE PastData(answer = "created")
    BY <1>4, <1>10, <2>1, <2>6, PastDataOK DEF PutAnswered
  <2> QED
    BY <1>10, <2>3, <2>4, <2>5, <2>6 DEF PutAnswered
<1>11. CASE UnlockAnswered
  <2>1. pc \in FileCalls
    BY <1>11, <1>3 DEF UnlockAnswered, Answered
  <2> QED
    BY <1>1, <1>4, <1>11, <2>1, PastDataOK DEF UnlockAnswered
<1>12. CASE PutRezAnswered
  <2>1. pc \in FileCalls /\ pc # "idle"
    BY <1>12, <1>3 DEF PutRezAnswered, Answered
  <2>2. /\ {"dropBoth", "unlockRez"} \subseteq FileCalls
        /\ "dropBoth" \notin FolderCalls /\ "unlockRez" \notin FolderCalls
    BY <1>2, <1>3
  <2>3. CASE Continue("dropBoth")
    BY <1>4, <1>12, <2>1, <2>2, <2>3, ContinueOK DEF PutRezAnswered
  <2>4. CASE Advance
    BY <1>4, <1>12, <2>1, <2>4, AdvanceOK DEF PutRezAnswered
  <2>5. CASE Continue("unlockRez")
    BY <1>4, <1>12, <2>1, <2>2, <2>5, ContinueOK DEF PutRezAnswered
  <2>6. CASE \E shown \in BOOLEAN : PastRez(shown)
    BY <1>4, <1>12, <2>1, <2>6, PastRezOK DEF PutRezAnswered
  <2> QED
    BY <1>12, <2>3, <2>4, <2>5, <2>6 DEF PutRezAnswered
<1>13. CASE UnlockRezAnswered
  <2>1. pc \in FileCalls /\ "leftover" \in Troubles
    BY <1>13, <1>3 DEF UnlockRezAnswered, Answered, Troubles
  <2>2. PICK shown \in BOOLEAN :
           PastRez(shown) /\ Noted(When(answer = "ok" /\ ~shown, "leftover"))
    BY <1>13 DEF UnlockRezAnswered
  <2>3. MovesOn
    BY <2>1, <2>2, PastRezOK
  <2>4. trouble' \subseteq Troubles
    BY <1>1, <2>1, <2>2, WhenOK, NotedOK
  <2>5. ServerOK' /\ ClientOK'
    BY <1>1, <1>13 DEF UnlockRezAnswered, server, client, ServerOK, ClientOK
  <2> QED
    BY <2>3, <2>4, <2>5 DEF TypeInv, MovesOn
<1>14. CASE PropsRezAnswered
  <2>1. pc \in FileCalls
    BY <1>14, <1>3 DEF PropsRezAnswered, Answered
  <2>2. MovesOn
    BY <1>1, <1>14, <2>1, PastForksOK DEF PropsRezAnswered
  <2>3. ClientOK'
    BY <1>1, <1>14, TypeDataChange DEF PropsRezAnswered, ClientOK
  <2>4. ServerOK' /\ trouble' \subseteq Troubles
    BY <1>1, <1>14 DEF PropsRezAnswered, server, ServerOK
  <2> QED
    BY <2>2, <2>3, <2>4 DEF TypeInv, MovesOn
<1>15. CASE PropsAnswered
  <2>1. pc # "idle"
    BY <1>15 DEF PropsAnswered, Answered
  <2>2. MovesOn
    BY <1>15, <2>1, AdvanceOK DEF PropsAnswered
  <2>3. row' \in [Files -> {"none", "plain", "local"}]
    BY <1>1, <1>15 DEF PropsAnswered, ItemAdded, ClientOK
  <2>4. ClientOK'
    BY <1>1, <1>15, <2>3, TypeDataChange DEF PropsAnswered
  <2>5. ServerOK' /\ trouble' \subseteq Troubles
    BY <1>1, <1>15 DEF PropsAnswered, server, ServerOK
  <2> QED
    BY <2>2, <2>4, <2>5 DEF TypeInv, MovesOn
<1>16. CASE DropAnswered
  <2>1. CASE Finish
    BY <1>4, <1>16, <2>1, FinishOK DEF DropAnswered
  <2>2. CASE Answered("dropBoth") /\ Continue("dropRez")
    <3>1. pc \in FileCalls /\ "dropRez" \in FileCalls /\ "dropRez" \notin FolderCalls
      BY <1>2, <1>3, <2>2 DEF Answered
    <3> QED
      BY <1>4, <1>16, <2>2, <3>1, ContinueOK DEF DropAnswered
  <2> QED
    BY <1>16, <2>1, <2>2 DEF DropAnswered
<1> QED
  BY <1>5, <1>6, <1>7, <1>8, <1>9, <1>10, <1>11, <1>12, <1>13, <1>14, <1>15, <1>16 DEF Thread

\* The server and the others.
LEMMA AnswersAre ==
    /\ Answers = {"waiting", "ok", "created", "absent", "locked", "canceled", "failed"}
    /\ Refusals \subseteq Troubles
    /\ {"unasked", "misnamed", "misplaced", "dropped", "raced", "ended", "lost"} \subseteq Troubles
  BY DEF Answers, Troubles

LEMMA RefusedOK == \A r, topLocked : Refused(r, topLocked) \subseteq Refusals
  BY DEF Refused, When, Refusals

\* What is noted of a resource that is replaced.
LEMMA PutNotes ==
    \A r : When(content[r] = "theirs" /\ ~overwrite, IF Checked(r[1]) THEN "unasked" ELSE "misnamed")
               \subseteq {"unasked", "misnamed"}
  BY DEF When

LEMMA PutOK ==
    ASSUME TypeInv, NEW r \in Resources, ServePut(r)
    PROVE  ServerOK' /\ answer' \in Answers /\ trouble' \subseteq Troubles
<1>1. ServerOK /\ trouble \subseteq Troubles
  BY DEF TypeInv
<1>2. PICK topLocked \in {FALSE, MayLockTop} :
         \/ /\ Refused(r, topLocked) # {}
            /\ Respond("failed") /\ Noted(Refused(r, topLocked))
            /\ UNCHANGED server
         \/ /\ content' = [content EXCEPT ![r] = "mine"]
            /\ answer' \in {"created", "ok"}
            /\ trouble' \subseteq trouble \cup {"unasked", "misnamed"}
            /\ UNCHANGED lock
  BY PutNotes DEF ServePut, Respond, Noted
<1>3. ServerOK'
  BY <1>1, <1>2 DEF ServerOK, server
<1>4. answer' \in Answers
  BY <1>2, AnswersAre DEF Respond
<1>5. trouble' \subseteq Troubles
  <2>1. \A t : Refused(r, t) \subseteq Troubles
    BY AnswersAre, RefusedOK
  <2> QED
    BY <1>1, <1>2, <2>1, AnswersAre DEF Noted
<1> QED
  BY <1>3, <1>4, <1>5

LEMMA ServesOK ==
    ASSUME TypeInv, Serve
    PROVE  ServerOK' /\ answer' \in Answers /\ trouble' \subseteq Troubles
<1>1. ServerOK /\ trouble \subseteq Troubles
  BY DEF TypeInv
<1>2. \A i \in Items : <<i, "data">> \in Resources
  BY ResourceTypes
<1> DEFINE i == Head(todo)
<1>3. i \in Items /\ (pc \in FileCalls => i \in Files)
  <2>1. pc # "idle"
    BY DEF Serve
  <2> QED
    BY <2>1, Heads DEF TypeInv, JobOK
<1>4. CASE ServeExists(i)
  BY <1>1, <1>4, AnswersAre DEF ServeExists, Respond, server, ServerOK
<1>5. CASE ServeCreate(i)
  <2>1. ServerOK'
    BY <1>1, <1>2, <1>3, <1>5 DEF ServeCreate, ServerOK
  <2> QED
    BY <1>1, <1>5, <2>1, AnswersAre DEF ServeCreate, Respond, Noted, When
<1>11. CASE ServeCheck(i)
  <2>1. answer' \in {"ok", "absent"} /\ UNCHANGED <<server, trouble>>
    BY <1>11 DEF ServeCheck, ServeExists, Respond
  <2> QED
    BY <1>1, <2>1, AnswersAre DEF server, ServerOK
<1>6. ASSUME NEW r \in Resources, ServeProps(r)
      PROVE  ServerOK' /\ answer' \in Answers /\ trouble' \subseteq Troubles
  BY <1>1, <1>6, AnswersAre DEF ServeProps, Respond, server, ServerOK
<1>7. ASSUME NEW r \in Resources, ServeUnlock(r)
      PROVE  ServerOK' /\ answer' \in Answers /\ trouble' \subseteq Troubles
  BY <1>1, <1>7, AnswersAre DEF ServeUnlock, Respond, ServerOK
<1>8. ASSUME NEW r \in Resources, ServeDelete(r)
      PROVE  ServerOK' /\ answer' \in Answers /\ trouble' \subseteq Troubles
  <2>1. ServerOK'
    BY <1>1, <1>8 DEF ServeDelete, ServerOK
  <2> QED
    BY <1>1, <1>8, <2>1, AnswersAre DEF ServeDelete, Respond, Noted
<1>9. \/ ServeCheck(i) \/ ServeExists(i) \/ ServeCreate(i)
      \/ ServeProps(<<i, "data">>) \/ ServePut(<<i, "data">>)
      \/ ServeUnlock(<<i, "data">>) \/ ServeDelete(<<i, "data">>)
      \/ /\ i \in Files
         /\ \/ ServeProps(<<i, "rez">>) \/ ServePut(<<i, "rez">>)
            \/ ServeUnlock(<<i, "rez">>) \/ ServeDelete(<<i, "rez">>)
  BY <1>3 DEF Serve, FileCalls
<1>10. i \in Files => <<i, "rez">> \in Resources
  BY ResourceTypes
<1> HIDE DEF i
<1> QED
  BY <1>2, <1>3, <1>4, <1>5, <1>6, <1>7, <1>8, <1>9, <1>10, <1>11, PutOK

LEMMA TypeServe == TypeInv /\ (Serve \/ CallFails) => TypeInv'
<1> SUFFICES ASSUME TypeInv, Serve \/ CallFails PROVE TypeInv'
  OBVIOUS
<1>1. UNCHANGED <<client, pc, job, loop, canceled, muted>>
  BY DEF Serve, CallFails
<1>2. ClientOK' /\ JobOK'
  BY <1>1 DEF TypeInv, ClientOK, JobOK, client, job, loop
<1>3. ServerOK' /\ answer' \in Answers /\ trouble' \subseteq Troubles
  <2>1. CASE Serve
    BY <2>1, ServesOK
  <2>2. CASE CallFails
    <3>1. ServerOK'
      BY <2>2 DEF TypeInv, CallFails, server, ServerOK
    <3>2. answer' \in Answers
      BY <2>2, AnswersAre DEF CallFails, Respond, When
    <3>3. trouble' \subseteq Troubles
      BY <2>2, AnswersAre DEF TypeInv, CallFails, Noted
    <3> QED
      BY <3>1, <3>2, <3>3
  <2> QED
    BY <2>1, <2>2
<1>4. FlagsOK'
  BY <1>1, <1>3 DEF TypeInv, FlagsOK, job, loop
<1> QED
  BY <1>2, <1>3, <1>4 DEF TypeInv

Others ==
    \/ (\E i \in Items : OtherDeletes(i))
    \/ \E r \in Resources : OtherWrites(r) \/ OtherLocks(r) \/ LockEnds(r)

LEMMA TypeOthers == TypeInv /\ Others => TypeInv'
<1> SUFFICES ASSUME TypeInv, Others PROVE TypeInv'
  OBVIOUS
<1>1. UNCHANGED <<client, pc, answer, job, loop, canceled, muted>>
  BY DEF Others, OtherDeletes, OtherWrites, OtherLocks, LockEnds
<1>2. ServerOK /\ trouble \subseteq Troubles
  BY DEF TypeInv
<1>3. ASSUME NEW i \in Items, OtherDeletes(i) PROVE ServerOK' /\ trouble' \subseteq Troubles
  <2>1. ServerOK'
    BY <1>2, <1>3 DEF OtherDeletes, ServerOK
  <2>2. Noted(When(~Idle, "raced"))
    BY <1>3 DEF OtherDeletes
  <2> QED
    BY <1>2, <2>1, <2>2, AnswersAre, NotedOK, WhenOK
<1>4. ASSUME NEW r \in Resources, OtherWrites(r) PROVE ServerOK' /\ trouble' \subseteq Troubles
  <2>1. ServerOK' /\ Noted(When(~Idle, "raced"))
    BY <1>2, <1>4 DEF OtherWrites, ServerOK
  <2> QED
    BY <1>2, <2>1, AnswersAre, NotedOK, WhenOK
<1>5. ASSUME NEW r \in Resources, OtherLocks(r) PROVE ServerOK' /\ trouble' \subseteq Troubles
  BY <1>2, <1>5 DEF OtherLocks, ServerOK
<1>6. ASSUME NEW r \in Resources, LockEnds(r) PROVE ServerOK' /\ trouble' \subseteq Troubles
  <2>1. ServerOK' /\ Noted(When(lock[r] = "ours", "ended"))
    BY <1>2, <1>6 DEF LockEnds, ServerOK
  <2> QED
    BY <1>2, <2>1, AnswersAre, NotedOK, WhenOK
<1>7. ServerOK' /\ trouble' \subseteq Troubles
  BY <1>3, <1>4, <1>5, <1>6 DEF Others
<1>8. ClientOK' /\ JobOK' /\ FlagsOK'
  BY <1>1 DEF TypeInv, ClientOK, JobOK, FlagsOK, client, job, loop
<1> QED
  BY <1>7, <1>8 DEF TypeInv

LEMMA NextIs ==
    Next <=> Command \/ CancelOperation \/ Thread \/ Serve \/ CallFails \/ Others
  BY DEF Next, Others

LEMMA TypeStep == TypeInv /\ [Next]_vars => TypeInv'
<1>1. TypeInv /\ UNCHANGED vars => TypeInv'
  BY DEF TypeInv, ServerOK, ClientOK, JobOK, FlagsOK, vars, server, client, job, loop
<1> QED
  BY <1>1, NextIs, TypeCommand, TypeCancel, TypeThread, TypeServe, TypeOthers

\* The thread is always in a state the code knows, and works on an item as long as it
\* waits for one, however the folders are nested.
THEOREM TypeCorrect == Spec => []TypeOK
<1>1. Init => TypeInv
  BY TypeInit
<1>2. TypeInv /\ [Next]_vars => TypeInv'
  BY TypeStep
<1>3. TypeInv => TypeOK
  BY TypeInvOK
<1> QED
  BY <1>1, <1>2, <1>3, PTL DEF Spec
-----------------------------------------------------------------------------
\* How the thread goes on: it ends, or makes its next call as the same job.
DropCalls == {"drop", "dropBoth", "dropRez"}
UnlockCalls == {"unlock", "unlockRez"}

GoesOn ==
    \/ Finish
    \/ /\ answer' = "waiting" /\ UNCHANGED <<job, canceled, muted>>
       /\ pc' \in DropCalls => pc \in DropCalls \/ answer = "canceled"
       /\ pc' \in UnlockCalls => unlock
       /\ held' = held \/ (held = "no" /\ held' = "found")

LEMMA BeginGoesOn == \A rest : Begin(rest) => GoesOn
  BY DEF Begin, Call, GoesOn, DropCalls, UnlockCalls

LEMMA AdvanceGoesOn == Advance => GoesOn
  BY BeginGoesOn DEF Advance, GoesOn

LEMMA DescendGoesOn == Descend => GoesOn
  BY BeginGoesOn, AdvanceGoesOn DEF Descend

LEMMA ContinueGoesOn ==
    ASSUME NEW name, Continue(name),
           name \in DropCalls => pc \in DropCalls \/ answer = "canceled",
           name \in UnlockCalls => unlock
    PROVE  GoesOn
  BY DEF Continue, Call, GoesOn, loop

LEMMA PastForksGoesOn == \A new : PastForks(new) => GoesOn
  BY DEF PastForks, Call, GoesOn, DropCalls, UnlockCalls

LEMMA PastDataGoesOn == \A new : PastData(new) => GoesOn
  BY PastForksGoesOn DEF PastData, Call, GoesOn, DropCalls, UnlockCalls

LEMMA PastRezGoesOn == \A shown : PastRez(shown) => GoesOn
<1>1. "propsRez" \notin DropCalls /\ "propsRez" \notin UnlockCalls
  BY DEF DropCalls, UnlockCalls
<1> QED
  BY <1>1, PastForksGoesOn, ContinueGoesOn DEF PastRez

LEMMA ThreadGoesOn ==
    ASSUME Thread
    PROVE  /\ GoesOn /\ UNCHANGED server
           /\ trouble \subseteq trouble' /\ trouble' \subseteq trouble \cup {"declined", "leftover"}
<1>1. CASE CheckAnswered
  BY <1>1 DEF CheckAnswered, Call, GoesOn, DropCalls, UnlockCalls
<1>2. CASE Alert
  BY <1>2, BeginGoesOn DEF Alert, GoesOn, Noted
<1>3. CASE ExistsAnswered
  <2>1. "create" \notin DropCalls /\ "create" \notin UnlockCalls
    BY DEF DropCalls, UnlockCalls
  <2> QED
    BY <1>3, <2>1, DescendGoesOn, AdvanceGoesOn, ContinueGoesOn DEF ExistsAnswered
<1>4. CASE CreateAnswered
  <2>1. "propsFolder" \notin DropCalls /\ "propsFolder" \notin UnlockCalls
    BY DEF DropCalls, UnlockCalls
  <2> QED
    BY <1>4, <2>1, AdvanceGoesOn, ContinueGoesOn DEF CreateAnswered
<1>5. CASE PropsFolderAnswered
  BY <1>5, DescendGoesOn DEF PropsFolderAnswered, GoesOn
<1>6. CASE PutAnswered
  <2>1. "drop" \notin UnlockCalls /\ "unlock" \notin DropCalls
    BY DEF DropCalls, UnlockCalls
  <2>2. CASE answer = "canceled" /\ Continue("drop")
    BY <1>6, <2>1, <2>2, ContinueGoesOn DEF PutAnswered
  <2>3. CASE unlock /\ Call("unlock") /\ UNCHANGED <<job, todo, held, overwrite, canceled, muted>>
    BY <1>6, <2>1, <2>3 DEF PutAnswered, Call, GoesOn
  <2> QED
    BY <1>6, <2>2, <2>3, AdvanceGoesOn, PastDataGoesOn DEF PutAnswered
<1>7. CASE UnlockAnswered
  BY <1>7, PastDataGoesOn DEF UnlockAnswered
<1>8. CASE PutRezAnswered
  <2>1. "dropBoth" \notin UnlockCalls /\ "unlockRez" \notin DropCalls
    BY DEF DropCalls, UnlockCalls
  <2>2. CASE answer = "canceled" /\ Continue("dropBoth")
    BY <1>8, <2>1, <2>2, ContinueGoesOn DEF PutRezAnswered
  <2>3. CASE unlock /\ Continue("unlockRez")
    BY <1>8, <2>1, <2>3, ContinueGoesOn DEF PutRezAnswered
  <2> QED
    BY <1>8, <2>2, <2>3, AdvanceGoesOn, PastRezGoesOn DEF PutRezAnswered
<1>9. CASE UnlockRezAnswered
  BY <1>9, PastRezGoesOn DEF UnlockRezAnswered, Noted, When
<1>10. CASE PropsRezAnswered
  BY <1>10, PastForksGoesOn DEF PropsRezAnswered
<1>11. CASE PropsAnswered
  BY <1>11, AdvanceGoesOn DEF PropsAnswered
<1>12. CASE DropAnswered
  <2>1. CASE Answered("dropBoth") /\ Continue("dropRez")
    <3>1. pc \in DropCalls /\ "dropRez" \notin UnlockCalls
      BY <2>1 DEF Answered, DropCalls, UnlockCalls
    <3> QED
      BY <1>12, <2>1, <3>1, ContinueGoesOn DEF DropAnswered
  <2> QED
    BY <1>12, <2>1 DEF DropAnswered, GoesOn
<1> QED
  BY <1>1, <1>2, <1>3, <1>4, <1>5, <1>6, <1>7, <1>8, <1>9, <1>10, <1>11, <1>12 DEF Thread

\* What the commands start with.
Started ==
    /\ pc' = "check" /\ answer' = "waiting" /\ canceled' = FALSE /\ muted' = FALSE
    /\ UNCHANGED <<server, client>>
    /\ unlock' => held' = "given" \/ "garbage" \in trouble'
    /\ trouble \subseteq trouble' /\ trouble' \subseteq trouble \cup {"garbage"}

LEMMA CommandStarts == Command => Started
<1> SUFFICES ASSUME Command PROVE Started
  OBVIOUS
<1>1. ASSUME NEW s, UploadFSSpecVector(s) PROVE Started
  BY <1>1 DEF UploadFSSpecVector, Start, Call, Started
<1>2. ASSUME NEW f, UploadFSSpec(f) PROVE Started
  BY <1>2 DEF UploadFSSpec, Start, Call, Started, Noted, When
<1>3. ASSUME NEW f, NEW release, Synchronize(f, release) PROVE Started
  BY <1>3 DEF Synchronize, Start, Call, Started, Noted, When
<1> QED
  BY <1>1, <1>2, <1>3 DEF Command
-----------------------------------------------------------------------------
\* Canceling.  A request that was canceled is muted until the thread ends, and only such
\* a thread wants to delete anything.
CancelInv ==
    /\ muted => canceled
    /\ pc \in DropCalls \/ answer = "canceled" => muted
    /\ "dropped" \notin trouble

LEMMA CancelInit == Init => CancelInv
<1> SUFFICES ASSUME Init PROVE CancelInv
  OBVIOUS
<1>1. pc = "idle" /\ answer = "waiting" /\ muted = FALSE
  BY DEF Init
<1>2. "dropped" \notin trouble
  BY Zenon DEF Init, When
<1> QED
  BY <1>1, <1>2 DEF CancelInv, DropCalls

LEMMA CancelServe ==
    ASSUME CancelInv, Serve
    PROVE  answer' # "canceled" /\ "dropped" \notin trouble'
<1>1. pc \notin DropCalls /\ "dropped" \notin trouble
  BY DEF CancelInv, Serve, Sends, DropCalls
<1>2. ASSUME NEW r, ServePut(r) PROVE answer' # "canceled" /\ "dropped" \notin trouble'
  <2>1. \A t : "dropped" \notin Refused(r, t)
    BY RefusedOK DEF Refusals
  <2>2. "dropped" \notin When(content[r] = "theirs" /\ ~overwrite,
                               IF Checked(r[1]) THEN "unasked" ELSE "misnamed")
    BY PutNotes
  <2> QED
    BY <1>1, <1>2, <2>1, <2>2 DEF ServePut, Respond, Noted
<1>3. ASSUME NEW r, ServeUnlock(r) \/ ServeProps(r) \/ ServeExists(r) \/ ServeCheck(r) \/ ServeCreate(r)
      PROVE answer' # "canceled" /\ "dropped" \notin trouble'
  BY <1>1, <1>3 DEF ServeUnlock, ServeProps, ServeExists, ServeCheck, ServeCreate, Respond, Noted, When
<1> QED
  BY <1>1, <1>2, <1>3 DEF Serve, DropCalls

LEMMA CancelStep == CancelInv /\ [Next]_vars => CancelInv'
<1> SUFFICES ASSUME CancelInv, [Next]_vars PROVE CancelInv'
  OBVIOUS
<1>1. CASE Command
  BY <1>1, CommandStarts DEF CancelInv, Started, DropCalls
<1>2. CASE CancelOperation
  BY <1>2 DEF CancelInv, CancelOperation, Noted, DropCalls
<1>3. CASE Thread
  <2>1. GoesOn /\ "dropped" \notin trouble'
    BY <1>3, ThreadGoesOn DEF CancelInv
  <2>2. CASE Finish
    BY <2>1, <2>2 DEF CancelInv, Finish, Call, DropCalls
  <2> QED
    BY <2>1, <2>2 DEF CancelInv, GoesOn
<1>4. CASE Serve
  <2>1. UNCHANGED <<pc, canceled, muted>>
    BY <1>4 DEF Serve
  <2> QED
    BY <1>4, <2>1, CancelServe DEF CancelInv
<1>5. CASE CallFails
  BY <1>5 DEF CancelInv, CallFails, Respond, Noted, When
<1>6. CASE Others
  <2>1. UNCHANGED <<pc, answer, canceled, muted>>
    BY <1>6 DEF Others, OtherDeletes, OtherWrites, OtherLocks, LockEnds
  <2>2. "dropped" \notin trouble'
    <3>1. \A c : "dropped" \notin When(c, "raced") /\ "dropped" \notin When(c, "ended")
      BY DEF When
    <3> QED
      BY <1>6, <3>1 DEF CancelInv, Others, OtherDeletes, OtherWrites, OtherLocks, LockEnds, Noted
  <2> QED
    BY <2>1, <2>2 DEF CancelInv
<1>7. CASE UNCHANGED vars
  BY <1>7 DEF CancelInv, vars
<1> QED
  BY <1>1, <1>2, <1>3, <1>4, <1>5, <1>6, <1>7, NextIs

\* A canceled upload deletes nothing from the server.
THEOREM NothingIsDropped == Spec => []CancelDeletesNothing
<1>1. CancelInv => CancelDeletesNothing
  BY DEF CancelInv, CancelDeletesNothing
<1> QED
  BY <1>1, CancelInit, CancelStep, PTL DEF Spec
-----------------------------------------------------------------------------
\* Unlocking.  An unlock is only sent by a job that is to unlock, and such a job was
\* started with a token, or with garbage.
AskInv ==
    /\ pc \in UnlockCalls => unlock
    /\ unlock => held = "given" \/ "garbage" \in trouble

LEMMA AskInit == Init => AskInv
  BY DEF Init, AskInv, UnlockCalls

\* What happens to the locks of this client.
LockKept == \A r \in Resources : lock[r] = "ours" => lock'[r] = "ours"

LEMMA ServeKeepsLocks ==
    ASSUME TypeInv, Serve
    PROVE  trouble \subseteq trouble' /\ (LockKept \/ pc \in UnlockCalls)
<1>1. ASSUME NEW r, ServePut(r) PROVE trouble \subseteq trouble' /\ lock' = lock
  BY <1>1 DEF ServePut, Noted, server
<1>2. ASSUME NEW r, ServeProps(r) \/ ServeExists(r) \/ ServeCheck(r) \/ ServeCreate(r) \/ ServeDelete(r)
      PROVE  trouble \subseteq trouble' /\ lock' = lock
  BY <1>2 DEF ServeProps, ServeExists, ServeCheck, ServeCreate, ServeDelete, Noted, server
<1>3. ASSUME NEW r, ServeUnlock(r) PROVE trouble' = trouble
  BY <1>3 DEF ServeUnlock
<1> QED
  BY <1>1, <1>2, <1>3 DEF Serve, LockKept, UnlockCalls

LEMMA OthersKeepLocks ==
    ASSUME TypeInv, Others
    PROVE  trouble \subseteq trouble' /\ (LockKept \/ "ended" \in trouble')
<1>1. lock \in [Resources -> {"free", "ours", "theirs"}]
  BY DEF TypeInv, ServerOK
<1>2. ASSUME NEW i \in Items, OtherDeletes(i) PROVE trouble \subseteq trouble' /\ LockKept
  <2>1. LockKept
    BY <1>1, <1>2 DEF OtherDeletes, LockKept
  <2> QED
    BY <1>2, <2>1 DEF OtherDeletes, Noted
<1>3. ASSUME NEW r \in Resources, OtherWrites(r) PROVE trouble \subseteq trouble' /\ LockKept
  BY <1>3 DEF OtherWrites, Noted, LockKept
<1>4. ASSUME NEW r \in Resources, OtherLocks(r) PROVE trouble \subseteq trouble' /\ LockKept
  BY <1>1, <1>4 DEF OtherLocks, LockKept
<1>5. ASSUME NEW r \in Resources, LockEnds(r)
      PROVE  trouble \subseteq trouble' /\ (LockKept \/ "ended" \in trouble')
  BY <1>1, <1>5 DEF LockEnds, LockKept, Noted, When
<1> QED
  BY <1>2, <1>3, <1>4, <1>5 DEF Others

LEMMA AskStep == TypeInv /\ AskInv /\ [Next]_vars => AskInv'
<1> SUFFICES ASSUME TypeInv, AskInv, [Next]_vars PROVE AskInv'
  OBVIOUS
<1>1. CASE Command
  BY <1>1, CommandStarts DEF AskInv, Started, UnlockCalls
<1>2. CASE CancelOperation
  BY <1>2 DEF AskInv, CancelOperation, Noted, job, loop
<1>3. CASE Thread
  <2>1. GoesOn /\ trouble \subseteq trouble'
    BY <1>3, ThreadGoesOn
  <2>2. CASE Finish
    BY <2>1, <2>2 DEF AskInv, Finish, Call, UnlockCalls
  <2> QED
    BY <2>1, <2>2 DEF AskInv, GoesOn, job
<1>4. CASE Serve
  BY <1>4, ServeKeepsLocks DEF AskInv, Serve, job, loop
<1>5. CASE CallFails
  BY <1>5 DEF AskInv, CallFails, Noted, job, loop
<1>6. CASE Others
  <2>1. UNCHANGED <<pc, job, loop>>
    BY <1>6 DEF Others, OtherDeletes, OtherWrites, OtherLocks, LockEnds
  <2> QED
    BY <1>6, <2>1, OthersKeepLocks DEF AskInv, job, loop
<1>7. CASE UNCHANGED vars
  BY <1>7 DEF AskInv, vars, job, loop
<1> QED
  BY <1>1, <1>2, <1>3, <1>4, <1>5, <1>6, <1>7, NextIs

LEMMA StepKeepsLocks ==
    ASSUME TypeInv, [Next]_vars
    PROVE  LockKept \/ "ended" \in trouble' \/ pc \in UnlockCalls
<1>1. CASE UNCHANGED server
  BY <1>1 DEF server, LockKept
<1>2. CASE Command
  BY <1>1, <1>2, CommandStarts DEF Started
<1>3. CASE CancelOperation \/ CallFails
  BY <1>1, <1>3 DEF CancelOperation, CallFails
<1>4. CASE Thread
  BY <1>1, <1>4, ThreadGoesOn
<1>5. CASE UNCHANGED vars
  BY <1>1, <1>5 DEF vars
<1> QED
  BY <1>2, <1>3, <1>4, <1>5, ServeKeepsLocks, OthersKeepLocks, NextIs

\* A lock of this client is only given up by Unlock and Upload, or because of mUnlockItem;
\* apart from that it can only run out.
THEOREM LocksAreKept == Spec => UnlockingIsAsked
<1> DEFINE Kept == \A r \in Resources : lock[r] = "ours" /\ lock'[r] # "ours" =>
                      \/ unlock /\ (held = "given" \/ "garbage" \in trouble)
                      \/ "ended" \in trouble'
<1>1. Init => TypeInv /\ AskInv
  BY TypeInit, AskInit
<1>2. TypeInv /\ AskInv /\ [Next]_vars => (TypeInv /\ AskInv)'
  BY TypeStep, AskStep
<1>3. TypeInv /\ AskInv /\ [Next]_vars => [Kept]_vars
  BY StepKeepsLocks DEF AskInv, LockKept
<1>4. Spec => [][Kept]_vars
  BY <1>1, <1>2, <1>3, PTL DEF Spec
<1> QED
  BY <1>4 DEF UnlockingIsAsked
-----------------------------------------------------------------------------
\* One file.  Where only single files can be chosen, and in every job with a token of the
\* command's or mUnlockItem, the thread stays with that file.
Flat == ~\E s \in Selections : Len(s) > 1 \/ s[1] \in Folders
OneFile == \E f \in Files : pick = <<f>> /\ todo = <<f>>

SingleInv ==
    /\ pc # "idle" /\ (Flat \/ unlock \/ held = "given" \/ qualified) => OneFile
    /\ pc \in {"check", "alert"} => held # "found"
    /\ canceled => "canceled" \in trouble

LEMMA FlatSelections == Flat => \A s \in Selections : \E f \in Files : s = <<f>>
<1> SUFFICES ASSUME Flat, NEW s \in Selections PROVE \E f \in Files : s = <<f>>
  OBVIOUS
<1>1. s \in Seq(Items) /\ s # <<>> /\ ~(Len(s) > 1) /\ s[1] \notin Folders
  BY ConstantsAssumption DEF Flat
<1>2. Len(s) \in Nat \ {0}
  BY <1>1, EmptySeq
<1>3. Len(s) = 1
  <2> DEFINE n == Len(s)
  <2>1. n \in Nat \ {0} /\ ~(n > 1)
    BY <1>1, <1>2
  <2> HIDE DEF n
  <2>2. n = 1
    BY <2>1
  <2> QED
    BY <2>2 DEF n
<1>4. s[1] \in Items
  BY <1>1, <1>3, ElementOfSeq
<1>5. s = <<s[1]>>
  BY <1>1, <1>3
<1>6. s[1] \in Files
  BY <1>1, <1>4 DEF Items
<1> QED
  BY <1>5, <1>6

LEMMA OneFileIs ==
    ASSUME OneFile
    PROVE  /\ Len(todo) = 1 /\ todo = pick /\ Head(todo) \in Files \cap Tops
           /\ Head(todo) \notin Folders
<1>1. PICK f \in Files : pick = <<f>> /\ todo = <<f>>
  BY DEF OneFile
<1>2. Len(<<f>>) = 1 /\ Head(<<f>>) = f /\ DOMAIN <<f>> = {1} /\ <<f>>[1] = f
  OBVIOUS
<1>3. Head(todo) \in Tops
  BY <1>1, <1>2 DEF Tops
<1> QED
  BY <1>1, <1>2, <1>3, ResourceTypes

LEMMA OneFileStays ==
    ASSUME TypeInv, OneFile, Thread
    PROVE  Finish \/ (todo' = todo /\ pick' = pick)
<1>1. Len(todo) = 1 /\ todo = pick /\ pc \notin FolderCalls
  BY OneFileIs DEF TypeInv, JobOK
<1>2. Advance => Finish
  BY <1>1 DEF Advance
<1>3. \A new : PastForks(new) => Finish \/ (todo' = todo /\ pick' = pick)
  BY DEF PastForks, job
<1>4. \A new : PastData(new) => Finish \/ (todo' = todo /\ pick' = pick)
  BY <1>3 DEF PastData, job
<1>5. \A name : Continue(name) => todo' = todo /\ pick' = pick
  BY DEF Continue, job, loop
<1>6. \A shown : PastRez(shown) => Finish \/ (todo' = todo /\ pick' = pick)
  BY <1>3, <1>5 DEF PastRez
<1>7. CASE CheckAnswered
  BY <1>1, <1>7 DEF CheckAnswered, job
<1>8. CASE Alert
  BY <1>8 DEF Alert, Begin, job
<1>9. CASE PutAnswered
  BY <1>2, <1>4, <1>5, <1>9 DEF PutAnswered, job
<1>10. CASE PutRezAnswered
  BY <1>2, <1>5, <1>6, <1>10 DEF PutRezAnswered
<1>11. CASE UnlockAnswered \/ UnlockRezAnswered \/ PropsRezAnswered \/ PropsAnswered \/ DropAnswered
  BY <1>2, <1>3, <1>4, <1>5, <1>6, <1>11
     DEF UnlockAnswered, UnlockRezAnswered, PropsRezAnswered, PropsAnswered, DropAnswered
<1>12. ~ExistsAnswered /\ ~CreateAnswered /\ ~PropsFolderAnswered
  BY <1>1 DEF ExistsAnswered, CreateAnswered, PropsFolderAnswered, Answered, FolderCalls
<1> QED
  BY <1>7, <1>8, <1>9, <1>10, <1>11, <1>12 DEF Thread

LEMMA TroubleGrows == [Next]_vars => trouble \subseteq trouble'
<1>1. Serve => trouble \subseteq trouble'
  <2>1. \A r : ServePut(r) => trouble \subseteq trouble'
    BY DEF ServePut, Noted
  <2>2. \A r : ServeProps(r) \/ ServeExists(r) \/ ServeCheck(r) \/ ServeCreate(r) \/ ServeDelete(r) \/ ServeUnlock(r)
              => trouble \subseteq trouble'
    BY DEF ServeProps, ServeExists, ServeCheck, ServeCreate, ServeDelete, ServeUnlock, Noted
  <2> QED
    BY <2>1, <2>2 DEF Serve
<1>2. Others => trouble \subseteq trouble'
  BY DEF Others, OtherDeletes, OtherWrites, OtherLocks, LockEnds, Noted
<1>3. CancelOperation \/ CallFails => trouble \subseteq trouble'
  BY DEF CancelOperation, CallFails, Noted
<1>4. UNCHANGED vars => trouble \subseteq trouble'
  BY DEF vars
<1> QED
  BY <1>1, <1>2, <1>3, <1>4, NextIs, ThreadGoesOn, CommandStarts DEF Started

\* The steps that leave the thread where it is.
Elsewhere == Serve \/ CallFails \/ Others \/ UNCHANGED vars

LEMMA ElsewhereIs ==
    Elsewhere => UNCHANGED <<record, row, pc, pick, qualified, unlock, todo, held, token, overwrite,
                             created, canceled, muted>>
<1>1. Serve \/ CallFails => UNCHANGED <<client, pc, job, loop, canceled, muted>>
  BY DEF Serve, CallFails
<1>2. Others => UNCHANGED <<client, pc, job, loop, canceled, muted>>
  BY DEF Others, OtherDeletes, OtherWrites, OtherLocks, LockEnds
<1>3. UNCHANGED vars => UNCHANGED <<client, pc, job, loop, canceled, muted>>
  BY DEF vars
<1> QED
  BY <1>1, <1>2, <1>3 DEF Elsewhere, client, job, loop

LEMMA StepIs == [Next]_vars => Command \/ CancelOperation \/ Thread \/ Elsewhere
  BY NextIs DEF Elsewhere

LEMMA SingleStart == Command => SingleInv'
<1> SUFFICES ASSUME Command PROVE SingleInv'
  OBVIOUS
<1>1. pc' = "check" /\ ~canceled'
  BY CommandStarts DEF Started
<1>2. ASSUME NEW s \in Selections, UploadFSSpecVector(s) PROVE SingleInv'
  <2>1. pick' = s /\ todo' = s /\ held' = "no" /\ ~unlock' /\ ~qualified'
    BY <1>2 DEF UploadFSSpecVector, Start
  <2>2. Flat => \E f \in Files : s = <<f>>
    BY FlatSelections
  <2>3. Flat' => OneFile'
    BY <2>1, <2>2 DEF Flat, OneFile
  <2> QED
    BY <1>1, <2>1, <2>3 DEF SingleInv
<1>3. ASSUME NEW f \in Files, UploadFSSpec(f) PROVE SingleInv'
  <2>1. pick' = <<f>> /\ todo' = <<f>> /\ held' = "no"
    BY <1>3 DEF UploadFSSpec, Start
  <2> QED
    BY <1>1, <2>1 DEF SingleInv, OneFile
<1>4. ASSUME NEW f \in Files, NEW release \in BOOLEAN, Synchronize(f, release) PROVE SingleInv'
  <2>1. pick' = <<f>> /\ todo' = <<f>> /\ held' \in {"no", "given"}
    BY <1>4 DEF Synchronize, Start
  <2> QED
    BY <1>1, <2>1 DEF SingleInv, OneFile
<1> QED
  BY <1>2, <1>3, <1>4 DEF Command

LEMMA SingleInit == Init => SingleInv
  BY DEF Init, SingleInv

LEMMA SingleStep == TypeInv /\ SingleInv /\ [Next]_vars => SingleInv'
<1> SUFFICES ASSUME TypeInv, SingleInv, [Next]_vars PROVE SingleInv'
  OBVIOUS
<1>1. trouble \subseteq trouble' /\ Flat' = Flat
  BY TroubleGrows DEF Flat
<1>2. CASE CancelOperation
  BY <1>1, <1>2 DEF SingleInv, OneFile, CancelOperation, Noted, job, loop
<1>3. CASE Thread
  <2>1. CASE Finish
    BY <1>1, <2>1 DEF Finish, Call, SingleInv
  <2>2. CASE ~Finish
    <3>1. /\ UNCHANGED <<job, canceled, muted>>
          /\ held' = held \/ (held = "no" /\ held' = "found")
      BY <1>3, <2>2, ThreadGoesOn DEF GoesOn
    <3>2. pc # "idle"
      BY <1>3 DEF Thread, CheckAnswered, Alert, ExistsAnswered, CreateAnswered,
         PropsFolderAnswered, PutAnswered, UnlockAnswered, PutRezAnswered, UnlockRezAnswered,
         PropsRezAnswered, PropsAnswered, DropAnswered, Answered
    <3>3. Flat' \/ unlock' \/ held' = "given" \/ qualified' => OneFile'
      BY <1>1, <1>3, <2>2, <3>1, <3>2, OneFileStays DEF SingleInv, OneFile, job
    <3>4. pc' \in {"check", "alert"} => held' # "found"
      <4>1. CASE CheckAnswered
        BY <4>1 DEF CheckAnswered, Answered, SingleInv
      <4>2. ASSUME NEW rest, Begin(rest) PROVE pc' \notin {"check", "alert"}
        BY <4>2 DEF Begin, Call
      <4>3. ASSUME NEW name, Continue(name), name \notin {"check", "alert"}
            PROVE  pc' \notin {"check", "alert"}
        BY <4>3 DEF Continue, Call
      <4>4. \A new : PastForks(new) => pc' \notin {"check", "alert"}
        BY <2>2 DEF PastForks, Call
      <4>5. \A new : PastData(new) => pc' \notin {"check", "alert"}
        BY <4>4 DEF PastData, Call
      <4>6. \A shown : PastRez(shown) => pc' \notin {"check", "alert"}
        BY <4>3, <4>4 DEF PastRez
      <4>7. (Advance \/ Descend) => pc' \notin {"check", "alert"}
        BY <2>2, <4>2 DEF Advance, Descend
      <4>8. CASE ~CheckAnswered
        <5>1. CASE Alert
          BY <2>2, <4>2, <5>1 DEF Alert
        <5>2. CASE ExistsAnswered \/ CreateAnswered \/ PropsFolderAnswered
          BY <2>2, <4>3, <4>7, <5>2 DEF ExistsAnswered, CreateAnswered, PropsFolderAnswered
        <5>3. CASE PutAnswered \/ UnlockAnswered
          BY <4>3, <4>5, <4>7, <5>3 DEF PutAnswered, UnlockAnswered, Call
        <5>4. CASE PutRezAnswered \/ UnlockRezAnswered
          BY <4>3, <4>6, <4>7, <5>4 DEF PutRezAnswered, UnlockRezAnswered
        <5>5. CASE PropsRezAnswered \/ PropsAnswered \/ DropAnswered
          BY <2>2, <4>3, <4>4, <4>7, <5>5 DEF PropsRezAnswered, PropsAnswered, DropAnswered
        <5> QED
          BY <1>3, <4>8, <5>1, <5>2, <5>3, <5>4, <5>5 DEF Thread
      <4> QED
        BY <4>1, <4>8
    <3> QED
      BY <1>1, <3>1, <3>3, <3>4 DEF SingleInv
  <2> QED
    BY <2>1, <2>2
<1>4. CASE Elsewhere
  BY <1>1, <1>4, ElsewhereIs DEF SingleInv, OneFile
<1> QED
  BY <1>2, <1>3, <1>4, SingleStart, StepIs
-----------------------------------------------------------------------------
\* A token for every lock: the server was asked last when the token is dropped.
Data == <<Head(todo), "data">>
Rez == <<Head(todo), "rez">>

RecordInv ==
    /\ \A r \in Resources : lock[r] = "ours" => r \in record
    /\ pc = "props" /\ answer = "ok" => lock[Data] # "ours"
    /\ pc = "propsRez" /\ answer = "ok" => lock[Rez] # "ours"

LEMMA RecordInit == Init => RecordInv
  BY DEF Init, RecordInv

LEMMA HeadResources ==
    ASSUME TypeInv
    PROVE  /\ pc # "idle" => Head(todo) \in Items /\ Data \in Resources
           /\ pc \in FileCalls => Head(todo) \in Files /\ Rez \in Resources
<1>1. pc # "idle" => Head(todo) \in Items
  BY Heads DEF TypeInv, JobOK
<1>2. pc \in FileCalls => Head(todo) \in Files
  BY DEF TypeInv, JobOK
<1> QED
  BY <1>1, <1>2, ResourceTypes DEF Data, Rez

\* What the server does with the call the thread waits for.
LEMMA ServeIs ==
    ASSUME TypeInv, Serve
    PROVE  /\ answer = "waiting" /\ (pc \notin DropCalls \/ ~muted)
           /\ pc \in {"check", "exists"} => UNCHANGED <<content, lock, trouble>>
           /\ pc = "propsFolder" => UNCHANGED <<lock, trouble>>
           /\ pc = "create" => UNCHANGED lock /\ trouble' \subseteq trouble \cup {"misplaced"}
           /\ pc = "props" => ServeProps(Data)
           /\ pc = "propsRez" => ServeProps(Rez)
           /\ pc = "put" => ServePut(Data)
           /\ pc = "putRez" => ServePut(Rez)
           /\ pc = "unlock" => ServeUnlock(Data)
           /\ pc = "unlockRez" => ServeUnlock(Rez)
           /\ pc \in DropCalls => \E r \in Resources : ServeDelete(r)
           /\ pc # "idle" /\ pc # "alert"
<1>1. /\ answer = "waiting" /\ (pc \notin DropCalls \/ ~muted)
      /\ pc \in {"check", "exists"} => UNCHANGED <<content, lock, trouble>>
      /\ pc = "propsFolder" => UNCHANGED <<lock, trouble>>
      /\ pc = "create" => UNCHANGED lock /\ trouble' \subseteq trouble \cup {"misplaced"}
  BY DEF Serve, Sends, DropCalls, ServeExists, ServeCheck, ServeCreate, ServeProps, server, Noted, When
<1>2. /\ pc = "props" => ServeProps(Data)
      /\ pc = "propsRez" => ServeProps(Rez)
      /\ pc = "put" => ServePut(Data)
      /\ pc = "putRez" => ServePut(Rez)
      /\ pc = "unlock" => ServeUnlock(Data)
      /\ pc = "unlockRez" => ServeUnlock(Rez)
      /\ pc \in {"drop", "dropBoth"} => ServeDelete(Data)
      /\ pc = "dropRez" => ServeDelete(Rez)
      /\ pc # "idle" /\ pc # "alert"
  BY DEF Serve, Data, Rez
<1>3. pc \in DropCalls => Data \in Resources /\ Rez \in Resources
  BY HeadResources DEF DropCalls, FileCalls
<1> QED
  BY <1>1, <1>2, <1>3 DEF DropCalls

LEMMA NoNewLocks ==
    ASSUME TypeInv, [Next]_vars
    PROVE  \A r \in Resources : lock'[r] = "ours" => lock[r] = "ours"
<1>1. lock \in [Resources -> {"free", "ours", "theirs"}]
  BY DEF TypeInv, ServerOK
<1>2. CASE UNCHANGED lock
  BY <1>2
<1>3. CASE Serve
  <2>1. ASSUME NEW r \in Resources, ServeUnlock(r)
        PROVE  \A x \in Resources : lock'[x] = "ours" => lock[x] = "ours"
    BY <1>1, <2>1 DEF ServeUnlock
  <2>2. \A r : ServeProps(r) \/ ServePut(r) \/ ServeDelete(r) => UNCHANGED lock
    BY DEF ServeProps, ServePut, ServeDelete, server
  <2>3. pc \in UnlockCalls => Data \in Resources /\ Rez \in Resources
    BY HeadResources DEF UnlockCalls, FileCalls
  <2>4. pc \in UnlockCalls => ServeUnlock(Data) \/ ServeUnlock(Rez)
    BY <1>3, ServeIs DEF UnlockCalls
  <2>5. pc \notin UnlockCalls => UNCHANGED lock
    BY <1>3, <2>2, ServeIs DEF UnlockCalls, DropCalls, TypeInv, JobOK, FolderCalls, FileCalls
  <2> QED
    BY <1>2, <2>1, <2>3, <2>4, <2>5
<1>4. CASE Others
  <2>1. ASSUME NEW i \in Items, OtherDeletes(i)
        PROVE  \A x \in Resources : lock'[x] = "ours" => lock[x] = "ours"
    BY <1>1, <2>1 DEF OtherDeletes
  <2>2. ASSUME NEW r \in Resources, OtherWrites(r) \/ OtherLocks(r) \/ LockEnds(r)
        PROVE  \A x \in Resources : lock'[x] = "ours" => lock[x] = "ours"
    BY <1>1, <2>2 DEF OtherWrites, OtherLocks, LockEnds
  <2> QED
    BY <1>4, <2>1, <2>2 DEF Others
<1>5. CASE CancelOperation \/ CallFails \/ Thread \/ Command \/ UNCHANGED vars
  BY <1>2, <1>5, ThreadGoesOn, CommandStarts
     DEF CancelOperation, CallFails, Started, vars, server
<1> QED
  BY <1>3, <1>4, <1>5, NextIs

\* The thread drops a token when the properties came without the lock.
LEMMA ThreadRecord ==
    ASSUME Thread
    PROVE  \/ record' = record
           \/ pc = "props" /\ answer = "ok" /\ record' = record \ {Data}
           \/ pc = "propsRez" /\ answer = "ok" /\ record' = record \ {Rez}
<1>1. CASE PropsRezAnswered
  BY <1>1 DEF PropsRezAnswered, Answered, AfterDataChange, Rez
<1>2. CASE PropsAnswered
  BY <1>2 DEF PropsAnswered, Answered, AfterDataChange, Data
<1>3. CASE ~PropsRezAnswered /\ ~PropsAnswered
  BY <1>3 DEF Thread, CheckAnswered, Alert, ExistsAnswered, CreateAnswered,
     PropsFolderAnswered, PutAnswered, UnlockAnswered, PutRezAnswered, UnlockRezAnswered,
     DropAnswered, client
<1> QED
  BY <1>1, <1>2, <1>3

LEMMA RecordStep == TypeInv /\ RecordInv /\ [Next]_vars => RecordInv'
<1> SUFFICES ASSUME TypeInv, RecordInv, [Next]_vars PROVE RecordInv'
  OBVIOUS
<1>1. \A r \in Resources : lock'[r] = "ours" => lock[r] = "ours"
  BY NoNewLocks
<1>2. pc \in {"props", "propsRez"} => Data \in Resources /\ Rez \in Resources
  BY HeadResources DEF FileCalls
<1>3. CASE Command
  BY <1>1, <1>3, CommandStarts DEF RecordInv, Started, client
<1>4. CASE CancelOperation
  <2>1. UNCHANGED <<record, pc, todo>> /\ (answer' = "ok" => answer = "ok")
    BY <1>4 DEF CancelOperation, client, loop
  <2> QED
    BY <1>1, <1>2, <1>4, <2>1 DEF RecordInv, Data, Rez
<1>5. CASE Thread
  <2>1. answer' = "waiting"
    BY <1>5, ThreadGoesOn DEF GoesOn, Finish, Call
  <2>2. \A r \in Resources : lock'[r] = "ours" => r \in record'
    BY <1>1, <1>5, ThreadRecord DEF RecordInv
  <2> QED
    BY <2>1, <2>2 DEF RecordInv
<1>6. CASE Elsewhere
  <2>1. UNCHANGED <<record, pc, todo>>
    BY <1>6, ElsewhereIs
  <2>2. \A r \in Resources : lock'[r] = "ours" => r \in record'
    BY <1>1, <2>1 DEF RecordInv
  <2>3. CASE answer' = "ok" => answer = "ok"
    BY <1>1, <1>2, <2>1, <2>2, <2>3 DEF RecordInv, Data, Rez
  <2>4. CASE Serve
    <3>1. ASSUME NEW r, ServeProps(r) PROVE answer' = "ok" => lock'[r] # "ours"
      BY <3>1 DEF ServeProps, Respond, server
    <3> QED
      BY <2>1, <2>2, <2>4, <3>1, ServeIs DEF RecordInv, Data, Rez
  <2>5. CASE ~Serve
    BY <1>6, <2>3, <2>5 DEF Elsewhere, CallFails, Respond, When, Others, OtherDeletes, OtherWrites,
       OtherLocks, LockEnds, vars
  <2> QED
    BY <2>4, <2>5
<1> QED
  BY <1>3, <1>4, <1>5, <1>6, StepIs
-----------------------------------------------------------------------------
\* Tokens.  What a PUT is sent with, as far as the code looks it up.
KnownInv ==
    /\ pc = "put" =>
          /\ held # "no" \/ Data \in record => token # "none"
          /\ token = "own" => held = "given" \/ Data \in record
          /\ Flat => token # "empty"
    /\ pc = "putRez" => token = IF Rez \in record THEN "own" ELSE "none"
    /\ pc \in {"putRez", "unlockRez", "propsRez"} => Encoding

\* How each call comes about.
LEMMA BeginIs ==
    ASSUME NEW rest, Begin(rest)
    PROVE  pc' \in {"exists", "put"} /\ answer' = "waiting" /\ UNCHANGED <<pick, unlock, canceled>>
  BY DEF Begin, Call, job

LEMMA AdvanceIs ==
    ASSUME TypeInv, SingleInv, pc # "idle", Advance \/ (Descend /\ pc \in FolderCalls)
    PROVE  \/ Finish
           \/ ~Flat /\ ~unlock /\ held # "given" /\ \E rest : Begin(rest)
<1>1. CASE OneFile
  <2>1. Len(todo) = 1 /\ pc \notin FolderCalls
    BY <1>1, OneFileIs DEF TypeInv, JobOK
  <2> QED
    BY <2>1 DEF Advance
<1>2. CASE ~OneFile
  BY <1>2 DEF SingleInv, Advance, Descend
<1> QED
  BY <1>1, <1>2

\* The calls that say nothing about a file that is being written.
PlainCalls == {"idle", "check", "alert", "create", "propsFolder", "exists"} \cup DropCalls

LEMMA PlainAre ==
    /\ \A name \in PlainCalls :
          name \notin {"put", "putRez", "unlock", "unlockRez", "props", "propsRez"}
    /\ {"create", "propsFolder", "drop", "dropBoth", "dropRez", "idle", "check", "alert", "exists"}
          \subseteq PlainCalls
    /\ FolderCalls \subseteq PlainCalls
  BY DEF PlainCalls, DropCalls, FolderCalls

LEMMA KnownPlain == pc' \in PlainCalls \cup {"unlock", "props"} => KnownInv'
  BY PlainAre DEF KnownInv

LEMMA KnownFinish == Finish => KnownInv'
  BY KnownPlain, PlainAre DEF Finish, Call

LEMMA KnownBegin ==
    ASSUME TypeInv, NEW rest, Begin(rest), Flat => held # "found" PROVE KnownInv'
<1>1. CASE pc' = "exists"
  BY <1>1, KnownPlain, PlainAre
<1>2. CASE pc' # "exists"
  <2>1. /\ pc' = "put" /\ todo' = rest
        /\ held' = IF held = "no" /\ <<Head(rest), "data">> \in record' THEN "found" ELSE held
        /\ token' = CASE held = "given" -> "own"
                      [] held = "found" -> "empty"
                      [] OTHER -> IF <<Head(rest), "data">> \in record' THEN "own" ELSE "none"
    BY <1>2 DEF Begin, Call
  <2>2. Data' = <<Head(rest), "data">> /\ Flat' = Flat
    BY <2>1 DEF Data, Flat
  <2>3. CASE held = "given" \/ held = "found"
    BY <2>1, <2>2, <2>3 DEF KnownInv
  <2>4. CASE held = "no"
    <3>1. token' = IF <<Head(rest), "data">> \in record' THEN "own" ELSE "none"
      BY <2>1, <2>4
    <3>2. held' # "no" => held # "no" \/ Data' \in record'
      BY <2>1, <2>2
    <3> QED
      BY <2>1, <2>2, <2>4, <3>1, <3>2 DEF KnownInv
  <2> QED
    BY <2>3, <2>4 DEF TypeInv, FlagsOK
<1> QED
  BY <1>1, <1>2

LEMMA KnownAdvance ==
    TypeInv /\ SingleInv /\ pc # "idle" /\ (Advance \/ (Descend /\ pc \in FolderCalls)) => KnownInv'
  BY AdvanceIs, KnownFinish, KnownBegin

LEMMA KnownPastForks == \A new : PastForks(new) => KnownInv'
  BY KnownFinish, KnownPlain DEF PastForks, Call

LEMMA KnownPastData ==
    ASSUME NEW new, PastData(new), record' = record PROVE KnownInv'
<1>1. CASE ~Encoding
  BY <1>1, KnownPastForks DEF PastData
<1>2. CASE Encoding
  BY <1>2 DEF PastData, Call, KnownInv, Rez
<1> QED
  BY <1>1, <1>2

LEMMA KnownContinue ==
    ASSUME NEW name, Continue(name), name \in PlainCalls \/ (name \in {"unlockRez", "propsRez"} /\ Encoding)
    PROVE  KnownInv'
  BY PlainAre DEF Continue, Call, KnownInv

LEMMA KnownPastRez ==
    ASSUME NEW shown, PastRez(shown), Encoding PROVE KnownInv'
  BY KnownContinue, KnownPastForks DEF PastRez

LEMMA KnownThread == TypeInv /\ SingleInv /\ KnownInv /\ Thread => KnownInv'
<1> SUFFICES ASSUME TypeInv, SingleInv, KnownInv, Thread PROVE KnownInv'
  OBVIOUS
<1>1. CASE CheckAnswered
  BY <1>1, KnownPlain, PlainAre DEF CheckAnswered, Call
<1>2. CASE Alert
  <2>1. held # "found"
    BY <1>2 DEF Alert, SingleInv
  <2> QED
    BY <1>2, <2>1, KnownFinish, KnownBegin DEF Alert
<1>3. CASE ExistsAnswered
  <2>1. pc \in FolderCalls /\ pc # "idle"
    BY <1>3 DEF ExistsAnswered, Answered, FolderCalls
  <2> QED
    BY <1>3, <2>1, KnownAdvance, KnownContinue, PlainAre DEF ExistsAnswered
<1>4. CASE CreateAnswered
  <2>1. pc # "idle"
    BY <1>4 DEF CreateAnswered, Answered
  <2> QED
    BY <1>4, <2>1, KnownAdvance, KnownContinue, PlainAre DEF CreateAnswered
<1>5. CASE PropsFolderAnswered
  <2>1. pc \in FolderCalls /\ pc # "idle"
    BY <1>5 DEF PropsFolderAnswered, Answered, FolderCalls
  <2> QED
    BY <1>5, <2>1, KnownAdvance, KnownFinish DEF PropsFolderAnswered
<1>6. CASE PutAnswered
  <2>1. pc # "idle" /\ record' = record
    BY <1>6 DEF PutAnswered, Answered, client
  <2>2. CASE Call("unlock")
    BY <2>2, KnownPlain DEF Call
  <2> QED
    BY <1>6, <2>1, <2>2, KnownAdvance, KnownContinue, KnownPastData, PlainAre DEF PutAnswered
<1>7. CASE UnlockAnswered
  <2>1. record' = record
    BY <1>7 DEF UnlockAnswered, client
  <2> QED
    BY <1>7, <2>1, KnownPastData DEF UnlockAnswered
<1>8. CASE PutRezAnswered
  <2>1. pc # "idle" /\ Encoding
    BY <1>8 DEF PutRezAnswered, Answered, KnownInv
  <2> QED
    BY <1>8, <2>1, KnownAdvance, KnownContinue, KnownPastRez, PlainAre DEF PutRezAnswered
<1>9. CASE UnlockRezAnswered
  <2>1. Encoding
    BY <1>9 DEF UnlockRezAnswered, Answered, KnownInv
  <2> QED
    BY <1>9, <2>1, KnownPastRez DEF UnlockRezAnswered
<1>10. CASE PropsRezAnswered
  BY <1>10, KnownPastForks DEF PropsRezAnswered
<1>11. CASE PropsAnswered
  <2>1. pc # "idle"
    BY <1>11 DEF PropsAnswered, Answered
  <2> QED
    BY <1>11, <2>1, KnownAdvance DEF PropsAnswered
<1>12. CASE DropAnswered
  BY <1>12, KnownFinish, KnownContinue, PlainAre DEF DropAnswered
<1> QED
  BY <1>1, <1>2, <1>3, <1>4, <1>5, <1>6, <1>7, <1>8, <1>9, <1>10, <1>11, <1>12 DEF Thread

LEMMA KnownInit == Init => KnownInv
  BY DEF Init, KnownInv

LEMMA KnownStep == TypeInv /\ SingleInv /\ KnownInv /\ [Next]_vars => KnownInv'
<1> SUFFICES ASSUME TypeInv, SingleInv, KnownInv, [Next]_vars PROVE KnownInv'
  OBVIOUS
<1>1. CASE Command
  BY <1>1, CommandStarts, KnownPlain, PlainAre DEF Started
<1>2. CASE CancelOperation
  BY <1>2 DEF CancelOperation, KnownInv, client, loop, Data, Rez, Flat
<1>3. CASE Thread
  BY <1>3, KnownThread
<1>4. CASE Elsewhere
  BY <1>4, ElsewhereIs DEF KnownInv, Data, Rez, Flat
<1> QED
  BY <1>1, <1>2, <1>3, <1>4, StepIs
-----------------------------------------------------------------------------
\* A lock for every token, as long as nobody interferes: a PUT that was answered well had
\* the right token, and a token without its lock is about to be dropped.
Calm == trouble \cap {"lost", "raced", "ended", "canceled"} = {}
Good == answer \in {"ok", "created"}
AfterPut == {"unlock", "putRez", "unlockRez", "propsRez", "props"}

\* The token of the command is that of the item.
GivenPart == held = "given" /\ pc \in {"check", "alert", "put"} => Data \in record
\* The file was written, with the token of its lock if there is one.
PutPart ==
    /\ (pc = "put" /\ Good) \/ pc \in AfterPut => content[Data] # "none"
    /\ (pc = "put" /\ Good) \/ (pc \in {"putRez", "propsRez", "props"} /\ ~unlock) =>
          (held # "no" \/ Data \in record => lock[Data] = "ours")
ForkPart == (pc = "putRez" /\ Good) \/ pc \in {"unlockRez", "propsRez"} => content[Rez] # "none"
\* What the server can answer.
AnswerPart ==
    /\ pc = "putRez" /\ answer = "failed" => trouble \cap Refusals # {}
    /\ pc \in {"props", "propsRez"} => answer \in {"waiting", "ok", "locked"}
    /\ pc = "props" /\ answer = "locked" => lock[Data] = "ours"
    /\ pc = "propsRez" /\ answer = "locked" => lock[Rez] = "ours"
Left(r) ==
    \/ r[2] = "rez" /\ "leftover" \in trouble
    \/ r[2] = "data" /\ Encoding /\ trouble \cap Refusals # {}
Busy(r) ==
    \/ /\ r = Data
       /\ \/ pc = "unlock" /\ answer = "ok"
          \/ pc \in {"putRez", "unlockRez", "propsRez", "props"} /\ unlock
    \/ /\ r = Rez
       /\ \/ pc = "unlockRez" /\ answer = "ok"
          \/ pc = "propsRez"
TokenPart == \A r \in record : lock[r] = "ours" \/ Left(r) \/ Busy(r)
Settled == \A r \in record : lock[r] = "ours" \/ Left(r)
RowPart == \A f \in Files : row[f] = "local" => <<f, "data">> \in record

CalmInv == Calm => GivenPart /\ PutPart /\ ForkPart /\ AnswerPart /\ TokenPart /\ RowPart
Context == TypeInv /\ SingleInv /\ CancelInv /\ AskInv /\ RecordInv /\ KnownInv /\ CalmInv

LEMMA CalmInit == Init => CalmInv
<1> SUFFICES ASSUME Init PROVE CalmInv
  OBVIOUS
<1>1. pc = "idle" /\ \A r \in record : lock[r] = "ours"
  BY DEF Init
<1>2. RowPart
  <2>1. ASSUME NEW f \in Files, row[f] = "local" PROVE <<f, "data">> \in record
    <3>1. lock[<<f, "data">>] = "ours"
      BY <2>1 DEF Init
    <3> QED
      BY <3>1, ResourceTypes DEF Init
  <2> QED
    BY <2>1 DEF RowPart
<1> QED
  BY <1>1, <1>2 DEF CalmInv, GivenPart, PutPart, ForkPart, AnswerPart, TokenPart, AfterPut

LEMMA CalmBefore ==
    ASSUME Context, [Next]_vars, Calm'
    PROVE  /\ Calm /\ GivenPart /\ PutPart /\ ForkPart /\ AnswerPart /\ TokenPart /\ RowPart
           /\ ~canceled /\ ~muted /\ answer # "canceled" /\ pc \notin DropCalls
           /\ \A r : Left(r) => Left(r)'
<1>1. trouble \subseteq trouble'
  BY TroubleGrows
<1>2. Calm
  BY <1>1 DEF Calm
<1>3. ~canceled
  BY <1>2 DEF Calm, Context, SingleInv
<1>4. \A r : Left(r) => Left(r)'
  BY <1>1 DEF Left
<1> QED
  BY <1>2, <1>3, <1>4 DEF Context, CalmInv, CancelInv

\* Steps to a call that says nothing about a file being written.
LEMMA CalmPlain ==
    ASSUME pc' \in PlainCalls \cup {"put"}, answer' = "waiting", Settled', RowPart', GivenPart'
    PROVE  CalmInv'
<1>1. pc' \notin AfterPut /\ ~Good'
  BY PlainAre DEF AfterPut, Good, PlainCalls, DropCalls
<1>2. TokenPart'
  BY DEF Settled, TokenPart
<1>3. PutPart' /\ ForkPart' /\ AnswerPart'
  BY <1>1 DEF PutPart, ForkPart, AnswerPart, AfterPut
<1> QED
  BY <1>2, <1>3 DEF CalmInv

LEMMA CalmFinish ==
    ASSUME Finish, Settled', RowPart' PROVE CalmInv'
<1>1. pc' \in PlainCalls /\ answer' = "waiting" /\ GivenPart'
  BY PlainAre DEF Finish, Call, GivenPart
<1> QED
  BY <1>1, CalmPlain

LEMMA CalmBegin ==
    ASSUME NEW rest, Begin(rest), Settled', RowPart',
           held = "given" => <<Head(rest), "data">> \in record'
    PROVE  CalmInv'
<1>1. pc' \in PlainCalls \cup {"put"} /\ answer' = "waiting" /\ todo' = rest
  BY PlainAre DEF Begin, Call
<1>2. held' = "given" => held = "given"
  BY DEF Begin
<1>3. GivenPart'
  BY <1>1, <1>2 DEF GivenPart, Data
<1> QED
  BY <1>1, <1>3, CalmPlain

LEMMA CalmAdvance ==
    ASSUME TypeInv, SingleInv, pc # "idle", Advance \/ (Descend /\ pc \in FolderCalls),
           Settled', RowPart'
    PROVE  CalmInv'
  BY AdvanceIs, CalmFinish, CalmBegin

\* While the thread does not wait for anything of a file, every token has its lock.
LEMMA SettledStays ==
    ASSUME TokenPart, pc \notin AfterPut, UNCHANGED <<record, lock>>,
           \A r : Left(r) => Left(r)'
    PROVE  Settled'
<1>1. \A r : ~Busy(r)
  BY DEF Busy, AfterPut
<1> QED
  BY <1>1 DEF TokenPart, Settled

LEMMA PlainNotAfter == \A name \in PlainCalls \cup {"put"} : name \notin AfterPut
  BY PlainAre DEF AfterPut, PlainCalls, DropCalls

LEMMA CalmCommand ==
    ASSUME Context, [Next]_vars, Command PROVE CalmInv'
<1> SUFFICES ASSUME Calm' PROVE CalmInv'
  BY DEF CalmInv
<1>1. Started
  BY CommandStarts
<1>2. pc = "idle"
  BY DEF Command, UploadFSSpecVector, UploadFSSpec, Synchronize, Start, Idle
<1>3. Settled' /\ RowPart'
  <2>1. UNCHANGED <<record, lock, row>> /\ pc \notin AfterPut
    BY <1>1, <1>2 DEF Started, client, server, AfterPut
  <2> QED
    BY <2>1, CalmBefore, SettledStays DEF RowPart
<1>4. GivenPart'
  <2>1. ASSUME NEW f \in Files, NEW release, Synchronize(f, release), held' = "given"
        PROVE  Data' \in record'
    <3>1. row[f] = "local" /\ todo' = <<f>> /\ record' = record
      BY <1>1, <2>1 DEF Synchronize, Start, Started, client
    <3> QED
      BY <2>1, <3>1, CalmBefore DEF RowPart, Data
  <2>2. ASSUME NEW s, UploadFSSpecVector(s) PROVE held' = "no"
    BY <2>2 DEF UploadFSSpecVector, Start
  <2>3. ASSUME NEW f, UploadFSSpec(f) PROVE held' = "no"
    BY <2>3 DEF UploadFSSpec, Start
  <2> QED
    BY <2>1, <2>2, <2>3 DEF Command, GivenPart
<1>5. pc' \in PlainCalls /\ answer' = "waiting"
  BY <1>1, PlainAre DEF Started
<1> QED
  BY <1>3, <1>4, <1>5, CalmPlain

\* The next call for a file that was written.
LEMMA CalmAfter ==
    ASSUME pc' \in AfterPut, answer' = "waiting", UNCHANGED todo,
           content'[Data] # "none",
           pc' \in {"unlockRez", "propsRez"} => content'[Rez] # "none",
           pc' \in {"putRez", "propsRez", "props"} /\ ~unlock' =>
                (held' # "no" \/ Data \in record' => lock'[Data] = "ours"),
           TokenPart', RowPart'
    PROVE  CalmInv'
<1>1. Data' = Data /\ Rez' = Rez
  BY DEF Data, Rez
<1>2. pc' \notin {"check", "alert", "put"} /\ ~Good'
  BY DEF AfterPut, Good
<1>3. GivenPart' /\ PutPart' /\ ForkPart'
  BY <1>1, <1>2 DEF GivenPart, PutPart, ForkPart
<1>4. AnswerPart'
  BY DEF AnswerPart
<1> QED
  BY <1>3, <1>4 DEF CalmInv

\* What the steps of the thread have in common.
LEMMA ThreadKeeps ==
    ASSUME Context, [Next]_vars, Calm', Thread
    PROVE  /\ UNCHANGED <<content, lock>>
           /\ row' = row => RowPart' \/ record' # record
  BY CalmBefore, ThreadGoesOn DEF server, RowPart

LEMMA CalmChecks ==
    ASSUME Context, [Next]_vars, Thread,
           CheckAnswered \/ Alert \/ ExistsAnswered \/ CreateAnswered \/ PropsFolderAnswered
    PROVE  CalmInv'
<1> SUFFICES ASSUME Calm' PROVE CalmInv'
  BY DEF CalmInv
<1>1. UNCHANGED <<record, row, lock>>
  BY ThreadKeeps DEF CheckAnswered, Alert, ExistsAnswered, CreateAnswered, PropsFolderAnswered, client
<1>2. pc \in PlainCalls /\ pc # "idle"
  BY PlainAre DEF CheckAnswered, Alert, ExistsAnswered, CreateAnswered, PropsFolderAnswered, Answered
<1>3. Settled'
  BY <1>1, <1>2, PlainNotAfter, CalmBefore, SettledStays
<1>4. RowPart'
  BY <1>1, CalmBefore DEF RowPart
<1>5. CASE CheckAnswered
  <2>1. pc' \in PlainCalls /\ answer' = "waiting" /\ held' = held /\ pc = "check"
    BY <1>5, PlainAre DEF CheckAnswered, Call, Answered
  <2>2. held = "given" => todo' = todo
    <3>1. held = "given" => OneFile
      BY <1>2 DEF Context, SingleInv
    <3>2. OneFile => Len(todo) = 1 /\ todo = pick
      BY OneFileIs
    <3> QED
      BY <1>5, <3>1, <3>2 DEF CheckAnswered
  <2>3. GivenPart'
    BY <1>1, <2>1, <2>2, CalmBefore DEF GivenPart, Data
  <2> QED
    BY <1>3, <1>4, <2>1, <2>3, CalmPlain
<1>6. CASE Alert
  <2>1. held = "given" => <<Head(todo), "data">> \in record'
    BY <1>1, <1>6, CalmBefore DEF Alert, GivenPart, Data
  <2> QED
    BY <1>3, <1>4, <1>6, <2>1, CalmFinish, CalmBegin DEF Alert
<1>7. ASSUME NEW name \in {"create", "propsFolder"}, Continue(name), pc \in FolderCalls
      PROVE  CalmInv'
  <2>1. pc' \in PlainCalls /\ answer' = "waiting"
    BY <1>7, PlainAre DEF Continue, Call
  <2>2. GivenPart'
    BY <1>7 DEF Continue, Call, GivenPart
  <2> QED
    BY <1>3, <1>4, <2>1, <2>2, CalmPlain
<1>8. CASE ExistsAnswered \/ CreateAnswered \/ PropsFolderAnswered
  <2>1. pc \in FolderCalls
    BY <1>8 DEF ExistsAnswered, CreateAnswered, PropsFolderAnswered, Answered, FolderCalls
  <2> QED
    BY <1>2, <1>3, <1>4, <1>7, <1>8, <2>1, CalmAdvance, CalmFinish
       DEF Context, ExistsAnswered, CreateAnswered, PropsFolderAnswered
<1> QED
  BY <1>5, <1>6, <1>8

LEMMA CalmPastForks ==
    ASSUME NEW new, PastForks(new), ~canceled, content'[Data] # "none",
           ~unlock => (held # "no" \/ Data \in record' => lock'[Data] = "ours"),
           TokenPart', RowPart'
    PROVE  CalmInv'
<1>1. pc' = "props" /\ answer' = "waiting" /\ UNCHANGED <<unlock, held, todo>>
  BY DEF PastForks, Call, job
<1> QED
  BY <1>1, CalmAfter DEF AfterPut

LEMMA CalmPastData ==
    ASSUME NEW new, PastData(new), ~canceled, content'[Data] # "none",
           ~unlock => (held # "no" \/ Data \in record' => lock'[Data] = "ours"),
           pc' \in {"putRez", "props"} => TokenPart', RowPart'
    PROVE  CalmInv'
<1>1. CASE ~Encoding
  <2>1. pc' = "props"
    BY <1>1 DEF PastData, PastForks, Call
  <2> QED
    BY <1>1, <2>1, CalmPastForks DEF PastData
<1>2. CASE Encoding
  <2>1. pc' = "putRez" /\ answer' = "waiting" /\ UNCHANGED <<unlock, held, todo>>
    BY <1>2 DEF PastData, Call, job
  <2> QED
    BY <2>1, CalmAfter DEF AfterPut
<1> QED
  BY <1>1, <1>2

LEMMA CalmPut ==
    ASSUME Context, [Next]_vars, Thread, PutAnswered PROVE CalmInv'
<1> SUFFICES ASSUME Calm' PROVE CalmInv'
  BY DEF CalmInv
<1>1. UNCHANGED <<record, row, lock, content>> /\ pc = "put" /\ pc # "idle"
  BY ThreadKeeps DEF PutAnswered, Answered, client
<1>2. Settled'
  BY <1>1, PlainNotAfter, CalmBefore, SettledStays
<1>3. RowPart' /\ TokenPart'
  BY <1>1, <1>2, CalmBefore DEF RowPart, Settled, TokenPart
<1>4. CASE Advance
  BY <1>1, <1>2, <1>3, <1>4, CalmAdvance DEF Context
<1>5. CASE Good /\ unlock /\ Call("unlock") /\ UNCHANGED todo
  <2>1. content'[Data] # "none"
    BY <1>1, <1>5, CalmBefore DEF PutPart
  <2> QED
    BY <1>3, <1>5, <2>1, CalmAfter DEF Call, AfterPut
<1>6. CASE Good /\ ~unlock /\ PastData(answer = "created")
  <2>1. content'[Data] # "none" /\ (held # "no" \/ Data \in record' => lock'[Data] = "ours")
    BY <1>1, <1>6, CalmBefore DEF PutPart
  <2> QED
    BY <1>3, <1>6, <2>1, CalmBefore, CalmPastData
<1> QED
  BY <1>4, <1>5, <1>6, CalmBefore DEF PutAnswered, Good

LEMMA CalmUnlock ==
    ASSUME Context, [Next]_vars, Thread, UnlockAnswered PROVE CalmInv'
<1> SUFFICES ASSUME Calm' PROVE CalmInv'
  BY DEF CalmInv
<1>1. UNCHANGED <<record, row, lock, content>> /\ pc = "unlock" /\ PastData(created)
  BY ThreadKeeps DEF UnlockAnswered, Answered, client
<1>2. unlock /\ content'[Data] # "none"
  BY <1>1, CalmBefore DEF Context, AskInv, UnlockCalls, PutPart, AfterPut
<1>3. RowPart'
  BY <1>1, CalmBefore DEF RowPart
<1>4. ASSUME pc' \in {"putRez", "props"} PROVE TokenPart'
  <2>1. UNCHANGED <<todo, unlock>>
    BY <1>1, <1>4 DEF PastData, PastForks, Finish, Call, job
  <2>2. ASSUME NEW r, Busy(r) PROVE Busy(r)'
    BY <1>1, <1>2, <1>4, <2>1, <2>2 DEF Busy, Data, Rez
  <2> QED
    BY <1>1, <2>2, CalmBefore DEF TokenPart
<1> QED
  BY <1>1, <1>2, <1>3, <1>4, CalmBefore, CalmPastData

\* After the fork: its properties, or those of the file.
LEMMA CalmPastRez ==
    ASSUME TypeInv, NEW shown, PastRez(shown), ~canceled, UNCHANGED <<content, lock>>,
           pc \in {"putRez", "unlockRez"},
           content[Data] # "none", content[Rez] # "none",
           ~unlock => (held # "no" \/ Data \in record' => lock[Data] = "ours"),
           TokenPart', RowPart'
    PROVE  CalmInv'
<1>1. CASE Continue("propsRez")
  <2>1. pc' = "propsRez" /\ answer' = "waiting" /\ UNCHANGED <<unlock, held, todo>>
    BY <1>1 DEF Continue, Call, job, loop
  <2> QED
    BY <2>1, CalmAfter DEF AfterPut
<1>2. CASE PastForks(created)
  BY <1>2, CalmPastForks
<1> QED
  BY <1>1, <1>2 DEF PastRez

LEMMA PastRezIs ==
    ASSUME NEW shown, PastRez(shown), ~canceled
    PROVE  /\ pc' \in {"propsRez", "props"} /\ UNCHANGED <<todo, unlock>>
           /\ shown => pc' = "propsRez"
  BY DEF PastRez, PastForks, Continue, Call, job, loop

LEMMA CalmPutRez ==
    ASSUME Context, [Next]_vars, Thread, PutRezAnswered PROVE CalmInv'
<1> SUFFICES ASSUME Calm' PROVE CalmInv'
  BY DEF CalmInv
<1>1. UNCHANGED <<record, row, lock, content>> /\ pc = "putRez" /\ pc # "idle" /\ TypeInv
  BY ThreadKeeps DEF PutRezAnswered, Answered, client, Context
<1>2. RowPart' /\ Encoding
  BY <1>1, CalmBefore DEF RowPart, Context, KnownInv
<1>3. CASE answer = "failed" /\ Advance
  <2>1. trouble \cap Refusals # {}
    BY <1>1, <1>3, CalmBefore DEF AnswerPart
  <2>2. ASSUME NEW r, Busy(r) PROVE Left(r)
    BY <1>1, <1>2, <2>1, <2>2 DEF Busy, Left, Data
  <2>3. Settled'
    BY <1>1, <2>2, CalmBefore DEF TokenPart, Settled
  <2> QED
    BY <1>1, <1>2, <1>3, <2>3, CalmAdvance DEF Context
<1>4. ASSUME Good, pc' \in {"unlockRez", "propsRez", "props"}, UNCHANGED <<todo, unlock>>
      PROVE  TokenPart'
  <2>1. ASSUME NEW r, Busy(r) PROVE Busy(r)'
    BY <1>1, <1>4, <2>1 DEF Busy, Data, Rez
  <2> QED
    BY <1>1, <2>1, CalmBefore DEF TokenPart
<1>5. Good => content[Data] # "none" /\ content[Rez] # "none"
  BY <1>1, CalmBefore DEF PutPart, ForkPart, AfterPut
<1>6. CASE Good /\ Continue("unlockRez")
  <2>1. pc' = "unlockRez" /\ answer' = "waiting" /\ UNCHANGED <<todo, unlock>>
    BY <1>6 DEF Continue, Call, loop, job
  <2> QED
    BY <1>1, <1>2, <1>4, <1>5, <1>6, <2>1, CalmAfter DEF AfterPut
<1>7. ASSUME Good, NEW shown \in BOOLEAN, PastRez(shown) PROVE CalmInv'
  <2>1. TokenPart'
    BY <1>4, <1>7, PastRezIs, CalmBefore
  <2>2. ~unlock => (held # "no" \/ Data \in record' => lock[Data] = "ours")
    BY <1>1, CalmBefore DEF PutPart
  <2> QED
    BY <1>1, <1>2, <1>5, <1>7, <2>1, <2>2, CalmPastRez, CalmBefore
<1> QED
  BY <1>3, <1>6, <1>7, CalmBefore DEF PutRezAnswered, Good

LEMMA CalmUnlockRez ==
    ASSUME Context, [Next]_vars, Thread, UnlockRezAnswered PROVE CalmInv'
<1> SUFFICES ASSUME Calm' PROVE CalmInv'
  BY DEF CalmInv
<1>1. UNCHANGED <<record, row, lock, content>> /\ pc = "unlockRez" /\ TypeInv
  BY ThreadKeeps DEF UnlockRezAnswered, Answered, client, Context
<1>2. RowPart' /\ unlock
  BY <1>1, CalmBefore DEF RowPart, Context, AskInv, UnlockCalls
<1>3. PICK shown \in BOOLEAN :
         PastRez(shown) /\ Noted(When(answer = "ok" /\ ~shown, "leftover"))
  BY DEF UnlockRezAnswered
<1>4. pc' \in {"propsRez", "props"} /\ UNCHANGED <<todo, unlock>> /\ (shown => pc' = "propsRez")
  BY <1>3, PastRezIs, CalmBefore
<1>5. ASSUME NEW r, Busy(r) PROVE Busy(r)' \/ Left(r)'
  <2>1. CASE r = Data
    BY <1>2, <1>4, <2>1 DEF Busy, Data
  <2>2. CASE r = Rez /\ answer = "ok" /\ shown
    BY <1>4, <2>2 DEF Busy, Rez
  <2>3. CASE r = Rez /\ answer = "ok" /\ ~shown
    <3>1. "leftover" \in trouble'
      BY <1>3, <2>3 DEF Noted, When
    <3> QED
      BY <2>3, <3>1 DEF Left, Rez
  <2> QED
    BY <1>1, <1>5, <2>1, <2>2, <2>3 DEF Busy
<1>6. TokenPart'
  BY <1>1, <1>5, CalmBefore DEF TokenPart
<1>7. content[Data] # "none" /\ content[Rez] # "none"
  BY <1>1, CalmBefore DEF PutPart, ForkPart, AfterPut
<1> QED
  BY <1>1, <1>2, <1>3, <1>6, <1>7, CalmPastRez, CalmBefore

LEMMA CalmPropsRez ==
    ASSUME Context, [Next]_vars, Thread, PropsRezAnswered PROVE CalmInv'
<1> SUFFICES ASSUME Calm' PROVE CalmInv'
  BY DEF CalmInv
<1>1. /\ UNCHANGED <<row, lock, content>> /\ pc = "propsRez" /\ PastForks(created)
      /\ AfterDataChange(Rez) /\ answer \in {"ok", "locked"}
  BY ThreadKeeps, CalmBefore DEF PropsRezAnswered, Answered, Rez, AnswerPart
<1>2. record' \subseteq record /\ (answer = "ok" => Rez \notin record')
      /\ \A r \in record : r # Rez => r \in record'
  BY <1>1 DEF AfterDataChange
<1>3. pc' = "props" /\ UNCHANGED <<todo, unlock>>
  BY <1>1, CalmBefore DEF PastForks, Call, job
<1>4. RowPart'
  BY <1>1, <1>2, CalmBefore DEF RowPart, Rez
<1>5. ASSUME NEW r \in record', Busy(r) PROVE Busy(r)' \/ lock'[r] = "ours"
  <2>1. CASE r = Data /\ unlock
    BY <1>3, <2>1 DEF Busy, Data
  <2>2. CASE r = Rez
    BY <1>1, <1>2, <1>5, <2>2, CalmBefore DEF AnswerPart
  <2> QED
    BY <1>1, <1>5, <2>1, <2>2 DEF Busy
<1>6. TokenPart'
  BY <1>1, <1>2, <1>5, CalmBefore DEF TokenPart
<1>7. content[Data] # "none" /\ (~unlock => (held # "no" \/ Data \in record' => lock[Data] = "ours"))
  BY <1>1, <1>2, CalmBefore DEF PutPart, AfterPut
<1> QED
  BY <1>1, <1>4, <1>6, <1>7, CalmPastForks, CalmBefore

LEMMA CalmProps ==
    ASSUME Context, [Next]_vars, Thread, PropsAnswered PROVE CalmInv'
<1> SUFFICES ASSUME Calm' PROVE CalmInv'
  BY DEF CalmInv
<1>1. /\ UNCHANGED <<lock, content>> /\ pc = "props" /\ pc # "idle" /\ Advance
      /\ AfterDataChange(Data) /\ answer \in {"ok", "locked"}
  BY ThreadKeeps, CalmBefore DEF PropsAnswered, Answered, Data, AnswerPart
<1>2. /\ record' \subseteq record /\ (answer = "ok" => Data \notin record')
      /\ \A r \in record : r # Data => r \in record'
      /\ answer # "ok" => record' = record
  BY <1>1 DEF AfterDataChange
<1>3. Settled'
  <2>1. ASSUME NEW r \in record' PROVE lock'[r] = "ours" \/ Left(r)'
    <3>1. CASE r = Data
      BY <1>1, <1>2, <2>1, <3>1, CalmBefore DEF AnswerPart
    <3>2. CASE r # Data
      BY <1>1, <1>2, <2>1, <3>2, CalmBefore DEF TokenPart, Busy
    <3> QED
      BY <3>1, <3>2
  <2> QED
    BY <2>1 DEF Settled
<1>4. Head(todo) \in Files /\ Data \in Resources
  BY <1>1, HeadResources DEF Context, FileCalls
<1>5. \/ row' = row
      \/ row' = [row EXCEPT ![Head(todo)] = IF ~unlock /\ held # "no" THEN "local" ELSE "plain"]
  BY DEF PropsAnswered, ItemAdded
<1>6. ~unlock /\ (held # "no" \/ Data \in record) => lock[Data] = "ours"
  BY <1>1, CalmBefore DEF PutPart
<1>7. row \in [Files -> {"none", "plain", "local"}]
  BY DEF Context, TypeInv, ClientOK
<1>8. \A f \in Files : f # Head(todo) => <<f, "data">> # Data
  BY DEF Data
<1>9. RowPart'
  <2>1. ASSUME NEW f \in Files, row'[f] = "local", f # Head(todo) PROVE <<f, "data">> \in record'
    <3>1. row[f] = "local"
      BY <1>5, <1>7, <2>1
    <3>2. <<f, "data">> \in record
      BY <3>1, CalmBefore DEF RowPart
    <3> QED
      BY <1>2, <1>8, <2>1, <3>2
  <2>2. ASSUME row'[Head(todo)] = "local" PROVE Data \in record'
    <3>1. CASE answer = "locked"
      <4>1. lock[Data] = "ours"
        BY <1>1, <3>1, CalmBefore DEF AnswerPart
      <4>2. Data \in record
        BY <1>4, <4>1 DEF Context, RecordInv
      <4> QED
        BY <1>2, <3>1, <4>2
    <3>2. CASE answer = "ok"
      <4>1. lock[Data] # "ours"
        BY <1>1, <3>2 DEF Context, RecordInv
      <4>2. CASE row' = row
        <5>1. Data \in record
          BY <1>4, <2>2, <4>2, CalmBefore DEF RowPart, Data
        <5>2. unlock
          BY <1>6, <4>1, <5>1
        <5>3. Head(todo) \in Tops
          BY <1>1, <5>2, OneFileIs DEF Context, SingleInv
        <5>4. ItemAdded(Head(todo), ~unlock /\ held # "no")
          BY <3>2, <5>3 DEF PropsAnswered
        <5>5. row'[Head(todo)] # "local"
          BY <1>4, <1>7, <2>2, <4>2, <5>2, <5>4 DEF ItemAdded
        <5> QED
          BY <2>2, <5>5
      <4>3. CASE row' = [row EXCEPT ![Head(todo)] = IF ~unlock /\ held # "no" THEN "local" ELSE "plain"]
        <5>1. ~unlock /\ held # "no"
          BY <1>4, <1>7, <2>2, <4>3
        <5> QED
          BY <1>6, <4>1, <5>1
      <4> QED
        BY <1>5, <4>2, <4>3
    <3> QED
      BY <1>1, <3>1, <3>2
  <2> QED
    BY <2>1, <2>2 DEF RowPart, Data
<1> QED
  BY <1>1, <1>3, <1>9, CalmAdvance DEF Context

LEMMA CalmThread == Context /\ [Next]_vars /\ Thread => CalmInv'
<1>1. ASSUME Context, [Next]_vars, DropAnswered PROVE CalmInv'
  <2>1. pc \in DropCalls
    BY <1>1 DEF DropAnswered, Answered, DropCalls
  <2> QED
    BY <1>1, <2>1, CalmBefore DEF CalmInv
<1> QED
  BY <1>1, CalmChecks, CalmPut, CalmUnlock, CalmPutRez, CalmUnlockRez, CalmPropsRez, CalmProps DEF Thread

\* What the server did: the resource of the call alone.
LEMMA PutDone ==
    ASSUME NEW r, r \in Resources, ServePut(r), ServerOK
    PROVE  /\ UNCHANGED lock
           /\ \/ /\ answer' = "failed" /\ trouble' \cap Refusals # {} /\ UNCHANGED content
              \/ /\ answer' \in {"ok", "created"} /\ content'[r] = "mine"
                 /\ \A x \in Resources : content[x] # "none" => content'[x] # "none"
                 /\ token # "empty" /\ (token = "own" => lock[r] = "ours")
<1>1. PICK topLocked \in {FALSE, MayLockTop} :
         \/ /\ Refused(r, topLocked) # {}
            /\ Respond("failed") /\ Noted(Refused(r, topLocked))
            /\ UNCHANGED server
         \/ /\ Refused(r, topLocked) = {}
            /\ content' = [content EXCEPT ![r] = "mine"]
            /\ answer' \in {"created", "ok"}
            /\ UNCHANGED lock
  BY DEF ServePut, Respond
<1>2. UNCHANGED lock
  BY <1>1 DEF server
<1>3. CASE /\ Refused(r, topLocked) # {} /\ Respond("failed") /\ Noted(Refused(r, topLocked))
           /\ UNCHANGED server
  BY <1>2, <1>3, RefusedOK DEF Respond, Noted, server
<1>4. CASE /\ Refused(r, topLocked) = {} /\ content' = [content EXCEPT ![r] = "mine"]
           /\ answer' \in {"created", "ok"}
  <2>1. token # "empty" /\ (token = "own" => lock[r] = "ours")
    <3>1. token = "empty" => "emptied" \in Refused(r, topLocked)
      BY DEF Refused, When
    <3>2. token = "own" /\ lock[r] # "ours" => "stale" \in Refused(r, topLocked)
      BY DEF Refused, When
    <3> QED
      BY <1>4, <3>1, <3>2
  <2>2. content'[r] = "mine" /\ \A x \in Resources : content[x] # "none" => content'[x] # "none"
    BY <1>4 DEF ServerOK
  <2> QED
    BY <1>2, <1>4, <2>1, <2>2
<1> QED
  BY <1>1, <1>3, <1>4

LEMMA UnlockDone ==
    ASSUME NEW r, r \in Resources, ServeUnlock(r), ServerOK
    PROVE  /\ UNCHANGED <<content, trouble>>
           /\ \A x \in Resources : lock[x] = "ours" => lock'[x] = "ours" \/ (x = r /\ answer' = "ok")
  BY DEF ServeUnlock, Respond, ServerOK

LEMMA PropsDone ==
    ASSUME NEW r, ServeProps(r)
    PROVE  /\ UNCHANGED <<content, lock, trouble>>
           /\ content[r] # "none" => answer' \in {"ok", "locked"}
           /\ answer' = "locked" => lock[r] = "ours"
  BY DEF ServeProps, Respond, server

\* The parts of the invariant that no answer of the server can disturb.
LEMMA CalmServed ==
    ASSUME Context, [Next]_vars, Calm', Serve
    PROVE  /\ UNCHANGED <<record, row, pc, todo, held, token, unlock, Data, Rez>>
           /\ GivenPart' /\ RowPart' /\ answer = "waiting"
<1>1. UNCHANGED <<record, row, pc, todo, held, token, unlock, Data, Rez>>
  BY ElsewhereIs DEF Elsewhere, Data, Rez
<1>2. GivenPart' /\ RowPart'
  BY <1>1, CalmBefore DEF GivenPart, RowPart
<1> QED
  BY <1>1, <1>2, ServeIs DEF Context

LEMMA CalmServePut ==
    ASSUME Context, [Next]_vars, Calm', Serve, pc = "put" PROVE CalmInv'
<1>1. ServePut(Data) /\ ServerOK /\ Data \in Resources
  BY ServeIs, HeadResources DEF Context, TypeInv
<1>2. UNCHANGED lock
  BY <1>1, PutDone
<1>3. TokenPart'
  <2>1. \A r : ~Busy(r)
    BY DEF Busy
  <2> QED
    BY <1>2, <2>1, CalmServed, CalmBefore DEF TokenPart
<1>4. PutPart'
  <2>1. CASE answer' = "failed"
    BY <2>1, CalmServed DEF PutPart, Good, AfterPut
  <2>2. CASE /\ content'[Data] = "mine"
             /\ token # "empty" /\ (token = "own" => lock[Data] = "ours")
    <3>1. held # "no" \/ Data \in record => token # "none"
      BY DEF Context, KnownInv
    <3>2. held # "no" \/ Data \in record => lock[Data] = "ours"
      BY <2>2, <3>1 DEF Context, TypeInv, FlagsOK
    <3>3. pc' = "put"
      BY CalmServed
    <3>4. content'[Data'] # "none"
      BY <2>2, CalmServed
    <3>5. held' # "no" \/ Data' \in record' => lock'[Data'] = "ours"
      BY <1>2, <3>2, CalmServed
    <3> QED
      BY <3>3, <3>4, <3>5 DEF PutPart
  <2> QED
    BY <1>1, <2>1, <2>2, PutDone
<1>5. ForkPart' /\ AnswerPart'
  BY CalmServed DEF ForkPart, AnswerPart
<1> QED
  BY <1>3, <1>4, <1>5, CalmServed DEF CalmInv

LEMMA CalmServePutRez ==
    ASSUME Context, [Next]_vars, Calm', Serve, pc = "putRez" PROVE CalmInv'
<1>1. ServePut(Rez) /\ ServerOK /\ Rez \in Resources /\ Data \in Resources
  BY ServeIs, HeadResources DEF Context, TypeInv, FileCalls
<1>2. /\ UNCHANGED lock
      /\ \/ answer' = "failed" /\ trouble' \cap Refusals # {} /\ UNCHANGED content
         \/ /\ answer' \in {"ok", "created"} /\ content'[Rez] # "none"
            /\ \A x \in Resources : content[x] # "none" => content'[x] # "none"
  BY <1>1, PutDone
<1>3. TokenPart'
  <2>1. \A r : Busy(r) => Busy(r)'
    BY CalmServed DEF Busy
  <2> QED
    BY <1>2, <2>1, CalmServed, CalmBefore DEF TokenPart
<1>4. PutPart'
  <2>1. content'[Data] # "none"
    BY <1>1, <1>2, CalmBefore DEF PutPart, AfterPut
  <2>2. ~unlock => (held # "no" \/ Data \in record => lock[Data] = "ours")
    BY CalmBefore DEF PutPart
  <2>3. pc' = "putRez" /\ content'[Data'] # "none"
    BY <2>1, CalmServed
  <2>4. ~unlock' => (held' # "no" \/ Data' \in record' => lock'[Data'] = "ours")
    BY <1>2, <2>2, CalmServed
  <2> QED
    BY <2>3, <2>4 DEF PutPart
<1>5. ForkPart' /\ AnswerPart'
  BY <1>2, CalmServed DEF ForkPart, AnswerPart, Good
<1> QED
  BY <1>3, <1>4, <1>5, CalmServed DEF CalmInv

LEMMA CalmServeUnlock ==
    ASSUME Context, [Next]_vars, Calm', Serve, pc \in UnlockCalls PROVE CalmInv'
<1>1. ServerOK /\ Rez \in Resources /\ Data \in Resources
  BY HeadResources DEF Context, TypeInv, FileCalls, UnlockCalls
<1>2. \/ pc = "unlock" /\ ServeUnlock(Data)
      \/ pc = "unlockRez" /\ ServeUnlock(Rez)
  BY ServeIs DEF Context, UnlockCalls
<1>3. UNCHANGED <<content, trouble>>
  BY <1>1, <1>2, UnlockDone
<1>4. TokenPart'
  <2>1. ASSUME NEW r \in record PROVE lock'[r] = "ours" \/ Left(r)' \/ Busy(r)'
    <3>1. r \in Resources
      BY <2>1 DEF Context, TypeInv, ClientOK
    <3>2. CASE lock[r] = "ours"
      <4>1. \/ lock'[r] = "ours"
            \/ pc = "unlock" /\ r = Data /\ answer' = "ok"
            \/ pc = "unlockRez" /\ r = Rez /\ answer' = "ok"
        BY <1>1, <1>2, <3>1, <3>2, UnlockDone
      <4> QED
        BY <4>1, CalmServed DEF Busy
    <3>3. CASE Busy(r)
      BY <3>3, CalmServed DEF Busy
    <3> QED
      BY <2>1, <3>2, <3>3, CalmBefore DEF TokenPart
  <2> QED
    BY <2>1, CalmServed DEF TokenPart
<1>5. PutPart' /\ ForkPart'
  BY <1>3, CalmServed, CalmBefore DEF PutPart, ForkPart, AfterPut, UnlockCalls
<1>6. AnswerPart'
  BY CalmServed DEF AnswerPart, UnlockCalls
<1> QED
  BY <1>4, <1>5, <1>6, CalmServed DEF CalmInv

LEMMA CalmServeProps ==
    ASSUME Context, [Next]_vars, Calm', Serve, pc \in {"props", "propsRez"} PROVE CalmInv'
<1>1. \/ pc = "props" /\ ServeProps(Data) /\ content[Data] # "none"
      \/ pc = "propsRez" /\ ServeProps(Rez) /\ content[Rez] # "none"
  BY ServeIs, CalmBefore DEF Context, PutPart, ForkPart, AfterPut
<1>2. UNCHANGED <<content, lock, trouble>> /\ answer' \in {"ok", "locked"}
  BY <1>1, PropsDone
<1>3. TokenPart'
  <2>1. \A r : Busy(r) => Busy(r)'
    BY CalmServed DEF Busy
  <2> QED
    BY <1>2, <2>1, CalmServed, CalmBefore DEF TokenPart
<1>4. PutPart' /\ ForkPart'
  BY <1>2, CalmServed, CalmBefore DEF PutPart, ForkPart, AfterPut
<1>5. AnswerPart'
  BY <1>1, <1>2, CalmServed, PropsDone DEF AnswerPart
<1> QED
  BY <1>3, <1>4, <1>5, CalmServed DEF CalmInv

LEMMA CalmServeFolder ==
    ASSUME Context, [Next]_vars, Calm', Serve, pc \in {"check", "exists", "create", "propsFolder"}
    PROVE  CalmInv'
<1>1. UNCHANGED lock
  BY ServeIs DEF Context
<1>2. pc \notin AfterPut /\ pc \notin {"put", "putRez"}
  BY DEF AfterPut
<1>3. Settled'
  BY <1>1, <1>2, CalmServed, CalmBefore, SettledStays
<1>4. TokenPart'
  BY <1>3 DEF Settled, TokenPart
<1>5. PutPart' /\ ForkPart' /\ AnswerPart'
  BY <1>2, CalmServed DEF PutPart, ForkPart, AnswerPart, AfterPut
<1> QED
  BY <1>4, <1>5, CalmServed DEF CalmInv

LEMMA CalmServe == Context /\ [Next]_vars /\ Serve => CalmInv'
<1> SUFFICES ASSUME Context, [Next]_vars, Serve, Calm' PROVE CalmInv'
  BY DEF CalmInv
<1>1. pc \in {"check", "exists", "create", "propsFolder", "put", "putRez", "props", "propsRez"}
               \cup UnlockCalls
  BY CalmBefore, ServeIs DEF Context, TypeInv, JobOK, FolderCalls, FileCalls, DropCalls, UnlockCalls
<1> QED
  BY <1>1, CalmServePut, CalmServePutRez, CalmServeUnlock, CalmServeProps, CalmServeFolder

\* Others that do not interfere change nothing the thread relies on.
LEMMA CalmOthers == Context /\ [Next]_vars /\ Others => CalmInv'
<1> SUFFICES ASSUME Context, [Next]_vars, Others, Calm' PROVE CalmInv'
  BY DEF CalmInv
<1>1. UNCHANGED <<record, row, pc, answer, todo, held, token, unlock, Data, Rez>>
  BY ElsewhereIs DEF Elsewhere, Data, Rez, Others, OtherDeletes, OtherWrites, OtherLocks, LockEnds
<1>2. LockKept
  BY OthersKeepLocks DEF Context, Calm
<1>3. \A r : lock[r] = "ours" /\ r \in record => lock'[r] = "ours"
  BY <1>2 DEF LockKept, Context, TypeInv, ClientOK
<1>4. TokenPart'
  <2>1. \A r : Busy(r) => Busy(r)'
    BY <1>1 DEF Busy
  <2> QED
    BY <1>1, <1>3, <2>1, CalmBefore DEF TokenPart
<1>5. GivenPart' /\ RowPart'
  BY <1>1, CalmBefore DEF GivenPart, RowPart
<1>6. CASE pc = "idle"
  <2>1. PutPart' /\ ForkPart' /\ AnswerPart'
    BY <1>1, <1>6 DEF PutPart, ForkPart, AnswerPart, AfterPut
  <2> QED
    BY <1>4, <1>5, <2>1 DEF CalmInv
<1>7. CASE pc # "idle"
  <2>1. content' = content
    <3>1. "raced" \notin trouble'
      BY DEF Calm
    <3>2. ASSUME NEW i, OtherDeletes(i) PROVE "raced" \in trouble'
      BY <1>7, <3>2 DEF OtherDeletes, Noted, When, Idle
    <3>3. ASSUME NEW r, OtherWrites(r) PROVE "raced" \in trouble'
      BY <1>7, <3>3 DEF OtherWrites, Noted, When, Idle
    <3> QED
      BY <3>1, <3>2, <3>3 DEF Others, OtherLocks, LockEnds
  <2>2. pc \in FileCalls => Data \in Resources /\ Rez \in Resources
    BY <1>7, HeadResources DEF Context
  <2>3. PutPart'
    <3>1. pc \in {"put", "putRez", "propsRez", "props"} => Data \in Resources
      BY <2>2 DEF FileCalls
    <3>2. pc \in {"put", "putRez", "propsRez", "props"} /\ lock[Data] = "ours" => lock'[Data] = "ours"
      BY <1>2, <3>1 DEF LockKept
    <3> QED
      BY <1>1, <2>1, <3>2, CalmBefore DEF PutPart, Good
  <2>4. ForkPart'
    BY <1>1, <2>1, CalmBefore DEF ForkPart, Good
  <2>5. AnswerPart'
    <3>1. trouble \subseteq trouble'
      BY TroubleGrows
    <3>2. pc \in {"props", "propsRez"} => Data \in Resources /\ Rez \in Resources
      BY <2>2 DEF FileCalls
    <3> QED
      BY <1>1, <1>2, <3>1, <3>2, CalmBefore DEF AnswerPart, LockKept
  <2> QED
    BY <1>4, <1>5, <2>3, <2>4, <2>5 DEF CalmInv
<1> QED
  BY <1>6, <1>7

LEMMA CalmStep == Context /\ [Next]_vars => CalmInv'
<1> SUFFICES ASSUME Context, [Next]_vars PROVE CalmInv'
  OBVIOUS
<1>1. CASE CancelOperation
  BY <1>1 DEF CancelOperation, Noted, CalmInv, Calm
<1>2. CASE CallFails
  <2>1. CASE Noted({"lost"})
    BY <2>1 DEF Noted, CalmInv, Calm
  <2>2. CASE muted
    BY <2>2, CalmBefore DEF CalmInv
  <2> QED
    BY <1>2, <2>1, <2>2 DEF CallFails
<1>3. CASE UNCHANGED vars
  BY <1>3 DEF Context, CalmInv, Calm, GivenPart, PutPart, ForkPart, AnswerPart, TokenPart, RowPart,
     Left, Busy, Good, Data, Rez, vars, server, client, job, loop
<1> QED
  BY <1>1, <1>2, <1>3, CalmCommand, CalmThread, CalmServe, CalmOthers, NextIs

LEMMA ContextInit == Init => Context
  BY TypeInit, SingleInit, CancelInit, AskInit, RecordInit, KnownInit, CalmInit DEF Context

LEMMA ContextStep == Context /\ [Next]_vars => Context'
  BY TypeStep, SingleStep, CancelStep, AskStep, RecordStep, KnownStep, CalmStep DEF Context

\* There is a token for every lock; between uploads that nobody interfered with there is a
\* lock for every token but those the code forgets, and rows show what is locked.
THEOREM TokensMatchLocks == Spec => []LocksAreOnRecord
<1>1. Context => LocksAreOnRecord
  <2> SUFFICES ASSUME Context PROVE LocksAreOnRecord
    OBVIOUS
  <2>1. \A r \in Resources : lock[r] = "ours" => r \in record
    BY DEF Context, RecordInv
  <2>2. ASSUME Idle, Calm PROVE TokenPart /\ RowPart /\ \A r : ~Busy(r)
    BY <2>2 DEF Idle, Context, CalmInv, Busy
  <2> QED
    BY <2>1, <2>2 DEF LocksAreOnRecord, Calm, TokenPart, RowPart, Left
<1> QED
  BY <1>1, ContextInit, ContextStep, PTL DEF Spec
-----------------------------------------------------------------------------
\* Refusals.  Only a PUT is refused, and the invariant says what its token is.
LEMMA OnlyPutsAreRefused ==
    ASSUME TypeInv, [Next]_vars, ~(Serve /\ pc \in {"put", "putRez"})
    PROVE  trouble' \cap Refusals \subseteq trouble
<1>1. CASE Command
  BY <1>1, CommandStarts DEF Started, Refusals
<1>2. CASE CancelOperation
  BY <1>2 DEF CancelOperation, Noted, Refusals
<1>3. CASE Thread
  BY <1>3, ThreadGoesOn DEF Refusals
<1>4. CASE Serve
  <2>1. ASSUME NEW r, ServeDelete(r) \/ ServeProps(r) \/ ServeUnlock(r)
        PROVE  trouble' \subseteq trouble \cup {"dropped"}
    BY <2>1 DEF ServeDelete, ServeProps, ServeUnlock, Noted
  <2>2. trouble' \subseteq trouble \cup {"dropped", "misplaced"}
    BY <1>4, <2>1, ServeIs DEF TypeInv, JobOK, FolderCalls, FileCalls, DropCalls
  <2> QED
    BY <2>2 DEF Refusals
<1>5. CASE CallFails
  BY <1>5 DEF CallFails, Noted, Refusals
<1>6. CASE Others
  <2>1. trouble' \subseteq trouble \cup {"raced", "ended"}
    BY <1>6 DEF Others, OtherDeletes, OtherWrites, OtherLocks, LockEnds, Noted, When
  <2> QED
    BY <2>1 DEF Refusals
<1>7. CASE UNCHANGED vars
  BY <1>7 DEF vars
<1> QED
  BY <1>1, <1>2, <1>3, <1>4, <1>5, <1>6, <1>7, NextIs

\* What is refused by the locks, and why.
LEMMA RefusedIs ==
    ASSUME NEW r, NEW topLocked
    PROVE  LET refused == Refused(r, topLocked) IN
           /\ "unknown" \in refused => token = "none" /\ lock[r] = "ours"
           /\ "stale" \in refused => token = "own" /\ lock[r] # "ours"
           /\ "parent" \in refused => topLocked /\ r[2] = "rez"
           /\ "emptied" \in refused => token = "empty"
  BY DEF Refused, When

\* The troubles an upload can be in without a reason for a stale token.
Harmless == {"stale", "declined", "orphan", "garbage", "misnamed", "misplaced"}

LEMMA OwnTokensFit ==
    ASSUME Context, OwnLocksDoNotHinder, [Next]_vars, pc \in {"put", "putRez"}, token = "own",
           NEW r, r = IF pc = "put" THEN Data ELSE Rez,
           trouble' \subseteq Harmless
    PROVE  lock[r] = "ours"
<1>1. Calm' /\ trouble \subseteq Harmless
  BY TroubleGrows DEF Harmless, Calm
<1>2. TokenPart /\ GivenPart
  BY <1>1, CalmBefore
<1>3. r \in record
  BY <1>2 DEF GivenPart, Context, KnownInv
<1>4. ~Busy(r)
  BY DEF Busy, Data, Rez
<1>5. ~Left(r)
  <2>1. "leftover" \notin trouble
    BY <1>1 DEF Harmless
  <2>2. "stale" \notin trouble
    BY <1>1 DEF OwnLocksDoNotHinder, Harmless
  <2>3. trouble \cap Refusals = {}
    BY <1>1, <2>2 DEF Harmless, Refusals
  <2> QED
    BY <2>1, <2>3 DEF Left
<1> QED
  BY <1>2, <1>3, <1>4, <1>5 DEF TokenPart

LEMMA HinderPut ==
    ASSUME Context, OwnLocksDoNotHinder, [Next]_vars, Serve, pc \in {"put", "putRez"}
    PROVE  OwnLocksDoNotHinder'
<1> DEFINE r == IF pc = "put" THEN Data ELSE Rez
<1>1. ServePut(r) /\ r \in Resources
  BY ServeIs, HeadResources DEF Context, FileCalls
<1>2. PICK topLocked \in {FALSE, MayLockTop} :
         trouble' \subseteq trouble \cup Refused(r, topLocked) \cup {"unasked", "misnamed"}
  <2> DEFINE replaced == When(content[r] = "theirs" /\ ~overwrite,
                              IF Checked(r[1]) THEN "unasked" ELSE "misnamed")
  <2>1. PICK topLocked \in {FALSE, MayLockTop} :
           trouble' = trouble \cup Refused(r, topLocked) \/ trouble' = trouble \cup replaced
    BY <1>1 DEF ServePut, Noted
  <2>2. replaced \subseteq {"unasked", "misnamed"}
    BY PutNotes
  <2> HIDE DEF replaced, r
  <2> QED
    BY <2>1, <2>2
<1> DEFINE refused == Refused(r, topLocked)
<1>3. trouble \subseteq trouble'
  BY TroubleGrows
<1>4. "unknown" \notin refused
  <2>1. lock[r] = "ours" => r \in record
    BY <1>1 DEF Context, RecordInv
  <2>2. r \in record => token # "none"
    BY DEF Context, KnownInv
  <2> QED
    BY <2>1, <2>2, RefusedIs
<1>5. "parent" \in refused => MayLockTop /\ Encoding
  <2>1. ASSUME "parent" \in refused PROVE topLocked /\ r[2] = "rez"
    BY <2>1, RefusedIs
  <2>2. r[2] = "rez" => Encoding
    BY DEF Data, Context, KnownInv
  <2>3. topLocked => MayLockTop
    BY <1>2, Zenon
  <2> QED
    BY <2>1, <2>2, <2>3
<1>6. "emptied" \in refused => ~Flat
  <2>1. ASSUME "emptied" \in refused PROVE token = "empty"
    BY <2>1, RefusedIs
  <2>2. Flat => token # "empty"
    BY DEF Context, KnownInv
  <2> QED
    BY <2>1, <2>2
<1>7. "stale" \in trouble' => trouble' \ Harmless # {}
  <2>1. CASE "stale" \in trouble
    BY <1>3, <2>1 DEF OwnLocksDoNotHinder, Harmless
  <2>2. ASSUME "stale" \in refused, trouble' \subseteq Harmless PROVE FALSE
    <3>1. token = "own" /\ lock[r] # "ours"
      BY <2>2, RefusedIs
    <3>2. lock[r] = "ours"
      BY <2>2, <3>1, OwnTokensFit
    <3> QED
      BY <3>1, <3>2
  <2> QED
    BY <1>2, <2>1, <2>2
<1> HIDE DEF r, refused
<1>8. "unknown" \notin trouble'
  BY <1>2, <1>4 DEF OwnLocksDoNotHinder, refused
<1>9. "parent" \in trouble' => MayLockTop /\ Encoding
  BY <1>2, <1>5 DEF OwnLocksDoNotHinder, refused
<1>10. "emptied" \in trouble' => ~Flat
  BY <1>2, <1>6 DEF OwnLocksDoNotHinder, refused, Flat
<1> QED
  BY <1>7, <1>8, <1>9, <1>10 DEF OwnLocksDoNotHinder, Harmless, Flat

LEMMA HinderStep == Context /\ OwnLocksDoNotHinder /\ [Next]_vars => OwnLocksDoNotHinder'
<1> SUFFICES ASSUME Context, OwnLocksDoNotHinder, [Next]_vars,
                    ~(Serve /\ pc \in {"put", "putRez"})
             PROVE  OwnLocksDoNotHinder'
  BY HinderPut
<1>1. trouble \subseteq trouble' /\ trouble' \cap Refusals \subseteq trouble
  BY TroubleGrows, OnlyPutsAreRefused DEF Context
<1>2. \A t \in {"unknown", "stale", "parent", "emptied"} : t \in trouble' => t \in trouble
  BY <1>1 DEF Refusals
<1> QED
  BY <1>1, <1>2 DEF OwnLocksDoNotHinder

\* A lock of this client only refuses one of its own uploads for the code's known slips.
THEOREM OwnLocksAreNamed == Spec => []OwnLocksDoNotHinder
<1>1. Init => OwnLocksDoNotHinder
  <2>1. Init => trouble \subseteq {"orphan"}
    BY Zenon DEF Init, When
  <2> QED
    BY <2>1 DEF OwnLocksDoNotHinder
<1> QED
  BY <1>1, ContextInit, ContextStep, HinderStep, PTL DEF Spec
-----------------------------------------------------------------------------
\* What is on the server.  No item is there without its folder.
TreeInv == \A i \in Items : There(i) => ParentThere(i)

LEMMA TreeInit == Init => TreeInv
  BY DEF Init, TreeInv

\* What the thread puts on the server is this client's, and has a folder to be in.
LEMMA ServeWrites ==
    ASSUME TypeInv, CancelInv, Serve
    PROVE  /\ \A r \in Resources : content'[r] = content[r]
                 \/ (content'[r] = "mine" /\ r[1] = Head(todo) /\ pc \in {"create", "put", "putRez"})
           /\ content'[Data] = content[Data] \/ There(Head(todo)) \/ ParentThere(Head(todo))
<1>1. content \in [Resources -> {"none", "theirs", "mine"}]
  BY DEF TypeInv, ServerOK
<1>2. pc \notin DropCalls
  BY ServeIs DEF CancelInv
<1>3. CASE pc = "put" \/ pc = "putRez"
  <2>1. PICK r \in {Data, Rez} : ServePut(r) /\ r[1] = Head(todo)
    BY <1>3, ServeIs DEF Data, Rez
  <2>2. CASE UNCHANGED content
    BY <2>2
  <2>3. CASE ~UNCHANGED content
    <3>1. PICK t \in {FALSE, MayLockTop} :
             Refused(r, t) = {} /\ content' = [content EXCEPT ![r] = "mine"]
      BY <2>1, <2>3 DEF ServePut, server
    <3>2. content[r] = "none" => ParentThere(r[1])
      BY <3>1 DEF Refused, When
    <3>3. r = Data => (content[Data] # "none" => There(Head(todo)))
      BY DEF Data, There
    <3>4. r # Data => content'[Data] = content[Data]
      <4>1. Data \in Resources
        BY <1>3, HeadResources
      <4> QED
        BY <1>1, <3>1, <4>1
    <3>5. \A x \in Resources : content'[x] = content[x] \/ (content'[x] = "mine" /\ x = r)
      BY <1>1, <3>1
    <3> QED
      BY <1>3, <2>1, <3>2, <3>3, <3>4, <3>5
  <2> QED
    BY <2>2, <2>3
<1>4. CASE pc = "create"
  <2>1. ServeCreate(Head(todo))
    BY <1>4 DEF Serve
  <2>2. CASE UNCHANGED content
    BY <2>2
  <2>3. CASE ParentThere(Head(todo)) /\ content' = [content EXCEPT ![Data] = "mine"]
    <3>1. \A x \in Resources : content'[x] = content[x] \/ (content'[x] = "mine" /\ x = Data)
      BY <1>1, <2>3
    <3>2. Data[1] = Head(todo)
      BY DEF Data
    <3> QED
      BY <1>4, <2>3, <3>1, <3>2
  <2> QED
    BY <2>1, <2>2, <2>3 DEF ServeCreate, Data
<1>5. CASE pc \notin DropCalls \cup {"put", "putRez", "create"}
  <2>1. \A r : ServeUnlock(r) \/ ServeProps(r) \/ ServeExists(r) \/ ServeCheck(r) => UNCHANGED content
    BY DEF ServeUnlock, ServeProps, ServeExists, ServeCheck, server
  <2>2. UNCHANGED content
    BY <1>5, <2>1 DEF Serve, DropCalls
  <2> QED
    BY <2>2
<1> QED
  BY <1>2, <1>3, <1>4, <1>5

\* Nobody but the server, and other clients on it, changes what is there.
LEMMA ThreadWritesNothing ==
    Command \/ CancelOperation \/ Thread \/ CallFails \/ UNCHANGED vars => UNCHANGED content
<1>1. Command => UNCHANGED content
  BY CommandStarts DEF Started, server
<1>2. Thread => UNCHANGED content
  BY ThreadGoesOn DEF server
<1> QED
  BY <1>1, <1>2 DEF CancelOperation, CallFails, vars, server

\* While the thread is at work other clients leave the resources alone, or race with it.
LEMMA OthersRace ==
    ASSUME Others, pc # "idle", "raced" \notin trouble'
    PROVE  UNCHANGED content
<1>1. When(~Idle, "raced") = {"raced"}
  BY DEF When, Idle
<1>2. \A i : ~OtherDeletes(i)
  BY <1>1 DEF OtherDeletes, Noted
<1>3. \A r : ~OtherWrites(r)
  BY <1>1 DEF OtherWrites, Noted
<1> QED
  BY <1>2, <1>3 DEF Others, OtherLocks, LockEnds

\* So nothing goes away during an upload.
LEMMA Grows ==
    ASSUME TypeInv, CancelInv, [Next]_vars, pc # "idle", "raced" \notin trouble'
    PROVE  \A r \in Resources : content'[r] = content[r] \/ content'[r] = "mine"
  BY ServeWrites, ThreadWritesNothing, OthersRace, StepIs DEF Elsewhere

LEMMA TreeStep == TypeInv /\ CancelInv /\ TreeInv /\ [Next]_vars => TreeInv'
<1> SUFFICES ASSUME TypeInv, CancelInv, TreeInv, [Next]_vars PROVE TreeInv'
  OBVIOUS
<1>1. CASE UNCHANGED content
  BY <1>1 DEF TreeInv, There, ParentThere, Home
<1>2. CASE Serve
  <2>1. SUFFICES ASSUME NEW i \in Items, There(i)' PROVE ParentThere(i)'
    BY DEF TreeInv
  <2>2. /\ \A r \in Resources : content'[r] = content[r]
                 \/ (content'[r] = "mine" /\ r[1] = Head(todo) /\ pc \in {"create", "put", "putRez"})
        /\ content'[Data] = content[Data] \/ There(Head(todo)) \/ ParentThere(Head(todo))
    BY <1>2, ServeWrites
  <2>3. \A d \in Items : There(d) => There(d)'
    BY <2>2, ResourceTypes DEF There
  <2>4. There(i) \/ ParentThere(i)
    <3>1. CASE content'[<<i, "data">>] = content[<<i, "data">>]
      BY <2>1, <3>1 DEF There
    <3>2. CASE content'[<<i, "data">>] # content[<<i, "data">>]
      <4>1. i = Head(todo)
        BY <2>2, <3>2, ResourceTypes
      <4> QED
        BY <2>2, <3>2, <4>1 DEF Data
    <3> QED
      BY <3>1, <3>2
  <2>5. ParentThere(i)
    BY <2>4 DEF TreeInv
  <2> QED
    BY <2>3, <2>5 DEF ParentThere, Home, Above, Items
<1>3. ASSUME NEW r \in Resources, OtherWrites(r) PROVE TreeInv'
  <2>1. SUFFICES ASSUME NEW i \in Items, There(i)' PROVE ParentThere(i)'
    BY DEF TreeInv
  <2>2. content \in [Resources -> {"none", "theirs", "mine"}]
    BY DEF TypeInv, ServerOK
  <2>3. content' = [content EXCEPT ![r] = "theirs"] /\ ParentThere(r[1])
    BY <1>3 DEF OtherWrites
  <2>4. \A d \in Items : There(d) => There(d)'
    BY <2>2, <2>3, ResourceTypes DEF There
  <2>5. There(i) \/ i = r[1]
    BY <2>1, <2>2, <2>3, ResourceTypes DEF There
  <2>6. ParentThere(i)
    BY <2>3, <2>5 DEF TreeInv
  <2> QED
    BY <2>4, <2>6 DEF ParentThere, Home, Above, Items
<1>4. ASSUME NEW j \in Items, OtherDeletes(j) PROVE TreeInv'
  <2>1. SUFFICES ASSUME NEW i \in Items, There(i)', Home(i) # {}
                 PROVE \E d \in Home(i) : There(d)'
    BY DEF TreeInv, ParentThere
  <2> DEFINE gone == {r \in Resources : r[1] = j \/ j \in Home(r[1])}
  <2>2. /\ content' = [r \in Resources |-> IF r \in gone THEN "none" ELSE content[r]]
        /\ \A d \in Folders : j \in Home(d) => ~There(d)
    BY <1>4 DEF OtherDeletes
  <2>3. <<i, "data">> \notin gone /\ There(i)
    BY <2>1, <2>2, ResourceTypes DEF There
  <2>4. PICK d \in Home(i) : There(d)
    BY <2>1, <2>3 DEF TreeInv, ParentThere
  <2>5. d \in Folders /\ i \in Inside(d)
    BY <2>4 DEF Home, Above
  <2>6. d # j
    BY <2>3, <2>4, ResourceTypes
  <2>7. j \notin Home(d)
    BY <2>2, <2>4, <2>5
  <2>8. <<d, "data">> \in Resources /\ <<d, "data">> \notin gone
    BY <2>5, <2>6, <2>7, ResourceTypes DEF Items
  <2>9. There(d)'
    <3> HIDE DEF gone
    <3> QED
      BY <2>2, <2>4, <2>8 DEF There
  <2> QED
    BY <2>4, <2>9
<1>5. CASE Others
  BY <1>1, <1>3, <1>4, <1>5 DEF Others, OtherLocks, LockEnds
<1> QED
  BY <1>1, <1>2, <1>5, ThreadWritesNothing, StepIs DEF Elsewhere
-----------------------------------------------------------------------------
\* Forks and their files.  A file is there before its fork is, unless another client took
\* it away in between.
OrphanInv ==
    trouble \cap {"raced", "orphan"} = {} =>
        /\ \A f \in Files : content[<<f, "rez">>] # "none" => There(f)
        /\ (pc = "put" /\ Good) \/ pc \in {"unlock", "putRez"} => There(Head(todo))

LEMMA OrphanInit == Init => OrphanInv
<1> SUFFICES ASSUME Init, "orphan" \notin trouble PROVE OrphanInv
  BY DEF OrphanInv
<1>1. ~\E f \in Files : content[<<f, "data">>] = "none" /\ content[<<f, "rez">>] # "none"
  BY DEF Init, When
<1>2. pc = "idle"
  BY DEF Init
<1> QED
  BY <1>1, <1>2 DEF OrphanInv, There

\* Where the writing of a file goes on.
LEMMA Writing ==
    ASSUME Thread, pc' \in {"unlock", "putRez"}
    PROVE  (pc = "unlock" \/ (pc = "put" /\ Good)) /\ todo' = todo
<1>1. /\ Finish => pc' = "idle"
      /\ \A rest : Begin(rest) => pc' \in {"exists", "put"}
      /\ \A name : Continue(name) => pc' = name
      /\ \A new : PastForks(new) => pc' \in {"idle", "props"}
      /\ \A name : Call(name) => pc' = name
  BY DEF Finish, Begin, Continue, PastForks, Call
<1>2. (Advance => pc' \in {"idle", "exists", "put"}) /\ (Descend => pc' \in {"idle", "exists", "put"})
  BY <1>1 DEF Advance, Descend
<1>3. \A shown : PastRez(shown) => pc' \in {"propsRez", "idle", "props"}
  BY <1>1 DEF PastRez
<1>4. ~(CheckAnswered \/ Alert \/ ExistsAnswered \/ CreateAnswered \/ PropsFolderAnswered)
  BY <1>1, <1>2 DEF CheckAnswered, Alert, ExistsAnswered, CreateAnswered, PropsFolderAnswered
<1>5. ~(UnlockRezAnswered \/ PropsRezAnswered \/ PropsAnswered \/ DropAnswered)
  BY <1>1, <1>2, <1>3 DEF UnlockRezAnswered, PropsRezAnswered, PropsAnswered, DropAnswered
<1>6. ~PutRezAnswered
  BY <1>1, <1>2, <1>3 DEF PutRezAnswered
<1>7. \A new : PastData(new) => todo' = todo
  BY <1>1 DEF PastData, PastForks
<1>8. CASE PutAnswered
  <2>1. pc = "put" /\ ~Continue("drop") /\ ~Advance
    BY <1>1, <1>2, <1>8 DEF PutAnswered, Answered
  <2> QED
    BY <1>7, <1>8, <2>1 DEF PutAnswered, Good
<1>9. CASE UnlockAnswered
  BY <1>7, <1>9 DEF UnlockAnswered, Answered
<1> QED
  BY <1>4, <1>5, <1>6, <1>8, <1>9 DEF Thread

LEMMA OrphanStep ==
    ASSUME TypeInv, CancelInv, OrphanInv, [Next]_vars
    PROVE  OrphanInv'
<1> SUFFICES ASSUME trouble' \cap {"raced", "orphan"} = {} PROVE OrphanInv'
  BY DEF OrphanInv
<1>1. trouble \cap {"raced", "orphan"} = {}
  BY TroubleGrows
<1>2. /\ \A f \in Files : content[<<f, "rez">>] # "none" => There(f)
      /\ (pc = "put" /\ Good) \/ pc \in {"unlock", "putRez"} => There(Head(todo))
  BY <1>1 DEF OrphanInv
<1>3. CASE Command
  <2>1. pc' = "check" /\ content' = content
    BY <1>3, CommandStarts DEF Started, server
  <2> QED
    BY <1>2, <2>1 DEF OrphanInv, There
<1>4. CASE CancelOperation
  <2>1. content' = content /\ pc' = pc /\ todo' = todo
    BY <1>4 DEF CancelOperation, server, loop
  <2>2. pc = "put" /\ Good' => Good
    BY <1>4 DEF CancelOperation, Good
  <2> QED
    BY <1>2, <2>1, <2>2 DEF OrphanInv, There
<1>5. CASE Thread
  <2>1. content' = content
    BY <1>5, ThreadGoesOn DEF server
  <2>2. ~(pc' = "put" /\ Good')
    BY <1>5, ThreadGoesOn DEF GoesOn, Finish, Call, Good
  <2> QED
    BY <1>2, <1>5, <2>1, <2>2, Writing DEF OrphanInv, There
<1>6. CASE Serve
  <2>1. UNCHANGED <<pc, todo>> /\ pc # "idle"
    BY <1>6, ElsewhereIs, ServeIs DEF Elsewhere
  <2>2. \A i \in Items : There(i) => There(i)'
    BY <2>1, Grows, ResourceTypes DEF There
  <2>3. Head(todo) \in Items /\ Data \in Resources
    BY <2>1, HeadResources
  <2>4. ASSUME NEW f \in Files, content'[<<f, "rez">>] # "none" PROVE There(f)'
    <3>1. CASE content'[<<f, "rez">>] = content[<<f, "rez">>]
      BY <1>2, <2>2, <2>4, <3>1, ResourceTypes
    <3>2. CASE content'[<<f, "rez">>] # content[<<f, "rez">>]
      <4>1. f = Head(todo) /\ pc \in {"create", "put", "putRez"}
        BY <1>6, <3>2, ServeWrites, ResourceTypes
      <4>2. pc # "create"
        <5>1. pc = "create" => Head(todo) \in Folders
          BY DEF TypeInv, JobOK, FolderCalls
        <5> QED
          BY <4>1, <5>1, ResourceTypes
      <4>3. pc # "put"
        <5>1. pc = "put" => content'[<<f, "rez">>] = content[<<f, "rez">>]
          <6>1. pc = "put" => ServePut(Data)
            BY <1>6, ServeIs
          <6>2. Data # <<f, "rez">> /\ <<f, "rez">> \in Resources
            BY ResourceTypes DEF Data
          <6>3. content \in [Resources -> {"none", "theirs", "mine"}]
            BY DEF TypeInv, ServerOK
          <6> QED
            BY <6>1, <6>2, <6>3 DEF ServePut, server
        <5> QED
          BY <3>2, <5>1
      <4> QED
        BY <1>2, <2>2, <2>3, <4>1, <4>2, <4>3
    <3> QED
      BY <3>1, <3>2
  <2>5. ASSUME pc = "put", Good' PROVE There(Head(todo))'
    <3>1. ServePut(Data)
      BY <1>6, <2>5, ServeIs
    <3>2. content \in [Resources -> {"none", "theirs", "mine"}]
      BY DEF TypeInv, ServerOK
    <3>3. content'[Data] = "mine"
      BY <2>3, <2>5, <3>1, <3>2 DEF ServePut, Respond, Good
    <3> QED
      BY <2>1, <3>3 DEF Data, There
  <2>6. pc \in {"unlock", "putRez"} => There(Head(todo))'
    BY <1>2, <2>1, <2>2, <2>3 DEF There
  <2>7. (pc' = "put" /\ Good') \/ pc' \in {"unlock", "putRez"} => There(Head(todo))'
    BY <2>1, <2>5, <2>6
  <2> QED
    BY <2>4, <2>7 DEF OrphanInv, There
<1>7. CASE CallFails
  <2>1. content' = content /\ pc' = pc /\ todo' = todo /\ ~Good'
    BY <1>7 DEF CallFails, Respond, Good, When, server, loop
  <2> QED
    BY <1>2, <2>1 DEF OrphanInv, There
<1>8. CASE Others
  <2>1. UNCHANGED <<pc, todo, answer>>
    BY <1>8 DEF Others, OtherDeletes, OtherWrites, OtherLocks, LockEnds, loop
  <2>2. CASE UNCHANGED content
    BY <1>2, <2>1, <2>2 DEF OrphanInv, There, Good
  <2>3. CASE ~UNCHANGED content
    <3>1. pc = "idle"
      BY <1>8, <2>3, OthersRace
    <3>2. ASSUME NEW f \in Files, content'[<<f, "rez">>] # "none" PROVE There(f)'
      <4>1. content \in [Resources -> {"none", "theirs", "mine"}]
        BY DEF TypeInv, ServerOK
      <4>2. <<f, "rez">> \in Resources /\ <<f, "data">> \in Resources
        BY ResourceTypes
      <4>3. ASSUME NEW r \in Resources, OtherWrites(r) PROVE There(f)'
        <5>1. /\ content' = [content EXCEPT ![r] = "theirs"]
              /\ r[2] = "rez" => There(r[1])
          BY <4>3 DEF OtherWrites
        <5>2. There(f)
          BY <1>2, <3>2, <4>1, <4>2, <5>1 DEF There
        <5> QED
          BY <4>1, <4>2, <5>1, <5>2 DEF There
      <4>4. ASSUME NEW j \in Items, OtherDeletes(j) PROVE There(f)'
        <5> DEFINE gone == {r \in Resources : r[1] = j \/ j \in Home(r[1])}
        <5>1. content' = [r \in Resources |-> IF r \in gone THEN "none" ELSE content[r]]
          BY <4>4 DEF OtherDeletes
        <5>2. <<f, "rez">> \in gone <=> <<f, "data">> \in gone
          BY <4>2
        <5> HIDE DEF gone
        <5> QED
          BY <1>2, <3>2, <4>2, <5>1, <5>2 DEF There
      <4> QED
        BY <1>8, <2>3, <4>3, <4>4 DEF Others, OtherLocks, LockEnds
    <3> QED
      BY <2>1, <3>1, <3>2 DEF OrphanInv, There
  <2> QED
    BY <2>2, <2>3
<1>9. CASE UNCHANGED vars
  BY <1>2, <1>9 DEF vars, server, loop, OrphanInv, There, Good
<1> QED
  BY <1>3, <1>4, <1>5, <1>6, <1>7, <1>8, <1>9, NextIs
-----------------------------------------------------------------------------
\* What is ahead of the thread.
Ahead(s) == {s[n] : n \in DOMAIN s}
Calls == FolderCalls \cup FileCalls

LEMMA AheadIs ==
    ASSUME NEW s \in Seq(Items), s # <<>>
    PROVE  /\ Ahead(s) \subseteq Items /\ Head(s) \in Ahead(s)
           /\ Ahead(s) = {Head(s)} \cup Ahead(Tail(s))
           /\ Len(s) = 1 => Ahead(s) = {Head(s)}
<1>1. Len(s) \in Nat /\ Len(s) >= 1 /\ DOMAIN s = 1 .. Len(s) /\ \A n \in 1 .. Len(s) : s[n] \in Items
  BY EmptySeq
<1>2. /\ Head(s) = s[1] /\ Tail(s) \in Seq(Items) /\ Len(Tail(s)) = Len(s) - 1
      /\ \A n \in 1 .. Len(s) - 1 : Tail(s)[n] = s[n + 1]
  BY <1>1
<1>3. DOMAIN Tail(s) = 1 .. Len(s) - 1
  BY <1>2
<1>4. Ahead(s) \subseteq Items /\ Head(s) \in Ahead(s)
  BY <1>1, <1>2 DEF Ahead
<1>5. ASSUME NEW n \in 1 .. Len(s) PROVE s[n] \in {Head(s)} \cup Ahead(Tail(s))
  <2>1. CASE n = 1
    BY <1>2, <2>1
  <2>2. CASE n # 1
    <3>1. n - 1 \in 1 .. Len(s) - 1 /\ s[n] = Tail(s)[n - 1]
      BY <1>1, <1>2, <2>2
    <3> QED
      BY <1>3, <3>1 DEF Ahead
  <2> QED
    BY <2>1, <2>2
<1>6. ASSUME NEW n \in 1 .. Len(s) - 1 PROVE Tail(s)[n] \in Ahead(s)
  <2>1. n + 1 \in 1 .. Len(s) /\ Tail(s)[n] = s[n + 1]
    BY <1>1, <1>2
  <2> QED
    BY <1>1, <2>1 DEF Ahead
<1>7. Ahead(s) = {Head(s)} \cup Ahead(Tail(s))
  BY <1>1, <1>3, <1>4, <1>5, <1>6 DEF Ahead
<1>8. ASSUME Len(s) = 1 PROVE Ahead(s) = {Head(s)}
  BY <1>1, <1>2, <1>8 DEF Ahead
<1> QED
  BY <1>4, <1>7, <1>8

LEMMA AheadBoth ==
    ASSUME NEW s \in Seq(Items), NEW t \in Seq(Items)
    PROVE  Ahead(s \o t) = Ahead(s) \cup Ahead(t)
<1>1. /\ Len(s) \in Nat /\ Len(t) \in Nat /\ Len(s \o t) = Len(s) + Len(t)
      /\ DOMAIN s = 1 .. Len(s) /\ DOMAIN t = 1 .. Len(t) /\ DOMAIN (s \o t) = 1 .. Len(s) + Len(t)
  OBVIOUS
<1>2. \A n \in 1 .. Len(s) + Len(t) : (s \o t)[n] = IF n <= Len(s) THEN s[n] ELSE t[n - Len(s)]
  OBVIOUS
<1>3. ASSUME NEW n \in 1 .. Len(s) PROVE s[n] \in Ahead(s \o t)
  BY <1>1, <1>2 DEF Ahead
<1>4. ASSUME NEW n \in 1 .. Len(t) PROVE t[n] \in Ahead(s \o t)
  <2>1. n + Len(s) \in 1 .. Len(s) + Len(t) /\ (s \o t)[n + Len(s)] = t[n]
    BY <1>1, <1>2
  <2> QED
    BY <1>1, <2>1 DEF Ahead
<1>5. ASSUME NEW n \in 1 .. Len(s) + Len(t) PROVE (s \o t)[n] \in Ahead(s) \cup Ahead(t)
  <2>1. CASE n <= Len(s)
    BY <1>1, <1>2, <2>1 DEF Ahead
  <2>2. CASE ~(n <= Len(s))
    <3>1. n - Len(s) \in 1 .. Len(t) /\ (s \o t)[n] = t[n - Len(s)]
      BY <1>1, <1>2, <2>2
    <3> QED
      BY <1>1, <3>1 DEF Ahead
  <2> QED
    BY <2>1, <2>2
<1> QED
  BY <1>1, <1>3, <1>4, <1>5 DEF Ahead

\* The ways a call leads to the next one: the thread ends, stays with the item, goes on to
\* the next one, or goes into the folder.
Stays == pc' \in Calls /\ UNCHANGED <<pick, todo, overwrite>>

LEMMA Walk ==
    ASSUME TypeInv, Thread, pc \in Calls
    PROVE  \/ Finish
           \/ Stays
           \/ Len(todo) # 1 /\ Begin(Tail(todo))
           \/ /\ pc \in FolderCalls /\ Children[Head(todo)] # <<>>
              /\ Begin(Children[Head(todo)] \o Tail(todo))
<1> DEFINE Result == \/ Finish
                     \/ Stays
                     \/ Len(todo) # 1 /\ Begin(Tail(todo))
                     \/ /\ pc \in FolderCalls /\ Children[Head(todo)] # <<>>
                        /\ Begin(Children[Head(todo)] \o Tail(todo))
<1>1. Advance => Result
  BY DEF Advance
<1>2. Descend /\ pc \in FolderCalls => Result
  BY <1>1 DEF Descend
<1>3. \A name \in Calls : Continue(name) => Stays
  BY DEF Continue, Call, Stays, job, loop
<1>4. \A new : PastForks(new) => Finish \/ Stays
  BY DEF PastForks, Call, Stays, job, Calls, FileCalls
<1>5. \A new : PastData(new) => Finish \/ Stays
  BY <1>4 DEF PastData, Call, Stays, job, Calls, FileCalls
<1>6. "propsRez" \in Calls /\ "create" \in Calls /\ "propsFolder" \in Calls /\ "unlockRez" \in Calls
      /\ DropCalls \subseteq Calls /\ "unlock" \in Calls
  BY DEF Calls, FolderCalls, FileCalls, DropCalls
<1>7. \A shown : PastRez(shown) => Finish \/ Stays
  BY <1>3, <1>4, <1>6 DEF PastRez
<1>8. ~CheckAnswered /\ ~Alert
  BY DEF CheckAnswered, Alert, Answered, Calls, FolderCalls, FileCalls
<1>9. CASE ExistsAnswered \/ CreateAnswered \/ PropsFolderAnswered
  <2>1. pc \in FolderCalls
    BY <1>9 DEF ExistsAnswered, CreateAnswered, PropsFolderAnswered, Answered, FolderCalls
  <2> QED
    BY <1>1, <1>2, <1>3, <1>6, <1>9, <2>1 DEF ExistsAnswered, CreateAnswered, PropsFolderAnswered
<1>10. CASE PutAnswered
  <2>1. CASE Call("unlock") /\ UNCHANGED <<job, todo, held, overwrite, canceled, muted>>
    BY <1>6, <2>1 DEF Call, Stays, job
  <2>2. CASE Continue("drop")
    BY <1>3, <1>6, <2>2 DEF DropCalls
  <2> QED
    BY <1>1, <1>5, <1>10, <2>1, <2>2 DEF PutAnswered
<1>11. CASE UnlockAnswered
  BY <1>5, <1>11 DEF UnlockAnswered
<1>12. CASE PutRezAnswered
  <2>1. CASE Continue("dropBoth")
    BY <1>3, <1>6, <2>1 DEF DropCalls
  <2> QED
    BY <1>1, <1>3, <1>6, <1>7, <1>12, <2>1 DEF PutRezAnswered
<1>13. CASE UnlockRezAnswered
  BY <1>7, <1>13 DEF UnlockRezAnswered
<1>14. CASE PropsRezAnswered
  BY <1>4, <1>14 DEF PropsRezAnswered
<1>15. CASE PropsAnswered
  BY <1>1, <1>15 DEF PropsAnswered
<1>16. CASE DropAnswered
  BY <1>3, <1>6, <1>16 DEF DropAnswered, DropCalls
<1> QED
  BY <1>8, <1>9, <1>10, <1>11, <1>12, <1>13, <1>14, <1>15, <1>16 DEF Thread
-----------------------------------------------------------------------------
\* Replacing.  As long as nobody interferes, nothing of the selection is there when the
\* writing starts, unless the user agreed; nor is then anything inside it (TreeInv), or any
\* fork (OrphanInv).  So the walk stays within a part of the tree that is clear, but for
\* what the check knows by another name: what is in such a folder is so, too.
Clear(S) ==
    /\ S \subseteq Items /\ \A d \in S \cap Folders : Inside(d) \ Misnamed \subseteq S
    /\ \A r \in Resources : r[1] \in S => content[r] # "theirs"

ConfirmInv ==
    trouble \cap {"raced", "lost", "orphan"} = {} =>
        /\ "unasked" \notin trouble
        /\ pc = "check" => /\ answer \in {"waiting", "ok", "absent"}
                           /\ answer = "absent" /\ Checked(Head(todo)) => ~There(Head(todo))
                           /\ \A i \in Tops : There(i) /\ Checked(i) => i \in Ahead(todo)
        /\ pc = "alert" => /\ todo = pick
                           /\ ~canceled /\ ~overwrite => \A i \in Tops : Checked(i) => ~There(i)
        /\ pc \in Calls /\ ~overwrite => \E S : Clear(S) /\ \A i \in Ahead(todo) : Checked(i) => i \in S

LEMMA ConfirmInit == Init => ConfirmInv
<1> SUFFICES ASSUME Init PROVE ConfirmInv
  OBVIOUS
<1>1. pc = "idle" /\ pc \notin Calls
  BY DEF Init, Calls, FolderCalls, FileCalls
<1>2. "unasked" \notin trouble
  BY Zenon DEF Init, When
<1> QED
  BY <1>1, <1>2 DEF ConfirmInv

LEMMA PhasesDiffer ==
    /\ "idle" \notin Calls /\ "check" \notin Calls /\ "alert" \notin Calls
    /\ "exists" \in Calls /\ "put" \in Calls /\ DropCalls \subseteq Calls
  BY DEF Calls, FolderCalls, FileCalls, DropCalls

LEMMA BeginsAhead ==
    ASSUME NEW rest, Begin(rest)
    PROVE  pc' \in {"exists", "put"} /\ todo' = rest /\ answer' = "waiting" /\ UNCHANGED <<pick, overwrite>>
  BY DEF Begin, Call, job

\* Nothing there, and so nothing in it.
LEMMA NothingThereIsClear ==
    ASSUME TypeInv, TreeInv, OrphanInv, trouble \cap {"raced", "orphan"} = {}
    PROVE  Clear({i \in Items : ~There(i)})
<1> DEFINE S == {i \in Items : ~There(i)}
<1>1. ASSUME NEW d \in S \cap Folders, NEW i \in Inside(d) \ Misnamed PROVE i \in S
  <2>1. i \in Items
    BY ConstantsAssumption DEF Inside
  <2>2. d \in Home(i)
    BY <1>1 DEF Home, Above
  <2>3. \A e \in Home(i) : e = d
    BY <1>1, TreeAssumption DEF Home, Above
  <2>4. ~There(d)
    BY <1>1
  <2>5. ~There(i)
    BY <2>1, <2>2, <2>3, <2>4 DEF TreeInv, ParentThere
  <2> QED
    BY <2>1, <2>5
<1>2. ASSUME NEW r \in Resources, r[1] \in S PROVE content[r] # "theirs"
  <2>1. CASE r = <<r[1], "data">>
    BY <1>2, <2>1 DEF There
  <2>2. CASE r[1] \in Files /\ r = <<r[1], "rez">>
    BY <1>2, <2>2 DEF OrphanInv
  <2>3. r = <<r[1], "data">> \/ (r[1] \in Files /\ r = <<r[1], "rez">>)
    BY <1>2 DEF Resources
  <2> QED
    BY <2>1, <2>2, <2>3
<1> HIDE DEF S
<1>3. S \subseteq Items /\ (\A d \in S \cap Folders : Inside(d) \ Misnamed \subseteq S)
  BY <1>1 DEF S
<1>4. Clear(S)
  BY <1>2, <1>3 DEF Clear
<1> QED
  BY <1>4 DEF S

LEMMA ConfirmThread ==
    ASSUME TypeInv, SingleInv, TreeInv, OrphanInv, ConfirmInv, Thread,
           trouble' \cap {"raced", "lost", "orphan"} = {}
    PROVE  ConfirmInv'
<1>1. trouble \cap {"raced", "lost", "orphan"} = {} /\ content' = content
      /\ ("unasked" \in trouble' => "unasked" \in trouble)
  BY ThreadGoesOn DEF server
<1>2. "unasked" \notin trouble'
  BY <1>1 DEF ConfirmInv
<1>3. todo \in Seq(Items) /\ pick \in Seq(Items) /\ (pc # "idle" => todo # <<>> /\ pick # <<>>)
  BY DEF TypeInv, JobOK
<1>4. CASE Finish
  <2>1. pc' = "idle"
    BY <1>4 DEF Finish, Call
  <2> QED
    BY <1>2, <2>1, PhasesDiffer DEF ConfirmInv
<1>5. CASE CheckAnswered
  <2>1. /\ pc = "check" /\ answer # "waiting" /\ overwrite' = (answer = "ok")
        /\ pick' = pick /\ canceled' = canceled /\ qualified' = qualified
    BY <1>5 DEF CheckAnswered, Answered, job
  <2>2. /\ answer \in {"ok", "absent"}
        /\ answer = "absent" /\ Checked(Head(todo)) => ~There(Head(todo))
        /\ \A i \in Tops : There(i) /\ Checked(i) => i \in Ahead(todo)
    BY <1>1, <2>1 DEF ConfirmInv
  <2>3. todo # <<>>
    BY <1>3, <2>1
  <2>4. Ahead(todo) = {Head(todo)} \cup Ahead(Tail(todo)) /\ (Len(todo) = 1 => Ahead(todo) = {Head(todo)})
    BY <1>3, <2>3, AheadIs
  <2>5. Tops' = Tops /\ \A i : (There(i)' <=> There(i)) /\ (Checked(i)' <=> Checked(i))
    BY <1>1, <2>1 DEF Tops, There, Checked
  <2>6. CASE Len(todo) > 1 /\ answer # "ok" /\ ~canceled /\ Call("check") /\ todo' = Tail(todo)
    <3>1. pc' = "check" /\ answer' = "waiting"
      BY <2>6 DEF Call
    <3>2. \A i \in Tops : There(i) /\ Checked(i) => i \in Ahead(Tail(todo))
      BY <2>2, <2>4, <2>6
    <3>3. \A i \in Tops' : There(i)' /\ Checked(i)' => i \in Ahead(todo')
      BY <2>5, <2>6, <3>2
    <3> QED
      BY <1>2, <3>1, <3>3, PhasesDiffer DEF ConfirmInv
  <2>7. CASE (Len(todo) = 1 \/ answer = "ok" \/ canceled) /\ Call("alert") /\ todo' = pick
    <3>1. pc' = "alert"
      BY <2>7 DEF Call
    <3>2. ASSUME ~canceled', ~overwrite' PROVE \A i \in Tops' : Checked(i)' => ~There(i)'
      <4>1. Len(todo) = 1 /\ answer = "absent"
        BY <2>1, <2>2, <2>7, <3>2
      <4> QED
        BY <2>2, <2>4, <2>5, <4>1
    <3> QED
      BY <1>2, <2>1, <2>7, <3>1, <3>2, PhasesDiffer DEF ConfirmInv
  <2> QED
    BY <1>5, <2>6, <2>7 DEF CheckAnswered
<1>6. CASE Alert /\ ~Finish
  <2>1. pc = "alert" /\ ~canceled /\ Begin(todo)
    BY <1>6 DEF Alert
  <2>2. pc' \in {"exists", "put"} /\ todo' = todo /\ overwrite' = overwrite
    BY <2>1, BeginsAhead
  <2>3. ASSUME ~overwrite PROVE \E S : Clear(S)' /\ \A i \in Ahead(todo') : Checked(i)' => i \in S
    <3>1. todo = pick /\ \A i \in Tops : Checked(i) => ~There(i)
      BY <1>1, <2>1, <2>3 DEF ConfirmInv
    <3>2. Ahead(todo) = Tops /\ Ahead(todo) \subseteq Items
      BY <1>3, <2>1, <3>1, AheadIs DEF Ahead, Tops
    <3>3. PICK S : S = {i \in Items : ~There(i)}
      OBVIOUS
    <3>4. Clear(S) /\ \A i \in Ahead(todo) : Checked(i) => i \in S
      BY <1>1, <3>1, <3>2, <3>3, NothingThereIsClear
    <3>5. Clear(S)'
      BY <1>1, <3>4 DEF Clear
    <3>6. \A i : Checked(i)' <=> Checked(i)
      BY <2>1 DEF Begin, job, Checked
    <3> QED
      BY <2>2, <3>4, <3>5, <3>6
  <2> QED
    BY <1>2, <2>2, <2>3, PhasesDiffer DEF ConfirmInv
<1>7. CASE pc \in Calls /\ ~Finish
  <2>1. todo # <<>>
    BY <1>3, <1>7, PhasesDiffer
  <2>2. pc' \in Calls /\ overwrite' = overwrite
    BY <1>7, Walk, BeginsAhead, PhasesDiffer DEF Stays
  <2>4. \A i : Checked(i)' <=> Checked(i)
    BY <1>7, ThreadGoesOn DEF GoesOn, job, Checked
  <2>3. ASSUME ~overwrite PROVE \E S : Clear(S)' /\ \A i \in Ahead(todo') : Checked(i)' => i \in S
    <3>1. PICK S : Clear(S) /\ \A i \in Ahead(todo) : Checked(i) => i \in S
      BY <1>1, <1>7, <2>3 DEF ConfirmInv
    <3>2. Ahead(todo) = {Head(todo)} \cup Ahead(Tail(todo)) /\ Tail(todo) \in Seq(Items)
      BY <1>3, <2>1, AheadIs, Heads
    <3>3. Clear(S)'
      BY <1>1, <3>1 DEF Clear
    <3>4. CASE Stays
      BY <2>4, <3>1, <3>4, <3>3 DEF Stays
    <3>5. CASE Begin(Tail(todo))
      BY <2>4, <3>1, <3>2, <3>5, <3>3, BeginsAhead
    <3>6. CASE pc \in FolderCalls /\ Begin(Children[Head(todo)] \o Tail(todo))
      <4>1. Head(todo) \in Folders
        BY <3>6 DEF TypeInv, JobOK
      <4>2. Ahead(Children[Head(todo)]) = Inside(Head(todo))
        BY DEF Ahead, Inside
      <4>3. Ahead(Children[Head(todo)] \o Tail(todo)) = Inside(Head(todo)) \cup Ahead(Tail(todo))
        BY <3>2, <4>1, <4>2, AheadBoth, ConstantsAssumption
      <4>4. ~qualified
        BY <1>7, <4>1, OneFileIs, PhasesDiffer DEF SingleInv
      <4>5. \A i \in Inside(Head(todo)) : Checked(i) => i \in S
        <5>1. CASE Head(todo) \in Misnamed
          BY <4>1, <4>4, <5>1, TreeAssumption DEF Checked
        <5>2. CASE Head(todo) \notin Misnamed
          <6>1. Head(todo) \in S
            BY <3>1, <3>2, <5>2 DEF Checked
          <6> QED
            BY <3>1, <4>1, <4>4, <6>1 DEF Clear, Checked
        <5> QED
          BY <5>1, <5>2
      <4> QED
        BY <2>4, <3>1, <3>2, <3>6, <3>3, <4>3, <4>5, BeginsAhead
    <3> QED
      BY <1>7, <3>4, <3>5, <3>6, Walk
  <2> QED
    BY <1>2, <2>2, <2>3, PhasesDiffer DEF ConfirmInv
<1>8. CheckAnswered \/ Alert \/ pc \in Calls
  BY DEF Thread, ExistsAnswered, CreateAnswered, PropsFolderAnswered, PutAnswered, UnlockAnswered,
         PutRezAnswered, UnlockRezAnswered, PropsRezAnswered, PropsAnswered, DropAnswered, Answered,
         Calls, FolderCalls, FileCalls
<1> QED
  BY <1>4, <1>5, <1>6, <1>7, <1>8

LEMMA ConfirmCommand ==
    ASSUME TypeInv, ConfirmInv, Command, trouble' \cap {"raced", "lost", "orphan"} = {}
    PROVE  ConfirmInv'
<1>1. /\ pc' = "check" /\ answer' = "waiting"
      /\ trouble \subseteq trouble' /\ trouble' \subseteq trouble \cup {"garbage"}
  BY CommandStarts DEF Started
<1>2. "unasked" \notin trouble'
  BY <1>1 DEF ConfirmInv
<1>3. todo' = pick'
  BY DEF Command, UploadFSSpecVector, UploadFSSpec, Synchronize, Start
<1>4. Tops' = Ahead(todo')
  BY <1>3 DEF Tops, Ahead
<1> QED
  BY <1>1, <1>2, <1>4, PhasesDiffer DEF ConfirmInv

\* What the server writes over was asked about, or is this client's.
LEMMA PutAsks ==
    ASSUME TypeInv, ConfirmInv, Serve, trouble' \cap {"raced", "lost", "orphan"} = {}
    PROVE  "unasked" \notin trouble'
<1>1. trouble \subseteq trouble'
  BY TroubleGrows DEF Next
<1>2. "unasked" \notin trouble /\ (pc \in Calls /\ ~overwrite =>
                                 \E S : Clear(S) /\ \A i \in Ahead(todo) : Checked(i) => i \in S)
  BY <1>1 DEF ConfirmInv
<1>3. CASE pc \in {"put", "putRez"}
  <2>1. PICK r \in {Data, Rez} : ServePut(r) /\ r[1] = Head(todo)
    BY <1>3, ServeIs DEF Data, Rez
  <2>2. pc \in Calls /\ pc \in FileCalls /\ pc # "idle"
    BY <1>3 DEF Calls, FileCalls
  <2>3. r \in Resources
    BY <2>1, <2>2, HeadResources
  <2>4. Head(todo) \in Ahead(todo)
    BY <2>2, AheadIs DEF TypeInv, JobOK
  <2>5. ~(content[r] = "theirs" /\ ~overwrite /\ Checked(r[1]))
    BY <1>2, <2>1, <2>2, <2>3, <2>4 DEF Clear
  <2>6. \A t : "unasked" \notin Refused(r, t)
    BY RefusedOK DEF Refusals
  <2>7. When(content[r] = "theirs" /\ ~overwrite, IF Checked(r[1]) THEN "unasked" ELSE "misnamed")
           \subseteq {"misnamed"}
    BY <2>5 DEF When
  <2>8. trouble' \subseteq trouble \cup {"misnamed"} \/ \E t : trouble' = trouble \cup Refused(r, t)
    BY <2>1, <2>7 DEF ServePut, Noted
  <2> QED
    BY <1>2, <2>6, <2>8
<1>4. CASE pc \in DropCalls
  <2>1. \A r : ServeDelete(r) => "unasked" \notin trouble'
    BY <1>2 DEF ServeDelete, Noted
  <2> QED
    BY <1>4, <2>1, ServeIs
<1>5. CASE pc \notin {"put", "putRez"} \cup DropCalls
  <2>1. \A r : ServeCreate(r) \/ ServeUnlock(r) \/ ServeProps(r) \/ ServeExists(r) \/ ServeCheck(r)
              => trouble' \subseteq trouble \cup {"misplaced"}
    BY DEF ServeCreate, ServeUnlock, ServeProps, ServeExists, ServeCheck, Noted, When
  <2> QED
    BY <1>2, <1>5, <2>1 DEF Serve, DropCalls
<1> QED
  BY <1>3, <1>4, <1>5

LEMMA ConfirmElsewhere ==
    ASSUME TypeInv, CancelInv, ConfirmInv, [Next]_vars, Elsewhere \/ CancelOperation,
           trouble' \cap {"raced", "lost", "orphan"} = {}
    PROVE  ConfirmInv'
<1>1. UNCHANGED <<pc, pick, todo, overwrite, qualified>> /\ (Elsewhere => UNCHANGED canceled)
  BY ElsewhereIs DEF CancelOperation, job, loop
<1>2. trouble \cap {"raced", "lost", "orphan"} = {} /\ ConfirmInv!2
  BY TroubleGrows DEF ConfirmInv
<1>3. pc # "idle" => \A r \in Resources : content'[r] = content[r] \/ content'[r] = "mine"
  BY Grows
<1>4. "unasked" \notin trouble'
  <2>1. CASE Serve
    BY <2>1, PutAsks
  <2>2. CASE Others \/ CallFails
    <3>1. \A c : "unasked" \notin When(c, "raced") /\ "unasked" \notin When(c, "ended")
      BY DEF When
    <3> QED
      BY <1>2, <2>2, <3>1 DEF Others, OtherDeletes, OtherWrites, OtherLocks, LockEnds, CallFails, Noted
  <2>3. CASE CancelOperation \/ UNCHANGED vars
    BY <1>2, <2>3 DEF CancelOperation, Noted, vars
  <2> QED
    BY <2>1, <2>2, <2>3 DEF Elsewhere
<1>5. CASE pc = "check"
  <2>1. Head(todo) \in Items /\ Tops \subseteq Items
    BY <1>5, HeadResources DEF TypeInv, JobOK, Tops
  <2>2. content' = content
    <3>1. CASE Serve
      BY <1>5, <3>1, ServeIs
    <3> QED
      BY <1>5, <3>1, ThreadWritesNothing, OthersRace DEF Elsewhere
  <2>3. /\ answer' \in {"waiting", "ok", "absent"}
        /\ answer' = "absent" /\ Checked(Head(todo)) => ~There(Head(todo))
    <3>1. CASE Serve
      <4>1. ServeCheck(Head(todo))
        BY <1>5, <3>1 DEF Serve
      <4> QED
        BY <4>1 DEF ServeCheck, ServeExists, Respond
    <3>2. CASE ~Serve
      <4>1. ~CallFails
        BY <1>5 DEF CallFails, Sends, Noted
      <4>2. answer' = answer
        BY <1>5, <3>2, <4>1 DEF Elsewhere, CancelOperation, Others, OtherDeletes, OtherWrites, OtherLocks,
                                LockEnds, vars
      <4> QED
        BY <1>2, <1>5, <4>2
    <3> QED
      BY <3>1, <3>2
  <2>4. \A i \in Tops : There(i) /\ Checked(i) => i \in Ahead(todo)
    BY <1>2, <1>5
  <2>5. /\ Tops' = Tops /\ Ahead(todo)' = Ahead(todo)
        /\ \A i : (There(i)' <=> There(i)) /\ (Checked(i)' <=> Checked(i))
    BY <1>1, <2>2 DEF Tops, There, Ahead, Checked
  <2>6. answer' = "absent" /\ Checked(Head(todo))' => ~There(Head(todo))'
    BY <1>1, <2>2, <2>3 DEF There, Checked
  <2> QED
    BY <1>1, <1>4, <1>5, <2>3, <2>4, <2>5, <2>6, PhasesDiffer DEF ConfirmInv
<1>6. CASE pc = "alert"
  <2>1. ~CancelOperation
    BY <1>6 DEF CancelOperation
  <2>2. content' = content
    <3>1. ~Serve
      BY <1>6, ServeIs
    <3> QED
      BY <1>6, <2>1, <3>1, ThreadWritesNothing, OthersRace DEF Elsewhere
  <2>3. todo = pick /\ (~canceled /\ ~overwrite => \A i \in Tops : Checked(i) => ~There(i))
    BY <1>2, <1>6
  <2>4. /\ UNCHANGED canceled /\ Tops' = Tops
        /\ \A i : (There(i)' <=> There(i)) /\ (Checked(i)' <=> Checked(i))
    BY <1>1, <2>1, <2>2 DEF Tops, There, Checked
  <2> QED
    BY <1>1, <1>4, <1>6, <2>3, <2>4, PhasesDiffer DEF ConfirmInv
<1>7. CASE pc \notin {"check", "alert"}
  <2>1. ASSUME pc \in Calls, ~overwrite PROVE \E S : Clear(S)' /\ \A i \in Ahead(todo)' : Checked(i)' => i \in S
    <3>1. PICK S : Clear(S) /\ \A i \in Ahead(todo) : Checked(i) => i \in S
      BY <1>2, <2>1
    <3>2. Clear(S)'
      BY <1>3, <2>1, <3>1, PhasesDiffer DEF Clear
    <3>3. Ahead(todo)' = Ahead(todo) /\ \A i : Checked(i)' <=> Checked(i)
      BY <1>1 DEF Ahead, Checked
    <3> QED
      BY <3>1, <3>2, <3>3
  <2> QED
    BY <1>1, <1>4, <1>7, <2>1 DEF ConfirmInv
<1> QED
  BY <1>5, <1>6, <1>7

LEMMA ConfirmStep ==
    ASSUME TypeInv, CancelInv, SingleInv, TreeInv, OrphanInv, ConfirmInv, [Next]_vars
    PROVE  ConfirmInv'
  BY ConfirmThread, ConfirmCommand, ConfirmElsewhere, StepIs DEF ConfirmInv

\* Nothing the check knows by its name is replaced unasked, however the selection is nested,
\* but for what other clients do meanwhile, a check that failed, or a fork without a file.
THEOREM OverwritesAreAsked == Spec => []OverwritesAreConfirmed
<1> DEFINE IInv == TypeInv /\ CancelInv /\ SingleInv /\ TreeInv /\ OrphanInv /\ ConfirmInv
<1>1. Init => IInv
  BY TypeInit, CancelInit, SingleInit, TreeInit, OrphanInit, ConfirmInit
<1>2. IInv /\ [Next]_vars => IInv'
  BY TypeStep, CancelStep, SingleStep, TreeStep, OrphanStep, ConfirmStep
<1>3. IInv => OverwritesAreConfirmed
  BY DEF ConfirmInv, OverwritesAreConfirmed
<1> QED
  BY <1>1, <1>2, <1>3, PTL DEF Spec
-----------------------------------------------------------------------------
\* Completeness.  While nothing goes wrong, what was to be uploaded is on the server, or
\* ahead of the thread, or in a folder that is.
Fine == trouble \subseteq {"ended", "orphan", "garbage", "leftover", "misnamed"}
Wanted == Tops \cup UNION {Within[d] : d \in Tops \cap Folders}
Done(i) ==
    /\ content[<<i, "data">>] # "none"
    /\ i \in Files => /\ content[<<i, "data">>] = "mine"
                      /\ Encoding => content[<<i, "rez">>] = "mine"
Covered(i) == Done(i) \/ i \in Ahead(todo) \/ \E d \in Ahead(todo) \cap Folders : i \in Within[d]

WalkPart ==
    /\ pc = "alert" => todo = pick
    /\ pc \in Calls => /\ \A i \in Wanted : Covered(i)
                       /\ \A d \in Ahead(todo) \cap Folders : ParentThere(d)

\* What each call is known to have done.
FolderPart ==
    /\ pc = "exists" => /\ answer \in {"waiting", "ok", "absent"}
                        /\ answer = "ok" => There(Head(todo))
                        /\ answer = "absent" => ~There(Head(todo))
    /\ pc = "create" => /\ answer \in {"waiting", "created"}
                        /\ answer = "waiting" <=> ~There(Head(todo))
    /\ pc = "propsFolder" => There(Head(todo))
FilePart ==
    /\ pc \in {"put", "putRez"} => answer = "waiting" \/ Good
    /\ (pc = "put" /\ Good) \/ pc \in AfterPut => content[Data] = "mine"
    /\ \/ pc = "putRez" /\ Good
       \/ pc \in {"unlockRez", "propsRez"}
       \/ pc = "props" /\ Encoding
       => content[Rez] = "mine"

\* A canceled upload is trouble; folders go into the window's collection.
NotedInv ==
    /\ canceled => "canceled" \in trouble
    /\ pc # "idle" => \A d \in Tops \cap Folders : Above(d) = {}
CompleteInv == Fine => WalkPart /\ FolderPart /\ FilePart

LEMMA NotedInit == Init => NotedInv
  BY DEF Init, NotedInv

LEMMA NotedCommand == Command => \A d \in Tops' \cap Folders : Above(d) = {}
<1>1. ASSUME NEW s \in Selections, UploadFSSpecVector(s) PROVE \A i \in Tops' : Above(i) = {}
  <2>1. pick' = s
    BY <1>1 DEF UploadFSSpecVector, Start
  <2> QED
    BY <2>1, TreeAssumption DEF Tops
<1>2. ASSUME NEW f \in Files, UploadFSSpec(f) \/ \E release \in BOOLEAN : Synchronize(f, release)
      PROVE  Tops' = {f}
  <2>1. pick' = <<f>>
    BY <1>2 DEF UploadFSSpec, Synchronize, Start
  <2> QED
    BY <2>1 DEF Tops
<1> QED
  BY <1>1, <1>2, ResourceTypes DEF Command

LEMMA NotedStep == NotedInv /\ [Next]_vars => NotedInv'
<1> SUFFICES ASSUME NotedInv, [Next]_vars PROVE NotedInv'
  OBVIOUS
<1>1. trouble \subseteq trouble'
  BY TroubleGrows
<1>2. CASE Command
  BY <1>2, NotedCommand, CommandStarts DEF NotedInv, Started
<1>3. CASE CancelOperation
  <2>1. UNCHANGED <<pc, pick>> /\ "canceled" \in trouble'
    BY <1>3 DEF CancelOperation, Noted, job
  <2> QED
    BY <2>1 DEF NotedInv, Tops
<1>4. CASE Thread
  <2>1. CASE Finish
    BY <2>1 DEF NotedInv, Finish, Call
  <2>2. CASE ~Finish
    <3>1. UNCHANGED <<pick, canceled>> /\ pc # "idle"
      <4>1. pc # "idle"
        BY <1>4 DEF Thread, CheckAnswered, Alert, ExistsAnswered, CreateAnswered, PropsFolderAnswered,
             PutAnswered, UnlockAnswered, PutRezAnswered, UnlockRezAnswered, PropsRezAnswered,
             PropsAnswered, DropAnswered, Answered
      <4> QED
        BY <1>4, <2>2, <4>1, ThreadGoesOn DEF GoesOn, job
    <3> QED
      BY <1>1, <3>1 DEF NotedInv, Tops
  <2> QED
    BY <2>1, <2>2
<1>5. CASE Elsewhere
  BY <1>1, <1>5, ElsewhereIs DEF NotedInv, Tops
<1> QED
  BY <1>2, <1>3, <1>4, <1>5, StepIs

LEMMA CompleteInit == Init => CompleteInv
<1> SUFFICES ASSUME Init PROVE WalkPart /\ FolderPart /\ FilePart
  BY DEF CompleteInv
<1>1. pc = "idle"
  BY DEF Init
<1> QED
  BY <1>1, PhasesDiffer DEF WalkPart, FolderPart, FilePart, AfterPut

\* What is done stays done.
LEMMA DoneStays ==
    ASSUME TypeInv, CancelInv, [Next]_vars, pc # "idle", "raced" \notin trouble'
    PROVE  /\ \A i \in Items : Done(i) => Done(i)'
           /\ \A i \in Items : (There(i) => There(i)') /\ (ParentThere(i) => ParentThere(i)')
           /\ \A r \in Resources : content[r] = "mine" => content'[r] = "mine"
<1>1. \A r \in Resources : content'[r] = content[r] \/ content'[r] = "mine"
  BY Grows
<1>2. \A i \in Items : Done(i) => Done(i)'
  BY <1>1, ResourceTypes DEF Done
<1>3. \A i \in Items : There(i) => There(i)'
  BY <1>1, ResourceTypes DEF There
<1>4. \A i \in Items : ParentThere(i) => ParentThere(i)'
  BY <1>3 DEF ParentThere, Home, Above, Items
<1> QED
  BY <1>1, <1>2, <1>3, <1>4

\* What is in a folder is a child of it, or in one.
LEMMA WithinSplits ==
    ASSUME NEW d \in Folders, NEW i \in Within[d]
    PROVE  i \in Inside(d) \/ \E e \in Inside(d) \cap Folders : i \in Within[e]
<1> DEFINE Closed(c, S) == Inside(c) \subseteq S /\ \A e \in S \cap Folders : Inside(e) \subseteq S
           S == Inside(d) \cup UNION {Within[e] : e \in Inside(d) \cap Folders}
<1>1. \A e \in Folders : Inside(e) \subseteq Items
  BY ConstantsAssumption DEF Inside
<1>2. \A e \in Folders : Within[e] = {k \in Items : \A R \in SUBSET Items : Closed(e, R) => k \in R}
  BY DEF Within
<1> HIDE DEF Closed
<1>3. \A e \in Folders : Within[e] \subseteq Items /\ Closed(e, Within[e])
  BY <1>1, <1>2 DEF Closed
<1>4. S \in SUBSET Items /\ Closed(d, S)
  BY <1>1, <1>3 DEF Closed
<1>5. i \in S
  BY <1>2, <1>4
<1> QED
  BY <1>5

LEMMA WantedItems == TypeInv => Wanted \subseteq Items
<1> SUFFICES ASSUME TypeInv PROVE Wanted \subseteq Items
  OBVIOUS
<1>1. Tops \subseteq Items
  BY DEF TypeInv, JobOK, Tops
<1>2. \A d \in Folders : Within[d] \subseteq Items
  BY DEF Within
<1> QED
  BY <1>1, <1>2 DEF Wanted

\* Where the upload begins, everything is ahead.
LEMMA WalkStarts ==
    ASSUME TypeInv, NotedInv, pc # "idle", todo = pick
    PROVE  /\ \A i \in Wanted : Covered(i)
           /\ \A d \in Ahead(todo) \cap Folders : ParentThere(d)
<1>1. Ahead(todo) = Tops
  BY DEF Ahead, Tops
<1> QED
  BY <1>1 DEF Wanted, Covered, NotedInv, ParentThere, Home

\* The thread is done with the head of its list, and what is in it is next.
LEMMA WalkGoesOn ==
    ASSUME TypeInv, pc \in Calls, \A i \in Wanted : Covered(i),
           \A d \in Ahead(todo) \cap Folders : ParentThere(d),
           Done(Head(todo)), NEW ahead, ahead = Ahead(Tail(todo)) \cup
                (IF Head(todo) \in Folders THEN Inside(Head(todo)) ELSE {})
    PROVE  /\ \A i \in Wanted : Done(i) \/ i \in ahead \/ \E d \in ahead \cap Folders : i \in Within[d]
           /\ \A d \in ahead \cap Folders : ParentThere(d)
<1>1. todo \in Seq(Items) /\ todo # <<>>
  BY PhasesDiffer DEF TypeInv, JobOK
<1>2. Ahead(todo) = {Head(todo)} \cup Ahead(Tail(todo))
  BY <1>1, AheadIs
<1>3. ASSUME NEW i \in Wanted
      PROVE  Done(i) \/ i \in ahead \/ \E d \in ahead \cap Folders : i \in Within[d]
  <2>1. CASE i \in Ahead(todo)
    BY <1>2, <2>1
  <2>2. CASE \E d \in Ahead(todo) \cap Folders : i \in Within[d]
    <3>1. PICK d \in Ahead(todo) \cap Folders : i \in Within[d]
      BY <2>2
    <3>2. d = Head(todo) => i \in Inside(d) \/ \E e \in Inside(d) \cap Folders : i \in Within[e]
      BY <3>1, WithinSplits
    <3> QED
      BY <1>2, <3>1, <3>2
  <2> QED
    BY <2>1, <2>2 DEF Covered
<1>4. ASSUME NEW d \in ahead \cap Folders PROVE ParentThere(d)
  <2>1. CASE d \in Ahead(Tail(todo))
    BY <1>2, <1>4, <2>1
  <2>2. CASE Head(todo) \in Folders /\ d \in Inside(Head(todo))
    <3>1. There(Head(todo)) /\ Head(todo) \in Above(d)
      BY <2>2 DEF Done, There, Above
    <3> QED
      BY <3>1 DEF ParentThere, Home
  <2> QED
    BY <1>4, <2>1, <2>2
<1> QED
  BY <1>3, <1>4

\* The thread ends with everything done, or goes on as the invariant says.
Goes == \/ pc' = "idle" /\ \A i \in Wanted : Done(i)
        \/ pc' # "idle" /\ WalkPart' /\ FolderPart' /\ FilePart'

LEMMA BeginGoes ==
    ASSUME NEW rest, Begin(rest), UNCHANGED content,
           \A i \in Wanted : Done(i) \/ i \in Ahead(rest) \/ \E d \in Ahead(rest) \cap Folders : i \in Within[d],
           \A d \in Ahead(rest) \cap Folders : ParentThere(d)
    PROVE  Goes
<1>1. pc' \in {"exists", "put"} /\ todo' = rest /\ answer' = "waiting" /\ pick' = pick
  BY BeginsAhead
<1>2. Wanted' = Wanted /\ Ahead(todo') = Ahead(rest) /\ Ahead(todo)' = Ahead(rest)
  BY <1>1 DEF Wanted, Tops, Ahead
<1>3. \A i : (Done(i)' <=> Done(i)) /\ (ParentThere(i)' <=> ParentThere(i))
  BY DEF Done, ParentThere, Home, There
<1>4. WalkPart'
  BY <1>1, <1>2, <1>3 DEF WalkPart, Covered
<1>5. FolderPart' /\ FilePart'
  BY <1>1 DEF FolderPart, FilePart, Good, AfterPut
<1> QED
  BY <1>1, <1>4, <1>5 DEF Goes

LEMMA AdvanceGoes ==
    ASSUME TypeInv, WalkPart, pc \in Calls, ~canceled, UNCHANGED content, Advance, Done(Head(todo)),
           Head(todo) \in Folders => Children[Head(todo)] = <<>>
    PROVE  Goes
<1>1. todo \in Seq(Items) /\ todo # <<>>
  BY PhasesDiffer DEF TypeInv, JobOK
<1>2. Head(todo) \in Folders => Inside(Head(todo)) = {}
  BY DEF Inside
<1>3. PICK ahead : ahead = Ahead(Tail(todo)) \cup (IF Head(todo) \in Folders THEN Inside(Head(todo)) ELSE {})
  OBVIOUS
<1>4. ahead = Ahead(Tail(todo))
  BY <1>2, <1>3
<1>5. /\ \A i \in Wanted : Done(i) \/ i \in ahead \/ \E d \in ahead \cap Folders : i \in Within[d]
      /\ \A d \in ahead \cap Folders : ParentThere(d)
  BY <1>3, WalkGoesOn DEF WalkPart
<1>6. CASE Len(todo) = 1
  <2>1. Tail(todo) = <<>>
    <3>1. Tail(todo) \in Seq(Items) /\ Len(Tail(todo)) = 0
      BY <1>1, <1>6
    <3> QED
      BY <3>1, EmptySeq
  <2>2. ahead = {}
    BY <1>4, <2>1 DEF Ahead
  <2>3. pc' = "idle"
    BY <1>6 DEF Advance, Finish, Call
  <2> QED
    BY <1>5, <2>2, <2>3 DEF Goes
<1>7. CASE Len(todo) # 1
  <2>1. Begin(Tail(todo))
    BY <1>7 DEF Advance
  <2> QED
    BY <1>4, <1>5, <2>1, BeginGoes
<1> QED
  BY <1>6, <1>7

LEMMA DescendGoes ==
    ASSUME TypeInv, WalkPart, pc \in FolderCalls, ~canceled, UNCHANGED content, Descend,
           There(Head(todo))
    PROVE  Goes
<1>1. pc \in Calls /\ Head(todo) \in Folders /\ todo \in Seq(Items) /\ todo # <<>>
  BY PhasesDiffer DEF TypeInv, JobOK, Calls
<1>2. Done(Head(todo))
  BY <1>1, ResourceTypes DEF Done, There
<1>3. CASE Children[Head(todo)] = <<>>
  <2>1. Advance
    BY <1>3 DEF Descend
  <2> QED
    BY <1>1, <1>2, <1>3, <2>1, AdvanceGoes
<1>4. CASE Children[Head(todo)] # <<>>
  <2>1. Begin(Children[Head(todo)] \o Tail(todo))
    BY <1>4 DEF Descend
  <2>2. Ahead(Children[Head(todo)]) = Inside(Head(todo))
    BY DEF Ahead, Inside
  <2>3. Ahead(Children[Head(todo)] \o Tail(todo)) = Ahead(Tail(todo)) \cup Inside(Head(todo))
    <3>1. Children[Head(todo)] \in Seq(Items)
      BY <1>1, ConstantsAssumption
    <3>2. Tail(todo) \in Seq(Items)
      BY <1>1, Heads
    <3>3. Ahead(Children[Head(todo)] \o Tail(todo)) = Ahead(Children[Head(todo)]) \cup Ahead(Tail(todo))
      BY <3>1, <3>2, AheadBoth
    <3> QED
      BY <2>2, <3>3
  <2>4. PICK ahead : ahead = Ahead(Tail(todo)) \cup
                        (IF Head(todo) \in Folders THEN Inside(Head(todo)) ELSE {})
    OBVIOUS
  <2>5. /\ \A i \in Wanted : Done(i) \/ i \in ahead \/ \E d \in ahead \cap Folders : i \in Within[d]
        /\ \A d \in ahead \cap Folders : ParentThere(d)
    BY <1>1, <1>2, <2>4, WalkGoesOn DEF WalkPart
  <2>6. Ahead(Children[Head(todo)] \o Tail(todo)) = ahead
    BY <1>1, <2>3, <2>4
  <2> QED
    BY <2>1, <2>5, <2>6, BeginGoes
<1> QED
  BY <1>3, <1>4

LEMMA SameItem ==
    ASSUME WalkPart, pc \in Calls, pc' \in Calls, UNCHANGED <<content, pick, todo>>
    PROVE  WalkPart'
<1>1. Wanted' = Wanted /\ Ahead(todo)' = Ahead(todo)
  BY DEF Wanted, Tops, Ahead
<1>2. \A i : (Done(i)' <=> Done(i)) /\ (ParentThere(i)' <=> ParentThere(i))
  BY DEF Done, ParentThere, Home, There
<1> QED
  BY <1>1, <1>2, PhasesDiffer DEF WalkPart, Covered

\* The next call for a file that was written so far.
LEMMA ContinueGoes ==
    ASSUME TypeInv, WalkPart, pc \in Calls, UNCHANGED <<content, pick, todo>>, answer' = "waiting",
           pc' \in AfterPut, content[Data] = "mine",
           pc' \in {"unlockRez", "propsRez"} \/ (pc' = "props" /\ Encoding) => content[Rez] = "mine"
    PROVE  Goes
<1>1. pc' \in Calls
  BY DEF AfterPut, Calls, FileCalls
<1>2. WalkPart'
  BY <1>1, SameItem
<1>3. Data' = Data /\ Rez' = Rez
  BY DEF Data, Rez
<1>4. FolderPart' /\ FilePart'
  BY <1>3 DEF FolderPart, FilePart, Good, AfterPut
<1> QED
  BY <1>2, <1>4 DEF Goes, AfterPut

LEMMA FolderGoes ==
    ASSUME TypeInv, WalkPart, FolderPart, ~canceled, UNCHANGED content,
           ExistsAnswered \/ CreateAnswered \/ PropsFolderAnswered
    PROVE  Goes
<1>1. pc \in FolderCalls /\ pc \in Calls /\ answer # "waiting"
  BY DEF ExistsAnswered, CreateAnswered, PropsFolderAnswered, Answered, Calls, FolderCalls
<1>2. "create" \in Calls /\ "propsFolder" \in Calls
  BY DEF Calls, FolderCalls
<1>3. CASE Descend /\ There(Head(todo))
  BY <1>1, <1>3, DescendGoes
<1>4. CASE Continue("create") /\ ~There(Head(todo))
  <2>1. UNCHANGED <<content, pick, todo>> /\ pc' = "create" /\ answer' = "waiting"
    BY <1>4 DEF Continue, Call, job, loop
  <2>2. WalkPart'
    BY <1>1, <1>2, <2>1, SameItem
  <2>3. FolderPart' /\ FilePart'
    BY <1>4, <2>1 DEF FolderPart, FilePart, AfterPut, There
  <2> QED
    BY <2>1, <2>2, <2>3 DEF Goes
<1>5. CASE Continue("propsFolder") /\ There(Head(todo))
  <2>1. UNCHANGED <<content, pick, todo>> /\ pc' = "propsFolder" /\ answer' = "waiting"
    BY <1>5 DEF Continue, Call, job, loop
  <2>2. WalkPart'
    BY <1>1, <1>2, <2>1, SameItem
  <2>3. FolderPart' /\ FilePart'
    BY <1>5, <2>1 DEF FolderPart, FilePart, AfterPut, There
  <2> QED
    BY <2>1, <2>2, <2>3 DEF Goes
<1>6. CASE ExistsAnswered
  BY <1>1, <1>3, <1>4, <1>6 DEF ExistsAnswered, Answered, FolderPart
<1>7. CASE CreateAnswered
  BY <1>1, <1>5, <1>7 DEF CreateAnswered, Answered, FolderPart
<1>8. CASE PropsFolderAnswered
  BY <1>3, <1>8 DEF PropsFolderAnswered, Answered, FolderPart
<1> QED
  BY <1>6, <1>7, <1>8

LEMMA PastForksGoes ==
    ASSUME TypeInv, WalkPart, pc \in Calls, ~canceled, UNCHANGED content, NEW new, PastForks(new),
           content[Data] = "mine", Encoding => content[Rez] = "mine"
    PROVE  Goes
<1>1. pc' = "props" /\ answer' = "waiting" /\ UNCHANGED <<pick, todo>>
  BY DEF PastForks, Call, job
<1> QED
  BY <1>1, ContinueGoes DEF AfterPut

LEMMA PastDataGoes ==
    ASSUME TypeInv, WalkPart, pc \in Calls, ~canceled, UNCHANGED content, NEW new, PastData(new),
           content[Data] = "mine"
    PROVE  Goes
<1>1. CASE ~Encoding
  BY <1>1, PastForksGoes DEF PastData
<1>2. CASE Encoding
  <2>1. pc' = "putRez" /\ answer' = "waiting" /\ UNCHANGED <<pick, todo>>
    BY <1>2 DEF PastData, Call, job
  <2> QED
    BY <2>1, ContinueGoes DEF AfterPut
<1> QED
  BY <1>1, <1>2

LEMMA PastRezGoes ==
    ASSUME TypeInv, WalkPart, pc \in Calls, ~canceled, UNCHANGED content, NEW shown, PastRez(shown),
           content[Data] = "mine", content[Rez] = "mine"
    PROVE  Goes
<1>1. CASE Continue("propsRez")
  <2>1. pc' = "propsRez" /\ answer' = "waiting" /\ UNCHANGED <<pick, todo>>
    BY <1>1 DEF Continue, Call, job, loop
  <2> QED
    BY <2>1, ContinueGoes DEF AfterPut
<1>2. CASE PastForks(created)
  BY <1>2, PastForksGoes
<1> QED
  BY <1>1, <1>2 DEF PastRez

LEMMA FileGoes ==
    ASSUME TypeInv, WalkPart, FilePart, ~canceled, UNCHANGED content,
           PutAnswered \/ UnlockAnswered \/ PutRezAnswered \/ UnlockRezAnswered \/ PropsRezAnswered
             \/ PropsAnswered
    PROVE  Goes
<1>1. pc \in FileCalls /\ pc \in Calls /\ answer # "waiting"
  BY DEF PutAnswered, UnlockAnswered, PutRezAnswered, UnlockRezAnswered, PropsRezAnswered,
         PropsAnswered, Answered, Calls, FileCalls
<1>2. Head(todo) \in Files /\ Head(todo) \notin Folders
  BY <1>1, HeadResources, ResourceTypes
<1>3. CASE PutAnswered
  <2>1. Good /\ content[Data] = "mine" /\ pc = "put"
    BY <1>1, <1>3 DEF PutAnswered, Answered, FilePart
  <2>2. CASE Call("unlock") /\ UNCHANGED <<job, todo>>
    BY <1>1, <2>1, <2>2, ContinueGoes DEF Call, AfterPut, job
  <2>3. CASE PastData(answer = "created")
    BY <1>1, <2>1, <2>3, PastDataGoes
  <2> QED
    BY <1>3, <2>1, <2>2, <2>3 DEF PutAnswered, Good
<1>4. CASE UnlockAnswered
  <2>1. content[Data] = "mine" /\ PastData(created)
    BY <1>4 DEF UnlockAnswered, Answered, FilePart, AfterPut
  <2> QED
    BY <1>1, <2>1, PastDataGoes
<1>5. CASE PutRezAnswered
  <2>1. Good /\ content[Data] = "mine" /\ content[Rez] = "mine"
    BY <1>1, <1>5 DEF PutRezAnswered, Answered, FilePart, AfterPut
  <2>2. CASE Continue("unlockRez")
    <3>1. pc' = "unlockRez" /\ answer' = "waiting" /\ UNCHANGED <<pick, todo>>
      BY <2>2 DEF Continue, Call, job, loop
    <3> QED
      BY <1>1, <2>1, <3>1, ContinueGoes DEF AfterPut
  <2>3. ASSUME NEW shown, PastRez(shown) PROVE Goes
    BY <1>1, <2>1, <2>3, PastRezGoes
  <2> QED
    BY <1>5, <2>1, <2>2, <2>3 DEF PutRezAnswered, Good
<1>6. CASE UnlockRezAnswered
  <2>1. content[Data] = "mine" /\ content[Rez] = "mine"
    BY <1>6 DEF UnlockRezAnswered, Answered, FilePart, AfterPut
  <2> QED
    BY <1>1, <1>6, <2>1, PastRezGoes DEF UnlockRezAnswered
<1>7. CASE PropsRezAnswered
  <2>1. content[Data] = "mine" /\ content[Rez] = "mine"
    BY <1>7 DEF PropsRezAnswered, Answered, FilePart, AfterPut
  <2> QED
    BY <1>1, <1>7, <2>1, PastForksGoes DEF PropsRezAnswered
<1>8. CASE PropsAnswered
  <2>1. content[Data] = "mine" /\ (Encoding => content[Rez] = "mine")
    BY <1>8 DEF PropsAnswered, Answered, FilePart, AfterPut
  <2>2. Done(Head(todo))
    BY <2>1 DEF Done, Data, Rez
  <2> QED
    BY <1>1, <1>2, <1>8, <2>2, AdvanceGoes DEF PropsAnswered
<1> QED
  BY <1>3, <1>4, <1>5, <1>6, <1>7, <1>8

LEMMA CompleteThread ==
    ASSUME TypeInv, CancelInv, NotedInv, CompleteInv, Thread, Fine'
    PROVE  Goes
<1>1. Fine /\ content' = content /\ trouble \subseteq trouble'
  BY ThreadGoesOn DEF Fine, server
<1>2. ~canceled /\ ~muted /\ pc \notin DropCalls /\ answer # "canceled"
  BY <1>1 DEF Fine, NotedInv, CancelInv
<1>3. WalkPart /\ FolderPart /\ FilePart
  BY <1>1 DEF CompleteInv
<1>4. CASE CheckAnswered
  <2>1. pc' \in {"check", "alert"} /\ (pc' = "alert" => todo' = pick) /\ pick' = pick
    BY <1>4 DEF CheckAnswered, Call, job
  <2> QED
    BY <2>1, PhasesDiffer DEF Goes, WalkPart, FolderPart, FilePart, AfterPut
<1>5. CASE Alert
  <2>1. ~Noted({"declined"})
    BY DEF Noted, Fine
  <2>2. pc = "alert" /\ Begin(todo)
    BY <1>5, <2>1 DEF Alert
  <2>3. todo = pick
    BY <1>3, <2>2 DEF WalkPart
  <2> QED
    BY <1>1, <2>2, <2>3, WalkStarts, BeginGoes DEF Covered
<1>6. CASE ExistsAnswered \/ CreateAnswered \/ PropsFolderAnswered
  BY <1>1, <1>2, <1>3, <1>6, FolderGoes
<1>7. CASE \/ PutAnswered \/ UnlockAnswered \/ PutRezAnswered \/ UnlockRezAnswered \/ PropsRezAnswered
           \/ PropsAnswered
  BY <1>1, <1>2, <1>3, <1>7, FileGoes
<1>8. CASE DropAnswered
  BY <1>2, <1>8 DEF DropAnswered, Answered, DropCalls
<1> QED
  BY <1>4, <1>5, <1>6, <1>7, <1>8 DEF Thread

\* The server does what it is asked, unless it notes why not.
LEMMA CompletePut ==
    ASSUME TypeInv, NEW r \in Resources, ServePut(r), Fine'
    PROVE  content'[r] = "mine" /\ Good'
<1>1. \A t : Refused(r, t) # {} => ~Noted(Refused(r, t))
  <2>1. \A t : Refused(r, t) \subseteq Refusals
    BY RefusedOK
  <2>2. \A x \in Refusals : x \notin {"ended", "orphan", "garbage", "leftover", "misnamed"}
    BY DEF Refusals
  <2> QED
    BY <2>1, <2>2 DEF Noted, Fine
<1>2. content \in [Resources -> {"none", "theirs", "mine"}]
  BY DEF TypeInv, ServerOK
<1> QED
  BY <1>1, <1>2 DEF ServePut, Respond, Good

LEMMA CompleteServe ==
    ASSUME TypeInv, CancelInv, CompleteInv, Fine, Serve, Fine', UNCHANGED <<pc, todo>>,
           \A r \in Resources : content[r] = "mine" => content'[r] = "mine",
           \A i \in Items : There(i) => There(i)'
    PROVE  FolderPart' /\ FilePart'
<1>1. WalkPart /\ FolderPart /\ FilePart
  BY DEF CompleteInv
<1>2. answer = "waiting" /\ pc # "idle" /\ Head(todo) \in Items
  BY ServeIs, HeadResources
<1>3. Data' = Data /\ Rez' = Rez
  BY DEF Data, Rez
<1>4. FolderPart'
  <2>1. CASE pc = "exists"
    <3>1. ServeExists(Head(todo))
      BY <2>1 DEF Serve
    <3>2. answer' = (IF There(Head(todo)) THEN "ok" ELSE "absent") /\ content' = content
      BY <3>1 DEF ServeExists, Respond, server
    <3> QED
      BY <2>1, <3>2 DEF FolderPart, There
  <2>2. CASE pc = "create"
    <3>1. ServeCreate(Head(todo)) /\ ~There(Head(todo))
      BY <1>1, <1>2, <2>2 DEF Serve, FolderPart
    <3>2. Head(todo) \in Folders /\ pc \in Calls
      BY <2>2 DEF TypeInv, JobOK, FolderCalls, Calls
    <3>3. Head(todo) \in Ahead(todo)
      BY <1>2, AheadIs DEF TypeInv, JobOK
    <3>4. ParentThere(Head(todo))
      BY <1>1, <3>2, <3>3 DEF WalkPart
    <3>5. content \in [Resources -> {"none", "theirs", "mine"}] /\ <<Head(todo), "data">> \in Resources
      BY <1>2, ResourceTypes DEF TypeInv, ServerOK
    <3>6. answer' = "created" /\ content'[<<Head(todo), "data">>] = "mine"
      <4>1. ~Noted(When(TRUE, "misplaced"))
        BY DEF Noted, When, Fine
      <4> QED
        BY <3>1, <3>4, <3>5, <4>1 DEF ServeCreate, Respond, When
    <3> QED
      BY <2>2, <3>6 DEF FolderPart, There
  <2>3. CASE pc = "propsFolder"
    BY <1>1, <1>2, <2>3 DEF FolderPart, There
  <2> QED
    BY <2>1, <2>2, <2>3 DEF FolderPart
<1>5. FilePart'
  <2>1. CASE pc = "put"
    <3>1. content'[Data] = "mine" /\ Good'
      BY <1>2, <2>1, ServeIs, HeadResources, CompletePut
    <3> QED
      BY <1>3, <2>1, <3>1 DEF FilePart, AfterPut
  <2>2. CASE pc = "putRez"
    <3>1. content'[Rez] = "mine" /\ Good' /\ Data \in Resources
      <4>1. pc \in FileCalls
        BY <2>2 DEF FileCalls
      <4> QED
        BY <1>2, <2>2, <4>1, ServeIs, HeadResources, CompletePut
    <3> QED
      BY <1>1, <1>3, <2>2, <3>1 DEF FilePart, AfterPut
  <2>3. CASE pc \notin {"put", "putRez"}
    <3>1. pc \in AfterPut => Data \in Resources /\ Rez \in Resources
      BY <1>2, HeadResources DEF AfterPut, FileCalls
    <3> QED
      BY <1>1, <1>3, <2>3, <3>1 DEF FilePart, AfterPut
  <2> QED
    BY <2>1, <2>2, <2>3
<1> QED
  BY <1>4, <1>5

LEMMA CompleteElsewhere ==
    ASSUME TypeInv, CancelInv, NotedInv, CompleteInv, [Next]_vars, Elsewhere \/ CancelOperation, Fine'
    PROVE  CompleteInv'
<1>1. Fine
  BY TroubleGrows DEF Fine
<1>2. WalkPart /\ FolderPart /\ FilePart /\ ~CancelOperation /\ Elsewhere
  <2>1. ~CancelOperation
    BY DEF CancelOperation, Noted, Fine
  <2> QED
    BY <1>1, <2>1 DEF CompleteInv
<1>3. UNCHANGED <<pc, pick, todo>> /\ Data' = Data /\ Rez' = Rez
  BY <1>2, ElsewhereIs DEF Data, Rez
<1>4. "raced" \notin trouble' /\ "lost" \notin trouble' /\ ~muted
  BY <1>1 DEF Fine, CancelInv, NotedInv
<1>5. CASE pc \in {"idle", "check", "alert"}
  BY <1>2, <1>3, <1>5, PhasesDiffer DEF CompleteInv, WalkPart, FolderPart, FilePart, AfterPut
<1>6. CASE pc \notin {"idle", "check", "alert"}
  <2>1. /\ \A i \in Items : Done(i) => Done(i)'
        /\ \A i \in Items : (There(i) => There(i)') /\ (ParentThere(i) => ParentThere(i)')
        /\ \A r \in Resources : content[r] = "mine" => content'[r] = "mine"
    BY <1>4, <1>6, DoneStays
  <2>2. WalkPart'
    <3>1. Wanted' = Wanted /\ Ahead(todo)' = Ahead(todo) /\ Wanted \subseteq Items
      BY <1>3, WantedItems DEF Wanted, Tops, Ahead
    <3>2. Folders \subseteq Items
      BY DEF Items
    <3> QED
      BY <1>2, <1>3, <1>6, <2>1, <3>1, <3>2 DEF WalkPart, Covered
  <2>3. CASE Serve
    BY <1>1, <1>3, <2>1, <2>2, <2>3, CompleteServe DEF CompleteInv
  <2>4. CASE ~Serve
    <3>1. ~CallFails
      BY <1>4 DEF CallFails, Noted
    <3>2. answer' = answer /\ content' = content
      BY <1>2, <1>4, <1>6, <2>4, <3>1, OthersRace DEF Elsewhere, Others, OtherDeletes, OtherWrites,
         OtherLocks, LockEnds, vars, server
    <3>3. FolderPart' /\ FilePart'
      BY <1>2, <1>3, <3>2 DEF FolderPart, FilePart, There, Good
    <3> QED
      BY <2>2, <3>3 DEF CompleteInv
  <2> QED
    BY <2>3, <2>4
<1> QED
  BY <1>5, <1>6

LEMMA CompleteStep ==
    ASSUME TypeInv, CancelInv, NotedInv, CompleteInv, [Next]_vars
    PROVE  CompleteInv'
<1> SUFFICES ASSUME Fine' PROVE CompleteInv'
  BY DEF CompleteInv
<1>1. CASE Command
  <2>1. pc' = "check"
    BY <1>1, CommandStarts DEF Started
  <2> QED
    BY <2>1, PhasesDiffer DEF CompleteInv, WalkPart, FolderPart, FilePart, AfterPut
<1>2. CASE Thread
  <2>1. CASE pc' = "idle"
    BY <2>1, PhasesDiffer DEF CompleteInv, WalkPart, FolderPart, FilePart, AfterPut
  <2> QED
    BY <1>2, <2>1, CompleteThread DEF Goes, CompleteInv
<1> QED
  BY <1>1, <1>2, CompleteElsewhere, StepIs

\* An upload that got to its end without trouble has brought the whole selection, folders
\* and what is in them, files and their forks.
THEOREM UploadsAreWhole == Spec => UploadsAreComplete
<1> DEFINE IInv == TypeInv /\ CancelInv /\ NotedInv /\ CompleteInv
<1> DEFINE Whole == ~Idle /\ Idle' /\ trouble' \subseteq {"ended", "orphan", "garbage", "leftover", "misnamed"}
       => \A i \in Tops \cup UNION {Within[d] : d \in Tops \cap Folders} :
             /\ content'[<<i, "data">>] # "none"
             /\ i \in Files => /\ content'[<<i, "data">>] = "mine"
                               /\ Encoding => content'[<<i, "rez">>] = "mine"
<1>1. Init => IInv
  BY TypeInit, CancelInit, NotedInit, CompleteInit
<1>2. IInv /\ [Next]_vars => IInv'
  BY TypeStep, CancelStep, NotedStep, CompleteStep
<1>3. IInv /\ [Next]_vars => [Whole]_vars
  <2> SUFFICES ASSUME IInv, [Next]_vars, pc # "idle", pc' = "idle", Fine'
               PROVE  \A i \in Wanted : Done(i) /\ content' = content
    BY DEF Idle, Fine, Wanted, Done
  <2>1. Thread
    <3>1. ~Command
      BY CommandStarts DEF Started
    <3> QED
      BY <3>1, ElsewhereIs, StepIs DEF CancelOperation
  <2>2. content' = content
    BY <2>1, ThreadGoesOn DEF server
  <2>3. Goes
    BY <2>1, CompleteThread
  <2>4. \A i \in Wanted : Done(i)
    BY <2>3 DEF Goes
  <2> QED
    BY <2>2, <2>4
<1>4. [][Whole]_vars <=> UploadsAreComplete
  BY PTL DEF UploadsAreComplete
<1> HIDE DEF Whole, IInv
<1> QED
  BY <1>1, <1>2, <1>3, <1>4, PTL DEF Spec
-----------------------------------------------------------------------------
\* Why an upload ends if its calls return.  What is still to be uploaded, by itself or with a
\* folder; and that nothing waits twice, or both by itself and with a folder.
Holds(d, i) == d \in Folders /\ i \in Within[d]
Due(items) == {i \in Items : \E n \in DOMAIN items : items[n] = i \/ Holds(items[n], i)}
Apart(items) == \A m, n \in DOMAIN items : m # n => items[m] # items[n] /\ ~Holds(items[n], items[m])
NothingWaitsTwice == Apart(todo) /\ Apart(pick)

\* The calls and answers that are ahead of the item under way; canceling comes once.
CallsLeft(call, result, stopped) ==
    LET position == [check |-> 0, exists |-> 9, create |-> 8, propsFolder |-> 7,
                     put |-> 9, unlock |-> 8, putRez |-> 7, unlockRez |-> 5, propsRez |-> 4,
                     props |-> 3, dropBoth |-> 2, drop |-> 1, dropRez |-> 1]
        pending == IF result = "waiting" THEN 2 ELSE IF result \in {"failed", "canceled"} THEN 0 ELSE 1
    IN  6 * position[call] + pending + (IF stopped THEN 0 ELSE 3)

Fewer == CallsLeft(pc', answer', canceled') < CallsLeft(pc, answer, canceled)

\* The thread ends; or asks less, then asks the user, then has less to write; or has fewer
\* calls to make for the same item.
Closer ==
    \/ pc' = "idle"
    \/ pc = "check" /\ pc' = "check" /\ (Len(todo') < Len(todo) \/ (todo' = todo /\ Fewer))
    \/ pc = "check" /\ pc' = "alert"
    \/ pc = "alert" /\ pc' \in Calls
    \/ /\ pc \in Calls /\ pc' \in Calls
       /\ Cardinality(Due(todo')) < Cardinality(Due(todo)) \/ (todo' = todo /\ Fewer)

\* Whatever anybody does leaves the thread where it is or brings it closer to its end.
EachStepCounts == [][~Idle => Closer \/ UNCHANGED <<pc, answer, todo, canceled>>]_vars

\* What is within a folder within another one is within that, too.
LEMMA WithinIs ==
    ASSUME NEW d \in Folders
    PROVE  /\ Within[d] \subseteq Items /\ Inside(d) \subseteq Within[d]
           /\ \A e \in Within[d] \cap Folders : Within[e] \subseteq Within[d]
<1> DEFINE Closed(c, S) == Inside(c) \subseteq S /\ \A e \in S \cap Folders : Inside(e) \subseteq S
<1>1. \A e \in Folders : Inside(e) \subseteq Items
  BY ConstantsAssumption DEF Inside
<1>2. \A e \in Folders : Within[e] = {k \in Items : \A R \in SUBSET Items : Closed(e, R) => k \in R}
  BY DEF Within
<1> HIDE DEF Closed
<1>3. \A e \in Folders : Within[e] \subseteq Items /\ Closed(e, Within[e])
  BY <1>1, <1>2 DEF Closed
<1>4. ASSUME NEW e \in Within[d] \cap Folders PROVE Within[e] \subseteq Within[d]
  <2>1. Within[d] \in SUBSET Items /\ Closed(e, Within[d])
    BY <1>3 DEF Closed
  <2> QED
    BY <1>2, <2>1
<1> QED
  BY <1>3, <1>4 DEF Closed

\* What is within a folder is in that folder or in one within it.
LEMMA WithinOf ==
    ASSUME NEW e \in Folders, NEW c \in Within[e]
    PROVE  \E g \in {e} \cup (Within[e] \cap Folders) : c \in Inside(g)
<1> DEFINE T == Inside(e) \cup UNION {Inside(g) : g \in Within[e] \cap Folders}
           Closed(S) == Inside(e) \subseteq S /\ \A g \in S \cap Folders : Inside(g) \subseteq S
<1>1. Within[e] = {k \in Items : \A R \in SUBSET Items : Closed(R) => k \in R}
  BY DEF Within
<1>2. \A g \in Folders : Inside(g) \subseteq Items
  BY ConstantsAssumption DEF Inside
<1>3. T \subseteq Within[e]
  BY WithinIs
<1>4. T \in SUBSET Items /\ Closed(T)
  BY <1>2, <1>3
<1> HIDE DEF T, Closed
<1>5. c \in T
  BY <1>1, <1>4
<1> QED
  BY <1>5 DEF T

\* So it is in no other folder that does not hold its own.
LEMMA WithinUp ==
    ASSUME NEW d \in Folders, NEW c \in Inside(d), NEW e \in Folders, c \in Within[e]
    PROVE  e = d \/ d \in Within[e]
  BY WithinOf, TreeAssumption

LEMMA MembersApart ==
    ASSUME NEW d \in Folders, NEW c \in Inside(d)
    PROVE  /\ Holds(d, c) /\ c # d /\ ~Holds(c, d)
           /\ \A b \in Inside(d) : ~Holds(c, b)
<1>1. c \in Within[d] /\ d \notin Within[d]
  BY WithinIs, DirectoryAssumption
<1>2. ~Holds(c, d)
  BY <1>1, WithinIs DEF Holds
<1>3. ASSUME NEW b \in Inside(d), Holds(c, b) PROVE FALSE
  BY <1>1, <1>2, <1>3, WithinUp DEF Holds
<1> QED
  BY <1>1, <1>2, <1>3 DEF Holds

LEMMA LessDue ==
    ASSUME NEW s, NEW t, NEW i \in Due(t), i \notin Due(s), Due(s) \subseteq Due(t)
    PROVE  Cardinality(Due(s)) < Cardinality(Due(t))
<1>1. IsFiniteSet(Items)
  BY DirectoryAssumption, FS_Union DEF Items
<1>2. IsFiniteSet(Due(t)) /\ IsFiniteSet(Due(s))
  BY <1>1, FS_Subset DEF Due
<1>3. Cardinality(Due(t)) \in Nat /\ Cardinality(Due(s)) \in Nat
  BY <1>2, FS_CardinalityType
<1>4. Cardinality(Due(s)) <= Cardinality(Due(t))
      /\ (Cardinality(Due(s)) = Cardinality(Due(t)) => Due(s) = Due(t))
  BY <1>2, FS_Subset
<1> QED
  BY <1>3, <1>4

\* Where things are in a sequence, in what follows its head, and in two sequences in a row.
LEMMA TailAt ==
    ASSUME NEW s \in Seq(Items), s # <<>>
    PROVE  /\ Tail(s) \in Seq(Items) /\ Head(s) = s[1] /\ 1 \in DOMAIN s /\ Head(s) \in Items
           /\ DOMAIN s \subseteq Nat /\ DOMAIN Tail(s) \subseteq Nat
           /\ \A n \in DOMAIN Tail(s) : n + 1 \in DOMAIN s /\ n + 1 # 1 /\ Tail(s)[n] = s[n + 1]
<1>1. Len(s) \in Nat /\ Len(s) >= 1 /\ DOMAIN s = 1 .. Len(s) /\ \A n \in 1 .. Len(s) : s[n] \in Items
  BY EmptySeq
<1>2. /\ Head(s) = s[1] /\ Tail(s) \in Seq(Items) /\ Len(Tail(s)) = Len(s) - 1
      /\ \A n \in 1 .. Len(s) - 1 : Tail(s)[n] = s[n + 1]
  BY <1>1
<1>3. DOMAIN Tail(s) = 1 .. Len(s) - 1
  BY <1>2
<1> QED
  BY <1>1, <1>2, <1>3

LEMMA BothAt ==
    ASSUME NEW s \in Seq(Items), NEW t \in Seq(Items)
    PROVE  /\ Len(s) \in Nat /\ DOMAIN (s \o t) \subseteq Nat
           /\ \A k \in DOMAIN (s \o t) :
                 \/ k \in DOMAIN s /\ (s \o t)[k] = s[k]
                 \/ k \notin DOMAIN s /\ k - Len(s) \in DOMAIN t /\ (s \o t)[k] = t[k - Len(s)]
<1>1. /\ Len(s) \in Nat /\ Len(t) \in Nat /\ Len(s \o t) = Len(s) + Len(t)
      /\ DOMAIN s = 1 .. Len(s) /\ DOMAIN t = 1 .. Len(t) /\ DOMAIN (s \o t) = 1 .. Len(s) + Len(t)
  OBVIOUS
<1>2. \A n \in 1 .. Len(s) + Len(t) : (s \o t)[n] = IF n <= Len(s) THEN s[n] ELSE t[n - Len(s)]
  OBVIOUS
<1>3. ASSUME NEW k \in 1 .. Len(s) + Len(t)
      PROVE  \/ k \in 1 .. Len(s) /\ (s \o t)[k] = s[k]
             \/ k \notin 1 .. Len(s) /\ k - Len(s) \in 1 .. Len(t) /\ (s \o t)[k] = t[k - Len(s)]
  BY <1>1, <1>2
<1> QED
  BY <1>1, <1>3

\* What is done is not due any more: the next one...
LEMMA NextIsLess ==
    ASSUME NEW t \in Seq(Items), t # <<>>, Apart(t)
    PROVE  Apart(Tail(t)) /\ Cardinality(Due(Tail(t))) < Cardinality(Due(t))
<1>1. /\ Head(t) = t[1] /\ 1 \in DOMAIN t /\ Head(t) \in Items
      /\ DOMAIN t \subseteq Nat /\ DOMAIN Tail(t) \subseteq Nat
      /\ \A n \in DOMAIN Tail(t) : n + 1 \in DOMAIN t /\ n + 1 # 1 /\ Tail(t)[n] = t[n + 1]
  BY TailAt
<1>2. Apart(Tail(t))
  <2> SUFFICES ASSUME NEW m \in DOMAIN Tail(t), NEW n \in DOMAIN Tail(t), m # n
               PROVE  Tail(t)[m] # Tail(t)[n] /\ ~Holds(Tail(t)[n], Tail(t)[m])
    BY DEF Apart
  <2>1. m + 1 # n + 1
    BY <1>1
  <2> QED
    BY <1>1, <2>1 DEF Apart
<1>3. Head(t) \in Due(t)
  BY <1>1 DEF Due
<1>4. Head(t) \notin Due(Tail(t))
  BY <1>1 DEF Due, Apart
<1>5. Due(Tail(t)) \subseteq Due(t)
  BY <1>1 DEF Due
<1> QED
  BY <1>2, <1>3, <1>4, <1>5, LessDue

\* ... or what the folder holds, in its place.
LEMMA MembersAreLess ==
    ASSUME NEW t \in Seq(Items), t # <<>>, Apart(t), Head(t) \in Folders
    PROVE  /\ Apart(Children[Head(t)] \o Tail(t))
           /\ Cardinality(Due(Children[Head(t)] \o Tail(t))) < Cardinality(Due(t))
<1> DEFINE d == Head(t)
           s == Children[d]
           u == Tail(t)
           j == s \o u
<1>1. /\ d = t[1] /\ 1 \in DOMAIN t /\ d \in Items /\ u \in Seq(Items)
      /\ DOMAIN t \subseteq Nat /\ DOMAIN u \subseteq Nat
      /\ \A n \in DOMAIN u : n + 1 \in DOMAIN t /\ n + 1 # 1 /\ u[n] = t[n + 1]
  BY TailAt
<1>2. /\ s \in Seq(Items) /\ NamesOnce(s) /\ \A k \in DOMAIN s : s[k] \in Inside(d)
  BY ConstantsAssumption, DirectoryAssumption DEF Inside
<1> HIDE DEF d, s, u
<1>3. /\ Len(s) \in Nat /\ DOMAIN j \subseteq Nat
      /\ \A k \in DOMAIN j :
            \/ k \in DOMAIN s /\ j[k] = s[k]
            \/ k \notin DOMAIN s /\ k - Len(s) \in DOMAIN u /\ j[k] = u[k - Len(s)]
  BY <1>1, <1>2, BothAt
<1> HIDE DEF j
<1>4. d \in Folders
  BY DEF d
<1>5. ASSUME NEW k \in DOMAIN s
      PROVE  /\ Holds(d, s[k]) /\ s[k] # d /\ ~Holds(s[k], d)
             /\ \A l \in DOMAIN s : ~Holds(s[k], s[l])
  BY <1>2, <1>4, <1>5, MembersApart
<1>6. /\ Apart(u)
      /\ \A n \in DOMAIN u : u[n] # d /\ ~Holds(d, u[n]) /\ ~Holds(u[n], d)
  <2>1. Apart(u)
    BY NextIsLess DEF u
  <2>2. \A n \in DOMAIN u : u[n] # d /\ ~Holds(d, u[n]) /\ ~Holds(u[n], d)
    BY <1>1 DEF Apart
  <2> QED
    BY <2>1, <2>2
<1>7. ASSUME NEW k \in DOMAIN s, NEW n \in DOMAIN u
      PROVE  s[k] # u[n] /\ ~Holds(s[k], u[n]) /\ ~Holds(u[n], s[k])
  <2>1. s[k] # u[n]
    BY <1>5, <1>6, <1>7
  <2>2. ASSUME Holds(s[k], u[n]) PROVE FALSE
    BY <1>4, <1>5, <1>6, <1>7, <2>2, WithinIs DEF Holds
  <2>3. ASSUME Holds(u[n], s[k]) PROVE FALSE
    BY <1>2, <1>4, <1>6, <1>7, <2>3, WithinUp DEF Holds
  <2> QED
    BY <2>1, <2>2, <2>3
<1>8. Apart(j)
  <2> SUFFICES ASSUME NEW k \in DOMAIN j, NEW l \in DOMAIN j, k # l
               PROVE  j[k] # j[l] /\ ~Holds(j[l], j[k])
    BY DEF Apart
  <2>1. CASE k \in DOMAIN s /\ l \in DOMAIN s
    BY <1>2, <1>3, <1>5, <2>1 DEF NamesOnce
  <2>2. CASE k \in DOMAIN s /\ l \notin DOMAIN s
    BY <1>3, <1>7, <2>2
  <2>3. CASE k \notin DOMAIN s /\ l \in DOMAIN s
    BY <1>3, <1>7, <2>3
  <2>4. CASE k \notin DOMAIN s /\ l \notin DOMAIN s
    <3>1. k - Len(s) # l - Len(s)
      BY <1>3
    <3> QED
      BY <1>3, <1>6, <2>4, <3>1 DEF Apart
  <2> QED
    BY <2>1, <2>2, <2>3, <2>4
<1>9. d \in Due(t)
  BY <1>1 DEF Due
<1>10. d \notin Due(j)
  BY <1>3, <1>5, <1>6 DEF Due
<1>11. ASSUME NEW i \in Items, NEW k \in DOMAIN j, j[k] = i \/ Holds(j[k], i) PROVE i \in Due(t)
  <2>1. CASE k \in DOMAIN s
    <3>1. Holds(d, i)
      BY <1>3, <1>4, <1>5, <1>11, <2>1, WithinIs DEF Holds
    <3> QED
      BY <1>1, <3>1 DEF Due
  <2>2. CASE k \notin DOMAIN s
    BY <1>1, <1>3, <1>11, <2>2 DEF Due
  <2> QED
    BY <2>1, <2>2
<1>12. Due(j) \subseteq Due(t)
  BY <1>11 DEF Due
<1>13. Cardinality(Due(j)) < Cardinality(Due(t))
  BY <1>9, <1>10, <1>12, LessDue
<1> QED
  BY <1>8, <1>13 DEF j, d, s, u

LEMMA FinishCounts == Finish => Closer /\ NothingWaitsTwice'
  BY DEF Finish, Call, Closer, NothingWaitsTwice, Apart

\* The next call for the same item.
Later(call) ==
    \/ pc = "exists" /\ call = "create"
    \/ pc = "create" /\ call = "propsFolder"
    \/ pc = "put" /\ call \in {"drop", "unlock", "putRez", "props"}
    \/ pc = "unlock" /\ call \in {"putRez", "props"}
    \/ pc = "putRez" /\ call \in {"dropBoth", "unlockRez", "propsRez", "props"}
    \/ pc = "unlockRez" /\ call \in {"propsRez", "props"}
    \/ pc = "propsRez" /\ call = "props"
    \/ pc = "dropBoth" /\ call = "dropRez"

LEMMA CallCounts ==
    ASSUME TypeInv, NothingWaitsTwice, NEW call, Later(call), Call(call),
           UNCHANGED <<pick, todo, canceled>>
    PROVE  Closer /\ NothingWaitsTwice'
<1>1. pc' = call /\ answer' = "waiting" /\ canceled' = canceled /\ canceled \in BOOLEAN
  BY DEF Call, TypeInv, FlagsOK
<1>2. pc \in Calls /\ call \in Calls
  BY DEF Later, Calls, FolderCalls, FileCalls
<1>3. Fewer
  BY <1>1 DEF Fewer, CallsLeft, Later
<1>4. NothingWaitsTwice'
  BY DEF NothingWaitsTwice, Apart
<1> QED
  BY <1>1, <1>2, <1>3, <1>4 DEF Closer

LEMMA ContinueCounts ==
    ASSUME TypeInv, NothingWaitsTwice, NEW call, Later(call), Continue(call)
    PROVE  Closer /\ NothingWaitsTwice'
  BY CallCounts DEF Continue, job, loop

LEMMA BeginCounts ==
    ASSUME NothingWaitsTwice, pc \in Calls \cup {"alert"}, NEW rest, Begin(rest), Apart(rest),
           pc = "alert" \/ Cardinality(Due(rest)) < Cardinality(Due(todo))
    PROVE  Closer /\ NothingWaitsTwice'
<1>1. pc' \in Calls /\ todo' = rest /\ UNCHANGED pick
  BY BeginsAhead, PhasesDiffer
<1>2. NothingWaitsTwice'
  BY <1>1 DEF NothingWaitsTwice, Apart
<1> QED
  BY <1>1, <1>2 DEF Closer

LEMMA AdvanceCounts ==
    ASSUME TypeInv, NothingWaitsTwice, pc \in Calls, Advance
    PROVE  Closer /\ NothingWaitsTwice'
<1>1. todo \in Seq(Items) /\ todo # <<>> /\ Apart(todo)
  BY PhasesDiffer DEF TypeInv, JobOK, NothingWaitsTwice
<1> QED
  BY <1>1, NextIsLess, BeginCounts, FinishCounts DEF Advance

LEMMA DescendCounts ==
    ASSUME TypeInv, NothingWaitsTwice, pc \in FolderCalls, Descend
    PROVE  Closer /\ NothingWaitsTwice'
<1>1. todo \in Seq(Items) /\ todo # <<>> /\ Apart(todo) /\ Head(todo) \in Folders /\ pc \in Calls
  BY PhasesDiffer DEF TypeInv, JobOK, NothingWaitsTwice, Calls
<1>2. CASE Begin(Children[Head(todo)] \o Tail(todo))
  BY <1>1, <1>2, MembersAreLess, BeginCounts
<1> QED
  BY <1>1, <1>2, AdvanceCounts DEF Descend

LEMMA PastForksCounts ==
    ASSUME TypeInv, NothingWaitsTwice, Later("props"), NEW new, PastForks(new)
    PROVE  Closer /\ NothingWaitsTwice'
  BY CallCounts, FinishCounts DEF PastForks, job

LEMMA PastDataCounts ==
    ASSUME TypeInv, NothingWaitsTwice, pc \in {"put", "unlock"}, NEW new, PastData(new)
    PROVE  Closer /\ NothingWaitsTwice'
<1>1. Later("props") /\ Later("putRez")
  BY DEF Later
<1>2. CASE Call("putRez") /\ UNCHANGED <<job, todo, canceled>>
  BY <1>1, <1>2, CallCounts DEF job
<1> QED
  BY <1>1, <1>2, PastForksCounts DEF PastData

LEMMA PastRezCounts ==
    ASSUME TypeInv, NothingWaitsTwice, pc \in {"putRez", "unlockRez"}, NEW shown, PastRez(shown)
    PROVE  Closer /\ NothingWaitsTwice'
<1>1. Later("props") /\ Later("propsRez")
  BY DEF Later
<1> QED
  BY <1>1, ContinueCounts, PastForksCounts DEF PastRez

LEMMA FolderCounts ==
    ASSUME TypeInv, NothingWaitsTwice, ExistsAnswered \/ CreateAnswered \/ PropsFolderAnswered
    PROVE  Closer /\ NothingWaitsTwice'
<1>1. pc \in FolderCalls /\ pc \in Calls
  BY DEF ExistsAnswered, CreateAnswered, PropsFolderAnswered, Answered, FolderCalls, Calls
<1>2. CASE ExistsAnswered
  <2>1. Later("create")
    BY <1>2 DEF ExistsAnswered, Answered, Later
  <2> QED
    BY <1>1, <1>2, <2>1, ContinueCounts, DescendCounts, AdvanceCounts DEF ExistsAnswered
<1>3. CASE CreateAnswered
  <2>1. Later("propsFolder")
    BY <1>3 DEF CreateAnswered, Answered, Later
  <2> QED
    BY <1>1, <1>3, <2>1, ContinueCounts, AdvanceCounts DEF CreateAnswered
<1>4. CASE PropsFolderAnswered
  BY <1>1, <1>4, FinishCounts, DescendCounts DEF PropsFolderAnswered
<1> QED
  BY <1>2, <1>3, <1>4

LEMMA FileCounts ==
    ASSUME TypeInv, NothingWaitsTwice,
           \/ PutAnswered \/ UnlockAnswered \/ PutRezAnswered \/ UnlockRezAnswered
           \/ PropsRezAnswered \/ PropsAnswered \/ DropAnswered
    PROVE  Closer /\ NothingWaitsTwice'
<1>1. CASE PutAnswered
  <2>1. pc = "put" /\ pc \in Calls /\ Later("drop") /\ Later("unlock")
    BY <1>1 DEF PutAnswered, Answered, Later, Calls, FileCalls
  <2>2. CASE Call("unlock") /\ UNCHANGED <<job, todo, canceled>>
    BY <2>1, <2>2, CallCounts DEF job
  <2> QED
    BY <1>1, <2>1, <2>2, ContinueCounts, AdvanceCounts, PastDataCounts DEF PutAnswered
<1>2. CASE UnlockAnswered
  BY <1>2, PastDataCounts DEF UnlockAnswered, Answered
<1>3. CASE PutRezAnswered
  <2>1. pc = "putRez" /\ pc \in Calls /\ Later("dropBoth") /\ Later("unlockRez")
    BY <1>3 DEF PutRezAnswered, Answered, Later, Calls, FileCalls
  <2> QED
    BY <1>3, <2>1, ContinueCounts, AdvanceCounts, PastRezCounts DEF PutRezAnswered
<1>4. CASE UnlockRezAnswered
  BY <1>4, PastRezCounts DEF UnlockRezAnswered, Answered
<1>5. CASE PropsRezAnswered
  <2>1. Later("props")
    BY <1>5 DEF PropsRezAnswered, Answered, Later
  <2> QED
    BY <1>5, <2>1, PastForksCounts DEF PropsRezAnswered
<1>6. CASE PropsAnswered
  <2>1. pc \in Calls
    BY <1>6 DEF PropsAnswered, Answered, Calls, FileCalls
  <2> QED
    BY <1>6, <2>1, AdvanceCounts DEF PropsAnswered
<1>7. CASE DropAnswered
  <2>1. CASE Answered("dropBoth") /\ Continue("dropRez")
    <3>1. Later("dropRez")
      BY <2>1 DEF Answered, Later
    <3> QED
      BY <2>1, <3>1, ContinueCounts
  <2> QED
    BY <1>7, <2>1, FinishCounts DEF DropAnswered
<1> QED
  BY <1>1, <1>2, <1>3, <1>4, <1>5, <1>6, <1>7

\* The checks, and the question: what was asked about is then written from the start.
LEMMA CheckCounts ==
    ASSUME TypeInv, NothingWaitsTwice, CheckAnswered \/ Alert
    PROVE  Closer /\ NothingWaitsTwice'
<1>1. CASE CheckAnswered
  <2>1. pc = "check" /\ UNCHANGED pick /\ todo \in Seq(Items) /\ todo # <<>>
    BY <1>1 DEF CheckAnswered, Answered, job, TypeInv, JobOK
  <2>2. CASE pc' = "alert" /\ todo' = pick
    BY <2>1, <2>2 DEF Closer, NothingWaitsTwice, Apart
  <2>3. CASE pc' = "check" /\ todo' = Tail(todo)
    <3>1. Apart(Tail(todo)) /\ Len(Tail(todo)) < Len(todo)
      <4>1. Len(todo) \in Nat /\ Len(Tail(todo)) = Len(todo) - 1
        BY <2>1, HeadTailProperties, EmptySeq
      <4> QED
        BY <2>1, <4>1, NextIsLess DEF NothingWaitsTwice
    <3>2. NothingWaitsTwice'
      BY <2>1, <2>3, <3>1 DEF NothingWaitsTwice, Apart
    <3> QED
      BY <2>1, <2>3, <3>1, <3>2 DEF Closer
  <2> QED
    BY <1>1, <2>2, <2>3 DEF CheckAnswered, Call
<1>2. CASE Alert
  BY <1>2, FinishCounts, BeginCounts DEF Alert, NothingWaitsTwice
<1> QED
  BY <1>1, <1>2

\* An answer, or its loss, comes once, and so does canceling.
LEMMA AnswerCounts ==
    ASSUME TypeInv, pc \in Calls \cup {"check"}, UNCHANGED <<pc, todo>>,
           \/ /\ canceled' = canceled
              /\ \/ answer = "waiting" /\ answer' # "waiting"
                 \/ answer \notin {"failed", "canceled"} /\ answer' \in {"failed", "canceled"}
           \/ ~canceled /\ canceled' /\ answer' \in {answer, "failed", "canceled"}
    PROVE  Closer
<1>1. canceled \in BOOLEAN
  BY DEF TypeInv, FlagsOK
<1>2. Fewer
  <2>1. CASE canceled' = canceled
    BY <2>1, PhasesDiffer DEF Fewer, CallsLeft, Calls, FolderCalls, FileCalls
  <2>2. CASE ~canceled /\ canceled' /\ answer' \in {answer, "failed", "canceled"}
    BY <2>2 DEF Fewer, CallsLeft, Calls, FolderCalls, FileCalls
  <2> QED
    BY <2>1, <2>2
<1> QED
  BY <1>2 DEF Closer

LEMMA ServeAnswers == ASSUME Serve PROVE answer = "waiting" /\ answer' # "waiting" /\ pc \in Calls \cup {"check"}
<1>1. answer = "waiting" /\ pc \in Calls \cup {"check"}
  BY DEF Serve, Calls, FolderCalls, FileCalls
<1>2. \A i : ServeCheck(i) \/ ServeExists(i) \/ ServeCreate(i) => answer' # "waiting"
  BY DEF ServeCheck, ServeExists, ServeCreate, Respond
<1>3. \A r : ServeProps(r) \/ ServePut(r) => answer' # "waiting"
  BY DEF ServeProps, ServePut, Respond
<1>4. \A r : ServeUnlock(r) \/ ServeDelete(r) => answer' # "waiting"
  BY DEF ServeUnlock, ServeDelete, Respond
<1>5. answer' # "waiting"
  BY <1>2, <1>3, <1>4 DEF Serve
<1> QED
  BY <1>1, <1>5

LEMMA SelectionApart == \A s \in Selections : Apart(s)
<1> SUFFICES ASSUME NEW s \in Selections, NEW m \in DOMAIN s, NEW n \in DOMAIN s, Holds(s[n], s[m])
             PROVE  FALSE
  BY DirectoryAssumption DEF Apart, NamesOnce
<1>1. PICK g \in Folders : s[m] \in Inside(g)
  BY WithinOf DEF Holds
<1> QED
  BY <1>1, TreeAssumption DEF Above

LEMMA CommandWaits == Command => NothingWaitsTwice'
<1>1. ASSUME NEW s, Apart(s), pick' = s, todo' = s PROVE NothingWaitsTwice'
  BY <1>1 DEF NothingWaitsTwice, Apart
<1>2. \A f : Apart(<<f>>)
  BY DEF Apart
<1> QED
  BY <1>1, <1>2, SelectionApart
     DEF Command, UploadFSSpecVector, UploadFSSpec, Synchronize, Start

LEMMA StepCounts ==
    ASSUME TypeInv, NothingWaitsTwice, [Next]_vars
    PROVE  NothingWaitsTwice' /\ (~Idle => Closer \/ UNCHANGED <<pc, answer, todo, canceled>>)
<1>1. CASE Command
  BY <1>1, CommandWaits DEF Command, UploadFSSpecVector, UploadFSSpec, Synchronize, Start
<1>2. CASE Thread
  BY <1>2, CheckCounts, FolderCounts, FileCounts DEF Thread
<1>3. UNCHANGED <<pick, todo>> => NothingWaitsTwice'
  BY DEF NothingWaitsTwice, Apart
<1>4. pc \notin {"idle", "alert"} => pc \in Calls \cup {"check"}
  BY DEF TypeInv, JobOK, Calls
<1>5. CASE CancelOperation
  <2>1. /\ pc \notin {"idle", "alert"} /\ ~canceled /\ canceled' = TRUE
        /\ UNCHANGED <<pc, pick, todo>> /\ answer' \in {answer, "failed", "canceled"}
    BY <1>5 DEF CancelOperation, job, loop
  <2> QED
    BY <1>3, <1>4, <2>1, AnswerCounts
<1>6. CASE Serve
  <2>1. UNCHANGED <<pc, pick, todo, canceled>>
    BY <1>6 DEF Serve, job, loop
  <2> QED
    BY <1>3, <1>6, <2>1, ServeAnswers, AnswerCounts
<1>7. CASE CallFails
  <2>1. /\ UNCHANGED <<pc, pick, todo, canceled>> /\ pc \notin {"idle", "alert"}
        /\ answer \notin {"failed", "canceled"}
    BY <1>7 DEF CallFails, job, loop
  <2>2. answer' \in {"failed", "canceled"}
    BY <1>7 DEF CallFails, Respond, When
  <2> QED
    BY <1>3, <1>4, <2>1, <2>2, AnswerCounts
<1>8. CASE Others \/ UNCHANGED vars
  BY <1>3, <1>8 DEF Others, OtherDeletes, OtherWrites, OtherLocks, LockEnds, vars, job, loop
<1> QED
  BY <1>1, <1>2, <1>5, <1>6, <1>7, <1>8, NextIs

LEMMA WaitsInit == Init => NothingWaitsTwice
  BY DEF Init, NothingWaitsTwice, Apart

\* No item waits twice to be uploaded, and none that is in a folder that waits
\* (_ProcessFolder puts what it finds in front).
THEOREM EachWaitsOnce == Spec => []NothingWaitsTwice
  BY TypeInit, TypeStep, WaitsInit, StepCounts, PTL DEF Spec

\* The checks are as many as was selected and the walk is bounded by the directory, whatever
\* is there, fails or is canceled on the way (_executeDAVTransaction, _uploadFSSpec).
THEOREM UploadsRunDown == Spec => EachStepCounts
<1> DEFINE Count == ~Idle => Closer \/ UNCHANGED <<pc, answer, todo, canceled>>
<1>1. TypeInv /\ NothingWaitsTwice /\ [Next]_vars => [Count]_vars
  BY StepCounts
<1>2. TypeInv /\ NothingWaitsTwice /\ [Next]_vars => (TypeInv /\ NothingWaitsTwice)'
  BY TypeStep, StepCounts
<1>3. Init => TypeInv /\ NothingWaitsTwice
  BY TypeInit, WaitsInit
<1>4. [][Count]_vars <=> EachStepCounts
  BY PTL DEF EachStepCounts
<1> HIDE DEF Count
<1> QED
  BY <1>1, <1>2, <1>3, <1>4, PTL DEF Spec
=============================================================================
