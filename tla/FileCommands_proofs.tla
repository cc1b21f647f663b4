------------------------- MODULE FileCommands_proofs -------------------------
(***************************************************************************)
(* Theorems about FileCommands, for every collection, any number of threads *)
(* and any bound on commands for the same row.                              *)
(***************************************************************************)
EXTENDS FileCommands, TLAPS

\* A row, and a change of it, are rows.
LEMMA RowTypes ==
    /\ \A n \in Names, s \in Contents \cup {"none"} : [name |-> n, shows |-> s] \in Rows
    /\ \A r \in Rows, n \in Names : [r EXCEPT !.name = n] \in Rows
    /\ NoRow \notin Rows
    /\ \A r \in Rows : r.name \in Names
  BY ConstantsAssumption DEF Rows, NoRow, NoName

\* Taking over a row leaves numbers of rows.
LEMMA RenamedRows ==
    ASSUME rows \in [Rows -> Nat], NEW old, NEW row \in Rows, DAVItemRenamed(old, row)
    PROVE  rows' \in [Rows -> Nat]
<1>1. CASE UNCHANGED rows
  BY <1>1
<1>2. ASSUME NEW r \in Rows, rows[r] > 0, rows' = [rows EXCEPT ![r] = @ - 1, ![row] = @ + 1]
      PROVE  rows' \in [Rows -> Nat]
  <2>1. rows[r] - 1 \in Nat
    BY <1>2
  <2> QED
    BY <1>2, <2>1
<1> QED
  BY <1>1, <1>2 DEF DAVItemRenamed

\* What is known of a job; TypeOK says it of every thread.
JobOK(j) ==
    /\ j \in Jobs
    /\ j.pc # "idle" => j.to \in Names
    /\ j.pc \in RenameCalls \cup DuplicateCalls => j.item # NoRow /\ j.to # j.item.name

JobsOK == job \in [Threads -> Jobs] /\ \A t \in Threads : JobOK(job[t])

\* A thread's step that leaves it with a well-formed job leaves all jobs well formed.
LEMMA JobsStep ==
    ASSUME JobsOK, NEW t \in Threads, NEW j, JobOK(j), job' = [job EXCEPT ![t] = j]
    PROVE  JobsOK'
  BY DEF JobsOK, JobOK

LEMMA NoJobOK == JobOK(NoJob)
  BY DEF JobOK, NoJob, Jobs, RenameCalls, DuplicateCalls

\* To go on with another call of the same command keeps a job well formed, and so does
\* an answer.
LEMMA CallOK ==
    ASSUME JobsOK, NEW t \in Threads, NEW pc, Call(t, pc),
           \/ pc \in {"move", "exists", "moveRez"} /\ job[t].pc \in RenameCalls
           \/ pc \in {"copy"} /\ job[t].pc \in DuplicateCalls
           \/ pc \in {"create", "props"} /\ job[t].pc # "idle"
    PROVE  JobsOK'
<1> DEFINE j == [job[t] EXCEPT !.pc = pc, !.answer = "waiting"]
<1>1. JobOK(job[t])
  BY DEF JobsOK
<1>2. job' = [job EXCEPT ![t] = j]
  BY DEF Call, JobsOK
<1>3. JobOK(j)
  BY <1>1 DEF JobOK, Jobs, RenameCalls, DuplicateCalls, FolderCalls
<1> HIDE DEF j
<1> QED
  BY <1>2, <1>3, JobsStep

LEMMA RespondOK ==
    ASSUME JobsOK, NEW t \in Threads, NEW a \in {"ok", "absent", "failed"}, Respond(t, a)
    PROVE  JobsOK'
<1> DEFINE j == [job[t] EXCEPT !.answer = a]
<1>1. JobOK(job[t])
  BY DEF JobsOK
<1>2. job' = [job EXCEPT ![t] = j]
  BY DEF Respond, JobsOK
<1>3. JobOK(j)
  BY <1>1 DEF JobOK, Jobs
<1> HIDE DEF j
<1> QED
  BY <1>2, <1>3, JobsStep

\* The next name for a copy keeps it well formed.
LEMMA NextNameOK ==
    ASSUME NEW k, JobOK(k), k.pc = "probe", NEW new \in Names, new # k.item.name, NEW m \in Nat
    PROVE  JobOK([k EXCEPT !.to = new, !.tries = m, !.answer = "waiting"])
  BY DEF JobOK, Jobs, RenameCalls, DuplicateCalls

LEMMA FinishOK ==
    ASSUME JobsOK, NEW t \in Threads, Finish(t)
    PROVE  JobsOK'
  BY NoJobOK, JobsStep DEF Finish

\* A new command is well formed.
LEMMA StartOK ==
    ASSUME JobsOK, NEW t \in Threads, NEW row \in Rows \cup {NoRow}, NEW new \in Names,
           NEW pc \in {"start", "probe", "check"},
           pc # "check" => row # NoRow /\ new # row.name,
           Start(t, pc, row, new)
    PROVE  JobsOK'
<1> DEFINE j == [NoJob EXCEPT !.pc = pc, !.item = row, !.to = new]
<1>1. job' = [job EXCEPT ![t] = j]
  BY DEF Start
<1>2. JobOK(j)
  BY DEF JobOK, NoJob, Jobs, RenameCalls, DuplicateCalls, FolderCalls
<1> HIDE DEF j
<1> QED
  BY <1>1, <1>2, JobsStep

\* TypeOK in two parts.
PlainOK ==
    /\ content \in [Names -> Contents \cup {"none"}]
    /\ rez \in [Names -> Contents \cup {"none"}]
    /\ locked \in BOOLEAN
    /\ rows \in [Rows -> Nat]
    /\ trouble \subseteq Troubles

LEMMA TypeParts == (TypeOK <=> PlainOK /\ JobsOK) /\ (TypeOK' <=> PlainOK' /\ JobsOK')
  BY DEF TypeOK, PlainOK, JobsOK, JobOK

\* The initial states are typed.
LEMMA TypeInit == Init => TypeOK
<1> SUFFICES ASSUME Init PROVE PlainOK /\ JobsOK
  BY TypeParts
<1>1. PlainOK
  BY ConstantsAssumption DEF Init, PlainOK
<1>2. NoJob \in Jobs
  BY NoJobOK DEF JobOK
<1>3. JobsOK
  BY <1>2, NoJobOK DEF Init, JobsOK
<1> QED
  BY <1>1, <1>3

\* Every step keeps the types, one case per action.
LEMMA TypeStep == TypeOK /\ [Next]_vars => TypeOK'
<1> SUFFICES ASSUME PlainOK, JobsOK, [Next]_vars PROVE PlainOK' /\ JobsOK'
  BY TypeParts
<1> USE DEF PlainOK
<1>1. ASSUME NEW t \in Threads, NEW new \in Names, NewFolder(t, new) PROVE PlainOK' /\ JobsOK'
  <2>1. Start(t, "check", NoRow, new)
    BY <1>1 DEF NewFolder
  <2>2. JobsOK'
    BY <2>1, StartOK
  <2> QED
    BY <2>1, <2>2 DEF Start, Noted, When, Troubles
<1>2. ASSUME NEW t \in Threads, NEW r \in Rows, DuplicateItem(t, r) PROVE PlainOK' /\ JobsOK'
  <2> DEFINE new == CopyNames[r.name][1]
  <2>1. Start(t, "probe", r, new)
    BY <1>2 DEF DuplicateItem
  <2>2. r.name \in Names /\ r # NoRow
    BY RowTypes
  <2>3. CopyNames[r.name] \in Seq(Names) /\ CopyNames[r.name] # <<>>
    BY <1>2, <2>2, ConstantsAssumption DEF DuplicateItem
  <2>4. 1 \in DOMAIN CopyNames[r.name]
    BY <2>3
  <2>5. new \in Names /\ new # r.name
    BY <2>2, <2>3, <2>4, ConstantsAssumption
  <2>6. JobsOK'
    BY <2>1, <2>2, <2>5, StartOK
  <2> QED
    BY <2>1, <2>6 DEF Start, Noted, When, Troubles
<1>3. ASSUME NEW t \in Threads, NEW r \in Rows, NEW new \in Names, Rename(t, r, new)
      PROVE  PlainOK' /\ JobsOK'
  <2>1. Start(t, "start", r, new) /\ new # r.name
    BY <1>3 DEF Rename
  <2>2. r # NoRow
    BY RowTypes
  <2>3. JobsOK'
    BY <2>1, <2>2, StartOK
  <2> QED
    BY <2>1, <2>3 DEF Start, Noted, When, Troubles
<1>4. ASSUME NEW t \in Threads, Started(t) PROVE PlainOK' /\ JobsOK'
  <2>1. /\ job[t].item \in Rows /\ job[t].to \in Names
        /\ job[t].pc \in RenameCalls
    BY <1>4 DEF Started, JobsOK, JobOK, Jobs, RenameCalls
  <2>2. JobsOK'
    BY <1>4, <2>1, CallOK DEF Started
  <2>3. rows' \in [Rows -> Nat]
    BY <1>4, <2>1, RowTypes, RenamedRows DEF Started
  <2> QED
    BY <1>4, <2>2, <2>3 DEF Started
<1>5. ASSUME NEW t \in Threads, MoveAnswered(t) PROVE PlainOK' /\ JobsOK'
  <2>1. job[t].item \in Rows /\ job[t].pc \in RenameCalls
    BY <1>5 DEF MoveAnswered, Answered, JobsOK, JobOK, Jobs, RenameCalls
  <2>2. JobsOK'
    BY <1>5, <2>1, CallOK, FinishOK DEF MoveAnswered
  <2>3. rows' \in [Rows -> Nat]
    BY <1>5, <2>1, RenamedRows DEF MoveAnswered
  <2> QED
    BY <1>5, <2>2, <2>3 DEF MoveAnswered
<1>6. ASSUME NEW t \in Threads, ExistsAnswered(t) PROVE PlainOK' /\ JobsOK'
  <2>1. job[t].pc \in RenameCalls
    BY <1>6 DEF ExistsAnswered, Answered, RenameCalls
  <2>2. JobsOK'
    BY <1>6, <2>1, CallOK, FinishOK DEF ExistsAnswered
  <2> QED
    BY <1>6, <2>2 DEF ExistsAnswered
<1>7. ASSUME NEW t \in Threads, MoveRezAnswered(t) PROVE PlainOK' /\ JobsOK'
  BY <1>7, FinishOK DEF MoveRezAnswered
<1>8. ASSUME NEW t \in Threads, ProbeAnswered(t) PROVE PlainOK' /\ JobsOK'
  <2> DEFINE names == CopyNames[job[t].item.name]
             next == job[t].tries + 2
             j == [job[t] EXCEPT !.to = names[next], !.tries = @ + 1, !.answer = "waiting"]
  <2>1. job[t].pc = "probe" /\ JobOK(job[t])
    BY <1>8 DEF ProbeAnswered, Answered, JobsOK
  <2>2. job[t].item \in Rows /\ job[t].tries \in Nat
    BY <2>1 DEF JobOK, Jobs, DuplicateCalls
  <2>3. CASE job[t].answer = "ok"
    <3>1. /\ next <= Len(names) /\ job' = [job EXCEPT ![t] = j]
          /\ trouble' \subseteq Troubles
      BY <1>8, <2>3 DEF ProbeAnswered, JobsOK, Noted, When, Troubles
    <3>2. names \in Seq(Names) /\ job[t].item.name \in Names
      BY <2>2, RowTypes, ConstantsAssumption
    <3>3. next \in DOMAIN names
      BY <2>2, <3>1, <3>2
    <3>4. names[next] \in Names /\ names[next] # job[t].item.name
      BY <3>2, <3>3, ConstantsAssumption
    <3>5. JobOK(j)
      <4>1. job[t].tries + 1 \in Nat
        BY <2>2
      <4> HIDE DEF next, names
      <4> QED
        BY <2>1, <3>4, <4>1, NextNameOK
    <3> HIDE DEF j
    <3> QED
      BY <1>8, <3>1, <3>5, JobsStep DEF ProbeAnswered
  <2>4. CASE job[t].answer # "ok"
    <3>1. (Call(t, "copy") \/ Finish(t)) /\ UNCHANGED trouble
      BY <1>8, <2>4 DEF ProbeAnswered
    <3>2. JobsOK'
      BY <2>1, <3>1, CallOK, FinishOK DEF DuplicateCalls
    <3> QED
      BY <1>8, <3>1, <3>2 DEF ProbeAnswered
  <2> QED
    BY <2>3, <2>4
<1>9. ASSUME NEW t \in Threads, CopyAnswered(t) PROVE PlainOK' /\ JobsOK'
  <2>1. JobsOK'
    BY <1>9, CallOK, FinishOK DEF CopyAnswered, Answered
  <2> QED
    BY <1>9, <2>1 DEF CopyAnswered
<1>10. ASSUME NEW t \in Threads, CheckAnswered(t) PROVE PlainOK' /\ JobsOK'
  <2>1. JobsOK'
    BY <1>10, CallOK, FinishOK DEF CheckAnswered, Answered
  <2> QED
    BY <1>10, <2>1 DEF CheckAnswered
<1>11. ASSUME NEW t \in Threads, CreateAnswered(t) PROVE PlainOK' /\ JobsOK'
  <2>1. JobsOK'
    BY <1>11, CallOK, FinishOK DEF CreateAnswered, Answered
  <2> QED
    BY <1>11, <2>1 DEF CreateAnswered
<1>12. ASSUME NEW t \in Threads, PropsAnswered(t) PROVE PlainOK' /\ JobsOK'
  <2> DEFINE r == [name |-> job[t].to, shows |-> job[t].seen]
  <2>1. job[t].to \in Names /\ job[t].seen \in Contents \cup {"none"}
    BY <1>12 DEF PropsAnswered, Answered, JobsOK, JobOK, Jobs
  <2>2. r \in Rows
    BY <2>1, RowTypes
  <2>3. rows' = [rows EXCEPT ![r] = @ + 1]
    BY <1>12 DEF PropsAnswered
  <2>4. rows' \in [Rows -> Nat]
    BY <2>2, <2>3
  <2> QED
    BY <1>12, <2>4, FinishOK DEF PropsAnswered
<1>13. ASSUME NEW t \in Threads, Serve(t) PROVE PlainOK' /\ JobsOK'
  <2>0. JobOK(job[t]) /\ UNCHANGED <<locked, rows>>
    BY <1>13 DEF JobsOK, Serve
  <2>1. CASE job[t].pc = "move" /\ ServeMove(t) /\ UNCHANGED rez
    <3>1. job[t].to \in Names /\ job[t].item.name \in Names
      BY <2>0, <2>1, RowTypes DEF JobOK, Jobs, RenameCalls
    <3>2. content' \in [Names -> Contents \cup {"none"}]
      BY <2>1, <3>1 DEF ServeMove
    <3>3. JobsOK'
      BY <2>1, RespondOK DEF ServeMove
    <3>4. trouble' \subseteq Troubles
      BY <2>1 DEF ServeMove, Noted, When, Troubles
    <3> QED
      BY <2>0, <2>1, <3>2, <3>3, <3>4
  <2>2. CASE job[t].pc = "exists" /\ Exists(t, rez[job[t].item.name] # "none")
    BY <2>0, <2>2, RespondOK DEF Exists
  <2>3. CASE job[t].pc = "moveRez" /\ ServeMoveRez(t) /\ UNCHANGED content
    <3>1. job[t].to \in Names /\ job[t].item.name \in Names
      BY <2>0, <2>3, RowTypes DEF JobOK, Jobs, RenameCalls
    <3>2. rez' \in [Names -> Contents \cup {"none"}]
      BY <2>3, <3>1 DEF ServeMoveRez
    <3>3. JobsOK'
      BY <2>3, RespondOK DEF ServeMoveRez
    <3>4. trouble' \subseteq Troubles
      BY <2>3 DEF ServeMoveRez, Noted, When, Troubles
    <3> QED
      BY <2>0, <2>3, <3>2, <3>3, <3>4
  <2>4. CASE Exists(t, content[job[t].to] # "none")
    BY <2>0, <2>4, RespondOK DEF Exists
  <2>5. CASE job[t].pc = "copy" /\ ServeCopy(t) /\ UNCHANGED rez
    <3>1. job[t].to \in Names /\ job[t].item.name \in Names
      BY <2>0, <2>5, RowTypes DEF JobOK, Jobs, DuplicateCalls
    <3>2. content' \in [Names -> Contents \cup {"none"}]
      BY <2>5, <3>1 DEF ServeCopy
    <3>3. JobsOK'
      BY <2>5, RespondOK DEF ServeCopy
    <3>4. trouble' \subseteq Troubles
      BY <2>5 DEF ServeCopy, Noted, When, Troubles
    <3> QED
      BY <2>0, <2>5, <3>2, <3>3, <3>4
  <2>6. CASE job[t].pc = "create" /\ ServeCreate(t) /\ UNCHANGED rez
    <3>1. content' \in [Names -> Contents \cup {"none"}]
      BY <2>6 DEF ServeCreate, Contents
    <3>2. JobsOK'
      BY <2>6, RespondOK DEF ServeCreate
    <3>3. trouble' \subseteq Troubles
      BY <2>6 DEF ServeCreate, Noted, When, Troubles
    <3> QED
      BY <2>0, <2>6, <3>1, <3>2, <3>3
  <2>7. CASE job[t].pc = "props" /\ ServeProps(t)
    <3> DEFINE j == [job[t] EXCEPT !.answer = "ok", !.seen = content[job[t].to]]
    <3>1. JobOK(j)
      BY <2>0, <2>7 DEF JobOK, Jobs
    <3>2. Respond(t, "failed") \/ job' = [job EXCEPT ![t] = j]
      BY <2>7 DEF ServeProps, JobsOK
    <3> HIDE DEF j
    <3>3. JobsOK'
      BY <3>1, <3>2, RespondOK, JobsStep
    <3> QED
      BY <2>0, <2>7, <3>3 DEF ServeProps
  <2> QED
    BY <1>13, <2>1, <2>2, <2>3, <2>4, <2>5, <2>6, <2>7 DEF Serve
<1>14. ASSUME NEW t \in Threads, Refuse(t) PROVE PlainOK' /\ JobsOK'
  BY <1>14, RespondOK DEF Refuse, Noted, When, Troubles
<1>15. ASSUME NEW t \in Threads, CallFails(t) PROVE PlainOK' /\ JobsOK'
  <2> DEFINE j == [job[t] EXCEPT !.answer = "failed", !.seen = "none"]
  <2>1. JobOK(j)
    BY DEF JobsOK, JobOK, Jobs
  <2>2. job' = [job EXCEPT ![t] = j]
    BY <1>15 DEF CallFails, JobsOK
  <2> HIDE DEF j
  <2>3. JobsOK'
    BY <2>1, <2>2, JobsStep
  <2> QED
    BY <1>15, <2>3 DEF CallFails, Noted, Troubles
<1>16. ASSUME NEW n \in Names, OtherMakes(n) PROVE PlainOK' /\ JobsOK'
  BY <1>16 DEF OtherMakes, Noted, Troubles, JobsOK, Contents
<1>17. ASSUME NEW n \in Names, OtherDeletes(n) PROVE PlainOK' /\ JobsOK'
  BY <1>17 DEF OtherDeletes, Noted, Troubles, JobsOK
<1>18. CASE UNCHANGED vars
  BY <1>18 DEF vars, JobsOK
<1> QED
  BY <1>1, <1>2, <1>3, <1>4, <1>5, <1>6, <1>7, <1>8, <1>9, <1>10, <1>11, <1>12, <1>13, <1>14, <1>15, <1>16, <1>17, <1>18
  DEF Next, Command, Thread

\* The variables keep their types: the window never counts a row below zero, and a command
\* under way has the name it makes, which is not the one it was given for.
THEOREM TypeCorrect == Spec => []TypeOK
  BY TypeInit, TypeStep, PTL DEF Spec
-----------------------------------------------------------------------------
\* Resource forks.  Nothing went wrong that may part a file from its fork.
Quiet == trouble \subseteq {"unnamed", "forkLost"}

\* The file was renamed; and its fork, if it has one, was not yet.
Moved(j) == (j.pc = "move" /\ j.answer = "ok") \/ j.pc \in {"exists", "moveRez"}
Behind(j) ==
    \/ j.pc = "move" /\ j.answer = "ok"
    \/ j.pc = "exists" /\ j.answer # "absent"
    \/ j.pc = "moveRez" /\ j.answer = "waiting"

\* What a thread under way knows: a fork that is left behind belongs to the file at the
\* new name, where there is room for it.
JobIsSafe(j) ==
    /\ Moved(j) => ~locked
    /\ Behind(j) /\ rez[j.item.name] # "none" =>
          rez[j.to] = "none" /\ content[j.to] = rez[j.item.name]
    /\ j.pc = "move" => j.answer \in {"waiting", "ok"}
    /\ j.pc = "exists" => j.answer # "failed" /\ (j.answer = "absent" => rez[j.item.name] = "none")

\* Two renames have no name in common.
Apart(j, k) == {j.item.name, j.to} \cap {k.item.name, k.to} = {}
Renames(j) == j.pc \in RenameCalls

Forks ==
    /\ "forkLost" \notin trouble
    /\ \A t \in Threads : JobIsSafe(job[t])
    /\ \A t, u \in Threads : t # u /\ Renames(job[t]) /\ Renames(job[u]) => Apart(job[t], job[u])
    /\ \A n \in Names : rez[n] # "none" =>
          \/ content[n] = rez[n]
          \/ \E t \in Threads : Behind(job[t]) /\ job[t].item.name = n

ForkInv == Quiet => Forks

\* A step of a thread that leaves the server as it is.
LEMMA LocalStep ==
    ASSUME JobsOK, Forks, NEW t \in Threads, NEW j, job' = [job EXCEPT ![t] = j],
           UNCHANGED <<content, rez, locked>>, "forkLost" \notin trouble',
           JobIsSafe(j),
           Renames(j) => \A u \in Threads \ {t} : Renames(job[u]) => Apart(j, job[u]),
           Behind(job[t]) /\ rez[job[t].item.name] # "none" =>
               Behind(j) /\ j.item.name = job[t].item.name
    PROVE  Forks'
<1>1. /\ job'[t] = j
      /\ \A u \in Threads \ {t} : job'[u] = job[u]
  BY DEF JobsOK
<1>3. ASSUME NEW u \in Threads PROVE JobIsSafe(job[u])'
  <2>1. JobIsSafe(job'[u])
    BY <1>1 DEF Forks
  <2> QED
    BY <2>1 DEF JobIsSafe, Moved, Behind
<1>4. \A u, v \in Threads :
         u # v /\ Renames(job'[u]) /\ Renames(job'[v]) => Apart(job'[u], job'[v])
  BY <1>1 DEF Forks, Apart
<1>5. ASSUME NEW n \in Names, rez'[n] # "none", content'[n] # rez'[n]
      PROVE  \E u \in Threads : Behind(job'[u]) /\ job'[u].item.name = n
  <2>1. PICK u \in Threads : Behind(job[u]) /\ job[u].item.name = n
    BY <1>5 DEF Forks
  <2> QED
    BY <1>1, <1>5, <2>1
<1> QED
  BY <1>3, <1>4, <1>5 DEF Forks, Renames, Apart, Behind

\* A new command begins with a job that has moved nothing; a rename that begins shares
\* no name with one under way, or else that is noted.
LEMMA ForksStart ==
    ASSUME JobsOK, Forks, Quiet', NEW t \in Threads, NEW pc \in {"start", "probe", "check"},
           NEW row \in Rows \cup {NoRow}, NEW new \in Names, pc = "start" => row \in Rows,
           Start(t, pc, row, new)
    PROVE  Forks'
<1> DEFINE j == [NoJob EXCEPT !.pc = pc, !.item = row, !.to = new]
<1>1. job' = [job EXCEPT ![t] = j] /\ UNCHANGED <<content, rez, locked>>
  BY DEF Start
<1>2. j.pc = pc /\ j.item = row /\ j.to = new /\ j.answer = "waiting"
  BY DEF NoJob
<1>3. ~Behind(job[t]) /\ JobIsSafe(j)
  BY <1>2 DEF Start, Idle, Behind, JobIsSafe, Moved
<1>4. \A u \in Threads \ {t} : Touched(u) \cap {row.name, new} = {}
  BY DEF Start, Clash, Quiet, Noted, When
<1>5. ASSUME pc = "start", NEW u \in Threads \ {t}, Renames(job[u]) PROVE Apart(j, job[u])
  <2>1. job[u].item.name \in Names /\ job[u].to \in Names /\ row.name \in Names
    BY <1>5, RowTypes DEF JobsOK, JobOK, Jobs, Renames, RenameCalls
  <2>2. NoName \notin Names
    BY ConstantsAssumption DEF NoName
  <2>3. Touched(u) = {job[u].to, job[u].item.name}
    BY <1>5, <2>1, <2>2 DEF Touched, Idle, Renames, RenameCalls
  <2> QED
    BY <1>2, <1>4, <2>3 DEF Apart
<1>6. Renames(j) => pc = "start"
  BY <1>2 DEF Renames, RenameCalls
<1>7. "forkLost" \notin trouble'
  BY DEF Start, Noted, When, Forks
<1> HIDE DEF j
<1> QED
  BY <1>1, <1>3, <1>5, <1>6, <1>7, LocalStep

\* To take the next step of the same command, or to end it.
LEMMA ForksCall ==
    ASSUME JobsOK, Forks, NEW t \in Threads, NEW pc, Call(t, pc),
           UNCHANGED <<content, rez, locked, trouble>>,
           \/ pc = "move" /\ job[t].pc = "start"
           \/ pc = "exists" /\ job[t].pc = "move" /\ job[t].answer = "ok"
           \/ pc = "moveRez" /\ job[t].pc = "exists" /\ job[t].answer = "ok"
           \/ pc \in {"copy", "create", "props"} /\ ~Renames(job[t])
    PROVE  Forks'
<1> DEFINE j == [job[t] EXCEPT !.pc = pc, !.answer = "waiting"]
<1>1. job' = [job EXCEPT ![t] = j] /\ job[t] \in Jobs
  BY DEF Call, JobsOK
<1>2. j.pc = pc /\ j.item = job[t].item /\ j.to = job[t].to /\ j.answer = "waiting"
  BY <1>1 DEF Jobs
<1>3. JobIsSafe(job[t])
  BY DEF Forks
<1>4. JobIsSafe(j) /\ (Behind(job[t]) => Behind(j))
  BY <1>2, <1>3 DEF JobIsSafe, Behind, Moved, Renames, RenameCalls
<1>5. Renames(j) => Renames(job[t])
  BY <1>2 DEF Renames, RenameCalls
<1>6. Renames(j) => \A u \in Threads \ {t} : Renames(job[u]) => Apart(j, job[u])
  BY <1>2, <1>5 DEF Forks, Apart
<1> HIDE DEF j
<1> QED
  BY <1>1, <1>2, <1>4, <1>6, LocalStep DEF Forks

LEMMA ForksFinish ==
    ASSUME JobsOK, Forks, NEW t \in Threads, Finish(t),
           UNCHANGED <<content, rez, locked, trouble>>,
           Behind(job[t]) => rez[job[t].item.name] = "none"
    PROVE  Forks'
<1>1. JobIsSafe(NoJob) /\ ~Renames(NoJob)
  BY DEF JobIsSafe, NoJob, Behind, Moved, Renames, RenameCalls
<1> QED
  BY <1>1, LocalStep DEF Finish, Forks

\* An answer that changes nothing on the server.
LEMMA ForksAnswer ==
    ASSUME JobsOK, Forks, NEW t \in Threads, NEW a, Respond(t, a), job[t].answer = "waiting",
           UNCHANGED <<content, rez, locked>>, "forkLost" \notin trouble',
           job[t].pc # "move",
           job[t].pc = "exists" => a = IF rez[job[t].item.name] # "none" THEN "ok" ELSE "absent",
           job[t].pc = "moveRez" => rez[job[t].item.name] = "none"
    PROVE  Forks'
<1> DEFINE j == [job[t] EXCEPT !.answer = a]
<1>1. job' = [job EXCEPT ![t] = j] /\ job[t] \in Jobs
  BY DEF Respond, JobsOK
<1>2. j.pc = job[t].pc /\ j.item = job[t].item /\ j.to = job[t].to /\ j.answer = a
  BY <1>1 DEF Jobs
<1>3. JobIsSafe(job[t])
  BY DEF Forks
<1>4. JobIsSafe(j) /\ (Behind(job[t]) /\ rez[job[t].item.name] # "none" => Behind(j))
  BY <1>2, <1>3 DEF JobIsSafe, Behind, Moved
<1>5. Renames(j) => \A u \in Threads \ {t} : Renames(job[u]) => Apart(j, job[u])
  BY <1>2 DEF Forks, Apart, Renames
<1> HIDE DEF j
<1> QED
  BY <1>1, <1>2, <1>4, <1>5, LocalStep

\* Something is put where nothing was: no fork was waiting to get there.
LEMMA ForksAdd ==
    ASSUME JobsOK, PlainOK, Forks, NEW t \in Threads, Respond(t, "ok"), ~Renames(job[t]),
           NEW what \in Contents, content[job[t].to] = "none", job[t].to \in Names,
           content' = [content EXCEPT ![job[t].to] = what],
           UNCHANGED <<rez, locked>>, "forkLost" \notin trouble'
    PROVE  Forks'
<1> DEFINE dest == job[t].to
<1>1. /\ job'[t].pc = job[t].pc
      /\ \A u \in Threads \ {t} : job'[u] = job[u]
  BY DEF Respond, JobsOK, Jobs
<1>2. \A n \in Names : n # dest => content'[n] = content[n]
  BY DEF PlainOK
<1>3. ASSUME NEW u \in Threads PROVE JobIsSafe(job[u])'
  <2>1. CASE u = t
    BY <1>1, <2>1 DEF JobIsSafe, Moved, Behind, Renames, RenameCalls
  <2>2. CASE u # t
    <3>1. job'[u] = job[u] /\ JobIsSafe(job[u])
      BY <1>1, <2>2 DEF Forks
    <3>2. Behind(job[u]) => job[u].to \in Names
      BY DEF JobsOK, JobOK, Behind
    <3>3. Behind(job[u]) /\ rez[job[u].item.name] # "none" => content'[job[u].to] = content[job[u].to]
      BY <1>2, <3>1, <3>2 DEF JobIsSafe
    <3> QED
      BY <3>1, <3>3 DEF JobIsSafe, Moved, Behind
  <2> QED
    BY <2>1, <2>2
<1>4. \A u, v \in Threads :
         u # v /\ Renames(job'[u]) /\ Renames(job'[v]) => Apart(job'[u], job'[v])
  BY <1>1 DEF Forks, Renames
<1>5. ASSUME NEW n \in Names, rez'[n] # "none", content'[n] # rez'[n]
      PROVE  \E u \in Threads : Behind(job'[u]) /\ job'[u].item.name = n
  <2>1. content[n] # rez[n]
    BY <1>2, <1>5
  <2>2. PICK u \in Threads : Behind(job[u]) /\ job[u].item.name = n
    BY <1>5, <2>1 DEF Forks
  <2>3. u # t
    BY <2>2 DEF Behind, Renames, RenameCalls
  <2> QED
    BY <1>1, <2>2, <2>3
<1> QED
  BY <1>3, <1>4, <1>5 DEF Forks, Renames, Apart, Behind

\* A file is moved: its fork is left behind, and there is no other at the new name.
LEMMA ForksMove ==
    ASSUME JobsOK, PlainOK, Forks, NEW t \in Threads, job[t].pc = "move",
           job[t].answer = "waiting", Respond(t, "ok"), ~locked,
           content[job[t].item.name] # "none", content[job[t].to] = "none",
           content' = [content EXCEPT ![job[t].to] = content[job[t].item.name],
                                      ![job[t].item.name] = "none"],
           UNCHANGED <<rez, locked, trouble>>
    PROVE  Forks'
<1> DEFINE src == job[t].item.name
           dest == job[t].to
<1>0. src \in Names /\ dest \in Names /\ src # dest /\ Renames(job[t])
  BY RowTypes DEF JobsOK, JobOK, Jobs, RenameCalls, Renames
<1>1. /\ job'[t].pc = "move" /\ job'[t].answer = "ok"
      /\ job'[t].item = job[t].item /\ job'[t].to = job[t].to
      /\ \A u \in Threads \ {t} : job'[u] = job[u]
  BY DEF Respond, JobsOK, Jobs
<1>2. /\ content'[dest] = content[src] /\ content'[src] = "none"
      /\ \A n \in Names : n # dest /\ n # src => content'[n] = content[n]
  BY <1>0 DEF PlainOK
<1>3. ASSUME NEW u \in Threads \ {t}, Behind(job[u])
      PROVE  /\ job[u].item.name \notin {src, dest} /\ job[u].to \notin {src, dest}
             /\ job[u].to \in Names
  <2>1. Renames(job[u]) /\ job[u].pc # "idle"
    BY <1>3 DEF Behind, Renames, RenameCalls
  <2> QED
    BY <1>0, <2>1 DEF Forks, Apart, JobsOK, JobOK
<1>4. ~Behind(job[t])
  BY DEF Behind
<1>5. rez[dest] = "none"
  BY <1>0, <1>3, <1>4 DEF Forks
<1>6. rez[src] # "none" => content[src] = rez[src]
  BY <1>0, <1>3, <1>4 DEF Forks
<1>7. ASSUME NEW u \in Threads PROVE JobIsSafe(job[u])'
  <2>1. CASE u = t
    BY <1>1, <1>2, <1>5, <1>6, <2>1 DEF JobIsSafe, Moved, Behind
  <2>2. CASE u # t
    <3>1. job'[u] = job[u] /\ JobIsSafe(job[u])
      BY <1>1, <2>2 DEF Forks
    <3>2. Behind(job[u]) => content'[job[u].to] = content[job[u].to]
      BY <1>2, <1>3, <2>2
    <3> QED
      BY <3>1, <3>2 DEF JobIsSafe, Moved, Behind
  <2> QED
    BY <2>1, <2>2
<1>8. \A u, v \in Threads :
         u # v /\ Renames(job'[u]) /\ Renames(job'[v]) => Apart(job'[u], job'[v])
  BY <1>0, <1>1 DEF Forks, Apart
<1>9. ASSUME NEW n \in Names, rez'[n] # "none", content'[n] # rez'[n]
      PROVE  \E u \in Threads : Behind(job'[u]) /\ job'[u].item.name = n
  <2>1. CASE n = src
    BY <1>1, <2>1 DEF Behind
  <2>2. CASE n # src
    <3>1. n # dest /\ content[n] # rez[n]
      BY <1>2, <1>5, <1>9, <2>2
    <3>2. PICK u \in Threads : Behind(job[u]) /\ job[u].item.name = n
      BY <1>9, <3>1 DEF Forks
    <3> QED
      BY <1>1, <1>4, <3>2
  <2> QED
    BY <2>1, <2>2
<1> QED
  BY <1>7, <1>8, <1>9 DEF Forks, Renames, Apart, Behind

\* The fork follows, to where nothing is in its way.
LEMMA ForksMoveRez ==
    ASSUME JobsOK, PlainOK, Forks, NEW t \in Threads, job[t].pc = "moveRez",
           job[t].answer = "waiting", Respond(t, "ok"), rez[job[t].item.name] # "none",
           rez' = [rez EXCEPT ![job[t].to] = rez[job[t].item.name],
                              ![job[t].item.name] = "none"],
           UNCHANGED <<content, locked>>, "forkLost" \notin trouble'
    PROVE  Forks'
<1> DEFINE src == job[t].item.name
           dest == job[t].to
<1>0. src \in Names /\ dest \in Names /\ src # dest /\ Renames(job[t])
  BY RowTypes DEF JobsOK, JobOK, Jobs, RenameCalls, Renames
<1>1. /\ job'[t].pc = "moveRez" /\ job'[t].answer = "ok"
      /\ job'[t].item = job[t].item /\ job'[t].to = job[t].to
      /\ \A u \in Threads \ {t} : job'[u] = job[u]
  BY DEF Respond, JobsOK, Jobs
<1>2. /\ rez'[dest] = rez[src] /\ rez'[src] = "none"
      /\ \A n \in Names : n # dest /\ n # src => rez'[n] = rez[n]
  BY <1>0 DEF PlainOK
<1>3. ASSUME NEW u \in Threads \ {t}, Renames(job[u])
      PROVE  /\ job[u].item.name \in Names \ {src, dest}
             /\ job[u].to \in Names \ {src, dest}
  <2>1. job[u].item.name \in Names /\ job[u].to \in Names
    BY <1>3, RowTypes DEF JobsOK, JobOK, Jobs, RenameCalls, Renames
  <2> QED
    BY <1>0, <1>3, <2>1 DEF Forks, Apart
<1>4. /\ ~locked /\ content[dest] = rez[src]
  BY DEF Forks, JobIsSafe, Moved, Behind
<1>5. ASSUME NEW u \in Threads PROVE JobIsSafe(job[u])'
  <2>1. CASE u = t
    BY <1>1, <1>4, <2>1 DEF JobIsSafe, Moved, Behind
  <2>2. CASE u # t
    <3>1. job'[u] = job[u] /\ JobIsSafe(job[u])
      BY <1>1, <2>2 DEF Forks
    <3>2. Renames(job[u]) => /\ rez'[job[u].item.name] = rez[job[u].item.name]
                             /\ rez'[job[u].to] = rez[job[u].to]
      BY <1>2, <1>3, <2>2
    <3> QED
      BY <3>1, <3>2 DEF JobIsSafe, Moved, Behind, Renames, RenameCalls
  <2> QED
    BY <2>1, <2>2
<1>6. \A u, v \in Threads :
         u # v /\ Renames(job'[u]) /\ Renames(job'[v]) => Apart(job'[u], job'[v])
  BY <1>0, <1>1 DEF Forks, Apart
<1>7. ASSUME NEW n \in Names, rez'[n] # "none", content'[n] # rez'[n]
      PROVE  \E u \in Threads : Behind(job'[u]) /\ job'[u].item.name = n
  <2>1. n # dest /\ n # src
    BY <1>2, <1>4, <1>7
  <2>2. PICK u \in Threads : Behind(job[u]) /\ job[u].item.name = n
    BY <1>2, <1>7, <2>1 DEF Forks
  <2> QED
    BY <1>1, <2>1, <2>2
<1> QED
  BY <1>5, <1>6, <1>7 DEF Forks, Renames, Apart, Behind

\* Every step keeps the forks together, unless it is one that is noted.
LEMMA ForkInvStep == Encoding /\ TypeOK /\ ForkInv /\ [Next]_vars => ForkInv'
<1> SUFFICES ASSUME Encoding, PlainOK, JobsOK, ForkInv, [Next]_vars, Quiet' PROVE Forks'
  BY TypeParts DEF ForkInv
<1>0. trouble \subseteq trouble'
  BY ZenonT(60) DEF Next, Command, NewFolder, DuplicateItem, Rename, Start, Thread, Started, MoveAnswered,
         ExistsAnswered, MoveRezAnswered, ProbeAnswered, CopyAnswered, CheckAnswered,
         CreateAnswered, PropsAnswered, Serve, ServeMove, Exists, ServeMoveRez, ServeCopy,
         ServeCreate, ServeProps, Refuse, CallFails, OtherMakes, OtherDeletes, Noted, vars
<1>forks. Forks
  BY <1>0 DEF ForkInv, Quiet
<1>1. ASSUME NEW t \in Threads, Command(t) PROVE Forks'
  <2>1. ASSUME NEW new \in Names, NewFolder(t, new) PROVE Forks'
    BY <1>forks, <2>1, ForksStart DEF NewFolder
  <2>2. ASSUME NEW r \in Rows, DuplicateItem(t, r) PROVE Forks'
    <3> DEFINE new == CopyNames[r.name][1]
    <3>1. CopyNames[r.name] \in Seq(Names) /\ CopyNames[r.name] # <<>>
      BY <2>2, RowTypes, ConstantsAssumption DEF DuplicateItem
    <3>2. new \in Names
      BY <3>1
    <3>3. Start(t, "probe", r, new)
      BY <2>2 DEF DuplicateItem
    <3> HIDE DEF new
    <3> QED
      BY <1>forks, <3>2, <3>3, ForksStart
  <2>3. ASSUME NEW r \in Rows, NEW new \in Names, Rename(t, r, new) PROVE Forks'
    BY <1>forks, <2>3, ForksStart DEF Rename
  <2> QED
    BY <1>1, <2>1, <2>2, <2>3 DEF Command
<1>2. ASSUME NEW t \in Threads, Thread(t) PROVE Forks'
  <2> USE <1>forks
  <2>0. JobIsSafe(job[t])
    BY DEF Forks
  <2>1. CASE Started(t)
    BY <2>1, ForksCall DEF Started
  <2>2. CASE MoveAnswered(t)
    <3>1. job[t].answer = "ok" /\ job[t].pc = "move"
      BY <2>0, <2>2 DEF MoveAnswered, Answered, JobIsSafe
    <3> QED
      BY <2>2, <3>1, ForksCall DEF MoveAnswered
  <2>3. CASE ExistsAnswered(t)
    <3>1. job[t].answer # "ok" => rez[job[t].item.name] = "none"
      BY <2>0, <2>3 DEF ExistsAnswered, Answered, JobIsSafe, JobsOK, JobOK, Jobs
    <3> QED
      BY <2>3, <3>1, ForksCall, ForksFinish DEF ExistsAnswered, Answered
  <2>4. CASE MoveRezAnswered(t)
    BY <2>4, ForksFinish DEF MoveRezAnswered, Answered, Behind
  <2>5. CASE ProbeAnswered(t)
    <3> DEFINE j == [job[t] EXCEPT !.to = CopyNames[job[t].item.name][job[t].tries + 2],
                                   !.tries = @ + 1, !.answer = "waiting"]
    <3>1. ~Behind(job[t]) /\ ~Renames(job[t])
      BY <2>5 DEF ProbeAnswered, Answered, Behind, Renames, RenameCalls
    <3>2. \/ (Call(t, "copy") \/ Finish(t)) /\ UNCHANGED trouble
          \/ job' = [job EXCEPT ![t] = j] /\ "forkLost" \notin trouble'
      BY <2>5 DEF ProbeAnswered, JobsOK, Noted, When, Forks
    <3>3. j.pc = "probe"
      BY <2>5 DEF ProbeAnswered, Answered, JobsOK, Jobs
    <3> HIDE DEF j
    <3>4. JobIsSafe(j) /\ ~Renames(j)
      BY <3>3 DEF JobIsSafe, Moved, Behind, Renames, RenameCalls
    <3>5. UNCHANGED <<content, rez, locked>>
      BY <2>5 DEF ProbeAnswered
    <3>6. CASE (Call(t, "copy") \/ Finish(t)) /\ UNCHANGED trouble
      BY <3>1, <3>5, <3>6, ForksCall, ForksFinish
    <3>7. CASE job' = [job EXCEPT ![t] = j] /\ "forkLost" \notin trouble'
      BY <3>1, <3>4, <3>5, <3>7, LocalStep DEF Forks
    <3> QED
      BY <3>2, <3>6, <3>7
  <2>6. CASE CopyAnswered(t)
    BY <2>6, ForksCall, ForksFinish DEF CopyAnswered, Answered, Behind, Renames, RenameCalls
  <2>7. CASE CheckAnswered(t)
    BY <2>7, ForksCall, ForksFinish DEF CheckAnswered, Answered, Behind, Renames, RenameCalls
  <2>8. CASE CreateAnswered(t)
    BY <2>8, ForksCall, ForksFinish DEF CreateAnswered, Answered, Behind, Renames, RenameCalls
  <2>9. CASE PropsAnswered(t)
    BY <2>9, ForksFinish DEF PropsAnswered, Answered, Behind
  <2> QED
    BY <1>2, <2>1, <2>2, <2>3, <2>4, <2>5, <2>6, <2>7, <2>8, <2>9 DEF Thread
<1>3. ASSUME NEW t \in Threads, Serve(t) PROVE Forks'
  <2> USE <1>forks
  <2>0. /\ JobIsSafe(job[t]) /\ "forkLost" \notin trouble
        /\ UNCHANGED <<locked, rows>> /\ job[t].answer = "waiting"
    BY <1>3 DEF Forks, Serve
  <2>1. CASE job[t].pc = "move" /\ ServeMove(t) /\ UNCHANGED rez
    BY <2>0, <2>1, ForksMove DEF ServeMove, Overwrite, Noted, When, Quiet
  <2>2. CASE job[t].pc = "exists" /\ Exists(t, rez[job[t].item.name] # "none")
    BY <2>0, <2>2, ForksAnswer DEF Exists
  <2>3. CASE job[t].pc = "moveRez" /\ ServeMoveRez(t) /\ UNCHANGED content
    <3>1. ~locked /\ (rez[job[t].item.name] # "none" => rez[job[t].to] = "none")
      BY <2>0, <2>3 DEF JobIsSafe, Moved, Behind
    <3>2. "forkLost" \notin trouble'
      BY <2>0, <2>3, <3>1 DEF ServeMoveRez, Noted, When
    <3> QED
      BY <2>0, <2>3, <3>1, <3>2, ForksAnswer, ForksMoveRez DEF ServeMoveRez
  <2>4. CASE job[t].pc \in {"probe", "check"} /\ Exists(t, content[job[t].to] # "none")
    BY <2>0, <2>4, ForksAnswer DEF Exists
  <2>5. CASE job[t].pc = "copy" /\ ServeCopy(t) /\ UNCHANGED rez
    <3>3. "forkLost" \notin trouble'
      BY <2>0, <2>5 DEF ServeCopy, Noted, When
    <3>1. job[t].to \in Names /\ job[t].item.name \in Names /\ ~Renames(job[t])
      BY <2>5, RowTypes DEF JobsOK, JobOK, Jobs, DuplicateCalls, Renames, RenameCalls
    <3>2. content[job[t].item.name] # "none" => content[job[t].item.name] \in Contents
      BY <3>1 DEF PlainOK
    <3> QED
      BY <2>0, <2>5, <3>1, <3>2, <3>3, ForksAnswer, ForksAdd DEF ServeCopy, Overwrite
  <2>6. CASE job[t].pc = "create" /\ ServeCreate(t) /\ UNCHANGED rez
    <3>1. job[t].to \in Names /\ ~Renames(job[t]) /\ "folder" \in Contents
      BY <2>6 DEF JobsOK, JobOK, Renames, RenameCalls, Contents
    <3>2. "forkLost" \notin trouble'
      BY <2>0, <2>6 DEF ServeCreate, Noted, When
    <3> QED
      BY <2>0, <2>6, <3>1, <3>2, ForksAnswer, ForksAdd DEF ServeCreate
  <2>7. CASE job[t].pc = "props" /\ ServeProps(t)
    <3> DEFINE j == [job[t] EXCEPT !.answer = "ok", !.seen = content[job[t].to]]
    <3>1. Respond(t, "failed") \/ job' = [job EXCEPT ![t] = j]
      BY <2>7 DEF ServeProps, JobsOK
    <3>2. j.pc = "props"
      BY <2>7 DEF JobsOK, Jobs
    <3> HIDE DEF j
    <3>3. JobIsSafe(j) /\ ~Renames(j) /\ ~Behind(job[t])
      BY <2>7, <3>2 DEF JobIsSafe, Moved, Behind, Renames, RenameCalls
    <3>4. UNCHANGED <<content, rez, locked, trouble>>
      BY <2>0, <2>7 DEF ServeProps
    <3>5. CASE Respond(t, "failed")
      BY <2>0, <2>7, <3>4, <3>5, ForksAnswer
    <3>6. CASE job' = [job EXCEPT ![t] = j]
      BY <2>0, <3>3, <3>4, <3>6, LocalStep
    <3> QED
      BY <3>1, <3>5, <3>6
  <2> QED
    BY <1>3, <2>1, <2>2, <2>3, <2>4, <2>5, <2>6, <2>7 DEF Serve
<1>4. \A t \in Threads : ~Refuse(t) /\ ~CallFails(t)
  BY DEF Refuse, CallFails, Noted, Quiet
<1>5. \A n \in Names : ~OtherMakes(n) /\ ~OtherDeletes(n)
  BY DEF OtherMakes, OtherDeletes, Noted, Quiet
<1>6. CASE UNCHANGED vars
  BY <1>forks, <1>6 DEF vars, Forks, JobIsSafe, Moved, Behind, Renames, Apart
<1> QED
  BY <1>1, <1>2, <1>3, <1>4, <1>5, <1>6 DEF Next

\* Resource forks stay with their files through any number of renames, copies and new
\* collections at a time, in any order of their requests (CRenameResourceThread moves the
\* fork with requests of its own, after the file).
THEOREM ForksFollow == Spec => []ForksStayWithTheirFiles
<1>1. CASE ~Encoding
  <2>1. ForksStayWithTheirFiles
    BY <1>1 DEF ForksStayWithTheirFiles
  <2> QED
    BY <2>1, PTL
<1>2. CASE Encoding
  <2>1. Init => ForkInv
    BY DEF Init, ForkInv, Forks, NoJob, JobIsSafe, Moved, Behind, Renames, RenameCalls
  <2>2. TypeOK /\ ForkInv => ForksStayWithTheirFiles
    BY DEF TypeOK, ForkInv, Quiet, Forks, ForksStayWithTheirFiles, AllIdle, Idle, Behind
  <2> QED
    BY <1>2, TypeInit, TypeStep, ForkInvStep, <2>1, <2>2, PTL DEF Spec
<1> QED
  BY <1>1, <1>2
-----------------------------------------------------------------------------
\* The rows of the window.  Nothing went wrong that may leave one that is not true.
Calm == trouble \subseteq {"refused", "unnamed"}

\* The window shows a rename that is not done; or does not show yet what was made.
Ahead(j) == j.pc = "move" /\ j.answer # "ok"
Unshown(j) == (j.pc \in {"copy", "create"} /\ j.answer = "ok") \/ j.pc = "props"

\* The names a job is about, and the row a rename makes of its own.
NamesOf(j) == IF j.pc = "idle" THEN {} ELSE {j.to, j.item.name} \ {NoName}
Renamed(j) == [j.item EXCEPT !.name = j.to]

\* How many rows there are for something one of the commands is about, and how many for
\* all the rest.
OwnCount(r, j) ==
    IF Ahead(j) /\ r = Renamed(j) THEN 1
    ELSE IF Shown(r) /\ ~(Ahead(j) /\ r = j.item) /\ ~(Unshown(j) /\ r.name = j.to) THEN 1
    ELSE 0
Count(r) == IF Shown(r) THEN 1 ELSE 0

\* What a thread under way knows of what it made, or will rename.
JobIsTrue(j) ==
    /\ j.pc = "start" \/ Ahead(j) => Shown(j.item) /\ content[j.to] = "none"
    /\ Unshown(j) => content[j.to] # "none"
    /\ j.pc = "props" /\ j.answer # "waiting" => j.seen = content[j.to]

Window ==
    /\ \A t \in Threads : JobIsTrue(job[t])
    /\ \A t, u \in Threads : t # u => NamesOf(job[t]) \cap NamesOf(job[u]) = {}
    /\ \A t \in Threads, r \in Rows : r.name \in NamesOf(job[t]) => rows[r] = OwnCount(r, job[t])
    /\ \A r \in Rows : (\A t \in Threads : r.name \notin NamesOf(job[t])) => rows[r] = Count(r)

RowInv == Calm => Window

\* The names of a job are names, those it reads among them.
LEMMA JobNames ==
    ASSUME NEW j, JobOK(j)
    PROVE  /\ NamesOf(j) \subseteq Names
           /\ j.pc # "idle" => j.to \in NamesOf(j)
           /\ j.pc \in RenameCalls \cup DuplicateCalls =>
                 j.item \in Rows /\ j.item.name \in NamesOf(j) /\ j.item.name # j.to
<1>1. NoName \notin Names
  BY ConstantsAssumption DEF NoName
<1>2. j.item \in Rows \cup {NoRow}
  BY DEF JobOK, Jobs
<1>3. j.item \in Rows => j.item.name \in Names
  BY RowTypes
<1>4. NoRow.name = NoName
  BY DEF NoRow
<1>5. j.pc # "idle" => j.to \in Names
  BY DEF JobOK
<1>6. j.pc \in RenameCalls \cup DuplicateCalls => j.item \in Rows /\ j.item.name # j.to
  BY <1>2 DEF JobOK
<1>7. "idle" \notin RenameCalls \cup DuplicateCalls
  BY DEF RenameCalls, DuplicateCalls
<1> QED
  BY <1>1, <1>2, <1>3, <1>4, <1>5, <1>6, <1>7 DEF NamesOf

\* A step of one thread: it disturbs only names of its own.
LEMMA WindowStep ==
    ASSUME JobsOK, Window, NEW t \in Threads, NEW j, JobOK(j), job' = [job EXCEPT ![t] = j],
           \A u \in Threads \ {t} : NamesOf(j) \cap NamesOf(job[u]) = {},
           \A n \in Names : n \notin NamesOf(job[t]) \cup NamesOf(j) => content'[n] = content[n],
           \A r \in Rows : r.name \notin NamesOf(job[t]) \cup NamesOf(j) => rows'[r] = rows[r],
           JobIsTrue(j)',
           \A r \in Rows : r.name \in NamesOf(j) => rows'[r] = OwnCount(r, j)',
           \A r \in Rows : r.name \in NamesOf(job[t]) \ NamesOf(j) => rows'[r] = Count(r)'
    PROVE  Window'
<1>1. /\ job'[t] = j
      /\ \A u \in Threads \ {t} : job'[u] = job[u]
  BY DEF JobsOK
<1>2. ASSUME NEW u \in Threads \ {t}, NEW n \in NamesOf(job[u])
      PROVE  n \in Names /\ content'[n] = content[n] /\ n \notin NamesOf(job[t]) \cup NamesOf(j)
  <2>1. n \in Names
    BY <1>2, JobNames DEF JobsOK
  <2>2. n \notin NamesOf(job[t]) \cup NamesOf(j)
    BY <1>2 DEF Window
  <2> QED
    BY <2>1, <2>2
<1>3. ASSUME NEW u \in Threads PROVE JobIsTrue(job[u])'
  <2>1. CASE u = t
    BY <1>1, <2>1 DEF JobIsTrue, Ahead, Unshown, Shown
  <2>2. CASE u # t
    <3>1. JobIsTrue(job[u]) /\ JobOK(job[u]) /\ job'[u] = job[u]
      BY <1>1, <2>2 DEF Window, JobsOK
    <3>2. job[u].pc # "idle" => content'[job[u].to] = content[job[u].to]
      BY <1>2, <2>2, <3>1, JobNames
    <3>3. job[u].pc \in RenameCalls => content'[job[u].item.name] = content[job[u].item.name]
      BY <1>2, <2>2, <3>1, JobNames
    <3> QED
      BY <3>1, <3>2, <3>3 DEF JobIsTrue, Ahead, Unshown, Shown, RenameCalls
  <2> QED
    BY <2>1, <2>2
<1>4. \A u, v \in Threads : u # v => NamesOf(job'[u]) \cap NamesOf(job'[v]) = {}
  BY <1>1 DEF Window
<1>5. ASSUME NEW u \in Threads, NEW r \in Rows, r.name \in NamesOf(job'[u])
      PROVE  rows'[r] = OwnCount(r, job[u])'
  <2>1. CASE u = t
    BY <1>1, <1>5, <2>1 DEF OwnCount, Ahead, Unshown, Shown, Renamed
  <2>2. CASE u # t
    <3>1. rows[r] = OwnCount(r, job[u]) /\ job'[u] = job[u]
      BY <1>1, <1>5, <2>2 DEF Window
    <3>2. rows'[r] = rows[r] /\ content'[r.name] = content[r.name]
      BY <1>1, <1>2, <1>5, <2>2
    <3> QED
      BY <3>1, <3>2 DEF OwnCount, Ahead, Unshown, Shown, Renamed
  <2> QED
    BY <2>1, <2>2
<1>6. ASSUME NEW r \in Rows, \A u \in Threads : r.name \notin NamesOf(job'[u])
      PROVE  rows'[r] = Count(r)'
  <2>1. r.name \notin NamesOf(j)
    BY <1>1, <1>6
  <2>2. CASE r.name \in NamesOf(job[t])
    BY <2>1, <2>2
  <2>3. CASE r.name \notin NamesOf(job[t])
    <3>1. rows[r] = Count(r)
      BY <1>1, <1>6, <2>3 DEF Window
    <3>2. content'[r.name] = content[r.name] /\ rows'[r] = rows[r]
      BY <2>1, <2>3, RowTypes
    <3> QED
      BY <3>1, <3>2 DEF Count, Shown
  <2> QED
    BY <2>2, <2>3
<1> QED
  BY <1>3, <1>4, <1>5, <1>6 DEF Window, NamesOf

\* A step that changes neither the server nor the window, for the same names.
LEMMA WindowRests ==
    ASSUME JobsOK, Window, NEW t \in Threads, NEW j, JobOK(j), job' = [job EXCEPT ![t] = j],
           UNCHANGED <<content, rows>>,
           \/ /\ j.pc # "idle" /\ job[t].pc # "idle"
              /\ j.to = job[t].to /\ j.item = job[t].item
              /\ Ahead(j) = Ahead(job[t]) /\ Unshown(j) = Unshown(job[t])
              /\ JobIsTrue(j)
           \/ j = NoJob /\ ~Ahead(job[t]) /\ ~Unshown(job[t])
    PROVE  Window'
<1>1. CASE j = NoJob /\ ~Ahead(job[t]) /\ ~Unshown(job[t])
  <2>1. NamesOf(j) = {} /\ JobIsTrue(j)'
    BY <1>1 DEF NoJob, NamesOf, JobIsTrue, Ahead, Unshown
  <2>2. \A r \in Rows : r.name \in NamesOf(job[t]) => rows'[r] = Count(r)'
    BY <1>1 DEF Window, OwnCount, Count, Shown
  <2> QED
    BY <2>1, <2>2, WindowStep
<1>2. CASE /\ j.pc # "idle" /\ job[t].pc # "idle"
           /\ j.to = job[t].to /\ j.item = job[t].item
           /\ Ahead(j) = Ahead(job[t]) /\ Unshown(j) = Unshown(job[t])
           /\ JobIsTrue(j)
  <2>1. NamesOf(j) = NamesOf(job[t])
    BY <1>2 DEF NamesOf
  <2>2. JobIsTrue(j)'
    BY <1>2 DEF JobIsTrue, Ahead, Unshown, Shown
  <2>3. \A r \in Rows : r.name \in NamesOf(j) => rows'[r] = OwnCount(r, j)'
    BY <1>2, <2>1 DEF Window, OwnCount, Ahead, Unshown, Shown, Renamed
  <2>4. \A u \in Threads \ {t} : NamesOf(j) \cap NamesOf(job[u]) = {}
    BY <2>1 DEF Window
  <2>5. /\ \A n \in Names : content'[n] = content[n]
        /\ \A r \in Rows : rows'[r] = rows[r]
    OBVIOUS
  <2>6. NamesOf(job[t]) \ NamesOf(j) = {}
    BY <2>1
  <2> QED
    BY <2>2, <2>3, <2>4, <2>5, <2>6, WindowStep
<1> QED
  BY <1>1, <1>2

LEMMA TouchedNames == \A t \in Threads : Touched(t) = NamesOf(job[t])
  BY DEF Touched, NamesOf, Idle

\* A command is given for a row that is true, and no other command is about its names.
LEMMA WindowStart ==
    ASSUME JobsOK, Window, Calm', NEW t \in Threads, NEW pc \in {"start", "probe", "check"},
           NEW row \in Rows \cup {NoRow}, NEW new \in Names,
           row = NoRow => pc = "check",
           row # NoRow => rows[row] > 0 /\ new # row.name,
           Start(t, pc, row, new)
    PROVE  Window'
<1> DEFINE j == [NoJob EXCEPT !.pc = pc, !.item = row, !.to = new]
<1>1. job' = [job EXCEPT ![t] = j] /\ UNCHANGED <<content, rows>> /\ job[t].pc = "idle"
  BY DEF Start, Idle
<1>2. /\ j.pc = pc /\ j.item = row /\ j.to = new /\ j.answer = "waiting"
      /\ JobOK(j)
  BY DEF NoJob, JobOK, Jobs, RenameCalls, DuplicateCalls, FolderCalls
<1> HIDE DEF j
<1>3. NamesOf(job[t]) = {} /\ NamesOf(j) \subseteq {row.name, new} /\ NamesOf(j) \subseteq Names
  BY <1>1, <1>2, JobNames DEF NamesOf
<1>4. \A u \in Threads \ {t} : NamesOf(job[u]) \cap {row.name, new} = {}
  BY TouchedNames DEF Start, Clash, Calm, Noted, When
<1>5. \A r \in Rows : r.name \in {row.name, new} => rows[r] = Count(r)
  BY <1>3, <1>4 DEF Window
<1>6. row # NoRow => Shown(row)
  BY <1>5 DEF Count
<1>7. pc = "start" => content[new] = "none"
  BY DEF Start, Calm, Noted, When
<1>8. ~Ahead(j) /\ ~Unshown(j) /\ j.pc # "props"
  BY <1>2 DEF Ahead, Unshown
<1>9. JobIsTrue(j)'
  BY <1>1, <1>2, <1>6, <1>7, <1>8 DEF JobIsTrue, Ahead, Unshown, Shown
<1>10. \A r \in Rows : r.name \in NamesOf(j) => rows'[r] = OwnCount(r, j)'
  BY <1>1, <1>3, <1>5, <1>8 DEF OwnCount, Count, Shown, Ahead, Unshown
<1> QED
  BY <1>1, <1>2, <1>3, <1>4, <1>9, <1>10, WindowStep

\* The first row with a name, when there is one that counts, is that one.
LEMMA RowIsTaken ==
    ASSUME NEW old, NEW row \in Rows, NEW item \in Rows, item.name = old,
           rows \in [Rows -> Nat], rows[item] = 1,
           \A r \in Rows : r.name = old /\ rows[r] > 0 => r = item,
           row.name # old, DAVItemRenamed(old, row)
    PROVE  /\ rows'[item] = 0 /\ rows'[row] = rows[row] + 1
           /\ \A r \in Rows : r # item /\ r # row => rows'[r] = rows[r]
<1>1. {r \in Rows : r.name = old /\ rows[r] > 0} = {item}
  OBVIOUS
<1>2. rows' = [rows EXCEPT ![item] = @ - 1, ![row] = @ + 1]
  BY <1>1 DEF DAVItemRenamed
<1>3. item # row
  OBVIOUS
<1> QED
  BY <1>2, <1>3

\* A row renamed is the row of that name that shows the same.
LEMMA RenamedRow ==
    ASSUME NEW j, JobOK(j), j.pc \in RenameCalls
    PROVE  /\ Renamed(j) \in Rows /\ Renamed(j).name = j.to /\ Renamed(j).shows = j.item.shows
           /\ \A r \in Rows : r.name = j.to /\ r.shows = j.item.shows => r = Renamed(j)
           /\ \A r \in Rows : r.name = j.item.name /\ r.shows = j.item.shows => r = j.item
<1>1. j.item \in Rows /\ j.to \in Names
  BY JobNames DEF JobOK, RenameCalls
<1>2. \A r \in Rows : r = [name |-> r.name, shows |-> r.shows] /\ DOMAIN r = {"name", "shows"}
  BY DEF Rows
<1>3. Renamed(j) = [name |-> j.to, shows |-> j.item.shows]
  BY <1>1, <1>2 DEF Renamed
<1>4. Renamed(j) \in Rows
  BY <1>1, RowTypes DEF Renamed
<1> QED
  BY <1>1, <1>2, <1>3, <1>4

\* The window shows a rename before it is done.
LEMMA WindowStarted ==
    ASSUME PlainOK, JobsOK, Window, NEW t \in Threads, Started(t)
    PROVE  Window'
<1>0. PICK j, item, row :
         /\ j = [job[t] EXCEPT !.pc = "move", !.answer = "waiting"]
         /\ item = job[t].item /\ row = Renamed(job[t])
  OBVIOUS
<1>1. job' = [job EXCEPT ![t] = j] /\ job[t].pc = "start" /\ JobOK(job[t]) /\ JobIsTrue(job[t])
  BY <1>0 DEF Started, Call, JobsOK, Window
<1>2. j.pc = "move" /\ j.item = item /\ j.to = job[t].to /\ j.answer = "waiting" /\ JobOK(j)
  BY <1>0, <1>1 DEF JobOK, Jobs, RenameCalls, DuplicateCalls
<1>3. /\ item \in Rows /\ row \in Rows /\ row.name = job[t].to /\ row.name # item.name
      /\ row.shows = item.shows
      /\ {item.name, row.name} = NamesOf(job[t]) /\ NamesOf(j) = NamesOf(job[t])
      /\ Renamed(j) = row
  <2>1. job[t].pc \in RenameCalls /\ job[t].pc # "idle" /\ j.pc # "idle"
    BY <1>1, <1>2 DEF RenameCalls
  <2>2. NamesOf(job[t]) \subseteq {item.name, row.name}
    BY <1>0, <1>1, <2>1, RenamedRow DEF NamesOf
  <2> QED
    BY <1>0, <1>1, <1>2, <2>1, <2>2, JobNames, RenamedRow, ZenonT(60) DEF NamesOf, Renamed
<1>4. \A r \in Rows : r.name \in {item.name, row.name} => rows[r] = Count(r)
  BY <1>0, <1>1, <1>3 DEF Window, OwnCount, Count, Ahead, Unshown
<1>5. Shown(item) /\ content[row.name] = "none"
  BY <1>0, <1>1, <1>3 DEF JobIsTrue
<1>6. \A r \in Rows : r.name = item.name /\ Shown(r) => r = item
  BY <1>0, <1>1, <1>5, RenamedRow DEF Shown, RenameCalls
<1>7. DAVItemRenamed(item.name, row) /\ UNCHANGED content
  BY <1>0 DEF Started, Renamed
<1>8. rows[item] = 1 /\ rows[row] = 0 /\ \A r \in Rows : r.name = item.name /\ rows[r] > 0 => r = item
  BY <1>3, <1>4, <1>5, <1>6 DEF Count, Shown
<1>9. /\ rows'[item] = 0 /\ rows'[row] = 1
      /\ \A r \in Rows : r # item /\ r # row => rows'[r] = rows[r]
  BY <1>3, <1>7, <1>8, RowIsTaken DEF PlainOK
<1>10. JobIsTrue(j)'
  BY <1>2, <1>3, <1>5, <1>7 DEF JobIsTrue, Ahead, Unshown, Shown
<1>11. ASSUME NEW r \in Rows, r.name \in NamesOf(j) PROVE rows'[r] = OwnCount(r, j)'
  <2>1. CASE r = row
    BY <1>2, <1>3, <1>9, <2>1 DEF OwnCount, Ahead
  <2>2. CASE r = item
    BY <1>2, <1>3, <1>9, <2>2 DEF OwnCount, Ahead
  <2>3. CASE r # row /\ r # item
    BY <1>2, <1>3, <1>4, <1>7, <1>9, <1>11, <2>3 DEF OwnCount, Ahead, Unshown, Count, Shown
  <2> QED
    BY <2>1, <2>2, <2>3
<1>12. \A r \in Rows : r.name \notin NamesOf(job[t]) => rows'[r] = rows[r]
  BY <1>3, <1>9
<1>13. \A u \in Threads \ {t} : NamesOf(j) \cap NamesOf(job[u]) = {}
  BY <1>3 DEF Window
<1> QED
  BY <1>1, <1>2, <1>3, <1>7, <1>10, <1>11, <1>12, <1>13, WindowStep, ZenonT(60)

\* A rename that failed is taken back.
LEMMA WindowTakenBack ==
    ASSUME PlainOK, JobsOK, Window, NEW t \in Threads, Ahead(job[t]),
           DAVItemRenamed(job[t].to, job[t].item), UNCHANGED content,
           Call(t, "exists") \/ Finish(t)
    PROVE  Window'
<1>0. PICK item, row, next :
         /\ item = job[t].item /\ row = Renamed(job[t])
         /\ next = [job[t] EXCEPT !.pc = "exists", !.answer = "waiting"]
  OBVIOUS
<1>1. job[t].pc = "move" /\ JobOK(job[t]) /\ JobIsTrue(job[t])
  BY DEF Ahead, JobsOK, Window
<1>2. /\ item \in Rows /\ row \in Rows /\ row.name = job[t].to /\ row.name # item.name
      /\ row.shows = item.shows
      /\ {item.name, row.name} = NamesOf(job[t])
  <2>1. job[t].pc \in RenameCalls /\ job[t].pc # "idle"
    BY <1>1 DEF RenameCalls
  <2>2. NamesOf(job[t]) \subseteq {item.name, row.name}
    BY <1>0, <1>1, <2>1, RenamedRow DEF NamesOf
  <2> QED
    BY <1>0, <1>1, <2>1, <2>2, JobNames, RenamedRow
<1>3. Shown(item) /\ content[row.name] = "none"
  BY <1>0, <1>1, <1>2 DEF JobIsTrue
<1>4. \A r \in Rows : r.name \in {item.name, row.name} =>
         rows[r] = IF r = row THEN 1 ELSE IF Shown(r) /\ r # item THEN 1 ELSE 0
  BY <1>0, <1>1, <1>2 DEF Window, OwnCount, Unshown
<1>5. rows[row] = 1 /\ rows[item] = 0 /\ \A r \in Rows : r.name = row.name /\ rows[r] > 0 => r = row
  BY <1>2, <1>3, <1>4 DEF Shown
<1>6. DAVItemRenamed(row.name, item)
  BY <1>0, <1>2
<1>7. next.pc = "exists" /\ next.item = item /\ next.to = job[t].to /\ JobOK(next)
  BY <1>0, <1>1 DEF JobOK, Jobs, RenameCalls, DuplicateCalls
<1>8. job' = [job EXCEPT ![t] = next] \/ job' = [job EXCEPT ![t] = NoJob]
  BY <1>0 DEF Call, Finish, JobsOK
<1>9. NamesOf(next) = NamesOf(job[t]) /\ NamesOf(NoJob) = {}
  BY <1>0, <1>1, <1>7 DEF NamesOf, NoJob
<1>10. JobIsTrue(next)' /\ ~Ahead(next) /\ ~Unshown(next) /\ JobIsTrue(NoJob)'
  BY <1>7 DEF JobIsTrue, Ahead, Unshown, NoJob
<1>11. /\ rows'[row] = 0 /\ rows'[item] = 1
       /\ \A r \in Rows : r # item /\ r # row => rows'[r] = rows[r]
  BY <1>2, <1>5, <1>6, RowIsTaken DEF PlainOK
<1>12. ASSUME NEW r \in Rows, r.name \in NamesOf(job[t]) PROVE rows'[r] = Count(r)'
  <2>1. CASE r = row
    BY <1>2, <1>3, <1>11, <2>1 DEF Count, Shown
  <2>2. CASE r = item
    BY <1>3, <1>11, <2>2 DEF Count, Shown
  <2>3. CASE r # row /\ r # item
    BY <1>2, <1>4, <1>11, <1>12, <2>3 DEF Count, Shown
  <2> QED
    BY <2>1, <2>2, <2>3
<1>13. \A r \in Rows : r.name \in NamesOf(job[t]) => rows'[r] = OwnCount(r, next)'
  BY <1>10, <1>12 DEF OwnCount, Count, Shown, Ahead, Unshown
<1>14. \A r \in Rows : r.name \notin NamesOf(job[t]) => rows'[r] = rows[r]
  BY <1>2, <1>11
<1> QED
  BY <1>7, <1>8, <1>9, <1>10, <1>12, <1>13, <1>14, NoJobOK, WindowStep, ZenonT(60) DEF Window

\* The file is where the window shows it.
LEMMA WindowMove ==
    ASSUME PlainOK, JobsOK, Window, NEW t \in Threads, job[t].pc = "move",
           job[t].answer = "waiting", Respond(t, "ok"), UNCHANGED rows,
           content' = [content EXCEPT ![job[t].to] = content[job[t].item.name],
                                      ![job[t].item.name] = "none"]
    PROVE  Window'
<1>0. PICK j, item, row :
         /\ j = [job[t] EXCEPT !.answer = "ok"]
         /\ item = job[t].item /\ row = Renamed(job[t])
  OBVIOUS
<1>1. job' = [job EXCEPT ![t] = j] /\ JobOK(job[t]) /\ JobIsTrue(job[t])
  BY <1>0 DEF Respond, JobsOK, Window
<1>2. j.pc = "move" /\ j.item = item /\ j.to = job[t].to /\ j.answer = "ok" /\ JobOK(j)
  BY <1>0, <1>1 DEF JobOK, Jobs
<1>3. /\ item \in Rows /\ row \in Rows /\ row.name = job[t].to /\ row.name # item.name
      /\ row.shows = item.shows /\ {item.name, row.name} \subseteq Names
      /\ {item.name, row.name} = NamesOf(job[t]) /\ NamesOf(j) = NamesOf(job[t])
  <2>1. job[t].pc \in RenameCalls /\ job[t].pc # "idle" /\ j.pc # "idle"
    BY <1>2 DEF RenameCalls
  <2>2. NamesOf(job[t]) \subseteq {item.name, row.name}
    BY <1>0, <1>1, <2>1, RenamedRow DEF NamesOf
  <2> QED
    BY <1>0, <1>1, <1>2, <2>1, <2>2, JobNames, RenamedRow, ZenonT(60) DEF NamesOf
<1>4. Shown(item) /\ content[row.name] = "none"
  BY <1>0, <1>1, <1>3 DEF JobIsTrue, Ahead
<1>5. \A r \in Rows : r.name \in {item.name, row.name} =>
         rows[r] = IF r = row THEN 1 ELSE IF Shown(r) /\ r # item THEN 1 ELSE 0
  BY <1>0, <1>3 DEF Window, OwnCount, Ahead, Unshown
<1>6. /\ content'[row.name] = item.shows /\ content'[item.name] = "none"
      /\ \A n \in Names : n \notin {item.name, row.name} => content'[n] = content[n]
  BY <1>0, <1>3, <1>4 DEF PlainOK, Shown
<1>7. \A r \in Rows : /\ r.name = row.name /\ r.shows = item.shows => r = row
                      /\ r.name = item.name /\ r.shows = item.shows => r = item
  BY <1>0, <1>1, <1>3, RenamedRow DEF RenameCalls
<1>8. ~Ahead(j) /\ ~Unshown(j) /\ JobIsTrue(j)'
  BY <1>2 DEF Ahead, Unshown, JobIsTrue
<1>9. ASSUME NEW r \in Rows, r.name \in {item.name, row.name} PROVE rows'[r] = Count(r)'
  <2>1. CASE r = row
    BY <1>3, <1>4, <1>5, <1>6, <2>1 DEF Count, Shown
  <2>2. CASE r # row /\ r.name = row.name
    <3>1. rows[r] = 0
      <4>1. ~Shown(r)
        BY <1>4, <2>2 DEF Shown
      <4> QED
        BY <1>5, <1>9, <2>2, <4>1
    <3>2. r.shows # content'[r.name]
      BY <1>6, <1>7, <1>9, <2>2
    <3> QED
      BY <3>1, <3>2 DEF Count, Shown
  <2>3. CASE r.name = item.name
    BY <1>3, <1>4, <1>5, <1>6, <1>7, <2>3 DEF Count, Shown
  <2> QED
    BY <1>9, <2>1, <2>2, <2>3
<1>10. \A r \in Rows : r.name \in NamesOf(j) => rows'[r] = OwnCount(r, j)'
  BY <1>3, <1>8, <1>9 DEF OwnCount, Count, Shown, Ahead, Unshown
<1>11. \A u \in Threads \ {t} : NamesOf(j) \cap NamesOf(job[u]) = {}
  BY <1>3 DEF Window
<1> QED
  BY <1>1, <1>2, <1>3, <1>6, <1>8, <1>10, <1>11, WindowStep, ZenonT(60)

\* Something was made that the window does not show yet.
LEMMA WindowAdd ==
    ASSUME PlainOK, JobsOK, Window, NEW t \in Threads, job[t].pc \in {"copy", "create"},
           job[t].answer = "waiting", Respond(t, "ok"), UNCHANGED rows,
           NEW what \in Contents, what # "none", content[job[t].to] = "none",
           content' = [content EXCEPT ![job[t].to] = what]
    PROVE  Window'
<1>0. PICK j : j = [job[t] EXCEPT !.answer = "ok"]
  OBVIOUS
<1>1. job' = [job EXCEPT ![t] = j] /\ JobOK(job[t])
  BY <1>0 DEF Respond, JobsOK
<1>2. j.pc = job[t].pc /\ j.item = job[t].item /\ j.to = job[t].to /\ j.answer = "ok" /\ JobOK(j)
  BY <1>0, <1>1 DEF JobOK, Jobs
<1>3. NamesOf(j) = NamesOf(job[t]) /\ j.to \in NamesOf(j) /\ j.to \in Names
  BY <1>1, <1>2, JobNames DEF NamesOf, JobOK
<1>4. content'[j.to] = what /\ \A n \in Names : n # j.to => content'[n] = content[n]
  BY <1>2, <1>3 DEF PlainOK
<1>5. ~Ahead(j) /\ Unshown(j) /\ ~Ahead(job[t]) /\ ~Unshown(job[t]) /\ j.pc \notin {"start", "props"}
  BY <1>2 DEF Ahead, Unshown
<1>6. JobIsTrue(j)'
  BY <1>4, <1>5 DEF JobIsTrue, Ahead, Unshown
<1>7. ASSUME NEW r \in Rows, r.name \in NamesOf(j) PROVE rows'[r] = OwnCount(r, j)'
  <2>1. rows[r] = Count(r)
    BY <1>3, <1>5, <1>7 DEF Window, OwnCount, Count
  <2>2. CASE r.name = j.to
    BY <1>2, <1>5, <2>1, <2>2 DEF OwnCount, Count, Shown, Ahead, Unshown
  <2>3. CASE r.name # j.to
    BY <1>4, <1>5, <2>1, <2>3, RowTypes DEF OwnCount, Count, Shown, Ahead, Unshown
  <2> QED
    BY <2>2, <2>3
<1>8. \A u \in Threads \ {t} : NamesOf(j) \cap NamesOf(job[u]) = {}
  BY <1>3 DEF Window
<1> QED
  BY <1>1, <1>2, <1>3, <1>4, <1>6, <1>7, <1>8, WindowStep

\* It is shown, as it is.
LEMMA WindowProps ==
    ASSUME PlainOK, JobsOK, Window, NEW t \in Threads, PropsAnswered(t)
    PROVE  Window'
<1>0. PICK row : row = [name |-> job[t].to, shows |-> job[t].seen]
  OBVIOUS
<1>1. job[t].pc = "props" /\ JobOK(job[t]) /\ JobIsTrue(job[t]) /\ job' = [job EXCEPT ![t] = NoJob]
  BY DEF PropsAnswered, Answered, Finish, JobsOK, Window
<1>2. row \in Rows /\ row.name \in NamesOf(job[t]) /\ row.name = job[t].to
  BY <1>0, <1>1, JobNames, RowTypes DEF JobOK, Jobs
<1>3. Shown(row) /\ \A r \in Rows : r.name = row.name /\ Shown(r) => r = row
  <2>1. row.shows = content[row.name] /\ content[row.name] # "none"
    BY <1>0, <1>1 DEF JobIsTrue, Unshown, PropsAnswered, Answered
  <2> QED
    BY <1>2, <2>1 DEF Shown, Rows
<1>4. rows' = [rows EXCEPT ![row] = @ + 1] /\ UNCHANGED content
  BY <1>0 DEF PropsAnswered
<1>5. NamesOf(NoJob) = {} /\ JobIsTrue(NoJob)'
  BY DEF NoJob, NamesOf, JobIsTrue, Ahead, Unshown
<1>6. \A r \in Rows : r.name \in NamesOf(job[t]) =>
         rows[r] = IF Shown(r) /\ r.name # row.name THEN 1 ELSE 0
  BY <1>1, <1>2 DEF Window, OwnCount, Ahead, Unshown
<1>7. ASSUME NEW r \in Rows, r.name \in NamesOf(job[t]) PROVE rows'[r] = Count(r)'
  <2>1. CASE r = row
    BY <1>2, <1>3, <1>4, <1>6, <2>1 DEF Count, Shown, PlainOK
  <2>2. CASE r # row
    BY <1>2, <1>3, <1>4, <1>6, <1>7, <2>2 DEF Count, Shown, PlainOK
  <2> QED
    BY <2>1, <2>2
<1>8. \A r \in Rows : r.name \notin NamesOf(job[t]) => rows'[r] = rows[r]
  BY <1>2, <1>4 DEF PlainOK
<1> QED
  BY <1>1, <1>4, <1>5, <1>7, <1>8, NoJobOK, WindowStep, ZenonT(60)

\* Every step leaves a window that is true, or what it did is noted.
LEMMA RowInvStep == TypeOK /\ RowInv /\ [Next]_vars => RowInv'
<1> SUFFICES ASSUME PlainOK, JobsOK, RowInv, [Next]_vars, Calm' PROVE Window'
  BY TypeParts DEF RowInv
<1>0. trouble \subseteq trouble'
  BY ZenonT(60) DEF Next, Command, NewFolder, DuplicateItem, Rename, Start, Thread, Started, MoveAnswered,
         ExistsAnswered, MoveRezAnswered, ProbeAnswered, CopyAnswered, CheckAnswered,
         CreateAnswered, PropsAnswered, Serve, ServeMove, Exists, ServeMoveRez, ServeCopy,
         ServeCreate, ServeProps, Refuse, CallFails, OtherMakes, OtherDeletes, Noted, vars
<1>window. Window
  BY <1>0 DEF RowInv, Calm
<1> USE <1>window
<1>1. ASSUME NEW t \in Threads, Command(t) PROVE Window'
  <2>1. ASSUME NEW new \in Names, NewFolder(t, new) PROVE Window'
    BY <2>1, WindowStart DEF NewFolder
  <2>2. ASSUME NEW r \in Rows, rows[r] > 0, DuplicateItem(t, r) PROVE Window'
    <3> DEFINE new == CopyNames[r.name][1]
    <3>1. CopyNames[r.name] \in Seq(Names) /\ CopyNames[r.name] # <<>> /\ r.name \in Names
      BY <2>2, RowTypes, ConstantsAssumption DEF DuplicateItem
    <3>2. 1 \in DOMAIN CopyNames[r.name]
      BY <3>1
    <3>3. new \in Names /\ new # r.name
      BY <3>1, <3>2, ConstantsAssumption
    <3>4. Start(t, "probe", r, new) /\ r # NoRow
      BY <2>2, RowTypes DEF DuplicateItem
    <3> HIDE DEF new
    <3> QED
      BY <2>2, <3>3, <3>4, WindowStart
  <2>3. ASSUME NEW r \in Rows, NEW new \in Names, rows[r] > 0, Rename(t, r, new) PROVE Window'
    BY <2>3, WindowStart, RowTypes DEF Rename
  <2> QED
    BY <1>1, <2>1, <2>2, <2>3 DEF Command
<1>2. ASSUME NEW t \in Threads, Thread(t) PROVE Window'
  <2>job. JobOK(job[t]) /\ job[t] \in Jobs /\ JobIsTrue(job[t])
    BY DEF Window, JobsOK, JobOK
  <2>finish. ASSUME Finish(t), UNCHANGED <<content, rows>>, ~Ahead(job[t]), ~Unshown(job[t])
             PROVE  Window'
    BY <2>finish, NoJobOK, WindowRests DEF Finish
  <2>call. ASSUME NEW pc, Call(t, pc), UNCHANGED <<content, rows>>,
                  \/ pc = "exists" /\ job[t].pc = "move" /\ job[t].answer = "ok"
                  \/ pc = "moveRez" /\ job[t].pc = "exists"
                  \/ pc = "copy" /\ job[t].pc = "probe"
                  \/ pc = "create" /\ job[t].pc = "check"
                  \/ pc = "props" /\ job[t].pc \in {"copy", "create"} /\ job[t].answer = "ok"
           PROVE  Window'
    <3>0. PICK j : j = [job[t] EXCEPT !.pc = pc, !.answer = "waiting"]
      OBVIOUS
    <3>1. job' = [job EXCEPT ![t] = j]
      BY <2>call, <3>0 DEF Call, JobsOK
    <3>2. j.pc = pc /\ j.item = job[t].item /\ j.to = job[t].to /\ j.answer = "waiting"
      BY <2>job, <3>0 DEF Jobs
    <3>3. JobOK(j)
      BY <2>job, <2>call, <3>0, <3>2 DEF JobOK, Jobs, RenameCalls, DuplicateCalls, FolderCalls
    <3>4. Ahead(j) = Ahead(job[t]) /\ Unshown(j) = Unshown(job[t])
      BY <2>call, <3>2 DEF Ahead, Unshown
    <3>5. JobIsTrue(j)
      BY <2>job, <2>call, <3>2 DEF JobIsTrue, Ahead, Unshown
    <3> QED
      BY <2>call, <3>1, <3>2, <3>3, <3>4, <3>5, WindowRests
  <2>1. CASE Started(t)
    BY <2>1, WindowStarted
  <2>2. CASE MoveAnswered(t)
    <3>1. CASE job[t].answer = "ok"
      BY <2>2, <2>call, <2>finish, <3>1 DEF MoveAnswered, Answered, Ahead, Unshown
    <3>2. CASE job[t].answer # "ok"
      BY <2>2, <3>2, WindowTakenBack DEF MoveAnswered, Answered, Ahead
    <3> QED
      BY <3>1, <3>2
  <2>3. CASE ExistsAnswered(t)
    BY <2>3, <2>call, <2>finish DEF ExistsAnswered, Answered, Ahead, Unshown
  <2>4. CASE MoveRezAnswered(t)
    BY <2>4, <2>finish DEF MoveRezAnswered, Answered, Ahead, Unshown
  <2>5. CASE ProbeAnswered(t)
    <3>1. CASE Call(t, "copy") \/ Finish(t)
      BY <2>5, <2>call, <2>finish, <3>1 DEF ProbeAnswered, Answered, Ahead, Unshown
    <3>2. CASE ~(Call(t, "copy") \/ Finish(t))
      <4>0. PICK names, next, new, j :
               /\ names = CopyNames[job[t].item.name] /\ next = job[t].tries + 2
               /\ new = names[next]
               /\ j = [job[t] EXCEPT !.to = new, !.tries = job[t].tries + 1, !.answer = "waiting"]
        OBVIOUS
      <4>1. /\ job' = [job EXCEPT ![t] = j] /\ next <= Len(names) /\ job[t].pc = "probe"
            /\ ~Clash(t, {new}) /\ UNCHANGED <<content, rows>>
        <5>1. /\ job' = [job EXCEPT ![t].to = new, ![t].tries = @ + 1, ![t].answer = "waiting"]
              /\ next <= Len(names) /\ job[t].pc = "probe" /\ UNCHANGED <<content, rows>>
              /\ Noted(When(Clash(t, {new}), "overlap"))
          BY <2>5, <3>2, <4>0 DEF ProbeAnswered, Answered
        <5>2. job' = [job EXCEPT ![t] = j]
          BY <2>job, <4>0, <5>1 DEF JobsOK, Jobs
        <5>3. "overlap" \notin trouble'
          BY DEF Calm
        <5>4. ~Clash(t, {new})
          BY <5>1, <5>3 DEF Noted, When
        <5> QED
          BY <5>1, <5>2, <5>4
      <4>2. job[t].item \in Rows /\ job[t].tries \in Nat /\ job[t].item.name \in Names
        BY <2>job, <4>1, RowTypes DEF JobOK, Jobs, DuplicateCalls
      <4>3. next \in DOMAIN names /\ names \in Seq(Names)
        BY <4>0, <4>1, <4>2, ConstantsAssumption
      <4>4. new \in Names /\ new # job[t].item.name
        BY <4>0, <4>2, <4>3, ConstantsAssumption
      <4>5. JobOK(j)
        <5>1. job[t].tries + 1 \in Nat
          BY <4>2
        <5> QED
          BY <2>job, <4>0, <4>1, <4>4, <5>1, NextNameOK
      <4>6. j.pc = "probe" /\ j.item = job[t].item /\ j.to = new
        BY <2>job, <4>0, <4>1 DEF Jobs
      <4>7. NamesOf(j) \subseteq NamesOf(job[t]) \cup {new}
        BY <4>1, <4>6 DEF NamesOf
      <4>8. \A u \in Threads \ {t} : NamesOf(job[u]) \cap NamesOf(j) = {}
        <5>1. \A u \in Threads \ {t} : new \notin NamesOf(job[u])
          BY <4>1, TouchedNames DEF Clash
        <5> QED
          BY <4>7, <5>1 DEF Window
      <4>9. ~Ahead(j) /\ ~Unshown(j) /\ ~Ahead(job[t]) /\ ~Unshown(job[t])
        BY <4>1, <4>6 DEF Ahead, Unshown
      <4>10. JobIsTrue(j)'
        BY <4>6, <4>9 DEF JobIsTrue, Ahead, Unshown
      <4>11. \A r \in Rows : r.name \in NamesOf(job[t]) \cup NamesOf(j) => rows[r] = Count(r)
        <5>1. \A r \in Rows : r.name \in NamesOf(job[t]) => rows[r] = Count(r)
          BY <4>9 DEF Window, OwnCount, Count
        <5>2. \A r \in Rows : r.name \in NamesOf(j) \ NamesOf(job[t]) => rows[r] = Count(r)
          BY <4>8 DEF Window
        <5> QED
          BY <5>1, <5>2
      <4>12. \A r \in Rows : r.name \in NamesOf(j) => rows'[r] = OwnCount(r, j)'
        BY <4>1, <4>9, <4>11 DEF OwnCount, Count, Shown, Ahead, Unshown
      <4>13. \A r \in Rows : r.name \in NamesOf(job[t]) \ NamesOf(j) => rows'[r] = Count(r)'
        BY <4>1, <4>11 DEF Count, Shown
      <4>14. \A u \in Threads \ {t} : NamesOf(j) \cap NamesOf(job[u]) = {}
        BY <4>8
      <4>15. /\ \A n \in Names : content'[n] = content[n]
             /\ \A r \in Rows : rows'[r] = rows[r]
        BY <4>1
      <4>16. job' = [job EXCEPT ![t] = j]
        BY <4>1
      <4> QED
        BY <4>5, <4>10, <4>12, <4>13, <4>14, <4>15, <4>16, WindowStep
    <3> QED
      BY <3>1, <3>2
  <2>6. CASE CopyAnswered(t)
    BY <2>6, <2>call, <2>finish DEF CopyAnswered, Answered, Ahead, Unshown
  <2>7. CASE CheckAnswered(t)
    BY <2>7, <2>call, <2>finish DEF CheckAnswered, Answered, Ahead, Unshown
  <2>8. CASE CreateAnswered(t)
    BY <2>8, <2>call, <2>finish DEF CreateAnswered, Answered, Ahead, Unshown
  <2>9. CASE PropsAnswered(t)
    BY <2>9, WindowProps
  <2> QED
    BY <1>2, <2>1, <2>2, <2>3, <2>4, <2>5, <2>6, <2>7, <2>8, <2>9 DEF Thread
<1>answer. ASSUME NEW t \in Threads, NEW a \in {"ok", "absent", "failed"}, Respond(t, a),
                  job[t].answer = "waiting", job[t].pc \notin {"idle", "props"},
                  job[t].pc \in {"move", "copy", "create"} => a = "failed",
                  UNCHANGED <<content, rows>>
           PROVE  Window'
  <2>0. PICK j : j = [job[t] EXCEPT !.answer = a]
    OBVIOUS
  <2>1. job' = [job EXCEPT ![t] = j] /\ JobOK(job[t]) /\ JobIsTrue(job[t])
    BY <1>answer, <2>0 DEF Respond, JobsOK, Window
  <2>2. j.pc = job[t].pc /\ j.item = job[t].item /\ j.to = job[t].to /\ j.answer = a /\ JobOK(j)
    BY <2>0, <2>1 DEF JobOK, Jobs
  <2>3. Ahead(j) = Ahead(job[t]) /\ Unshown(j) = Unshown(job[t])
    BY <1>answer, <2>2 DEF Ahead, Unshown
  <2>4. JobIsTrue(j)
    BY <1>answer, <2>1, <2>2, <2>3 DEF JobIsTrue
  <2> QED
    BY <1>answer, <2>1, <2>2, <2>3, <2>4, WindowRests
<1>3. ASSUME NEW t \in Threads, Serve(t) PROVE Window'
  <2>job. /\ JobOK(job[t]) /\ job[t] \in Jobs /\ JobIsTrue(job[t])
          /\ UNCHANGED rows /\ job[t].answer = "waiting"
    BY <1>3 DEF Window, JobsOK, JobOK, Serve
  <2>1. CASE job[t].pc = "move" /\ ServeMove(t)
    <3>1. \/ Respond(t, "failed") /\ UNCHANGED content
          \/ /\ Respond(t, "ok")
             /\ content' = [content EXCEPT ![job[t].to] = content[job[t].item.name],
                                           ![job[t].item.name] = "none"]
      BY <2>1 DEF ServeMove
    <3> QED
      BY <1>answer, <2>job, <2>1, <3>1, WindowMove
  <2>2. CASE job[t].pc = "exists" /\ Exists(t, rez[job[t].item.name] # "none")
    BY <1>answer, <2>job, <2>2 DEF Exists
  <2>3. CASE job[t].pc = "moveRez" /\ ServeMoveRez(t) /\ UNCHANGED content
    BY <1>answer, <2>job, <2>3 DEF ServeMoveRez
  <2>4. CASE job[t].pc \in {"probe", "check"} /\ Exists(t, content[job[t].to] # "none")
    BY <1>answer, <2>job, <2>4 DEF Exists
  <2>5. CASE job[t].pc = "copy" /\ ServeCopy(t)
    <3>1. job[t].item.name \in Names
      BY <2>job, <2>5, RowTypes DEF JobOK, Jobs, DuplicateCalls
    <3>2. content[job[t].item.name] # "none" => content[job[t].item.name] \in Contents
      BY <3>1 DEF PlainOK
    <3> QED
      BY <1>answer, <2>job, <2>5, <3>2, WindowAdd DEF ServeCopy, Overwrite
  <2>6. CASE job[t].pc = "create" /\ ServeCreate(t)
    <3>1. "folder" \in Contents
      BY DEF Contents
    <3> QED
      BY <1>answer, <2>job, <2>6, <3>1, WindowAdd DEF ServeCreate
  <2>7. CASE job[t].pc = "props" /\ ServeProps(t)
    <3>0. PICK j : j = [job[t] EXCEPT !.answer = "ok", !.seen = content[job[t].to]]
      OBVIOUS
    <3>1. content[job[t].to] # "none" /\ job[t].to \in Names
      BY <2>job, <2>7 DEF JobIsTrue, Unshown, JobOK
    <3>2. job' = [job EXCEPT ![t] = j] /\ UNCHANGED content
      BY <2>7, <3>0, <3>1 DEF ServeProps, JobsOK
    <3>3. /\ j.pc = "props" /\ j.item = job[t].item /\ j.to = job[t].to
          /\ j.seen = content[job[t].to] /\ JobOK(j)
      BY <2>job, <2>7, <3>0, <3>1 DEF JobOK, Jobs, PlainOK
    <3>4. Ahead(j) = Ahead(job[t]) /\ Unshown(j) = Unshown(job[t])
      BY <2>7, <3>3 DEF Ahead, Unshown
    <3>5. JobIsTrue(j)
      BY <3>1, <3>3 DEF JobIsTrue, Ahead
    <3> QED
      BY <2>job, <2>7, <3>2, <3>3, <3>4, <3>5, WindowRests
  <2> QED
    BY <1>3, <2>1, <2>2, <2>3, <2>4, <2>5, <2>6, <2>7 DEF Serve
<1>4. ASSUME NEW t \in Threads, Refuse(t) PROVE Window'
  BY <1>4, <1>answer DEF Refuse
<1>5. \A t \in Threads : ~CallFails(t)
  BY DEF CallFails, Noted, Calm
<1>6. \A n \in Names : ~OtherMakes(n) /\ ~OtherDeletes(n)
  BY DEF OtherMakes, OtherDeletes, Noted, Calm
<1>7. CASE UNCHANGED vars
  <2>1. job' = job /\ content' = content /\ rows' = rows
    BY <1>7 DEF vars
  <2>2. \A t \in Threads : JobIsTrue(job[t])'
    BY <2>1 DEF Window, JobIsTrue, Ahead, Unshown, Shown
  <2>3. \A t, u \in Threads : t # u => (NamesOf(job[t]) \cap NamesOf(job[u]))' = {}
    BY <2>1 DEF Window, NamesOf
  <2>4. \A t \in Threads, r \in Rows :
           r.name \in NamesOf(job[t])' => rows'[r] = OwnCount(r, job[t])'
    BY <2>1 DEF Window, NamesOf, OwnCount, Ahead, Unshown, Shown, Renamed
  <2>5. \A r \in Rows : (\A t \in Threads : r.name \notin NamesOf(job[t])') => rows'[r] = Count(r)'
    BY <2>1 DEF Window, NamesOf, Count, Shown
  <2> QED
    BY <2>2, <2>3, <2>4, <2>5 DEF Window
<1> QED
  BY <1>1, <1>2, <1>3, <1>4, <1>5, <1>6, <1>7 DEF Next

\* When all is done the window shows what there is, once, for any number of commands at a
\* time, renames that were refused and taken back among them (msg_DAVItemRenamed,
\* msg_DAVItemsAdded).
THEOREM WindowIsTrue == Spec => []RowsTellTheTruth
<1>1. Init => RowInv
  BY DEF Init, RowInv, Window, NoJob, JobIsTrue, Ahead, Unshown, NamesOf, Count
<1>2. RowInv => RowsTellTheTruth
  BY DEF RowInv, Calm, Window, RowsTellTheTruth, AllIdle, Idle, NamesOf, Count
<1> QED
  BY TypeInit, TypeStep, RowInvStep, <1>1, <1>2, PTL DEF Spec
-----------------------------------------------------------------------------
\* The look for a name.  Nobody else is about the same names; and each call gets an answer.
Alone == trouble \cap {"raced", "overlap"} = {}
Heard == "lost" \notin trouble

\* A thread has found a name free, for a copy or for a collection, and has not yet asked
\* the server to make it, or has no answer.
CopyDue(j) == (j.pc = "probe" /\ j.answer = "absent") \/ (j.pc = "copy" /\ j.answer = "waiting")
FolderDue(j) ==
    (j.pc = "check" /\ j.answer \in {"absent", "failed"}) \/ (j.pc = "create" /\ j.answer = "waiting")

\* The name is still free.
StillFree(j) == CopyDue(j) \/ (Heard /\ FolderDue(j)) => content[j.to] = "none"
NoneIsLate == "copyLate" \notin trouble /\ (Heard => "folderLate" \notin trouble)

LookInv ==
    Alone =>
       /\ NoneIsLate
       /\ \A t, u \in Threads : t # u => NamesOf(job[t]) \cap NamesOf(job[u]) = {}
       /\ \A t \in Threads : StillFree(job[t])

\* A step of one thread, or of the server for it, that touches no name of another.
LEMMA LookStep ==
    ASSUME JobsOK, LookInv, trouble \subseteq trouble', NEW t \in Threads, NEW j,
           job' = [job EXCEPT ![t] = j],
           Alone' => /\ NoneIsLate' /\ StillFree(j)'
                     /\ \A u \in Threads \ {t} : NamesOf(j) \cap NamesOf(job[u]) = {}
                     /\ \A n \in Names \ NamesOf(job[t]) : content'[n] = content[n]
    PROVE  LookInv'
<1> SUFFICES ASSUME Alone' PROVE LookInv'
  BY DEF LookInv
<1>1. Alone /\ (Heard' => Heard)
  BY DEF Alone, Heard
<1>2. job'[t] = j /\ \A u \in Threads \ {t} : job'[u] = job[u]
  BY DEF JobsOK
<1>3. \A u, v \in Threads : u # v => NamesOf(job'[u]) \cap NamesOf(job'[v]) = {}
  BY <1>1, <1>2 DEF LookInv
<1>4. ASSUME NEW u \in Threads PROVE StillFree(job[u])'
  <2>1. CASE u = t
    BY <1>2, <2>1 DEF StillFree, CopyDue, FolderDue
  <2>2. CASE u # t
    <3>1. job'[u] = job[u] /\ StillFree(job[u]) /\ JobOK(job[u])
      BY <1>1, <1>2, <2>2 DEF LookInv, JobsOK
    <3>2. ASSUME job[u].pc # "idle" PROVE content'[job[u].to] = content[job[u].to]
      <4>1. job[u].to \in NamesOf(job[u]) /\ job[u].to \in Names
        BY <3>1, <3>2, JobNames
      <4>2. job[u].to \notin NamesOf(job[t])
        BY <1>1, <2>2, <4>1 DEF LookInv
      <4> QED
        BY <4>1, <4>2
    <3> QED
      BY <1>1, <3>1, <3>2 DEF StillFree, CopyDue, FolderDue
  <2> QED
    BY <2>1, <2>2
<1>5. \A u \in Threads : NamesOf(job'[u]) = NamesOf(job[u])'
  BY DEF NamesOf
<1> QED
  BY <1>3, <1>4, <1>5 DEF LookInv

\* A thread that goes on with the same names, or ends.
LEMMA LookGoesOn ==
    ASSUME JobsOK, LookInv, trouble \subseteq trouble', NEW t \in Threads, NEW j,
           job' = [job EXCEPT ![t] = j], NamesOf(j) \subseteq NamesOf(job[t]),
           Alone' => /\ NoneIsLate' /\ StillFree(j)'
                     /\ \A n \in Names \ NamesOf(job[t]) : content'[n] = content[n]
    PROVE  LookInv'
<1>1. Alone' => Alone
  BY DEF Alone
<1>2. Alone' => \A u \in Threads \ {t} : NamesOf(j) \cap NamesOf(job[u]) = {}
  BY <1>1 DEF LookInv
<1> QED
  BY <1>2, LookStep

LEMMA LookFinish ==
    ASSUME JobsOK, LookInv, UNCHANGED <<content, trouble>>, NEW t \in Threads, Finish(t)
    PROVE  LookInv'
<1>1. NamesOf(NoJob) = {} /\ StillFree(NoJob)'
  BY DEF NamesOf, NoJob, StillFree, CopyDue, FolderDue
<1>2. Alone' => NoneIsLate'
  BY DEF LookInv, Alone, NoneIsLate, Heard
<1> QED
  BY <1>1, <1>2, LookGoesOn DEF Finish

LEMMA LookCall ==
    ASSUME JobsOK, LookInv, UNCHANGED <<content, trouble>>, NEW t \in Threads, NEW pc, Call(t, pc),
           job[t].pc # "idle", pc # "idle",
           pc = "copy" => CopyDue(job[t]), pc = "create" => FolderDue(job[t])
    PROVE  LookInv'
<1>0. PICK j : j = [job[t] EXCEPT !.pc = pc, !.answer = "waiting"]
  OBVIOUS
<1>1. job' = [job EXCEPT ![t] = j]
  BY <1>0 DEF Call, JobsOK
<1>2. j.pc = pc /\ j.item = job[t].item /\ j.to = job[t].to /\ j.answer = "waiting"
  BY <1>0 DEF JobsOK, Jobs
<1>3. NamesOf(j) \subseteq NamesOf(job[t])
  BY <1>2 DEF NamesOf
<1>4. Alone' => NoneIsLate' /\ StillFree(job[t])
  BY DEF LookInv, Alone, NoneIsLate, Heard
<1>5. Alone' => StillFree(j)'
  BY <1>2, <1>4 DEF StillFree, CopyDue, FolderDue, Heard
<1> QED
  BY <1>1, <1>3, <1>4, <1>5, LookGoesOn

\* A command begins: another that is about one of its names is noted.
LEMMA LookStart ==
    ASSUME JobsOK, LookInv, NEW t \in Threads, NEW pc \in {"start", "probe", "check"},
           NEW row, NEW new, Start(t, pc, row, new)
    PROVE  LookInv'
<1>0. PICK j : j = [NoJob EXCEPT !.pc = pc, !.item = row, !.to = new]
  OBVIOUS
<1>1. job' = [job EXCEPT ![t] = j] /\ UNCHANGED content /\ trouble \subseteq trouble'
  BY <1>0 DEF Start, Noted
<1>2. j.pc = pc /\ j.item = row /\ j.to = new /\ j.answer = "waiting"
  BY <1>0 DEF NoJob
<1>3. NamesOf(j) \subseteq {row.name, new} /\ StillFree(j)'
  BY <1>2 DEF NamesOf, StillFree, CopyDue, FolderDue
<1>4. Alone' => \A u \in Threads \ {t} : NamesOf(j) \cap NamesOf(job[u]) = {}
  <2>1. Alone' => ~Clash(t, {row.name, new})
    BY DEF Start, Noted, When, Alone
  <2> QED
    BY <1>3, <2>1, TouchedNames DEF Clash
<1>5. Alone' => NoneIsLate'
  BY DEF Start, Noted, When, LookInv, Alone, NoneIsLate, Heard
<1> QED
  BY <1>1, <1>3, <1>4, <1>5, LookStep

LEMMA LookThread == ASSUME JobsOK, LookInv, NEW t \in Threads, Thread(t) PROVE LookInv'
<1>1. CASE Started(t)
  BY <1>1, LookCall DEF Started
<1>2. CASE MoveAnswered(t)
  BY <1>2, LookCall, LookFinish DEF MoveAnswered, Answered
<1>3. CASE ExistsAnswered(t)
  BY <1>3, LookCall, LookFinish DEF ExistsAnswered, Answered
<1>4. CASE MoveRezAnswered(t)
  BY <1>4, LookFinish DEF MoveRezAnswered
<1>5. CASE ProbeAnswered(t)
  <2>1. CASE ((job[t].answer = "absent" /\ Call(t, "copy")) \/ Finish(t)) /\ UNCHANGED trouble
    BY <1>5, <2>1, LookCall, LookFinish DEF ProbeAnswered, Answered, CopyDue
  <2>2. ASSUME NEW new, NEW tries, Noted(When(Clash(t, {new}), "overlap")),
               job' = [job EXCEPT ![t].to = new, ![t].tries = tries, ![t].answer = "waiting"]
        PROVE  LookInv'
    <3>0. PICK j : j = [job[t] EXCEPT !.to = new, !.tries = tries, !.answer = "waiting"]
      OBVIOUS
    <3>1. job' = [job EXCEPT ![t] = j] /\ UNCHANGED content /\ job[t].pc = "probe"
      BY <1>5, <2>2, <3>0 DEF ProbeAnswered, Answered, JobsOK
    <3>2. j.pc = "probe" /\ j.item = job[t].item /\ j.to = new /\ j.answer = "waiting"
      BY <3>0, <3>1 DEF JobsOK, Jobs
    <3>3. NamesOf(j) \subseteq NamesOf(job[t]) \cup {new}
      BY <3>1, <3>2 DEF NamesOf
    <3>4. trouble \subseteq trouble' /\ trouble' \subseteq trouble \cup {"overlap"}
          /\ (Alone' => Alone /\ ~Clash(t, {new}))
      BY <2>2 DEF Noted, When, Alone
    <3>5. Alone' => \A u \in Threads \ {t} : NamesOf(j) \cap NamesOf(job[u]) = {}
      BY <3>3, <3>4, TouchedNames DEF Clash, LookInv
    <3>6. Alone' => NoneIsLate'
      BY <3>4 DEF LookInv, NoneIsLate, Heard
    <3>7. StillFree(j)'
      BY <3>2 DEF StillFree, CopyDue, FolderDue
    <3> QED
      BY <3>1, <3>4, <3>5, <3>6, <3>7, LookStep
  <2>3. CASE /\ job[t].answer = "ok"
             /\ LET names == CopyNames[job[t].item.name]  next == job[t].tries + 2 IN
                job' = [job EXCEPT ![t].to = names[next], ![t].tries = @ + 1, ![t].answer = "waiting"]
                /\ Noted(When(Clash(t, {names[next]}), "overlap"))
    <3>1. PICK new, tries : new = CopyNames[job[t].item.name][job[t].tries + 2]
                            /\ tries = job[t].tries + 1
      OBVIOUS
    <3>2. job' = [job EXCEPT ![t].to = new, ![t].tries = tries, ![t].answer = "waiting"]
          /\ Noted(When(Clash(t, {new}), "overlap"))
      BY <2>3, <3>1 DEF JobsOK, Jobs
    <3> QED
      BY <2>2, <3>2
  <2> QED
    BY <1>5, <2>1, <2>3 DEF ProbeAnswered
<1>6. CASE CopyAnswered(t)
  BY <1>6, LookCall, LookFinish DEF CopyAnswered, Answered
<1>7. CASE CheckAnswered(t)
  <2>1. job[t].pc = "check" /\ (job[t].answer # "ok" => FolderDue(job[t]))
    BY <1>7 DEF CheckAnswered, Answered, FolderDue, JobsOK, Jobs
  <2> QED
    BY <1>7, <2>1, LookCall, LookFinish DEF CheckAnswered
<1>8. CASE CreateAnswered(t)
  BY <1>8, LookCall, LookFinish DEF CreateAnswered, Answered
<1>9. CASE PropsAnswered(t)
  BY <1>9, LookFinish DEF PropsAnswered
<1> QED
  BY <1>1, <1>2, <1>3, <1>4, <1>5, <1>6, <1>7, <1>8, <1>9 DEF Thread

\* An answer changes what has a name of the thread, at most; a name that was found free
\* and is not free any more is noted.
LEMMA LookAnswer ==
    ASSUME JobsOK, LookInv, trouble \subseteq trouble', NEW t \in Threads, NEW a, Respond(t, a),
           job[t].pc # "idle", a # "waiting",
           job[t].pc = "probe" /\ a = "absent" => content'[job[t].to] = "none",
           job[t].pc = "check" /\ a # "ok" => content'[job[t].to] = "none" \/ ~Heard',
           Alone' => NoneIsLate',
           \A n \in Names \ NamesOf(job[t]) : content'[n] = content[n]
    PROVE  LookInv'
<1>0. PICK j : j = [job[t] EXCEPT !.answer = a]
  OBVIOUS
<1>1. job' = [job EXCEPT ![t] = j]
  BY <1>0 DEF Respond, JobsOK
<1>2. j.pc = job[t].pc /\ j.item = job[t].item /\ j.to = job[t].to /\ j.answer = a
  BY <1>0 DEF JobsOK, Jobs
<1>3. NamesOf(j) \subseteq NamesOf(job[t])
  BY <1>2 DEF NamesOf
<1>4. StillFree(j)'
  BY <1>2 DEF StillFree, CopyDue, FolderDue
<1> QED
  BY <1>1, <1>3, <1>4, LookGoesOn

LEMMA LookServe == ASSUME PlainOK, JobsOK, LookInv, NEW t \in Threads, Serve(t) PROVE LookInv'
<1>0. /\ job[t].answer = "waiting" /\ JobOK(job[t])
      /\ Alone => NoneIsLate /\ StillFree(job[t])
  BY DEF Serve, JobsOK, LookInv
<1>names. /\ NamesOf(job[t]) \subseteq Names
          /\ job[t].pc # "idle" => job[t].to \in NamesOf(job[t])
          /\ job[t].pc \in RenameCalls \cup DuplicateCalls => job[t].item.name \in NamesOf(job[t])
  BY <1>0, JobNames
<1>same. ASSUME UNCHANGED trouble PROVE Alone' => NoneIsLate'
  BY <1>0, <1>same DEF Alone, NoneIsLate, Heard
<1>1. CASE job[t].pc = "move" /\ ServeMove(t)
  <2>1. \A n \in Names \ NamesOf(job[t]) : content'[n] = content[n]
    BY <1>1, <1>names DEF ServeMove, PlainOK, RenameCalls
  <2>2. trouble \subseteq trouble' /\ trouble' \subseteq trouble \cup {"gone", "taken", "refused"}
    BY <1>1 DEF ServeMove, Noted, When
  <2>3. Alone' => NoneIsLate'
    BY <1>0, <2>2 DEF Alone, NoneIsLate, Heard
  <2> QED
    BY <1>1, <2>1, <2>2, <2>3, LookAnswer DEF ServeMove
<1>2. CASE job[t].pc = "exists" /\ Exists(t, rez[job[t].item.name] # "none")
  BY <1>2, <1>same, LookAnswer DEF Exists
<1>3. CASE job[t].pc = "moveRez" /\ ServeMoveRez(t) /\ UNCHANGED content
  <2>1. trouble \subseteq trouble' /\ trouble' \subseteq trouble \cup {"forkLost"}
    BY <1>3 DEF ServeMoveRez, Noted, When
  <2>2. Alone' => NoneIsLate'
    BY <1>0, <2>1 DEF Alone, NoneIsLate, Heard
  <2> QED
    BY <1>3, <2>1, <2>2, LookAnswer DEF ServeMoveRez
<1>4. CASE job[t].pc \in {"probe", "check"} /\ Exists(t, content[job[t].to] # "none")
  BY <1>4, <1>same, LookAnswer DEF Exists
<1>5. CASE job[t].pc = "copy" /\ ServeCopy(t)
  <2>1. \A n \in Names \ NamesOf(job[t]) : content'[n] = content[n]
    BY <1>5, <1>names DEF ServeCopy, PlainOK
  <2>2. /\ trouble \subseteq trouble' /\ trouble' \subseteq trouble \cup {"copyLate"}
        /\ content[job[t].to] = "none" => UNCHANGED trouble
    BY <1>5 DEF ServeCopy, Noted, When
  <2>3. Alone' => Alone /\ content[job[t].to] = "none"
    BY <1>0, <1>5, <2>2 DEF Alone, StillFree, CopyDue
  <2>4. Alone' => NoneIsLate'
    BY <1>same, <2>2, <2>3
  <2> QED
    BY <1>5, <2>1, <2>2, <2>4, LookAnswer DEF ServeCopy
<1>6. CASE job[t].pc = "create" /\ ServeCreate(t)
  <2>1. \A n \in Names \ NamesOf(job[t]) : content'[n] = content[n]
    BY <1>6, <1>names DEF ServeCreate, PlainOK
  <2>2. /\ trouble \subseteq trouble' /\ trouble' \subseteq trouble \cup {"folderLate", "unnamed"}
        /\ content[job[t].to] = "none" => trouble' \subseteq trouble \cup {"unnamed"}
    BY <1>6 DEF ServeCreate, Noted
  <2>3. Alone' => Alone /\ (Heard => content[job[t].to] = "none")
    BY <1>0, <1>6, <2>2 DEF Alone, StillFree, FolderDue
  <2>4. Alone' => NoneIsLate'
    BY <1>0, <2>2, <2>3 DEF NoneIsLate, Heard
  <2> QED
    BY <1>6, <2>1, <2>2, <2>4, LookAnswer DEF ServeCreate
<1>7. CASE job[t].pc = "props" /\ ServeProps(t)
  <2>0. PICK j : j = [job[t] EXCEPT !.answer = "ok", !.seen = content[job[t].to]]
    OBVIOUS
  <2>1. CASE Respond(t, "failed")
    BY <1>7, <1>same, <2>1, LookAnswer DEF ServeProps
  <2>2. CASE job' = [job EXCEPT ![t] = j]
    <3>1. j.pc = "props" /\ j.item = job[t].item /\ j.to = job[t].to
      BY <1>7, <2>0 DEF JobsOK, Jobs
    <3>2. NamesOf(j) \subseteq NamesOf(job[t]) /\ StillFree(j)'
      BY <1>7, <3>1 DEF NamesOf, StillFree, CopyDue, FolderDue
    <3> QED
      BY <1>7, <1>same, <2>2, <3>2, LookGoesOn DEF ServeProps
  <2> QED
    BY <1>7, <2>0, <2>1, <2>2 DEF ServeProps, JobsOK
<1> QED
  BY <1>1, <1>2, <1>3, <1>4, <1>5, <1>6, <1>7 DEF Serve

LEMMA LookInvStep == TypeOK /\ LookInv /\ [Next]_vars => LookInv'
<1> SUFFICES ASSUME PlainOK, JobsOK, LookInv, [Next]_vars PROVE LookInv'
  BY TypeParts
<1>1. ASSUME NEW t \in Threads, Command(t) PROVE LookInv'
  BY <1>1, LookStart DEF Command, NewFolder, DuplicateItem, Rename
<1>2. ASSUME NEW t \in Threads, Refuse(t) PROVE LookInv'
  <2>1. trouble \subseteq trouble' /\ trouble' \subseteq trouble \cup {"refused", "taken"}
    BY <1>2 DEF Refuse, Noted, When
  <2>2. Alone' => NoneIsLate'
    BY <2>1 DEF LookInv, Alone, NoneIsLate, Heard
  <2> QED
    BY <1>2, <2>1, <2>2, LookAnswer DEF Refuse
<1>3. ASSUME NEW t \in Threads, CallFails(t) PROVE LookInv'
  <2>0. PICK j : j = [job[t] EXCEPT !.answer = "failed", !.seen = "none"]
    OBVIOUS
  <2>1. /\ job' = [job EXCEPT ![t] = j] /\ UNCHANGED content /\ job[t].pc # "idle"
        /\ trouble' = trouble \cup {"lost"}
    BY <1>3, <2>0 DEF CallFails, JobsOK, Noted
  <2>2. j.pc = job[t].pc /\ j.item = job[t].item /\ j.to = job[t].to /\ j.answer = "failed"
    BY <2>0 DEF JobsOK, Jobs
  <2>3. NamesOf(j) \subseteq NamesOf(job[t])
    BY <2>2 DEF NamesOf
  <2>4. ~Heard' /\ (Alone' => NoneIsLate')
    BY <2>1 DEF LookInv, Alone, NoneIsLate, Heard
  <2>5. StillFree(j)'
    BY <2>2, <2>4 DEF StillFree, CopyDue
  <2> QED
    BY <2>1, <2>3, <2>4, <2>5, LookGoesOn
<1>4. ASSUME NEW n \in Names, OtherMakes(n) \/ OtherDeletes(n) PROVE LookInv'
  BY <1>4 DEF OtherMakes, OtherDeletes, Noted, LookInv, Alone
<1>5. CASE UNCHANGED vars
  BY <1>5 DEF vars, LookInv, Alone, NoneIsLate, Heard, StillFree, CopyDue, FolderDue, NamesOf
<1> QED
  BY <1>1, <1>2, <1>3, <1>4, <1>5, LookThread, LookServe DEF Next

\* A name that was found free is free when the copy or the collection is made, for any
\* number of commands at a time and any list of names to try, but if somebody else was
\* faster (CDuplicateItemsThread, CCreateCollectionThread).
THEOREM LooksFindFreeNames == Spec => []NamesAreFoundFree
<1>1. Init => LookInv
  BY DEF Init, LookInv, NoneIsLate, NoJob, NamesOf, StillFree, CopyDue, FolderDue
<1>2. LookInv => NamesAreFoundFree
  BY DEF LookInv, NamesAreFoundFree, Alone, NoneIsLate, Heard
<1> QED
  BY TypeInit, TypeStep, LookInvStep, <1>1, <1>2, PTL DEF Spec
-----------------------------------------------------------------------------
\* Why a thread ends if its calls return: how many calls and answers are ahead of a job.
CallsLeft(j) ==
    LET position == [idle |-> 0, start |-> 4, move |-> 3, exists |-> 2, moveRez |-> 1,
                     probe |-> 3, check |-> 3, copy |-> 2, create |-> 2, props |-> 1]
        pending == [waiting |-> 2, ok |-> 1, absent |-> 1, failed |-> 0]
    IN  3 * position[j.pc] + pending[j.answer]

\* A job is done, has fewer calls ahead, or tries the next of the names there are for a copy.
Closer(j, next) ==
    \/ next = NoJob
    \/ /\ next.item = j.item
       /\ \/ next.tries = j.tries /\ CallsLeft(next) < CallsLeft(j)
          \/ j.tries < next.tries /\ next.tries < Len(CopyNames[j.item.name])

\* Whatever anybody does leaves a job as it is or brings it closer to its end: what goes on for as
\* long as there are names is the search for the name of a copy, and nothing else.
EachStepCounts ==
    [][\A t \in Threads : ~Idle(t) => job'[t] = job[t] \/ Closer(job[t], job'[t])]_vars

AllCount == \A t \in Threads : ~Idle(t) => job'[t] = job[t] \/ Closer(job[t], job'[t])

LEMMA JobCounts ==
    ASSUME JobsOK, NEW t \in Threads, NEW j, job' = [job EXCEPT ![t] = j],
           Idle(t) \/ Closer(job[t], j)
    PROVE  AllCount
  BY DEF JobsOK, AllCount

LEMMA FinishCounts ==
    ASSUME JobsOK, NEW t \in Threads, Finish(t)
    PROVE  AllCount
  BY JobCounts DEF Finish, Closer

LEMMA CallCounts ==
    ASSUME JobsOK, NEW t \in Threads, NEW call, Call(t, call),
           \/ job[t].pc = "start" /\ call = "move"
           \/ job[t].pc = "move" /\ call = "exists"
           \/ job[t].pc = "exists" /\ call = "moveRez"
           \/ job[t].pc = "probe" /\ call = "copy"
           \/ job[t].pc = "check" /\ call = "create"
           \/ job[t].pc \in {"copy", "create"} /\ call = "props"
    PROVE  AllCount
<1> DEFINE j == [job[t] EXCEPT !.pc = call, !.answer = "waiting"]
<1>1. job[t] \in Jobs /\ job' = [job EXCEPT ![t] = j]
  BY DEF JobsOK, JobOK, Call
<1>2. job[t].answer \in {"waiting", "ok", "absent", "failed"}
  BY <1>1 DEF Jobs
<1>3. j.item = job[t].item /\ j.tries = job[t].tries /\ j.pc = call /\ j.answer = "waiting"
  BY <1>1 DEF Jobs
<1>4. CallsLeft(j) < CallsLeft(job[t])
  BY <1>2, <1>3 DEF CallsLeft
<1>5. Closer(job[t], j)
  BY <1>3, <1>4 DEF Closer
<1> HIDE DEF j
<1> QED
  BY <1>1, <1>5, JobCounts

\* An answer, or its loss, comes once.
LEMMA AnswerCounts ==
    ASSUME JobsOK, NEW t \in Threads, NEW a \in {"ok", "absent", "failed"}, NEW seen,
           job' = [job EXCEPT ![t].answer = a, ![t].seen = seen],
           job[t].answer = "waiting" \/ (job[t].answer # "failed" /\ a = "failed")
    PROVE  AllCount
<1> DEFINE j == [job[t] EXCEPT !.answer = a, !.seen = seen]
<1>1. job[t] \in Jobs /\ job' = [job EXCEPT ![t] = j]
  BY DEF JobsOK, JobOK
<1>2. job[t].answer \in {"waiting", "ok", "absent", "failed"}
      /\ job[t].pc \in {"idle", "props"} \cup RenameCalls \cup DuplicateCalls \cup FolderCalls
  BY <1>1 DEF Jobs
<1>3. j.item = job[t].item /\ j.tries = job[t].tries /\ j.pc = job[t].pc /\ j.answer = a
  BY <1>1 DEF Jobs
<1>4. CallsLeft(j) < CallsLeft(job[t])
  BY <1>2, <1>3 DEF CallsLeft, RenameCalls, DuplicateCalls, FolderCalls
<1>5. Closer(job[t], j)
  BY <1>3, <1>4 DEF Closer
<1> HIDE DEF j
<1> QED
  BY <1>1, <1>5, JobCounts

LEMMA RespondCounts ==
    ASSUME JobsOK, NEW t \in Threads, NEW a \in {"ok", "absent", "failed"}, Respond(t, a),
           job[t].answer = "waiting"
    PROVE  AllCount
<1>1. job[t] \in Jobs
  BY DEF JobsOK, JobOK
<1>2. [job[t] EXCEPT !.answer = a] = [job[t] EXCEPT !.answer = a, !.seen = job[t].seen]
  BY <1>1 DEF Jobs
<1>3. job' = [job EXCEPT ![t].answer = a, ![t].seen = job[t].seen]
  BY <1>2 DEF Respond, JobsOK
<1> QED
  BY <1>3, AnswerCounts

LEMMA ProbeCounts == ASSUME JobsOK, NEW t \in Threads, ProbeAnswered(t) PROVE AllCount
<1>1. CASE Call(t, "copy") \/ Finish(t)
  BY <1>1, CallCounts, FinishCounts DEF ProbeAnswered, Answered
<1>2. CASE ~(Call(t, "copy") \/ Finish(t))
  <2> DEFINE names == CopyNames[job[t].item.name]
             j == [job[t] EXCEPT !.to = names[job[t].tries + 2], !.tries = @ + 1, !.answer = "waiting"]
  <2>1. job[t] \in Jobs /\ job[t].item \in Rows
    BY <1>2 DEF JobsOK, JobOK, Jobs, ProbeAnswered, Answered, DuplicateCalls
  <2>2. job' = [job EXCEPT ![t] = j] /\ job[t].tries + 2 <= Len(names)
    BY <1>2 DEF ProbeAnswered, JobsOK
  <2>3. Len(names) \in Nat /\ job[t].tries \in Nat
    BY <2>1, RowTypes, ConstantsAssumption DEF Jobs
  <2>4. j.item = job[t].item /\ j.tries = job[t].tries + 1
    BY <2>1 DEF Jobs
  <2>5. Closer(job[t], j)
    BY <2>2, <2>3, <2>4 DEF Closer
  <2> HIDE DEF j
  <2> QED
    BY <2>2, <2>5, JobCounts
<1> QED
  BY <1>1, <1>2

LEMMA ThreadCounts == ASSUME JobsOK, NEW t \in Threads, Thread(t) PROVE AllCount
<1>1. ASSUME Started(t) PROVE AllCount
  BY <1>1, CallCounts DEF Started
<1>2. ASSUME MoveAnswered(t) PROVE AllCount
  BY <1>2, CallCounts, FinishCounts DEF MoveAnswered, Answered
<1>3. ASSUME ExistsAnswered(t) PROVE AllCount
  BY <1>3, CallCounts, FinishCounts DEF ExistsAnswered, Answered
<1>4. ASSUME MoveRezAnswered(t) PROVE AllCount
  BY <1>4, FinishCounts DEF MoveRezAnswered
<1>5. ASSUME CopyAnswered(t) PROVE AllCount
  BY <1>5, CallCounts, FinishCounts DEF CopyAnswered, Answered
<1>6. ASSUME CheckAnswered(t) PROVE AllCount
  BY <1>6, CallCounts, FinishCounts DEF CheckAnswered, Answered
<1>7. ASSUME CreateAnswered(t) PROVE AllCount
  BY <1>7, CallCounts, FinishCounts DEF CreateAnswered, Answered
<1>8. ASSUME PropsAnswered(t) PROVE AllCount
  BY <1>8, FinishCounts DEF PropsAnswered
<1> QED
  BY <1>1, <1>2, <1>3, <1>4, <1>5, <1>6, <1>7, <1>8, ProbeCounts DEF Thread

LEMMA ServeCounts ==
    ASSUME JobsOK, NEW t \in Threads, Serve(t) \/ Refuse(t) \/ CallFails(t) PROVE AllCount
<1>1. ASSUME CallFails(t) PROVE AllCount
  BY <1>1, AnswerCounts DEF CallFails
<1>2. ASSUME Refuse(t) PROVE AllCount
  BY <1>2, RespondCounts DEF Refuse
<1>3. ASSUME Serve(t) PROVE AllCount
  <2>1. CASE \E a \in {"ok", "absent", "failed"} : Respond(t, a)
    BY <1>3, <2>1, RespondCounts DEF Serve
  <2>2. CASE \E seen : job' = [job EXCEPT ![t].answer = "ok", ![t].seen = seen]
    BY <1>3, <2>2, AnswerCounts DEF Serve
  <2> QED
    BY <1>3, <2>1, <2>2
       DEF Serve, ServeMove, ServeMoveRez, ServeCopy, ServeCreate, ServeProps, Exists
<1> QED
  BY <1>1, <1>2, <1>3

LEMMA StepCounts == JobsOK /\ [Next]_vars => AllCount
<1> SUFFICES ASSUME JobsOK, [Next]_vars PROVE AllCount
  OBVIOUS
<1>1. ASSUME NEW t \in Threads, Command(t) PROVE AllCount
  <2>1. \E j : Idle(t) /\ job' = [job EXCEPT ![t] = j]
    BY <1>1 DEF Command, NewFolder, DuplicateItem, Rename, Start
  <2> QED
    BY <2>1, JobCounts
<1>2. ASSUME NEW t \in Threads, Thread(t) \/ Serve(t) \/ Refuse(t) \/ CallFails(t) PROVE AllCount
  BY <1>2, ThreadCounts, ServeCounts
<1>3. CASE (\E n \in Names : OtherMakes(n) \/ OtherDeletes(n)) \/ UNCHANGED vars
  BY <1>3 DEF OtherMakes, OtherDeletes, vars, AllCount
<1> QED
  BY <1>1, <1>2, <1>3 DEF Next

\* The rename and new-collection threads are sequences of calls; that of a duplicate ends with the
\* names: CRenameResourceThread, CDuplicateItemsThread, CCreateCollectionThread.
THEOREM JobsRunDown == Spec => EachStepCounts
<1>1. TypeOK => JobsOK
  BY TypeParts
<1>2. JobsOK /\ [Next]_vars => [AllCount]_vars
  BY StepCounts
<1> QED
  BY TypeCorrect, <1>1, <1>2, PTL DEF Spec, EachStepCounts, AllCount
=============================================================================
