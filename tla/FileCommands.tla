---------------------------- MODULE FileCommands ----------------------------
(***************************************************************************)
(* The commands that make, copy or rename something in a collection:       *)
(* CRenameResourceThread, CDuplicateItemsThread, CCreateCollectionThread.   *)
(* Each command starts a thread, and several can run at a time; the window  *)
(* shows a rename at once and takes it back if the server refuses it.  None *)
(* of them names a lock in its requests, but that a new collection is made  *)
(* with the token of the collection of the window.                          *)
(***************************************************************************)
EXTENDS Naturals, Sequences

CONSTANTS Threads,
          Names,          \* of the members of the collection
          CopyNames,      \* "Copy of name", "Copy 1 of name" ...: what a duplicate can be called
          Encoding,       \* ~_EncodingDisabled(): resource forks move with their files
          ParentLocked,   \* can this client hold the lock of the collection
          MaxRows         \* bound: no command is given with more rows for the same

\* What a file is: the one that had a name at first, one of another client, or a collection.
Contents == Names \cup {"theirs", "folder"}
NoName == "none"
NoRow == [name |-> NoName, shows |-> "none"]
Rows == [name : Names, shows : Contents \cup {"none"}]

ASSUME ConstantsAssumption ==
    /\ Names \cap {"none", "theirs", "folder"} = {}
    /\ CopyNames \in [Names -> Seq(Names)]
    /\ \A n \in Names : \A k \in DOMAIN CopyNames[n] : CopyNames[n][k] # n
    /\ Encoding \in BOOLEAN /\ ParentLocked \subseteq BOOLEAN
    /\ MaxRows \in Nat

VARIABLES
    content,   \* the server: what has a name
    rez,       \* the server: whose resource fork "._name" is
    locked,    \* this client holds the lock of the collection, and knows the token
    rows,      \* the rows of the window, with what they show: how many there are of each
    job,       \* what each thread does
    trouble    \* what went wrong so far; the code has no such thing

vars == <<content, rez, locked, rows, job, trouble>>

RenameCalls == {"start", "move", "exists", "moveRez"}
DuplicateCalls == {"probe", "copy"}
FolderCalls == {"check", "create"}

\* item: the row the command is for, as it was then; to: the name to be made; tries: which
\* of the names for a copy it is; seen: what the properties say.
Jobs == [pc : {"idle", "props"} \cup RenameCalls \cup DuplicateCalls \cup FolderCalls,
         answer : {"waiting", "ok", "absent", "failed"},
         item : Rows \cup {NoRow}, to : Names \cup {NoName}, tries : Nat,
         seen : Contents \cup {"none"}]
NoJob == [pc |-> "idle", answer |-> "waiting", item |-> NoRow, to |-> NoName,
          tries |-> 0, seen |-> "none"]

\* lost: a call failed for the client, whether the server did the work or not; refused:
\* the server would not do it, because of a lock, say; taken, gone: there was something at
\* the target of a rename, or nothing to rename; raced: another client made or
\* removed something; overlap: two commands at a time were about the same name; unnamed: a
\* collection was not made because the lock of its parent was not named; forkLost: a
\* resource fork was replaced; copyLate, folderLate: the name of a copy, or of a new
\* collection, was no longer free when it was to be made.
Troubles == {"lost", "refused", "taken", "gone", "raced", "overlap", "unnamed", "forkLost",
             "copyLate", "folderLate"}

TypeOK ==
    /\ content \in [Names -> Contents \cup {"none"}]
    /\ rez \in [Names -> Contents \cup {"none"}]
    /\ locked \in BOOLEAN
    /\ rows \in [Rows -> Nat]
    /\ job \in [Threads -> Jobs]
    /\ \A t \in Threads :
          /\ job[t].pc # "idle" => job[t].to \in Names
          /\ job[t].pc \in RenameCalls \cup DuplicateCalls =>
                job[t].item # NoRow /\ job[t].to # job[t].item.name
    /\ trouble \subseteq Troubles

Idle(t) == job[t].pc = "idle"
When(condition, fact) == IF condition THEN {fact} ELSE {}
Noted(facts) == trouble' = trouble \cup facts

\* A row that there ought to be.
Shown(r) == r.shows = content[r.name] /\ r.shows # "none"

\* The window was opened or refreshed: it shows what there is.
Init ==
    /\ content \in {c \in [Names -> Contents \cup {"none"}] : \A n \in Names : c[n] \in {n, "none"}}
    /\ rez \in {r \in [Names -> Contents \cup {"none"}] : \A n \in Names : r[n] \in {content[n], "none"}}
    /\ locked \in ParentLocked
    /\ rows = [r \in Rows |-> IF Shown(r) THEN 1 ELSE 0]
    /\ job = [t \in Threads |-> NoJob]
    /\ trouble = {}
-----------------------------------------------------------------------------
\* The commands.

\* The names a job is about.
Touched(t) ==
    IF Idle(t) THEN {}
    ELSE {job[t].to, job[t].item.name} \ {NoName}

Clash(t, names) == \E u \in Threads \ {t} : Touched(u) \cap names # {}

Start(t, name, row, new) ==
    /\ Idle(t) /\ \A r \in Rows : rows[r] <= MaxRows
    /\ job' = [job EXCEPT ![t] = [NoJob EXCEPT !.pc = name, !.item = row, !.to = new]]
    /\ Noted(When(Clash(t, {row.name, new}), "overlap")
             \cup When(name = "start" /\ content[new] # "none", "taken"))
    /\ UNCHANGED <<content, rez, locked, rows>>

\* A slip: the name may be the old one.
RenameAnyway(t, row, new) == Start(t, "start", row, new)

\* The name of a row was edited.
Rename(t, row, new) == new # row.name /\ Start(t, "start", row, new)

DuplicateItem(t, row) ==
    /\ CopyNames[row.name] # <<>>
    /\ Start(t, "probe", row, CopyNames[row.name][1])

NewFolder(t, new) == Start(t, "check", NoRow, new)
-----------------------------------------------------------------------------
\* The threads.

Call(t, name) == job' = [job EXCEPT ![t].pc = name, ![t].answer = "waiting"]
Finish(t) == job' = [job EXCEPT ![t] = NoJob]
Answered(t, name) == job[t].pc = name /\ job[t].answer # "waiting"

\* msg_DAVItemRenamed: the first row with the old name, in whatever order the user has them
\* sorted, takes over the item.
DAVItemRenamed(old, row) ==
    LET found == {r \in Rows : r.name = old /\ rows[r] > 0} IN
    IF found = {} THEN UNCHANGED rows
    ELSE \E r \in found : rows' = [rows EXCEPT ![r] = @ - 1, ![row] = @ + 1]

\* CRenameResourceThread: the row changes before the server is asked.
Started(t) ==
    /\ job[t].pc = "start"
    /\ DAVItemRenamed(job[t].item.name, [job[t].item EXCEPT !.name = job[t].to])
    /\ Call(t, "move")
    /\ UNCHANGED <<content, rez, locked, trouble>>

\* A slip: a rename that failed is not taken back.
MoveAnsweredKept(t) ==
    /\ Answered(t, "move")
    /\ IF Encoding THEN Call(t, "exists") ELSE Finish(t)
    /\ UNCHANGED <<content, rez, locked, rows, trouble>>

\* A slip: the fork is not looked for.
MoveAnsweredForkless(t) ==
    /\ Answered(t, "move")
    /\ IF job[t].answer = "ok" THEN UNCHANGED rows ELSE DAVItemRenamed(job[t].to, job[t].item)
    /\ Finish(t)
    /\ UNCHANGED <<content, rez, locked, trouble>>

\* Whether the file was moved or not, its resource fork is next.
MoveAnswered(t) ==
    /\ Answered(t, "move")
    /\ IF job[t].answer = "ok" THEN UNCHANGED rows ELSE DAVItemRenamed(job[t].to, job[t].item)
    /\ IF Encoding THEN Call(t, "exists") ELSE Finish(t)
    /\ UNCHANGED <<content, rez, locked, trouble>>

ExistsAnswered(t) ==
    /\ Answered(t, "exists")
    /\ IF job[t].answer = "ok" THEN Call(t, "moveRez") ELSE Finish(t)
    /\ UNCHANGED <<content, rez, locked, rows, trouble>>

MoveRezAnswered(t) ==
    /\ Answered(t, "moveRez")
    /\ Finish(t)
    /\ UNCHANGED <<content, rez, locked, rows, trouble>>

\* A slip: the second name is taken without a look.
ProbeAnsweredAhead(t) ==
    LET names == CopyNames[job[t].item.name] IN
    /\ Answered(t, "probe")
    /\ \/ job[t].answer = "absent" /\ Call(t, "copy")
       \/ job[t].answer = "failed" /\ Finish(t)
       \/ /\ job[t].answer = "ok" /\ 2 <= Len(names)
          /\ job' = [job EXCEPT ![t].to = names[2], ![t].pc = "copy", ![t].answer = "waiting"]
    /\ UNCHANGED <<content, rez, locked, rows, trouble>>

\* CDuplicateItemsThread: the first name that is free.  The search has no end in the code;
\* here it has as many names as the constant says.
ProbeAnswered(t) ==
    LET names == CopyNames[job[t].item.name]  next == job[t].tries + 2 IN
    /\ Answered(t, "probe")
    /\ \/ job[t].answer = "absent" /\ Call(t, "copy") /\ UNCHANGED trouble
       \/ job[t].answer = "failed" /\ Finish(t) /\ UNCHANGED trouble
       \/ /\ job[t].answer = "ok" /\ next <= Len(names)
          /\ job' = [job EXCEPT ![t].to = names[next], ![t].tries = @ + 1, ![t].answer = "waiting"]
          /\ Noted(When(Clash(t, {names[next]}), "overlap"))
    /\ UNCHANGED <<content, rez, locked, rows>>

CopyAnswered(t) ==
    /\ Answered(t, "copy")
    /\ IF job[t].answer = "ok" THEN Call(t, "props") ELSE Finish(t)
    /\ UNCHANGED <<content, rez, locked, rows, trouble>>

\* CCreateCollectionThread: the user is told that the name is taken; a check that failed
\* does not count.
CheckAnswered(t) ==
    /\ Answered(t, "check")
    /\ IF job[t].answer = "ok" THEN Finish(t) ELSE Call(t, "create")
    /\ UNCHANGED <<content, rez, locked, rows, trouble>>

CreateAnswered(t) ==
    /\ Answered(t, "create")
    /\ IF job[t].answer = "ok" THEN Call(t, "props") ELSE Finish(t)
    /\ UNCHANGED <<content, rez, locked, rows, trouble>>

\* msg_DAVItemsAdded, with or without properties.
PropsAnswered(t) ==
    /\ Answered(t, "props")
    /\ rows' = [rows EXCEPT ![[name |-> job[t].to, shows |-> job[t].seen]] = @ + 1]
    /\ Finish(t)
    /\ UNCHANGED <<content, rez, locked, trouble>>
-----------------------------------------------------------------------------
\* The server (RFC 2518).  While this client has the lock of the collection nothing is
\* added to it or taken from it without the token.

\* DAVTypes::F, the default of a copy and a move.
Overwrite == FALSE

\* The token of the collection goes along with the URL of what is to be made.
NamesParent == FALSE

Respond(t, a) == job' = [job EXCEPT ![t].answer = a]

ServeMove(t) ==
    LET src == job[t].item.name  dest == job[t].to IN
    IF content[src] = "none" \/ (content[dest] # "none" /\ ~Overwrite) \/ locked
    THEN /\ Respond(t, "failed")
         /\ Noted(When(content[src] = "none", "gone") \cup When(content[dest] # "none", "taken")
                  \cup When(locked, "refused"))
         /\ UNCHANGED content
    ELSE /\ content' = [content EXCEPT ![dest] = content[src], ![src] = "none"]
         /\ Respond(t, "ok") /\ UNCHANGED trouble

\* The fork replaces what there is at the new name.
ServeMoveRez(t) ==
    LET src == job[t].item.name  dest == job[t].to IN
    IF rez[src] = "none" \/ locked
    THEN Respond(t, "failed") /\ UNCHANGED <<rez, trouble>>
    ELSE /\ rez' = [rez EXCEPT ![dest] = rez[src], ![src] = "none"]
         /\ Respond(t, "ok") /\ Noted(When(rez[dest] # "none", "forkLost"))

ServeCopy(t) ==
    LET src == job[t].item.name  dest == job[t].to IN
    IF content[src] = "none" \/ (content[dest] # "none" /\ ~Overwrite) \/ locked
    THEN /\ Respond(t, "failed") /\ UNCHANGED content
         /\ Noted(When(content[dest] # "none", "copyLate"))
    ELSE content' = [content EXCEPT ![dest] = content[src]] /\ Respond(t, "ok") /\ UNCHANGED trouble

ServeCreate(t) ==
    LET dest == job[t].to IN
    IF content[dest] # "none" \/ (locked /\ ~NamesParent)
    THEN /\ Respond(t, "failed") /\ UNCHANGED content
         /\ Noted({IF content[dest] = "none" THEN "unnamed" ELSE "folderLate"})
    ELSE content' = [content EXCEPT ![dest] = "folder"] /\ Respond(t, "ok") /\ UNCHANGED trouble

Exists(t, there) == Respond(t, IF there THEN "ok" ELSE "absent") /\ UNCHANGED <<content, rez, trouble>>

ServeProps(t) ==
    /\ IF content[job[t].to] = "none" THEN Respond(t, "failed")
       ELSE job' = [job EXCEPT ![t].answer = "ok", ![t].seen = content[job[t].to]]
    /\ UNCHANGED <<content, rez, trouble>>

Serve(t) ==
    /\ job[t].answer = "waiting"
    /\ \/ job[t].pc = "move" /\ ServeMove(t) /\ UNCHANGED rez
       \/ job[t].pc = "exists" /\ Exists(t, rez[job[t].item.name] # "none")
       \/ job[t].pc = "moveRez" /\ ServeMoveRez(t) /\ UNCHANGED content
       \/ job[t].pc \in {"probe", "check"} /\ Exists(t, content[job[t].to] # "none")
       \/ job[t].pc = "copy" /\ ServeCopy(t) /\ UNCHANGED rez
       \/ job[t].pc = "create" /\ ServeCreate(t) /\ UNCHANGED rez
       \/ job[t].pc = "props" /\ ServeProps(t)
    /\ UNCHANGED <<locked, rows>>

\* Something is locked, or forbidden.
Refuse(t) ==
    /\ job[t].answer = "waiting" /\ job[t].pc \in {"move", "moveRez", "copy", "create"}
    /\ Respond(t, "failed")
    /\ Noted({"refused"} \cup When(job[t].pc = "move" /\ content[job[t].to] # "none", "taken"))
    /\ UNCHANGED <<content, rez, locked, rows>>

\* The call fails for the client, whether it was processed or not (CDAVRequest).
CallFails(t) ==
    /\ job[t].pc \notin {"idle", "start"} /\ job[t].answer # "failed"
    /\ job' = [job EXCEPT ![t].answer = "failed", ![t].seen = "none"]
    /\ Noted({"lost"})
    /\ UNCHANGED <<content, rez, locked, rows>>

\* Other clients make things, and remove them, with the fork or without.
OtherMakes(n) ==
    /\ content[n] = "none" /\ ~locked
    /\ content' = [content EXCEPT ![n] = "theirs"] /\ rez' \in {rez, [rez EXCEPT ![n] = "theirs"]}
    /\ Noted({"raced"})
    /\ UNCHANGED <<locked, rows, job>>

OtherDeletes(n) ==
    /\ content[n] # "none" /\ ~locked
    /\ content' = [content EXCEPT ![n] = "none"] /\ rez' \in {rez, [rez EXCEPT ![n] = "none"]}
    /\ Noted({"raced"})
    /\ UNCHANGED <<locked, rows, job>>
-----------------------------------------------------------------------------
Command(t) ==
    \/ \E new \in Names : NewFolder(t, new)
    \/ \E r \in Rows :
          /\ rows[r] > 0
          /\ DuplicateItem(t, r) \/ \E new \in Names : Rename(t, r, new)

Thread(t) ==
    \/ Started(t) \/ MoveAnswered(t) \/ ExistsAnswered(t) \/ MoveRezAnswered(t)
    \/ ProbeAnswered(t) \/ CopyAnswered(t) \/ CheckAnswered(t) \/ CreateAnswered(t)
    \/ PropsAnswered(t)

Next ==
    \/ \E t \in Threads : Command(t) \/ Thread(t) \/ Serve(t) \/ Refuse(t) \/ CallFails(t)
    \/ \E n \in Names : OtherMakes(n) \/ OtherDeletes(n)

Spec == Init /\ [][Next]_vars
-----------------------------------------------------------------------------
AllIdle == \A t \in Threads : Idle(t)

\* The look for a free name finds one, however many commands look at a time: the server
\* refuses a copy for its name only if another client, or another command about the same
\* name, was faster than the request that follows the look, and a new collection only if
\* that was so, or its look got no answer.
NamesAreFoundFree ==
    /\ "copyLate" \in trouble => trouble \cap {"raced", "overlap"} # {}
    /\ "folderLate" \in trouble => trouble \cap {"raced", "overlap", "lost"} # {}

\* When all is done, each resource fork is beside its own file, and none was replaced,
\* however many commands ran at a time, if no rename failed and no two commands were about
\* the same name.  (The fork follows a rename whether it succeeded or not, and stays
\* behind if encodings are switched off.)
ForksStayWithTheirFiles ==
    Encoding /\ trouble \subseteq {"unnamed", "forkLost"} =>
        /\ "forkLost" \notin trouble
        /\ AllIdle => \A n \in Names : rez[n] # "none" => content[n] = rez[n]

\* When all is done, the window has one row for each thing there is, with its own
\* properties, even after renames that were refused and taken back.
RowsTellTheTruth ==
    AllIdle /\ trouble \subseteq {"refused", "unnamed"} =>
        \A r \in Rows : rows[r] = IF Shown(r) THEN 1 ELSE 0

\* What the list of finished work says: a new collection is made with the lock of the
\* collection it is made in, if this client has it.
NewFolderSendsTheLock == "unnamed" \notin trouble
=============================================================================
