---------------------------- MODULE MCDownloads ----------------------------
(***************************************************************************)
(* Downloads for TLC: a file beside a folder with a folder with a file in   *)
(* it.  The URL of the outer folder begins with that of the file, as "/ab/"  *)
(* does with "/a".                                                           *)
(***************************************************************************)
EXTENDS Downloads, TLC

CONSTANTS note, folder, sub, inner

MCFiles == {note, inner}
MCFolders == {folder, sub}
MCChildren == folder :> {sub} @@ sub :> {inner}
MCSelections == {{note}, {folder, sub}, {note, folder}}
MCBeginsWith == {<<inner, sub>>, <<sub, folder>>, <<inner, folder>>} \cup ({folder, sub, inner} \X {note})

\* One thing goes wrong, and something because of it.
OneTrouble == Cardinality(trouble) <= 1

\* Other clients rest between commands, since the first finds the server in any state, and
\* wait with what they do to a resource for a call about it, or about what it is in.
UnderWay == IF todo = <<>> THEN rest[1] ELSE todo[1][1]
OthersRest ==
    \/ server' = server \/ answer' # answer
    \/ /\ ~Idle /\ trouble = {} /\ answer = "waiting"
       /\ \E r \in Resources : (r[1] = UnderWay \/ Inside(r[1], UnderWay))
                               /\ <<content[r], lock[r]>> # <<content'[r], lock'[r]>>

\* The rows of the window are sorted in one order; what a listing brings is not.
RowsAreSorted == pick' # <<folder, note>>
\* A command in which something went wrong ends, and is the last one.
LastCommand == Idle /\ trouble # {} => Idle'
=============================================================================
