----------------------------- MODULE MCUploads -----------------------------
(***************************************************************************)
(* Uploads for TLC: a file beside a folder with a file in a folder in it.  *)
(* The file's name is not ASCII.                                            *)
(***************************************************************************)
EXTENDS Uploads, FiniteSets, TLC

CONSTANTS note, folder, sub, inner

MCFiles == {note, inner}
MCFolders == {folder, sub}
MCChildren == folder :> <<sub>> @@ sub :> <<inner>>
MCMisnamed == {note}
MCSelections == {<<note>>, <<folder, note>>}

\* One thing goes wrong, and something because of it.
OneTrouble == Cardinality(trouble) <= 1

\* Other clients rest between uploads, since the first finds the server in any state, and
\* wait with what they do to a resource for a call about it, or what it is in, or is in it.
About(i, j) == i = j \/ (j \in Folders /\ i \in Within[j])
OthersRest ==
    \/ server' = server \/ answer' # answer
    \/ /\ ~Idle /\ trouble = {} /\ answer = "waiting"
       /\ \E r \in Resources : /\ About(r[1], todo[1]) \/ About(todo[1], r[1])
                               /\ <<content[r], lock[r]>> # <<content'[r], lock'[r]>>
\* After an upload in which something else went wrong, none follows.
LastCommand == Idle /\ trouble \ {"orphan", "leftover", "ended"} # {} => Idle'
=============================================================================
