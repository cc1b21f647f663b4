--------------------------- MODULE MCFileCommands ---------------------------
(***************************************************************************)
(* FileCommands for TLC: two files (or none), a free name, and a name for a *)
(* copy of the first.                                                       *)
(***************************************************************************)
EXTENDS FileCommands, FiniteSets, TLC

CONSTANTS ann, bob, copy, t1, t2

MCNames == {ann, bob, copy}
MCThreads == {t1, t2}
MCCopyNames == ann :> <<copy, bob>> @@ bob :> <<copy>> @@ copy :> <<>>

\* One thing goes wrong, and something because of it; then the commands under way are the
\* last, and other clients rest.
OneTrouble == Cardinality(trouble) <= 1
LastCommands == trouble # {} => job' # job /\ \A t \in Threads : Idle(t) => Idle(t)'

Symmetric == Permutations(MCThreads)
=============================================================================
