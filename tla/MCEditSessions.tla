--------------------------- MODULE MCEditSessions ---------------------------
(***************************************************************************)
(* EditSessions for TLC: the threads are interchangeable.                  *)
(***************************************************************************)
EXTENDS EditSessions, TLC

Symmetric == Permutations(Threads)

\* At most two kinds of trouble meet; threads that cross are trouble enough.
TwoTroubles ==
    /\ Cardinality(trouble) <= 2
    /\ "race" \in trouble => trouble = {"race"}
=============================================================================
