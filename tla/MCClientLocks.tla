--------------------------- MODULE MCClientLocks ---------------------------
(***************************************************************************)
(* ClientLocks for TLC: threads and windows are interchangeable.           *)
(***************************************************************************)
EXTENDS ClientLocks, TLC

Symmetric == Permutations(Threads) \cup Permutations(Windows)

\* Every property of the run says nothing once two kinds of trouble have met.
OneTrouble == Cardinality(trouble) <= 1
=============================================================================
