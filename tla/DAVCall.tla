------------------------------ MODULE DAVCall ------------------------------
(***************************************************************************)
(* What a WebDAV transaction promises to the thread that calls it, without *)
(* the connection, the retry loop and the reading of answers: the caller   *)
(* issues the call and waits; meanwhile the server may process it, and a   *)
(* second time only if something went wrong with the first answer; then    *)
(* the call returns, and SUCCESS is only for what was processed.  It says  *)
(* nothing of the data a call brings: see GetDeliversTheResource.          *)
(*                                                                         *)
(* The threads are modelled against this contract in ClientLocks,          *)
(* EditSessions, Uploads, Downloads and FileCommands; DAVRequest is shown  *)
(* to keep it.                                                             *)
(***************************************************************************)
EXTENDS Naturals

VARIABLES
    waiting,    \* the caller waits for the call to return
    outcome,    \* what the last call returned
    done,       \* how often the server processed the call (2: or more)
    mishaps,    \* what went wrong and may excuse a repetition or a wrong belief
    cancelled,  \* somebody has called CancelTransaction()
    doomed      \* the call was issued after that

vars == <<waiting, outcome, done, mishaps, cancelled, doomed>>

Outcomes == {"SUCCESS", "WARNING", "FAILURE", "CANCEL", "XMLERROR"}

\* lost: an answer did not arrive; unclosed: it did, and an exception came after it;
\* misread: an answer was taken from a connection that is out of step.
Mishaps == {"lost", "unclosed", "misread"}

Init ==
    /\ waiting = FALSE /\ outcome = "none"
    /\ done = 0 /\ mishaps = {}
    /\ cancelled = FALSE /\ doomed = FALSE

Issue ==
    /\ ~waiting /\ waiting' = TRUE
    /\ outcome' = "none" /\ done' = 0
    /\ mishaps' = {}
    /\ doomed' = cancelled
    /\ UNCHANGED cancelled

Cancel ==
    /\ cancelled' = TRUE
    /\ UNCHANGED <<waiting, outcome, done, mishaps, doomed>>

Process ==
    /\ waiting /\ ~doomed
    /\ done > 0 => mishaps \cap {"lost", "unclosed"} # {}
    /\ done' = IF done < 2 THEN done + 1 ELSE 2
    /\ UNCHANGED <<waiting, outcome, mishaps, cancelled, doomed>>

\* The server sends the caller to another place; nothing has been done there yet.
SentElsewhere ==
    /\ waiting /\ done' = 0
    /\ UNCHANGED <<waiting, outcome, mishaps, cancelled, doomed>>

\* An answer can be lost only after there was one to lose, unless it is not its own.
Mishap ==
    /\ waiting
    /\ \E m \in Mishaps :
          /\ m # "misread" /\ "misread" \notin mishaps => done > 0
          /\ mishaps' = mishaps \cup {m}
    /\ UNCHANGED <<waiting, outcome, done, cancelled, doomed>>

Return(how) ==
    /\ waiting /\ waiting' = FALSE
    /\ outcome' = how
    /\ how = "SUCCESS" => ~doomed /\ (done > 0 \/ "misread" \in mishaps)
    /\ how = "CANCEL" => cancelled
    /\ UNCHANGED <<done, mishaps, cancelled, doomed>>

Next ==
    \/ Issue \/ Cancel \/ Process \/ SentElsewhere \/ Mishap
    \/ \E how \in Outcomes : Return(how)

Spec == Init /\ [][Next]_vars
=============================================================================
