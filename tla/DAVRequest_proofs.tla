------------------------- MODULE DAVRequest_proofs -------------------------
(***************************************************************************)
(* Theorems about DAVRequest, for every set of methods, codes and framings *)
(* and every bound on redirects.                                           *)
(***************************************************************************)
EXTENDS DAVRequest, TLAPS

\* Whatever the code and the outcome of the parser, a status test ends in one of
\* the statuses; on the code 0 of a response that was never read it is no success.
LEMMA StatusOfType ==
    ASSUME NEW o, NEW c, NEW parse
    PROVE  /\ StatusOf(o, c, parse) \in Statuses
           /\ c = 0 => StatusOf(o, c, parse) # "SUCCESS"
  BY DEF StatusOf, Statuses, Pick, PickXML, OptionsStatus, ExistsStatus,
         PropFindStatus, ListDirectoryStatus, PropPatchStatus, MkColStatus,
         DeleteStatus, CopyStatus, MoveStatus, PutStatus, GetStatus, LockStatus,
         UnlockStatus

\* What a response object can hold: nothing yet, an answer, or what the bytes left
\* on a connection parse to.
LEMMA ResponseTypes ==
    /\ NoResponse \in Responses
    /\ Answers \subseteq Responses
    /\ \A c \in Codes \cup {0}, f \in Framings :
          [code |-> c, framing |-> f, after |-> "keep"] \in Responses
  BY ConstantsAssumption DEF NoResponse, Responses, Answers, AllFramings

\* The initial states are typed.
LEMMA TypeInit == Init => TypeOK
<1> USE ConstantsAssumption DEF PCs
<1> SUFFICES ASSUME Init PROVE TypeOK
  OBVIOUS
<1>1. response \in Responses /\ pending \in Responses
  BY ResponseTypes DEF Init
<1>2. /\ persistent \in BOOLEAN /\ mAttemptRetry \in BOOLEAN
      /\ mCancel \in BOOLEAN /\ netUp \in BOOLEAN
  BY DEF Init
<1> QED
  BY <1>1, <1>2 DEF Init, TypeOK

\* Every step keeps the types, one case per action.
LEMMA TypeStep == TypeOK /\ [Next]_vars => TypeOK'
<1> USE ConstantsAssumption DEF PCs
<1> SUFFICES ASSUME TypeOK, [Next]_vars PROVE TypeOK'
  OBVIOUS
<1>1. ASSUME NEW o \in Ops, Begin(o) PROVE TypeOK'
  <2>1. response' \in Responses /\ pending' \in Responses /\ mAttemptRetry' \in BOOLEAN
    BY <1>1, ResponseTypes DEF Begin
  <2> QED
    BY <1>1, <2>1 DEF TypeOK, Begin, When, PastFacts
<1>2. ASSUME NEW r \in Answers, Serve(r) PROVE TypeOK'
  <2>1. pending' \in Responses
    BY <1>2, ResponseTypes DEF Serve
  <2>2. served' \in 0..2
    BY <1>2 DEF TypeOK, Serve
  <2> QED
    BY <1>2, <2>1, <2>2 DEF TypeOK, Serve
<1>3. CASE CancelTransaction
  BY <1>3 DEF TypeOK, history, CancelTransaction
<1>4. CASE OpenConnection
  <2>1. mAttemptRetry' \in BOOLEAN
    BY <1>4 DEF OpenConnection
  <2> QED
    BY <1>4, <2>1 DEF TypeOK, history, OpenConnection
<1>5. CASE Connected
  BY <1>5 DEF TypeOK, history, Connected, ConnectionFacts
<1>6. CASE ConnectFails
  BY <1>6 DEF TypeOK, history, ConnectFails
<1>7. CASE SendCancelled
  BY <1>7, ResponseTypes DEF TypeOK, history, SendCancelled
<1>8. CASE SendFails
  BY <1>8, ResponseTypes DEF TypeOK, history, SendFails, When, PastFacts, ConnectionFacts
<1>9. CASE SendRequest
  BY <1>9, ResponseTypes DEF TypeOK, history, SendRequest
<1>10. CASE SendDone
  <2>1. conn' \subseteq ConnectionFacts /\ wire' \in {"none", "request", "reply"}
    BY <1>10 DEF TypeOK, SendDone, ConnectionFacts
  <2>2. pc' \in PCs
    BY <1>10 DEF TypeOK, SendDone
  <2> QED
    BY <1>10, <2>1, <2>2 DEF TypeOK, history, SendDone
<1>11. CASE ReadHeader
  <2>1. response' \in Responses
    BY <1>11, ResponseTypes DEF TypeOK, ReadHeader
  <2>2. past' \subseteq PastFacts
    BY <1>11 DEF TypeOK, ReadHeader, When, PastFacts
  <2>3. reply' \in {"none", "partial", "stale", "own"}
    BY <1>11 DEF TypeOK, history, ReadHeader
  <2> QED
    BY <1>11, <2>1, <2>2, <2>3 DEF TypeOK, history, ReadHeader
<1>12. CASE ReadHeaderFails
  BY <1>12 DEF TypeOK, history, ReadHeaderFails, When, PastFacts, ConnectionFacts
<1>13. CASE ReadBody
  BY <1>13 DEF TypeOK, history, ReadBody, Write, When, LeavesBytes, NothingToRead, ReadToItsEnd, ConnectionFacts, PastFacts
<1>14. CASE ReadBodyCancelled
  BY <1>14 DEF TypeOK, history, ReadBodyCancelled, Write, ConnectionFacts
<1>15. CASE ReadBodyFails
  <2>1. conn' \subseteq ConnectionFacts /\ past' \subseteq PastFacts
    BY <1>15 DEF TypeOK, ReadBodyFails, ConnectionFacts, PastFacts, ReadToItsEnd
  <2>2. file' \in {"empty", "partial", "whole", "garbled"}
    BY <1>15 DEF TypeOK, ReadBodyFails, Write, ReadToItsEnd
  <2>3. pc' \in PCs /\ exc' \in {"none", "net", "ssl"}
    BY <1>15 DEF TypeOK, ReadBodyFails, ReadToItsEnd
  <2> QED
    BY <1>15, <2>1, <2>2, <2>3 DEF TypeOK, history, ReadBodyFails, ReadToItsEnd
<1>16. CASE FinishMethod
  BY <1>16 DEF TypeOK, history, FinishMethod, Redirects, When, ConnectionFacts
<1>17. CASE FinishFails
  BY <1>17 DEF TypeOK, history, FinishFails, PastFacts, When
<1>18. CASE CatchMethod
  <2>1. conn' \subseteq ConnectionFacts
    BY <1>18 DEF TypeOK, CatchMethod, ConnectionFacts
  <2>2. past' \subseteq PastFacts
    BY <1>18 DEF TypeOK, CatchMethod, PastFacts
  <2> QED
    BY <1>18, <2>1, <2>2 DEF TypeOK, history, CatchMethod
<1>19. CASE Leave
  <2>1. persistent' \in BOOLEAN /\ mAttemptRetry' \in BOOLEAN
    BY <1>19 DEF TypeOK, Leave, DestroyStConnection
  <2> QED
    BY <1>19, <2>1 DEF TypeOK, history, Leave, DestroyStConnection, Statuses
<1>20. CASE Unwind
  <2>1. persistent' \in BOOLEAN /\ mAttemptRetry' \in BOOLEAN
    BY <1>20 DEF TypeOK, Unwind, DestroyStConnection
  <2> QED
    BY <1>20, <2>1 DEF TypeOK, history, Unwind, DestroyStConnection, Statuses
<1>21. CASE Judge
  BY <1>21, StatusOfType DEF TypeOK, history, Judge
<1>22. CASE NetworkChanges
  BY <1>22 DEF TypeOK, history, NetworkChanges
<1>23. CASE PeerCloses
  BY <1>23 DEF TypeOK, history, PeerCloses
<1>24. CASE UNCHANGED vars
  BY <1>24 DEF TypeOK, vars, history
<1> QED
  BY <1>1, <1>2, <1>3, <1>4, <1>5, <1>6, <1>7, <1>8, <1>9, <1>10, <1>11, <1>12, <1>13, <1>14, <1>15, <1>16, <1>17, <1>18, <1>19, <1>20, <1>21, <1>22, <1>23, <1>24 DEF Next, Client

\* The variables keep their types: the facts about the connection, the response
\* and the server's answer stay well formed through every exception path.
THEOREM TypeCorrect == Spec => []TypeOK
  BY TypeInit, TypeStep, PTL DEF Spec
-----------------------------------------------------------------------------
\* Inductive strengthenings of five of the invariants of DAVRequest.

\* Where ~StConnection has asked for a retry there is no persistent connection.
RetryInv == mAttemptRetry => ~persistent

\* A transaction begun with mCancel set never gets past SendData.
MuteInv ==
    "muted" \in past =>
        /\ mCancel
        /\ served = 0 /\ wire = "none" /\ response.code = 0
        /\ pc \notin {"sending", "wait", "body"}
        /\ result # "SUCCESS"

\* The request was processed already only when its answer is on the way, was read or
\* was lost, or when nothing is sent any more.  An exchange that is over without the
\* end of an answer was canceled.
RepeatInv ==
    LET excused == past \cap {"lost", "unclosed"} # {} IN
    /\ served > 1 => excused
    /\ served > 0 => \/ excused
                     \/ pc \in {"sending", "wait"} /\ wire = "reply"
                     \/ pc \in {"body", "after", "leave", "judge", "idle"}
                     \/ mCancel /\ pc \notin {"sending", "wait"}
    /\ pc = "after" /\ reply \notin {"own", "stale"} => mCancel

\* A connection with something of an unfinished exchange on it is one the handler has
\* yet to close or has closed, or one the code knows no better about.
ConnectionInv ==
    "dirty" \in conn =>
        \/ conn \cap {"bare", "stuck"} # {}
        \/ pc = "failed"
        \/ pc = "unwind" /\ "wasClosed" \in conn
        \/ mCancel /\ pc \notin {"sending", "wait"}

\* Where a status test is ahead, a code in the response is the server's; where the
\* exchange has not got that far, or has failed, there is none.
AnswerInv ==
    LET own == served > 0 /\ response.code = pending.code IN
    /\ wire = "reply" => served > 0
    /\ pc \in {"sending", "wait"} => response.code = 0
    /\ persistent /\ (pc = "open" \/ (pc = "connect" /\ hops = 0)) => response.code = 0
    /\ persistent /\ pc = "unwind" /\ "wasClosed" \notin conn =>
          response.code = 0 \/ "stuck" \in past
    /\ Returned("SUCCESS") => response.code # 0
    /\ reply = "stale" => "misread" \in past
    /\ "misread" \notin past =>
        /\ pc = "body" => served > 0
        /\ reply = "own" => served > 0
        /\ \/ pc \in {"body", "after", "leave", "judge"}
           \/ Returned("SUCCESS")
           \/ pc = "failed" /\ hops = 0
           \/ persistent /\ pc = "unwind" /\ "wasClosed" \notin conn
           => response.code = 0 \/ own

IInv == TypeOK /\ RetryInv /\ MuteInv /\ RepeatInv /\ ConnectionInv /\ AnswerInv

\* The retry flag and the persistent connection exclude each other after every step.
LEMMA RetryInvStep == IInv /\ [Next]_vars => RetryInv'
<1> SUFFICES ASSUME IInv, [Next]_vars PROVE RetryInv'
  OBVIOUS
<1> USE DEF IInv, TypeOK, RetryInv, history
<1>1. ASSUME NEW o \in Ops, Begin(o) PROVE RetryInv'
  BY <1>1 DEF Begin, When
<1>2. ASSUME NEW r \in Answers, Serve(r) PROVE RetryInv'
  BY <1>2 DEF Serve
<1>3. CASE CancelTransaction
  BY <1>3 DEF CancelTransaction
<1>4. CASE OpenConnection
  BY <1>4 DEF OpenConnection
<1>5. CASE Connected
  BY <1>5 DEF Connected
<1>6. CASE ConnectFails
  BY <1>6 DEF ConnectFails
<1>7. CASE SendCancelled
  BY <1>7 DEF SendCancelled
<1>8. CASE SendFails
  BY <1>8 DEF SendFails, When
<1>9. CASE SendRequest
  BY <1>9 DEF SendRequest
<1>10. CASE SendDone
  BY <1>10 DEF SendDone
<1>11. CASE ReadHeader
  BY <1>11 DEF ReadHeader, When
<1>12. CASE ReadHeaderFails
  BY <1>12 DEF ReadHeaderFails, When
<1>13. CASE ReadBody
  BY <1>13 DEF ReadBody, When, LeavesBytes, NothingToRead, ReadToItsEnd
<1>14. CASE ReadBodyCancelled
  BY <1>14 DEF ReadBodyCancelled
<1>15. CASE ReadBodyFails
  BY <1>15 DEF ReadBodyFails, ReadToItsEnd
<1>16. CASE FinishMethod
  BY <1>16 DEF FinishMethod, Redirects, When
<1>17. CASE FinishFails
  BY <1>17 DEF FinishFails, When
<1>18. CASE CatchMethod
  BY <1>18 DEF CatchMethod
<1>19. CASE Leave
  BY <1>19 DEF Leave, DestroyStConnection, DropsConnection
<1>20. CASE Unwind
  BY <1>20 DEF Unwind, DestroyStConnection, DropsConnection
<1>21. CASE Judge
  BY <1>21 DEF Judge
<1>22. CASE NetworkChanges
  BY <1>22 DEF NetworkChanges
<1>23. CASE PeerCloses
  BY <1>23 DEF PeerCloses
<1>24. CASE UNCHANGED vars
  BY <1>24 DEF vars
<1> QED
  BY <1>1, <1>2, <1>3, <1>4, <1>5, <1>6, <1>7, <1>8, <1>9, <1>10, <1>11, <1>12, <1>13, <1>14, <1>15, <1>16, <1>17, <1>18, <1>19, <1>20, <1>21, <1>22, <1>23, <1>24 DEF Next, Client

\* A muted transaction stays muted.
LEMMA MuteInvStep == IInv /\ [Next]_vars => MuteInv'
<1> SUFFICES ASSUME IInv, [Next]_vars PROVE MuteInv'
  OBVIOUS
<1> USE DEF IInv, TypeOK, MuteInv, history
<1>1. ASSUME NEW o \in Ops, Begin(o) PROVE MuteInv'
  BY <1>1 DEF Begin, When, NoResponse
<1>2. ASSUME NEW r \in Answers, Serve(r) PROVE MuteInv'
  BY <1>2 DEF Serve
<1>3. CASE CancelTransaction
  BY <1>3 DEF CancelTransaction
<1>4. CASE OpenConnection
  BY <1>4 DEF OpenConnection
<1>5. CASE Connected
  BY <1>5 DEF Connected
<1>6. CASE ConnectFails
  BY <1>6 DEF ConnectFails
<1>7. CASE SendCancelled
  BY <1>7 DEF SendCancelled, NoResponse
<1>8. CASE SendFails
  BY <1>8 DEF SendFails, When, NoResponse
<1>9. CASE SendRequest
  BY <1>9 DEF SendRequest, NoResponse
<1>10. CASE SendDone
  BY <1>10 DEF SendDone
<1>11. CASE ReadHeader
  BY <1>11 DEF ReadHeader, When
<1>12. CASE ReadHeaderFails
  BY <1>12 DEF ReadHeaderFails, When
<1>13. CASE ReadBody
  BY <1>13 DEF ReadBody, When, LeavesBytes, NothingToRead, ReadToItsEnd
<1>14. CASE ReadBodyCancelled
  BY <1>14 DEF ReadBodyCancelled
<1>15. CASE ReadBodyFails
  BY <1>15 DEF ReadBodyFails, ReadToItsEnd
<1>16. CASE FinishMethod
  BY <1>16 DEF FinishMethod, Redirects, When
<1>17. CASE FinishFails
  BY <1>17 DEF FinishFails, When
<1>18. CASE CatchMethod
  BY <1>18 DEF CatchMethod
<1>19. CASE Leave
  BY <1>19 DEF Leave, DestroyStConnection, DropsConnection
<1>20. CASE Unwind
  BY <1>20 DEF Unwind, DestroyStConnection, DropsConnection
<1>21. CASE Judge
  BY <1>21, StatusOfType DEF Judge
<1>22. CASE NetworkChanges
  BY <1>22 DEF NetworkChanges
<1>23. CASE PeerCloses
  BY <1>23 DEF PeerCloses
<1>24. CASE UNCHANGED vars
  BY <1>24 DEF vars
<1> QED
  BY <1>1, <1>2, <1>3, <1>4, <1>5, <1>6, <1>7, <1>8, <1>9, <1>10, <1>11, <1>12, <1>13, <1>14, <1>15, <1>16, <1>17, <1>18, <1>19, <1>20, <1>21, <1>22, <1>23, <1>24 DEF Next, Client

\* Every step accounts for a request the server processed.
LEMMA RepeatInvStep == IInv /\ [Next]_vars => RepeatInv'
<1> SUFFICES ASSUME IInv, [Next]_vars PROVE RepeatInv'
  OBVIOUS
<1> USE DEF IInv, TypeOK, RepeatInv, history
<1>1. ASSUME NEW o \in Ops, Begin(o) PROVE RepeatInv'
  BY <1>1 DEF Begin, When
<1>2. ASSUME NEW r \in Answers, Serve(r) PROVE RepeatInv'
  BY <1>2 DEF Serve
<1>3. CASE CancelTransaction
  BY <1>3 DEF CancelTransaction
<1>4. CASE OpenConnection
  BY <1>4 DEF OpenConnection
<1>5. CASE Connected
  BY <1>5 DEF Connected
<1>6. CASE ConnectFails
  BY <1>6 DEF ConnectFails
<1>7. CASE SendCancelled
  BY <1>7 DEF SendCancelled
<1>8. CASE SendFails
  BY <1>8 DEF SendFails, When
<1>9. CASE SendRequest
  BY <1>9 DEF SendRequest
<1>10. CASE SendDone
  BY <1>10 DEF SendDone
<1>11. CASE ReadHeader
  BY <1>11 DEF ReadHeader, When
<1>12. CASE ReadHeaderFails
  BY <1>12 DEF ReadHeaderFails, When
<1>13. CASE ReadBody
  BY <1>13 DEF ReadBody, When, LeavesBytes, NothingToRead, ReadToItsEnd
<1>14. CASE ReadBodyCancelled
  BY <1>14 DEF ReadBodyCancelled
<1>15. CASE ReadBodyFails
  BY <1>15 DEF ReadBodyFails, ReadToItsEnd
<1>16. CASE FinishMethod
  BY <1>16 DEF FinishMethod, Redirects, When
<1>17. CASE FinishFails
  BY <1>17 DEF FinishFails, When
<1>18. CASE CatchMethod
  BY <1>18 DEF CatchMethod
<1>19. CASE Leave
  BY <1>19 DEF Leave, DestroyStConnection, DropsConnection
<1>20. CASE Unwind
  BY <1>20 DEF Unwind, DestroyStConnection, DropsConnection
<1>21. CASE Judge
  BY <1>21 DEF Judge
<1>22. CASE NetworkChanges
  BY <1>22 DEF NetworkChanges
<1>23. CASE PeerCloses
  BY <1>23 DEF PeerCloses
<1>24. CASE UNCHANGED vars
  BY <1>24 DEF vars
<1> QED
  BY <1>1, <1>2, <1>3, <1>4, <1>5, <1>6, <1>7, <1>8, <1>9, <1>10, <1>11, <1>12, <1>13, <1>14, <1>15, <1>16, <1>17, <1>18, <1>19, <1>20, <1>21, <1>22, <1>23, <1>24 DEF Next, Client

\* Every step accounts for what is left on the connection.
LEMMA ConnectionInvStep == IInv /\ [Next]_vars => ConnectionInv'
<1> SUFFICES ASSUME IInv, [Next]_vars PROVE ConnectionInv'
  OBVIOUS
<1> USE DEF IInv, TypeOK, ConnectionInv, history
<1>1. ASSUME NEW o \in Ops, Begin(o) PROVE ConnectionInv'
  BY <1>1 DEF Begin, When
<1>2. ASSUME NEW r \in Answers, Serve(r) PROVE ConnectionInv'
  BY <1>2 DEF Serve
<1>3. CASE CancelTransaction
  BY <1>3 DEF CancelTransaction
<1>4. CASE OpenConnection
  BY <1>4 DEF OpenConnection
<1>5. CASE Connected
  BY <1>5 DEF Connected
<1>6. CASE ConnectFails
  BY <1>6 DEF ConnectFails
<1>7. CASE SendCancelled
  BY <1>7 DEF SendCancelled
<1>8. CASE SendFails
  BY <1>8 DEF SendFails, When
<1>9. CASE SendRequest
  BY <1>9 DEF SendRequest
<1>10. CASE SendDone
  BY <1>10 DEF SendDone
<1>11. CASE ReadHeader
  BY <1>11 DEF ReadHeader, When
<1>12. CASE ReadHeaderFails
  BY <1>12 DEF ReadHeaderFails, When
<1>13. CASE ReadBody
  BY <1>13 DEF ReadBody, When, LeavesBytes, NothingToRead, ReadToItsEnd
<1>14. CASE ReadBodyCancelled
  BY <1>14 DEF ReadBodyCancelled
<1>15. CASE ReadBodyFails
  BY <1>15 DEF ReadBodyFails, ReadToItsEnd
<1>16. CASE FinishMethod
  BY <1>16 DEF FinishMethod, Redirects, When
<1>17. CASE FinishFails
  BY <1>17 DEF FinishFails, When
<1>18. CASE CatchMethod
  BY <1>18 DEF CatchMethod
<1>19. CASE Leave
  BY <1>19 DEF Leave, DestroyStConnection, DropsConnection, RetryInv
<1>20. CASE Unwind
  BY <1>20 DEF Unwind, DestroyStConnection, DropsConnection, RetryInv
<1>21. CASE Judge
  BY <1>21 DEF Judge
<1>22. CASE NetworkChanges
  BY <1>22 DEF NetworkChanges
<1>23. CASE PeerCloses
  BY <1>23 DEF PeerCloses
<1>24. CASE UNCHANGED vars
  BY <1>24 DEF vars
<1> QED
  BY <1>1, <1>2, <1>3, <1>4, <1>5, <1>6, <1>7, <1>8, <1>9, <1>10, <1>11, <1>12, <1>13, <1>14, <1>15, <1>16, <1>17, <1>18, <1>19, <1>20, <1>21, <1>22, <1>23, <1>24 DEF Next, Client

\* Every step keeps the response and the server's answer together.
LEMMA AnswerInvStep == IInv /\ [Next]_vars => AnswerInv'
<1> SUFFICES ASSUME IInv, [Next]_vars PROVE AnswerInv'
  OBVIOUS
<1> USE DEF IInv, TypeOK, AnswerInv, Returned, history
<1>1. ASSUME NEW o \in Ops, Begin(o) PROVE AnswerInv'
  BY <1>1 DEF Begin, When, NoResponse
<1>2. ASSUME NEW r \in Answers, Serve(r) PROVE AnswerInv'
  BY <1>2 DEF Serve
<1>3. CASE CancelTransaction
  BY <1>3 DEF CancelTransaction
<1>4. CASE OpenConnection
  BY <1>4 DEF OpenConnection
<1>5. CASE Connected
  BY <1>5 DEF Connected
<1>6. CASE ConnectFails
  BY <1>6 DEF ConnectFails
<1>7. CASE SendCancelled
  BY <1>7 DEF SendCancelled, NoResponse
<1>8. CASE SendFails
  BY <1>8 DEF SendFails, When, NoResponse
<1>9. CASE SendRequest
  BY <1>9 DEF SendRequest, NoResponse
<1>10. CASE SendDone
  BY <1>10 DEF SendDone
<1>11. CASE ReadHeader
  <2>1. pc = "wait" /\ pc' = "body" /\ UNCHANGED <<wire, served, pending, conn, persistent>>
    BY <1>11 DEF ReadHeader
  <2>2. CASE "dirty" \in conn
    <3>1. conn \cap {"bare", "stuck"} # {}
      BY <2>1, <2>2 DEF ConnectionInv
    <3>2. "misread" \in past'
      BY <1>11, <2>2, <3>1 DEF ReadHeader, When
    <3> QED
      BY <2>1, <3>2
  <2>3. CASE "dirty" \notin conn
    <3>1. wire = "reply" /\ response' = pending /\ reply' = "partial" /\ UNCHANGED past
      BY <1>11, <2>3 DEF ReadHeader
    <3> QED
      BY <2>1, <3>1
  <2> QED
    BY <2>2, <2>3
<1>12. CASE ReadHeaderFails
  BY <1>12 DEF ReadHeaderFails, When
<1>13. CASE ReadBody
  BY <1>13 DEF ReadBody, When, LeavesBytes, NothingToRead, ReadToItsEnd
<1>14. CASE ReadBodyCancelled
  BY <1>14 DEF ReadBodyCancelled
<1>15. CASE ReadBodyFails
  <2>1. pc = "body" /\ UNCHANGED <<response, pending, served, wire, persistent, hops, result>>
    BY <1>15 DEF ReadBodyFails
  <2>2. CASE pc' = "failed" /\ past' = past \cup {"lost"} /\ UNCHANGED reply
    BY <2>1, <2>2
  <2>3. CASE /\ pc' = "after" /\ UNCHANGED past
             /\ reply' = IF reply = "stale" THEN "stale" ELSE "own"
    BY <2>1, <2>3
  <2> QED
    BY <1>15, <2>2, <2>3 DEF ReadBodyFails, ReadToItsEnd
<1>16. CASE FinishMethod
  BY <1>16 DEF FinishMethod, Redirects, When
<1>17. CASE FinishFails
  BY <1>17 DEF FinishFails, When
<1>18. CASE CatchMethod
  BY <1>18 DEF CatchMethod
<1>19. CASE Leave
  BY <1>19 DEF Leave, DestroyStConnection, DropsConnection
<1>20. CASE Unwind
  BY <1>20 DEF Unwind, DestroyStConnection, DropsConnection, RetryInv
<1>21. CASE Judge
  BY <1>21, StatusOfType DEF Judge
<1>22. CASE NetworkChanges
  BY <1>22 DEF NetworkChanges
<1>23. CASE PeerCloses
  BY <1>23 DEF PeerCloses
<1>24. CASE UNCHANGED vars
  BY <1>24 DEF vars
<1> QED
  BY <1>1, <1>2, <1>3, <1>4, <1>5, <1>6, <1>7, <1>8, <1>9, <1>10, <1>11, <1>12, <1>13, <1>14, <1>15, <1>16, <1>17, <1>18, <1>19, <1>20, <1>21, <1>22, <1>23, <1>24 DEF Next, Client

\* The invariants hold initially.
LEMMA IInvInit == Init => IInv
  BY TypeInit DEF Init, IInv, RetryInv, MuteInv, RepeatInv, ConnectionInv, AnswerInv, Returned, NoResponse

\* IInv holds in every reachable state.
LEMMA IInvHolds == Spec => []IInv
<1>1. IInv /\ [Next]_vars => IInv'
  BY TypeStep, RetryInvStep, MuteInvStep, RepeatInvStep, ConnectionInvStep, AnswerInvStep DEF IInv
<1> QED
  BY IInvInit, <1>1, PTL DEF Spec

\* A retry never reuses the connection that failed (~StConnection).
THEOREM RetryIsOnANewConnection == Spec => []RetryGetsANewConnection
<1>1. IInv => RetryGetsANewConnection
  BY DEF IInv, RetryInv, RetryGetsANewConnection
<1> QED
  BY IInvHolds, <1>1, PTL

\* CancelTransaction() silences the request for good: no transaction begun after it
\* is sent or succeeds (mCancel is never reset; SendData stops at once).
THEOREM CancelledRequestStaysMute == Spec => []CancelledRequestIsMute
<1>1. IInv => CancelledRequestIsMute
  BY DEF IInv, MuteInv, CancelledRequestIsMute, Returned
<1> QED
  BY IInvHolds, <1>1, PTL

\* The retry loop repeats a request the server already processed only if its answer
\* was lost, or if Disconnect() threw after the end of it.
THEOREM RepeatsOnlyLostAnswers == Spec => []RepeatedOnlyIfAnswerLost
<1>1. IInv => RepeatedOnlyIfAnswerLost
  BY DEF IInv, RepeatInv, RepeatedOnlyIfAnswerLost
<1> QED
  BY IInvHolds, <1>1, PTL

\* SUCCESS is the verdict of the server on this transaction, for every method and
\* every code.
THEOREM SuccessIsOwnAnswer == Spec => []SuccessIsTheServersAnswer
<1>1. IInv => SuccessIsTheServersAnswer
  BY DEF IInv, AnswerInv, SuccessIsTheServersAnswer, Returned
<1> QED
  BY IInvHolds, <1>1, PTL

\* Whatever way an exchange was broken off, what is left of it does not get in the way
\* of the next: the handler has closed the connection, unless its Disconnect() threw,
\* an interim answer was taken for more than it is, or nothing is sent any more.
THEOREM KeptConnectionInStep == Spec => []KeptConnectionIsInStep
<1>1. IInv => KeptConnectionIsInStep
  BY DEF IInv, TypeOK, ConnectionInv, MuteInv, KeptConnectionIsInStep, PCs
<1> QED
  BY IInvHolds, <1>1, PTL
-----------------------------------------------------------------------------
\* The file of a GET.

\* It holds the resource, but for what the code cannot see: the end of a body without
\* length, and what an earlier attempt has left in it.
Delivered ==
    \/ file = "whole"
    \/ file \in {"empty", "partial"} /\ response.framing \in {"toClose", "interimBare"}
    \/ file = "garbled" /\ past \cap {"lost", "unclosed"} # {}

\* A file that is not empty was written by this attempt, or by one after which there was
\* an exception; where the status test is ahead the body was delivered, or the call will
\* be CANCELled.
FileInv ==
    op = "Get" /\ past \cap {"stuck", "misread"} = {} =>
        /\ file # "empty" => \/ past \cap {"lost", "unclosed"} # {}
                             \/ pc \in {"after", "leave", "judge", "idle"} /\ response.code = 200
                             \/ mCancel /\ pc \notin {"sending", "wait", "body"}
        /\ (pc \in {"after", "leave", "judge"} \/ Returned("SUCCESS")) /\ response.code = 200 =>
              Delivered \/ (mCancel /\ pc \in {"after", "leave"})
        /\ Returned("SUCCESS") => response.code = 200

LEMMA GetStatusIs200 ==
    ASSUME NEW c, NEW parse, StatusOf("Get", c, parse) = "SUCCESS"
    PROVE  c = 200
  BY DEF StatusOf, GetStatus, Pick

\* Every step accounts for what is in the file.
LEMMA FileInvStep == IInv /\ FileInv /\ [Next]_vars => FileInv'
<1> SUFFICES ASSUME IInv, FileInv, [Next]_vars PROVE FileInv'
  OBVIOUS
<1> USE DEF IInv, TypeOK, FileInv, Delivered, Returned, history
<1>1. ASSUME NEW o \in Ops, Begin(o) PROVE FileInv'
  BY <1>1 DEF Begin, When, NoResponse
<1>2. ASSUME NEW r \in Answers, Serve(r) PROVE FileInv'
  BY <1>2 DEF Serve
<1>3. CASE CancelTransaction
  BY <1>3 DEF CancelTransaction
<1>4. CASE OpenConnection
  BY <1>4 DEF OpenConnection
<1>5. CASE Connected
  BY <1>5 DEF Connected
<1>6. CASE ConnectFails
  BY <1>6 DEF ConnectFails
<1>7. CASE SendCancelled
  BY <1>7 DEF SendCancelled, NoResponse
<1>8. CASE SendFails
  BY <1>8 DEF SendFails, When, NoResponse
<1>9. CASE SendRequest
  BY <1>9 DEF SendRequest, NoResponse
<1>10. CASE SendDone
  BY <1>10 DEF SendDone, AnswerInv
<1>11. CASE ReadHeader
  BY <1>11 DEF ReadHeader, AnswerInv, When
<1>12. CASE ReadHeaderFails
  BY <1>12 DEF ReadHeaderFails, When
<1>13. CASE ReadBody
  <2>1. pc = "body" /\ pc' = "after" /\ UNCHANGED <<op, response, mCancel, past, result>>
    BY <1>13 DEF ReadBody, ReadToItsEnd
  <2>2. CASE response.framing = "interimBare"
    BY <1>13, <2>1, <2>2 DEF ReadBody
  <2>3. CASE response.framing # "interimBare"
    <3>1. op = "Get" /\ response.code = 200 =>
             file' = IF file = "empty" /\ reply # "stale" THEN "whole" ELSE "garbled"
      BY <1>13, <2>3 DEF ReadBody, Write
    <3>2. ~(op = "Get" /\ response.code = 200) => file' = file
      BY <1>13, <2>3 DEF ReadBody, Write
    <3>3. reply = "stale" => mCancel \/ "misread" \in past
      BY DEF AnswerInv
    <3> QED
      BY <2>1, <3>1, <3>2, <3>3
  <2> QED
    BY <2>2, <2>3
<1>14. CASE ReadBodyCancelled
  BY <1>14 DEF ReadBodyCancelled, Write
<1>15. CASE ReadBodyFails
  <2>1. pc = "body" /\ UNCHANGED <<op, response, mCancel, result>>
    BY <1>15 DEF ReadBodyFails
  <2>2. response.code # 200 => file' = file
    BY <1>15 DEF ReadBodyFails, Write
  <2>3. CASE pc' = "failed" /\ past' = past \cup {"lost"}
    BY <2>1, <2>2, <2>3
  <2>4. CASE pc' = "after" /\ response.framing = "toClose" /\ UNCHANGED past
    <3>1. op = "Get" => file' \in {file, "partial", "garbled"}
      BY <1>15 DEF ReadBodyFails, Write
    <3>2. op = "Get" /\ file' = "garbled" => file \in {"garbled", "partial", "whole"} \/ reply = "stale"
      BY <1>15 DEF ReadBodyFails, Write
    <3>3. reply = "stale" => "misread" \in past
      BY DEF AnswerInv
    <3> QED
      BY <2>1, <2>2, <2>4, <3>1, <3>2, <3>3
  <2> QED
    BY <1>15, <2>3, <2>4 DEF ReadBodyFails, ReadToItsEnd
<1>16. CASE FinishMethod
  BY <1>16 DEF FinishMethod, Redirects, When
<1>17. CASE FinishFails
  <2>1. reply \notin {"own", "stale"} => mCancel
    BY <1>17 DEF FinishFails, RepeatInv
  <2>2. past' = past \cup When(reply \in {"own", "stale"}, "unclosed")
    BY <1>17 DEF FinishFails
  <2> QED
    BY <1>17, <2>1, <2>2 DEF FinishFails, When
<1>18. CASE CatchMethod
  BY <1>18 DEF CatchMethod
<1>19. CASE Leave
  BY <1>19 DEF Leave, DestroyStConnection, DropsConnection
<1>20. CASE Unwind
  <2>1. pc = "unwind" /\ pc' \in {"idle", "open", "judge"} /\ (pc' = "idle" => result' = "FAILURE")
    BY <1>20 DEF Unwind
  <2>2. UNCHANGED <<op, response, file, mCancel, served, reply, past>>
    BY <1>20 DEF Unwind
  <2>3. pc' = "judge" => persistent /\ "wasClosed" \notin conn
    BY <1>20 DEF Unwind, DestroyStConnection, DropsConnection
  <2>4. "stuck" \notin past /\ pc' = "judge" => response.code = 0
    BY <2>1, <2>3 DEF AnswerInv
  <2> QED
    BY <2>1, <2>2, <2>4
<1>21. CASE Judge
  BY <1>21, GetStatusIs200 DEF Judge
<1>22. CASE NetworkChanges
  BY <1>22 DEF NetworkChanges
<1>23. CASE PeerCloses
  BY <1>23 DEF PeerCloses
<1>24. CASE UNCHANGED vars
  BY <1>24 DEF vars
<1> QED
  BY <1>1, <1>2, <1>3, <1>4, <1>5, <1>6, <1>7, <1>8, <1>9, <1>10, <1>11, <1>12, <1>13, <1>14, <1>15, <1>16, <1>17, <1>18, <1>19, <1>20, <1>21, <1>22, <1>23, <1>24 DEF Next, Client

\* What GetResource leaves behind when it returns SUCCESS is the resource, the whole of it
\* and nothing else; the exceptions are a body without length, of which a part, or after an
\* interim answer nothing, passes for all; a retry after a lost answer or one after which
\* Disconnect() threw, which appends; a Disconnect() that threw in the handler, after which
\* there is no retry; and an answer read from a connection that is out of step.
THEOREM GetDelivers == Spec => []GetDeliversTheResource
<1>1. Init => FileInv
  BY DEF Init, FileInv
<1>2. IInv /\ FileInv => GetDeliversTheResource
  BY DEF IInv, FileInv, Delivered, GetDeliversTheResource, Returned
<1> QED
  BY IInvHolds, FileInvStep, <1>1, <1>2, PTL DEF Spec
-----------------------------------------------------------------------------
\* DAVRequest implements DAVCall.

\* Nothing the caller can see changes.
CallStutters ==
    /\ (pc' = "idle") = (pc = "idle")
    /\ past' \cap {"lost", "unclosed", "misread"} = past \cap {"lost", "unclosed", "misread"}
    /\ ("muted" \in past') = ("muted" \in past)
    /\ UNCHANGED <<result, served, mCancel>>

\* A step that shows the caller nothing is a step of the call.
LEMMA StutterIsAllowed == CallStutters => [Call!Next]_(Call!vars)
  BY DEF CallStutters, Call!vars

\* What goes wrong is noted once, and a lost answer is one the server had given.
LEMMA MishapIsAllowed ==
    ASSUME pc # "idle", pc' # "idle", UNCHANGED <<result, served, mCancel>>,
           NEW m \in {"lost", "unclosed", "misread"}, past' = past \cup {m},
           m # "misread" /\ "misread" \notin past => served > 0
    PROVE  [Call!Next]_(Call!vars)
<1>1. ("muted" \in past') = ("muted" \in past)
  OBVIOUS
<1>2. past' \cap {"lost", "unclosed", "misread"} = (past \cap {"lost", "unclosed", "misread"}) \cup {m}
  OBVIOUS
<1>3. Call!Mishap
  BY <1>1, <1>2 DEF Call!Mishap, Call!Mishaps
<1> QED
  BY <1>3 DEF Call!Next

\* Every step of a transaction is a step of the call, or shows the caller nothing.
LEMMA CallStep == IInv /\ [Next]_vars => [Call!Next]_(Call!vars)
<1> SUFFICES ASSUME IInv, [Next]_vars PROVE [Call!Next]_(Call!vars)
  OBVIOUS
<1> USE DEF IInv, TypeOK, history
<1>1. ASSUME NEW o \in Ops, Begin(o) PROVE Call!Issue
  <2>1. past' \cap {"lost", "unclosed", "misread"} = {}
    BY <1>1 DEF Begin, When
  <2>2. ("muted" \in past') = mCancel
    BY <1>1 DEF Begin, When
  <2> QED
    BY <1>1, <2>1, <2>2 DEF Begin, Call!Issue
<1>2. ASSUME NEW r \in Answers, Serve(r) PROVE Call!Process
  <2>1. ~("muted" \in past)
    BY <1>2 DEF Serve, MuteInv
  <2>2. served > 0 => (past \cap {"lost", "unclosed", "misread"}) \cap {"lost", "unclosed"} # {}
    BY <1>2 DEF Serve, RepeatInv
  <2>3. served' = IF served < 2 THEN served + 1 ELSE 2
    BY <1>2 DEF Serve
  <2> QED
    BY <1>2, <2>1, <2>2, <2>3 DEF Serve, Call!Process
<1>3. CASE CancelTransaction
  BY <1>3 DEF CancelTransaction, Call!Cancel, Call!Next
<1>4. CASE OpenConnection
  BY <1>4, StutterIsAllowed DEF OpenConnection, CallStutters
<1>5. CASE Connected
  BY <1>5, StutterIsAllowed DEF Connected, CallStutters
<1>6. CASE ConnectFails
  BY <1>6, StutterIsAllowed DEF ConnectFails, CallStutters
<1>7. CASE SendCancelled
  BY <1>7, StutterIsAllowed DEF SendCancelled, CallStutters
<1>8. CASE SendFails
  <2>1. CASE wire = "reply"
    BY <1>8, <2>1, MishapIsAllowed DEF SendFails, When, AnswerInv
  <2>2. CASE wire # "reply"
    BY <1>8, <2>2, StutterIsAllowed DEF SendFails, When, CallStutters
  <2> QED
    BY <2>1, <2>2
<1>9. CASE SendRequest
  BY <1>9, StutterIsAllowed DEF SendRequest, CallStutters
<1>10. CASE SendDone
  BY <1>10, StutterIsAllowed DEF SendDone, CallStutters
<1>11. CASE ReadHeader
  <2>1. CASE past' = past \cup {"misread"}
    BY <1>11, <2>1, MishapIsAllowed DEF ReadHeader, When
  <2>2. CASE past' = past
    BY <1>11, <2>2, StutterIsAllowed DEF ReadHeader, CallStutters, When
  <2>3. past' = past \/ past' = past \cup {"misread"}
    BY <1>11 DEF ReadHeader, When
  <2> QED
    BY <2>1, <2>2, <2>3
<1>12. CASE ReadHeaderFails
  <2>1. CASE wire = "reply"
    BY <1>12, <2>1, MishapIsAllowed DEF ReadHeaderFails, When, AnswerInv
  <2>2. CASE wire # "reply"
    BY <1>12, <2>2, StutterIsAllowed DEF ReadHeaderFails, When, CallStutters
  <2> QED
    BY <2>1, <2>2
<1>13. CASE ReadBody
  BY <1>13, StutterIsAllowed DEF ReadBody, ReadToItsEnd, CallStutters, When, NothingToRead
<1>14. CASE ReadBodyCancelled
  BY <1>14, StutterIsAllowed DEF ReadBodyCancelled, CallStutters
<1>15. CASE ReadBodyFails
  <2>1. CASE pc' = "after"
    BY <1>15, <2>1, StutterIsAllowed DEF ReadBodyFails, ReadToItsEnd, CallStutters
  <2>2. CASE pc' # "after"
    BY <1>15, <2>2, MishapIsAllowed DEF ReadBodyFails, ReadToItsEnd, AnswerInv
  <2> QED
    BY <2>1, <2>2
<1>16. CASE FinishMethod
  <2>1. CASE Redirects
    <3>1. Call!SentElsewhere
      BY <1>16, <2>1 DEF FinishMethod, Call!SentElsewhere
    <3> QED
      BY <3>1 DEF Call!Next
  <2>2. CASE ~Redirects
    BY <1>16, <2>2, StutterIsAllowed DEF FinishMethod, CallStutters
  <2> QED
    BY <2>1, <2>2
<1>17. CASE FinishFails
  <2>1. CASE reply \in {"own", "stale"}
    BY <1>17, <2>1, MishapIsAllowed DEF FinishFails, When, AnswerInv
  <2>2. CASE reply \notin {"own", "stale"}
    BY <1>17, <2>2, StutterIsAllowed DEF FinishFails, When, CallStutters
  <2> QED
    BY <2>1, <2>2
<1>18. CASE CatchMethod
  BY <1>18, StutterIsAllowed DEF CatchMethod, CallStutters
<1>19. CASE Leave
  <2>1. CASE mCancel /\ op \in {"Put", "Get"}
    <3>1. Call!Return("CANCEL")
      BY <1>19, <2>1 DEF Leave, Call!Return
    <3> QED
      BY <3>1 DEF Call!Next, Call!Outcomes
  <2>2. CASE ~(mCancel /\ op \in {"Put", "Get"})
    BY <1>19, <2>2, StutterIsAllowed DEF Leave, CallStutters
  <2> QED
    BY <2>1, <2>2
<1>20. CASE Unwind
  <2>1. CASE pc' = "idle"
    <3>1. Call!Return("FAILURE")
      BY <1>20, <2>1 DEF Unwind, Call!Return
    <3> QED
      BY <3>1 DEF Call!Next, Call!Outcomes
  <2>2. CASE pc' # "idle"
    BY <1>20, <2>2, StutterIsAllowed DEF Unwind, CallStutters
  <2> QED
    BY <2>1, <2>2
<1>21. CASE Judge
  <2>1. PICK parse \in BOOLEAN : result' = StatusOf(op, response.code, parse)
    BY <1>21 DEF Judge
  <2>2. result' \in Statuses
    BY <2>1, StatusOfType
  <2>3. result' = "SUCCESS" => response.code # 0
    BY <2>1, StatusOfType
  <2>4. result' = "SUCCESS" => ~("muted" \in past)
    BY <2>3 DEF MuteInv
  <2>5. result' = "SUCCESS" => served > 0 \/ "misread" \in past
    BY <1>21, <2>3 DEF Judge, AnswerInv
  <2>6. result' # "CANCEL"
    BY <2>1 DEF StatusOf, Statuses, Pick, PickXML, OptionsStatus, ExistsStatus,
         PropFindStatus, ListDirectoryStatus, PropPatchStatus, MkColStatus,
         DeleteStatus, CopyStatus, MoveStatus, PutStatus, GetStatus, LockStatus,
         UnlockStatus
  <2>7. Call!Return(result')
    BY <1>21, <2>4, <2>5, <2>6 DEF Judge, Call!Return
  <2> QED
    BY <2>2, <2>7 DEF Call!Next, Call!Outcomes, Statuses
<1>22. CASE NetworkChanges
  BY <1>22, StutterIsAllowed DEF NetworkChanges, CallStutters
<1>23. CASE PeerCloses
  BY <1>23, StutterIsAllowed DEF PeerCloses, CallStutters
<1>24. CASE UNCHANGED vars
  BY <1>24, StutterIsAllowed DEF vars, CallStutters
<1> QED
  BY <1>1, <1>2, <1>3, <1>4, <1>5, <1>6, <1>7, <1>8, <1>9, <1>10, <1>11, <1>12, <1>13, <1>14, <1>15, <1>16, <1>17, <1>18, <1>19, <1>20, <1>21, <1>22, <1>23, <1>24 DEF Next, Client, Call!Next

\* Whatever connections, retries, redirects and exceptions it takes, a transaction of
\* CDAVRequest is to its caller a call as DAVCall describes it.
THEOREM RequestImplementsCall == Spec => ImplementsDAVCall
<1>1. Init => Call!Init
  BY DEF Init, Call!Init
<1> QED
  BY IInvHolds, CallStep, <1>1, PTL DEF Spec, ImplementsDAVCall, Call!Spec
-----------------------------------------------------------------------------
\* Why a transaction ends once the network stays up, as far as no fairness is needed.  What
\* is left of it is counted in three numbers.

\* The attempts that can still end in an exception: one on a connection whose other end is
\* gone, and the one that has failed, which a last one on a new connection follows.
AttemptsLeft ==
    IF pc \in {"failed", "unwind"} THEN 1
    ELSE IF /\ "peer" \notin conn
            /\ \/ pc = "open" /\ persistent /\ "open" \in conn
               \/ pc = "connect" /\ "open" \in conn
               \/ pc \in {"send", "sending", "wait", "body"}
         THEN 2
    ELSE 0

\* The redirects this attempt may still follow; one that has not begun may follow them all.
HopsLeft == IF pc = "open" THEN MaxHops + 1 ELSE MaxHops - hops

\* The calls of this exchange, and whether the server has yet to answer it.
Position == [idle |-> 0, judge |-> 1, leave |-> 2, unwind |-> 3, failed |-> 4, after |-> 5,
             body |-> 6, wait |-> 7, sending |-> 8, send |-> 9, connect |-> 10, open |-> 11]
CallsLeft == 2 * Position[pc] + IF wire = "request" THEN 1 ELSE 0

Closer ==
    \/ AttemptsLeft' < AttemptsLeft
    \/ AttemptsLeft' = AttemptsLeft /\ HopsLeft' < HopsLeft
    \/ AttemptsLeft' = AttemptsLeft /\ HopsLeft' = HopsLeft /\ CallsLeft' < CallsLeft

\* Each step of a transaction brings it closer to its end: retries and redirects cannot go on.
\* Nobody else takes that back, neither who cancels it nor the server.
EachStepCounts ==
    [][pc # "idle" /\ netUp /\ netUp' =>
          Closer \/ UNCHANGED <<pc, wire, AttemptsLeft, HopsLeft>>]_vars

\* A client that waits for an answer has a request or its answer on the wire: there is a
\* step to take until the end.
WaitsForSomething == pc \in {"sending", "wait"} => wire # "none"

LEMMA StepCounts ==
    IInv /\ [Next]_vars /\ pc # "idle" /\ netUp /\ netUp'
        => Closer \/ UNCHANGED <<pc, wire, AttemptsLeft, HopsLeft>>
<1> SUFFICES ASSUME IInv, [Next]_vars, pc # "idle", netUp, netUp'
             PROVE  Closer \/ UNCHANGED <<pc, wire, AttemptsLeft, HopsLeft>>
  OBVIOUS
<1> USE ConstantsAssumption DEF IInv, TypeOK, PCs, RetryInv, history, Closer, AttemptsLeft, HopsLeft, CallsLeft, Position
<1>1. ASSUME NEW o \in Ops, Begin(o) PROVE Closer
  BY <1>1 DEF Begin
<1>2. ASSUME NEW r \in Answers, Serve(r) PROVE Closer
  BY <1>2 DEF Serve
<1>3. CASE CancelTransaction
  BY <1>3 DEF CancelTransaction
<1>4. CASE OpenConnection
  BY <1>4 DEF OpenConnection
<1>5. CASE Connected
  BY <1>5 DEF Connected
<1>6. CASE ConnectFails
  BY <1>6 DEF ConnectFails
<1>7. CASE SendCancelled
  BY <1>7 DEF SendCancelled
<1>8. CASE SendFails
  BY <1>8 DEF SendFails, Trouble, When
<1>9. CASE SendRequest
  BY <1>9 DEF SendRequest
<1>10. CASE SendDone
  BY <1>10 DEF SendDone
<1>11. CASE ReadHeader
  BY <1>11 DEF ReadHeader, When
<1>12. CASE ReadHeaderFails
  BY <1>12 DEF ReadHeaderFails, Trouble, When
<1>13. CASE ReadBody
  BY <1>13 DEF ReadBody, When, LeavesBytes, NothingToRead, ReadToItsEnd
<1>14. CASE ReadBodyCancelled
  BY <1>14 DEF ReadBodyCancelled
<1>15. CASE ReadBodyFails
  BY <1>15 DEF ReadBodyFails, Trouble, ReadToItsEnd
<1>16. CASE FinishMethod
  BY <1>16 DEF FinishMethod, Redirects, MustClose, When
<1>17. CASE FinishFails
  BY <1>17 DEF FinishFails, MustClose, When
<1>18. CASE CatchMethod
  BY <1>18 DEF CatchMethod
<1>19. CASE Leave
  BY <1>19 DEF Leave, DestroyStConnection, DropsConnection
<1>20. CASE Unwind
  BY <1>20 DEF Unwind, DestroyStConnection, DropsConnection
<1>21. CASE Judge
  BY <1>21 DEF Judge
<1>22. CASE NetworkChanges
  BY <1>22 DEF NetworkChanges
<1>23. CASE PeerCloses
  BY <1>23 DEF PeerCloses
<1>24. CASE UNCHANGED vars
  BY <1>24 DEF vars
<1> QED
  BY <1>1, <1>2, <1>3, <1>4, <1>5, <1>6, <1>7, <1>8, <1>9, <1>10, <1>11, <1>12, <1>13, <1>14, <1>15, <1>16, <1>17, <1>18, <1>19, <1>20, <1>21, <1>22, <1>23, <1>24 DEF Next, Client

\* The loop of a transaction, its redirects and its exchanges all run down while the network
\* is up: DoHTTPMethod, ~StConnection and the retry of every method of CDAVRequest.
THEOREM TransactionsRunDown == Spec => EachStepCounts
  BY IInvHolds, StepCounts, PTL DEF Spec, EachStepCounts

LEMMA WaitStep == IInv /\ WaitsForSomething /\ [Next]_vars => WaitsForSomething'
<1> SUFFICES ASSUME IInv, WaitsForSomething, [Next]_vars PROVE WaitsForSomething'
  OBVIOUS
<1> USE DEF IInv, TypeOK, WaitsForSomething, history
<1>1. ASSUME NEW o \in Ops, Begin(o) PROVE WaitsForSomething'
  BY <1>1 DEF Begin, When
<1>2. ASSUME NEW r \in Answers, Serve(r) PROVE WaitsForSomething'
  BY <1>2 DEF Serve
<1>3. CASE CancelTransaction
  BY <1>3 DEF CancelTransaction
<1>4. CASE OpenConnection
  BY <1>4 DEF OpenConnection
<1>5. CASE Connected
  BY <1>5 DEF Connected
<1>6. CASE ConnectFails
  BY <1>6 DEF ConnectFails
<1>7. CASE SendCancelled
  BY <1>7 DEF SendCancelled
<1>8. CASE SendFails
  BY <1>8 DEF SendFails, Trouble, When
<1>9. CASE SendRequest
  BY <1>9 DEF SendRequest
<1>10. CASE SendDone
  BY <1>10 DEF SendDone
<1>11. CASE ReadHeader
  BY <1>11 DEF ReadHeader, When
<1>12. CASE ReadHeaderFails
  BY <1>12 DEF ReadHeaderFails, Trouble, When
<1>13. CASE ReadBody
  BY <1>13 DEF ReadBody, When, LeavesBytes, NothingToRead, ReadToItsEnd
<1>14. CASE ReadBodyCancelled
  BY <1>14 DEF ReadBodyCancelled
<1>15. CASE ReadBodyFails
  BY <1>15 DEF ReadBodyFails, Trouble, ReadToItsEnd
<1>16. CASE FinishMethod
  BY <1>16 DEF FinishMethod, Redirects, MustClose, When
<1>17. CASE FinishFails
  BY <1>17 DEF FinishFails, MustClose, When
<1>18. CASE CatchMethod
  BY <1>18 DEF CatchMethod
<1>19. CASE Leave
  BY <1>19 DEF Leave, DestroyStConnection, DropsConnection
<1>20. CASE Unwind
  BY <1>20 DEF Unwind, DestroyStConnection, DropsConnection
<1>21. CASE Judge
  BY <1>21 DEF Judge
<1>22. CASE NetworkChanges
  BY <1>22 DEF NetworkChanges
<1>23. CASE PeerCloses
  BY <1>23 DEF PeerCloses
<1>24. CASE UNCHANGED vars
  BY <1>24 DEF vars
<1> QED
  BY <1>1, <1>2, <1>3, <1>4, <1>5, <1>6, <1>7, <1>8, <1>9, <1>10, <1>11, <1>12, <1>13, <1>14, <1>15, <1>16, <1>17, <1>18, <1>19, <1>20, <1>21, <1>22, <1>23, <1>24 DEF Next, Client

\* No thread waits for the answer to a request it did not send.
THEOREM NobodyWaitsInVain == Spec => []WaitsForSomething
<1>1. Init => WaitsForSomething
  BY DEF Init, WaitsForSomething
<1> QED
  BY <1>1, IInvHolds, WaitStep, PTL DEF Spec
=============================================================================
