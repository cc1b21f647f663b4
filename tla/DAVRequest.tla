----------------------------- MODULE DAVRequest -----------------------------
(***************************************************************************)
(* One CDAVRequest object: the WebDAV transactions a thread runs on it one *)
(* after another, the retry loop around each of them, the StConnection     *)
(* guard that owns or drops the connection, and the HTTP exchange of       *)
(* LHTTP11Connection below it.  The server and the network are external.   *)
(*                                                                         *)
(* The code of a transaction is                                            *)
(*     while (doCommunication) {                                           *)
(*        try { StConnection c(...); c.GetConnection().X(...); }           *)
(*        catch (LSSLException) { return FAILURE; }                        *)
(*        catch (...) { if (mAttemptRetry) doCommunication = true; } }     *)
(*     mLastResponse = theResponse.GetResponseCode();  <status test>       *)
(* and pc walks through it: "open" is the StConnection constructor,        *)
(* "connect" .. "after" are DoHTTPMethod, "failed" its catch (...), "leave"*)
(* and "unwind" are the two ways into ~StConnection, "judge" is the test.  *)
(***************************************************************************)
EXTENDS Integers, FiniteSets

CONSTANTS Ops,       \* the transactions callers issue
          Codes,     \* the status codes the server answers with
          Framings,  \* the ways the server delimits the body of an answer
          MaxHops    \* bound: redirects a server answers in one attempt

AllOps == {"Options", "Exists", "PropFind", "ListDirectory", "PropPatch", "MkCol",
           "Delete", "Copy", "Move", "Put", "Get", "Lock", "Unlock"}
AllFramings == {"empty", "length", "chunked", "toClose", "interimLength", "interimBare"}

ASSUME ConstantsAssumption ==
    /\ Ops \subseteq AllOps
    /\ Framings \subseteq AllFramings
    /\ Codes \subseteq Nat \ {0}
    /\ MaxHops \in Nat

VARIABLES
    pc,             \* where the running transaction is
    op,             \* its method
    result,         \* what the last transaction returned
    persistent,     \* m_connection # nil
    conn,           \* what holds of the CDAVConnection in use, or the persistent one
    exc,            \* the exception in flight
    mAttemptRetry,
    mCancel,
    response,       \* theResponse
    wire,           \* the exchange on the endpoint: "none", "request", "reply"
    pending,        \* the server's answer to the request of this attempt
    hops,           \* redirects followed in this attempt
    file,           \* the file behind the external stream of GetResource
    netUp,          \* the host can be reached and answers
    served,         \* how often the server processed the request (2: or more)
    reply,          \* how much of the answer was read
    past            \* what else the properties remember; the code has none of these

history == <<served, reply, past>>
vars == <<pc, op, result, persistent, conn, exc, mAttemptRetry, mCancel, response,
          wire, pending, hops, file, netUp, history>>

Statuses == {"SUCCESS", "WARNING", "FAILURE", "CANCEL", "XMLERROR"}

\* LHTTPResponse: the code, the framing, and whether a Connection: close or a
\* Via field was among the headers.  GetResponseCode() of a reset response is 0.
Answers == [code : Codes, framing : Framings, after : {"keep", "close"}]
Responses == [code : Codes \cup {0}, framing : AllFramings, after : {"keep", "close"}]
NoResponse == [code |-> 0, framing |-> "empty", after |-> "keep"]

\* open: mHTTPState = HTTPConnected; wasClosed: mWasClosed; peer: the server's
\* end is there; dirty: an exchange on it was not finished, for whatever reason; bare:
\* the body of an answer after an interim one was left on it; stuck: the handler's
\* Disconnect() threw.
ConnectionFacts == {"open", "wasClosed", "peer", "dirty", "bare", "stuck"}

\* Of the running transaction.  lost: an answer was lost on the way; unclosed: the
\* answer was read to its end and Disconnect() threw after it; stuck: Disconnect()
\* threw in the handler; misread: an answer was read from a connection that is bare
\* or stuck; muted: it began with mCancel set.
PastFacts == {"lost", "unclosed", "stuck", "misread", "muted"}

When(condition, fact) == IF condition THEN {fact} ELSE {}

PCs == {"idle", "open", "connect", "send", "sending", "wait", "body", "after",
        "failed", "unwind", "leave", "judge"}

TypeOK ==
    /\ pc \in PCs
    /\ op \in Ops \cup {"none"}
    /\ result \in Statuses \cup {"none"}
    /\ persistent \in BOOLEAN /\ mAttemptRetry \in BOOLEAN
    /\ mCancel \in BOOLEAN /\ netUp \in BOOLEAN
    /\ conn \subseteq ConnectionFacts
    /\ exc \in {"none", "net", "ssl"}
    /\ response \in Responses
    /\ wire \in {"none", "request", "reply"}
    /\ pending \in Responses
    /\ hops \in 0..MaxHops
    /\ file \in {"empty", "partial", "whole", "garbled"}
    /\ served \in 0..2 /\ reply \in {"none", "partial", "own", "stale"}
    /\ past \subseteq PastFacts

\* CDAVRequest(thread, ctx) opens a persistent connection, CDAVRequest(ctx) and
\* the copy constructor do not.
Init ==
    /\ pc = "idle" /\ op = "none" /\ result = "none"
    /\ persistent \in BOOLEAN
    /\ conn = {}
    /\ exc = "none" /\ mAttemptRetry = FALSE /\ mCancel = FALSE
    /\ response = NoResponse /\ wire = "none" /\ pending = NoResponse
    /\ hops = 0 /\ file = "empty" /\ netUp = TRUE
    /\ served = 0 /\ reply = "none" /\ past = {}

-----------------------------------------------------------------------------
\* The status tests, one per method: which results a code leads to.  parse is
\* the outcome of ParseXMLDocument, which takes a truncated document for a
\* whole one (it never passes isFinal to the parser).

Pick(c, accepted) == IF c \in accepted THEN "SUCCESS" ELSE "FAILURE"
PickXML(c, accepted, parse) ==
    IF c \in accepted /\ ~parse THEN "XMLERROR" ELSE Pick(c, accepted)

OptionsStatus(c) == IF c = 200 THEN "SUCCESS" ELSE "WARNING"
ExistsStatus(c) == Pick(c, {200, 207, 404})
PropFindStatus(c, parse) == PickXML(c, {207}, parse)
ListDirectoryStatus(c, parse) == PickXML(c, {207}, parse)
PropPatchStatus(c, parse) == PickXML(c, {207}, parse)
MkColStatus(c) == Pick(c, {201})
DeleteStatus(c) == Pick(c, {200, 204, 207})
CopyStatus(c) == Pick(c, {201})
MoveStatus(c) == Pick(c, {201, 204})
PutStatus(c) == Pick(c, {200, 201, 204})
GetStatus(c) == Pick(c, {200})
LockStatus(c, parse) == PickXML(c, {200}, parse)
UnlockStatus(c) == Pick(c, {204})

StatusOf(o, c, parse) ==
    CASE o = "Options" -> OptionsStatus(c)
      [] o = "Exists" -> ExistsStatus(c)
      [] o = "PropFind" -> PropFindStatus(c, parse)
      [] o = "ListDirectory" -> ListDirectoryStatus(c, parse)
      [] o = "PropPatch" -> PropPatchStatus(c, parse)
      [] o = "MkCol" -> MkColStatus(c)
      [] o = "Delete" -> DeleteStatus(c)
      [] o = "Copy" -> CopyStatus(c)
      [] o = "Move" -> MoveStatus(c)
      [] o = "Put" -> PutStatus(c)
      [] o = "Get" -> GetStatus(c)
      [] o = "Lock" -> LockStatus(c, parse)
      [] OTHER -> UnlockStatus(c)
-----------------------------------------------------------------------------
\* A caller issues a transaction on the request.  GetResource deletes and
\* creates the output file anew before its loop.
Begin(o) ==
    /\ pc = "idle"
    /\ pc' = "open" /\ op' = o /\ result' = "none"
    /\ response' = NoResponse /\ pending' = NoResponse
    /\ wire' = "none" /\ exc' = "none"
    /\ served' = 0 /\ reply' = "none"
    /\ past' = When(mCancel, "muted")
    /\ mAttemptRetry' = FALSE
    /\ file' = IF o = "Get" THEN "empty" ELSE file
    /\ UNCHANGED <<persistent, conn, mCancel, hops, netUp>>

\* The dialog's thread calls CancelTransaction(); nothing ever resets mCancel.
CancelTransaction ==
    /\ ~mCancel
    /\ mCancel' = TRUE
    /\ UNCHANGED <<pc, op, result, persistent, conn, exc, mAttemptRetry, response,
                   wire, pending, hops, file, netUp, history>>

\* The head of the loop and the StConnection constructor: the persistent
\* connection if there is one, else a new one.
OpenConnection ==
    /\ pc = "open"
    /\ pc' = "connect"
    /\ conn' = IF persistent THEN conn ELSE {}
    /\ mAttemptRetry' = FALSE /\ exc' = "none"
    /\ hops' = 0 /\ wire' = "none"
    /\ UNCHANGED <<op, result, persistent, mCancel, response, pending, file, netUp, history>>

\* LHTTP11Connection::Connect.  It is called before DoHTTPMethod's try: when it
\* throws, mWasClosed keeps its value.  The connection of a redirect is made
\* inside the try of the first one.
Connected ==
    /\ pc = "connect"
    /\ "open" \in conn \/ netUp
    /\ conn' = IF "open" \in conn THEN conn ELSE (conn \ {"dirty", "bare", "stuck"}) \cup {"open", "peer"}
    /\ pc' = "send"
    /\ UNCHANGED <<op, result, persistent, exc, mAttemptRetry, mCancel, response,
                   wire, pending, hops, file, netUp, history>>

ConnectFails ==
    /\ pc = "connect" /\ "open" \notin conn /\ ~netUp
    /\ exc' \in {"net", "ssl"}
    /\ pc' = IF hops > 0 THEN "failed" ELSE "unwind"
    /\ UNCHANGED <<op, result, persistent, conn, mAttemptRetry, mCancel, response,
                   wire, pending, hops, file, netUp, history>>

\* The endpoint throws: the server's end is gone, or the network is down.
Trouble == "peer" \notin conn \/ ~netUp

\* SendData stops at once when the transaction is cancelled, without an error:
\* SendCommandWithReply then returns with the response it has just reset.
SendCancelled ==
    /\ pc = "send" /\ mCancel
    /\ response' = NoResponse
    /\ pc' = "after"
    /\ UNCHANGED <<op, result, persistent, conn, exc, mAttemptRetry, mCancel, wire,
                   pending, hops, file, netUp, history>>

SendFails ==
    /\ \/ pc = "send" /\ ~mCancel
       \/ pc = "sending"
    /\ Trouble
    /\ response' = NoResponse
    /\ exc' \in {"net", "ssl"}
    /\ pc' = "failed" /\ conn' = conn \cup {"dirty"}
    /\ past' = past \cup When(wire = "reply", "lost")
    /\ UNCHANGED <<served, reply>>
    /\ UNCHANGED <<op, result, persistent, mAttemptRetry, mCancel, wire,
                   pending, hops, file, netUp>>

\* A slip: the request goes out although the transaction is cancelled.
SendRequestUnchecked ==
    /\ pc = "send" /\ "peer" \in conn
    /\ response' = NoResponse /\ wire' = "request" /\ pc' = "sending"
    /\ UNCHANGED <<op, result, persistent, conn, exc, mAttemptRetry, mCancel,
                   pending, hops, file, netUp, history>>

\* The first bytes of the request go out; a short one is out completely.
SendRequest ==
    /\ pc = "send" /\ ~mCancel /\ "peer" \in conn
    /\ response' = NoResponse
    /\ wire' = "request"
    /\ pc' = "sending"
    /\ UNCHANGED <<op, result, persistent, conn, exc, mAttemptRetry, mCancel,
                   pending, hops, file, netUp, history>>

\* SendData is through, or broke off, and the cancel flag is looked at again: a
\* cancelled exchange is given up without reading the answer.
SendDone ==
    /\ pc = "sending"
    /\ IF mCancel
       THEN /\ pc' = "after" /\ conn' = conn \cup {"dirty"}
            /\ wire' = "none"
       ELSE pc' = "wait" /\ UNCHANGED <<conn, wire>>
    /\ UNCHANGED <<op, result, persistent, exc, mAttemptRetry, mCancel, response,
                   pending, hops, file, netUp, history>>

\* The server processes the request and answers.  Only GET and HEAD are
\* redirected, and at most MaxHops times in one attempt; a 204 has no body.
MethodMayRedirect(o) == o \in {"Get", "Exists"}

Serve(r) ==
    /\ wire = "request" /\ pc \in {"sending", "wait"} /\ "peer" \in conn
    /\ r.code = 302 => hops < MaxHops
    /\ r.code = 204 => r.framing = "empty"
    /\ wire' = "reply" /\ pending' = r
    /\ served' = IF served < 2 THEN served + 1 ELSE 2
    /\ UNCHANGED <<reply, past>>
    /\ UNCHANGED <<pc, op, result, persistent, conn, exc, mAttemptRetry, mCancel,
                   response, hops, file, netUp>>

\* WaitResponse reads the status line and the headers: of the answer, or, when
\* the connection was left with unread bytes, whatever those bytes parse to.
ReadHeader ==
    /\ pc = "wait"
    /\ IF "dirty" \in conn
       THEN /\ \E c \in Codes \cup {0}, f \in Framings :
                  response' = [code |-> c, framing |-> f, after |-> "keep"]
            /\ reply' = "stale"
            /\ past' = past \cup When(conn \cap {"bare", "stuck"} # {}, "misread")
       ELSE /\ wire = "reply"
            /\ response' = pending
            /\ reply' = "partial" /\ UNCHANGED past
    /\ UNCHANGED served
    /\ pc' = "body"
    /\ UNCHANGED <<op, result, persistent, conn, exc, mAttemptRetry, mCancel, wire,
                   pending, hops, file, netUp>>

ReadHeaderFails ==
    /\ pc = "wait" /\ Trouble
    /\ exc' \in {"net", "ssl"}
    /\ pc' = "failed" /\ conn' = conn \cup {"dirty"}
    /\ past' = past \cup When(wire = "reply", "lost")
    /\ UNCHANGED <<served, reply>>
    /\ UNCHANGED <<op, result, persistent, mAttemptRetry, mCancel, response,
                   wire, pending, hops, file, netUp>>

\* With status 200 the body of a GET goes to the external stream, which only
\* appends: a second attempt writes behind the bytes of the first.
Write(how) ==
    file' = IF op # "Get" \/ response.code # 200 THEN file
            ELSE IF file = "empty" /\ reply # "stale" THEN how ELSE "garbled"

\* A slip: the CRLF that ends a chunked body is left unread.
LeavesLastChunk(r) == r.framing \in {"interimBare", "chunked"}

\* After a 100 only a final answer with Content-Length has its body read.
LeavesBytes(r) == r.framing = "interimBare"
NothingToRead(r) == r.framing \in {"empty", "interimBare"}

\* The answer is over as far as the client knows.
ReadToItsEnd ==
    /\ pc' = "after"
    /\ reply' = IF reply = "stale" THEN "stale" ELSE "own"

\* The whole body, if it is read at all.  The server ends a body without length by
\* closing.
ReadBody ==
    /\ pc = "body"
    /\ ("peer" \in conn /\ netUp) \/ NothingToRead(response)
    /\ conn' = (conn \ When(response.framing = "toClose", "peer"))
               \cup When(LeavesBytes(response), "dirty")
               \cup When(response.framing = "interimBare", "bare")
    /\ IF response.framing = "interimBare" THEN UNCHANGED file ELSE Write("whole")
    /\ ReadToItsEnd
    /\ UNCHANGED <<served, past>>
    /\ UNCHANGED <<op, result, persistent, exc, mAttemptRetry, mCancel, response,
                   wire, pending, hops, netUp>>

\* ReadBuffered breaks off without an error when the transaction is cancelled.
ReadBodyCancelled ==
    /\ pc = "body" /\ mCancel /\ ~NothingToRead(response)
    /\ conn' = conn \cup {"dirty"}
    /\ Write("partial")
    /\ pc' = "after"
    /\ UNCHANGED <<op, result, persistent, exc, mAttemptRetry, mCancel, response,
                   wire, pending, hops, netUp, history>>

\* The connection breaks in the body.  A body without length ends with a disconnect,
\* so there an error that is one is swallowed, and the part taken for the whole; any
\* other, a timeout, say, goes to the handler.
ReadBodyFails ==
    /\ pc = "body" /\ Trouble /\ ~NothingToRead(response)
    /\ Write("partial") \/ UNCHANGED file
    /\ \/ /\ response.framing = "toClose"
          /\ ReadToItsEnd /\ conn' = conn \ {"peer"}
          /\ UNCHANGED <<exc, past>>
       \/ /\ pc' = "failed" /\ exc' \in {"net", "ssl"}
          /\ conn' = conn \cup {"dirty"}
          /\ past' = past \cup {"lost"} /\ UNCHANGED reply
    /\ UNCHANGED served
    /\ UNCHANGED <<op, result, persistent, mAttemptRetry, mCancel, response, wire,
                   pending, hops, netUp>>

\* The rest of DoHTTPMethod's try.  A connection that is not the persistent one,
\* or whose answer says so, is closed (a redirect's own connection always is);
\* then a 302 is followed on a connection of its own.
MustClose == ~persistent \/ hops > 0 \/ response.after = "close"
Redirects == response.code = 302 /\ MethodMayRedirect(op) /\ hops < MaxHops

FinishMethod ==
    /\ pc = "after"
    /\ conn' = (conn \ When(MustClose \/ Redirects, "open"))
               \cup When(MustClose /\ hops = 0, "wasClosed")
    /\ IF Redirects
       THEN /\ pc' = "connect" /\ hops' = hops + 1 /\ wire' = "none"
            /\ served' = 0 /\ reply' = "none"
       ELSE pc' = "leave" /\ UNCHANGED <<hops, wire, served, reply>>
    /\ UNCHANGED past
    /\ UNCHANGED <<op, result, persistent, exc, mAttemptRetry, mCancel, response,
                   pending, file, netUp>>

\* Disconnect() throws, also after an answer that was read to its end: the handler and
\* the loop treat it as they treat any exception.
FinishFails ==
    /\ pc = "after" /\ MustClose /\ ~netUp
    /\ exc' = "net"
    /\ pc' = "failed"
    /\ past' = past \cup When(reply \in {"own", "stale"}, "unclosed")
    /\ UNCHANGED <<served, reply>>
    /\ UNCHANGED <<op, result, persistent, conn, mAttemptRetry, mCancel, response,
                   wire, pending, hops, file, netUp>>

\* A slip: the handler disconnects but does not set mWasClosed.
CatchMethodUnmarked ==
    /\ pc = "failed" /\ pc' = "unwind"
    /\ conn' = conn \ {"open"}
    /\ UNCHANGED <<op, result, persistent, exc, mAttemptRetry, mCancel, response,
                   wire, pending, hops, file, netUp, history>>

\* A slip: the handler leaves the connection alone.
CatchMethodKeeping ==
    /\ pc = "failed" /\ pc' = "unwind"
    /\ UNCHANGED <<op, result, persistent, conn, exc, mAttemptRetry, mCancel, response,
                   wire, pending, hops, file, netUp, history>>

\* catch (...) of DoHTTPMethod.  mWasClosed is set after Disconnect(), and an
\* exception of Disconnect() itself is swallowed: then it is not set.
CatchMethod ==
    /\ pc = "failed"
    /\ \/ /\ conn' = (conn \ {"open"}) \cup {"wasClosed"}
          /\ UNCHANGED past
       \/ /\ ~netUp /\ hops = 0
          /\ conn' \in {conn \cup {"stuck"}, (conn \ {"open"}) \cup {"stuck"}}
          /\ past' = past \cup {"stuck"}
    /\ UNCHANGED <<served, reply>>
    /\ pc' = "unwind"
    /\ UNCHANGED <<op, result, persistent, exc, mAttemptRetry, mCancel, response,
                   wire, pending, hops, file, netUp>>

\* ~StConnection: a connection that is not persistent, or was closed, goes, and
\* with it m_connection; from then on the request has no persistent one.
DropsConnection == ~persistent \/ "wasClosed" \in conn

\* A slip: the connection is deleted, m_connection still points to it.
DestroyStConnectionDangling ==
    /\ UNCHANGED persistent
    /\ conn' = IF DropsConnection THEN {"deleted"} ELSE conn
    /\ mAttemptRetry' = (mAttemptRetry \/ DropsConnection)

DestroyStConnection ==
    /\ persistent' = (persistent /\ ~DropsConnection)
    /\ conn' = IF DropsConnection THEN {} ELSE conn
    /\ mAttemptRetry' = (mAttemptRetry \/ DropsConnection)

\* A slip: the loop goes round again although no exception was caught.
LeaveRetrying ==
    /\ pc = "leave"
    /\ DestroyStConnection
    /\ pc' = (IF mAttemptRetry' THEN "open" ELSE "judge") /\ UNCHANGED result
    /\ UNCHANGED <<op, exc, mCancel, response, wire, pending, hops, file, netUp, history>>

\* Without an exception: PutResource and GetResource look at the cancel flag.
Leave ==
    /\ pc = "leave"
    /\ DestroyStConnection
    /\ IF mCancel /\ op \in {"Put", "Get"}
       THEN pc' = "idle" /\ result' = "CANCEL"
       ELSE pc' = "judge" /\ UNCHANGED result
    /\ UNCHANGED <<op, exc, mCancel, response, wire, pending, hops, file, netUp, history>>

\* With one: an SSL exception ends the transaction, any other is retried if
\* ~StConnection said so.  GetServerOptions returns FAILURE instead of judging.
Unwind ==
    /\ pc = "unwind"
    /\ DestroyStConnection
    /\ IF exc = "ssl" \/ (op = "Options" /\ ~mAttemptRetry')
       THEN pc' = "idle" /\ result' = "FAILURE"
       ELSE pc' = (IF mAttemptRetry' THEN "open" ELSE "judge") /\ UNCHANGED result
    /\ UNCHANGED <<op, exc, mCancel, response, wire, pending, hops, file, netUp, history>>

Judge ==
    /\ pc = "judge"
    /\ \E parse \in BOOLEAN : result' = StatusOf(op, response.code, parse)
    /\ pc' = "idle"
    /\ UNCHANGED <<op, persistent, conn, exc, mAttemptRetry, mCancel, response, wire,
                   pending, hops, file, netUp, history>>

\* The environment: the network goes down and comes back; the server closes a
\* connection it finds idle, which the client learns only when it uses it.
NetworkChanges ==
    /\ netUp' = ~netUp
    /\ UNCHANGED <<pc, op, result, persistent, conn, exc, mAttemptRetry, mCancel,
                   response, wire, pending, hops, file, history>>

PeerCloses ==
    /\ {"open", "peer"} \subseteq conn
    /\ pc = "idle" \/ ~netUp
    /\ conn' = conn \ {"peer"}
    /\ UNCHANGED <<pc, op, result, persistent, exc, mAttemptRetry, mCancel, response,
                   wire, pending, hops, file, netUp, history>>

Client ==
    \/ OpenConnection \/ Connected \/ ConnectFails
    \/ SendCancelled \/ SendFails \/ SendRequest \/ SendDone
    \/ ReadHeader \/ ReadHeaderFails
    \/ ReadBody \/ ReadBodyCancelled \/ ReadBodyFails
    \/ FinishMethod \/ FinishFails \/ CatchMethod \/ Leave \/ Unwind \/ Judge

Next ==
    \/ \E o \in Ops : Begin(o)
    \/ CancelTransaction
    \/ Client
    \/ \E r \in Answers : Serve(r)
    \/ NetworkChanges
    \/ PeerCloses

Spec == Init /\ [][Next]_vars

\* The thread of the transaction is scheduled, and every endpoint call of the
\* client returns or times out; a server that can be reached answers.
Fairness == WF_vars(Client) /\ WF_vars(\E r \in Answers : Serve(r))
FairSpec == Spec /\ Fairness
-----------------------------------------------------------------------------
Returned(r) == pc = "idle" /\ result = r

\* A transaction that returns SUCCESS was processed by the server in this call, and the
\* code it was judged by is the one the server answered with; unless the answer was
\* read from a connection that an earlier exchange has left out of step.
SuccessIsTheServersAnswer ==
    Returned("SUCCESS") /\ "misread" \notin past =>
        served > 0 /\ response.code = pending.code

\* A GET that returns SUCCESS leaves the resource in the file, but for five ways to get
\* something else.  A body that is ended by closing can break off unnoticed, and one
\* that follows an interim answer is not read at all if it has no Content-Length: then
\* there is a part of it, or nothing, behind whatever an earlier attempt left.  After
\* an answer that was lost, or one after which Disconnect() threw, the call is retried
\* and the body appended to what there is.  If the handler's Disconnect() throws there
\* is no retry and what came in passes for the whole.  Or the answer is not its own.
GetDeliversTheResource ==
    Returned("SUCCESS") /\ op = "Get" =>
        \/ file = "whole"
        \/ file \in {"empty", "partial"} /\ response.framing \in {"toClose", "interimBare"}
        \/ file = "garbled" /\ past \cap {"lost", "unclosed"} # {}
        \/ "stuck" \in past
        \/ "misread" \in past

\* The retry loop makes the server process a request again only after the answer was
\* lost or, the answer being there, Disconnect() threw: the loop does not ask whether
\* the exception came before the end of the answer or after it.
RepeatedOnlyIfAnswerLost ==
    served > 1 => past \cap {"lost", "unclosed"} # {}

\* The connection a transaction finds, and sends its request on, is in step: whatever
\* broke off an exchange on it, the handler has closed it since.  The exceptions are a
\* body left behind an interim answer, a handler whose Disconnect() threw, and a
\* canceled exchange, after which nothing is sent any more.
KeptConnectionIsInStep ==
    {"open", "dirty"} \subseteq conn /\ pc \in {"idle", "open", "connect", "send", "sending"} =>
        mCancel \/ conn \cap {"bare", "stuck"} # {}

\* The retry never goes out on the connection that failed: ~StConnection has
\* deleted it and m_connection is nil.
RetryGetsANewConnection == mAttemptRetry /\ pc = "open" => ~persistent

\* mCancel is never reset: a transaction begun after CancelTransaction() is not
\* sent at all and does not succeed, whatever method it is.
CancelledRequestIsMute ==
    "muted" \in past => served = 0 /\ ~Returned("SUCCESS")

\* If the network comes back for good every transaction returns: the retry loop
\* does not run on against a server that answers.
ReturnsOnceTheNetworkIsUp ==
    <>[]netUp => (pc # "idle" ~> pc = "idle")

\* The call the retry loop, the connection and the exchange add up to.
Call == INSTANCE DAVCall WITH
    waiting <- pc # "idle",
    outcome <- result,
    done <- served,
    mishaps <- past \cap {"lost", "unclosed", "misread"},
    cancelled <- mCancel,
    doomed <- "muted" \in past

\* Seen from the thread that issues it a transaction is one call: the server
\* processes it before it succeeds, twice only after a mishap, and not at all if it
\* was issued after a cancel; whatever connections, redirects, retries and
\* exceptions it takes.
ImplementsDAVCall == Call!Spec

-----------------------------------------------------------------------------
\* CDAVRequest.h, of CancelTransaction: "Cancel the current transaction; currently
\* only works for PutResource and GetResource".  So a transaction begun later
\* fails, if no exception ended it, only because the server said so.
CancelIsForTheCurrentTransaction ==
    Returned("FAILURE") /\ "muted" \in past /\ exc = "none" => served > 0

\* CDAVRequest.cpp, line 1420: GetResource "uses an HTTP GET to download a
\* resource identified in the parameter resource and places the content of this
\* into a file denoted by outputSpec".  (Here Disconnect() never threw.)
GetFileHoldsTheResource ==
    Returned("SUCCESS") /\ op = "Get" /\ past \cap {"unclosed", "stuck", "misread"} = {} =>
        file = "whole"
=============================================================================
