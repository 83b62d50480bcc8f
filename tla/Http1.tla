--------------------------------- MODULE Http1 ---------------------------------
(***************************************************************************)
(* One HTTP/1 exchange (internal/protocol/http.go) and the handshake that  *)
(* turns it into a WebSocket (handleWebSocket in websocket.go).            *)
(*                                                                         *)
(* The handler is one goroutine; each action is what it does between two   *)
(* operations that may block or fail, with both ways such an operation may *)
(* end.  After a 101 response two copiers relay the connection.            *)
(***************************************************************************)
EXTENDS Exchange, Naturals, SequencesExt

CONSTANT MaxInterim \* bound on the informational responses of a server

ASSUME Http1Assumption == MaxInterim \in Nat

VARIABLES
    pc,         \* where the handler is
    err,        \* Flow.Err is set
    request,    \* what Flow.Request.Raw records
    response,   \* what Flow.Response.Raw records
    out,        \* the bytes the handler is about to send on
    sent,       \* what the server got
    answer,     \* the response in hand: "final", or "switch" for status 101
    toClient,   \* the responses the client got
    copying,    \* the peers that are still copied from, after a 101
    first,      \* how the first copy ended
    gone,       \* peers that hung up after a 101
    closed      \* closeConnections ran

flowVars == <<status, err, request, response>>
trafficVars == <<out, sent, answer, toClient, dropped>>
relayVars == <<copying, first, gone, closed>>
vars == <<pc, flowVars, trafficVars, relayVars>>

Peers == {"client", "server"}

\* A status below 200 is informational, except 101, which ends the exchange.
AnswerKinds == {"interim", "switch", "final"}

Init ==
    /\ pc = "request"
    /\ status = "active" /\ err = FALSE
    /\ request = "none" /\ response = "none"
    /\ out = "none" /\ sent = "none" /\ answer = "none"
    /\ toClient = <<>>
    /\ dropped = FALSE
    /\ copying = {} /\ first = "none" /\ gone = {} /\ closed = FALSE

-----------------------------------------------------------------------------
(* How the handler returns.                                                *)

Complete ==
    /\ pc' = "returned"
    /\ status' = "complete"
    /\ UNCHANGED err

\* Mutation: a failure is reported to the caller only.
FailQuietly ==
    /\ pc' = "returned"
    /\ UNCHANGED <<status, err>>

\* failHTTP1Response.
Fail ==
    /\ pc' = "returned"
    /\ status' = "error"
    /\ err' = TRUE

-----------------------------------------------------------------------------
(* The request.                                                            *)

ReadRequest(upgrade) ==
    /\ pc = "request"
    /\ request' = "original"
    /\ out' = "original"
    /\ pc' = IF upgrade THEN "handshake" ELSE "beforeForward"
    /\ UNCHANGED <<status, err, response, sent, answer, toClient, dropped, relayVars>>

ReadRequestFails ==
    /\ pc = "request"
    /\ Fail
    /\ UNCHANGED <<request, response, trafficVars, relayVars>>

\* The request head was read, its body was not: the error is returned as it is.
DumpRequestFails ==
    /\ pc = "request"
    /\ pc' = "returned"
    /\ UNCHANGED <<flowVars, trafficVars, relayVars>>

\* The engine holds a message, or does not.
Before(here, held, next) ==
    /\ pc = here
    /\ \/ pc' = next /\ UNCHANGED status
       \/ pc' = held /\ status' = "pending"
    /\ UNCHANGED <<err, request, response, trafficVars, relayVars>>

BeforeForward == Before("beforeForward", "requestHeld", "send")
BeforeDeliver == Before("beforeDeliver", "responseHeld", "deliver")

\* Mutation: the record keeps the request as it was read.
CaptureOriginal(text) == request

\* captureForwardedHTTP1: an edited request is recorded as it is sent, parsed
\* again if it can be.
CaptureForwarded(text) == text

\* The operator's verdict on the request; the engine has made the flow active.
ForwardRequest(text) ==
    /\ pc = "requestHeld"
    /\ out' = text
    /\ request' = IF text = "edited" THEN CaptureForwarded(text) ELSE request
    /\ pc' = "send"
    /\ status' = "active"
    /\ UNCHANGED <<err, response, sent, answer, toClient, dropped, relayVars>>

Drop(held) ==
    /\ pc = held
    /\ dropped' = TRUE
    /\ Complete
    /\ UNCHANGED <<request, response, out, sent, answer, toClient, relayVars>>

\* The request is written and flushed, a handshake without the extensions the
\* client offered.
Send ==
    /\ pc \in {"send", "handshake"}
    /\ sent' = IF pc = "send" THEN out ELSE "stripped"
    /\ pc' = IF pc = "send" THEN "response" ELSE "upgrade"
    /\ UNCHANGED <<flowVars, out, answer, toClient, dropped, relayVars>>

\* The write or the flush fails: the error is returned as it is.
SendFails ==
    /\ pc \in {"send", "handshake"}
    /\ pc' = "returned"
    /\ UNCHANGED <<flowVars, trafficVars, relayVars>>

-----------------------------------------------------------------------------
(* The response.                                                           *)

Interim(kind) == kind = "interim"

\* Informational responses are passed on at once and recorded nowhere.
RelayInterim(kind) ==
    /\ pc = "response"
    /\ Interim(kind)
    /\ Len(toClient) < MaxInterim
    /\ toClient' = Append(toClient, [kind |-> kind, text |-> "original"])
    /\ UNCHANGED <<pc, flowVars, out, sent, answer, dropped, relayVars>>

\* The response that ends the exchange, with its body.
ReadResponse(kind) ==
    /\ pc = "response"
    /\ ~ Interim(kind)
    /\ response' = "original"
    /\ out' = "original"
    /\ answer' = kind
    /\ pc' = "beforeDeliver"
    /\ UNCHANGED <<status, err, request, sent, toClient, dropped, relayVars>>

\* The verdict on the response.
DeliverHeld(text) ==
    /\ pc = "responseHeld"
    /\ out' = text
    /\ pc' = "deliver"
    /\ status' = "active"
    /\ UNCHANGED <<err, request, response, sent, answer, toClient, dropped, relayVars>>

\* The response is written and flushed; after a 101 the connection is relayed.
Deliver ==
    /\ pc = "deliver"
    /\ toClient' = Append(toClient, [kind |-> answer, text |-> out])
    /\ IF answer = "switch"
          THEN pc' = "relay" /\ copying' = Peers /\ UNCHANGED <<status, err>>
          ELSE Complete /\ UNCHANGED copying
    /\ UNCHANGED <<request, response, out, sent, answer, dropped, first, gone, closed>>

\* Reading, dumping or writing a response fails.
ResponseFails ==
    /\ pc \in {"response", "deliver"}
    /\ Fail
    /\ UNCHANGED <<request, response, trafficVars, relayVars>>

-----------------------------------------------------------------------------
(* A switched connection (relayHTTP1Upgrade).                              *)

HangUp(p) ==
    /\ pc = "relay"
    /\ p \notin gone
    /\ gone' = gone \cup {p}
    /\ UNCHANGED <<pc, flowVars, trafficVars, copying, first, closed>>

\* Mutation: the opposite direction is left to end by itself.
KeepConnections == closed

CloseConnections == TRUE

\* The copy from p ends: its source is at its end, or the connections are
\* closed, or its destination fails.  The first to end closes both connections.
CopyEnds(p, how) ==
    /\ pc = "relay"
    /\ p \in copying
    /\ how = "eof" => p \in gone \/ closed
    /\ how = "error" => gone # {} \/ closed
    /\ copying' = copying \ {p}
    /\ IF first = "none" THEN first' = how /\ closed' = CloseConnections
                         ELSE UNCHANGED <<first, closed>>
    /\ UNCHANGED <<pc, flowVars, trafficVars, gone>>

RelayReturns ==
    /\ pc = "relay"
    /\ copying = {}
    /\ IF first = "eof" THEN Complete ELSE Fail
    /\ UNCHANGED <<request, response, trafficVars, relayVars>>

-----------------------------------------------------------------------------
(* The answer to a WebSocket handshake, which nobody may edit.             *)

UpgradeFails ==
    /\ pc = "upgrade"
    /\ Fail
    /\ UNCHANGED <<request, response, trafficVars, relayVars>>

\* relaySwitchingProtocols, and the session of WebSocket.tla after it, whose
\* end completes the flow.
UpgradeAccepted ==
    /\ pc = "upgrade"
    /\ toClient' = Append(toClient, [kind |-> "switch", text |-> "original"])
    /\ Complete
    /\ UNCHANGED <<request, response, out, sent, answer, dropped, relayVars>>

\* relayWebSocketRejection: the response is recorded before it is written.
RejectionRead ==
    /\ pc = "upgrade"
    /\ response' = "original"
    /\ pc' = "rejected"
    /\ UNCHANGED <<status, err, request, trafficVars, relayVars>>

RejectionWritten ==
    /\ pc = "rejected"
    /\ toClient' = Append(toClient, [kind |-> "final", text |-> "original"])
    /\ Complete
    /\ UNCHANGED <<request, response, out, sent, answer, dropped, relayVars>>

RejectionFails ==
    /\ pc = "rejected"
    /\ Fail
    /\ UNCHANGED <<request, response, trafficVars, relayVars>>

-----------------------------------------------------------------------------
RequestStep ==
    \/ \E upgrade \in BOOLEAN : ReadRequest(upgrade)
    \/ ReadRequestFails \/ DumpRequestFails
    \/ BeforeForward \/ Send \/ SendFails

ResponseStep ==
    \/ \E kind \in AnswerKinds : RelayInterim(kind) \/ ReadResponse(kind)
    \/ BeforeDeliver \/ Deliver \/ ResponseFails
    \/ UpgradeFails \/ UpgradeAccepted
    \/ RejectionRead \/ RejectionWritten \/ RejectionFails

Operator ==
    \/ \E text \in Texts : ForwardRequest(text) \/ DeliverHeld(text)
    \/ \E held \in {"requestHeld", "responseHeld"} : Drop(held)

Copier == RelayReturns \/ \E p \in Peers, how \in {"eof", "error"} : CopyEnds(p, how)

Next == RequestStep \/ ResponseStep \/ Operator \/ Copier \/ \E p \in Peers : HangUp(p)

Spec == Init /\ [][Next]_vars

\* A copy whose source or whose connection is at its end notices it.  That its
\* destination is gone it notices only if there is something to write.
FairSpec ==
    /\ Spec
    /\ \A p \in Peers : WF_vars(CopyEnds(p, "eof"))
    /\ WF_vars(RelayReturns)

-----------------------------------------------------------------------------
(* Properties.                                                             *)

States == {"request", "handshake", "upgrade", "rejected", "beforeForward",
           "requestHeld", "send", "response", "beforeDeliver", "responseHeld",
           "deliver", "relay", "returned"}

TypeOK ==
    /\ pc \in States
    /\ status \in {"active", "pending", "complete", "error"}
    /\ err \in BOOLEAN
    /\ {request, response, out} \subseteq Texts \cup {"none"}
    /\ sent \in Texts \cup {"none", "stripped"}
    /\ answer \in {"switch", "final", "none"}
    /\ toClient \in Seq([kind : AnswerKinds, text : Texts])
    /\ dropped \in BOOLEAN
    /\ copying \subseteq Peers
    /\ first \in {"none", "eof", "error"}
    /\ gone \subseteq Peers
    /\ closed \in BOOLEAN

\* The state is well typed, and once the request is out an exchange never ends
\* without saying how: it is complete, or it failed and carries the error
\* (failHTTP1Response).
SentExchangeEnds ==
    /\ TypeOK
    /\ pc = "returned" /\ sent # "none" =>
          \/ status = "complete" /\ ~ err
          \/ status = "error" /\ err

\* A flow is complete only when the client has its last response or the
\* operator dropped the message ("the exchange finished normally").
CompleteIsDelivered ==
    status = "complete" =>
        \/ dropped
        \/ toClient # <<>> /\ Last(toClient).kind # "interim"

\* What the flow says was requested is what the operator let the server have
\* (captureForwardedHTTP1).  A WebSocket handshake is apart.
RequestRecordedAsSent == sent \in Texts => request = sent

\* A client that was told of a switch of protocols gets the switched
\* connection, or its end, and no response after it ("101 is different").
SwitchIsLast ==
    \A i \in DOMAIN toClient : toClient[i].kind = "switch" =>
        i = Len(toClient) /\ pc \in {"relay", "returned"}

\* The flow and what the client got tell the same story of an exchange.
RecordedAsRelayed == CompleteIsDelivered /\ RequestRecordedAsSent /\ SwitchIsLast

\* When either peer of a switched connection hangs up, the exchange ends
\* ("avoiding the client-waits-for-EOF/proxy-waits-for-client deadlock").
RelayEnds == pc = "relay" /\ gone # {} ~> pc = "returned"

\* The handler never leaves a flow that looks alive (StatusError: "the
\* connection or parse failed; see Flow.Err").  The code does not keep this:
\* when dumping, writing or flushing the request fails the flow stays active.
FailureIsShown == pc = "returned" => status \in {"complete", "error"}

\* What the flow says was answered is what the client got (Message.Raw:
\* "exactly as it went (or will go) on the wire").  The code does not keep
\* this: an edited response stays recorded as the server sent it.
ResponseRecordedAsSent ==
    \A i \in DOMAIN toClient :
        toClient[i].kind = "final" => response = toClient[i].text

==============================================================================
