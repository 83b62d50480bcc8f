------------------------------ MODULE Http2Stream ------------------------------
(***************************************************************************)
(* One HTTP/2 stream (h2Capture.RoundTrip in internal/proxy/http2.go)      *)
(* between a client and a server that converse: the client of a gRPC call  *)
(* streams its messages and ends its side when it has the last answer.     *)
(*                                                                         *)
(* Two goroutines act for the stream.  The handler runs RoundTrip and then *)
(* copies the response; the transport's writer reads the request body.     *)
(* Either may be held by the intercept engine, of which the pauses of this *)
(* flow are modelled: Register and Cleanup of Intercept.tla.               *)
(***************************************************************************)
EXTENDS Exchange, Naturals, SequencesExt

CONSTANT Messages \* number of messages of each side of the conversation

ASSUME Http2StreamAssumption == Messages \in Nat \ {0}

VARIABLES
    grpc,       \* the content type is gRPC
    armed,      \* the directions that are intercepted when the stream looks
    handler,    \* where the handler goroutine is
    writer,     \* where the reader of the request body is
    holding,    \* the goroutines the engine holds for this flow
    asked,      \* number of messages the client sent
    askedAll,   \* the client ended its side
    read,       \* number of those read from the request body
    upstream,   \* what the body's reader passed on to the server
    upstreamEnd,
    answered,   \* number of messages the server sent
    serverEnd,  \* "no", "eof", or "reset"
    copied,     \* number of those read from the response body
    delivered,  \* what the client got
    recorded    \* what Flow.Messages holds of gRPC messages

headVars == <<grpc, armed>>
recordVars == <<status, holding, recorded, dropped>>
requestVars == <<asked, askedAll, read, upstream, upstreamEnd>>
responseVars == <<answered, serverEnd, copied, delivered>>
streamVars == <<headVars, handler, writer, recordVars, requestVars, responseVars>>

StreamInit ==
    /\ grpc \in BOOLEAN
    /\ armed \in SUBSET Directions
    /\ handler = "start" /\ writer = "idle"
    /\ status = "active" /\ holding = {}
    /\ recorded = <<>> /\ dropped = FALSE
    /\ asked = 0 /\ askedAll = FALSE
    /\ read = 0 /\ upstream = <<>> /\ upstreamEnd = FALSE
    /\ answered = 0 /\ serverEnd = "no" /\ copied = 0 /\ delivered = <<>>

\* A unary exchange has one message each way.
Turns == IF grpc THEN Messages ELSE 1

\* Mutation: a body that is intercepted is buffered whatever it is.
BufferAll(d) == IF d \in armed THEN "buffer" ELSE "observe"

\* How a direction is treated: gRPC messages are tampered with one by one,
\* other bodies are buffered, and what is not intercepted is observed.
Mode(d) ==
    CASE d \in armed /\ grpc   -> "stream"
      [] d \in armed /\ ~ grpc -> "buffer"
      [] OTHER                 -> "observe"

-----------------------------------------------------------------------------
(* The pauses of the engine for this flow.                                 *)

Hold(who) ==
    /\ holding' = holding \cup {who}
    /\ status' = "pending"

Release(who) ==
    /\ who \in holding
    /\ holding' = holding \ {who}

\* The last pause to end makes the flow active, whatever it was before.
Resumed(who) == IF holding = {who} THEN "active" ELSE status

\* The transport has the request and has not let go of its body, which it may go on
\* reading when the response is over.
Transport ==
    /\ handler \in {"roundTrip", "bufferResponse", "responseHeld", "body", "messageHeld",
                    "ended"}
    /\ writer # "gone"

-----------------------------------------------------------------------------
(* Client and server.                                                      *)

Ask ==
    /\ asked < Turns
    /\ asked' = asked + 1
    /\ UNCHANGED <<headVars, handler, writer, recordVars, askedAll, read, upstream,
                   upstreamEnd, responseVars>>

\* A unary client ends its side with its request.
AskedAll ==
    /\ ~ askedAll /\ asked = Turns
    /\ grpc => Len(delivered) = Turns
    /\ askedAll' = TRUE
    /\ UNCHANGED <<headVars, handler, writer, recordVars, asked, read, upstream,
                   upstreamEnd, responseVars>>

Answer ==
    /\ serverEnd = "no"
    /\ answered < Len(upstream)
    /\ answered' = answered + 1
    /\ UNCHANGED <<headVars, handler, writer, recordVars, requestVars, serverEnd,
                   copied, delivered>>

\* The server ends its side when the client has, or early.
ServerEnds(how) ==
    /\ serverEnd = "no" /\ Transport
    /\ serverEnd' = how
    /\ UNCHANGED <<headVars, handler, writer, recordVars, requestVars, answered,
                   copied, delivered>>

-----------------------------------------------------------------------------
(* RoundTrip, request side.                                                *)

\* The body is read here and now, or is left to the transport.
Start ==
    /\ handler = "start"
    /\ handler' = IF Mode("request") = "stream" THEN "roundTrip" ELSE Mode("request")
    /\ UNCHANGED <<headVars, writer, recordVars, requestVars, responseVars>>

\* ReadAll of the body, then BeforeForward with it.
BufferRequest ==
    /\ handler = "buffer"
    /\ askedAll
    /\ read' = asked
    /\ \/ Hold("handler") /\ handler' = "bufferHeld"
          /\ UNCHANGED <<upstream, upstreamEnd>>
       \/ handler' = "roundTrip"
          /\ upstream' = <<"original">> /\ upstreamEnd' = TRUE
          /\ UNCHANGED <<status, holding>>
    /\ UNCHANGED <<headVars, writer, recorded, dropped, asked, askedAll, responseVars>>

ForwardBuffered(text) ==
    /\ handler = "bufferHeld"
    /\ Release("handler")
    /\ status' = Resumed("handler")
    /\ handler' = "roundTrip"
    /\ upstream' = <<text>> /\ upstreamEnd' = TRUE
    /\ UNCHANGED <<headVars, writer, recorded, dropped, asked, askedAll, read, responseVars>>

\* BeforeForward with the head alone: the direction was armed meanwhile, or
\* there is no body.  Edited bytes are not used.
ObserveRequest ==
    /\ handler = "observe"
    /\ \/ Hold("handler") /\ handler' = "observeHeld"
       \/ handler' = "roundTrip" /\ UNCHANGED <<status, holding>>
    /\ UNCHANGED <<headVars, writer, recorded, dropped, requestVars, responseVars>>

ForwardObserved ==
    /\ handler = "observeHeld"
    /\ Release("handler")
    /\ status' = Resumed("handler")
    /\ handler' = "roundTrip"
    /\ UNCHANGED <<headVars, writer, recorded, dropped, requestVars, responseVars>>

\* The operator drops the whole request, which the transport then never gets, or the
\* whole response.
DropWhole ==
    /\ handler \in {"bufferHeld", "observeHeld", "responseHeld"}
    /\ Release("handler")
    /\ dropped' = TRUE
    /\ status' = "complete"
    /\ handler' = "ended"
    /\ writer' = IF handler = "responseHeld" THEN writer ELSE "gone"
    /\ UNCHANGED <<headVars, recorded, requestVars, responseVars>>

\* base.RoundTrip fails before there is a response.
RoundTripFails ==
    /\ handler = "roundTrip"
    /\ serverEnd = "reset" /\ answered = 0
    /\ status' = "error"
    /\ handler' = "ended"
    /\ UNCHANGED <<headVars, writer, holding, recorded, dropped, requestVars, responseVars>>

-----------------------------------------------------------------------------
(* The transport's writer: a gRPC request is read message by message.      *)

Record(d, n, text) == Append(recorded, [dir |-> d, n |-> n, text |-> text])

\* Mutation: a message is recorded as it was captured.
RecordCaptured(d, n, text) == Record(d, n, "original")

\* grpcTransform records what is forwarded; dropped messages are omitted.
RecordForwarded(d, n, text) == IF grpc THEN Record(d, n, text) ELSE recorded

\* One Read drains as many messages as there are, also when the response is over.
ReadMessage ==
    /\ Transport /\ writer = "idle" /\ ~ upstreamEnd
    /\ read < asked
    /\ read' = read + 1
    /\ \/ Mode("request") = "stream" /\ Hold("writer") /\ writer' = "held"
          /\ UNCHANGED <<upstream, recorded>>
       \/ upstream' = Append(upstream, "original")
          /\ recorded' = RecordForwarded("request", read + 1, "original")
          /\ UNCHANGED <<status, holding, writer>>
    /\ UNCHANGED <<headVars, handler, dropped, asked, askedAll, upstreamEnd, responseVars>>

ForwardMessage(text) ==
    /\ writer = "held"
    /\ Release("writer")
    /\ status' = Resumed("writer")
    /\ writer' = "idle"
    /\ upstream' = Append(upstream, text)
    /\ recorded' = RecordForwarded("request", read, text)
    /\ UNCHANGED <<headVars, handler, dropped, asked, askedAll, read, upstreamEnd,
                   responseVars>>

DropMessage ==
    /\ writer = "held"
    /\ Release("writer")
    /\ status' = Resumed("writer")
    /\ writer' = "idle"
    /\ dropped' = TRUE
    /\ UNCHANGED <<headVars, handler, recorded, requestVars, responseVars>>

EndRequest ==
    /\ Transport /\ writer = "idle" /\ ~ upstreamEnd
    /\ askedAll /\ read = asked
    /\ upstreamEnd' = TRUE
    /\ UNCHANGED <<headVars, handler, writer, recordVars, asked, askedAll, read, upstream,
                   responseVars>>

\* The response is over, and the body of the request is closed.
StopReading ==
    /\ handler = "ended" /\ writer = "idle"
    /\ writer' = "gone"
    /\ UNCHANGED <<headVars, handler, recordVars, requestVars, responseVars>>

-----------------------------------------------------------------------------
(* RoundTrip, response side, and the copy of the response body.            *)

\* The response's head arrives with its first message or its end.
Respond ==
    /\ handler = "roundTrip"
    /\ answered > 0 \/ serverEnd = "eof"
    /\ handler' = IF Mode("response") = "buffer" THEN "bufferResponse" ELSE "body"
    /\ UNCHANGED <<headVars, writer, recordVars, requestVars, responseVars>>

\* ReadAll of the response, whose error is not looked at, then BeforeDeliver.
BufferResponse ==
    /\ handler = "bufferResponse"
    /\ serverEnd # "no"
    /\ copied' = answered
    /\ \/ Hold("handler") /\ handler' = "responseHeld"
          /\ UNCHANGED delivered
       \/ status' = "complete" /\ handler' = "ended"
          /\ delivered' = <<"original">>
          /\ UNCHANGED holding
    /\ UNCHANGED <<headVars, writer, recorded, dropped, requestVars, answered, serverEnd>>

DeliverBuffered(text) ==
    /\ handler = "responseHeld"
    /\ Release("handler")
    /\ status' = "complete"
    /\ handler' = "ended"
    /\ delivered' = <<text>>
    /\ UNCHANGED <<headVars, writer, recorded, dropped, requestVars, answered, serverEnd,
                   copied>>

CopyMessage ==
    /\ handler = "body"
    /\ copied < answered
    /\ copied' = copied + 1
    /\ \/ Mode("response") = "stream" /\ Hold("handler") /\ handler' = "messageHeld"
          /\ UNCHANGED <<delivered, recorded>>
       \/ delivered' = Append(delivered, "original")
          /\ recorded' = RecordForwarded("response", copied + 1, "original")
          /\ UNCHANGED <<status, holding, handler>>
    /\ UNCHANGED <<headVars, writer, dropped, requestVars, answered, serverEnd>>

DeliverMessage(text) ==
    /\ handler = "messageHeld"
    /\ Release("handler")
    /\ status' = Resumed("handler")
    /\ handler' = "body"
    /\ delivered' = Append(delivered, text)
    /\ recorded' = RecordForwarded("response", copied, text)
    /\ UNCHANGED <<headVars, writer, dropped, requestVars, answered, serverEnd, copied>>

WithholdMessage ==
    /\ handler = "messageHeld"
    /\ Release("handler")
    /\ status' = Resumed("handler")
    /\ handler' = "body"
    /\ dropped' = TRUE
    /\ UNCHANGED <<headVars, writer, recorded, requestVars, responseVars>>

\* bodyWrap calls onEOF when the response is at its end, and only then.
EndOfBody ==
    /\ handler = "body"
    /\ copied = answered /\ serverEnd = "eof"
    /\ status' = "complete"
    /\ handler' = "ended"
    /\ UNCHANGED <<headVars, writer, holding, recorded, dropped, requestVars, responseVars>>

\* The response breaks off: its reader fails, and nothing else happens.
BodyBreaks ==
    /\ handler = "body"
    /\ serverEnd = "reset"
    /\ handler' = "ended"
    /\ UNCHANGED <<headVars, writer, recordVars, requestVars, responseVars>>

-----------------------------------------------------------------------------
Handler ==
    \/ Start \/ BufferRequest \/ ObserveRequest \/ RoundTripFails
    \/ Respond \/ BufferResponse \/ CopyMessage \/ EndOfBody \/ BodyBreaks

Writer == ReadMessage \/ EndRequest \/ StopReading

StreamOperator ==
    \/ \E text \in Texts : \/ ForwardBuffered(text) \/ ForwardMessage(text)
                          \/ DeliverBuffered(text) \/ DeliverMessage(text)
    \/ ForwardObserved \/ DropWhole \/ DropMessage \/ WithholdMessage

StreamNext ==
    \/ Ask \/ AskedAll \/ Answer
    \/ \E how \in {"eof", "reset"} : ServerEnds(how)
    \/ Handler \/ Writer \/ StreamOperator

StreamSpec == StreamInit /\ [][StreamNext]_streamVars

\* Client and server keep their conversation going, the goroutines run, and
\* the operator answers.
FairStreamSpec ==
    /\ StreamSpec
    /\ WF_streamVars(Ask) /\ WF_streamVars(AskedAll) /\ WF_streamVars(Answer)
    /\ WF_streamVars(upstreamEnd /\ answered = Len(upstream) /\ ServerEnds("eof"))
    /\ WF_streamVars(Handler) /\ WF_streamVars(Writer) /\ WF_streamVars(StreamOperator)

-----------------------------------------------------------------------------
(* Properties.                                                             *)

StreamTypeOK ==
    /\ grpc \in BOOLEAN
    /\ armed \subseteq Directions
    /\ handler \in {"start", "buffer", "bufferHeld", "observe", "observeHeld", "roundTrip",
                    "bufferResponse", "responseHeld", "body", "messageHeld", "ended"}
    /\ writer \in {"idle", "held", "gone"}
    /\ status \in {"active", "pending", "complete", "error"}
    /\ holding \subseteq {"handler", "writer"}
    /\ {asked, read, answered, copied} \subseteq 0 .. Messages
    /\ {askedAll, upstreamEnd, dropped} \subseteq BOOLEAN
    /\ upstream \in Seq(Texts) /\ delivered \in Seq(Texts)
    /\ serverEnd \in {"no", "eof", "reset"}
    /\ recorded \in Seq([dir : Directions, n : 1 .. Messages, text : Texts])

\* Where the messages of direction d are among those recorded, and which of them the
\* one at i is.
Of(s, d) == {i \in DOMAIN s : s[i].dir = d}

Rank(s, d, i) == Cardinality({j \in Of(s, d) : j <= i})

\* The messages of direction d in s are those passed on: each once, in the order in
\* which they were read, and with its text.
Shows(s, d, passed) ==
    /\ Len(passed) = Cardinality(Of(s, d))
    /\ \A i \in Of(s, d) :
          /\ s[i].text = passed[Rank(s, d, i)]
          /\ \A j \in Of(s, d) : i < j => s[i].n < s[j].n

\* The messages the flow shows are the messages that were passed on, edits
\* included and drops left out ("the Flow records only the bytes actually
\* forwarded (or delivered); dropped messages are omitted").
RecordedAsForwarded ==
    grpc => /\ Shows(recorded, "request", upstream)
            /\ Shows(recorded, "response", delivered)

\* The state is well typed, and while the stream runs its flow is pending exactly as
\* long as one of its two goroutines is held, in whatever order the pauses overlap.
PendingIsHeld ==
    /\ StreamTypeOK
    /\ handler # "ended" => (status = "pending" <=> holding # {})

\* Two goroutines write one flow: its messages and its status stay exact.
StreamIsRecorded == RecordedAsForwarded /\ PendingIsHeld

\* A conversation that is intercepted comes to its end, however it is held up
\* ("a long-lived/bidi stream is never buffered (which would deadlock it)").
ConversationEnds == <>(handler = "ended" \/ dropped)

\* A finished flow stays finished (StatusComplete: "the exchange finished
\* normally").  The code does not keep this: a pause of a flow writes pending when it
\* begins, and the last one active when it ends.
FinishedStays == [][status = "complete" => status' = "complete"]_status

\* A response the server broke off leaves its flow in error ("StatusError: the
\* connection or parse failed"), even when nothing of it was intercepted.  The
\* code does not keep this: bodyWrap only reacts to io.EOF.
BreakIsError ==
    handler = "ended" /\ serverEnd = "reset" /\ armed = {} /\ ~ dropped =>
        status = "error"

==============================================================================
