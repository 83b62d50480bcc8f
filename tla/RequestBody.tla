------------------------------ MODULE RequestBody ------------------------------
(***************************************************************************)
(* What a captured request tells of its body (internal/protocol/           *)
(* request_body.go), which Repeater and replay send again: the body behind *)
(* its encodings, or a refusal.  And what capturing leaves of a request    *)
(* (protocol/http.go, proxy/http2.go) for it to read.                      *)
(*                                                                         *)
(* A body is a sequence of pieces inside layers of compression, the        *)
(* outermost first, and perhaps chunk framing.  A gRPC message is a piece: *)
(* "m" plain, "z" compressed, "part" an incomplete one.                    *)
(***************************************************************************)
EXTENDS Naturals, SequencesExt

Supported == {"identity", "gzip", "br"}

Body(layers, content) == [layers |-> layers, content |-> content, chunked |-> FALSE]
Empty == Body(<<>>, <<>>)
Dechunked(body) == [body EXCEPT !.chunked = FALSE]

Refused == [ok |-> FALSE, body |-> Empty]
If(condition, body) == IF condition THEN [ok |-> TRUE, body |-> body] ELSE Refused

\* contentEncodings: an unknown name is an error.
Known(encodings) == ToSet(encodings) \subseteq Supported

\* decodeOneContentEncoding.
Peel(result, encoding) ==
    IF encoding = "identity" THEN result
    ELSE If(/\ result.ok /\ ~result.body.chunked
            /\ result.body.layers # <<>> /\ Head(result.body.layers) = encoding,
            [result.body EXCEPT !.layers = IF @ = <<>> THEN @ ELSE Tail(@)])

\* DecodeContentEncodingStrict's loop: the last encoding is undone first.
Unwrapped(body, encodings) ==
    LET n == Len(encodings)
        peeled[i \in 0 .. n] ==
            IF i = 0 THEN If(TRUE, body) ELSE Peel(peeled[i - 1], encodings[n + 1 - i])
    IN  peeled[n]

DecodeStrict(body, encodings) ==
    IF Known(encodings) /\ body # Empty THEN Unwrapped(body, encodings)
    ELSE If(Known(encodings), body)

\* DecodeContentEncoding, for display.
Decode(body, encodings) ==
    LET result == DecodeStrict(body, encodings)
    IN  IF result.ok /\ result.body # Empty THEN result.body ELSE body

\* encodeOneContentEncoding.
Wrap(body, encoding) ==
    IF encoding = "identity" THEN body ELSE [body EXCEPT !.layers = <<encoding>> \o @]

\* EncodeContentEncoding's loop.
Wrapped(body, encodings) ==
    LET wrapped[i \in 0 .. Len(encodings)] ==
            IF i = 0 THEN body ELSE Wrap(wrapped[i - 1], encodings[i])
    IN  wrapped[Len(encodings)]

Encode(body, encodings) ==
    If(Known(encodings), IF body = Empty THEN body ELSE Wrapped(body, encodings))

-----------------------------------------------------------------------------
(* Reading a captured message:                                             *)
(*   raw      what Raw holds: "none", "http1" (a request that parses),     *)
(*            "dump" (the HTTP/2 headers), "wire" (a body), "junk"         *)
(*   wire     the body in Raw, encoded as rawEnc says                      *)
(*   body     Body                                                         *)
(*   enc      Content-Encoding in Headers                                  *)
(*   length   Content-Length is above zero                                 *)
(*   rep      BodyRepresentationMeta                                       *)

\* encodedBodyIsAmbiguous.
Ambiguous(m) == ToSet(m.enc) \ {"identity"} # {} /\ m.rep # "decoded"

BodyWithoutRaw(m) ==
    If(Known(m.enc) /\ ~Ambiguous(m) /\ (m.body = Empty => ~m.length), m.body)

HTTP1BodyFromRaw(m) ==
    LET logical == DecodeStrict(Dechunked(m.wire), m.rawEnc)
        matches ==
            IF m.wire.chunked THEN m.body \in {logical.body, m.wire}
            ELSE \/ logical.body = Empty /\ m.body = m.wire
                 \/ m.body \in {Empty, logical.body}
    IN  If(m.raw = "http1" /\ m.rawEnc = m.enc /\ logical.ok /\ matches, logical.body)

HTTP1Body(m) ==
    IF m.rep = "unavailable" THEN Refused
    ELSE IF m.raw = "none" THEN BodyWithoutRaw(m)
    ELSE HTTP1BodyFromRaw(m)

HTTP2BodyEmpty(m) ==
    IF m.rep # "decoded" /\ m.raw = "dump" THEN Refused
    ELSE IF m.rep = "" /\ m.raw = "none" THEN If(Known(m.enc) /\ ~m.length, Empty)
    ELSE BodyWithoutRaw(m)

\* Mutation: the encoded bytes of a held request are taken for the body itself.
HTTP2BodyAsIs(m) == If(m.rep # "unavailable", m.body)

HTTP2Body(m) ==
    LET logical == DecodeStrict(m.wire, m.enc)
    IN  IF m.rep = "unavailable" THEN Refused
        ELSE IF m.rep = "decoded" /\ m.raw = "wire"
             THEN If(logical.ok /\ logical.body = m.body, logical.body)
        ELSE IF m.body = Empty THEN HTTP2BodyEmpty(m)
        ELSE IF m.raw = "wire" /\ m.wire = m.body THEN logical
        ELSE If(Known(m.enc) /\ ~Ambiguous(m), m.body)

\* decodeCapturedGRPCWire: the messages of a body made of whole frames.
GRPCWire(body, encodings) ==
    LET framed == DecodeStrict(body, encodings)
    IN  If(framed.ok /\ framed.body.layers = <<>> /\ "part" \notin ToSet(framed.body.content),
           framed.body)

\* The messages of the flow, and what the body of its request says of them.
GRPCBody(f) ==
    LET m == f.request
        parsed == GRPCWire(m.body, m.enc)
        result ==
            IF m.body # Empty /\ (m.rep = "decoded" \/ f.messages = <<>>)
            THEN If(/\ m.rep = "decoded" /\ m.raw = "wire" => m.wire = m.body
                    /\ parsed.ok
                    /\ f.messages \in {<<>>, parsed.body.content}, parsed.body)
            ELSE If(TRUE, Body(<<>>, f.messages))
        content == result.body.content
    IN  If(/\ m.rep # "unavailable" /\ result.ok
           /\ content = <<>> => ~m.length /\ (m.rep = "decoded" \/ m.raw # "dump")
           /\ "z" \in ToSet(content) => f.grpcEnc,
           result.body)

CapturedRequestBody(f) ==
    CASE f.proto = "http1" -> HTTP1Body(f.request)
      [] f.proto = "http2" -> HTTP2Body(f.request)
      [] f.proto = "grpc" -> GRPCBody(f)
      [] OTHER -> Refused

\* EncodeRequestBody: what is sent again.
EncodeRequestBody(f, body) ==
    LET usable == f.proto = "grpc" /\ "z" \in ToSet(body.content) => f.grpcEnc
    IN  IF usable THEN Encode(body, f.request.enc) ELSE Refused

-----------------------------------------------------------------------------
(* Capturing a request that reached its server with the body wire:         *)
(*   how      "passed", "held" (still, or dropped), "edited", "garbled"    *)
(*            (edited to something that does not parse), "unfinished",     *)
(*            "again" (sent by Repeater or replay)                         *)

Captured(raw, wire, body, rep) == [raw |-> raw, wire |-> wire, body |-> body, rep |-> rep]

\* finishH2RequestCapture.
Finished(proto, wire, enc) ==
    LET logical == DecodeStrict(wire, enc)
        raw == IF wire = Empty THEN "none" ELSE "wire"
    IN  IF proto = "grpc" THEN Captured(raw, wire, wire, "decoded")
        ELSE IF logical.ok THEN Captured(raw, wire, logical.body, "decoded")
        ELSE Captured(raw, wire, wire, "unavailable")

\* http.go: the dump of the request, with chunk framing in the display body; or
\* captureForwardedHTTP1.
CaptureHTTP1(s) ==
    CASE s.how = "garbled" -> Captured("junk", s.wire, s.wire, "unavailable")
      [] s.how = "edited" -> Captured("http1", s.wire, Decode(Dechunked(s.wire), s.enc), "decoded")
      [] OTHER -> Captured("http1", s.wire, Decode(s.wire, s.enc), "")

\* RoundTrip: the header dump until the body has been read.
CaptureHTTP2(s) ==
    CASE s.how = "unfinished" -> Captured("dump", Empty, Empty, "unavailable")
      [] s.how = "held" -> Captured(IF s.wire = Empty THEN "none" ELSE "wire", s.wire, s.wire, "")
      [] s.how = "passed" /\ ~s.hasBody -> Captured("dump", Empty, Empty, "decoded")
      [] OTHER -> Finished(s.proto, s.wire, s.enc)

\* Send and Resend record the logical body, and no wire bytes.
CaptureAgain(s) ==
    Captured("none", Empty,
             IF s.proto = "grpc" THEN Empty ELSE DecodeStrict(s.wire, s.enc).body, "decoded")

Capture(s) ==
    LET m == IF s.how = "again" THEN CaptureAgain(s)
             ELSE IF s.proto = "http1" THEN CaptureHTTP1(s) ELSE CaptureHTTP2(s)
    IN  [proto |-> s.proto, grpcEnc |-> s.grpcEnc, messages |-> s.messages,
         request |-> [raw |-> m.raw, wire |-> m.wire, rawEnc |-> s.enc, body |-> m.body,
                      enc |-> s.enc, rep |-> m.rep,
                      length |-> s.length /\ s.how # "again"]]

-----------------------------------------------------------------------------
(* Reference.                                                              *)

\* What the server made of the body it got, if it could read it.
Meant(s) ==
    IF s.proto # "grpc" THEN DecodeStrict(Dechunked(s.wire), s.enc)
    ELSE LET read == GRPCWire(s.wire, s.enc)
         IN  If(read.ok /\ ("z" \in ToSet(read.body.content) => s.grpcEnc), read.body)

\* The messages that are whole: only the last one may not be.
Complete(content) ==
    IF content # <<>> /\ Last(content) = "part" THEN Front(content) ELSE content

\* The requests a program may make.
Legal(s) ==
    /\ s.how \in CASE s.proto = "http1" -> {"passed", "held", "edited", "garbled", "again"}
                   [] s.proto = "http2" -> {"passed", "held", "edited", "unfinished", "again"}
                   [] OTHER -> {"passed", "edited", "unfinished", "again"}
    /\ s.wire.chunked => s.proto = "http1" /\ s.how # "again"
    /\ s.length => s.wire # Empty /\ ~s.wire.chunked
    /\ ~s.hasBody => s.wire = Empty /\ s.proto # "http1" /\ s.how = "passed"
    /\ s.how = "again" => Meant(s).ok
    /\ IF s.proto # "grpc"
       THEN s.messages = <<>> /\ ~s.grpcEnc /\ s.wire.content \in {<<>>, <<"m">>}
       ELSE /\ "part" \notin ToSet(Complete(s.wire.content))
            /\ s.messages = IF s.how = "again" THEN Meant(s).body.content
                            ELSE IF s.wire.layers # <<>> THEN <<>>
                            ELSE Complete(s.wire.content)

\* A request is sent again with the body its server got, or not at all; and a
\* request that its server could read and whose capture is complete is not refused
\* (replay.Resend, repeater.FromFlow and render).  Two kinds are: an edited HTTP/1
\* request in chunks and a gRPC request with a length, when the body is an encoding
\* of nothing.
SentAgainAsMeant(s) ==
    LET f == Capture(s)
        result == CapturedRequestBody(f)
        again == EncodeRequestBody(f, result.body)
    IN  /\ result.ok /\ again.ok =>
              /\ Meant(s).ok /\ result.body = Meant(s).body
              /\ DecodeStrict(again.body, s.enc) = Meant(s)
        /\ Meant(s).ok /\ s.how \notin {"garbled", "unfinished"} =>
              \/ result.ok /\ again.ok
              \/ Meant(s).body = Empty /\ s.wire # Empty /\ (s.wire.chunked \/ s.proto = "grpc")

Scenarios(layers, contents, encodings) ==
    {s \in [proto : {"http1", "http2", "grpc"},
            how : {"passed", "held", "edited", "garbled", "unfinished", "again"},
            wire : [layers : layers, content : contents, chunked : BOOLEAN],
            enc : encodings, hasBody : BOOLEAN, length : BOOLEAN, grpcEnc : BOOLEAN,
            messages : contents] : Legal(s)}
================================================================================
