-------------------------------- MODULE Framing --------------------------------
(***************************************************************************)
(* gRPC message framing (internal/protocol/grpc.go): a message is a flag,  *)
(* a length and that many bytes.  A stream of bytes comes in chunks that   *)
(* know nothing of messages; grpcFramer reports the messages that pass and *)
(* grpcTamperReader replaces them.  DecodeGRPCFrames reads a whole body.   *)
(*                                                                         *)
(* A byte is a number and the length takes one byte instead of four, so a  *)
(* header has HeaderSize = 2 bytes instead of 5.                           *)
(***************************************************************************)
EXTENDS Naturals, SequencesExt

HeaderSize == 2

\* writeGRPCFrame.
Frame(message) ==
    <<IF message.compressed THEN 1 ELSE 0, Len(message.data)>> \o message.data

EncodeGRPCFrames(messages) == FlattenSeq([i \in DOMAIN messages |-> Frame(messages[i])])

\* A buffer begins with a whole frame.
HasMessage(buf) == Len(buf) >= HeaderSize /\ Len(buf) >= HeaderSize + buf[2]

First(buf) == [compressed |-> buf[1] % 2 = 1,
               data |-> SubSeq(buf, HeaderSize + 1, HeaderSize + buf[2])]

Rest(buf) == SubSeq(buf, HeaderSize + buf[2] + 1, Len(buf))

\* Mutation: the bytes behind a message are forgotten.
FirstOnly(buf) ==
    IF HasMessage(buf) THEN [messages |-> <<First(buf)>>, rest |-> <<>>]
    ELSE [messages |-> <<>>, rest |-> buf]

\* A turn of drain's loop: the first message is taken from the buffer.
TakeMessage(s) ==
    IF HasMessage(s.rest)
    THEN [messages |-> Append(s.messages, First(s.rest)), rest |-> Rest(s.rest)]
    ELSE s

\* drain: the whole messages at the front of a buffer, and what is left of it.  A
\* buffer has fewer messages than bytes.
Drain(buf) ==
    LET drained[n \in 0 .. Len(buf)] ==
            IF n = 0 THEN [messages |-> <<>>, rest |-> buf] ELSE TakeMessage(drained[n - 1])
    IN  drained[Len(buf)]

\* A body that is not made of whole frames with a flag of 0 or 1 is an error.
DecodeGRPCFrames(body) ==
    LET messages == Drain(body).messages
    IN  [ok |-> EncodeGRPCFrames(messages) = body, messages |-> messages]

-----------------------------------------------------------------------------
(* The readers, chunk by chunk.                                            *)

\* grpcFramer: the bytes pass as they are, the messages are reported.
ReadChunk(s, chunk) ==
    LET drained == Drain(s.buf \o chunk)
    IN  [buf |-> drained.rest,
         out |-> s.out \o chunk,
         reported |-> s.reported \o drained.messages]

Observe(chunks) ==
    LET read[n \in 0 .. Len(chunks)] ==
            IF n = 0 THEN [buf |-> <<>>, out |-> <<>>, reported |-> <<>>]
            ELSE ReadChunk(read[n - 1], chunks[n])
    IN  read[Len(chunks)]

\* What a verdict makes of a message: "keep" leaves it alone, "drop" omits it,
\* anything else is the new data.
Replaced(message, verdict) ==
    IF verdict = "drop" THEN <<>>
    ELSE Frame(IF verdict = "keep" THEN message ELSE [message EXCEPT !.data = <<0>>])

\* What is sent for messages, the first of which gets the verdict after the seen-th.
Sent(messages, verdicts, seen) ==
    FlattenSeq([i \in DOMAIN messages |-> Replaced(messages[i], verdicts[seen + i])])

\* fill: the n-th message of the stream gets the n-th verdict.
Fill(s, chunk, verdicts) ==
    LET drained == Drain(s.in \o chunk)
    IN  [in |-> drained.rest,
         out |-> s.out \o Sent(drained.messages, verdicts, s.seen),
         seen |-> s.seen + Len(drained.messages)]

\* grpcTamperReader: a partial message at the end of the stream passes unchanged.
Tamper(chunks, verdicts) ==
    LET filled[n \in 0 .. Len(chunks)] ==
            IF n = 0 THEN [in |-> <<>>, out |-> <<>>, seen |-> 0]
            ELSE Fill(filled[n - 1], chunks[n], verdicts)
        end == filled[Len(chunks)]
    IN  end.out \o end.in

-----------------------------------------------------------------------------
(* Reference.  A stream of whole messages and a piece of another.          *)

\* Every way to cut a sequence into chunks of at least one byte: each byte begins
\* a chunk or goes to the last one.
Chunkings(bytes) ==
    LET cut[n \in 0 .. Len(bytes)] ==
            IF n = 0 THEN {<<>>}
            ELSE {Append(chunks, <<bytes[n]>>) : chunks \in cut[n - 1]} \cup
                 {Append(Front(chunks), Append(Last(chunks), bytes[n])) :
                     chunks \in cut[n - 1] \ {<<>>}}
    IN  cut[Len(bytes)]

\* However the bytes are cut into chunks, the observer passes them on unchanged and
\* reports exactly the messages, the tampering reader sends what the verdicts ask
\* for, and the whole body decodes to the same messages.
ReadsAgree(messages, tail, verdicts, chunks) ==
    LET bytes == EncodeGRPCFrames(messages) \o tail
    IN  /\ Observe(chunks).out = bytes
        /\ Observe(chunks).reported = messages
        /\ Tamper(chunks, verdicts) = Sent(messages, verdicts, 0) \o tail
        /\ DecodeGRPCFrames(bytes) = [ok |-> tail = <<>>, messages |-> messages]

FramingAgreesOn(messages, tail, verdicts) ==
    \A chunks \in Chunkings(EncodeGRPCFrames(messages) \o tail) :
        ReadsAgree(messages, tail, verdicts, chunks)
================================================================================
