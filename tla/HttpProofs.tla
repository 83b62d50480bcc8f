------------------------------- MODULE HttpProofs -------------------------------
(***************************************************************************)
(* Proofs about the exchanges of HTTP: Http2Stream, for any number of      *)
(* messages of either side, and Http1, for any number of informational     *)
(* responses.                                                              *)
(***************************************************************************)
EXTENDS Http1, Http2Stream, SequenceTheorems, FiniteSetTheorems, TLAPS

-----------------------------------------------------------------------------
(* HTTP/2: the inductive invariant of a stream.                            *)

\* Before the transport has the request.
Early == {"start", "buffer", "bufferHeld", "observe", "observeHeld"}

Buffering == {"buffer", "bufferHeld", "bufferResponse", "responseHeld"}

HandlerHeld == {"bufferHeld", "observeHeld", "responseHeld", "messageHeld"}

\* The engine holds the goroutines that wait for it.
HoldingIsWaiting ==
    /\ "handler" \in holding <=> handler \in HandlerHeld
    /\ "writer" \in holding <=> writer = "held"

\* A body is buffered before anything of it went on, and gRPC is never buffered.
BufferedFirst ==
    /\ handler \in Early =>
          /\ writer = "idle" /\ ~ upstreamEnd
          /\ upstream = <<>> /\ delivered = <<>> /\ recorded = <<>>
    /\ handler \in Buffering => ~ grpc
    /\ ~ grpc => recorded = <<>>

\* What was passed on was read before, and so was the message that is held.
PassedWasRead ==
    /\ Len(upstream) <= Messages
    /\ writer = "held" => ~ upstreamEnd /\ read > 0
    /\ ~ upstreamEnd => Len(upstream) + (IF writer = "held" THEN 1 ELSE 0) <= read
    /\ handler = "messageHeld" => copied > 0

\* The last message of direction d that was read is d's last so far; held says
\* that it is still held.
Below(s, d, last, held) ==
    \A i \in Of(s, d) : s[i].n <= last /\ (held => s[i].n < last)

NumbersAreRead ==
    grpc => /\ Below(recorded, "request", read, writer = "held")
            /\ Below(recorded, "response", copied, handler = "messageHeld")

FinishedIsEnded == status \in {"complete", "error"} => handler = "ended"

StreamInv ==
    /\ StreamIsRecorded /\ FinishedIsEnded
    /\ HoldingIsWaiting /\ BufferedFirst /\ PassedWasRead /\ NumbersAreRead

-----------------------------------------------------------------------------
(* HTTP/2: what is recorded.                                               *)

Entries == [dir : Directions, n : 1 .. Messages, text : Texts]

\* The ranks of the messages of a direction lie among what was passed on.
LEMMA RankInRange ==
    ASSUME NEW s \in Seq(Entries), NEW d, NEW i \in Of(s, d)
    PROVE  /\ IsFiniteSet(Of(s, d)) /\ Cardinality(Of(s, d)) \in Nat
           /\ Rank(s, d, i) \in 1 .. Cardinality(Of(s, d))
<1> DEFINE upTo == {j \in Of(s, d) : j <= i}
<1>1. IsFiniteSet(1 .. Len(s))
  BY FS_Interval, LenProperties
<1>2. IsFiniteSet(Of(s, d)) /\ Cardinality(Of(s, d)) \in Nat
  BY <1>1, FS_Subset, FS_CardinalityType, LenProperties DEF Of
<1>3. upTo \in SUBSET Of(s, d) /\ i \in upTo
  BY LenProperties DEF Of
<1> HIDE DEF upTo
<1>4. IsFiniteSet(upTo) /\ Cardinality(upTo) <= Cardinality(Of(s, d)) /\ Cardinality(upTo) \in Nat
  BY <1>2, <1>3, FS_Subset, FS_CardinalityType
<1>5. Cardinality(upTo) # 0
  BY <1>3, <1>4, FS_EmptySet
<1>6. Rank(s, d, i) = Cardinality(upTo)
  BY DEF Rank, upTo
<1> QED
  BY <1>2, <1>4, <1>5, <1>6

\* A message that is recorded when it is passed on keeps what is shown exact, and
\* leaves the other direction as it was.
LEMMA RecordedShows ==
    ASSUME NEW s \in Seq(Entries), NEW e \in Entries, NEW d \in Directions,
           NEW passed \in Seq(Texts), Shows(s, d, passed)
    PROVE  LET t == Append(s, e)
           IN  /\ t \in Seq(Entries)
               /\ e.dir # d =>
                     /\ Shows(t, d, passed)
                     /\ Of(t, d) = Of(s, d)
                     /\ \A i \in Of(s, d) : t[i] = s[i]
               /\ e.dir = d /\ (\A i \in Of(s, d) : s[i].n < e.n) =>
                     /\ Shows(t, d, Append(passed, e.text))
                     /\ \A i \in Of(t, d) : t[i].n <= e.n
<1> DEFINE t == Append(s, e)
           last == Len(s) + 1
<1>1. /\ t \in Seq(Entries) /\ Len(s) \in Nat /\ Len(t) = last
      /\ t[last] = e /\ \A i \in 1 .. Len(s) : t[i] = s[i]
      /\ DOMAIN s = 1 .. Len(s) /\ DOMAIN t = 1 .. last
  BY AppendProperties, LenProperties
<1> HIDE DEF t
<1>2. Of(s, d) \subseteq 1 .. Len(s) /\ last \notin Of(s, d)
  BY <1>1 DEF Of
<1>3. Of(t, d) = IF e.dir = d THEN Of(s, d) \cup {last} ELSE Of(s, d)
  BY <1>1 DEF Of
<1>4. ASSUME NEW i \in Of(s, d)
      PROVE  Rank(t, d, i) = Rank(s, d, i) /\ t[i] = s[i] /\ i < last
  <2>1. i < last /\ t[i] = s[i]
    BY <1>1, <1>2
  <2>2. {j \in Of(t, d) : j <= i} = {j \in Of(s, d) : j <= i}
    BY <1>1, <1>2, <1>3, <2>1
  <2> QED
    BY <2>1, <2>2 DEF Rank
<1>5. CASE e.dir # d
  <2>1. Of(t, d) = Of(s, d)
    BY <1>3, <1>5
  <2>2. Shows(t, d, passed)
    BY <1>4, <2>1 DEF Shows
  <2> QED
    BY <1>1, <1>4, <1>5, <2>1, <2>2 DEF t
<1>6. CASE e.dir = d
  <2> SUFFICES ASSUME \A i \in Of(s, d) : s[i].n < e.n
               PROVE  /\ Shows(t, d, Append(passed, e.text))
                      /\ \A i \in Of(t, d) : t[i].n <= e.n
    BY <1>1, <1>6 DEF t
  <2> DEFINE q == Append(passed, e.text)
  <2>1. /\ q \in Seq(Texts) /\ Len(passed) \in Nat /\ Len(q) = Len(passed) + 1
        /\ q[Len(passed) + 1] = e.text /\ \A k \in 1 .. Len(passed) : q[k] = passed[k]
    BY AppendProperties, LenProperties DEF Entries
  <2> HIDE DEF q
  <2>2. Of(t, d) = Of(s, d) \cup {last}
    BY <1>3, <1>6
  <2>3. IsFiniteSet(Of(s, d))
    <3>1. IsFiniteSet(1 .. Len(s))
      BY <1>1, FS_Interval
    <3> QED
      BY <1>2, <3>1, FS_Subset
  <2>4. Cardinality(Of(t, d)) = Cardinality(Of(s, d)) + 1
    BY <1>2, <2>2, <2>3, FS_AddElement
  <2>5. Len(passed) = Cardinality(Of(s, d))
    BY DEF Shows
  <2>6. Rank(t, d, last) = Len(passed) + 1
    <3>1. {j \in Of(t, d) : j <= last} = Of(t, d)
      BY <1>1, <1>2, <2>2
    <3> QED
      BY <2>4, <2>5, <3>1 DEF Rank
  <2>7. ASSUME NEW i \in Of(t, d)
        PROVE  /\ t[i].text = q[Rank(t, d, i)]
               /\ t[i].n <= e.n
               /\ \A j \in Of(t, d) : i < j => t[i].n < t[j].n
    <3>1. CASE i = last
      <4>1. \A j \in Of(t, d) : ~ (i < j)
        BY <1>1, <1>2, <2>2, <3>1
      <4> QED
        BY <1>1, <2>1, <2>6, <3>1, <4>1 DEF Entries
    <3>2. CASE i \in Of(s, d)
      <4>1. Rank(s, d, i) \in 1 .. Len(passed)
        BY <2>5, <3>2, RankInRange
      <4>2. t[i].text = q[Rank(t, d, i)]
        BY <1>4, <2>1, <3>2, <4>1 DEF Shows
      <4>3. s[i] \in Entries
        BY <1>1, <1>2, <3>2, ElementOfSeq
      <4>4. t[i].n <= e.n
        BY <1>4, <3>2, <4>3 DEF Entries
      <4>5. \A j \in Of(t, d) : i < j => t[i].n < t[j].n
        BY <1>1, <1>4, <2>2, <3>2 DEF Shows
      <4> QED
        BY <4>2, <4>4, <4>5
    <3> QED
      BY <2>2, <3>1, <3>2
  <2>8. Shows(t, d, q)
    BY <2>1, <2>4, <2>5, <2>7 DEF Shows
  <2> QED
    BY <2>7, <2>8 DEF q
<1> QED
  BY <1>5, <1>6

LEMMA NumberOf ==
    ASSUME NEW s \in Seq(Entries), NEW d, NEW i \in Of(s, d)
    PROVE  s[i].n \in 1 .. Messages
<1>1. s[i] \in Entries
  BY ElementOfSeq, LenProperties DEF Of
<1> QED
  BY <1>1 DEF Entries

LEMMA OtherShown ==
    ASSUME NEW s \in Seq(Entries), NEW e \in Entries, NEW d \in Directions,
           NEW passed \in Seq(Texts), Shows(s, d, passed), e.dir # d
    PROVE  /\ Shows(Append(s, e), d, passed)
           /\ Of(Append(s, e), d) = Of(s, d)
           /\ \A i \in Of(s, d) : Append(s, e)[i] = s[i]
BY RecordedShows

-----------------------------------------------------------------------------
(* HTTP/2: the steps.                                                      *)

\* What a step that records nothing leaves to be shown.
LEMMA NothingRecorded ==
    ASSUME StreamInv, UNCHANGED <<grpc, recorded, upstream, delivered>>,
           read' = read, copied' = copied,
           writer' = "held" => writer = "held",
           handler' = "messageHeld" => handler = "messageHeld"
    PROVE  RecordedAsForwarded' /\ NumbersAreRead'
<1>1. RecordedAsForwarded'
  BY DEF StreamInv, StreamIsRecorded, RecordedAsForwarded
<1>2. NumbersAreRead'
  BY DEF StreamInv, NumbersAreRead, Below
<1> QED
  BY <1>1, <1>2

\* All that a step must keep but what is shown.
Sound == PendingIsHeld /\ FinishedIsEnded /\ HoldingIsWaiting /\ BufferedFirst /\ PassedWasRead

LEMMA ClientServerKeep ==
    ASSUME StreamInv,
           Ask \/ AskedAll \/ Answer \/ \E how \in {"eof", "reset"} : ServerEnds(how)
    PROVE  StreamInv'
<1> USE Http2StreamAssumption DEF Http2StreamAssumption, StreamInv, StreamIsRecorded, Sound,
      headVars, recordVars, requestVars, responseVars
<1>1. RecordedAsForwarded' /\ NumbersAreRead'
  BY NothingRecorded DEF Ask, AskedAll, Answer, ServerEnds
<1>2. Sound'
  <2> USE DEF PendingIsHeld, FinishedIsEnded, StreamTypeOK, HoldingIsWaiting, BufferedFirst, PassedWasRead
  <2>1. CASE Ask
    BY <2>1 DEF Ask, Turns
  <2>2. CASE AskedAll
    BY <2>2 DEF AskedAll
  <2>3. CASE Answer
    BY <2>3, LenProperties DEF Answer
  <2>4. ASSUME NEW how \in {"eof", "reset"}, ServerEnds(how) PROVE Sound'
    BY <2>4 DEF ServerEnds
  <2> QED
    BY <2>1, <2>2, <2>3, <2>4
<1> QED
  BY <1>1, <1>2

LEMMA HandlerKeeps ==
    ASSUME StreamInv,
           \/ Start \/ BufferRequest \/ ObserveRequest \/ RoundTripFails
           \/ Respond \/ BufferResponse \/ EndOfBody \/ BodyBreaks
           \/ \E text \in Texts : ForwardBuffered(text) \/ DeliverBuffered(text)
           \/ ForwardObserved \/ DropWhole
    PROVE  StreamInv'
<1> USE Http2StreamAssumption DEF Http2StreamAssumption, StreamInv, StreamIsRecorded, Sound,
      headVars, recordVars, requestVars, responseVars
<1> SUFFICES RecordedAsForwarded' /\ NumbersAreRead' /\ Sound'
  OBVIOUS
<1>1. CASE Start \/ ObserveRequest \/ ForwardObserved \/ DropWhole \/ RoundTripFails
  <2>1. RecordedAsForwarded' /\ NumbersAreRead'
    BY <1>1, NothingRecorded
       DEF Start, Mode, ObserveRequest, ForwardObserved, DropWhole, RoundTripFails
  <2>2. Sound'
    <3> USE DEF PendingIsHeld, FinishedIsEnded, StreamTypeOK, HoldingIsWaiting, BufferedFirst, PassedWasRead,
          Early, Buffering, HandlerHeld
    <3>1. CASE Start
      BY <3>1 DEF Start, Mode
    <3>2. CASE ObserveRequest
      BY <3>2 DEF ObserveRequest, Hold
    <3>3. CASE ForwardObserved
      BY <3>3 DEF ForwardObserved, Release, Resumed
    <3>4. CASE DropWhole
      BY <3>4 DEF DropWhole, Release
    <3>5. CASE RoundTripFails
      BY <3>5 DEF RoundTripFails
    <3> QED
      BY <1>1, <3>1, <3>2, <3>3, <3>4, <3>5
  <2> QED
    BY <2>1, <2>2
<1>2. CASE Respond \/ EndOfBody \/ BodyBreaks
  <2>1. RecordedAsForwarded' /\ NumbersAreRead'
    BY <1>2, NothingRecorded DEF Respond, EndOfBody, BodyBreaks
  <2>2. Sound'
    BY <1>2 DEF PendingIsHeld, FinishedIsEnded, StreamTypeOK, HoldingIsWaiting, BufferedFirst, PassedWasRead,
                Early, Buffering, HandlerHeld, Respond, Mode, EndOfBody, BodyBreaks
  <2> QED
    BY <2>1, <2>2
<1>3. CASE BufferRequest \/ BufferResponse
        \/ \E text \in Texts : ForwardBuffered(text) \/ DeliverBuffered(text)
  <2>1. ~ grpc /\ ~ grpc'
    BY <1>3 DEF BufferedFirst, Buffering, BufferRequest, BufferResponse, ForwardBuffered,
                DeliverBuffered
  <2>2. RecordedAsForwarded' /\ NumbersAreRead'
    BY <2>1 DEF RecordedAsForwarded, NumbersAreRead
  <2>3. \A text \in Texts : <<text>> \in Seq(Texts) /\ Len(<<text>>) = 1
    OBVIOUS
  <2>4. Sound'
    <3> USE <2>1, <2>3 DEF PendingIsHeld, FinishedIsEnded, StreamTypeOK, HoldingIsWaiting, BufferedFirst,
          PassedWasRead, Early, Buffering, HandlerHeld
    <3>1. CASE BufferRequest
      <4>1. /\ writer = "idle" /\ writer' = "idle" /\ upstream = <<>> /\ delivered' = <<>>
            /\ recorded' = <<>> /\ ~ upstreamEnd /\ handler = "buffer"
        BY <3>1 DEF BufferRequest
      <4>2. CASE Hold("handler") /\ handler' = "bufferHeld" /\ UNCHANGED <<upstream, upstreamEnd>>
        BY <3>1, <4>1, <4>2 DEF BufferRequest, Hold
      <4>3. CASE /\ handler' = "roundTrip" /\ UNCHANGED <<status, holding>>
                 /\ upstream' = <<"original">> /\ upstreamEnd' = TRUE
        <5>1. upstream' \in Seq(Texts) /\ Len(upstream') = 1
          BY <4>3 DEF Texts
        <5> QED
          BY <3>1, <4>1, <4>3, <5>1 DEF BufferRequest
      <4> QED
        BY <3>1, <4>2, <4>3 DEF BufferRequest
    <3>2. CASE BufferResponse
      BY <3>2 DEF BufferResponse, Hold, Texts
    <3>3. ASSUME NEW text \in Texts, ForwardBuffered(text) PROVE Sound'
      BY <3>3 DEF ForwardBuffered, Release, Resumed
    <3>4. ASSUME NEW text \in Texts, DeliverBuffered(text) PROVE Sound'
      BY <3>4 DEF DeliverBuffered, Release, Resumed
    <3> QED
      BY <1>3, <3>1, <3>2, <3>3, <3>4
  <2> QED
    BY <2>2, <2>4
<1> QED
  BY <1>1, <1>2, <1>3

\* A message of the request that goes on, and what is recorded of it.
LEMMA RequestPassed ==
    ASSUME StreamInv, NEW text \in Texts, NEW n \in 1 .. Messages,
           \A i \in Of(recorded, "request") : grpc => recorded[i].n < n,
           upstream' = Append(upstream, text),
           recorded' = RecordForwarded("request", n, text),
           read' = n, writer' = "idle", UNCHANGED <<grpc, delivered, handler, copied>>
    PROVE  /\ RecordedAsForwarded' /\ NumbersAreRead'
           /\ recorded' \in Seq(Entries) /\ upstream' \in Seq(Texts)
           /\ Len(upstream') = Len(upstream) + 1
           /\ ~ grpc => recorded' = recorded
<1> DEFINE e == [dir |-> "request", n |-> n, text |-> text]
<1>1. recorded \in Seq(Entries) /\ upstream \in Seq(Texts) /\ delivered \in Seq(Texts)
  BY DEF StreamInv, StreamIsRecorded, PendingIsHeld, StreamTypeOK, Entries
<1>2. e \in Entries /\ e.dir = "request" /\ e.dir # "response" /\ e.n = n /\ e.text = text
  BY DEF Entries, Directions
<1>3. upstream' \in Seq(Texts) /\ Len(upstream') = Len(upstream) + 1
  BY <1>1, AppendProperties
<1>4. CASE ~ grpc
  BY <1>1, <1>3, <1>4 DEF RecordForwarded, RecordedAsForwarded, NumbersAreRead
<1>5. CASE grpc
  <2>1. recorded' = Append(recorded, e)
    BY <1>5 DEF RecordForwarded, Record
  <2>2. Shows(recorded, "request", upstream) /\ Shows(recorded, "response", delivered)
    BY <1>5 DEF StreamInv, StreamIsRecorded, RecordedAsForwarded
  <2> HIDE DEF e
  <2>3. /\ recorded' \in Seq(Entries) /\ Shows(recorded', "request", upstream')
        /\ \A i \in Of(recorded', "request") : recorded'[i].n <= n
    BY <1>1, <1>2, <1>5, <2>1, <2>2, RecordedShows DEF Directions
  <2>4. /\ Shows(recorded', "response", delivered)
        /\ Of(recorded', "response") = Of(recorded, "response")
        /\ \A i \in Of(recorded, "response") : recorded'[i] = recorded[i]
    <3>1. "response" \in Directions
      BY DEF Directions
    <3>2. /\ Shows(Append(recorded, e), "response", delivered)
          /\ Of(Append(recorded, e), "response") = Of(recorded, "response")
          /\ \A i \in Of(recorded, "response") : Append(recorded, e)[i] = recorded[i]
      BY <1>1, <1>2, <2>2, <3>1, OtherShown
    <3> QED
      BY <2>1, <3>2
  <2>5. Below(recorded', "request", n, FALSE)
    BY <2>3 DEF Below
  <2>6. Below(recorded', "response", copied, handler = "messageHeld")
    BY <1>5, <2>4 DEF StreamInv, NumbersAreRead, Below
  <2> QED
    BY <1>3, <1>5, <2>3, <2>4, <2>5, <2>6 DEF RecordedAsForwarded, NumbersAreRead
<1> QED
  BY <1>4, <1>5

\* The same for a message of the response.
LEMMA ResponsePassed ==
    ASSUME StreamInv, NEW text \in Texts, NEW n \in 1 .. Messages,
           \A i \in Of(recorded, "response") : grpc => recorded[i].n < n,
           delivered' = Append(delivered, text),
           recorded' = RecordForwarded("response", n, text),
           copied' = n, handler' = "body", UNCHANGED <<grpc, upstream, writer, read>>
    PROVE  /\ RecordedAsForwarded' /\ NumbersAreRead'
           /\ recorded' \in Seq(Entries) /\ delivered' \in Seq(Texts)
           /\ ~ grpc => recorded' = recorded
<1> DEFINE e == [dir |-> "response", n |-> n, text |-> text]
<1>1. recorded \in Seq(Entries) /\ upstream \in Seq(Texts) /\ delivered \in Seq(Texts)
  BY DEF StreamInv, StreamIsRecorded, PendingIsHeld, StreamTypeOK, Entries
<1>2. e \in Entries /\ e.dir = "response" /\ e.dir # "request" /\ e.n = n /\ e.text = text
  BY DEF Entries, Directions
<1>3. delivered' \in Seq(Texts)
  BY <1>1, AppendProperties
<1>4. CASE ~ grpc
  BY <1>1, <1>3, <1>4 DEF RecordForwarded, RecordedAsForwarded, NumbersAreRead
<1>5. CASE grpc
  <2>1. recorded' = Append(recorded, e)
    BY <1>5 DEF RecordForwarded, Record
  <2>2. Shows(recorded, "request", upstream) /\ Shows(recorded, "response", delivered)
    BY <1>5 DEF StreamInv, StreamIsRecorded, RecordedAsForwarded
  <2> HIDE DEF e
  <2>3. /\ recorded' \in Seq(Entries) /\ Shows(recorded', "response", delivered')
        /\ \A i \in Of(recorded', "response") : recorded'[i].n <= n
    BY <1>1, <1>2, <1>5, <2>1, <2>2, RecordedShows DEF Directions
  <2>4. /\ Shows(recorded', "request", upstream)
        /\ Of(recorded', "request") = Of(recorded, "request")
        /\ \A i \in Of(recorded, "request") : recorded'[i] = recorded[i]
    <3>1. "request" \in Directions
      BY DEF Directions
    <3>2. /\ Shows(Append(recorded, e), "request", upstream)
          /\ Of(Append(recorded, e), "request") = Of(recorded, "request")
          /\ \A i \in Of(recorded, "request") : Append(recorded, e)[i] = recorded[i]
      BY <1>1, <1>2, <2>2, <3>1, OtherShown
    <3> QED
      BY <2>1, <3>2
  <2>5. Below(recorded', "response", n, FALSE)
    BY <2>3 DEF Below
  <2>6. Below(recorded', "request", read, writer = "held")
    BY <1>5, <2>4 DEF StreamInv, NumbersAreRead, Below
  <2> QED
    BY <1>3, <1>5, <2>3, <2>4, <2>5, <2>6 DEF RecordedAsForwarded, NumbersAreRead
<1> QED
  BY <1>4, <1>5

LEMMA WriterKeeps ==
    ASSUME StreamInv,
           Writer \/ DropMessage \/ \E text \in Texts : ForwardMessage(text)
    PROVE  StreamInv'
<1> USE DEF StreamInv, StreamIsRecorded, Sound, headVars, recordVars, requestVars, responseVars
<1> SUFFICES RecordedAsForwarded' /\ NumbersAreRead' /\ Sound'
  OBVIOUS
<1>0. Messages \in Nat /\ read \in 0 .. Messages /\ asked \in 0 .. Messages /\ Len(upstream) \in Nat
  BY Http2StreamAssumption, LenProperties DEF Http2StreamAssumption, PendingIsHeld, StreamTypeOK
<1>1. CASE EndRequest \/ StopReading \/ DropMessage
  <2>1. RecordedAsForwarded' /\ NumbersAreRead'
    BY <1>1, NothingRecorded DEF EndRequest, StopReading, DropMessage
  <2>2. Sound'
    <3> USE DEF PendingIsHeld, FinishedIsEnded, StreamTypeOK, HoldingIsWaiting, BufferedFirst, PassedWasRead,
          Early, Buffering, HandlerHeld
    <3>1. CASE EndRequest
      BY <3>1 DEF EndRequest, Transport
    <3>2. CASE DropMessage
      BY <1>0, <3>2 DEF DropMessage, Release, Resumed
    <3>3. CASE StopReading
      BY <3>3 DEF StopReading
    <3> QED
      BY <1>1, <3>1, <3>2, <3>3
  <2> QED
    BY <2>1, <2>2
<1>2. CASE ReadMessage
  <2>1. /\ read' = read + 1 /\ read' \in 1 .. Messages
        /\ writer = "idle" /\ ~ upstreamEnd /\ handler \notin Early
        /\ UNCHANGED <<headVars, handler, dropped, asked, askedAll, upstreamEnd, responseVars>>
    BY <1>0, <1>2 DEF ReadMessage, Transport, Early
  <2>2. CASE Hold("writer") /\ writer' = "held" /\ UNCHANGED <<upstream, recorded>>
    <3>1. \A i \in Of(recorded, "request") : grpc => recorded[i].n <= read
      BY DEF NumbersAreRead, Below
    <3>2. recorded \in Seq(Entries)
      BY DEF PendingIsHeld, FinishedIsEnded, StreamTypeOK, Entries
    <3>3. \A i \in Of(recorded, "request") : grpc => recorded[i].n <= read' /\ recorded[i].n < read'
      BY <1>0, <2>1, <3>1, <3>2, NumberOf
    <3>4. NumbersAreRead'
      BY <2>1, <2>2, <3>3 DEF NumbersAreRead, Below
    <3>5. RecordedAsForwarded'
      BY <2>1, <2>2 DEF RecordedAsForwarded
    <3>6. Sound'
      BY <1>0, <2>1, <2>2 DEF Hold, PendingIsHeld, FinishedIsEnded, StreamTypeOK, HoldingIsWaiting,
         BufferedFirst, PassedWasRead, Early, Buffering, HandlerHeld
    <3> QED
      BY <3>4, <3>5, <3>6
  <2>3. CASE /\ upstream' = Append(upstream, "original")
             /\ recorded' = RecordForwarded("request", read + 1, "original")
             /\ UNCHANGED <<status, holding, writer>>
    <3>1. recorded \in Seq(Entries)
      BY DEF PendingIsHeld, FinishedIsEnded, StreamTypeOK, Entries
    <3>2. \A i \in Of(recorded, "request") : grpc => recorded[i].n < read + 1
      BY <1>0, <3>1, NumberOf DEF NumbersAreRead, Below
    <3>3. /\ RecordedAsForwarded' /\ NumbersAreRead'
          /\ recorded' \in Seq(Entries) /\ upstream' \in Seq(Texts)
          /\ Len(upstream') = Len(upstream) + 1
          /\ ~ grpc => recorded' = recorded
      BY <2>1, <2>3, <3>2, RequestPassed DEF Texts
    <3>4. Sound'
      BY <1>0, <2>1, <2>3, <3>3 DEF PendingIsHeld, FinishedIsEnded, StreamTypeOK, HoldingIsWaiting,
         BufferedFirst, PassedWasRead, Buffering, HandlerHeld, Entries
    <3> QED
      BY <3>3, <3>4
  <2> QED
    BY <1>2, <2>2, <2>3 DEF ReadMessage
<1>3. ASSUME NEW text \in Texts, ForwardMessage(text)
      PROVE  RecordedAsForwarded' /\ NumbersAreRead' /\ Sound'
  <2>1. read \in 1 .. Messages /\ writer = "held" /\ ~ upstreamEnd /\ handler \notin Early
    BY <1>0, <1>3 DEF ForwardMessage, PassedWasRead, BufferedFirst
  <2>2. \A i \in Of(recorded, "request") : grpc => recorded[i].n < read
    BY <2>1 DEF NumbersAreRead, Below
  <2>3. /\ RecordedAsForwarded' /\ NumbersAreRead'
        /\ recorded' \in Seq(Entries) /\ upstream' \in Seq(Texts)
        /\ Len(upstream') = Len(upstream) + 1
        /\ ~ grpc => recorded' = recorded
    BY <1>3, <2>1, <2>2, RequestPassed DEF ForwardMessage
  <2>4. Sound'
    BY <1>0, <1>3, <2>1, <2>3 DEF ForwardMessage, Release, Resumed, PendingIsHeld, FinishedIsEnded,
       StreamTypeOK, HoldingIsWaiting, BufferedFirst, PassedWasRead, Buffering, HandlerHeld, Entries
  <2> QED
    BY <2>3, <2>4
<1> QED
  BY <1>1, <1>2, <1>3 DEF Writer

LEMMA CopyKeeps ==
    ASSUME StreamInv,
           CopyMessage \/ WithholdMessage \/ \E text \in Texts : DeliverMessage(text)
    PROVE  StreamInv'
<1> USE DEF StreamInv, StreamIsRecorded, Sound, headVars, recordVars, requestVars, responseVars
<1> SUFFICES RecordedAsForwarded' /\ NumbersAreRead' /\ Sound'
  OBVIOUS
<1>0. Messages \in Nat /\ copied \in 0 .. Messages /\ answered \in 0 .. Messages
  BY Http2StreamAssumption DEF Http2StreamAssumption, PendingIsHeld, StreamTypeOK
<1>1. CASE WithholdMessage
  <2>1. RecordedAsForwarded' /\ NumbersAreRead'
    BY <1>1, NothingRecorded DEF WithholdMessage
  <2>2. Sound'
    BY <1>1 DEF WithholdMessage, Release, Resumed, PendingIsHeld, FinishedIsEnded, StreamTypeOK,
       HoldingIsWaiting, BufferedFirst, PassedWasRead, Early, Buffering, HandlerHeld
  <2> QED
    BY <2>1, <2>2
<1>2. CASE CopyMessage
  <2>1. /\ copied' = copied + 1 /\ copied' \in 1 .. Messages /\ handler = "body"
        /\ UNCHANGED <<headVars, writer, dropped, requestVars, answered, serverEnd>>
    BY <1>0, <1>2 DEF CopyMessage
  <2>2. CASE /\ Hold("handler") /\ handler' = "messageHeld"
             /\ UNCHANGED <<delivered, recorded>>
    <3>1. recorded \in Seq(Entries)
      BY DEF PendingIsHeld, FinishedIsEnded, StreamTypeOK, Entries
    <3>2. \A i \in Of(recorded, "response") : grpc => recorded[i].n <= copied' /\ recorded[i].n < copied'
      BY <1>0, <2>1, <3>1, NumberOf DEF NumbersAreRead, Below
    <3>3. NumbersAreRead'
      BY <2>1, <2>2, <3>2 DEF NumbersAreRead, Below
    <3>4. RecordedAsForwarded'
      BY <2>1, <2>2 DEF RecordedAsForwarded
    <3>5. Sound'
      BY <1>0, <2>1, <2>2 DEF Hold, PendingIsHeld, FinishedIsEnded, StreamTypeOK, HoldingIsWaiting,
         BufferedFirst, PassedWasRead, Early, Buffering, HandlerHeld
    <3> QED
      BY <3>3, <3>4, <3>5
  <2>3. CASE /\ delivered' = Append(delivered, "original")
             /\ recorded' = RecordForwarded("response", copied + 1, "original")
             /\ UNCHANGED <<status, holding, handler>>
    <3>1. recorded \in Seq(Entries)
      BY DEF PendingIsHeld, FinishedIsEnded, StreamTypeOK, Entries
    <3>2. \A i \in Of(recorded, "response") : grpc => recorded[i].n < copied + 1
      BY <1>0, <3>1, NumberOf DEF NumbersAreRead, Below
    <3>3. /\ RecordedAsForwarded' /\ NumbersAreRead'
          /\ recorded' \in Seq(Entries) /\ delivered' \in Seq(Texts)
          /\ ~ grpc => recorded' = recorded
      BY <2>1, <2>3, <3>2, ResponsePassed DEF Texts
    <3>4. Sound'
      BY <1>0, <2>1, <2>3, <3>3 DEF PendingIsHeld, FinishedIsEnded, StreamTypeOK, HoldingIsWaiting,
         BufferedFirst, PassedWasRead, Early, Buffering, HandlerHeld, Entries
    <3> QED
      BY <3>3, <3>4
  <2> QED
    BY <1>2, <2>2, <2>3 DEF CopyMessage
<1>3. ASSUME NEW text \in Texts, DeliverMessage(text)
      PROVE  RecordedAsForwarded' /\ NumbersAreRead' /\ Sound'
  <2>1. copied \in 1 .. Messages /\ handler = "messageHeld"
    BY <1>0, <1>3 DEF DeliverMessage, PassedWasRead
  <2>2. \A i \in Of(recorded, "response") : grpc => recorded[i].n < copied
    BY <2>1 DEF NumbersAreRead, Below
  <2>3. /\ RecordedAsForwarded' /\ NumbersAreRead'
        /\ recorded' \in Seq(Entries) /\ delivered' \in Seq(Texts)
        /\ ~ grpc => recorded' = recorded
    BY <1>3, <2>1, <2>2, ResponsePassed DEF DeliverMessage
  <2>4. Sound'
    BY <1>0, <1>3, <2>1, <2>3 DEF DeliverMessage, Release, Resumed, PendingIsHeld, FinishedIsEnded, StreamTypeOK,
       HoldingIsWaiting, BufferedFirst, PassedWasRead, Early, Buffering, HandlerHeld, Entries
  <2> QED
    BY <2>3, <2>4
<1> QED
  BY <1>1, <1>2, <1>3

LEMMA StreamStart ==
    ASSUME StreamInit
    PROVE  StreamInv
<1> USE DEF StreamInit
<1>1. Messages \in Nat /\ 0 \in 0 .. Messages
  BY Http2StreamAssumption DEF Http2StreamAssumption
<1>2. recorded \in Seq(Entries) /\ upstream \in Seq(Texts) /\ delivered \in Seq(Texts)
  OBVIOUS
<1>3. StreamTypeOK
  BY <1>1, <1>2 DEF StreamTypeOK, Entries
<1>4. \A d : Of(recorded, d) = {}
  BY DEF Of
<1>5. RecordedAsForwarded
  BY <1>4, FS_EmptySet DEF RecordedAsForwarded, Shows
<1>6. NumbersAreRead
  BY <1>4 DEF NumbersAreRead, Below
<1> QED
  BY <1>1, <1>3, <1>5, <1>6 DEF StreamInv, StreamIsRecorded, PendingIsHeld, FinishedIsEnded, HoldingIsWaiting,
     HandlerHeld, BufferedFirst, Buffering, PassedWasRead

-----------------------------------------------------------------------------
(* HTTP/2: the theorems.                                                   *)

\* The two goroutines of a stream leave its flow sound: what is held, what was
\* read and what was recorded fit together (RoundTrip, bodyWrap).
THEOREM StreamInvariance == StreamSpec => []StreamInv
<1>1. StreamInv /\ [StreamNext]_streamVars => StreamInv'
  <2> SUFFICES ASSUME StreamInv, [StreamNext]_streamVars PROVE StreamInv'
    OBVIOUS
  <2>1. CASE UNCHANGED streamVars
    <3>1. RecordedAsForwarded' /\ NumbersAreRead'
      BY <2>1, NothingRecorded DEF streamVars, headVars, recordVars, requestVars, responseVars
    <3>2. Sound'
      BY <2>1 DEF StreamInv, StreamIsRecorded, Sound, PendingIsHeld, FinishedIsEnded, StreamTypeOK,
         HoldingIsWaiting, BufferedFirst, PassedWasRead,
         streamVars, headVars, recordVars, requestVars, responseVars
    <3> QED
      BY <3>1, <3>2 DEF StreamInv, StreamIsRecorded, Sound
  <2>2. CASE Handler \/ StreamOperator
    BY <2>2, HandlerKeeps, WriterKeeps, CopyKeeps DEF Handler, StreamOperator
  <2> QED
    BY <2>1, <2>2, ClientServerKeep, WriterKeeps DEF StreamNext
<1> QED
  BY <1>1, StreamStart, PTL DEF StreamSpec

\* However many messages there are and however their pauses overlap, the flow of a
\* gRPC stream shows what was passed on, and is pending exactly while one of its two
\* goroutines is held (grpcTransform, BeforeForward).
THEOREM StreamAsForwarded == StreamSpec => []StreamIsRecorded
<1>1. StreamInv => StreamIsRecorded
  BY DEF StreamInv
<1> QED
  BY <1>1, StreamInvariance, PTL

\* When the response is over, a message of the request that is held is decided, or
\* another one is read and held.
Revived ==
    /\ handler = "ended"
    /\ \/ writer = "held" /\ writer' = "idle" /\ status' = "active"
       \/ writer = "idle" /\ writer' = "held" /\ status' = "pending"

\* A finished flow changes in these two ways only, against what is meant by finished
\* (section 5 of the README): by the end of a pause of its request's reader, or by the
\* beginning of one.
THEOREM OnlyPausesRevive ==
    StreamSpec => [][status = "complete" => status' = "complete" \/ Revived]_streamVars
<1>1. ASSUME StreamInv, [StreamNext]_streamVars, status = "complete", status' # "complete"
      PROVE  Revived
  <2>1. handler = "ended"
    BY <1>1 DEF StreamInv, FinishedIsEnded
  <2>2. ~ UNCHANGED streamVars /\ ~ UNCHANGED recordVars
    BY <1>1 DEF streamVars, recordVars
  <2>3. ~ (Ask \/ AskedAll \/ Answer \/ \E how \in {"eof", "reset"} : ServerEnds(how))
    BY <2>2 DEF Ask, AskedAll, Answer, ServerEnds
  <2>4. ~ Handler
    BY <2>1 DEF Handler, Start, BufferRequest, ObserveRequest, RoundTripFails, Respond,
                BufferResponse, CopyMessage, EndOfBody, BodyBreaks
  <2>5. ReadMessage \/ StreamOperator
    BY <1>1, <2>2, <2>3, <2>4 DEF StreamNext, Writer, EndRequest, StopReading, recordVars
  <2>6. CASE ReadMessage
    BY <1>1, <2>1, <2>6 DEF ReadMessage, Hold, Revived
  <2>7. CASE StreamOperator
    BY <1>1, <2>1, <2>7 DEF StreamOperator, ForwardBuffered, ForwardMessage, DeliverBuffered,
       DeliverMessage, ForwardObserved, DropWhole, DropMessage, WithholdMessage, Resumed, Revived
  <2> QED
    BY <2>5, <2>6, <2>7
<1>2. StreamInv /\ [StreamNext]_streamVars =>
         [status = "complete" => status' = "complete" \/ Revived]_streamVars
  BY <1>1
<1> QED
  BY <1>2, StreamInvariance, PTL DEF StreamSpec

-----------------------------------------------------------------------------
(* HTTP/1: the inductive invariant.                                        *)

USE Http1Assumption DEF Http1Assumption, flowVars, trafficVars, relayVars

Held == {"requestHeld", "responseHeld"}
Unsent == {"request", "handshake", "beforeForward", "requestHeld", "send"}

\* While the handler runs its flow has not failed, and is pending exactly while
\* the operator has a message of it.
FlowAlive ==
    pc # "returned" => ~ err /\ status = IF pc \in Held THEN "pending" ELSE "active"

\* What is in hand, what was sent and what is recorded, at each stage.
RequestSound ==
    /\ pc \in Unsent => sent = "none"
    /\ pc \in {"beforeForward", "requestHeld"} => out = "original"
    /\ pc \in {"beforeForward", "requestHeld", "send"} => out \in Texts /\ request = out
    /\ pc \in {"beforeDeliver", "responseHeld", "deliver"} =>
          out \in Texts /\ answer \in {"switch", "final"}
    /\ RequestRecordedAsSent

\* The client has heard of nothing but progress, or that and then how the
\* exchange ends.
Waiting(s) == \A i \in 1 .. Len(s) : s[i].kind = "interim"

Answered(s) ==
    /\ Len(s) > 0 /\ s[Len(s)].kind # "interim"
    /\ \A i \in 1 .. Len(s) : i # Len(s) => s[i].kind = "interim"

ClientTold ==
    /\ pc \notin {"relay", "returned"} => Waiting(toClient)
    /\ pc = "relay" => Answered(toClient)
    /\ Waiting(toClient) \/ Answered(toClient)
    /\ status = "complete" => dropped \/ Answered(toClient)

HInv == SentExchangeEnds /\ FlowAlive /\ RequestSound /\ ClientTold

-----------------------------------------------------------------------------
(* What the client is told.                                                *)

Responses == [kind : AnswerKinds, text : Texts]

LEMMA Told ==
    ASSUME NEW s \in Seq(Responses), NEW r \in Responses, Waiting(s)
    PROVE  /\ Append(s, r) \in Seq(Responses)
           /\ r.kind = "interim" => Waiting(Append(s, r))
           /\ r.kind # "interim" => Answered(Append(s, r))
<1> DEFINE t == Append(s, r)
<1>1. /\ t \in Seq(Responses) /\ Len(s) \in Nat /\ Len(t) = Len(s) + 1
      /\ t[Len(s) + 1] = r /\ \A i \in 1 .. Len(s) : t[i] = s[i]
  BY AppendProperties, LenProperties
<1> HIDE DEF t
<1>2. \A i \in 1 .. Len(t) : i = Len(t) \/ i \in 1 .. Len(s)
  BY <1>1
<1>3. r.kind = "interim" => Waiting(t)
  BY <1>1, <1>2 DEF Waiting
<1>4. r.kind # "interim" => Answered(t)
  BY <1>1, <1>2 DEF Waiting, Answered
<1> QED
  BY <1>1, <1>3, <1>4 DEF t

-----------------------------------------------------------------------------
(* HTTP/1: the steps.                                                      *)

LEMMA RequestKeeps ==
    ASSUME HInv, RequestStep \/ Operator
    PROVE  HInv'
<1>0. TypeOK /\ FlowAlive /\ RequestSound /\ ClientTold
  BY DEF HInv, SentExchangeEnds
<1> USE DEF TypeOK, FlowAlive, RequestSound, RequestRecordedAsSent, ClientTold, HInv,
            SentExchangeEnds, Held, Unsent, States, Texts
<1>1. ASSUME NEW upgrade \in BOOLEAN, ReadRequest(upgrade) PROVE HInv'
  BY <1>0, <1>1 DEF ReadRequest
<1>2. CASE ReadRequestFails
  BY <1>0, <1>2 DEF ReadRequestFails, Fail
<1>3. CASE DumpRequestFails \/ SendFails
  BY <1>0, <1>3 DEF DumpRequestFails, SendFails
<1>4. CASE BeforeForward
  BY <1>0, <1>4 DEF BeforeForward, Before
<1>5. CASE Send
  BY <1>0, <1>5 DEF Send
<1>6. ASSUME NEW text \in Texts, ForwardRequest(text) PROVE HInv'
  BY <1>0, <1>6 DEF ForwardRequest, CaptureForwarded
<1>7. ASSUME NEW text \in Texts, DeliverHeld(text) PROVE HInv'
  BY <1>0, <1>7 DEF DeliverHeld
<1>8. ASSUME NEW held \in {"requestHeld", "responseHeld"}, Drop(held) PROVE HInv'
  BY <1>0, <1>8 DEF Drop, Complete
<1> QED
  BY <1>1, <1>2, <1>3, <1>4, <1>5, <1>6, <1>7, <1>8 DEF RequestStep, Operator

LEMMA ResponseKeeps ==
    ASSUME HInv, ResponseStep
    PROVE  HInv'
<1>0. TypeOK /\ FlowAlive /\ RequestSound /\ ClientTold
  BY DEF HInv, SentExchangeEnds
<1>1. toClient \in Seq(Responses)
  BY <1>0 DEF TypeOK, Responses
<1> USE DEF TypeOK, FlowAlive, RequestSound, RequestRecordedAsSent, HInv,
            SentExchangeEnds, Held, Unsent, States
<1>2. ASSUME NEW kind \in AnswerKinds, RelayInterim(kind) PROVE HInv'
  <2> DEFINE r == [kind |-> kind, text |-> "original"]
  <2>1. r \in Responses /\ r.kind = "interim"
    BY <1>2 DEF RelayInterim, Interim, Responses, Texts
  <2>2. toClient' = Append(toClient, r) /\ pc = "response"
    BY <1>2 DEF RelayInterim
  <2> HIDE DEF r
  <2>3. toClient' \in Seq(Responses) /\ Waiting(toClient')
    BY <1>0, <1>1, <2>1, <2>2, Told DEF ClientTold
  <2>4. UNCHANGED <<pc, flowVars, out, sent, answer, dropped, relayVars>>
    BY <1>2 DEF RelayInterim
  <2>5. ClientTold'
    BY <1>0, <2>2, <2>3, <2>4 DEF ClientTold
  <2> QED
    BY <1>0, <2>2, <2>3, <2>4, <2>5 DEF Responses
<1>3. ASSUME NEW kind \in AnswerKinds, ReadResponse(kind) PROVE HInv'
  <2>1. kind \in {"switch", "final"}
    BY <1>3 DEF ReadResponse, Interim, AnswerKinds
  <2> QED
    BY <1>0, <1>3, <2>1 DEF ReadResponse, ClientTold, Texts
<1>4. CASE BeforeDeliver
  BY <1>0, <1>4 DEF BeforeDeliver, Before, ClientTold
\* The client is told how the exchange ends.
<1>5. ASSUME NEW r \in Responses, r.kind # "interim", toClient' = Append(toClient, r),
             pc \notin {"relay", "returned"}
      PROVE  toClient' \in Seq(Responses) /\ Answered(toClient')
  BY <1>0, <1>1, <1>5, Told DEF ClientTold
<1>6. CASE Deliver
  <2> DEFINE r == [kind |-> answer, text |-> out]
  <2>1. r \in Responses /\ r.kind # "interim"
    BY <1>0, <1>6 DEF Deliver, Responses, AnswerKinds
  <2>2. toClient' = Append(toClient, r) /\ pc = "deliver"
    BY <1>6 DEF Deliver
  <2> HIDE DEF r
  <2>3. toClient' \in Seq(Responses) /\ Answered(toClient')
    BY <1>5, <2>1, <2>2
  <2>4. /\ pc' \in {"relay", "returned"} /\ UNCHANGED err
        /\ pc' = "relay" => UNCHANGED status
        /\ pc' = "returned" => status' = "complete"
        /\ copying' \subseteq Peers
    BY <1>0, <1>6 DEF Deliver, Complete
  <2>5. UNCHANGED <<request, response, out, sent, answer, dropped, first, gone, closed>>
    BY <1>6 DEF Deliver
  <2>6. ClientTold'
    BY <2>3, <2>4 DEF ClientTold
  <2>7. TypeOK'
    BY <1>0, <2>3, <2>4, <2>5 DEF Responses
  <2> QED
    BY <1>0, <2>2, <2>4, <2>5, <2>6, <2>7
<1>7. CASE UpgradeAccepted
  <2> DEFINE r == [kind |-> "switch", text |-> "original"]
  <2>1. r \in Responses /\ r.kind # "interim"
    BY DEF Responses, AnswerKinds, Texts
  <2>2. toClient' = Append(toClient, r) /\ pc = "upgrade"
    BY <1>7 DEF UpgradeAccepted
  <2> HIDE DEF r
  <2>3. toClient' \in Seq(Responses) /\ Answered(toClient')
    BY <1>5, <2>1, <2>2
  <2>4. /\ pc' = "returned" /\ status' = "complete"
        /\ UNCHANGED <<err, request, response, out, sent, answer, dropped, relayVars>>
    BY <1>7 DEF UpgradeAccepted, Complete
  <2>5. ClientTold'
    BY <2>3, <2>4 DEF ClientTold
  <2> QED
    BY <1>0, <2>2, <2>3, <2>4, <2>5 DEF Responses
<1>8. CASE RejectionWritten
  <2> DEFINE r == [kind |-> "final", text |-> "original"]
  <2>1. r \in Responses /\ r.kind # "interim"
    BY DEF Responses, AnswerKinds, Texts
  <2>2. toClient' = Append(toClient, r) /\ pc = "rejected"
    BY <1>8 DEF RejectionWritten
  <2> HIDE DEF r
  <2>3. toClient' \in Seq(Responses) /\ Answered(toClient')
    BY <1>5, <2>1, <2>2
  <2>4. /\ pc' = "returned" /\ status' = "complete"
        /\ UNCHANGED <<err, request, response, out, sent, answer, dropped, relayVars>>
    BY <1>8 DEF RejectionWritten, Complete
  <2>5. ClientTold'
    BY <2>3, <2>4 DEF ClientTold
  <2> QED
    BY <1>0, <2>2, <2>3, <2>4, <2>5 DEF Responses
<1>9. CASE RejectionRead
  BY <1>0, <1>9, SMTT(30) DEF RejectionRead, ClientTold, Texts
<1>10. CASE ResponseFails \/ UpgradeFails \/ RejectionFails
  BY <1>0, <1>10 DEF ResponseFails, UpgradeFails, RejectionFails, Fail, ClientTold
<1> QED
  BY <1>2, <1>3, <1>4, <1>6, <1>7, <1>8, <1>9, <1>10 DEF ResponseStep

LEMMA RelayKeeps ==
    ASSUME HInv, Copier \/ \E p \in Peers : HangUp(p)
    PROVE  HInv'
<1>0. TypeOK /\ FlowAlive /\ RequestSound /\ ClientTold
  BY DEF HInv, SentExchangeEnds
<1> USE DEF TypeOK, FlowAlive, RequestSound, RequestRecordedAsSent, ClientTold, HInv,
            SentExchangeEnds, Held, Unsent, States
<1>1. ASSUME NEW p \in Peers, NEW how \in {"eof", "error"}, CopyEnds(p, how) PROVE HInv'
  BY <1>0, <1>1 DEF CopyEnds, CloseConnections
<1>2. CASE RelayReturns
  BY <1>0, <1>2 DEF RelayReturns, Complete, Fail
<1>3. ASSUME NEW p \in Peers, HangUp(p) PROVE HInv'
  BY <1>0, <1>3 DEF HangUp
<1> QED
  BY <1>1, <1>2, <1>3 DEF Copier

LEMMA HStart ==
    ASSUME Init
    PROVE  HInv
<1>1. Waiting(toClient) /\ toClient \in Seq(Responses)
  BY DEF Init, Waiting
<1>2. TypeOK
  BY <1>1 DEF Init, TypeOK, States, Responses
<1>3. FlowAlive /\ RequestSound
  BY DEF Init, FlowAlive, RequestSound, RequestRecordedAsSent, Held, Texts
<1>4. ClientTold
  BY <1>1 DEF Init, ClientTold
<1> QED
  BY <1>2, <1>3, <1>4 DEF Init, HInv, SentExchangeEnds

-----------------------------------------------------------------------------
(* HTTP/1: the theorems.                                                   *)

\* Each stage of the handler knows what it has sent, recorded and told the
\* client (handleHTTP1Exchange).
THEOREM HInvariance == Spec => []HInv
<1>1. HInv /\ [Next]_vars => HInv'
  <2> SUFFICES ASSUME HInv, [Next]_vars PROVE HInv'
    OBVIOUS
  <2>1. CASE UNCHANGED vars
    BY <2>1 DEF vars, HInv, SentExchangeEnds, TypeOK, FlowAlive, RequestSound,
                RequestRecordedAsSent, ClientTold
  <2> QED
    BY <2>1, RequestKeeps, ResponseKeeps, RelayKeeps DEF Next
<1> QED
  BY <1>1, HStart, PTL DEF Spec

\* An exchange whose request went out ends complete, or in error and with the
\* error, however many informational responses there are (failHTTP1Response).
THEOREM SentAreReported == Spec => []SentExchangeEnds
<1>1. HInv => SentExchangeEnds
  BY DEF HInv
<1> QED
  BY <1>1, HInvariance, PTL

\* A flow is complete only with the last response at the client, or a drop; it
\* has the request the server got, with what the operator made of it; and after
\* a 101 the client is told nothing more (captureForwardedHTTP1).
THEOREM RelayedAsRecorded == Spec => []RecordedAsRelayed
<1>1. HInv => RecordedAsRelayed
  <2> SUFFICES ASSUME HInv PROVE RecordedAsRelayed
    OBVIOUS
  <2>1. toClient \in Seq(Responses) /\ ClientTold /\ RequestSound
    BY DEF HInv, SentExchangeEnds, TypeOK, Responses
  <2>2. DOMAIN toClient = 1 .. Len(toClient) /\ Len(toClient) \in Nat
    BY <2>1
  <2>3. Answered(toClient) => toClient # <<>> /\ Last(toClient).kind # "interim"
    <3>1. Len(toClient) > 0 => toClient # <<>>
      OBVIOUS
    <3> QED
      BY <3>1 DEF Answered, Last
  <2>4. CompleteIsDelivered
    BY <2>1, <2>3 DEF CompleteIsDelivered, ClientTold
  <2>5. SwitchIsLast
    <3> SUFFICES ASSUME NEW i \in 1 .. Len(toClient), toClient[i].kind = "switch"
                 PROVE  i = Len(toClient) /\ pc \in {"relay", "returned"}
      BY <2>2 DEF SwitchIsLast
    <3>1. ~ Waiting(toClient)
      BY DEF Waiting
    <3>2. Answered(toClient)
      BY <2>1, <3>1 DEF ClientTold
    <3> QED
      BY <2>1, <3>1, <3>2 DEF ClientTold, Answered
  <2> QED
    BY <2>1, <2>4, <2>5 DEF RecordedAsRelayed, RequestSound
<1> QED
  BY <1>1, HInvariance, PTL

\* While the handler runs, its flow is pending exactly while the operator has
\* one of its messages, and shows no error (BeforeForward, BeforeDeliver).
THEOREM PendingWhileHeld ==
    Spec => [](pc # "returned" => ~ err /\ (status = "pending" <=> pc \in Held))
<1>1. HInv => (pc # "returned" => ~ err /\ (status = "pending" <=> pc \in Held))
  BY DEF HInv, FlowAlive
<1> QED
  BY <1>1, HInvariance, PTL

================================================================================
