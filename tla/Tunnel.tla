--------------------------------- MODULE Tunnel ---------------------------------
(***************************************************************************)
(* A connection whose bytes are only passed on: the raw TCP fallback       *)
(* (internal/protocol/tcp.go) behind the protocol detection of the bridge  *)
(* (internal/proxy/proxy.go), and the blind tunnel of a TLS host that is   *)
(* not decrypted (passthrough).  How a connection gets here, and what the  *)
(* proxy takes from it before, is in the module Proxy.                     *)
(***************************************************************************)
EXTENDS Naturals, SequencesExt

CONSTANTS
    PeekSize,   \* bytes of the client the bridge wants to see (16 in the code)
    MaxBytes    \* bound on the bytes each peer sends

ASSUME TunnelAssumption == PeekSize \in Nat /\ MaxBytes \in Nat \ {0}

VARIABLES
    kind,       \* "raw" (bridge, rawTCP), "blind" (passthrough), "none" as yet
    pc,         \* the handler: "front", "detect", "pump", "handed" or "returned"
    own,        \* bytes of the client that were meant for the proxy itself
    pump,       \* where the pump of each direction is
    sent,       \* number of bytes each peer sent
    read,       \* number of bytes each pump read
    hand,       \* the chunk each pump has in hand
    got,        \* the chunks each peer got
    recorded,   \* the chunks the flow shows for each direction
    withheld,   \* the chunks the operator dropped
    status,     \* capture.Status of the flow
    gone        \* the peers that hung up

peerVars == <<sent, gone>>
flowVars == <<recorded, status>>
pumpVars == <<pump, read, hand, got, withheld>>
tunnelVars == <<kind, pc, own, peerVars, flowVars, pumpVars>>

Pumps == {"c2s", "s2c"}
Peers == {"client", "server"}
Source == [d \in Pumps |-> IF d = "c2s" THEN "client" ELSE "server"]
Sink == [d \in Pumps |-> IF d = "c2s" THEN "server" ELSE "client"]

\* The bytes first .. last of a peer, as they were or as the operator has them.
Chunk == [first : 1 .. MaxBytes, last : 1 .. MaxBytes, text : {"original", "edited"}]
NoChunk == [first |-> 1, last |-> 0, text |-> "original"]

TunnelInit ==
    /\ kind = "none" /\ pc = "front" /\ own = 0
    /\ pump = [d \in Pumps |-> "read"]
    /\ sent = [p \in Peers |-> 0]
    /\ read = [d \in Pumps |-> 0]
    /\ hand = [d \in Pumps |-> NoChunk]
    /\ got = [p \in Peers |-> <<>>]
    /\ recorded = [d \in Pumps |-> <<>>]
    /\ withheld = {}
    /\ status = "active"
    /\ gone = {}

-----------------------------------------------------------------------------
(* The peers.  The server is there once it has been dialed.                *)

Present(p) == p \notin gone /\ (p = "server" => pc # "front")

SendBytes(p) ==
    /\ Present(p)
    /\ sent[p] < MaxBytes
    /\ sent' = [sent EXCEPT ![p] = @ + 1]
    /\ UNCHANGED <<kind, pc, own, gone, flowVars, pumpVars>>

HangUp(p) ==
    /\ Present(p)
    /\ gone' = gone \cup {p}
    /\ UNCHANGED <<kind, pc, own, sent, flowVars, pumpVars>>

-----------------------------------------------------------------------------
(* The bridge.                                                             *)

\* Peek waits for as many bytes as it asks for, or for the end.
Peeked == sent["client"] - own >= PeekSize \/ "client" \in gone

\* Mutation: what detection looks at is taken from the stream.
DetectConsumes ==
    /\ pc = "detect" /\ Peeked
    /\ pc' = "pump"
    /\ read' = [read EXCEPT !["c2s"] = sent["client"]]
    /\ UNCHANGED <<kind, own, peerVars, flowVars, pump, hand, got, withheld>>

\* detectFrom has its bytes, and only now is there a flow.  A protocol it knows
\* has a handler of its own.
Detect ==
    /\ pc = "detect" /\ Peeked
    /\ pc' \in {"pump", "handed"}
    /\ UNCHANGED <<kind, own, peerVars, flowVars, pumpVars>>

AllDone == \A d \in Pumps : pump[d] = "done"

\* wg.Wait has returned.
Return ==
    /\ pc = "pump"
    /\ AllDone
    /\ pc' = "returned"
    /\ status' = IF kind = "raw" /\ status # "active" THEN status ELSE "complete"
    /\ UNCHANGED <<kind, own, peerVars, recorded, pumpVars>>

-----------------------------------------------------------------------------
(* A pump.                                                                 *)

Record(d, chunk) == recorded' = [recorded EXCEPT ![d] = Append(@, chunk)]

\* A read takes what has arrived, or a part of it.  rawTCP records the chunk
\* at once, and one for the server may be held by the engine.
Read(d, last, held) ==
    /\ pc = "pump" /\ pump[d] = "read"
    /\ last \in read[d] + 1 .. sent[Source[d]]
    /\ held => kind = "raw" /\ d = "c2s"
    /\ LET chunk == [first |-> read[d] + 1, last |-> last, text |-> "original"]
       IN  /\ hand' = [hand EXCEPT ![d] = chunk]
           /\ IF kind = "raw" THEN Record(d, chunk) ELSE UNCHANGED recorded
    /\ read' = [read EXCEPT ![d] = last]
    /\ pump' = [pump EXCEPT ![d] = IF held THEN "held" ELSE "write"]
    /\ status' = IF held THEN "pending" ELSE status
    /\ UNCHANGED <<kind, pc, own, peerVars, got, withheld>>

\* The operator's verdict; the engine makes the flow active again.
Forward(d, text) ==
    /\ pump[d] = "held"
    /\ hand' = [hand EXCEPT ![d].text = text]
    /\ pump' = [pump EXCEPT ![d] = "write"]
    /\ status' = "active"
    /\ UNCHANGED <<kind, pc, own, peerVars, recorded, read, got, withheld>>

Drop(d) ==
    /\ pump[d] = "held"
    /\ withheld' = withheld \cup {hand[d]}
    /\ pump' = [pump EXCEPT ![d] = "read"]
    /\ status' = "active"
    /\ UNCHANGED <<kind, pc, own, peerVars, recorded, read, hand, got>>

\* The write, whose error is not looked at; a blind tunnel counts the bytes
\* after it.
Write(d) ==
    /\ pump[d] = "write"
    /\ IF Sink[d] \in gone THEN UNCHANGED got
       ELSE got' = [got EXCEPT ![Sink[d]] = Append(@, hand[d])]
    /\ IF kind = "blind" THEN Record(d, hand[d]) ELSE UNCHANGED recorded
    /\ pump' = [pump EXCEPT ![d] = "read"]
    /\ UNCHANGED <<kind, pc, own, peerVars, status, read, hand, withheld>>

\* A read fails when its peer hung up, at once or after what it had sent.
ReadFails(d) ==
    /\ pc = "pump" /\ pump[d] = "read"
    /\ Source[d] \in gone
    /\ pump' = [pump EXCEPT ![d] = "done"]
    /\ UNCHANGED <<kind, pc, own, peerVars, flowVars, read, hand, got, withheld>>

-----------------------------------------------------------------------------
Answer(d) == Drop(d) \/ \E text \in {"original", "edited"} : Forward(d, text)

ReadAny(d) == \E last \in 1 .. MaxBytes, held \in BOOLEAN : Read(d, last, held)

-----------------------------------------------------------------------------
(* Properties.                                                             *)

TunnelTypeOK ==
    /\ kind \in {"none", "raw", "blind"}
    /\ pc \in {"front", "detect", "pump", "handed", "returned"}
    /\ own \in 0 .. MaxBytes
    /\ pump \in [Pumps -> {"read", "held", "write", "done"}]
    /\ sent \in [Peers -> 0 .. MaxBytes]
    /\ read \in [Pumps -> 0 .. MaxBytes]
    /\ hand \in [Pumps -> Chunk \cup {NoChunk}]
    /\ got \in [Peers -> Seq(Chunk)]
    /\ recorded \in [Pumps -> Seq(Chunk)]
    /\ withheld \subseteq Chunk
    /\ status \in {"active", "pending", "complete"}
    /\ gone \subseteq Peers

Bytes(chunk) == chunk.first .. chunk.last
BytesOf(chunks) == UNION {Bytes(chunk) : chunk \in chunks}

\* The bytes of direction d that the operator withheld: only the client's are
\* ever offered.
Withheld(d) == IF d = "c2s" THEN BytesOf(withheld) ELSE {}

\* The bytes pump d has read and not disposed of yet.
InHand(d) == IF pump[d] \in {"held", "write"} THEN Bytes(hand[d]) ELSE {}

\* Every byte that was read is delivered once and in order, or was withheld and
\* is never delivered; what the proxy was not itself meant to read reaches the
\* pumps whole: detection, the peeked request line and the probed ClientHello take
\* nothing from it (rawTCP.Handle, passthrough, conn.go:12-15, 76-79).
BytesAccounted ==
    /\ TunnelTypeOK
    /\ kind # "none" => read["c2s"] >= own
    /\ \A d \in Pumps :
          LET there == got[Sink[d]]
              first == IF d = "c2s" THEN own + 1 ELSE 1
          IN  /\ Sink[d] \notin gone =>
                    BytesOf(ToSet(there)) = (first .. read[d]) \ (Withheld(d) \cup InHand(d))
              /\ BytesOf(ToSet(there)) \cap Withheld(d) = {}
              /\ \A i, j \in DOMAIN there : i < j => there[i].last < there[j].first

\* A handler returns only when both peers hung up, and then its flow is
\* complete: no pause is left, nobody is cut off and no deadline of the probe
\* ends a connection that is merely quiet (wg.Wait, conn.go:102).
ReturnsWhenOver ==
    pc = "returned" /\ kind # "none" =>
        /\ status = "complete"
        /\ gone = Peers
        /\ \A d \in Pumps : pump[d] = "done"

\* A connection carries all that either peer said until both are done
\* (tcp.go:29-90, proxy.go:284-309).
TransferIsWhole == BytesAccounted /\ ReturnsWhenOver

\* Byte n of p is past the proxy, or one of the peers is gone.
PastProxy(p, n) ==
    \/ gone # {} \/ pc = "handed"
    \/ \E d \in Pumps : Source[d] = p /\ n \in BytesOf(ToSet(got[Sink[d]])) \cup Withheld(d)

\* When the client has opened the conversation, everything either peer sends
\* gets through, for as long as both are there.
OpenedIsForwarded ==
    \A p \in Peers, n \in 1 .. MaxBytes :
        /\ pc \in {"detect", "pump"} /\ sent[p] >= n /\ (p = "client" => n > own)
        /\ kind = "raw" => sent["client"] - own >= PeekSize
        ~> PastProxy(p, n)

\* When both peers hang up the handler comes to its end.
EndsWithPeers == gone = Peers ~> pc \in {"handed", "returned"}
==============================================================================
